# OED: a verification project

OED (Open Energy Dashboard) collects the readings of energy meters, stores them
in PostgreSQL, and shows them in any unit that a conversion leads to, alone or
in groups of meters. This directory holds TLA+ models of the parts of the server
and of the browser's client whose correctness rests on long sequences of steps or
on several actors, the TLC runs that check them, and TLAPS proofs of what is
proved for all instances. Paths are those of the repository (`src/server/...`,
`src/client/app/...`); a name such as `processData.js:405` is a file and a line.

To run: `tlc -config MCGroupDag.cfg MCGroupDag` checks one configuration,
`tlapm ServerProofs.tla` one module of proofs. `PROJECT.json` says which module
and configuration each run has, which lines each definition models, and for each
property a plausible change of the code that breaks it.

## 1. Inventory

### The parts of the system

| Part | State it keeps | Operations | Works with | Modelled in |
|---|---|---|---|---|
| **Reading pipeline** (`services/pipeline-in-progress`) | the meter's last reading, start, end and `previousEnd`; the table `readings`; the locals of `processData` across rows | `loadArrayInput` → `processData` (row by row) → `validateReadings` → `meter.update` → insert | called by CSV upload, Obvius, MAMAC, eGauge | ReadingPipeline, CounterUploads, DstUploads, CounterLedger |
| **Meters** (`routes/meters.js`, `models/Meter.js`, pages of meters) | `meters`; the client's list of meters; the forms | add, edit, file of meters | every writer of a meter's row; refresh of views | MeterUploads, MeterPages |
| **CSV upload** (`routes/csv.js`, `services/csvPipeline`, pages of uploads) | uploaded files; the form | upload of readings and of meters | pipeline, meters, views | MeterUploads, MeterPages |
| **Automatic acquisition** (eGauge, MAMAC) | none | hourly fetch of each meter | pipeline | MeterUploads |
| **Obvius** (`routes/obvius.js`, `services/obvius`) | `logfile`, `configfile` | receive log and configuration files | makes meters, feeds the pipeline, logs | Acquisition |
| **Log and mail of errors** (`log.js`, `logMailer.js`) | `logmsg`, `logemail` | log, mail the queue, empty it | all parts log | LogMail |
| **Reading views and queries** (`sql/reading`) | two materialized views | refresh; line, radar, bar, compare, 3D | readings, `cik`, groups | ReadingViews |
| **Groups** (`routes/groups.js`, `models/Group.js`, `sql/group`) | `groups` and its two relations of children; the cycle trigger | create, edit, delete, each a transaction | meters; readings of groups read the deep children | GroupDag |
| **Pages of groups** | the client's copy of the groups in two answers; a copy of it per page | examine children and units, save several groups | routes of groups | GroupPages |
| **Units, conversions, Cik** (`services/graph`, routes and models) | `units`, `conversions`, `cik`; the graph in the memory of each refresh | `redoCik`; add, edit, delete | the client sends a refresh after each edit; every query uses `cik` | CikRefresh |
| **Pages of units and conversions**, `conversionSimulation.js` | the client's copy; a copy per page | save, examine a deletion, ask for refreshes | routes of units and conversions | UnitPages |
| **Charts of the client** (graph slice, history, cache, links) | choices with undo and redo; cached readings by key; the link; preferences | choose, undo, query, follow a link | routes of readings | ChartPages |
| **Preferences** (`routes/preferences.js`, `Preferences.js`, their page) | one row; the copy and the form of each tab | get, merge and write; edit, save, leave by the dialog | every chart starts from them | Preferences |
| **Users and sessions** (routes, authenticator, client) | `users`; tokens in the browser's storage and in each tab | log in and out, poll, create, edit, delete | guards every admin route | Accounts |
| Schema and migrations | `migrations` | create, find a path, run it | creates every table | — |
| Maps, baselines, version | one row each | get, edit | — | — |
| Server set-up | connection pool, configuration | wiring of routes | — | — |
| Client: rendering, translations, other pages | — | rendering | client state | — |
| `common/TimeInterval.js`; scripts, containers, tests | — | — | — | — |

### What is hard, and what makes each part correct

*Reading pipeline.* `processData` is one loop of 500 lines whose locals
(`meterReading`, `prevReading`, `inDst`, `splitDst`, `prevEndTimestamp`, …) live
across rows, and partly, through the meter's row, across uploads. Rows are
dropped, batches are refused half-way, the meter is updated before the readings
are inserted and not in one transaction, so a crash falls between the two. Clocks
that go back and forward change which rows overlap. Correct means: a cumulative
reading is the gain of the counter over (nearly) its own interval; no energy is
counted twice; readings neither overlap nor leave holes; a split or cut reading
keeps its rate; limits hold for what is stored.

*Meters.* The hourly poll, an upload, a file of meters and the page of an
administrator each read the whole row of a meter, work, and write every column
back. Correct means: settings are those saved last, memory and readings agree, a
device is caught up with, the views are refreshed when what they show changed.
In the browser, the list of meters is a cache that answers may overtake.

*Obvius and log mail.* The columns of files, the files of a request, and requests
make the same meters side by side; what fails behind an answer SUCCESS is only
logged. Correct means: SUCCESS is meant, every file is accepted in the end, no
error is lost on its way into the mail and none waits for ever.

*Views and queries.* A reading that crosses an hour, a day, a bar or a cell counts
in each by what it shares with it; the two views are refreshed apart. Correct
means: what is shown is what was used, within the accuracy of the view asked, and
stands where it happened.

*Groups.* The edit reads the old children outside its transaction and applies the
difference inside; the trigger checks each inserted edge against what its own
statement sees. Correct means: no cycle (the recursive views rely on it and would
not end), no edge to a group that is gone, edits at the same time merge, every
request is answered in spite of lock waits and deadlocks. The pages alone see to
it that a group's unit suits its meters, and do so on copies of copies.

*Units and Cik.* `redoCik` is some dozens of awaited statements in no transaction,
ends in inserts nobody awaits, and throws into no handler. Correct means: when
things are quiet, `cik` holds for each meter unit and each unit that can be shown
the conversion of a shortest path, and nothing else; the units "X of S" exist as
promised; refreshing again changes nothing. The client decides whether a refresh
is needed, and asks for it once its change is answered.

*Charts.* Effects dispatch from the state that was rendered; the cache is keyed
without ids; preferences and links race at the start. Correct means: what is shown
is what was asked for, links recreate charts, and effects come to rest.

*Preferences.* A save sends the whole form, which was copied when the page opened,
and the row is read, merged and written in two statements. Correct means: the row is
one form as a whole, dates stay in order, a tab gets to see its own saves.

*Accounts.* A token lives in the browser's storage, which the tabs share, and in
each tab. Correct means: accounts change only for admins, a session's parts agree,
an expired token is noticed.

The full list of hazards, each with its line and the properties that cover it, is
in `PROJECT.json`.

## 2. Plan

Done, in this order: `ReadingPipeline` with `CounterUploads` and `DstUploads`;
`GroupDag`; their proofs; `CikRefresh`; `CounterLedger` and the proof that
`CounterUploads` implements it; `MeterUploads`; `ReadingViews`; `MeterPages`,
`GroupPages`, `UnitPages`; `ChartPages`; `Accounts`; `LogMail` and `Acquisition`;
`Preferences`; then the proofs of locks and merges in `GroupDag`, of `Acquisition`,
`Accounts`, `Preferences`, `MeterPages`, `MeterUploads`, `GroupPages`, `DstUploads` and
`ChartPages`.

How the modules compose:

- `CounterUploads` and `DstUploads` EXTEND `ReadingPipeline` with an environment.
  `CounterUploads` instantiates `CounterLedger`, the abstract specification, under
  a refinement mapping (`KeepsLedger`).
- `MeterUploads` instantiates `ReadingPipeline` and uses its operators for a whole
  upload, which it composes with the other writers of the row.
- `Acquisition` EXTENDS `LogMail`: the uploads log errors, the job mails them.
- `GroupPages` and `GroupDag`, `UnitPages` and `CikRefresh`, `MeterPages` and
  `MeterUploads` are two views of one component each: the pages with requests as
  single steps, and the steps of the requests. They share no state.
- `ReadingViews` and `Preferences` share no state either; one configuration checks
  both, a behaviour moving one of them while the other stays as it starts.

Left to do, most valuable first:

1. Prove the half of `NothingOwed` that is about views; the other half rests on
   `RedoCik` being idempotent, which is induction over paths.
2. Types of `CikRefresh`, and its graph being that of the tables when the refresh
   began.
3. Chains of two units with a suffix in `CikRefresh`; renaming and retyping units
   there; the calibration of maps, if creating a map is ever accepted (section 6).

## 3. The modules

### ReadingPipeline

Models `processData.js`, `handleCumulativeReset.js`, `validateReadings.js`,
`loadArrayInput.js` and what they call of `Meter.js` and `Reading.js`.

- `meter` is the row in the database, `readings` the table, `loop` the locals of
  `processData` (one field each; `result` is the array it returns), `pc` where
  the upload is, `cfg` its settings, `last` the row the sender delivered last.
- `StartBatch` is the head of `processData` (locals set from the meter).
  `ProcessRow` is one turn of the loop: `Parse`, then `HonorDst` (`EnterDst`,
  `LeaveDst`, `Repeated`), then `Checked`, then `AfterReset` and `AtFrequency`,
  then `Accept` or `Drop`, in the order of the code. `RejectBatch` is the two
  paths that return nothing at all. `FinishBatch` is the checks and
  `meter.update`; `AbandonBatch` the checks that leave nothing, and the update
  that throws; `InsertReadings` the insert. `CrashInLoop` and `CrashBeforeInsert`
  are the server dying before the update and between it and the insert.
- Times are wall-clock ticks. The code does the same: it keeps the wall-clock
  part "as UTC" and uses the offset only to see that a row crossed a change. A
  value is a fraction, so that prorating is exact. `moment(0)` is `E0` and a
  `NULL` read back is `Invalid`, which compares as false, as moment does.
- The environment comes in as constants: `Rows`, `Delivers` (which row may come
  next), `Configs`, `MayFollow`.

Left out: warnings and messages, decoding of files, sorting (rows come in the
order they are processed in).

### CounterUploads, CounterLedger, DstUploads

`CounterUploads` is `ReadingPipeline` with rows whose value is what a counter shows
at their end, and settings for cumulative data without DST. `Shows` is the counter,
`Used` the energy really used; the two differ because the counter starts again at
midnight.

`CounterLedger` is what such uploads promise, without rows, batches or checks:
`told` is what the meter remembers, `owed` what is counted and not stored yet,
`ledger` what is stored. `Count` moves the memory and what is owed together,
`Store` stores all of it, `Lose` loses all of it. The refinement mapping takes
`told` from the meter's row, `owed` from the readings between the update of the
meter and the insert, `ledger` from the table.

`DstUploads` is `ReadingPipeline` with rows that stand for real time, stamped with
the wall clock and the offset of a zone that has one spring and one fall change.

### MeterUploads

The row of one eGauge meter and all that writes it. `meter` is the row with its
settings and its memory, `readings` the table, `views` what each materialized view
was last refreshed with, `device` how far the device has counted. `jobs` are the
hourly poll (`cron`), an upload of readings (`csv`) and a file of meters (`file`),
each with the row it read; `page` the administrator's page with its copy.

- `Poll` reads the row, `Fetch` asks the device from the row's end on (`FetchFails`
  when it is out of reach), `Process` is the pipeline up to its checks in one step,
  since `processData` awaits nothing between its read and the update; `UpdateMeter`,
  `Insert` and `Refresh` are the statements that follow. `UploadReadings` starts a
  CSV upload, `UploadMeters`, `MergeFile`, `InsertFromFile` are a file of meters,
  `AddMeter`, `OpenPage`, `SaveEdit`, `RefreshAfterEdit`, `Discard` the page.
  `Crash` ends a job anywhere.
- `Shown` is what a view shows when it has just been refreshed: the readings, and what
  each is divided by (`DividedBy`): its own length for a quantity, the seconds of the
  unit's rate (`sec_in_rate`) for a flow and a raw unit, which the two views of the SQL
  treat alike. `Crosses` is when the page asks for a refresh; two units whose rates are
  given for other seconds (`RatesDiffer`) do not cross (section 6).
- `wanted`, `raced`, `lost`, `unshown` are history: the settings saved last, whether
  somebody wrote back a row read before another's write, rows whose loss has a
  known reason, and changes that came with no refresh.

### ReadingViews

Models `create_reading_views.sql`, the functions for 3D, bar and compare, the
refreshes, and what the client asks and makes of it (`threeDHoleAlgorithm.js`,
`ThreeDComponent.tsx`, `calculateCompare.ts`). A tick is half an hour. `readings` is
the table, `seen` the readings each view was refreshed with (a view is a function of
them), `answer` what the last query got. `Upload`, `Refresh`, `Line`, `Radar`, `Bar`,
`Compare` and `ThreeD` are the operations. Values are integers in units of 1/144 so
that every division comes out even, and a property may demand equality.

### MeterPages

The pages that create and edit meters and upload files, and what the browser keeps.
`table` is the server's, `list` the cache of `getMeters` with the state of its
`fetch`; `create`, `local`, `up` are the three forms; `pending` the requests that
are not answered, `files` the uploads of files of meters, by the page and by a
script. Every request is sent, served and answered in steps of their own, and an
answer may be lost. `SaveCreate(warned)` saves from the button or from the warning
of a form that is left; `UploadRow` writes one row of a file; `ReadMeters` is the
moment the server reads the table for an answer that arrives later. `unseen` and
`overtaken` are history.

`odd` says which of the bounded inputs of a row are out of bounds. The area and the
limits are checked by the pages and by the CHECKs of the table (`Accepted`, the area by
the routes too); the order of the dates, and with it the gap, the variation and the
number of errors, by the pages alone (`PagesOnly`). A row of a file gives some of these
inputs (`gives`), in bounds or not; `uploadMeters` checks none of them, so a row with
limits out of order fails at the table and one with such dates is stored (`Fits`).

### GroupDag

Models `routes/groups.js`, `Group.js`, `create_groups_tables.sql` with its
trigger and `delete_group.sql`.

- `groups` and `edges` are what is committed (child groups and child meters are
  one relation), `used` the ids a `SERIAL` has given, `tx[s]` the transaction of
  session `s`: its `pc`, what it read before it began, its uncommitted rows and
  its locks.
- One action is one SQL statement: `EditGroup` and `ReadMeters` (reads outside the
  transaction), `UpdateGroup`, `DisownChildren`, `NextChild`, `InsertChild` (with
  the trigger), `CheckKeys`, `Commit`; `CreateGroup`; `DeleteGroup`, `Unlink`,
  `RemoveRow`. Children are inserted in any order, as replies come back.
- PostgreSQL is external: a statement sees what is committed and its own writes
  (READ COMMITTED), `WaitsFor` says which locks it waits for, a session on a cycle
  of waits may be aborted, and any transaction may fail.

### GroupPages

`groups` and `unitOf` are the server's; `cache` is the client's copy, which comes in
two answers (`GetGroups`, `GetChildren`); `pages[g]` is the copy of all groups that
the page of `g` edits, `draft` the group being created. `AssignChild` starts adding
a child: the page asks for the parents of its group (`asking`) and
`ConfirmAssign` examines what becomes of the units of the group and its parents.
What the client was told of parents it uses again until it forgets it after a minute
(`known`, `ForgetParents`), since the query has no tags: `ParentsOf` is the answer the
page gets, `Untold` the parents it leaves out, in `AskDelete` as in `AssignChild`.
`SaveGroup` sends a request for each group that changed; `Serve` answers them one
by one, in any order, or refuses. `shown`, `refused` and `bereft` are history: what the
page showed when it was saved, the groups of which an edit by that page was refused, and
the groups of which a child was deleted by a page that was not told of them.

Once a group has no meter below it, no page adds a child to any group (`Recomputed` is
empty), as in the code.

### CikRefresh

Models `redoCik.js`, `createConversionGraph.js`, `handleSuffixUnits.js`,
`pathConversion.js`, `createConversionArrays.js`, `Cik.js`, and the routes and
models of units and conversions.

- `units`, `conversions`, `cik` are the tables; `job[j]` is a refresh: its place,
  its graph (`nodes`, `links`), the units with a suffix it read, the paths still to
  look at; `pending[j]` the inserts into `cik` it sent and did not await; `edit` an
  edit of a unit and `cleanup` the tasks the edit did not await.
- One action is one statement that writes, with the reads that lead to it. The
  three reads that fix what a refresh works on (`Unit.getAll`,
  `Conversion.getAll`, `Unit.getSuffix`) are actions of their own.
- `claim` is a history variable: whether a refresh overlapped an admin's request
  (`none`), only other refreshes (`current`), nothing (`alone`), or nothing and
  another refresh was alone on the same tables before it (`again`).
- A conversion is an affine map over the integers modulo 5, where composing and
  inverting are exact: the properties need to tell different maps apart, not
  their decimals. Where shortest paths tie, any may be returned.

### UnitPages

`units`, `links`, `graphic`, `cik`, `views` are the server's; `seen` and `stale` the
client's copy and what of it is to be fetched again; `pages` the copy each page
edits; `confirming` a deletion that was examined; `sent` the requests. A refresh of
Cik is one step here (`RedoCik`), since `CikRefresh` has its steps. `Elsewhere` is
another administrator. `owed` is history: what nobody will compute any more because
an answer was lost, or a page compared with a row that had changed. `Simulated` takes
paths on the graph of the tables as it is, `RedoCik` on the one that `HandleSuffixUnits`
has cut; `OnlyBySuffix` are the units that only the first of them reaches.

### ChartPages

`hist` is the graph slice with its history, `rendered` what React rendered last,
`cache` the readings by key (endpoint, kind, interval, unit — not ids), `link`, `prefs`,
`uploading` the rest of the tab. A choice of the user changes `hist` and no more;
`Commit` is React's render with the effects of the components, which dispatch from
what was rendered before, and the queries the hooks then send; `Answer`,
`AnswerNothing` and `Fail` are the server's answers. `Back`, `Forward` and `Clear` are
history. One chart stands for line, bar, compare and radar, which query alike.

### Accounts

`users` with its sequence `lastId`, the `day` (a token lives for one), `storage` the
token in localStorage, `tab[t]` a tab's token, profile and page, `jobs[s]` a request.
The server takes a request from one await to the next: `Auth`, then `CreateCheck`
and `CreateInsert`; `EditCheck`, `EditRow`, `EditPassword`; `DeleteCheck`,
`DeleteRow`; `Login`, `Verify`, `Details`. The tab applies answers when they arrive.

### Preferences

`row` is the table, `tab[t]` what a tab holds: the copy in its cache (`data`), the
form of the page, the dialog for changes that were not saved (`leaving`), and whether
the copy is to be asked for again (`stale`). `jobs[s]` is a request: `ServeGet` reads
the row; `PostRead`, `PostWrite` and `PostAnswer` are the three awaits of a save.
`Save` is the button, `SaveAll` the dialog, which looks at nothing; `AnswerGet` sets
the form back when the copy changed. `sent`, `forced`, `version`, `seen` and `own` are
history. Five settings stand for the fifteen: the properties tell apart a choice, a
text, two dates and a number.

### LogMail, Acquisition

`LogMail` follows errors from `Say` (the insert is sent and not awaited) through
`Store` and the runs of the cron job (`Read`, `Send`, `Clear`), any of which may fail
or die. `Acquisition` adds the requests of data loggers: `SendLogs` and `SendConfig`
begin one, `FindMeter`, `CreateMeter` and `Load` take a file from column to column,
`Succeed`, `Refuse` and `Finish` answer; `KeepConfig`, `LookFor`, `AddMeter` are a
configuration file; `Crash` is the server dying. `told` are the files an answer
SUCCESS named.

## 4. The runs

All configurations but `MCMeterUploads` and `MCViewsAndPreferences` set
`CHECK_DEADLOCK FALSE`: the number of batches, requests, choices or refreshes is
bounded and the system is idle when the bound is reached. Deadlocks between
transactions are states of their own in `GroupDag` and the subject of
`RequestsAnswered`.

| Run | Question | Properties | Distinct states |
|---|---|---|---|
| `counter_uploads` | is every reading of a cumulative meter explained by its counter, and stored once or lost with its batch? | `AcceptedAreExplained`, `NeverOverAttributed`, `InsertedWithinLimits`, `KeepsLedger` | 378 000 |
| `dst_uploads` | do rows through spring and fall give disjoint, gapless readings of the right rate? | `TimesExact`, `RatePreserved`, `DropsOnlyRepeated` | 424 000 |
| `meter_uploads` | do memory, readings, settings and views of a meter agree, whoever writes its row? | `SettingsKept`, `ReadingsTrue`, `ViewsCurrent`, `DeviceCaughtUp` | 1 743 000 |
| `views_and_preferences` | do charts say what the readings say? is the row of preferences one form, and one's own save seen? | `LinesTrue`, `TotalsTrue`, `CellsInPlace`, `RowIsOneForm`, `OwnSavesShown` | 1 618 000 |
| `meter_pages` | does the browser list the meters there are, is a file applied from its start, whence come inputs out of bounds? | `ListCurrent`, `FileInOrder`, `OddOnlyUnchecked` | 3 200 000 |
| `groups` | cycles only by a race, no dangling edge, edits merge, requests are answered | `CyclesNeedARace`, `NoDanglingEdge`, `EditsMerge`, `RequestsAnswered` | 165 000 |
| `group_pages` | do the pages of groups store what they show and keep units that suit? | `SavesWhatIsShown`, `NeverEmptied`, `AcceptedChildrenFit` | 1 830 000 |
| `cik_refresh` | what does a refresh guarantee after anything that came before? | `RefreshComplete`, `CikSound`, `RefreshIdempotent` | 898 000 |
| `unit_pages` | do the pages of units ask for every computation their changes need, and do deletions leave units to be shown in? | `NothingOwed`, `DefaultsFit` | 983 000 |
| `charts` | do charts show what is selected, do links recreate them, do effects settle? | `ShownAsAsked`, `LinkRecreates` | 555 000 |
| `accounts` | do accounts change only for admins, does a session agree, is expiry noticed? | `ChangesAuthorized`, `SessionAgrees`, `ExpiryNoticed` | 319 000 |
| `acquisition` | is SUCCESS meant, is every file accepted in the end, is every error mailed? | `SuccessMeant`, `ErrorsKept`, `QueueDrains`, `UploadsHeard` | 224 000 |

What each run covers, its bounds, and why they are enough:

**counter_uploads.** One honest meter that uses a unit per tick, whose counter
starts again at tick 5, ticks to 6, rows of up to 2 ticks, up to 3 rows in each of
2 batches, four settings (no reset; end-only; reset inside hours that wrap around
midnight; `reject_bad` with tight limits). Any row may come at any place:
repeated, out of order, with gaps, without length, or unparsable. Two batches are
needed for anything that passes through the meter's row; three rows for a drop
between two accepted rows; the reset at 5 of 6 ticks puts rows on both of its
sides. `AcceptedAreExplained` and `NeverOverAttributed` relate what is stored to the counter through drops, refusals, crashes and
repeated uploads; `InsertedWithinLimits` relates an insert to the checks;
`KeepsLedger` is the refinement of `CounterLedger`.

**dst_uploads.** Spring at instant 3, fall at 9, a change of 2 ticks, 12 instants,
rows of 1 to 3 ticks that follow each other, plain and cumulative, with start and
end or end only, in up to 3 batches of up to 5 rows. The change is two ticks, so
that rows are shorter than, as long as, and longer than the hour that repeats; a
batch may end anywhere, inside that hour too. One case is excluded in
`MCDelivers`: a batch that begins with a row whose clock did not advance, because
`processData.js:368` does not take such a row for a crossing. What happens with
missing rows, mixed uploads and a frequency is in section 6.

**meter_uploads.** A device that counts to 4; one upload, one edit, one file, one
crash, at most two of these together, with the poll in between at any time. Two
are what a race needs; the poll is the third actor. Three units: a quantity, and two
flows, given per minute and per hour. `ViewsCurrent` names what may leave a view behind:
a file uploaded without a refresh, a file of meters, a crash, a stale page, a unit
written back, and an edit from one rate to another of other seconds. `ReadingsTrue` says that a
stored reading is what the device counted, and that what the memory counts as read
is stored, on its way, or lost for a known reason. `DeviceCaughtUp` is liveness.

**views_and_preferences.** Two tabs, two requests at a time, two charts, two titles,
three dates and one that is none, four loads, edits and saves: two admins editing one
setting each and both saving. `RowIsOneForm` says that the row is always one of the
forms that were sent, whole, and that its dates are out of order only if the dialog
saved a form the page calls invalid; `OwnSavesShown` that a tab at rest has read the
row after its last save. For the views: four meters (half-hourly, every hour and a half off the hour,
daily, weekly off the day) with readings over nine days, two holes, two groups,
three intervals, one of which begins and ends inside an hour; views refreshed in any
order between three uploads. Small in states, since almost all of the work is in
the answers: `LinesTrue` compares each point with what the meters did in its time,
computed from single ticks; `TotalsTrue` bars and comparisons with what was used;
`CellsInPlace` the surface with the time of each cell.

**meter_pages.** Two names, two units, four acts of the user, one lost answer, a
page and a script that upload files, one of which gives a meter twice. A name stands
for an identifier; a file of one row is chosen for the meter of that name. Four acts
suffice to create, leave, edit and upload with another question on its way. Forms and
files come with the area, the limits or the dates out of bounds. `OddOnlyUnchecked` says
that only the dates ever get into the table so, from the warning of a new meter or a
file, and that an edit that is stored leaves nothing out of bounds.

**groups.** Three ids, two groups at first, one meter, two sessions, four requests
out of twelve: edits that adopt each other's group, rename, drop all children,
create, delete a group or one that has just been adopted. Two sessions are what a race needs; four requests allow a request
to fail and the state it leaves to be used twice. `EditsMerge` says that a commit
changes exactly the children its request added to or took from what it had read;
`RequestsAnswered` is a liveness property: whoever is served is idle again.

**group_pages.** One group, room for a second, two meters whose units have one
graphic unit of three in common, two saves, any of whose requests may fail; meters
are given another unit meanwhile. `Hurried = FALSE`: a page is used once the groups'
children have come too and nothing is on its way (see section 6). What the client was
told of parents may be older: the run has a deletion that is begun and given up, a group
created above, and within the minute a child added below or the deletion done. Without
the exceptions that the properties name (`Untold`, `bereft`) both `NeverEmptied` and
`AcceptedChildrenFit` fail on this instance. Where an edit was refused, `SavesWhatIsShown`
still speaks of all the other groups.

**cik_refresh.** Six units, four conversions (one both ways), one unit with a
suffix, as in the test data; two refreshes at the same time, two starts, one
request out of a set that adds, edits and deletes conversions, adds, deletes and
edits units, removes the suffix, changes it, and shows and hides units.
`RefreshComplete` and `RefreshIdempotent` say what a refresh achieves that nothing
overlaps, whatever happened before it: failed and half-done refreshes included.
`CikSound` says that even overlapping refreshes store no wrong conversion.

**unit_pages.** Three meters, a group, eight units (one with a suffix, one of no use),
seven conversions; two requests of this administrator, each changing up to two fields
(one in a new unit), one of another administrator, failures and lost answers. kg is
reached from kWh directly and by way of the unit with the suffix, and a meter is shown in
kg by default, so that an examined deletion may lose it; two deletions are what it takes
to leave the group no unit. Without `OnlyBySuffix` the run violates `DefaultsFit`; with
it, what is lost is what the simulation takes to be kept by way of a suffix.

**charts.** Two meters (one shown in kWh or a raw unit, one without an area) and a
group of both, three choices of the user, one odd event (a failure, an answer with
nothing, something forgotten), one upload, a link or none, preferences at any time.
Three choices are what it takes to choose, change and step back. `ShownAsAsked` also
says that effects come to rest: a choice leaves at most six states to go back through.
In these three choices no more than four are seen; removing a meter and adding it again
in turn takes more in the long run, and six is what is proved (section 5).

**accounts.** Two tabs, two requests at a time, two admins, two acts and a new day;
edits that demote either admin, rename, rename to a name that is taken, or leave the
password empty. Two acts are two admins acting on each other.

**acquisition.** Two requests, two log files of one logger, the second of two
columns, a configuration file for the first meter, one run of the mail job at a time
and one fault. The same new meter is made by two files, two requests and the
configuration file.

### Fairness

Safety only: `ReadingPipeline` with both environments, `ReadingViews`, `MeterPages`,
`GroupPages`, `CikRefresh`, `UnitPages`, `ChartPages`, `Preferences`. A crash, an unhandled rejection
or a closed tab may end what they do at any time. Four modules assume fairness:

- `GroupDag`: weak fairness of the steps of each session that is serving a request.
  PostgreSQL answers statements, and aborts one of the transactions on a cycle of
  waits after `deadlock_timeout`; the event loop runs the continuation of each answer.
- `MeterUploads`: the poll happens (cron), and its statements and those of an upload
  are answered. The device answers again and again (strong fairness of `Fetch`: it
  may be out of reach at every other hour). A job is not for ever between its read
  and its update: `processData` awaits nothing there.
- `Acquisition` with `LogMail`: a statement that was sent is executed unless it
  fails, the cron job runs, requests go on, and a logger sends a file again until it
  is told SUCCESS. Failures are bounded by `MaxFaults`.
- `Accounts`: requests are answered and answers applied, and each tab's timer polls
  (`authApi.ts`). Nothing is assumed of the user or of the calendar.

## 5. The proofs

TLC checks small instances; the following hold for all values of the constants
that satisfy the named assumptions. Each component's theorems are in a module of their
own, named after it, but for two modules of two parts each that share nothing:
`ClientPagesProofs` (`GroupPages`; `Preferences`) and `ServerProofs` (`GroupDag`;
`Acquisition` with `LogMail`). Assumptions are shapes of constants (what a row, a file, a request
or a choice is made of) unless something else is said. The bounds that the models need
for TLC (`MaxActs`, `MaxFaults`, `Limit`, ...) are arbitrary numbers in the proofs.

No property below is inductive as it stands; each section says what had to be added.

**CounterUploadsProofs.** `TypeCorrect`, `MeterCoherent` (the meter's row is what the
counter showed at one tick), `ReadingsExplained` (`AcceptedAreExplained`),
`EnergyBounded` (`NeverOverAttributed`, for a meter whose counter never gains more than
was used), `OnlyGoodInserted` (`InsertedWithinLimits`) and `LedgerKept`
(`KeepsLedger`). Assumptions: `RowsAssumption`, `ConfigsAssumption`, `ZoneAssumption`,
`BoundsAssumption`, and `CounterAssumption`: rows that parse show the counter at their
end, and settings are cumulative, without DST, without frequency and without updates of
stored readings. The order, number and overlap of rows are arbitrary.

`MeterMatchesCounter` speaks of the database, and `FinishBatch` copies `loop.reading`
and `loop.endTz` there: so `IInv` also says `LoopMatchesCounter`, that the locals belong
to one row at every turn of the loop, dropped rows included. It is what makes a gain the
difference of two known ticks, from which `AcceptedAreExplained` follows; the stored
readings are accepted ones, and the bound on energy follows from the gap check.
`OnlyGoodInserted` is about steps: what `FinishBatch` leaves to be inserted has passed
the checks (`KeptAreGood`).

`LedgerKept` is the refinement: `CounterUploads` implements `CounterLedger`. The initial
states map to its initial state. Under `IInv`, `FinishBatch` is a `Count`,
`InsertReadings` a `Store` (or a `Lose`, when the table refuses the statement),
`CrashBeforeInsert` a `Lose`, and every other step leaves the ledger's variables alone.
The work is in the insert: of the owed readings with one start, the first in the batch
is stored if the table has none of that start, so what is added has each start that was
owed and missing once (`StoredIsFirsts`, `StoredOnce`, over the least index of each
start).

**DstUploadsProofs.** `ClockExact` (`TimesExact`), `RatesKept` (`RatePreserved`) and
`OnlyRepeatedDropped` (`DropsOnlyRepeated`), for any two changes of the clock, any
lengths of rows, any cutting of them into batches, and any checks, rejections and
crashes. Assumptions: `RowsAssumption`, `ConfigsAssumption`, `ZoneAssumption`,
`BoundsAssumption`, and `YearAssumption`: one change forward and one back, the repeated
hour after the skipped one, and a time zone library that knows them. The hypothesis
`SteadyMeter` describes the meter and its uploads: rows carry the offsets of the zone and
follow each other without a pause, none is longer than the season, all uploads honour DST
and keep to cumulative or to plain data, and no batch begins with a row whose clock did
not advance. Each of these is needed: the ways in which the code fails without a pause, a
steady `honorDst` or such a first row are in section 6. `RatesKept` also takes the
meter's frequency to be at most the hour that is skipped, for the same reason. `TLC`
checks on `dst_uploads` that its instance satisfies both hypotheses (`SteadyAssumption`,
`FrequencyAssumption` of `MCDstUploads`).

The difficulty is the hour that repeats, in which the end of the last row is not where
the used time ends. `Frontier` is that time: the previous end as long as it is set, the
end of the last row otherwise. `TimeInv` says of the meter's row and of the locals that
they remember the last row and, only inside the hour that repeats, a previous end at or
after the row's (`Remembers`); that the accepted readings lie in line between the
frontier of the meter and that of the loop (`InLine`), join each other and the loop's
frontier (`Joined`) and begin at the meter's (`Begun`); and that no flag but the one of
the repeated hour survives a turn (`IsLocals`). A turn of the loop is then one of four
cases, by the way the row lies: it keeps its offset, enters DST, leaves it, or lies
inside the hour that repeats. For each case a lemma says what the three steps of
`HonorDst` make of the row, and a second what is accepted.

**ServerProofs, groups.** `TypeCorrect`, `TriggerSuffices` (`CyclesNeedARace`),
`NothingDangles` (`NoDanglingEdge`), `EditsDoMerge` (`EditsMerge`), for any number of
groups, meters, requests and sessions. There are three invariants, each proved on top of
the one before:

- As long as no transaction committed edges that another inserter did not see, the
  committed relation is acyclic. A commit publishes what its transaction saw, so `IInv`
  says of each open transaction `SeesNoCycle`: what it sees is acyclic unless others
  committed edges behind its back (`missed`) or have raced before. Two lemmas carry it:
  fewer edges keep a relation acyclic, and so does an edge whose ends are not joined
  the other way round, which is the trigger's test. Acyclicity and reachability are
  stated with closed sets instead of recursion, so that these lemmas are first-order.
- That no edge dangles is a matter of locks. `LockInv` says of each transaction that the
  rows it has locked are there (`Holds`), that the edges it added name only groups whose
  keys it shares, or its own (`Keyed`), and that a row about to be deleted is named by
  no edge its transaction sees (`Unnamed`); and of each two that what they lock is apart
  (`Apart`): an exclusive lock excludes a shared key. So a commit that removes a group
  meets no other transaction with a new edge to it, and one that adds an edge finds
  both ends. A delete that found no row to lock removes none when it commits.
- `MergeInv` says what an edit has inserted and deleted of what it is to, at each of
  its statements; at the commit nothing is pending.

**ServerProofs, acquisition.** `NoErrorLost` (`ErrorsKept`), `SuccessIsMeant` (`SuccessMeant`),
for any files, columns, configuration files, requests, runs of the cron job and faults.
`BlamesAssumption`: the errors that are followed include those that name a meter and a
file. `ObviusAssumption`: the meters that a configuration file describes are no files,
and there is at least one. `LogInv` adds to `ErrorsKept` that a run of the job has in its
batch all that the table holds but for what came since (`Covers`), which is why deleting
the whole table loses only what is excused. `AcqInv` says that a file that has come to
column `i` has every column before that settled (`Behind`): its readings stored or an
error on its way. Nothing settled becomes unsettled (`SettledStays`).

**AccountsProofs.** `SessionsAgree` (`SessionAgrees`), `ChangesAreAuthorized`
(`ChangesAuthorized`), for any accounts, tabs and requests. `AccountsAssumption` says,
besides shapes, that there is an admin at the start. `Vouched` is the heart: a request
past the authenticator has had, at some moment while it was under way, a sender that was
an admin with a token of that day. The rest says how the token and the profile of a tab
and the answers on their way relate.

**ClientPagesProofs, preferences.** `FormsStayWhole` (`RowIsOneForm`), `OwnSavesAreShown`
(`OwnSavesShown`). `PreferencesAssumption`: the dates of the row are in order at the
start. The invariant: what a save is about to write is one of the forms sent (all
fields of a whole form replace the row's, so reading before writing does no harm), the
forms sent are in order unless the dialog was used; and unless a tab is to ask again, no
answer on its way is older than its last save (`Fresh`).

**MeterPagesProofs.** `ListIsCurrent` (`ListCurrent`), `FilesApplyInOrder`
(`FileInOrder`), `OddComesUnchecked` (`OddOnlyUnchecked`). `RowsAssumption`. A list
is current at rest because of what will be listed once the answer on its way has come:
`ComingCurrent` says that it is the table unless the browser will ask again or somebody
the property names did not tell it. `WrittenExist` says that what a file or a form has
written is there: meters are never deleted. `Checked` says what a request that is sent
has passed; with `Accepted`, what a row of a file must pass too, it is all that
`OddOnlyUnchecked` needs.

**MeterUploadsProofs.** `SettingsAreKept` (`SettingsKept`), `ViewsAreCurrent`
(`ViewsCurrent`), for any units with any seconds, device, files and number of events. `RowsHeld` says that
a job which is about to write the row holds the settings saved last, unless they were
saved since its read; `ShownOrDue` that a view which does not show what it should will be
refreshed by the job or the page that owes it; neither of the two looks into the
readings. `ReadingsAreTrue` (`ReadingsTrue`) does. Its invariant, `TruthInv`, says of the
row of the meter, wherever one is held (the table, the page, a job), that its memory is
the device's counter at the end it remembers (`Sound`) and that everything before that
end is known (`Covered`): stored, lost for a known reason, or in the result of a job that
is about to insert it; and of the rows a job is about to process, that they follow on from
what is known (`Asked`). A row that is put back from an old copy therefore remembers an
older end, never a wrong counter. What `Processed` makes of rows of any number is proved
turn by turn, by taking the least turn at which it would fail (`LeastNat`, `AllNat`,
`TurnsExist`): each `Turn` inserts one reading, that from the end remembered to the end of
the row (`TurnIsSteady`).

**ClientPagesProofs, groups.** `NoneIsEmptied` (`NeverEmptied`), `SavedIsShown`
(`SavesWhatIsShown`), `AcceptedFit` (`AcceptedChildrenFit`), for any groups, meters,
units, places and number of saves, with failures. The hypothesis `~Hurried` is that the
pages are used once the client has the groups' children and the answers to what was
sent; without it the code breaks `NeverEmptied` (section 6). It says nothing of the
parents: what the client was told of them may be older than the groups, and what it
leaves out is the exception the properties name. `StoredAssumption`: each
group at the start has a meter below it. `IInv` says that a page in use is a copy of the
server's groups with the children of one group changed (`PageRows`), with the meters it
shows those it computes (`Sound`); and, while the requests of a save are served in any
order, that every group whose request is done, or that needed none, is as shown
(`Written`). As only one group's children differ, the meters below the others are those
of the page before or after its edit, at every moment in between: none of them is empty
(`Kept`), unless it is above a group of which a child was deleted on an old answer.

**ChartPagesProofs.** `ShownIsAsked` (`ShownAsAsked`), `LinksRecreate`
(`LinkRecreates`), for any meters, groups, units, dates and links, and any number of
choices, uploads, failures and keys forgotten. `ChartAssumption`: neither the value for
no meter nor the number read from "undefined" in a link is a meter or group.
`LinksAssumption`: what a link lists are meters and groups. There are three invariants.

- `Settles` is about the effects. `Owe` is how many states they still put on the history
  at most: one for a shift that is due; one for a single pill when none is chosen, and
  three when one is that is gone: the effect chooses the pill, then takes the choice it
  was rendered with for stale and chooses none, and the next render chooses the pill
  again; for several pills one for a choice that is stale and one for an addition. `EffectsLead` says that a render pays what was owed: what is then on the
  history and owed is no more than before. At rest the chosen pill fits the selection
  (`RestFits`), which is why an addition, four states itself, owes at most two. So a
  choice costs six, and preferences that arrive late cost four, once (`Credit`).
- `CacheOK` says of each entry of the cache that its readings are of the unit and dates
  of its key and of the last upload whose end the tab has seen, or missed (`EntryOK`),
  and of each query on the screen that what it asks for is there, under way or missed
  (`Covered`). That the hooks of a state have distinct keys (`HooksKeyed`) is what makes
  a fetch that is begun the one its query needs.
- `LinkInv` says of a tab opened from a link that its state has all that the chart
  shows, through the default state and the late preferences until the link is read, and
  through the effects after it. Only the pill may differ for a while: a link without one
  says "undefined", a number that no meter has, and the effects put it right.

**Model-checked only.** `NothingOwed`, `DefaultsFit`, `RefreshComplete`,
`CikSound`, `RefreshIdempotent`, `LinesTrue`, `TotalsTrue` and `CellsInPlace`:
conversions along paths and sums over
readings compute over data, and what they give for every input
needs an induction over it. The library's induction theorems are out of the prover's
reach, and the argument by the least failing turn, used for the loop over the rows of an
upload, does not carry over to sets folded in an arbitrary order or to paths. `RequestsAnswered`,
`DeviceCaughtUp`, `QueueDrains`, `UploadsHeard` and `ExpiryNoticed` are liveness under
fairness, which is out of reach too.

## 6. Where the code and its own words differ

Met while modelling. Those marked with a setting appear as counterexamples when the
constant named is changed in the configuration named; for the others the property
that comes closest excludes the case by a named condition.

*Reading pipeline*

- `processData.js:664`: `splitDst`, set at 405, is cleared only when the row is
  accepted (the comment at 663 speaks of each reading). A cumulative row that enters
  DST after a missing one is dropped by the gap check, and the next row is split at the
  old change. A crossing that falls into a missing row is not seen at all. (`Missing = 1`
  in `MCDstUploads.cfg` violates `TimesExact`, in both ways.)
- `processData.js:774`: an upload without `honorDst` stores `NULL` as `previous_end`,
  where `create_meters_table.sql:30` means `moment(0)`; the next upload with
  `honorDst` reads an invalid moment, takes itself to be inside the hour that
  repeats, and drops every row. (`MixedDst = TRUE` violates `DropsOnlyRepeated`, checked
  alone, and with it the invariants.)
- `processData.js:586,596,611`: with `useMeterFrequency` a row of just that length that
  enters DST looks too long by the clock, its start is moved, and the split prorates
  its whole value over the shortened row: twice the energy. (`Frequency = 3`,
  `MinLength = 3`, `Spring = 8` and `Fall = 14` violate `RatePreserved`.)
- `processData.js:368`: a first row of a batch whose clock did not advance is not taken
  for a crossing.
- `readMamacMeters.js:14` requires a path that does not exist, so the script that adds
  MAMAC meters cannot start.

*Meters*

- `metersApi.ts:53` invalidates nothing when a meter is added (the comment at
  `CreateMeterModalComponent.tsx:192` relies on it), so a meter that an older answer
  overtakes disappears from the list until the meters are asked for again.
  (`overtaken` in `ListCurrent`.)
- The save from the warning of a new meter's form looks at fewer inputs than its
  button (`CreateMeterModalComponent.tsx:301`), and than the warning of the page that
  edits: a new meter is stored with its dates out of order, or a gap, a variation or a
  number of errors below zero, which neither `routes/meters.js` nor the table checks.
  A file of meters passes these by too. (`FromWarning` and `FromFile` in
  `OddOnlyUnchecked`.)
- `create_reading_views.sql:120,245` divide a flow by the seconds of its unit, and
  `EditMeterModalComponent.tsx:235` asks for no refresh when a meter goes from one flow
  or raw unit to another of other seconds: both views keep the old rates until something
  else refreshes them. (`RatesDiffer`, which sets `unshown`, in `ViewsCurrent`.)
- A change of the number of errors alone can neither be saved nor is it warned of
  (`EditMeterModalComponent.tsx:94`); undoing a change of unit restores the unit and
  not the limits (253–255); saving an edit erases the place of the meter unless it is
  typed again.
- `uploadMeters.js:93`: an upload that updates meters and names one, as the page always
  does, is refused for a file of more than one row. The comment of `uploadMeters` holds: what was written is a beginning.
- The default of gzip is true on the server and false in the client.

*Groups*

- `create_groups_tables.sql:152`: two edits at the same time pass the trigger and
  commit a cycle, which the recursive view assumes cannot be ("because the graph is
  acyclic", line 41). (`CyclesNeedARace` excludes it.)
- `EditGroupModalComponent.tsx:861` examines only the immediate parents of a group
  (`get_parents_by_group_id.sql:4`): a grandparent may keep a unit that no longer suits.
- The page gives up the unit of an affected parent with `-99`, which
  `routes/groups.js:279,380` refuse (minimum 1) though `models/Group.js:53` maps it to
  `NULL`: the group is saved and its parent is not. (`Accepts` in `GroupPages`.)
- The groups come first and their children in a second answer: a page saved in between
  writes what it has not yet. (`Hurried = TRUE` in `MCGroupPages.cfg` violates
  `NeverEmptied`.)
- `EditGroupModalComponent.tsx:831,976`, `groupsApi.ts:86`: the parents of a group are
  asked for with no tags, so that an answer is used again for a minute whatever was
  edited meanwhile. A group that was just put into another is deleted from under it, and
  the other may be left without a meter; a child added to it leaves the new parent with a
  unit that does not suit. (`bereft` in `NeverEmptied` and `Untold` in
  `AcceptedChildrenFit`; line 978 says "If there are parents then you cannot delete this
  group".)
- The place typed for a group goes to every group the save writes (355).

*Units, conversions, Cik*

- `handleSuffixUnits.js:63`: a refresh that finds a conversion another refresh just made
  adds no link to its own graph, so Cik lacks entries until the next refresh, although
  `redoCik.js:13` promises them.
- `handleSuffixUnits.js:168` (comment 159): a suffix changed while a refresh runs leaves
  the units made for the old one. Line 83 writes a whole row back and undoes an edit
  made meanwhile; what is made for units with a suffix that reach each other depends on
  the order in which they are read (122); conversions made for a unit stay when the
  conversion they rest on is deleted (126).
- `conversionSimulation.js:29`: a deletion is simulated on a graph whose links out of
  units with a suffix are not cut. A unit that is reached directly and by way of one with
  a suffix is taken to be kept when the direct conversion is deleted, the refresh cuts the
  other way, and a default graphic unit is left that nothing converts to. (`createConversionArrays.js:53` takes
  units with a suffix to have been dealt with; `OnlyBySuffix` in `DefaultsFit`.)
- `EditConversionModalComponent.tsx:229`: deletions from or to a unit of type suffix
  are not simulated at all. (`Examined` in `UnitPages`.)
- `EditUnitModalComponent.tsx:327,333,375`: a suffix typed for the unit of a meter makes
  it a unit of type suffix.
- The forms that create units and conversions send what the schemas refuse
  (`units.js:142`, `conversions.js:104`).
- Renaming a unit does not rename the units made for its suffix.

*Views and queries*

- `threeDHoleAlgorithm.js:98,99`, `ThreeDComponent.tsx:185`,
  `create_function_get_3d_readings.sql:122–142`: rows of the surface are cut from the
  first point on, so that cells after midnight stand under the day before when
  readings do not begin at midnight. `CellsInPlace` is about the order and the value of
  the cells.
- A group's line leaves a meter out on its first and last partial day
  (`create_reading_views.sql:514`); the least flow of an hour (323) may lie above its
  average.
- A negative first cell is taken for a surface of another kind
  (`ThreeDComponent.tsx:76`). (`Refused` in `ReadingViews`; the run has no such value.)

*Charts*

- `UploadCSVApi.ts:45`, `readingsApi.ts:43,49,79`: after an upload a chart that is
  mounted asks for what it lacks, which is nothing. (`missed` in `ShownAsAsked`.)
- An id chosen while a fetch of its key is pending is not asked for (`readingsApi.ts:51`).
- `CompareLineControlsComponent.tsx:46`, `graphHistoryMiddleware.ts:15`: a step back may
  leave the shift of compare line with the dates of another.
- A raw unit chosen with area normalization on stays normalized and the switch is
  hidden (`AreaUnitSelectComponent.tsx:45`).

*Preferences*

- `models/Preferences.js:24`, `PreferencesComponent.tsx:374`: a save sends the whole
  form and the server writes all of it, so a form that was opened before somebody else
  saved undoes their changes, those of settings nobody touched here included.
- `PreferencesComponent.tsx:227`: a number that was typed is kept as a text
  (`items.ts:62` says number), and `routes/preferences.js:94` refuses texts: any save of
  a changed number is answered 400. So is a save of the form of the default state, which
  has settings of its own.
- `UnsavedWarningComponent.tsx:32`: the dialog saves a form that the page calls invalid
  (`PreferencesComponent.tsx:202`, `data.ts:202` "Must be between {min} and {max}."), so
  that the dates of meters are stored out of order. (`forced` in `RowIsOneForm`.)
- An answer that brings somebody else's changes throws away what is being typed; a read
  of the row that fails is never answered.

*Users*

- `routes/users.js:192,195`: the test that an admin remains compares the row of a count
  (`models/User.js:65`) with 2 and so never holds; the last admin can be demoted.
- An edit that leaves the password empty is refused (`users.js:169`); an edit refused for
  its name has changed the password already (220); users with names of three or four
  characters can be created and not deleted (240).

*Obvius and log mail*

- `logMailer.js:118` deletes the whole table: errors logged after its read are never
  mailed. (`excused` in `ErrorsKept`.) When it dies between the mail and the delete
  they are mailed again. With `config.mailer` "none" the table grows for ever.
- `log.js:51` documents an argument `skipMail` that nothing looks at.
- `obvius.js:261`: of several configuration files in a request, the second answer throws
  and the rest is not read; a configuration upload without files is never answered.

*Maps*

- `routes/maps.js` refuses additional properties, and the client sends some with every
  map: creating a map is always refused, an edit never answered.

## 7. What is not modelled

- Parsing, formatting, file and network I/O, unzipping, authentication libraries,
  rendering, translations. Columns of meters, groups and units that no modelled
  decision reads, names and notes (a flag where a save depends on one).
- Schema and migrations: run by hand with the server stopped. The constraints of the
  tables are in the modules of their components.
- Maps, baselines, version: one statement each on one row. What the charts make of the
  preferences at the start of the client is in `ChartPages`.
- Server set-up: the pool of connections shows in the models as statements that
  interleave.
- Pages of settings, maps and visual groups: one form with one request, or drawing.
- `TimeInterval`: a pair of moments.
- MAMAC meters: they end in the pipeline after parsing CSV. The export of raw readings.
- In `CikRefresh`: renaming or retyping a unit, the `NULL`s that deleting a conversion
  writes into meters and groups, and conversions of slope 0.
- In `Accounts`: roles other than admin and csv, the tokens of Obvius, the console
  scripts. In `ChartPages`: maps, bar widths, rates, minimum and maximum.
- Several configuration files in one request, and Obvius requests that change nothing.
