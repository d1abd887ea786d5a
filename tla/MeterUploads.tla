---------------------------- MODULE MeterUploads ----------------------------
(***************************************************************************)
(* The row of one eGauge meter, and everything that writes it: the job     *)
(* that polls the device every hour, uploads of readings and of meters as  *)
(* CSV files, and the administrator who creates it and edits it from a     *)
(* page of the browser.  Each reads the whole row, works, and writes the   *)
(* whole row back, and nothing locks it meanwhile.                         *)
(*                                                                         *)
(* What an upload makes of its rows is ReadingPipeline, here done in one   *)
(* step: processData awaits nothing between its read and its update of the *)
(* meter's row.  Validity checks of readings, the resets of a counter and  *)
(* changes of offset are left to the modules that check them.              *)
(***************************************************************************)
EXTENDS Integers, Sequences, FiniteSets, SequencesExt

CONSTANTS
    NoUnit,         \* -99 in the code, NULL in the table
    Units,          \* the units a meter may have
    Kind(_),        \* "quantity" or another representation of a unit
    Seconds(_),     \* sec_in_rate: the seconds the rate of a unit is given for
    Graphics,       \* the units a meter may be shown in
    Compatible(_),  \* the graphic units a unit of a meter converts to, by Cik
    Entered,        \* bound: what an administrator may enter for a new meter
    InFiles,        \* bound: what files of meters may hold
    LastTick,       \* bound: when the device stops
    Limit,          \* bounds on the files of readings, saves, files of meters and crashes
    MaxEvents       \* bound on all of these together

Events == {"uploads", "edits", "files", "crashes"}

ASSUME MeterAssumption ==
    /\ NoUnit \notin Units \cup Graphics
    /\ \A u \in Units : Compatible(u) \subseteq Graphics /\ Seconds(u) \in Nat \ {0}
    /\ LastTick \in Nat /\ MaxEvents \in Nat
    /\ Limit \in [Events -> Nat]

VARIABLES
    meter,      \* the meter's row: its settings and its memory of the last reading
    readings,   \* the readings table
    views,      \* what each materialized view shows
    device,     \* the device has counted up to this tick
    jobs,       \* the requests and the cron job that write the row
    page,       \* the page an administrator edits the meter on
    used,       \* how much of the bounds has been used
    wanted,     \* ghost: the settings an administrator saved last
    raced,      \* ghost: a row read before that was written after it
    lost,       \* ghost: rows no job will store any more
    unshown     \* ghost: something changed that no request shows in the views

vars == <<meter, readings, views, device, jobs, page, used, wanted, raced, lost, unshown>>

AnyDelivery(c, n, prior, row) == TRUE
AnyOrder(c, d) == TRUE

Pipeline == INSTANCE ReadingPipeline WITH
    Rows <- {}, Configs <- {}, Delivers <- AnyDelivery, MayFollow <- AnyOrder, NoRow <- 0,
    Untils <- {0}, Day <- 24, MaxRows <- 0, MaxBatches <- 0,
    meter <- 0, readings <- {}, pc <- "idle", cfg <- 0, loop <- 0, last <- 0, batches <- 0

E0 == Pipeline!E0
Invalid == Pipeline!Invalid

Jobs == {"cron", "csv", "file"}
Views == {"daily", "hourly"}

(* No row: the meter is not in the table, or nobody holds its row.         *)
Absent == <<>>
Exists == meter # Absent

(* The device counts one unit of energy per tick.                          *)
Shows(t) == t

Settings(m) == [unit |-> m.unit, graphic |-> m.graphic, displayable |-> m.displayable,
                enabled |-> m.enabled, gps |-> m.gps]

(* A new meter has been read up to the first moment: no reading yet.       *)
NeverRead == [reading |-> 0, start |-> E0, end |-> [t |-> E0, off |-> 0], previousEnd |-> E0]

NewRow(given) ==
    [unit |-> given.unit, graphic |-> given.graphic, displayable |-> given.displayable,
     enabled |-> TRUE, gps |-> TRUE, mem |-> NeverRead]

-----------------------------------------------------------------------------

(* Meter.makeMeterDataValid: without a unit a meter is not shown.          *)
Valid(m) ==
    IF m.unit = NoUnit THEN [m EXCEPT !.graphic = NoUnit, !.displayable = FALSE] ELSE m

(* The materialized views join readings, meters and units: a meter without *)
(* a unit has no rows.  The reading of a quantity is divided by its own    *)
(* length, that of another unit by the seconds of the unit's rate.         *)
OwnLength == 0
DividedBy(u) == IF Kind(u) = "quantity" THEN OwnLength ELSE Seconds(u)

Shown == IF ~Exists \/ meter.unit = NoUnit THEN {}
         ELSE {[reading |-> r, per |-> DividedBy(meter.unit)] : r \in readings}

Sum == used["uploads"] + used["edits"] + used["files"] + used["crashes"]
Allowed(what) == used[what] < Limit[what] /\ Sum < MaxEvents
Used(what) == Allowed(what) /\ used' = [used EXCEPT ![what] = @ + 1]

(* A write of the row.  Jobs that hold a row read before it are now stale. *)
AdminWrites(m) ==
    /\ meter' = m
    /\ wanted' = Settings(m)
    /\ raced' = FALSE

Overtaken(js) == [j \in Jobs |-> [js[j] EXCEPT !.stale = @ \/ js[j].pc = "update"]]

-----------------------------------------------------------------------------
(* One upload: what processData makes of the rows.                         *)

Row(t) == [value |-> Shows(t + 1), start |-> t, startTz |-> 0, end |-> t + 1, endTz |-> 0,
           bad |-> FALSE]

RowsBetween(from, to) == [i \in 1..(to - from) |-> Row(from + i - 1)]

(* The arguments readEgaugeData gives, and those of a CSV file of the same *)
(* readings: cumulative, no reset, no gap, stored ones stay.               *)
Config(honorDst) ==
    [cumulative |-> TRUE, endOnly |-> FALSE, honorDst |-> honorDst, reset |-> FALSE,
     resetStart |-> 0, resetEnd |-> 0, gap |-> 0, frequency |-> 0, variation |-> 0, slack |-> 0,
     update |-> FALSE, checks |-> "reject_disabled", minDate |-> 0, maxDate |-> 0,
     minVal |-> 0, maxVal |-> 0, maxError |-> 0]

Locals(c, m) ==
    [n |-> 0, from |-> 0, reading |-> m.reading, prev |-> [start |-> m.start, end |-> m.end.t],
     prevTz |-> m.end.off, startTz |-> m.start, endTz |-> m.end, result |-> <<>>, allOk |-> TRUE,
     inDst |-> c.honorDst /\ m.previousEnd # E0, inDstStop |-> FALSE, splitDst |-> FALSE,
     prevEnd |-> IF c.honorDst THEN m.previousEnd ELSE Invalid,
     origEnd |-> E0, startUse |-> E0, zoneUntil |-> E0]

Turn(c, l, row) == Pipeline!Step(c, Pipeline!Examined(c, l, row), row)

Processed(c, m, rows) ==
    LET upTo[i \in 0..Len(rows)] ==
            IF i = 0 THEN Locals(c, m) ELSE Turn(c, upTo[i - 1], rows[i])
    IN  upTo[Len(rows)]

Memory(l) == [reading |-> l.reading, start |-> l.startTz, end |-> l.endTz,
              previousEnd |-> l.prevEnd]

(* Rows that are dropped because there is a gap or nothing before them: an *)
(* edit moved the memory back after the device had been asked for what     *)
(* followed it.                                                            *)
Skipped(m, rows, l) ==
    {rows[i].start : i \in {k \in DOMAIN rows :
        /\ rows[k].start >= m.end.t
        /\ \A p \in DOMAIN l.result : l.result[p].start # rows[k].start}}

-----------------------------------------------------------------------------
Idle == [pc |-> "idle", honorDst |-> FALSE, refresh |-> FALSE, rows |-> <<>>,
         row |-> Absent, result |-> <<>>, todo |-> {}, stale |-> FALSE]

Closed == [pc |-> "closed", row |-> Absent, todo |-> {}]

Init ==
    /\ meter = Absent
    /\ readings = {}
    /\ views = [v \in Views |-> {}]
    /\ device = 1
    /\ jobs = [j \in Jobs |-> Idle]
    /\ page = Closed
    /\ used = [e \in Events |-> 0]
    /\ wanted = Absent
    /\ raced = FALSE
    /\ lost = {}
    /\ unshown = FALSE

Tick ==
    /\ device < LastTick
    /\ device' = device + 1
    /\ UNCHANGED <<meter, readings, views, jobs, page, used, wanted, raced, lost, unshown>>

(* updateEgaugeMeters reads the enabled meters and asks each device; the   *)
(* views are refreshed in any case.                                        *)
(* Fault: only meters that are shown are asked.                            *)
PolledIfShown == meter.enabled /\ meter.displayable

Polled == meter.enabled

Poll ==
    /\ jobs["cron"].pc = "idle"
    /\ jobs' = [jobs EXCEPT !["cron"] =
                    IF Exists /\ Polled
                    THEN [Idle EXCEPT !.pc = "fetch", !.honorDst = TRUE, !.row = meter,
                                      !.refresh = TRUE]
                    ELSE [Idle EXCEPT !.pc = "refresh", !.todo = Views]]
    /\ UNCHANGED <<meter, readings, views, device, page, used, wanted, raced, lost, unshown>>

(* getMeterReadings asks for everything after the last reading, or for all *)
(* the device has.                                                         *)
Fetch ==
    /\ jobs["cron"].pc = "fetch"
    /\ LET end == jobs["cron"].row.mem.end.t
       IN  jobs' = [jobs EXCEPT !["cron"].pc = "process",
                        !["cron"].rows = RowsBetween(IF end = E0 THEN 1 ELSE end, device)]
    /\ UNCHANGED <<meter, readings, views, device, page, used, wanted, raced, lost, unshown>>

(* The device does not answer: updateAllMeters catches the error.          *)
FetchFails ==
    /\ jobs["cron"].pc = "fetch"
    /\ jobs' = [jobs EXCEPT !["cron"] = [Idle EXCEPT !.pc = "refresh", !.todo = Views]]
    /\ UNCHANGED <<meter, readings, views, device, page, used, wanted, raced, lost, unshown>>

(* What a request to upload readings may ask, as far as it matters here.   *)
Requests == [honorDst : BOOLEAN, refresh : BOOLEAN]

(* POST /csv/readings: uploadReadings finds the meter.  The file holds all *)
(* readings of the meter up to some tick.                                  *)
UploadReadings(to, request) ==
    /\ jobs["csv"].pc = "idle"
    /\ Allowed("uploads")
    /\ Exists
    /\ Used("uploads")
    /\ jobs' = [jobs EXCEPT !["csv"] =
                    [Idle EXCEPT !.pc = "process", !.honorDst = request.honorDst,
                                 !.refresh = request.refresh, !.rows = RowsBetween(1, to)]]
    /\ UNCHANGED <<meter, readings, views, device, page, wanted, raced, lost, unshown>>

(* An upload that failed: the cron job still refreshes, a request answers. *)
Failed(j) ==
    jobs' = [jobs EXCEPT ![j] = IF j = "cron" THEN [Idle EXCEPT !.pc = "refresh", !.todo = Views]
                                ELSE Idle]

(* Fault: the job goes on with the row it had when it asked the device.    *)
RowReadBefore(j) == IF j = "cron" THEN jobs[j].row ELSE meter

(* processData reads the row again: the request to the device took time.   *)
RowRead(j) == meter

(* processData up to its update of the row, which throws when the end kept *)
(* for the change of offset is not a time.                                 *)
Process(j) ==
    /\ jobs[j].pc = "process"
    /\ LET c == Config(jobs[j].honorDst)
           m == RowRead(j)
           l == Processed(c, m.mem, jobs[j].rows)
       IN  IF c.honorDst /\ l.prevEnd = Invalid
           THEN Failed(j) /\ UNCHANGED lost
           ELSE /\ jobs' = [jobs EXCEPT ![j].pc = "update", ![j].result = l.result,
                                ![j].rows = <<>>, ![j].stale = FALSE,
                                ![j].row = [m EXCEPT !.mem = Memory(l)]]
                /\ lost' = lost \cup Skipped(m.mem, jobs[j].rows, l)
    /\ UNCHANGED <<meter, readings, views, device, page, used, wanted, raced, unshown>>

(* meter.update: every column, from the row read before.                   *)
UpdateMeter(j) ==
    /\ jobs[j].pc = "update" /\ j # "file"
    /\ meter' = Valid(jobs[j].row)
    /\ raced' = (raced \/ jobs[j].stale)
    /\ unshown' = (unshown \/ jobs[j].row.unit # meter.unit)
    /\ jobs' = [jobs EXCEPT ![j].pc = "insert", ![j].row = Absent, ![j].stale = FALSE]
    /\ UNCHANGED <<readings, views, device, page, used, wanted, lost>>

(* insertOrIgnoreAll: readings that are there already stay.                *)
Inserted(rs) == Pipeline!Stored(rs, DOMAIN rs, readings, FALSE)

Insert(j) ==
    /\ jobs[j].pc = "insert"
    /\ readings' = Inserted(jobs[j].result)
    /\ jobs' = [jobs EXCEPT ![j] = IF @.refresh THEN [Idle EXCEPT !.pc = "refresh", !.todo = Views]
                                   ELSE Idle]
    /\ unshown' = (unshown \/ ~jobs[j].refresh)
    /\ UNCHANGED <<meter, views, device, page, used, wanted, raced, lost>>

(* A refresh of one view replaces it whole.  The cron job refreshes daily  *)
(* then hourly, refreshAllReadingViews both at once.                       *)
Refresh(j, v) ==
    /\ jobs[j].pc = "refresh"
    /\ v \in jobs[j].todo
    /\ j = "cron" /\ v = "hourly" => "daily" \notin jobs[j].todo
    /\ views' = [views EXCEPT ![v] = Shown]
    /\ jobs' = IF jobs[j].todo = {v} THEN [jobs EXCEPT ![j] = Idle]
               ELSE [jobs EXCEPT ![j].todo = @ \ {v}]
    /\ UNCHANGED <<meter, readings, device, page, used, wanted, raced, lost, unshown>>

(* A request of the web server or the cron job dies, or the database goes  *)
(* away under it.                                                          *)
Crash(j) ==
    /\ jobs[j].pc # "idle"
    /\ Used("crashes")
    /\ lost' = lost \cup (IF jobs[j].pc = "insert" THEN {r.start : r \in ToSet(jobs[j].result)}
                          ELSE {})
    /\ unshown' = TRUE
    /\ jobs' = [jobs EXCEPT ![j] = Idle]
    /\ UNCHANGED <<meter, readings, views, device, page, wanted, raced>>

-----------------------------------------------------------------------------
(* Files of meters.                                                        *)

(* uploadMeters: the names of the units in the file are looked up; no name *)
(* means no unit.  An update first reads the row ...                       *)
UploadMeters(given) ==
    /\ jobs["file"].pc = "idle"
    /\ Allowed("files")
    /\ Exists
    /\ Used("files")
    /\ jobs' = [jobs EXCEPT !["file"] =
                    [Idle EXCEPT !.pc = "update",
                                 !.row = [meter EXCEPT !.unit = given.unit,
                                                       !.graphic = given.graphic]]]
    /\ UNCHANGED <<meter, readings, views, device, page, wanted, raced, lost, unshown>>

(* ... and then writes it with what the file gives merged in.              *)
MergeFile ==
    /\ jobs["file"].pc = "update"
    /\ AdminWrites(Valid(jobs["file"].row))
    /\ jobs' = Overtaken([jobs EXCEPT !["file"] = Idle])
    /\ unshown' = TRUE
    /\ UNCHANGED <<readings, views, device, page, used, lost>>

(* Without update each row is a new meter; a known name fails.             *)
InsertFromFile(given) ==
    /\ ~Exists
    /\ Used("files")
    /\ AdminWrites(Valid(NewRow(given)))
    /\ unshown' = TRUE
    /\ UNCHANGED <<readings, views, device, jobs, page, lost>>

-----------------------------------------------------------------------------
(* The page of the administrator.                                          *)

GraphicChoices(unit) == {NoUnit} \cup (IF unit = NoUnit THEN {} ELSE Compatible(unit))
UnitChoices(graphic) ==
    {NoUnit} \cup {u \in Units : graphic = NoUnit \/ graphic \in Compatible(u)}

(* isValidCreateMeter and POST /meters/addMeter.                           *)
AddMeter(given) ==
    /\ ~Exists
    /\ given.graphic \in GraphicChoices(given.unit)
    /\ AdminWrites(Valid(NewRow(given)))
    /\ UNCHANGED <<readings, views, device, jobs, page, used, lost, unshown>>

(* The browser shows the meter as it was when it last got the meters.      *)
OpenPage ==
    /\ page.pc = "closed"
    /\ Exists
    /\ Allowed("edits")
    /\ page' = [Closed EXCEPT !.pc = "open", !.row = meter]
    /\ UNCHANGED <<meter, readings, views, device, jobs, used, wanted, raced, lost, unshown>>

(* Whether the meter is shown to users, confirmed if a group shows it, and *)
(* whether it is asked for readings.                                       *)
Toggled(row) == {[row EXCEPT !.displayable = ~@], [row EXCEPT !.enabled = ~@]}

(* One change in the form.  A unit is offered only if it converts to the   *)
(* default graphic unit chosen, and the other way round.                   *)
Changed(row) ==
    {[row EXCEPT !.unit = u] : u \in UnitChoices(row.graphic)}
    \cup {[row EXCEPT !.graphic = g] : g \in GraphicChoices(row.unit)}
    \cup Toggled(row)

(* Fault: the times of the last reading are not sent, only its value.      *)
SubmittedWithoutTimes(local) ==
    [local EXCEPT !.gps = FALSE, !.mem.end = meter.mem.end, !.mem.start = meter.mem.start,
                  !.mem.previousEnd = IF @ = Invalid THEN E0 ELSE @]

(* What the page sends and the constructor of Meter makes of it: the whole *)
(* row as the page had it.  The place of the meter is sent only if it was  *)
(* typed in, and an end that is not a time becomes the first moment.       *)
Submitted(local) ==
    [local EXCEPT !.gps = FALSE,
                  !.mem.previousEnd = IF @ = Invalid THEN E0 ELSE @]

(* Fault: a unit that was not there before does not count.                 *)
CrossesKindsOnly(u, w) ==
    /\ u # w /\ NoUnit \notin {u, w}
    /\ (Kind(u) = "quantity") # (Kind(w) = "quantity")

(* handleSaveChanges: the views must be refreshed if the meter gets or     *)
(* loses a unit, or its unit changes to or from a quantity.                *)
Crosses(u, w) ==
    /\ u # w
    /\ NoUnit \in {u, w} \/ (Kind(u) = "quantity") # (Kind(w) = "quantity")

(* Two units that are no quantities and give their rates for other times:  *)
(* the page asks for no refresh although the views are divided anew.       *)
RatesDiffer(u, w) ==
    NoUnit \notin {u, w} /\ "quantity" \notin {Kind(u), Kind(w)} /\ Seconds(u) # Seconds(w)

(* POST /meters/edit, and the refresh the browser asks for when it is      *)
(* answered.                                                               *)
SaveEdit(local) ==
    LET crosses == Crosses(page.row.unit, local.unit) IN
    /\ page.pc = "open" /\ local # page.row
    /\ Used("edits")
    /\ AdminWrites(Valid(Submitted(local)))
    /\ jobs' = Overtaken(jobs)
    /\ unshown' = (unshown \/ page.row.unit # meter.unit
                           \/ RatesDiffer(page.row.unit, local.unit))
    /\ page' = IF crosses THEN [Closed EXCEPT !.pc = "refresh", !.todo = Views] ELSE Closed
    /\ UNCHANGED <<readings, views, device, lost>>

RefreshAfterEdit(v) ==
    /\ page.pc = "refresh"
    /\ v \in page.todo
    /\ views' = [views EXCEPT ![v] = Shown]
    /\ page' = IF page.todo = {v} THEN Closed ELSE [page EXCEPT !.todo = @ \ {v}]
    /\ UNCHANGED <<meter, readings, device, jobs, used, wanted, raced, lost, unshown>>

(* The changes are discarded, or the request is refused.                   *)
Discard ==
    /\ page.pc = "open"
    /\ page' = Closed
    /\ UNCHANGED <<meter, readings, views, device, jobs, used, wanted, raced, lost, unshown>>

-----------------------------------------------------------------------------
JobSteps(j) ==
    \/ Process(j)
    \/ UpdateMeter(j)
    \/ Insert(j)
    \/ \E v \in Views : Refresh(j, v)

Next ==
    \/ Tick
    \/ Poll \/ Fetch \/ FetchFails
    \/ \E to \in 2..device, request \in Requests : UploadReadings(to, request)
    \/ \E j \in {"cron", "csv"} : JobSteps(j)
    \/ \E j \in Jobs : Crash(j)
    \/ \E given \in InFiles : UploadMeters(given) \/ InsertFromFile(given)
    \/ MergeFile
    \/ \E given \in Entered : AddMeter(given)
    \/ OpenPage \/ Discard
    \/ page.pc = "open" /\ \E local \in Changed(page.row) : SaveEdit(local)
    \/ \E v \in Views : RefreshAfterEdit(v)

(* Cron starts the job again and again, a started job or upload goes on,   *)
(* and the device answers sooner or later.  The third conjunct is the weak *)
(* fairness of Process, which is enabled wherever a job is about to.       *)
Fairness ==
    /\ WF_vars(Poll)
    /\ SF_vars(Fetch)
    /\ \A j \in {"cron", "csv"} :
        /\ []<>(jobs[j].pc # "process")
        /\ WF_vars(UpdateMeter(j))
        /\ WF_vars(Insert(j))
    /\ WF_vars(\E v \in Views : Refresh("cron", v))

Spec == Init /\ [][Next]_vars /\ Fairness
-----------------------------------------------------------------------------
(* The settings are those an administrator saved last, unless a job had    *)
(* read the row before and wrote it back after (meter.update in            *)
(* processData and in uploadMeters).                                       *)
SettingsKept == Exists /\ ~raced => Settings(meter) = wanted

ReadingsExact ==
    \A r \in readings : r.val = Pipeline!Whole(Shows(r.end) - Shows(r.start))

NoHole ==
    Exists => \A t \in 2..(meter.mem.end.t - 1) :
        \/ \E r \in readings : r.start = t
        \/ t \in lost
        \/ \E j \in Jobs : jobs[j].pc = "insert" /\ t \in {r.start : r \in ToSet(jobs[j].result)}

(* A stored reading is what the device counted in it, although uploads,    *)
(* edits of stale pages and crashes move the meter's memory back and       *)
(* forth (the value and the times of the memory are always of one row).    *)
(* And what the memory counts as read is stored, or about to be, or its    *)
(* loss has a known reason: a crash between the update of the meter and    *)
(* the insert, or an edit between the question to the device and the use   *)
(* of its answer.  The very first reading only serves as a start.          *)
ReadingsTrue == ReadingsExact /\ NoHole

(* Both views hold what a refresh would put there now.                     *)
ViewsRight == \A v \in Views : views[v] = Shown

(* When nothing runs, both views show the readings there are, divided as   *)
(* the unit of the meter asks, unless the last change came with no         *)
(* refresh: a file uploaded without one, a file of meters, a crash, a      *)
(* stale page, a unit written back, or an edit from one rate to a rate     *)
(* given for other seconds, for which the page asks none and the views     *)
(* stay wrong (handleSaveChanges, refreshAllReadingViews).                 *)
ViewsCurrent ==
    /\ \A j \in Jobs : jobs[j].pc = "idle"
    /\ page.pc # "refresh"
    /\ ~unshown
    => ViewsRight

(* While the meter stays enabled and its memory is sound, everything the   *)
(* device counted is stored in the end, whatever happened before, but for  *)
(* what is known to be lost (the cron job asks from the last reading on).  *)
DeviceCaughtUp ==
    <>[](Exists /\ meter.enabled /\ meter.mem.previousEnd # Invalid)
        => <>[](\A t \in 2..(device - 1) : t \in lost \/ \E r \in readings : r.start = t)
=============================================================================
