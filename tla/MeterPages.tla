----------------------------- MODULE MeterPages -----------------------------
(***************************************************************************)
(* The pages on which an administrator creates meters, edits them and      *)
(* uploads files of meters and of readings, what the browser keeps of the  *)
(* meters meanwhile, and the routes that answer.  A script may upload      *)
(* files of meters at the same time.                                       *)
(*                                                                         *)
(* Of a meter there is what the pages couple: its unit and the limits on   *)
(* its readings, which follow the unit, the options of an upload of        *)
(* readings that it gives, and whether some other input is out of bounds.  *)
(* What processData makes of readings is ReadingPipeline, and what other   *)
(* writers do to the row MeterUploads.                                     *)
(***************************************************************************)
EXTENDS Integers, Sequences, FiniteSets

CONSTANTS
    Names,          \* names of meters, which are their identifiers too
    NoName,         \* the empty string
    Units,          \* units of meters, no unit among them
    NoChoice,       \* -999: no unit chosen yet
    Widest,         \* the limits of a meter for which none are given
    Absent,         \* no meter has the name
    Grouped,        \* the meters some group has
    Entered,        \* bound: what may be entered for a new meter
    Files,          \* bound: the files of meters, sequences of rows
    MaxActs,        \* bound: what the user and the script start
    MaxLosses       \* bound: answers that are lost

ASSUME PagesAssumption ==
    /\ NoName \notin Names /\ NoChoice \notin Units /\ Widest \notin Units
    /\ Grouped \subseteq Names
    /\ MaxActs \in Nat /\ MaxLosses \in Nat

VARIABLES
    table,      \* the meters table
    list,       \* the meters as the browser has them (the cache of getMeters)
    fetch,      \* getMeters: to be asked again, and how far a request is
    where,      \* the page shown
    create,     \* the form of CreateMeterModalComponent
    local,      \* localMeterEdits of each meter's EditMeterModalComponent
    up,         \* the form of ReadingsCSVUploadComponent
    pending,    \* the requests that are not answered, one of each kind
    files,      \* the uploads of files of meters
    acts, losses,
    unseen,     \* ghost: meters that changed and the browser was not told
    overtaken   \* ghost: new meters taken from the list by an older answer

vars == <<table, list, fetch, where, create, local, up, pending, files, acts, losses,
          unseen, overtaken>>

Pages == {"meters", "readings", "files"}
Kinds == {"add", "edit", "readings"}
Uploaders == {"page", "script"}

(* The inputs that may be out of bounds: the area (below zero), the limits *)
(* (the least above the greatest), and the dates (the first after the      *)
(* last), which stand for the gap, the variation and the number of errors  *)
(* too.  Nothing but the pages checks the dates.                           *)
Bounded == {"area", "limits", "dates"}
PagesOnly == {"dates"}

Rows == [unit : Units, limits : Units \cup {Widest}, cumulative : BOOLEAN, reset : BOOLEAN,
         odd : SUBSET Bounded]

(* A row of a file need not give the bounded inputs.                       *)
FileRows == {row \in [name : Names, unit : Units, limits : Units \cup {Widest},
                      cumulative : BOOLEAN, reset : BOOLEAN,
                      gives : SUBSET Bounded, odd : SUBSET Bounded] : row.odd \subseteq row.gives}

ASSUME RowsAssumption ==
    /\ Absent \notin Rows
    /\ Entered \subseteq [unit : Units, cumulative : BOOLEAN, reset : BOOLEAN,
                          odd : SUBSET Bounded]
    /\ Files \subseteq Seq(FileRows)

Options(row) == [cumulative |-> row.cumulative, reset |-> row.reset]

NoRequest == [state |-> "none"]
NoUpload == [state |-> "none"]
BlankForm == [name |-> NoName, unit |-> NoChoice, limits |-> Widest,
              cumulative |-> FALSE, reset |-> FALSE, odd |-> {}]
ClosedCreate == [open |-> FALSE, form |-> BlankForm]

(* ReadingsCSVUploadDefaults.  ticked is what the box of "update" shows,   *)
(* update what the form holds; new is the meter created from this page.    *)
BlankUp == [meter |-> NoName, cumulative |-> FALSE, reset |-> FALSE, update |-> FALSE,
            ticked |-> FALSE, file |-> FALSE, spinner |-> FALSE, new |-> NoName]

Init ==
    /\ table = [n \in Names |-> Absent]
    /\ list = table
    /\ fetch = [stale |-> FALSE, state |-> "none", rows |-> table]
    /\ where = "meters"
    /\ create = ClosedCreate
    /\ local = table
    /\ up = BlankUp
    /\ pending = [k \in Kinds |-> NoRequest]
    /\ files = [w \in Uploaders |-> NoUpload]
    /\ acts = 0 /\ losses = 0
    /\ unseen = {} /\ overtaken = {}

Act == acts < MaxActs /\ acts' = acts + 1
Free(k) == pending[k].state = "none"

-----------------------------------------------------------------------------
(* The effect on [cumulative] of the three forms: once a meter does not    *)
(* count, its counter is not reset.                                        *)
Settled(old, new) == IF old.cumulative /\ ~new.cumulative THEN [new EXCEPT !.reset = FALSE] ELSE new

(* The inputs of the options: a reset can be chosen only of a counter.     *)
WithOptions(form) ==
    {Settled(form, [form EXCEPT !.cumulative = ~@])}
    \cup {[form EXCEPT !.reset = ~@] : c \in {x \in {form.cumulative} : x}}

(* handleUnitChange: the limits become those of the unit, which are in     *)
(* order.                                                                  *)
WithUnit(form) ==
    {[form EXCEPT !.unit = u, !.limits = u, !.odd = @ \ {"limits"}] : u \in Units}

(* updateReadingsData: the options of the upload are those of the meter.   *)
Chosen(form, n, rows) ==
    Settled(form, [form EXCEPT !.meter = n, !.cumulative = rows[n].cumulative,
                               !.reset = rows[n].reset])

(* The effect on [visibleMeters, newMeterIdentifier]: the meter created    *)
(* from the page is chosen as soon as it is in the list, and again         *)
(* whenever the list changes.                                              *)
NewChosen(form, rows) ==
    IF form.new # NoName /\ rows[form.new] # Absent THEN Chosen(form, form.new, rows) ELSE form

(* The effect on [meterState]: edits go when the meter itself changes.     *)
Renewed(rows) == [n \in Names |-> IF rows[n] = list[n] THEN local[n] ELSE rows[n]]

(* What new meters in the browser's list set off.                          *)
Listed(rows, form) ==
    /\ list' = rows
    /\ local' = Renewed(rows)
    /\ up' = IF rows = list /\ form.new = up.new THEN form ELSE NewChosen(form, rows)

-----------------------------------------------------------------------------
(* useBlocker holds a page back on which something was entered; once the   *)
(* warning is answered with leaving, the user is where he wanted to go.    *)
Departs(page) == page # where /\ Act /\ where' = page

(* Another page: the one left is unmounted and forgets its forms.          *)
Leave(page) ==
    /\ Departs(page)
    /\ create' = ClosedCreate
    /\ local' = list
    /\ up' = BlankUp
    /\ pending' = [k \in Kinds |-> IF Free(k) THEN NoRequest
                                   ELSE [pending[k] EXCEPT !.here = FALSE]]
    /\ UNCHANGED <<table, list, fetch, files, losses, unseen, overtaken>>

CanCreate == where \in {"meters", "readings"} /\ ~up.spinner

(* A reset can be entered only of a counter.                               *)
WithCounter(form, e) ==
    [form EXCEPT !.cumulative = e.cumulative, !.reset = IF e.cumulative THEN e.reset ELSE @]

(* The handlers of the form and its effects on [unitId] and [cumulative].  *)
Filled(form, n, e) ==
    Settled(form, [WithCounter(form, e) EXCEPT
                    !.name = n, !.unit = e.unit, !.limits = e.unit, !.odd = e.odd])

(* The form is opened and filled in.                                       *)
FillCreate(n, e) ==
    /\ CanCreate
    /\ Act
    /\ create' = [open |-> TRUE, form |-> Filled(create.form, n, e)]
    /\ UNCHANGED <<table, list, fetch, where, local, up, pending, files, losses, unseen, overtaken>>

(* validChange: all that is required has been entered.                     *)
CanSave(form) == form.name # NoName /\ form.unit # NoChoice

(* isValidCreateMeter, which the button of the form asks for as well, the  *)
(* button of the warning does not.                                         *)
ValidToCreate(form) == form.odd = {}

Row(form) == [unit |-> form.unit, limits |-> form.limits,
              cumulative |-> form.cumulative, reset |-> form.reset, odd |-> form.odd]

(* handleSubmit closes the form and keeps what it holds until the answer;  *)
(* saved from the warning, handleClose empties it at once.                 *)
SaveCreate(warned) ==
    /\ create.open /\ CanSave(create.form) /\ Free("add")
    /\ warned \/ ValidToCreate(create.form)
    /\ create' = IF warned THEN ClosedCreate ELSE [create EXCEPT !.open = FALSE]
    /\ pending' = [pending EXCEPT !["add"] =
                    [state |-> "sent", name |-> create.form.name, row |-> Row(create.form),
                     warned |-> warned, here |-> TRUE]]
    /\ UNCHANGED <<table, list, fetch, where, local, up, files, acts, losses, unseen, overtaken>>

DiscardCreate ==
    /\ create.open
    /\ create' = ClosedCreate
    /\ UNCHANGED <<table, list, fetch, where, local, up, pending, files, acts, losses,
                   unseen, overtaken>>

(* What the CHECKs of the table let in, and validateMeterParams before     *)
(* them; the routes answer with an error otherwise.                        *)
Accepted(row) == row.odd \subseteq PagesOnly

(* POST /meters/addMeter: names and identifiers are unique.                *)
ServeAdd ==
    LET n == pending["add"].name IN
    /\ pending["add"].state = "sent"
    /\ IF table[n] = Absent /\ Accepted(pending["add"].row)
       THEN /\ table' = [table EXCEPT ![n] = pending["add"].row]
            /\ pending' = [pending EXCEPT !["add"].state = "done"]
       ELSE /\ pending' = [pending EXCEPT !["add"].state = "refused"]
            /\ UNCHANGED table
    /\ UNCHANGED <<list, fetch, where, create, local, up, files, acts, losses, unseen, overtaken>>

(* addMeter puts the answer into the list and does not ask again.          *)
Added(n, row) == IF list[n] = Absent THEN [list EXCEPT ![n] = row] ELSE list

(* The then and the catch of handleSubmit.  On the page of readings the    *)
(* new meter is handed to handleCreateMeter.                               *)
AnswerAdd ==
    LET r == pending["add"] IN
    /\ r.state \in {"done", "refused"}
    /\ pending' = [pending EXCEPT !["add"] = NoRequest]
    /\ IF r.state = "refused"
       THEN UNCHANGED <<list, local, up, create, overtaken>>
       ELSE /\ Listed(Added(r.name, r.row),
                      IF r.here /\ where = "readings" THEN [up EXCEPT !.new = r.name] ELSE up)
            /\ create' = IF r.here THEN [create EXCEPT !.form = BlankForm] ELSE create
            /\ overtaken' = IF fetch.state = "read" /\ fetch.rows[r.name] = Absent
                            THEN overtaken \cup {r.name} ELSE overtaken
    /\ UNCHANGED <<table, fetch, where, files, acts, losses, unseen>>

-----------------------------------------------------------------------------
(* The bounded inputs: one goes out of its bounds or back.                 *)
WithOdd(row) ==
    {[row EXCEPT !.odd = IF b \in @ THEN @ \ {b} ELSE @ \cup {b}] : b \in Bounded}

(* The handlers of the form of a meter: one input changes at a time.       *)
Edits(form) == WithUnit(form) \cup WithOptions(form) \cup WithOdd(form)

(* One change in the form of a meter.                                      *)
ChangeEdit(n, row) ==
    /\ where = "meters" /\ list[n] # Absent
    /\ Act
    /\ local' = [local EXCEPT ![n] = row]
    /\ UNCHANGED <<table, list, fetch, where, create, up, pending, files, losses, unseen, overtaken>>

(* editMade: the form differs from the meter as the browser has it.        *)
EditMade(n) == local[n] # list[n]

(* Fault: the form of an edit is not checked.                              *)
EditableUnchecked(n) == EditMade(n)

(* canSave and validMeter, without which neither the form nor its warning  *)
(* saves.                                                                  *)
Editable(n) == EditMade(n) /\ local[n].odd = {}

(* handleSaveChanges refuses another unit for a meter of a group and puts  *)
(* the old unit back, and sends the form otherwise.                        *)
SaveEdit(n) ==
    /\ where = "meters" /\ list[n] # Absent /\ Editable(n)
    /\ Free("edit")
    /\ IF n \in Grouped /\ local[n].unit # list[n].unit
       THEN /\ local' = [local EXCEPT ![n].unit = list[n].unit]
            /\ UNCHANGED pending
       ELSE /\ pending' = [pending EXCEPT !["edit"] =
                            [state |-> "sent", name |-> n, row |-> local[n], here |-> TRUE]]
            /\ UNCHANGED local
    /\ UNCHANGED <<table, list, fetch, where, create, up, files, acts, losses, unseen, overtaken>>

DiscardEdit(n) ==
    /\ where = "meters" /\ EditMade(n)
    /\ local' = [local EXCEPT ![n] = list[n]]
    /\ UNCHANGED <<table, list, fetch, where, create, up, pending, files, acts, losses,
                   unseen, overtaken>>

(* POST /meters/edit writes the row as the page sent it.                   *)
ServeEdit ==
    LET r == pending["edit"] IN
    /\ r.state = "sent"
    /\ table' = IF Accepted(r.row) THEN [table EXCEPT ![r.name] = r.row] ELSE table
    /\ pending' = [pending EXCEPT !["edit"].state = IF Accepted(r.row) THEN "done" ELSE "refused"]
    /\ UNCHANGED <<list, fetch, where, create, local, up, files, acts, losses, unseen, overtaken>>

(* Fault: an edit that failed does not make the browser ask again.         *)
AskedAfterSuccess(state) == state = "done"

(* invalidatesTags: whatever the answer, the meters are asked for again.   *)
AskedAfter(state) == TRUE

AnswerEdit ==
    /\ pending["edit"].state \in {"done", "refused"}
    /\ pending' = [pending EXCEPT !["edit"] = NoRequest]
    /\ fetch' = [fetch EXCEPT !.stale = @ \/ AskedAfter(pending["edit"].state)]
    /\ UNCHANGED <<table, list, where, create, local, up, files, acts, losses, unseen, overtaken>>

(* A request or its answer is lost, which the page takes for a refusal.    *)
(* The browser is told nothing of a meter that was added.                  *)
LoseAnswer(k) ==
    /\ pending[k].state \in {"sent", "done"}
    /\ losses < MaxLosses /\ losses' = losses + 1
    /\ pending' = [pending EXCEPT ![k].state = "refused"]
    /\ unseen' = IF k = "add" /\ pending[k].state = "done"
                 THEN unseen \cup {pending[k].name} ELSE unseen
    /\ UNCHANGED <<table, list, fetch, where, create, local, up, files, acts, overtaken>>

(* getMeters again, once no change is on its way (RTK Query delays it),    *)
(* the read of the table by the server, and the answer.                    *)
AskMeters ==
    /\ fetch.stale /\ fetch.state = "none"
    /\ Free("add") /\ Free("edit")
    /\ fetch' = [fetch EXCEPT !.stale = FALSE, !.state = "asked"]
    /\ UNCHANGED <<table, list, where, create, local, up, pending, files, acts, losses,
                   unseen, overtaken>>

ReadMeters ==
    /\ fetch.state = "asked"
    /\ fetch' = [fetch EXCEPT !.state = "read", !.rows = table]
    /\ unseen' = {}
    /\ overtaken' = {}
    /\ UNCHANGED <<table, list, where, create, local, up, pending, files, acts, losses>>

AnswerMeters ==
    /\ fetch.state = "read"
    /\ Listed(fetch.rows, up)
    /\ fetch' = [fetch EXCEPT !.state = "none"]
    /\ UNCHANGED <<table, where, create, pending, files, acts, losses, unseen, overtaken>>

-----------------------------------------------------------------------------
(* The page of readings.                                                   *)
CanFill == where = "readings" /\ ~up.spinner

ChangeUp(form) ==
    /\ CanFill
    /\ Act
    /\ up' = form
    /\ UNCHANGED <<table, list, fetch, where, create, local, pending, files, losses,
                   unseen, overtaken>>

(* handleSelectedMeterChange; handleTrueFalseSelectChange;                 *)
(* handleCheckboxChange; handleFileChange.                                 *)
ChooseMeter(n) == list[n] # Absent /\ ChangeUp(Chosen(up, n, list))
ChangeOptions == \E form \in WithOptions(up) : ChangeUp(form)
TickUpdate == ChangeUp([up EXCEPT !.update = ~@, !.ticked = ~up.ticked])
ChooseFile == ~up.file /\ ChangeUp([up EXCEPT !.file = TRUE])

(* handleClear.                                                            *)
ClearUp == up # BlankUp /\ ChangeUp([BlankUp EXCEPT !.new = up.new])

(* Without a file the form cannot be submitted, without a meter it is not  *)
(* valid.                                                                  *)
CanSubmit == CanFill /\ up.file /\ up.meter # NoName

SubmitReadings ==
    /\ CanSubmit /\ Free("readings")
    /\ up' = [up EXCEPT !.spinner = TRUE]
    /\ pending' = [pending EXCEPT !["readings"] =
                    [state |-> "sent", name |-> up.meter, options |-> Options(up),
                     update |-> up.update, ticked |-> up.ticked, here |-> TRUE]]
    /\ UNCHANGED <<table, list, fetch, where, create, local, files, acts, losses, unseen, overtaken>>

ServeReadings ==
    /\ pending["readings"].state = "sent"
    /\ pending' = [pending EXCEPT !["readings"].state =
                    IF table[pending["readings"].name] = Absent THEN "refused" ELSE "done"]
    /\ UNCHANGED <<table, list, fetch, where, create, local, up, files, acts, losses,
                   unseen, overtaken>>

(* The form is shown again in place of the spinner, with its boxes empty   *)
(* (they show no value of the state), while the state stays as it was.     *)
AnswerReadings ==
    /\ pending["readings"].state \in {"done", "refused"}
    /\ pending' = [pending EXCEPT !["readings"] = NoRequest]
    /\ up' = IF pending["readings"].here THEN [up EXCEPT !.spinner = FALSE, !.ticked = FALSE] ELSE up
    /\ UNCHANGED <<table, list, fetch, where, create, local, files, acts, losses, unseen, overtaken>>

-----------------------------------------------------------------------------
(* The form: a file, whether it updates meters, and if so which meter of   *)
(* those listed; a script may name none.  As names stand for identifiers   *)
(* here, a file of one row is chosen for the meter of that name.           *)
FileForms(w) ==
    LET meant(rows) == {n \in Names : list[n] # Absent /\ (Len(rows) = 1 => rows[1].name = n)}
                       \cup {NoName : x \in {w} \cap {"script"}}
        form(rows, update, to) == [rows |-> rows, update |-> update, to |-> to]
    IN  {form(rows, FALSE, NoName) : rows \in Files}
        \cup UNION {{form(rows, TRUE, to) : to \in meant(rows)} : rows \in Files}

(* POST /csv/meters, from the page or from a script.                       *)
SendFile(w, form) ==
    /\ files[w].state = "none"
    /\ w = "page" => where = "files"
    /\ Act
    /\ files' = [files EXCEPT ![w] = [state |-> "sent", done |-> {}, rows |-> form.rows,
                                     update |-> form.update, to |-> form.to]]
    /\ UNCHANGED <<table, list, fetch, where, create, local, up, pending, losses,
                   unseen, overtaken>>

(* Fault: all rows at once, as Promise.all did: any row may come next.     *)
NextRowsAny(u) == DOMAIN u.rows \ u.done

(* uploadMeters: the rows one after the other.                             *)
NextRows(u) == {i \in DOMAIN u.rows \ u.done : 1..(i - 1) \subseteq u.done}

(* Meter.merge keeps what the file does not give, a new meter gets the     *)
(* defaults of the constructor.                                            *)
Merged(old, given) ==
    [unit |-> given.unit,
     limits |-> IF "limits" \in given.gives THEN given.limits
                ELSE IF old = Absent THEN Widest ELSE old.limits,
     cumulative |-> given.cumulative, reset |-> given.reset,
     odd |-> given.odd \cup (IF old = Absent THEN {} ELSE old.odd \ given.gives)]

(* POST /csv/meters answers when the rows are through or one has failed.   *)
Outcome(u, fits, done) ==
    IF ~fits THEN "refused" ELSE IF done = DOMAIN u.rows THEN "done" ELSE "sent"

(* The row of a new meter needs a free name, and that of an update the     *)
(* meter; an update for a meter that was chosen has one row.  No page      *)
(* checks the row, the table does.                                         *)
Fits(u, given) ==
    LET old == table[given.name] IN
    /\ IF u.update THEN old # Absent /\ (u.to # NoName => Len(u.rows) = 1) ELSE old = Absent
    /\ Accepted(Merged(old, given))

(* One row, which ends the upload if it fails; the rows before it stay.    *)
UploadRow(w) ==
    LET u == files[w] IN
    /\ u.state = "sent"
    /\ \E i \in NextRows(u) :
        LET n == u.rows[i].name
            fits == Fits(u, u.rows[i])
        IN  /\ table' = IF fits THEN [table EXCEPT ![n] = Merged(@, u.rows[i])] ELSE table
            /\ files' = [files EXCEPT ![w].done = IF fits THEN @ \cup {i} ELSE @,
                            ![w].state = Outcome(u, fits, u.done \cup {i})]
            /\ unseen' = IF fits /\ w = "script" THEN unseen \cup {n} ELSE unseen
    /\ UNCHANGED <<list, fetch, where, create, local, up, pending, acts, losses, overtaken>>

Written(u) == {u.rows[i].name : i \in u.done}

(* submitMeters asks for the meters again only if the upload succeeded.    *)
AnswerFile(w) ==
    LET u == files[w] IN
    /\ u.state \in {"done", "refused"}
    /\ files' = [files EXCEPT ![w] = NoUpload]
    /\ fetch' = [fetch EXCEPT !.stale = @ \/ (w = "page" /\ u.state = "done")]
    /\ unseen' = IF w = "page" /\ u.state = "refused" THEN unseen \cup Written(u) ELSE unseen
    /\ UNCHANGED <<table, list, where, create, local, up, pending, acts, losses, overtaken>>

-----------------------------------------------------------------------------
Next ==
    \/ \E page \in Pages : Leave(page)
    \/ \E n \in Names, e \in Entered : FillCreate(n, e)
    \/ \E warned \in BOOLEAN : SaveCreate(warned)
    \/ DiscardCreate \/ ServeAdd \/ AnswerAdd
    \/ \E n \in Names : list[n] # Absent
        /\ \E row \in Edits(local[n]) : ChangeEdit(n, row)
    \/ \E n \in Names : SaveEdit(n) \/ DiscardEdit(n)
    \/ ServeEdit \/ AnswerEdit
    \/ \E k \in {"add", "edit"} : LoseAnswer(k)
    \/ AskMeters \/ ReadMeters \/ AnswerMeters
    \/ \E n \in Names : ChooseMeter(n)
    \/ ChangeOptions \/ TickUpdate \/ ChooseFile \/ ClearUp
    \/ SubmitReadings \/ ServeReadings \/ AnswerReadings
    \/ \E w \in Uploaders : \E form \in FileForms(w) : SendFile(w, form)
    \/ \E w \in Uploaders : UploadRow(w) \/ AnswerFile(w)

Spec == Init /\ [][Next]_vars

-----------------------------------------------------------------------------
(* When nothing is on its way, the browser lists the meters there are, but *)
(* for changes it could not know of: those of a script, an answer that was *)
(* lost, the rows before the one that ended a file, and a new meter that   *)
(* an answer to an older question overtook (invalidatesTags of editMeter,  *)
(* updateQueryData of addMeter, invalidateTags of submitMeters).           *)
Quiet ==
    /\ \A k \in Kinds : Free(k)
    /\ files["page"].state = "none"
    /\ ~fetch.stale /\ fetch.state = "none"

ListCurrent == Quiet => \A n \in Names \ (unseen \cup overtaken) : list[n] = table[n]

(* Of a name that a file gives twice, only the first row is ever written,  *)
(* whatever else is uploaded or entered meanwhile, and what an upload has  *)
(* written is a beginning of its file (the comment of uploadMeters).       *)
FileInOrder ==
    \A w \in Uploaders : LET u == files[w] IN
        u.state # "none" =>
            /\ \A i \in u.done : 1..i \subseteq u.done
            /\ ~u.update => \A i \in u.done, k \in DOMAIN u.rows :
                                k < i => u.rows[k].name # u.rows[i].name

(* An input out of bounds comes into the table only where the pages alone  *)
(* check it, and then from the warning of the form that creates meters or  *)
(* from the row of a file that gives it: the buttons, the edit from its    *)
(* warning too, the routes and the table keep out the rest (isValidMeter,  *)
(* isValidCreateMeter, validateMeterParams, the CHECKs of the table).  And *)
(* an edit that was stored leaves nothing out of bounds, whatever the      *)
(* meter held before.                                                      *)
OddOf(row) == IF row = Absent THEN {} ELSE row.odd
FromWarning(n) ==
    pending["add"].state = "sent" /\ pending["add"].warned /\ pending["add"].name = n
FromFile(n, odd) ==
    \E w \in Uploaders : /\ files[w].state = "sent"
                         /\ \E i \in DOMAIN files[w].rows \ files[w].done :
                                files[w].rows[i].name = n /\ odd \subseteq files[w].rows[i].odd

OddOnlyUnchecked ==
    [][/\ \A n \in Names :
            LET new == OddOf(table'[n]) \ OddOf(table[n]) IN
            new # {} => new \subseteq PagesOnly /\ (FromWarning(n) \/ FromFile(n, new))
       /\ pending["edit"].state = "sent" /\ pending'["edit"].state = "done"
          => OddOf(table'[pending["edit"].name]) = {}]_vars
=============================================================================
