------------------------- MODULE MeterUploadsProofs -------------------------
(***************************************************************************)
(* Proofs about MeterUploads, for any units, devices, files and number of  *)
(* events: the settings of a meter are those saved last, its stored        *)
(* readings are what the device counted and without unexplained hole, and  *)
(* its views show them, but for the races and the missing refreshes that   *)
(* the properties name.                                                    *)
(***************************************************************************)
EXTENDS MeterUploads, WellFoundedInduction, TLAPS

Fields == {"unit", "graphic", "displayable", "enabled", "gps", "mem"}
JobFields == {"pc", "honorDst", "refresh", "rows", "row", "result", "todo", "stale"}

Readers == {"cron", "csv"}

IsRow(m) == DOMAIN m = Fields

(* What Valid makes of every row that is written.                          *)
Fitted(m) == m.unit = NoUnit => m.graphic = NoUnit /\ m.displayable = FALSE

Shapes ==
    /\ DOMAIN jobs = Jobs
    /\ \A j \in Jobs :
        /\ DOMAIN jobs[j] = JobFields
        /\ jobs[j].pc \in {"idle", "fetch", "process", "update", "insert", "refresh"}
        /\ jobs[j].stale \in BOOLEAN
        /\ jobs[j].todo \in SUBSET Views
    /\ jobs["file"].pc \in {"idle", "update"}
    /\ DOMAIN page = {"pc", "row", "todo"}
    /\ page.pc \in {"closed", "open", "refresh"}
    /\ page.todo \in SUBSET Views
    /\ DOMAIN views = Views
    /\ raced \in BOOLEAN /\ unshown \in BOOLEAN

(* Before there is a meter nobody reads it and it has no readings.         *)
NothingYet ==
    /\ readings = {}
    /\ \A j \in Jobs : jobs[j].pc \in {"idle", "refresh"}
    /\ page.pc # "open"

MeterKept == IsRow(meter) /\ Fitted(meter) /\ (~raced => Settings(meter) = wanted)

(* A job that is about to write the row holds the settings saved last,     *)
(* unless they were saved since it read the row.                           *)
Held(j) ==
    jobs[j].pc = "update" =>
        /\ IsRow(jobs[j].row)
        /\ j # "file" =>
            /\ Fitted(jobs[j].row)
            /\ ~raced /\ ~jobs[j].stale => Settings(jobs[j].row) = wanted

RowsHeld ==
    /\ ~Exists => NothingYet
    /\ Exists => MeterKept
    /\ \A j \in Jobs : Held(j)
    /\ page.pc = "open" => IsRow(page.row)

(* A view that is not what it should be will be refreshed.                 *)
Due(v) ==
    \/ \E j \in Jobs : jobs[j].pc = "refresh" /\ v \in jobs[j].todo
    \/ page.pc = "refresh" /\ v \in page.todo

ShownOrDue == ~unshown => \A v \in Views : views[v] = Shown \/ Due(v)

IInv == Shapes /\ RowsHeld /\ ShownOrDue

-----------------------------------------------------------------------------
(* The row of a meter.                                                     *)

LEMMA ARowExists ==
    ASSUME NEW m, IsRow(m)
    PROVE  m # Absent
  BY DEF IsRow, Fields, Absent

LEMMA ValidFits ==
    ASSUME NEW m, IsRow(m)
    PROVE  IsRow(Valid(m)) /\ Fitted(Valid(m)) /\ Valid(m).unit = m.unit
  BY DEF IsRow, Fields, Fitted, Valid

LEMMA ValidKeeps ==
    ASSUME NEW m, IsRow(m), Fitted(m)
    PROVE  Settings(Valid(m)) = Settings(m)
  BY DEF IsRow, Fields, Fitted, Valid, Settings

LEMMA MemoryKeeps ==
    ASSUME NEW m, IsRow(m), NEW x, NEW y, y = [m EXCEPT !.mem = x]
    PROVE  /\ IsRow(y) /\ Settings(y) = Settings(m)
           /\ Fitted(m) => Fitted(y)
  BY DEF IsRow, Fields, Fitted, Settings

LEMMA NewIsRow ==
    ASSUME NEW given
    PROVE  IsRow(NewRow(given))
  BY DEF IsRow, Fields, NewRow

LEMMA ChangedIsRow ==
    ASSUME NEW m, IsRow(m), NEW local \in Changed(m)
    PROVE  IsRow(local)
  BY DEF IsRow, Fields, Changed, Toggled

LEMMA SubmittedIsRow ==
    ASSUME NEW m, IsRow(m)
    PROVE  IsRow(Submitted(m)) /\ Submitted(m).unit = m.unit
  BY DEF IsRow, Fields, Submitted

-----------------------------------------------------------------------------
(* Init and the steps.                                                     *)

LEMMA Initially == Init => IInv
  <1> SUFFICES ASSUME Init PROVE IInv
    OBVIOUS
  <1> USE DEF Init, Idle, Closed
  <1>1. Shapes
    BY DEF Shapes, Jobs, JobFields, Views
  <1>2. ~Exists
    BY DEF Exists
  <1>3. RowsHeld
    BY <1>2 DEF RowsHeld, NothingYet, Held
  <1>4. ShownOrDue
    BY <1>2 DEF ShownOrDue, Shown
  <1>5. QED
    BY <1>1, <1>3, <1>4 DEF IInv

(* A job that moves to a place where it holds no row and is not about to   *)
(* refresh disturbs nothing but what it was about to do itself.            *)
LEMMA JobMoves ==
    ASSUME IInv, NEW j \in Jobs, NEW r, DOMAIN r = JobFields,
           jobs' = [jobs EXCEPT ![j] = r],
           r.pc \in {"idle", "fetch", "process", "update", "insert", "refresh"},
           j = "file" => r.pc \in {"idle", "update"},
           r.stale \in BOOLEAN, r.todo \in SUBSET Views,
           UNCHANGED page, raced' \in BOOLEAN, DOMAIN views' = Views, unshown' \in BOOLEAN
    PROVE  Shapes' /\ jobs'[j] = r /\ \A k \in Jobs : k # j => jobs'[k] = jobs[k]
  BY DEF IInv, Shapes

LEMMA TickKeeps == IInv /\ Tick => IInv'
  BY DEF IInv, Tick, Shapes, RowsHeld, NothingYet, MeterKept, Held, Exists, ShownOrDue, Shown, Due

(* A job that goes on without writing the row, the readings or a view.     *)
LEMMA JobPasses ==
    ASSUME IInv, NEW j \in Jobs, NEW r, DOMAIN r = JobFields,
           jobs' = [jobs EXCEPT ![j] = r],
           r.pc \in {"idle", "fetch", "process", "update", "insert", "refresh"},
           j = "file" => r.pc \in {"idle", "update"},
           r.stale \in BOOLEAN, r.todo \in SUBSET Views,
           UNCHANGED <<meter, readings, views, page, wanted, raced>>,
           unshown' = unshown \/ unshown' = TRUE,
           r.pc \in {"idle", "refresh"} \/ Exists,
           r.pc = "update" =>
                /\ IsRow(r.row)
                /\ j # "file" => /\ Fitted(r.row)
                                 /\ ~raced /\ ~r.stale => Settings(r.row) = wanted,
           jobs[j].pc # "refresh" \/ unshown' = TRUE
    PROVE  IInv'
  <1>1. DOMAIN views' = Views /\ unshown' \in BOOLEAN /\ raced' \in BOOLEAN
    BY DEF IInv, Shapes
  <1>2. Shapes' /\ jobs'[j] = r /\ \A k \in Jobs : k # j => jobs'[k] = jobs[k]
    BY <1>1, JobMoves
  <1>3. \A k \in Jobs : Held(k)'
    <2> SUFFICES ASSUME NEW k \in Jobs PROVE Held(k)'
      OBVIOUS
    <2>1. CASE k = j
      BY <1>2, <2>1 DEF Held
    <2>2. CASE k # j
      BY <1>2, <2>2 DEF Held, IInv, RowsHeld
    <2>3. QED
      BY <2>1, <2>2
  <1>4. RowsHeld'
    BY <1>2, <1>3 DEF IInv, RowsHeld, NothingYet, MeterKept, Exists
  <1>5. ShownOrDue'
    BY <1>2 DEF IInv, ShownOrDue, Shown, Due, Exists
  <1>6. QED
    BY <1>2, <1>4, <1>5 DEF IInv

LEMMA PollKeeps == IInv /\ Poll => IInv'
  <1> SUFFICES ASSUME IInv, Poll PROVE IInv'
    OBVIOUS
  <1> DEFINE r == IF Exists /\ Polled
                  THEN [Idle EXCEPT !.pc = "fetch", !.honorDst = TRUE, !.row = meter,
                                    !.refresh = TRUE]
                  ELSE [Idle EXCEPT !.pc = "refresh", !.todo = Views]
  <1>1. /\ DOMAIN r = JobFields /\ r.stale \in BOOLEAN /\ r.todo \in SUBSET Views
        /\ r.pc = "refresh" \/ (r.pc = "fetch" /\ Exists)
    BY DEF Idle, JobFields, Views
  <1>2. /\ jobs' = [jobs EXCEPT !["cron"] = r] /\ jobs["cron"].pc = "idle" /\ "cron" \in Jobs
        /\ UNCHANGED <<meter, readings, views, page, wanted, raced, unshown>>
    BY DEF Poll, Jobs
  <1> HIDE DEF r
  <1>3. QED
    BY <1>1, <1>2, JobPasses

LEMMA FetchKeeps == IInv /\ Fetch => IInv'
  <1> SUFFICES ASSUME IInv, Fetch PROVE IInv'
    OBVIOUS
  <1> DEFINE end == jobs["cron"].row.mem.end.t
             rows == RowsBetween(IF end = E0 THEN 1 ELSE end, device)
             r == [jobs["cron"] EXCEPT !.pc = "process", !.rows = rows]
  <1>1. /\ jobs["cron"].pc = "fetch" /\ "cron" \in Jobs
        /\ UNCHANGED <<meter, readings, views, page, wanted, raced, unshown>>
    BY DEF Fetch, Jobs
  <1>2. jobs' = [jobs EXCEPT !["cron"] = r]
    BY <1>1 DEF Fetch, IInv, Shapes, JobFields
  <1> HIDE DEF rows
  <1>3. /\ DOMAIN r = JobFields /\ r.stale \in BOOLEAN /\ r.todo \in SUBSET Views
        /\ r.pc = "process" /\ Exists
    BY <1>1 DEF IInv, Shapes, JobFields, RowsHeld, NothingYet
  <1> HIDE DEF r
  <1>4. QED
    BY <1>1, <1>2, <1>3, JobPasses

LEMMA FetchFailsKeeps == IInv /\ FetchFails => IInv'
  <1> SUFFICES ASSUME IInv, FetchFails PROVE IInv'
    OBVIOUS
  <1> DEFINE r == [Idle EXCEPT !.pc = "refresh", !.todo = Views]
  <1>1. /\ jobs["cron"].pc = "fetch" /\ "cron" \in Jobs /\ jobs' = [jobs EXCEPT !["cron"] = r]
        /\ UNCHANGED <<meter, readings, views, page, wanted, raced, unshown>>
    BY DEF FetchFails, Jobs
  <1>2. /\ DOMAIN r = JobFields /\ r.stale \in BOOLEAN /\ r.todo \in SUBSET Views
        /\ r.pc = "refresh"
    BY DEF Idle, JobFields, Views
  <1> HIDE DEF r
  <1>3. QED
    BY <1>1, <1>2, JobPasses

LEMMA UploadReadingsKeeps ==
    ASSUME IInv, NEW to, NEW request, UploadReadings(to, request)
    PROVE  IInv'
  <1> DEFINE r == [Idle EXCEPT !.pc = "process", !.honorDst = request.honorDst,
                               !.refresh = request.refresh, !.rows = RowsBetween(1, to)]
  <1>1. /\ jobs["csv"].pc = "idle" /\ "csv" \in Jobs /\ jobs' = [jobs EXCEPT !["csv"] = r]
        /\ UNCHANGED <<meter, readings, views, page, wanted, raced, unshown>> /\ Exists
    BY DEF UploadReadings, Jobs
  <1>2. /\ DOMAIN r = JobFields /\ r.stale \in BOOLEAN /\ r.todo \in SUBSET Views
        /\ r.pc = "process"
    BY DEF Idle, JobFields, Views
  <1> HIDE DEF r
  <1>3. QED
    BY <1>1, <1>2, JobPasses

LEMMA ProcessKeeps ==
    ASSUME IInv, NEW j \in Readers, Process(j)
    PROVE  IInv'
  <1> DEFINE c == Config(jobs[j].honorDst)
             l == Processed(c, meter.mem, jobs[j].rows)
             r == [jobs[j] EXCEPT !.pc = "update", !.result = l.result, !.rows = <<>>,
                                  !.stale = FALSE, !.row = [meter EXCEPT !.mem = Memory(l)]]
             f == IF j = "cron" THEN [Idle EXCEPT !.pc = "refresh", !.todo = Views] ELSE Idle
  <1>1. /\ jobs[j].pc = "process" /\ j \in Jobs /\ j # "file"
        /\ UNCHANGED <<meter, readings, views, page, wanted, raced, unshown>>
    BY DEF Process, Jobs, Readers
  <1>2. Exists /\ MeterKept
    BY <1>1 DEF IInv, RowsHeld, NothingYet
  <1>3. CASE jobs' = [jobs EXCEPT ![j] = f]
    <2>1. /\ DOMAIN f = JobFields /\ f.stale \in BOOLEAN /\ f.todo \in SUBSET Views
          /\ f.pc \in {"idle", "refresh"}
      BY DEF Idle, JobFields, Views
    <2> HIDE DEF f
    <2>2. QED
      BY <1>1, <1>3, <2>1, JobPasses
  <1>4. CASE jobs' = [jobs EXCEPT ![j].pc = "update", ![j].result = l.result,
                          ![j].rows = <<>>, ![j].stale = FALSE,
                          ![j].row = [meter EXCEPT !.mem = Memory(l)]]
    <2> DEFINE result == l.result
               row == [meter EXCEPT !.mem = Memory(l)]
    <2>1. IsRow(row) /\ Settings(row) = Settings(meter) /\ Fitted(row)
      BY <1>2, MemoryKeeps DEF MeterKept
    <2>2. jobs' = [jobs EXCEPT ![j] = r]
      <3> HIDE DEF result, row
      <3>1. jobs' = [jobs EXCEPT ![j].pc = "update", ![j].result = result,
                          ![j].rows = <<>>, ![j].stale = FALSE, ![j].row = row]
        BY <1>4 DEF result, row
      <3>2. [jobs[j] EXCEPT !.pc = "update", !.result = result, !.rows = <<>>,
                            !.stale = FALSE, !.row = row] = r
        BY DEF result, row
      <3>3. QED
        BY <1>1, <3>1, <3>2 DEF IInv, Shapes, JobFields
    <2>3. r = [jobs[j] EXCEPT !.pc = "update", !.result = result, !.rows = <<>>,
                              !.stale = FALSE, !.row = row]
      OBVIOUS
    <2> HIDE DEF result, row, r
    <2>4. /\ DOMAIN r = JobFields /\ r.stale = FALSE /\ r.todo \in SUBSET Views
          /\ r.pc = "update" /\ r.row = row
      BY <1>1, <2>3 DEF IInv, Shapes, JobFields
    <2>5. QED
      BY <1>1, <1>2, <2>1, <2>2, <2>4, JobPasses DEF MeterKept
  <1>5. QED
    BY <1>3, <1>4 DEF Process, RowRead, Failed

LEMMA CrashKeeps ==
    ASSUME IInv, NEW j \in Jobs, Crash(j)
    PROVE  IInv'
  <1>1. /\ jobs' = [jobs EXCEPT ![j] = Idle] /\ unshown' = TRUE
        /\ UNCHANGED <<meter, readings, views, page, wanted, raced>>
    BY DEF Crash
  <1>2. /\ DOMAIN Idle = JobFields /\ Idle.stale \in BOOLEAN /\ Idle.todo \in SUBSET Views
        /\ Idle.pc = "idle"
    BY DEF Idle, JobFields, Views
  <1>3. QED
    BY <1>1, <1>2, JobPasses

LEMMA UploadMetersKeeps ==
    ASSUME IInv, NEW given, UploadMeters(given)
    PROVE  IInv'
  <1> DEFINE row == [meter EXCEPT !.unit = given.unit, !.graphic = given.graphic]
             r == [Idle EXCEPT !.pc = "update", !.row = row]
  <1>1. /\ jobs["file"].pc = "idle" /\ "file" \in Jobs /\ jobs' = [jobs EXCEPT !["file"] = r]
        /\ UNCHANGED <<meter, readings, views, page, wanted, raced, unshown>> /\ Exists
    BY DEF UploadMeters, Jobs
  <1>2. IsRow(row)
    BY <1>1 DEF IInv, RowsHeld, MeterKept, IsRow, Fields
  <1> HIDE DEF row
  <1>3. /\ DOMAIN r = JobFields /\ r.stale \in BOOLEAN /\ r.todo \in SUBSET Views
        /\ r.pc = "update" /\ r.row = row
    BY DEF Idle, JobFields, Views
  <1> HIDE DEF r
  <1>4. QED
    BY <1>1, <1>2, <1>3, JobPasses

(* A write of the row with the settings it had: meter.update.              *)
LEMMA UpdateMeterKeeps ==
    ASSUME IInv, NEW j \in Readers, UpdateMeter(j)
    PROVE  IInv'
  <1> DEFINE row == jobs[j].row
             r == [jobs[j] EXCEPT !.pc = "insert", !.row = Absent, !.stale = FALSE]
  <1>1. /\ jobs[j].pc = "update" /\ j \in Jobs /\ j # "file"
        /\ meter' = Valid(row) /\ raced' = (raced \/ jobs[j].stale)
        /\ unshown' = (unshown \/ row.unit # meter.unit)
        /\ UNCHANGED <<readings, views, page, wanted>>
    BY DEF UpdateMeter, Jobs, Readers
  <1>2. jobs' = [jobs EXCEPT ![j] = r]
    BY <1>1 DEF UpdateMeter, IInv, Shapes, JobFields
  <1>3. /\ DOMAIN r = JobFields /\ r.stale = FALSE /\ r.todo \in SUBSET Views
        /\ r.pc = "insert"
    BY <1>1 DEF IInv, Shapes, JobFields
  <1>4. /\ IsRow(row) /\ Fitted(row) /\ (~raced /\ ~jobs[j].stale => Settings(row) = wanted)
        /\ Exists /\ MeterKept
    BY <1>1 DEF IInv, RowsHeld, NothingYet, Held
  <1>5. jobs'[j] = r /\ \A k \in Jobs : k # j => jobs'[k] = jobs[k]
    BY <1>1, <1>2 DEF IInv, Shapes
  <1> HIDE DEF row, r
  <1>6. /\ IsRow(meter') /\ Fitted(meter') /\ meter'.unit = row.unit
        /\ Settings(meter') = Settings(row) /\ meter' # Absent
    BY <1>1, <1>4, ValidFits, ValidKeeps, ARowExists
  <1>7. Shapes'
    <2>1. raced' \in BOOLEAN /\ unshown' \in BOOLEAN
      BY <1>1 DEF IInv, Shapes
    <2>2. DOMAIN views' = Views
      BY <1>1 DEF IInv, Shapes
    <2>3. QED
      BY <1>1, <1>2, <1>3, <2>1, <2>2, JobMoves
  <1>8. RowsHeld'
    <2>1. \A k \in Jobs : Held(k)'
      <3> SUFFICES ASSUME NEW k \in Jobs PROVE Held(k)'
        OBVIOUS
      <3>1. CASE k = j
        BY <1>3, <1>5, <3>1 DEF Held
      <3>2. CASE k # j
        BY <1>1, <1>5, <3>2 DEF Held, IInv, RowsHeld
      <3>3. QED
        BY <3>1, <3>2
    <2>2. MeterKept'
      BY <1>1, <1>4, <1>6 DEF MeterKept, IsRow, Fitted, Settings
    <2>3. Exists'
      BY <1>6 DEF Exists
    <2>4. QED
      BY <1>1, <2>1, <2>2, <2>3 DEF IInv, RowsHeld
  <1>9. ShownOrDue'
    <2> SUFFICES ASSUME ~unshown', NEW v \in Views PROVE views'[v] = Shown' \/ Due(v)'
      BY DEF ShownOrDue
    <2>1. ~unshown /\ meter'.unit = meter.unit
      BY <1>1, <1>6
    <2>2. Shown' = Shown
      BY <1>1, <1>4, <1>6, <2>1 DEF Shown, Exists
    <2>3. Due(v) => Due(v)'
      BY <1>1, <1>5 DEF Due
    <2>4. QED
      BY <1>1, <2>1, <2>2, <2>3 DEF IInv, ShownOrDue
  <1>10. QED
    BY <1>7, <1>8, <1>9 DEF IInv

LEMMA InsertKeeps ==
    ASSUME IInv, NEW j \in Readers, Insert(j)
    PROVE  IInv'
  <1> DEFINE r == IF jobs[j].refresh THEN [Idle EXCEPT !.pc = "refresh", !.todo = Views] ELSE Idle
  <1>1. /\ jobs[j].pc = "insert" /\ j \in Jobs /\ j # "file"
        /\ unshown' = (unshown \/ ~jobs[j].refresh)
        /\ UNCHANGED <<meter, views, page, wanted, raced>>
    BY DEF Insert, Jobs, Readers
  <1>2. jobs' = [jobs EXCEPT ![j] = r]
    BY <1>1 DEF Insert, IInv, Shapes
  <1>3. /\ DOMAIN r = JobFields /\ r.stale \in BOOLEAN /\ r.todo \in SUBSET Views
        /\ r.pc \in {"idle", "refresh"}
        /\ (jobs[j].refresh => r.pc = "refresh" /\ r.todo = Views)
    BY DEF Idle, JobFields, Views
  <1> HIDE DEF r
  <1>4. DOMAIN views' = Views /\ unshown' \in BOOLEAN /\ raced' \in BOOLEAN
    BY <1>1 DEF IInv, Shapes
  <1>5. Shapes' /\ jobs'[j] = r /\ \A k \in Jobs : k # j => jobs'[k] = jobs[k]
    BY <1>1, <1>2, <1>3, <1>4, JobMoves
  <1>6. RowsHeld'
    BY <1>1, <1>3, <1>5 DEF IInv, RowsHeld, NothingYet, MeterKept, Held, Exists
  <1>7. ShownOrDue'
    BY <1>1, <1>3, <1>5 DEF ShownOrDue, Due
  <1>8. QED
    BY <1>5, <1>6, <1>7 DEF IInv

LEMMA RefreshKeeps ==
    ASSUME IInv, NEW j \in Readers, NEW v \in Views, Refresh(j, v)
    PROVE  IInv'
  <1> DEFINE r == IF jobs[j].todo = {v} THEN Idle ELSE [jobs[j] EXCEPT !.todo = @ \ {v}]
  <1>1. /\ jobs[j].pc = "refresh" /\ v \in jobs[j].todo /\ j \in Jobs /\ j # "file"
        /\ views' = [views EXCEPT ![v] = Shown]
        /\ UNCHANGED <<meter, readings, page, wanted, raced, unshown>>
    BY DEF Refresh, Jobs, Readers
  <1>2. jobs' = [jobs EXCEPT ![j] = r]
    BY <1>1 DEF Refresh, IInv, Shapes, JobFields
  <1>3. /\ DOMAIN r = JobFields /\ r.stale \in BOOLEAN /\ r.todo \in SUBSET Views
        /\ r.pc \in {"idle", "refresh"}
        /\ \A w \in jobs[j].todo \ {v} : r.pc = "refresh" /\ w \in r.todo
    BY <1>1 DEF Idle, JobFields, Views, IInv, Shapes
  <1> HIDE DEF r
  <1>4. DOMAIN views' = Views /\ unshown' \in BOOLEAN /\ raced' \in BOOLEAN
    BY <1>1 DEF IInv, Shapes
  <1>5. Shapes' /\ jobs'[j] = r /\ \A k \in Jobs : k # j => jobs'[k] = jobs[k]
    BY <1>1, <1>2, <1>3, <1>4, JobMoves
  <1>6. RowsHeld'
    BY <1>1, <1>3, <1>5 DEF IInv, RowsHeld, NothingYet, MeterKept, Held, Exists
  <1>7. Shown' = Shown
    BY <1>1 DEF Shown, Exists
  <1>8. views'[v] = Shown /\ \A w \in Views : w # v => views'[w] = views[w]
    BY <1>1 DEF IInv, Shapes
  <1>9. \A w \in Views : w # v /\ Due(w) => Due(w)'
    BY <1>1, <1>3, <1>5 DEF Due
  <1>10. ShownOrDue'
    BY <1>1, <1>7, <1>8, <1>9 DEF IInv, ShownOrDue
  <1>11. QED
    BY <1>5, <1>6, <1>10 DEF IInv

-----------------------------------------------------------------------------
(* Writes of an administrator.                                             *)

LEMMA MergeFileKeeps == IInv /\ MergeFile => IInv'
  <1> SUFFICES ASSUME IInv, MergeFile PROVE IInv'
    OBVIOUS
  <1> DEFINE row == jobs["file"].row
             js == [jobs EXCEPT !["file"] = Idle]
  <1>1. /\ jobs["file"].pc = "update" /\ "file" \in Jobs
        /\ meter' = Valid(row) /\ wanted' = Settings(meter') /\ raced' = FALSE
        /\ jobs' = Overtaken(js) /\ unshown' = TRUE
        /\ UNCHANGED <<readings, views, page>>
    BY DEF MergeFile, AdminWrites, Jobs
  <1>2. IsRow(row) /\ Exists
    BY <1>1 DEF IInv, RowsHeld, NothingYet, Held
  <1> HIDE DEF row
  <1>3. IsRow(meter') /\ Fitted(meter') /\ Exists'
    BY <1>1, <1>2, ValidFits, ARowExists DEF Exists
  <1>4. /\ DOMAIN js = Jobs /\ js["file"] = Idle
        /\ \A k \in Jobs : k # "file" => js[k] = jobs[k]
    BY <1>1 DEF IInv, Shapes
  <1> HIDE DEF js
  <1>5. \A k \in Jobs : jobs'[k] = [js[k] EXCEPT !.stale = js[k].stale \/ js[k].pc = "update"]
    BY <1>1, <1>4 DEF Overtaken, Idle, JobFields, IInv, Shapes
  <1>6. \A k \in Jobs :
            /\ DOMAIN jobs'[k] = JobFields
            /\ jobs'[k].pc = js[k].pc /\ jobs'[k].todo = js[k].todo /\ jobs'[k].row = js[k].row
            /\ jobs'[k].stale \in BOOLEAN /\ (js[k].pc = "update" => jobs'[k].stale)
    <2> SUFFICES ASSUME NEW k \in Jobs
                 PROVE  /\ DOMAIN jobs'[k] = JobFields
                        /\ jobs'[k].pc = js[k].pc /\ jobs'[k].todo = js[k].todo
                        /\ jobs'[k].row = js[k].row
                        /\ jobs'[k].stale \in BOOLEAN
                        /\ (js[k].pc = "update" => jobs'[k].stale)
      OBVIOUS
    <2> DEFINE b == js[k].stale \/ js[k].pc = "update"
    <2>1. b \in BOOLEAN /\ (js[k].pc = "update" => b)
      OBVIOUS
    <2>2. jobs'[k] = [js[k] EXCEPT !.stale = b] /\ DOMAIN js[k] = JobFields
      BY <1>4, <1>5 DEF Idle, JobFields, IInv, Shapes
    <2> HIDE DEF b
    <2>3. QED
      BY <2>1, <2>2 DEF JobFields
  <1>7. \A k \in Jobs : js[k].pc = jobs[k].pc \/ (k = "file" /\ js[k].pc = "idle")
    BY <1>4 DEF Idle
  <1>8. Shapes'
    <2>1. \A k \in Jobs : js[k].todo \in SUBSET Views
      BY <1>4 DEF Idle, IInv, Shapes
    <2>2. DOMAIN jobs' = Jobs
      BY <1>1 DEF Overtaken
    <2>3. \A k \in Jobs :
            /\ jobs'[k].pc \in {"idle", "fetch", "process", "update", "insert", "refresh"}
            /\ jobs'[k].todo \in SUBSET Views
      BY <1>6, <1>7, <2>1 DEF IInv, Shapes
    <2>4. jobs'["file"].pc = "idle"
      BY <1>1, <1>4, <1>6 DEF Idle
    <2>5. DOMAIN views' = Views
      BY <1>1 DEF IInv, Shapes
    <2>6. page' = page /\ raced' \in BOOLEAN /\ unshown' \in BOOLEAN
      BY <1>1
    <2>7. QED
      BY <1>6, <2>2, <2>3, <2>4, <2>5, <2>6 DEF IInv, Shapes
  <1>9. RowsHeld'
    <2>1. \A k \in Jobs : Held(k)'
      <3> SUFFICES ASSUME NEW k \in Jobs, jobs'[k].pc = "update" PROVE Held(k)'
        BY DEF Held
      <3>1. js[k].pc = "update" /\ k # "file" /\ jobs'[k].stale
        BY <1>4, <1>6 DEF Idle
      <3>2. js[k] = jobs[k] /\ Held(k)
        BY <1>4, <3>1 DEF IInv, RowsHeld
      <3>3. QED
        BY <1>6, <3>1, <3>2 DEF Held
    <2>2. MeterKept'
      BY <1>1, <1>3 DEF MeterKept, IsRow, Fitted, Settings
    <2>3. QED
      BY <1>1, <1>3, <2>1, <2>2 DEF IInv, RowsHeld
  <1>10. QED
    BY <1>1, <1>8, <1>9 DEF IInv, ShownOrDue

(* A new meter, from the page or from a file.                              *)
LEMMA NewMeterKeeps ==
    ASSUME IInv, NEW given, ~Exists, AdminWrites(Valid(NewRow(given))),
           UNCHANGED <<readings, views, jobs, page>>,
           unshown' = unshown \/ unshown' = TRUE
    PROVE  IInv'
  <1>1. meter' = Valid(NewRow(given)) /\ wanted' = Settings(meter') /\ raced' = FALSE
    BY DEF AdminWrites
  <1>2. IsRow(meter') /\ Fitted(meter') /\ Exists'
    BY <1>1, NewIsRow, ValidFits, ARowExists DEF Exists
  <1>3. NothingYet
    BY DEF IInv, RowsHeld
  <1>4. Shapes'
    BY <1>1 DEF IInv, Shapes
  <1>5. MeterKept'
    BY <1>1, <1>2 DEF MeterKept, IsRow, Fitted, Settings
  <1>6. RowsHeld'
    BY <1>2, <1>3, <1>5 DEF RowsHeld, NothingYet, Held
  <1>7. Shown = {} /\ Shown' = {}
    BY <1>2, <1>3 DEF Shown, NothingYet
  <1>8. ShownOrDue'
    BY <1>7 DEF IInv, ShownOrDue, Due
  <1>9. QED
    BY <1>4, <1>6, <1>8 DEF IInv

LEMMA InsertFromFileKeeps ==
    ASSUME IInv, NEW given, InsertFromFile(given)
    PROVE  IInv'
  BY NewMeterKeeps DEF InsertFromFile

LEMMA AddMeterKeeps ==
    ASSUME IInv, NEW given, AddMeter(given)
    PROVE  IInv'
  BY NewMeterKeeps DEF AddMeter

(* The page moves without saving.                                          *)
LEMMA PageMoves ==
    ASSUME IInv, UNCHANGED <<meter, readings, views, jobs, wanted, raced, unshown>>,
           DOMAIN page' = {"pc", "row", "todo"}, page'.pc \in {"closed", "open"},
           page'.todo \in SUBSET Views, page.pc # "refresh",
           page'.pc = "open" => Exists /\ IsRow(page'.row)
    PROVE  IInv'
  <1>1. Shapes'
    BY DEF IInv, Shapes
  <1>2. RowsHeld'
    BY DEF IInv, RowsHeld, NothingYet, MeterKept, Held, Exists
  <1>3. ShownOrDue'
    BY DEF IInv, ShownOrDue, Due, Shown, Exists
  <1>4. QED
    BY <1>1, <1>2, <1>3 DEF IInv

LEMMA OpenPageKeeps == IInv /\ OpenPage => IInv'
  <1> SUFFICES ASSUME IInv, OpenPage PROVE IInv'
    OBVIOUS
  <1>1. IsRow(meter)
    BY DEF OpenPage, IInv, RowsHeld, MeterKept
  <1>2. /\ DOMAIN page' = {"pc", "row", "todo"} /\ page'.pc = "open" /\ page'.row = meter
        /\ page'.todo = {}
    BY DEF OpenPage, Closed
  <1>3. QED
    BY <1>1, <1>2, PageMoves DEF OpenPage, Views

LEMMA DiscardKeeps == IInv /\ Discard => IInv'
  <1> SUFFICES ASSUME IInv, Discard PROVE IInv'
    OBVIOUS
  <1>1. DOMAIN page' = {"pc", "row", "todo"} /\ page'.pc = "closed" /\ page'.todo = {}
    BY DEF Discard, Closed
  <1>2. QED
    BY <1>1, PageMoves DEF Discard, Views

LEMMA SaveEditKeeps ==
    ASSUME IInv, NEW local \in Changed(page.row), SaveEdit(local)
    PROVE  IInv'
  <1> DEFINE sent == Submitted(local)
             crosses == Crosses(page.row.unit, local.unit)
  <1>1. /\ page.pc = "open"
        /\ meter' = Valid(sent) /\ wanted' = Settings(meter') /\ raced' = FALSE
        /\ jobs' = Overtaken(jobs)
        /\ unshown' = (unshown \/ page.row.unit # meter.unit
                              \/ RatesDiffer(page.row.unit, local.unit))
        /\ UNCHANGED <<readings, views>>
    BY DEF SaveEdit, AdminWrites
  <1>2. page' = IF crosses THEN [Closed EXCEPT !.pc = "refresh", !.todo = Views] ELSE Closed
    BY DEF SaveEdit
  <1>3. /\ DOMAIN page' = {"pc", "row", "todo"} /\ page'.pc \in {"closed", "refresh"}
        /\ page'.todo \in SUBSET Views
        /\ (crosses => page'.pc = "refresh" /\ page'.todo = Views)
    BY <1>2 DEF Closed
  <1>4. Exists /\ IsRow(page.row)
    BY <1>1 DEF IInv, RowsHeld, NothingYet
  <1>5. IsRow(local) /\ IsRow(sent) /\ sent.unit = local.unit
    BY <1>4, ChangedIsRow, SubmittedIsRow
  <1> HIDE DEF sent, crosses
  <1>6. IsRow(meter') /\ Fitted(meter') /\ meter'.unit = local.unit /\ Exists'
    BY <1>1, <1>5, ValidFits, ARowExists DEF Exists
  <1>7. \A k \in Jobs : jobs'[k] = [jobs[k] EXCEPT !.stale = jobs[k].stale \/ jobs[k].pc = "update"]
    BY <1>1 DEF Overtaken, JobFields, IInv, Shapes
  <1>8. \A k \in Jobs :
            /\ DOMAIN jobs'[k] = JobFields
            /\ jobs'[k].pc = jobs[k].pc /\ jobs'[k].todo = jobs[k].todo
            /\ jobs'[k].row = jobs[k].row
            /\ jobs'[k].stale \in BOOLEAN /\ (jobs[k].pc = "update" => jobs'[k].stale)
    <2> SUFFICES ASSUME NEW k \in Jobs
                 PROVE  /\ DOMAIN jobs'[k] = JobFields
                        /\ jobs'[k].pc = jobs[k].pc /\ jobs'[k].todo = jobs[k].todo
                        /\ jobs'[k].row = jobs[k].row
                        /\ jobs'[k].stale \in BOOLEAN
                        /\ (jobs[k].pc = "update" => jobs'[k].stale)
      OBVIOUS
    <2> DEFINE b == jobs[k].stale \/ jobs[k].pc = "update"
    <2>1. b \in BOOLEAN /\ (jobs[k].pc = "update" => b)
      OBVIOUS
    <2>2. jobs'[k] = [jobs[k] EXCEPT !.stale = b] /\ DOMAIN jobs[k] = JobFields
      BY <1>7 DEF IInv, Shapes
    <2> HIDE DEF b
    <2>3. QED
      BY <2>1, <2>2 DEF JobFields
  <1>9. Shapes'
    <2>1. DOMAIN jobs' = Jobs
      BY <1>1 DEF Overtaken
    <2>2. unshown' \in BOOLEAN /\ DOMAIN views' = Views /\ raced' \in BOOLEAN
      BY <1>1 DEF IInv, Shapes, RatesDiffer
    <2>3. jobs'["file"].pc \in {"idle", "update"}
      BY <1>8 DEF IInv, Shapes, Jobs
    <2>4. \A j \in Jobs :
            /\ jobs'[j].pc \in {"idle", "fetch", "process", "update", "insert", "refresh"}
            /\ jobs'[j].todo \in SUBSET Views
      BY <1>8 DEF IInv, Shapes
    <2>5. QED
      BY <1>3, <1>8, <2>1, <2>2, <2>3, <2>4 DEF Shapes
  <1>10. RowsHeld'
    <2>1. \A k \in Jobs : Held(k)'
      BY <1>8 DEF Held, IInv, RowsHeld
    <2>2. MeterKept'
      BY <1>1, <1>6 DEF MeterKept, IsRow, Fitted, Settings
    <2>3. QED
      BY <1>3, <1>6, <2>1, <2>2 DEF RowsHeld
  <1>11. ShownOrDue'
    <2> SUFFICES ASSUME ~unshown', NEW v \in Views PROVE views'[v] = Shown' \/ Due(v)'
      BY DEF ShownOrDue
    <2>1. ~unshown /\ page.row.unit = meter.unit /\ ~RatesDiffer(meter.unit, local.unit)
      BY <1>1
    <2>2. CASE crosses
      BY <1>3, <2>2 DEF Due
    <2>3. CASE ~crosses
      <3>1. Shown' = Shown
        <4>1. CASE meter.unit = local.unit
          BY <1>1, <1>4, <1>6, <2>1, <4>1 DEF Shown, Exists
        <4>2. CASE meter.unit # local.unit
          <5>1. /\ NoUnit \notin {meter.unit, local.unit}
                /\ (Kind(meter.unit) = "quantity") <=> (Kind(local.unit) = "quantity")
            BY <2>1, <2>3, <4>2 DEF crosses, Crosses
          <5>2. DividedBy(meter.unit) = DividedBy(local.unit)
            BY <2>1, <5>1 DEF RatesDiffer, DividedBy
          <5>3. QED
            BY <1>1, <1>4, <1>6, <5>1, <5>2 DEF Shown, Exists
        <4>3. QED
          BY <4>1, <4>2
      <3>2. Due(v) => Due(v)'
        BY <1>1, <1>8 DEF Due
      <3>3. QED
        BY <1>1, <2>1, <3>1, <3>2 DEF IInv, ShownOrDue
    <2>4. QED
      BY <2>2, <2>3
  <1>12. QED
    BY <1>9, <1>10, <1>11 DEF IInv

LEMMA RefreshAfterEditKeeps ==
    ASSUME IInv, NEW v \in Views, RefreshAfterEdit(v)
    PROVE  IInv'
  <1>1. /\ page.pc = "refresh" /\ v \in page.todo /\ views' = [views EXCEPT ![v] = Shown]
        /\ UNCHANGED <<meter, readings, jobs, wanted, raced, unshown>>
    BY DEF RefreshAfterEdit
  <1>2. /\ DOMAIN page' = {"pc", "row", "todo"} /\ page'.pc \in {"closed", "refresh"}
        /\ page'.todo \in SUBSET Views
        /\ \A w \in page.todo \ {v} : page'.pc = "refresh" /\ w \in page'.todo
    BY <1>1 DEF RefreshAfterEdit, Closed, IInv, Shapes, Views
  <1>3. Shapes'
    BY <1>1, <1>2 DEF IInv, Shapes
  <1>4. RowsHeld'
    BY <1>1, <1>2 DEF IInv, RowsHeld, NothingYet, MeterKept, Held, Exists
  <1>5. Shown' = Shown
    BY <1>1 DEF Shown, Exists
  <1>6. views'[v] = Shown /\ \A w \in Views : w # v => views'[w] = views[w]
    BY <1>1 DEF IInv, Shapes
  <1>7. \A w \in Views : w # v /\ Due(w) => Due(w)'
    BY <1>1, <1>2 DEF Due
  <1>8. ShownOrDue'
    BY <1>1, <1>5, <1>6, <1>7 DEF IInv, ShownOrDue
  <1>9. QED
    BY <1>3, <1>4, <1>8 DEF IInv

-----------------------------------------------------------------------------
LEMMA StepKeeps == IInv /\ [Next]_vars => IInv'
  <1> SUFFICES ASSUME IInv, [Next]_vars PROVE IInv'
    OBVIOUS
  <1>1. CASE UNCHANGED vars
    BY <1>1 DEF vars, IInv, Shapes, RowsHeld, NothingYet, MeterKept, Held, Exists, ShownOrDue,
                Shown, Due
  <1>2. CASE \E j \in Readers : JobSteps(j)
    BY <1>2, ProcessKeeps, UpdateMeterKeeps, InsertKeeps, RefreshKeeps DEF JobSteps
  <1>3. CASE \E given \in InFiles : UploadMeters(given) \/ InsertFromFile(given)
    BY <1>3, UploadMetersKeeps, InsertFromFileKeeps
  <1>4. CASE page.pc = "open" /\ \E local \in Changed(page.row) : SaveEdit(local)
    BY <1>4, SaveEditKeeps
  <1>5. QED
    BY <1>1, <1>2, <1>3, <1>4, TickKeeps, PollKeeps, FetchKeeps, FetchFailsKeeps,
       UploadReadingsKeeps, CrashKeeps, MergeFileKeeps, AddMeterKeeps, OpenPageKeeps,
       DiscardKeeps, RefreshAfterEditKeeps DEF Next, Readers

LEMMA Invariance == Spec => []IInv
  BY Initially, StepKeeps, PTL DEF Spec

(* The settings of the meter are those an administrator saved last, unless *)
(* a job had read the row before that and wrote it back after.             *)
THEOREM SettingsAreKept == Spec => []SettingsKept
  <1>1. IInv => SettingsKept
    BY DEF IInv, RowsHeld, MeterKept, SettingsKept
  <1>2. QED
    BY Invariance, <1>1, PTL

(* At rest both views show the readings there are, divided as the unit of  *)
(* the meter asks, unless something changed them that asks for no refresh: *)
(* an edit between rates given for different seconds is such a change.     *)
THEOREM ViewsAreCurrent == Spec => []ViewsCurrent
  <1>1. IInv => ViewsCurrent
    BY DEF IInv, ShownOrDue, Due, ViewsCurrent, ViewsRight
  <1>2. QED
    BY Invariance, <1>1, PTL

-----------------------------------------------------------------------------
(* What an upload makes of its rows.  The loop over them is a recursive    *)
(* function, and what holds of it is proved for the least turn at which it *)
(* would not.                                                              *)

(* What a job may be about to insert: what the device counted in one tick. *)
Counted == {Pipeline!Piece(Row(t), t, t + 1, Pipeline!Whole(1)) : t \in Nat}

Starts(rs) == {rs[p].start : p \in DOMAIN rs}

(* The tick is stored, about to be, or lost for a known reason.            *)
Known(t) ==
    \/ \E r \in readings : r.start = t
    \/ t \in lost
    \/ \E j \in Jobs : jobs[j].pc = "insert" /\ t \in Starts(jobs[j].result)

(* A memory is the counter at its end.                                     *)
Sound(mem) ==
    /\ DOMAIN mem = {"reading", "start", "end", "previousEnd"}
    /\ mem.end.t \in Nat /\ mem.reading = Shows(mem.end.t)
    /\ mem.previousEnd \in {E0, Invalid}

(* All before a tick is known, but for the first reading.                  *)
Covered(to) == \A t \in 2..(to - 1) : Known(t)

(* A row of the meter, wherever it is held.                                *)
RowTrue(m) == Sound(m.mem) /\ Covered(m.mem.end.t)

(* The rows of a file or an answer follow on from what is known.           *)
Asked(rows) ==
    \E from \in Nat \ {0}, to \in Nat : rows = RowsBetween(from, to) /\ Covered(from)

JobTrue(j) ==
    /\ jobs[j].honorDst \in BOOLEAN
    /\ jobs[j].pc = "fetch" => RowTrue(jobs[j].row)
    /\ jobs[j].pc = "process" => Asked(jobs[j].rows)
    /\ jobs[j].pc = "update" =>
        IF j = "file" THEN RowTrue(jobs[j].row)
        ELSE /\ Sound(jobs[j].row.mem)
             /\ jobs[j].result \in Seq(Counted)
             /\ \A t \in 2..(jobs[j].row.mem.end.t - 1) :
                    Known(t) \/ t \in Starts(jobs[j].result)
    /\ jobs[j].pc = "insert" => jobs[j].result \in Seq(Counted)

TruthInv ==
    /\ device \in Nat \ {0}
    /\ ReadingsExact
    /\ Exists => RowTrue(meter)
    /\ page.pc = "open" => RowTrue(page.row)
    /\ \A j \in Jobs : JobTrue(j)

(* A set of natural numbers that is not empty has a least element.         *)
LEMMA LeastNat ==
    ASSUME NEW T \in SUBSET Nat, T # {}
    PROVE  \E x \in T : \A y \in T : x <= y
  <1> DEFINE R == OpToRel(<, Nat)
  <1>1. IsWellFoundedOn(R, Nat)
    BY NatLessThanWellFounded
  <1>2. PICK x \in T : \A y \in T : ~(<<y, x>> \in R)
    <2> HIDE DEF R
    <2>1. QED
      BY <1>1, WFMin
  <1>3. ASSUME NEW y \in T PROVE x <= y
    <2>1. x \in Nat /\ y \in Nat
      OBVIOUS
    <2>2. ~(y < x)
      BY <1>2, <2>1 DEF OpToRel
    <2>3. QED
      BY <2>1, <2>2
  <1>4. QED
    BY <1>3

(* So a set that has 0, and with each number the next, has them all.       *)
LEMMA AllNat ==
    ASSUME NEW S, 0 \in S, \A k \in Nat : k \in S => k + 1 \in S
    PROVE  Nat \subseteq S
  <1> DEFINE T == {k \in Nat : k \notin S}
  <1>1. SUFFICES ASSUME T # {} PROVE FALSE
    OBVIOUS
  <1>2. T \in SUBSET Nat
    OBVIOUS
  <1> HIDE DEF T
  <1>3. PICK k \in T : \A j \in T : k <= j
    BY <1>1, <1>2, LeastNat
  <1>4. k # 0 /\ k \in Nat /\ k \notin S
    BY <1>3 DEF T
  <1>5. k - 1 \in Nat /\ k - 1 \notin T /\ (k - 1) + 1 = k
    BY <1>3, <1>4
  <1>6. k - 1 \in S
    BY <1>5 DEF T
  <1>7. QED
    BY <1>4, <1>5, <1>6

(* The locals after each of the first n turns.                             *)
Turns(f, c, m, rows, n) ==
    f = [i \in 0..n |-> IF i = 0 THEN Locals(c, m) ELSE Turn(c, f[i - 1], rows[i])]

LEMMA TurnsExist ==
    ASSUME NEW c, NEW m, NEW rows, NEW n \in Nat
    PROVE  \E f : Turns(f, c, m, rows, n)
  <1> DEFINE S == {k \in Nat : \E f : Turns(f, c, m, rows, k)}
  <1>1. 0 \in S
    <2>1. Turns([i \in 0..0 |-> Locals(c, m)], c, m, rows, 0)
      BY DEF Turns
    <2>2. QED
      BY <2>1
  <1>2. ASSUME NEW k \in Nat, k \in S PROVE k + 1 \in S
    <2>1. PICK f : Turns(f, c, m, rows, k)
      BY <1>2
    <2> DEFINE g == [i \in 0..(k + 1) |-> IF i <= k THEN f[i] ELSE Turn(c, f[k], rows[k + 1])]
    <2>2. ASSUME NEW i \in 0..(k + 1)
          PROVE  g[i] = IF i = 0 THEN Locals(c, m) ELSE Turn(c, g[i - 1], rows[i])
      <3>1. CASE i = 0
        BY <2>1, <3>1 DEF Turns
      <3>2. CASE i # 0 /\ i <= k
        <4>1. f[i] = Turn(c, f[i - 1], rows[i])
          BY <2>1, <3>2 DEF Turns
        <4>2. g[i - 1] = f[i - 1] /\ g[i] = f[i]
          BY <3>2
        <4>3. QED
          BY <3>2, <4>1, <4>2
      <3>3. CASE i = k + 1
        <4>1. g[i - 1] = f[k] /\ g[i] = Turn(c, f[k], rows[k + 1]) /\ i # 0
          BY <3>3
        <4>2. QED
          BY <3>3, <4>1
      <3>4. QED
        BY <3>1, <3>2, <3>3
    <2>3. g = [i \in 0..(k + 1) |-> g[i]]
      OBVIOUS
    <2> HIDE DEF g
    <2>4. Turns(g, c, m, rows, k + 1)
      BY <2>2, <2>3 DEF Turns
    <2>5. QED
      BY <2>4
  <1>3. Nat \subseteq S
    <2> HIDE DEF S
    <2>1. QED
      BY <1>1, <1>2, AllNat
  <1>4. QED
    BY <1>3

LEMMA ProcessedIsLast ==
    ASSUME NEW c, NEW m, NEW rows, Len(rows) \in Nat
    PROVE  \E f : Turns(f, c, m, rows, Len(rows)) /\ Processed(c, m, rows) = f[Len(rows)]
  <1> DEFINE f == CHOOSE f : Turns(f, c, m, rows, Len(rows))
  <1>1. Turns(f, c, m, rows, Len(rows))
    BY TurnsExist
  <1>2. Processed(c, m, rows) = f[Len(rows)]
    BY Zenon DEF Processed, Turns
  <1>3. QED
    BY <1>1, <1>2

LocalFields ==
    {"n", "from", "reading", "prev", "prevTz", "startTz", "endTz", "result", "allOk",
     "inDst", "inDstStop", "splitDst", "prevEnd", "origEnd", "startUse", "zoneUntil"}

(* The locals before a row: the value and the end remembered are of one    *)
(* row, and what is accepted was counted in one tick.  Nothing changes the *)
(* end kept for a change of offset; one that is not a time drops all rows. *)
Steady(honorDst, mem, end, l) ==
    /\ DOMAIN l = LocalFields
    /\ l.result \in Seq(Counted)
    /\ ~l.splitDst /\ ~l.inDstStop
    /\ l.inDst \in BOOLEAN
    /\ l.inDst = (honorDst /\ mem.previousEnd # E0)
    /\ l.prevEnd = IF honorDst THEN mem.previousEnd ELSE Invalid
    /\ end \in Nat /\ l.reading = Shows(end) /\ l.prev.end = end /\ l.endTz.t = end

LEMMA StartIsSteady ==
    ASSUME NEW honorDst \in BOOLEAN, NEW mem, Sound(mem)
    PROVE  Steady(honorDst, mem, mem.end.t, Locals(Config(honorDst), mem))
  <1>1. Config(honorDst).honorDst = honorDst
    BY DEF Config
  <1> DEFINE c == Config(honorDst)
  <1> HIDE DEF c
  <1>2. c.honorDst = honorDst
    BY <1>1 DEF c
  <1>3. Steady(honorDst, mem, mem.end.t, Locals(c, mem))
    BY <1>2 DEF Steady, Locals, LocalFields, Sound
  <1>4. QED
    BY <1>3 DEF c

(* What is known of a row before it is accepted or dropped.                *)
Looked(l, tick, x) ==
    /\ DOMAIN x = {"l", "ok", "start", "end", "shift", "val"}
    /\ x.l = [l EXCEPT !.reading = Shows(tick + 1)]
    /\ x.ok \in BOOLEAN
    /\ x.start = tick /\ x.end = tick + 1 /\ x.shift = 0
    /\ x.val = Pipeline!Whole(Shows(tick + 1) - l.reading)

LEMMA RowIsLooked ==
    ASSUME NEW honorDst \in BOOLEAN, NEW mem, Sound(mem), NEW end, NEW l,
           Steady(honorDst, mem, end, l), NEW tick \in Nat
    PROVE  LET x == Pipeline!Examined(Config(honorDst), l, Row(tick))
           IN  Looked(l, tick, x) /\ (x.ok => tick = end /\ ~l.inDst)
  <1> DEFINE c == Config(honorDst)
             row == Row(tick)
             x == Pipeline!Parse(c, l, row)
             y == Pipeline!HonorDst(c, x)
             z == Pipeline!Checked(c, y)
  <1>1. /\ c.honorDst = honorDst /\ c.cumulative /\ ~c.endOnly /\ c.gap = 0
    BY DEF Config
  <1>2. /\ row.value = Shows(tick + 1) /\ row.start = tick /\ row.end = tick + 1
        /\ row.startTz = 0 /\ row.endTz = 0
    BY DEF Row
  <1> HIDE DEF c, row
  <1>3. Looked(l, tick, x)
    BY <1>1, <1>2 DEF Looked, Pipeline!Parse, Pipeline!First
  <1> HIDE DEF x
  <1>4. x.l.inDst = l.inDst /\ x.l.prevEnd = l.prevEnd /\ x.l.prev = l.prev
    BY <1>3 DEF Looked, Steady, LocalFields
  <1>5. Looked(l, tick, y) /\ (l.inDst => ~y.ok)
    <2>1. CASE ~(x.ok /\ c.honorDst)
      <3>1. y = x
        BY <2>1 DEF Pipeline!HonorDst
      <3>2. l.inDst => c.honorDst
        BY <1>1 DEF Steady
      <3>3. QED
        BY <1>3, <2>1, <3>1, <3>2
    <2>2. CASE x.ok /\ c.honorDst
      <3>1. ~(x.start >= x.end)
        BY <1>3 DEF Looked
      <3>2. Pipeline!LeaveDst(Pipeline!EnterDst(x)) = x
        BY <1>3 DEF Looked, Pipeline!EnterDst, Pipeline!LeaveDst
      <3>3. y = Pipeline!Repeated(x)
        BY <2>2, <3>1, <3>2 DEF Pipeline!HonorDst
      <3>4. CASE ~l.inDst
        BY <1>3, <1>4, <3>3, <3>4 DEF Pipeline!Repeated
      <3>5. CASE l.inDst
        <4>1. l.prevEnd = Invalid
          BY <1>1, <2>2, <3>5 DEF Steady, Sound
        <4>2. ~Pipeline!IsAfter(x.end, x.l.prevEnd)
          BY <1>4, <4>1 DEF Pipeline!IsAfter, Invalid
        <4>3. y = [x EXCEPT !.ok = FALSE, !.start = x.start - x.shift]
          BY <1>4, <3>3, <3>5, <4>2 DEF Pipeline!Repeated
        <4>4. QED
          BY <1>3, <4>3 DEF Looked
      <3>6. QED
        BY <3>4, <3>5 DEF Steady
    <2>3. QED
      BY <2>1, <2>2
  <1> HIDE DEF y
  <1>6. y.l.prev.end = end
    <2>1. y.l.prev = l.prev
      BY <1>5 DEF Looked, Steady, LocalFields
    <2>2. QED
      BY <2>1 DEF Steady
  <1>7. z = [y EXCEPT !.ok = y.ok /\ Pipeline!InOrder(c, y)]
    BY DEF Pipeline!Checked
  <1>8. Pipeline!InOrder(c, y) \in BOOLEAN /\ (Pipeline!InOrder(c, y) => tick = end)
    <2>1. y.start = tick /\ end \in Nat
      BY <1>5 DEF Looked, Steady
    <2>2. Pipeline!InOrder(c, y) =>
            tick >= end /\ Pipeline!Distance(tick, end) <= 0
      BY <1>1, <1>6, <2>1 DEF Pipeline!InOrder
    <2>3. QED
      BY <2>1, <2>2 DEF Pipeline!Distance, Pipeline!InOrder
  <1>9. Looked(l, tick, z) /\ (z.ok => tick = end /\ ~l.inDst)
    BY <1>5, <1>7, <1>8 DEF Looked
  <1> HIDE DEF z
  <1>10. QED
    BY <1>9 DEF Pipeline!Examined, x, y, z, c, row

(* One turn of the loop.                                                   *)
LEMMA TurnIsSteady ==
    ASSUME NEW honorDst \in BOOLEAN, NEW mem, Sound(mem), NEW end, NEW l,
           Steady(honorDst, mem, end, l), NEW tick \in Nat
    PROVE  Steady(honorDst, mem, tick + 1, Turn(Config(honorDst), l, Row(tick)))
  <1> DEFINE c == Config(honorDst)
             row == Row(tick)
             x == Pipeline!Examined(c, l, row)
             k == Pipeline!Decided(c, x, row)
             part == Pipeline!Piece(row, tick, tick + 1, Pipeline!Whole(1))
  <1>1. Looked(l, tick, x) /\ (x.ok => tick = end /\ ~l.inDst)
    BY RowIsLooked
  <1>2. c.frequency = 0 /\ c.cumulative /\ ~c.endOnly
    BY DEF Config
  <1>3. row.start = tick /\ row.end = tick + 1 /\ row.endTz = 0
    BY DEF Row
  <1>4. part \in Counted
    BY DEF Counted
  <1> HIDE DEF c, row, x, part
  <1>5. /\ x.l = [l EXCEPT !.reading = Shows(tick + 1)] /\ DOMAIN x.l = LocalFields
        /\ x.l.result = l.result /\ ~x.l.splitDst /\ ~x.l.inDstStop /\ x.l.inDst = l.inDst
        /\ x.l.prevEnd = l.prevEnd /\ x.l.reading = Shows(tick + 1)
    BY <1>1 DEF Looked, Steady, LocalFields
  <1>6. /\ DOMAIN k = LocalFields
        /\ k.result \in Seq(Counted) /\ ~k.splitDst /\ ~k.inDstStop /\ k.inDst = l.inDst
        /\ k.prevEnd = l.prevEnd /\ k.reading = Shows(tick + 1) /\ k.prev.end = tick + 1
    <2>1. CASE ~x.ok
      <3>1. k = [x.l EXCEPT !.allOk = FALSE, !.prev = [start |-> x.start, end |-> x.end]]
        BY <2>1 DEF Pipeline!Decided, Pipeline!Drop
      <3>2. x.end = tick + 1 /\ l.result \in Seq(Counted)
        BY <1>1 DEF Looked, Steady
      <3>3. QED
        BY <1>5, <3>1, <3>2 DEF LocalFields
    <2>2. CASE x.ok
      <3>1. x.val = Pipeline!Whole(1)
        <4>1. Shows(tick + 1) - l.reading = 1
          BY <1>1, <2>2 DEF Steady, Shows
        <4>2. QED
          BY <1>1, <4>1 DEF Looked
      <3>2. ~Pipeline!IsNegative(x.val)
        BY <3>1 DEF Pipeline!IsNegative, Pipeline!Whole
      <3>3. Pipeline!AtFrequency(c, Pipeline!AfterReset(c, x)) = x
        BY <1>2, <3>2 DEF Pipeline!AtFrequency, Pipeline!AfterReset
      <3>4. x.start = tick /\ x.end = tick + 1
        BY <1>1 DEF Looked
      <3>5. k = [x.l EXCEPT !.result = Append(x.l.result, part),
                            !.prev = [start |-> x.start, end |-> x.end]]
        BY <1>5, <2>2, <3>1, <3>3, <3>4 DEF Pipeline!Decided, Pipeline!Accept, part
      <3>6. Append(l.result, part) \in Seq(Counted)
        BY <1>4 DEF Steady
      <3>7. QED
        BY <1>5, <3>4, <3>5, <3>6 DEF LocalFields
    <2>3. QED
      BY <1>1, <2>1, <2>2 DEF Looked
  <1>7. Turn(c, l, row) = [k EXCEPT !.prevTz = row.endTz, !.n = k.n + 1,
                                    !.startTz = Pipeline!StartTz(c, k, row),
                                    !.endTz = [t |-> row.end, off |-> row.endTz]]
    BY DEF Turn, Pipeline!Step, x
  <1> HIDE DEF k
  <1> DEFINE u == Turn(c, l, row)
  <1>8. /\ DOMAIN u = LocalFields
        /\ u.result = k.result /\ u.splitDst = k.splitDst /\ u.inDstStop = k.inDstStop
        /\ u.inDst = k.inDst /\ u.prevEnd = k.prevEnd /\ u.reading = k.reading
        /\ u.prev = k.prev /\ u.endTz.t = tick + 1
    BY <1>3, <1>6, <1>7 DEF LocalFields
  <1> HIDE DEF u
  <1>9. Steady(honorDst, mem, tick + 1, u)
    BY <1>6, <1>8 DEF Steady
  <1>10. QED
    BY <1>9 DEF u, c, row

LEMMA RowsAre ==
    ASSUME NEW from \in Nat \ {0}, NEW to \in Nat
    PROVE  LET rows == RowsBetween(from, to)
               n == IF to > from THEN to - from ELSE 0
           IN  /\ Len(rows) = n /\ DOMAIN rows = 1..n
               /\ \A i \in 1..n : rows[i] = Row(from + i - 1)
  <1> DEFINE n == IF to > from THEN to - from ELSE 0
  <1>1. n \in Nat /\ 1..(to - from) = 1..n
    OBVIOUS
  <1>2. RowsBetween(from, to) = [i \in 1..n |-> Row(from + i - 1)]
    BY <1>1 DEF RowsBetween
  <1> HIDE DEF n
  <1>3. /\ Len([i \in 1..n |-> Row(from + i - 1)]) = n
        /\ DOMAIN [i \in 1..n |-> Row(from + i - 1)] = 1..n
    BY <1>1
  <1>4. QED
    BY <1>2, <1>3 DEF n

(* A whole upload leaves the memory sound, accepts what was counted, and   *)
(* reaches no further than its rows.                                       *)
LEMMA UploadIsSound ==
    ASSUME NEW honorDst \in BOOLEAN, NEW mem, Sound(mem), NEW from \in Nat \ {0}, NEW to \in Nat,
           LET l == Processed(Config(honorDst), mem, RowsBetween(from, to))
           IN  ~(honorDst /\ l.prevEnd = Invalid)
    PROVE  LET l == Processed(Config(honorDst), mem, RowsBetween(from, to))
           IN  /\ Sound(Memory(l))
               /\ l.result \in Seq(Counted)
               /\ Memory(l).end.t = IF to > from THEN to ELSE mem.end.t
  <1> DEFINE c == Config(honorDst)
             rows == RowsBetween(from, to)
             n == IF to > from THEN to - from ELSE 0
             end(i) == IF i = 0 THEN mem.end.t ELSE from + i
             l == Processed(c, mem, rows)
  <1>1. /\ n \in Nat /\ Len(rows) = n
        /\ \A i \in 1..n : rows[i] = Row(from + i - 1)
    BY RowsAre
  <1>2. PICK f : Turns(f, c, mem, rows, n) /\ l = f[n]
    <2> HIDE DEF rows, c, n
    <2>1. QED
      BY <1>1, ProcessedIsLast
  <1> DEFINE S == {i \in Nat : i <= n => Steady(honorDst, mem, end(i), f[i])}
  <1>3. 0 \in S
    <2>1. f[0] = Locals(c, mem)
      BY <1>1, <1>2 DEF Turns
    <2>2. Steady(honorDst, mem, mem.end.t, Locals(c, mem))
      BY StartIsSteady
    <2>3. QED
      BY <2>1, <2>2
  <1>4. ASSUME NEW k \in Nat, k \in S PROVE k + 1 \in S
    <2>1. SUFFICES ASSUME k + 1 <= n PROVE Steady(honorDst, mem, from + (k + 1), f[k + 1])
      OBVIOUS
    <2>2. Steady(honorDst, mem, end(k), f[k])
      <3>1. k \in S /\ k <= n
        BY <1>1, <1>4, <2>1
      <3>2. QED
        BY <3>1
    <2>3. f[k + 1] = Turn(c, f[k], rows[k + 1])
      <3> HIDE DEF c, rows, n
      <3>1. k + 1 \in 0..n /\ k + 1 # 0 /\ (k + 1) - 1 = k
        BY <1>1, <2>1
      <3>2. QED
        BY <1>2, <3>1 DEF Turns
    <2>4. rows[k + 1] = Row(from + k)
      <3> HIDE DEF rows, n
      <3>1. k + 1 \in 1..n /\ from + (k + 1) - 1 = from + k
        BY <1>1, <2>1
      <3>2. QED
        BY <1>1, <3>1
    <2>5. Steady(honorDst, mem, (from + k) + 1, Turn(c, f[k], Row(from + k)))
      <3> HIDE DEF end
      <3>1. from + k \in Nat
        OBVIOUS
      <3>2. QED
        BY <2>2, <3>1, TurnIsSteady
    <2>6. (from + k) + 1 = from + (k + 1)
      OBVIOUS
    <2>7. QED
      BY <2>3, <2>4, <2>5, <2>6
  <1>5. n \in S
    <2> HIDE DEF S, n
    <2>1. QED
      BY <1>1, <1>3, <1>4, AllNat
  <1>6. Steady(honorDst, mem, end(n), l)
    BY <1>1, <1>2, <1>5
  <1>7. end(n) = IF to > from THEN to ELSE mem.end.t
    OBVIOUS
  <1> HIDE DEF l, end, n, S
  <1>8. Sound(Memory(l)) /\ Memory(l).end.t = end(n)
    BY <1>6 DEF Steady, Sound, Memory, l
  <1>9. QED
    BY <1>6, <1>7, <1>8 DEF Steady, l

(* What the memory moves past is accepted, lost, was there before, or lies *)
(* before the rows.                                                        *)
LEMMA UploadLeavesNone ==
    ASSUME NEW honorDst \in BOOLEAN, NEW mem, Sound(mem), NEW from \in Nat \ {0}, NEW to \in Nat,
           LET l == Processed(Config(honorDst), mem, RowsBetween(from, to))
           IN  ~(honorDst /\ l.prevEnd = Invalid),
           NEW t \in Nat,
           t < Memory(Processed(Config(honorDst), mem, RowsBetween(from, to))).end.t,
           t >= mem.end.t, t >= from
    PROVE  LET l == Processed(Config(honorDst), mem, RowsBetween(from, to))
           IN  t \in Starts(l.result) \/ t \in Skipped(mem, RowsBetween(from, to), l)
  <1> DEFINE rows == RowsBetween(from, to)
             l == Processed(Config(honorDst), mem, rows)
             n == IF to > from THEN to - from ELSE 0
  <1>1. Memory(l).end.t = IF to > from THEN to ELSE mem.end.t
    BY UploadIsSound
  <1>2. mem.end.t \in Nat
    BY DEF Sound
  <1>3. to > from /\ t < to
    BY <1>1, <1>2
  <1>4. PICK i \in 1..n : from + i - 1 = t
    <2>1. (t - from) + 1 \in 1..n /\ from + ((t - from) + 1) - 1 = t
      BY <1>3
    <2>2. QED
      BY <2>1
  <1>5. DOMAIN rows = 1..n /\ rows[i] = Row(t)
    BY <1>4, RowsAre
  <1> HIDE DEF rows, l, n
  <1>6. rows[i].start = t
    BY <1>5 DEF Row
  <1>7. ASSUME t \notin Starts(l.result)
        PROVE  t \in Skipped(mem, rows, l)
    BY <1>4, <1>5, <1>6, <1>7 DEF Skipped, Starts
  <1>8. QED
    BY <1>7 DEF l, rows

(* What insertOrIgnoreAll adds.                                            *)
LEMMA InsertedAre ==
    ASSUME NEW rs \in Seq(Counted)
    PROVE  LET now == Inserted(rs)
           IN  /\ readings \subseteq now
               /\ \A r \in now : r \in readings \/ r.val = Pipeline!Whole(Shows(r.end) - Shows(r.start))
               /\ \A t \in Starts(rs) : \E r \in now : r.start = t
  <1> DEFINE at(t) == {i \in DOMAIN rs : rs[i].start = t}
             isNew(i) == /\ \A r \in readings : r.start # rs[i].start
                         /\ \A j \in at(rs[i].start) : i <= j
             row(i) == [start |-> rs[i].start, end |-> rs[i].end, val |-> rs[i].val]
             new == {row(i) : i \in {k \in DOMAIN rs : isNew(k)}}
  <1>1. Inserted(rs) = readings \cup new
    <2>1. Inserted(rs) = {r : r \in readings \cup new}
      BY DEF Inserted, Pipeline!Stored
    <2> HIDE DEF new
    <2>2. QED
      BY <2>1
  <1>2. ASSUME NEW r \in new
        PROVE  r.val = Pipeline!Whole(Shows(r.end) - Shows(r.start))
    <2>1. PICK i \in DOMAIN rs : r = row(i)
      OBVIOUS
    <2>2. rs[i] \in Counted
      OBVIOUS
    <2>3. PICK t \in Nat : rs[i] = Pipeline!Piece(Row(t), t, t + 1, Pipeline!Whole(1))
      BY <2>2 DEF Counted
    <2>4. r.start = t /\ r.end = t + 1 /\ r.val = Pipeline!Whole(1)
      BY <2>1, <2>3 DEF Pipeline!Piece
    <2>5. Shows(t + 1) - Shows(t) = 1
      BY DEF Shows
    <2>6. QED
      BY <2>4, <2>5
  <1>3. ASSUME NEW t \in Starts(rs), \A r \in readings : r.start # t
        PROVE  \E r \in new : r.start = t
    <2>1. at(t) # {} /\ at(t) \in SUBSET Nat
      BY DEF Starts
    <2>2. PICK i \in at(t) : \A j \in at(t) : i <= j
      <3> HIDE DEF at
      <3>1. QED
        BY <2>1, LeastNat
    <2>3. isNew(i) /\ rs[i].start = t
      BY <1>3, <2>2
    <2>4. row(i) \in new /\ row(i).start = t
      BY <2>2, <2>3
    <2>5. QED
      BY <2>4
  <1> HIDE DEF new
  <1>4. QED
    BY <1>1, <1>2, <1>3

-----------------------------------------------------------------------------
(* What is known stays known, so what was true of a row, a job or the page *)
(* stays true as long as it is left alone.                                 *)

Untouched(j) ==
    /\ jobs'[j].pc = jobs[j].pc /\ jobs'[j].honorDst = jobs[j].honorDst
    /\ jobs'[j].rows = jobs[j].rows /\ jobs'[j].row = jobs[j].row
    /\ jobs'[j].result = jobs[j].result

LEMMA Stays ==
    ASSUME TruthInv, \A t : Known(t) => Known(t)'
    PROVE  /\ meter' = meter => (Exists => RowTrue(meter))'
           /\ page' = page => (page.pc = "open" => RowTrue(page.row))'
           /\ \A j \in Jobs : Untouched(j) => JobTrue(j)'
  <1>1. meter' = meter => (Exists => RowTrue(meter))'
    BY DEF TruthInv, RowTrue, Covered, Exists
  <1>2. page' = page => (page.pc = "open" => RowTrue(page.row))'
    BY DEF TruthInv, RowTrue, Covered
  <1>3. ASSUME NEW j \in Jobs, Untouched(j) PROVE JobTrue(j)'
    <2> DEFINE r == jobs[j]
               s == jobs'[j]
    <2>1. JobTrue(j)
      BY DEF TruthInv
    <2>2. /\ s.pc = r.pc /\ s.honorDst = r.honorDst /\ s.rows = r.rows /\ s.row = r.row
          /\ s.result = r.result
      BY <1>3 DEF Untouched
    <2>3. s.pc = "fetch" => RowTrue(jobs[j].row)'
      BY <2>1, <2>2 DEF JobTrue, RowTrue, Covered
    <2>4. s.pc = "process" => Asked(jobs[j].rows)'
      BY <2>1, <2>2 DEF JobTrue, Asked, Covered
    <2>5. s.pc = "update" /\ j = "file" => RowTrue(jobs[j].row)'
      BY <2>1, <2>2 DEF JobTrue, RowTrue, Covered
    <2>6. s.pc = "update" /\ j # "file" =>
            /\ Sound(s.row.mem) /\ s.result \in Seq(Counted)
            /\ \A t \in 2..(s.row.mem.end.t - 1) : Known(t)' \/ t \in Starts(s.result)
      BY <2>1, <2>2 DEF JobTrue
    <2>7. s.honorDst \in BOOLEAN /\ (s.pc = "insert" => s.result \in Seq(Counted))
      BY <2>1, <2>2 DEF JobTrue
    <2>8. QED
      BY <2>3, <2>4, <2>5, <2>6, <2>7 DEF JobTrue
  <1>4. QED
    BY <1>1, <1>2, <1>3

(* A job that goes on, other than by its insert, and writes no row.        *)
LEMMA JobGoesOn ==
    ASSUME IInv, TruthInv, NEW j \in Jobs, NEW r, jobs' = [jobs EXCEPT ![j] = r],
           jobs[j].pc # "insert",
           UNCHANGED <<meter, readings, page, device>>, lost \subseteq lost'
    PROVE  /\ jobs'[j] = r
           /\ \A t : Known(t) => Known(t)'
           /\ JobTrue(j)' => TruthInv'
  <1>1. jobs'[j] = r /\ \A k \in Jobs : k # j => jobs'[k] = jobs[k]
    BY DEF IInv, Shapes
  <1>2. \A t : Known(t) => Known(t)'
    BY <1>1 DEF Known
  <1>3. \A k \in Jobs : k # j => Untouched(k)
    BY <1>1 DEF Untouched
  <1>4. JobTrue(j)' => TruthInv'
    <2>1. ReadingsExact' /\ device' \in Nat \ {0}
      BY DEF TruthInv, ReadingsExact
    <2>2. \A k \in Jobs : k # j => JobTrue(k)'
      BY <1>2, <1>3, Stays
    <2>3. (Exists => RowTrue(meter))' /\ (page.pc = "open" => RowTrue(page.row))'
      BY <1>2, Stays
    <2>4. QED
      BY <2>1, <2>2, <2>3 DEF TruthInv
  <1>5. QED
    BY <1>1, <1>2, <1>4

(* To a place where it holds nothing.                                      *)
LEMMA JobRests ==
    ASSUME IInv, TruthInv, NEW j \in Jobs, NEW r, jobs' = [jobs EXCEPT ![j] = r],
           jobs[j].pc # "insert", r.pc \in {"idle", "refresh"}, r.honorDst \in BOOLEAN,
           UNCHANGED <<meter, readings, page, device>>, lost \subseteq lost'
    PROVE  TruthInv'
  <1>1. jobs'[j] = r /\ (JobTrue(j)' => TruthInv')
    BY JobGoesOn
  <1>2. QED
    BY <1>1 DEF JobTrue

LEMMA InitIsTrue == Init => TruthInv
  <1> SUFFICES ASSUME Init PROVE TruthInv
    OBVIOUS
  <1> USE DEF Init, Idle, Closed
  <1>1. ~Exists /\ ReadingsExact
    BY DEF Exists, ReadingsExact
  <1>2. \A j \in Jobs : JobTrue(j)
    BY DEF JobTrue
  <1>3. QED
    BY <1>1, <1>2 DEF TruthInv

LEMMA TickIsTrue == IInv /\ TruthInv /\ Tick => TruthInv'
  <1> SUFFICES ASSUME IInv, TruthInv, Tick PROVE TruthInv'
    OBVIOUS
  <1>1. device' \in Nat \ {0} /\ ReadingsExact'
    BY DEF Tick, TruthInv, ReadingsExact
  <1>2. \A t : Known(t) => Known(t)'
    BY DEF Tick, Known
  <1>3. \A j \in Jobs : Untouched(j)
    BY DEF Tick, Untouched
  <1>4. meter' = meter /\ page' = page
    BY DEF Tick
  <1>5. QED
    BY <1>1, <1>2, <1>3, <1>4, Stays DEF TruthInv

LEMMA PollIsTrue == IInv /\ TruthInv /\ Poll => TruthInv'
  <1> SUFFICES ASSUME IInv, TruthInv, Poll PROVE TruthInv'
    OBVIOUS
  <1> DEFINE r == IF Exists /\ Polled
                  THEN [Idle EXCEPT !.pc = "fetch", !.honorDst = TRUE, !.row = meter,
                                    !.refresh = TRUE]
                  ELSE [Idle EXCEPT !.pc = "refresh", !.todo = Views]
  <1>1. /\ r.honorDst \in BOOLEAN
        /\ r.pc = "refresh" \/ (r.pc = "fetch" /\ r.row = meter /\ Exists)
    BY DEF Idle
  <1>2. /\ jobs' = [jobs EXCEPT !["cron"] = r] /\ jobs["cron"].pc = "idle" /\ "cron" \in Jobs
        /\ UNCHANGED <<meter, readings, page, device, lost>>
    BY DEF Poll, Jobs
  <1> HIDE DEF r
  <1>3. /\ jobs'["cron"] = r /\ \A t : Known(t) => Known(t)'
        /\ JobTrue("cron")' => TruthInv'
    BY <1>2, JobGoesOn
  <1>4. r.pc = "fetch" => RowTrue(jobs["cron"].row)'
    BY <1>1, <1>3 DEF TruthInv, RowTrue, Covered
  <1>5. QED
    BY <1>1, <1>3, <1>4 DEF JobTrue

LEMMA FetchIsTrue == IInv /\ TruthInv /\ Fetch => TruthInv'
  <1> SUFFICES ASSUME IInv, TruthInv, Fetch PROVE TruthInv'
    OBVIOUS
  <1> DEFINE end == jobs["cron"].row.mem.end.t
             from == IF end = E0 THEN 1 ELSE end
             rows == RowsBetween(from, device)
             r == [jobs["cron"] EXCEPT !.pc = "process", !.rows = rows]
  <1>1. /\ jobs["cron"].pc = "fetch" /\ "cron" \in Jobs
        /\ UNCHANGED <<meter, readings, page, device, lost>>
    BY DEF Fetch, Jobs
  <1>2. jobs' = [jobs EXCEPT !["cron"] = r]
    BY <1>1 DEF Fetch, IInv, Shapes, JobFields
  <1>3. RowTrue(jobs["cron"].row) /\ jobs["cron"].honorDst \in BOOLEAN
    BY <1>1 DEF TruthInv, JobTrue
  <1>4. from \in Nat \ {0} /\ Covered(from)
    BY <1>3 DEF RowTrue, Sound, Covered, E0, Pipeline!E0
  <1> HIDE DEF from
  <1>5. device \in Nat
    BY DEF TruthInv
  <1> HIDE DEF rows
  <1>6. r.honorDst = jobs["cron"].honorDst /\ r.pc = "process" /\ r.rows = rows
    BY <1>1 DEF IInv, Shapes, JobFields
  <1> HIDE DEF r
  <1>7. /\ jobs'["cron"] = r /\ \A t : Known(t) => Known(t)'
        /\ JobTrue("cron")' => TruthInv'
    BY <1>1, <1>2, JobGoesOn
  <1>8. Asked(jobs["cron"].rows)'
    BY <1>4, <1>5, <1>6, <1>7 DEF Asked, Covered, rows
  <1>9. QED
    BY <1>3, <1>6, <1>7, <1>8 DEF JobTrue

LEMMA FetchFailsIsTrue == IInv /\ TruthInv /\ FetchFails => TruthInv'
  <1> SUFFICES ASSUME IInv, TruthInv, FetchFails PROVE TruthInv'
    OBVIOUS
  <1> DEFINE r == [Idle EXCEPT !.pc = "refresh", !.todo = Views]
  <1>1. /\ jobs["cron"].pc = "fetch" /\ "cron" \in Jobs /\ jobs' = [jobs EXCEPT !["cron"] = r]
        /\ UNCHANGED <<meter, readings, page, device, lost>>
    BY DEF FetchFails, Jobs
  <1>2. r.pc = "refresh" /\ r.honorDst \in BOOLEAN
    BY DEF Idle
  <1> HIDE DEF r
  <1>3. QED
    BY <1>1, <1>2, JobRests

LEMMA UploadReadingsIsTrue ==
    ASSUME IInv, TruthInv, NEW to \in 2..device, NEW request \in Requests,
           UploadReadings(to, request)
    PROVE  TruthInv'
  <1> DEFINE rows == RowsBetween(1, to)
             r == [Idle EXCEPT !.pc = "process", !.honorDst = request.honorDst,
                               !.refresh = request.refresh, !.rows = rows]
  <1>1. /\ jobs["csv"].pc = "idle" /\ "csv" \in Jobs /\ jobs' = [jobs EXCEPT !["csv"] = r]
        /\ UNCHANGED <<meter, readings, page, device, lost>>
    BY DEF UploadReadings, Jobs
  <1>2. request.honorDst \in BOOLEAN /\ to \in Nat
    BY DEF Requests, TruthInv
  <1> HIDE DEF rows
  <1>3. r.pc = "process" /\ r.honorDst = request.honorDst /\ r.rows = rows
    BY DEF Idle
  <1> HIDE DEF r
  <1>4. jobs'["csv"] = r /\ (JobTrue("csv")' => TruthInv')
    BY <1>1, JobGoesOn
  <1>5. Asked(jobs["csv"].rows)'
    <2>1. jobs'["csv"].rows = RowsBetween(1, to)
      BY <1>3, <1>4 DEF rows
    <2>2. 1 \in Nat \ {0} /\ 2..(1 - 1) = {}
      OBVIOUS
    <2>3. QED
      BY <1>2, <2>1, <2>2 DEF Asked, Covered
  <1>6. QED
    BY <1>2, <1>3, <1>4, <1>5 DEF JobTrue

LEMMA ProcessIsTrue ==
    ASSUME IInv, TruthInv, NEW j \in Readers, Process(j)
    PROVE  TruthInv'
  <1> DEFINE h == jobs[j].honorDst
             c == Config(h)
             mem == meter.mem
             rows == jobs[j].rows
             l == Processed(c, mem, rows)
             row == [meter EXCEPT !.mem = Memory(l)]
             r == [jobs[j] EXCEPT !.pc = "update", !.result = l.result, !.rows = <<>>,
                                  !.stale = FALSE, !.row = row]
             f == IF j = "cron" THEN [Idle EXCEPT !.pc = "refresh", !.todo = Views] ELSE Idle
  <1>1. /\ jobs[j].pc = "process" /\ j \in Jobs /\ j # "file"
        /\ UNCHANGED <<meter, readings, page, device>>
    BY DEF Process, Jobs, Readers
  <1>2. IsRow(meter) /\ RowTrue(meter) /\ h \in BOOLEAN /\ Asked(rows)
    BY <1>1 DEF IInv, RowsHeld, NothingYet, MeterKept, TruthInv, JobTrue
  <1>3. c.honorDst = h
    BY DEF Config
  <1>4. CASE h /\ l.prevEnd = Invalid
    <2>1. jobs' = [jobs EXCEPT ![j] = f] /\ lost' = lost
      BY <1>3, <1>4 DEF Process, RowRead, Failed
    <2>2. f.pc \in {"idle", "refresh"} /\ f.honorDst \in BOOLEAN
      BY DEF Idle
    <2> HIDE DEF f
    <2>3. QED
      BY <1>1, <2>1, <2>2, JobRests
  <1>5. CASE ~(h /\ l.prevEnd = Invalid)
    <2>1. /\ jobs' = [jobs EXCEPT ![j].pc = "update", ![j].result = l.result,
                          ![j].rows = <<>>, ![j].stale = FALSE, ![j].row = row]
          /\ lost' = lost \cup Skipped(mem, rows, l)
      <3> HIDE DEF c
      <3>1. QED
        BY <1>3, <1>5 DEF Process, RowRead, c
    <2>2. PICK from \in Nat \ {0}, to \in Nat : rows = RowsBetween(from, to) /\ Covered(from)
      BY <1>2 DEF Asked
    <2>3. Sound(mem) /\ Covered(mem.end.t)
      BY <1>2 DEF RowTrue
    <2> HIDE DEF h, mem, rows
    <2>4. /\ Sound(Memory(l)) /\ l.result \in Seq(Counted)
          /\ Memory(l).end.t \in Nat
      <3>1. Sound(Memory(l)) /\ l.result \in Seq(Counted)
        BY <1>2, <1>5, <2>2, <2>3, UploadIsSound
      <3>2. QED
        BY <3>1 DEF Sound
    <2>5. ASSUME NEW t \in Nat, t < Memory(l).end.t, t >= mem.end.t, t >= from
          PROVE  t \in Starts(l.result) \/ t \in lost'
      <3>1. t \in Starts(l.result) \/ t \in Skipped(mem, rows, l)
        BY <1>2, <1>5, <2>2, <2>3, <2>5, UploadLeavesNone
      <3>2. QED
        BY <2>1, <3>1
    <2> DEFINE result == l.result
               memory == Memory(l)
    <2> HIDE DEF l
    <2>6. row.mem = memory
      BY <1>2 DEF IsRow, Fields
    <2> HIDE DEF result, memory, row
    <2>7. jobs' = [jobs EXCEPT ![j] = r]
      <3>1. jobs' = [jobs EXCEPT ![j].pc = "update", ![j].result = result,
                          ![j].rows = <<>>, ![j].stale = FALSE, ![j].row = row]
        BY <2>1 DEF result
      <3>2. r = [jobs[j] EXCEPT !.pc = "update", !.result = result, !.rows = <<>>,
                                !.stale = FALSE, !.row = row]
        BY DEF result
      <3> HIDE DEF r
      <3>3. QED
        BY <1>1, <3>1, <3>2 DEF IInv, Shapes, JobFields
    <2>8. /\ r.pc = "update" /\ r.result = result /\ r.row = row /\ r.honorDst = h
      BY <1>1 DEF IInv, Shapes, JobFields, h, result
    <2> HIDE DEF r
    <2>9. /\ jobs'[j] = r /\ \A t : Known(t) => Known(t)'
          /\ JobTrue(j)' => TruthInv'
      <3>1. lost \subseteq lost'
        BY <2>1
      <3>2. QED
        BY <1>1, <2>7, <3>1, JobGoesOn
    <2>10. ASSUME NEW t \in 2..(memory.end.t - 1)
           PROVE  Known(t)' \/ t \in Starts(result)
      <3>1. t \in Nat /\ t >= 2 /\ t < memory.end.t
        BY <2>4 DEF memory
      <3>2. CASE t < mem.end.t
        <4>1. Known(t)
          BY <2>3, <3>1, <3>2 DEF Covered, Sound
        <4>2. QED
          BY <2>9, <4>1
      <3>3. CASE t < from
        <4>1. Known(t)
          BY <2>2, <3>1, <3>3 DEF Covered
        <4>2. QED
          BY <2>9, <4>1
      <3>4. CASE ~(t < mem.end.t) /\ ~(t < from)
        <4>1. mem.end.t \in Nat
          BY <2>3 DEF Sound
        <4>2. t >= mem.end.t /\ t >= from
          BY <3>1, <3>4, <4>1
        <4>3. t \in Starts(result) \/ t \in lost'
          BY <2>5, <3>1, <4>2 DEF result, memory
        <4>4. t \in lost' => Known(t)'
          BY DEF Known
        <4>5. QED
          BY <4>3, <4>4
      <3>5. QED
        BY <3>2, <3>3, <3>4
    <2>11. /\ jobs'[j].pc = "update" /\ jobs'[j].honorDst \in BOOLEAN
           /\ jobs'[j].row.mem = memory /\ jobs'[j].result = result
      BY <1>2, <2>6, <2>8, <2>9
    <2>12. JobTrue(j)'
      <3>1. Sound(memory) /\ result \in Seq(Counted)
        BY <2>4 DEF memory, result
      <3>2. QED
        BY <1>1, <2>10, <2>11, <3>1 DEF JobTrue
    <2>13. QED
      BY <2>9, <2>12
  <1>6. QED
    BY <1>4, <1>5

LEMMA ValidRemembers ==
    ASSUME NEW m, IsRow(m)
    PROVE  Valid(m).mem = m.mem
  BY DEF IsRow, Fields, Valid

LEMMA UpdateMeterIsTrue ==
    ASSUME IInv, TruthInv, NEW j \in Readers, UpdateMeter(j)
    PROVE  TruthInv'
  <1> DEFINE row == jobs[j].row
             r == [jobs[j] EXCEPT !.pc = "insert", !.row = Absent, !.stale = FALSE]
  <1>1. /\ jobs[j].pc = "update" /\ j \in Jobs /\ j # "file"
        /\ meter' = Valid(row)
        /\ UNCHANGED <<readings, page, device, lost>>
    BY DEF UpdateMeter, Jobs, Readers
  <1>2. jobs' = [jobs EXCEPT ![j] = r]
    BY <1>1 DEF UpdateMeter, IInv, Shapes, JobFields
  <1>3. r.pc = "insert" /\ r.result = jobs[j].result /\ r.honorDst = jobs[j].honorDst
    BY <1>1 DEF IInv, Shapes, JobFields
  <1> HIDE DEF r
  <1>4. jobs'[j] = r /\ \A k \in Jobs : k # j => jobs'[k] = jobs[k]
    BY <1>1, <1>2 DEF IInv, Shapes
  <1>5. /\ r.honorDst \in BOOLEAN /\ Sound(row.mem) /\ r.result \in Seq(Counted)
        /\ \A t \in 2..(row.mem.end.t - 1) : Known(t) \/ t \in Starts(r.result)
    BY <1>1, <1>3 DEF TruthInv, JobTrue
  <1>6. \A t : Known(t) => Known(t)'
    BY <1>1, <1>4 DEF Known
  <1>7. \A t : t \in Starts(r.result) => Known(t)'
    BY <1>1, <1>3, <1>4 DEF Known
  <1>8. meter'.mem = row.mem
    BY <1>1, ValidRemembers DEF IInv, RowsHeld, Held
  <1>9. RowTrue(meter)'
    BY <1>5, <1>6, <1>7, <1>8 DEF RowTrue, Covered
  <1>10. \A k \in Jobs : k # j => JobTrue(k)'
    <2>1. \A k \in Jobs : k # j => Untouched(k)
      BY <1>4 DEF Untouched
    <2>2. QED
      BY <1>6, <2>1, Stays
  <1>11. JobTrue(j)'
    BY <1>3, <1>4, <1>5 DEF JobTrue
  <1>12. /\ (page.pc = "open" => RowTrue(page.row))'
         /\ ReadingsExact' /\ device' \in Nat \ {0}
    BY <1>1, <1>6, Stays DEF TruthInv, ReadingsExact
  <1>13. QED
    BY <1>9, <1>10, <1>11, <1>12 DEF TruthInv

LEMMA InsertIsTrue ==
    ASSUME IInv, TruthInv, NEW j \in Readers, Insert(j)
    PROVE  TruthInv'
  <1> DEFINE r == IF jobs[j].refresh THEN [Idle EXCEPT !.pc = "refresh", !.todo = Views] ELSE Idle
             rs == jobs[j].result
  <1>1. /\ jobs[j].pc = "insert" /\ j \in Jobs /\ readings' = Inserted(rs)
        /\ UNCHANGED <<meter, page, device, lost>>
    BY DEF Insert, Jobs, Readers
  <1>2. jobs' = [jobs EXCEPT ![j] = r]
    BY <1>1 DEF Insert, IInv, Shapes
  <1>3. r.pc \in {"idle", "refresh"} /\ r.honorDst \in BOOLEAN
    BY DEF Idle
  <1> HIDE DEF r
  <1>4. jobs'[j] = r /\ \A k \in Jobs : k # j => jobs'[k] = jobs[k]
    BY <1>1, <1>2 DEF IInv, Shapes
  <1>5. rs \in Seq(Counted)
    BY <1>1 DEF TruthInv, JobTrue
  <1> DEFINE now == Inserted(rs)
  <1>6. /\ readings \subseteq now
        /\ \A r0 \in now : r0 \in readings
                           \/ r0.val = Pipeline!Whole(Shows(r0.end) - Shows(r0.start))
        /\ \A t \in Starts(rs) : \E r0 \in now : r0.start = t
    BY <1>5, InsertedAre
  <1> HIDE DEF now
  <1>7. readings' = now
    BY <1>1 DEF now
  <1>8. ASSUME NEW t, Known(t) PROVE Known(t)'
    <2>1. CASE (\E r0 \in readings : r0.start = t) \/ t \in lost
      BY <1>1, <1>6, <1>7, <2>1 DEF Known
    <2>2. CASE t \in Starts(rs)
      BY <1>6, <1>7, <2>2 DEF Known
    <2>3. CASE \E k \in Jobs : k # j /\ jobs[k].pc = "insert" /\ t \in Starts(jobs[k].result)
      BY <1>4, <2>3 DEF Known
    <2>4. QED
      BY <1>8, <2>1, <2>2, <2>3 DEF Known
  <1>9. ReadingsExact'
    BY <1>6, <1>7 DEF TruthInv, ReadingsExact
  <1>10. \A k \in Jobs : k # j => JobTrue(k)'
    <2>1. \A k \in Jobs : k # j => Untouched(k)
      BY <1>4 DEF Untouched
    <2>2. QED
      BY <1>8, <2>1, Stays
  <1>11. JobTrue(j)'
    BY <1>3, <1>4 DEF JobTrue
  <1>12. /\ (Exists => RowTrue(meter))' /\ (page.pc = "open" => RowTrue(page.row))'
         /\ device' \in Nat \ {0}
    BY <1>1, <1>8, Stays DEF TruthInv
  <1>13. QED
    BY <1>9, <1>10, <1>11, <1>12 DEF TruthInv

LEMMA RefreshIsTrue ==
    ASSUME IInv, TruthInv, NEW j \in Readers, NEW v \in Views, Refresh(j, v)
    PROVE  TruthInv'
  <1> DEFINE r == IF jobs[j].todo = {v} THEN Idle ELSE [jobs[j] EXCEPT !.todo = @ \ {v}]
  <1>1. /\ jobs[j].pc = "refresh" /\ j \in Jobs
        /\ UNCHANGED <<meter, readings, page, device, lost>>
    BY DEF Refresh, Jobs, Readers
  <1>2. jobs' = [jobs EXCEPT ![j] = r]
    BY <1>1 DEF Refresh, IInv, Shapes, JobFields
  <1>3. r.pc \in {"idle", "refresh"} /\ r.honorDst \in BOOLEAN
    BY <1>1 DEF Idle, IInv, Shapes, JobFields, TruthInv, JobTrue
  <1> HIDE DEF r
  <1>4. QED
    BY <1>1, <1>2, <1>3, JobRests

LEMMA CrashIsTrue ==
    ASSUME IInv, TruthInv, NEW j \in Jobs, Crash(j)
    PROVE  TruthInv'
  <1>1. /\ jobs' = [jobs EXCEPT ![j] = Idle] /\ lost \subseteq lost'
        /\ jobs[j].pc = "insert" => Starts(jobs[j].result) \subseteq lost'
        /\ UNCHANGED <<meter, readings, page, device>>
    BY DEF Crash, Starts, ToSet
  <1>2. Idle.pc = "idle" /\ Idle.honorDst \in BOOLEAN
    BY DEF Idle
  <1>3. jobs'[j] = Idle /\ \A k \in Jobs : k # j => jobs'[k] = jobs[k]
    BY <1>1 DEF IInv, Shapes
  <1>4. \A t : Known(t) => Known(t)'
    BY <1>1, <1>3 DEF Known
  <1>5. \A k \in Jobs : k # j => JobTrue(k)'
    <2>1. \A k \in Jobs : k # j => Untouched(k)
      BY <1>3 DEF Untouched
    <2>2. QED
      BY <1>4, <2>1, Stays
  <1>6. JobTrue(j)'
    BY <1>2, <1>3 DEF JobTrue
  <1>7. /\ (Exists => RowTrue(meter))' /\ (page.pc = "open" => RowTrue(page.row))'
        /\ ReadingsExact' /\ device' \in Nat \ {0}
    BY <1>1, <1>4, Stays DEF TruthInv, ReadingsExact
  <1>8. QED
    BY <1>5, <1>6, <1>7 DEF TruthInv

-----------------------------------------------------------------------------
(* What an administrator writes.                                           *)

LEMMA UploadMetersIsTrue ==
    ASSUME IInv, TruthInv, NEW given, UploadMeters(given)
    PROVE  TruthInv'
  <1> DEFINE row == [meter EXCEPT !.unit = given.unit, !.graphic = given.graphic]
             r == [Idle EXCEPT !.pc = "update", !.row = row]
  <1>1. /\ jobs["file"].pc = "idle" /\ "file" \in Jobs /\ jobs' = [jobs EXCEPT !["file"] = r]
        /\ UNCHANGED <<meter, readings, page, device, lost>> /\ Exists
    BY DEF UploadMeters, Jobs
  <1>2. row.mem = meter.mem /\ RowTrue(meter)
    BY <1>1 DEF IInv, RowsHeld, MeterKept, IsRow, Fields, TruthInv
  <1> HIDE DEF row
  <1>3. r.pc = "update" /\ r.row = row /\ r.honorDst \in BOOLEAN
    BY DEF Idle
  <1> HIDE DEF r
  <1>4. /\ jobs'["file"] = r /\ \A t : Known(t) => Known(t)'
        /\ JobTrue("file")' => TruthInv'
    BY <1>1, JobGoesOn
  <1>5. RowTrue(jobs["file"].row)'
    BY <1>2, <1>3, <1>4 DEF RowTrue, Covered
  <1>6. QED
    BY <1>3, <1>4, <1>5 DEF JobTrue

(* A write of a row whose memory is true, the page being left or not.      *)
LEMMA RowIsWritten ==
    ASSUME IInv, TruthInv, UNCHANGED <<readings, device, lost>>,
           \A j \in Jobs : Untouched(j) \/ (jobs[j].pc # "insert" /\ jobs'[j].pc = "idle"
                                            /\ jobs'[j].honorDst \in BOOLEAN),
           page' = page \/ page'.pc # "open",
           Sound(meter'.mem), \A t \in 2..(meter'.mem.end.t - 1) : Known(t)
    PROVE  TruthInv'
  <1>1. \A t : Known(t) => Known(t)'
    BY DEF Known, Untouched
  <1>2. \A j \in Jobs : JobTrue(j)'
    <2> SUFFICES ASSUME NEW j \in Jobs PROVE JobTrue(j)'
      OBVIOUS
    <2>1. CASE Untouched(j)
      BY <1>1, <2>1, Stays
    <2>2. CASE jobs'[j].pc = "idle" /\ jobs'[j].honorDst \in BOOLEAN
      BY <2>2 DEF JobTrue
    <2>3. QED
      BY <2>1, <2>2
  <1>3. RowTrue(meter)'
    BY <1>1 DEF RowTrue, Covered
  <1>4. (page.pc = "open" => RowTrue(page.row))'
    BY <1>1, Stays
  <1>5. QED
    BY <1>2, <1>3, <1>4 DEF TruthInv, ReadingsExact

LEMMA MergeFileIsTrue == IInv /\ TruthInv /\ MergeFile => TruthInv'
  <1> SUFFICES ASSUME IInv, TruthInv, MergeFile PROVE TruthInv'
    OBVIOUS
  <1> DEFINE row == jobs["file"].row
             left == [jobs EXCEPT !["file"] = Idle]
  <1>1. /\ jobs["file"].pc = "update" /\ "file" \in Jobs
        /\ meter' = Valid(row) /\ jobs' = Overtaken(left)
        /\ UNCHANGED <<readings, page, device, lost>>
    BY DEF MergeFile, AdminWrites, Jobs
  <1>2. /\ left["file"] = Idle /\ DOMAIN Idle = JobFields
        /\ \A j \in Jobs : j # "file" => left[j] = jobs[j]
        /\ \A j \in Jobs : DOMAIN left[j] = JobFields
    BY <1>1 DEF IInv, Shapes, Idle, JobFields
  <1> HIDE DEF left
  <1>3. \A j \in Jobs : /\ jobs'[j].pc = left[j].pc /\ jobs'[j].honorDst = left[j].honorDst
                        /\ jobs'[j].rows = left[j].rows /\ jobs'[j].row = left[j].row
                        /\ jobs'[j].result = left[j].result
    BY <1>1, <1>2 DEF Overtaken, JobFields
  <1>4. \A j \in Jobs : Untouched(j) \/ (jobs[j].pc # "insert" /\ jobs'[j].pc = "idle"
                                         /\ jobs'[j].honorDst \in BOOLEAN)
    <2>1. Idle.pc = "idle" /\ Idle.honorDst \in BOOLEAN
      BY DEF Idle
    <2>2. QED
      BY <1>1, <1>2, <1>3, <2>1 DEF Untouched
  <1>5. RowTrue(row) /\ meter'.mem = row.mem
    BY <1>1, ValidRemembers DEF TruthInv, JobTrue, IInv, RowsHeld, Held
  <1>6. QED
    BY <1>1, <1>4, <1>5, RowIsWritten DEF RowTrue, Covered

(* A new meter has no memory yet.                                          *)
LEMMA NewMeterIsTrue ==
    ASSUME IInv, TruthInv, NEW given, meter' = Valid(NewRow(given)),
           UNCHANGED <<readings, device, lost, jobs, page>>
    PROVE  TruthInv'
  <1>1. meter'.mem = NeverRead
    BY NewIsRow, ValidRemembers DEF NewRow
  <1>2. Sound(NeverRead) /\ NeverRead.end.t = 0
    BY DEF Sound, NeverRead, Shows, E0, Pipeline!E0
  <1>3. \A j \in Jobs : Untouched(j)
    BY DEF Untouched
  <1>4. 2..(0 - 1) = {}
    OBVIOUS
  <1>5. QED
    BY <1>1, <1>2, <1>3, <1>4, RowIsWritten

LEMMA InsertFromFileIsTrue ==
    ASSUME IInv, TruthInv, NEW given, InsertFromFile(given)
    PROVE  TruthInv'
  BY NewMeterIsTrue DEF InsertFromFile, AdminWrites

LEMMA AddMeterIsTrue ==
    ASSUME IInv, TruthInv, NEW given, AddMeter(given)
    PROVE  TruthInv'
  BY NewMeterIsTrue DEF AddMeter, AdminWrites

(* The page opens, or goes.                                                *)
LEMMA PageIsTrue ==
    ASSUME IInv, TruthInv, UNCHANGED <<meter, readings, device, lost, jobs>>,
           page'.pc = "open" => Exists /\ page'.row = meter
    PROVE  TruthInv'
  <1>1. \A t : Known(t) => Known(t)'
    BY DEF Known
  <1>2. \A j \in Jobs : Untouched(j)
    BY DEF Untouched
  <1>3. (page.pc = "open" => RowTrue(page.row))'
    BY <1>1 DEF TruthInv, RowTrue, Covered
  <1>4. QED
    BY <1>1, <1>2, <1>3, Stays DEF TruthInv, ReadingsExact

LEMMA OpenPageIsTrue == IInv /\ TruthInv /\ OpenPage => TruthInv'
  BY PageIsTrue DEF OpenPage, Closed

LEMMA DiscardIsTrue == IInv /\ TruthInv /\ Discard => TruthInv'
  BY PageIsTrue DEF Discard, Closed

LEMMA RefreshAfterEditIsTrue ==
    ASSUME IInv, TruthInv, NEW v \in Views, RefreshAfterEdit(v)
    PROVE  TruthInv'
  <1>1. page'.pc # "open"
    BY DEF RefreshAfterEdit, Closed, IInv, Shapes
  <1>2. QED
    BY <1>1, PageIsTrue DEF RefreshAfterEdit

(* A save sends the memory the page was opened with.                       *)
LEMMA SaveEditIsTrue ==
    ASSUME IInv, TruthInv, NEW local \in Changed(page.row), SaveEdit(local)
    PROVE  TruthInv'
  <1>1. /\ page.pc = "open" /\ meter' = Valid(Submitted(local)) /\ jobs' = Overtaken(jobs)
        /\ UNCHANGED <<readings, device, lost>>
    BY DEF SaveEdit, AdminWrites
  <1>2. page'.pc # "open"
    BY DEF SaveEdit, Closed
  <1>3. IsRow(page.row) /\ RowTrue(page.row)
    BY <1>1 DEF IInv, RowsHeld, TruthInv
  <1>4. IsRow(local) /\ local.mem = page.row.mem
    BY <1>3, ChangedIsRow DEF Changed, Toggled, IsRow, Fields
  <1> DEFINE mem == local.mem
             sent == [mem EXCEPT !.previousEnd = IF mem.previousEnd = Invalid THEN E0
                                                 ELSE mem.previousEnd]
  <1>5. meter'.mem = sent
    <2>1. Submitted(local).mem = sent
      BY <1>4 DEF Submitted, IsRow, Fields
    <2>2. QED
      BY <1>1, <1>4, <2>1, SubmittedIsRow, ValidRemembers
  <1>6. Sound(mem) /\ Covered(mem.end.t)
    BY <1>3, <1>4 DEF RowTrue
  <1> HIDE DEF mem
  <1>7. Sound(sent) /\ sent.end = mem.end
    BY <1>6 DEF Sound
  <1> HIDE DEF sent
  <1>8. \A j \in Jobs : Untouched(j)
    BY <1>1 DEF Overtaken, Untouched, IInv, Shapes, JobFields
  <1>9. QED
    BY <1>1, <1>2, <1>5, <1>6, <1>7, <1>8, RowIsWritten DEF Covered

-----------------------------------------------------------------------------
LEMMA StepIsTrue == IInv /\ TruthInv /\ [Next]_vars => TruthInv'
  <1> SUFFICES ASSUME IInv, TruthInv, [Next]_vars PROVE TruthInv'
    OBVIOUS
  <1>1. CASE UNCHANGED vars
    <2>1. UNCHANGED <<meter, readings, device, lost, jobs, page>>
      BY <1>1 DEF vars
    <2>2. (\A t : Known(t) => Known(t)') /\ \A j \in Jobs : Untouched(j)
      BY <2>1 DEF Known, Untouched
    <2>3. QED
      BY <2>1, <2>2, Stays DEF TruthInv, ReadingsExact
  <1>2. CASE \E j \in Readers : JobSteps(j)
    BY <1>2, ProcessIsTrue, UpdateMeterIsTrue, InsertIsTrue, RefreshIsTrue DEF JobSteps
  <1>3. CASE \E given \in InFiles : UploadMeters(given) \/ InsertFromFile(given)
    BY <1>3, UploadMetersIsTrue, InsertFromFileIsTrue
  <1>4. CASE page.pc = "open" /\ \E local \in Changed(page.row) : SaveEdit(local)
    BY <1>4, SaveEditIsTrue
  <1>5. CASE \E to \in 2..device, request \in Requests : UploadReadings(to, request)
    BY <1>5, UploadReadingsIsTrue
  <1>6. QED
    BY <1>1, <1>2, <1>3, <1>4, <1>5, TickIsTrue, PollIsTrue, FetchIsTrue, FetchFailsIsTrue,
       CrashIsTrue, MergeFileIsTrue, AddMeterIsTrue, OpenPageIsTrue, DiscardIsTrue,
       RefreshAfterEditIsTrue DEF Next, Readers

(* Every stored reading is what the device counted in it, and everything   *)
(* before the end the meter remembers is stored, about to be, or lost for  *)
(* a known reason, for any number and order of polls, uploads, edits of    *)
(* stale pages and crashes (processData, Meter.update, insertOrIgnoreAll). *)
THEOREM ReadingsAreTrue == Spec => []ReadingsTrue
  <1>1. IInv /\ TruthInv => ReadingsTrue
    <2> SUFFICES ASSUME IInv, TruthInv PROVE ReadingsTrue
      OBVIOUS
    <2>1. ASSUME NEW t, Known(t)
          PROVE  \/ \E r \in readings : r.start = t
                 \/ t \in lost
                 \/ \E j \in Jobs : jobs[j].pc = "insert"
                                    /\ t \in {r.start : r \in ToSet(jobs[j].result)}
      BY <2>1 DEF Known, Starts, ToSet
    <2>2. NoHole
      BY <2>1 DEF NoHole, TruthInv, RowTrue, Covered
    <2>3. QED
      BY <2>2 DEF ReadingsTrue, TruthInv
  <1>2. Spec => [](IInv /\ TruthInv)
    BY Initially, InitIsTrue, StepKeeps, StepIsTrue, PTL DEF Spec
  <1>3. QED
    BY <1>1, <1>2, PTL

=============================================================================
