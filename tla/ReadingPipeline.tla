-------------------------- MODULE ReadingPipeline --------------------------
(***************************************************************************)
(* The reading pipeline of the server: one upload ("batch") of the rows of *)
(* one meter goes through processData, which decides row by row what is    *)
(* stored, remembers the last row on the meter, and hands the accepted     *)
(* readings to loadArrayInput, which inserts them.                         *)
(*                                                                         *)
(* Times are wall-clock ticks: the code drops the offset of a timestamp    *)
(* and keeps its wall-clock part "as UTC"; the offset survives only as the *)
(* Tz of an end, to detect that a row crossed daylight saving time (DST).  *)
(* A value is a product v * num / den, because a row that crosses DST is   *)
(* prorated.  Warnings and messages are left out: they change no state.    *)
(* Rows come in processing order (a decreasing file is read backwards, a   *)
(* repeated reading is visited once), each from the set Rows.              *)
(***************************************************************************)
EXTENDS Integers, Sequences

CONSTANTS
    Rows,                 \* the rows a file may hold
    Configs,              \* the settings an upload may come with
    Delivers(_, _, _, _), \* Delivers(c, n, prior, row): after prior, row may come as row n + 1
                          \* of a batch set up as c
    MayFollow(_, _),      \* MayFollow(c, d): an upload set up as d may follow one set up as c
    NoRow,                \* "no row delivered yet"
    Untils,               \* the wall-clock times at which the meter's zone changed offset
    Day,                  \* ticks in a day
    MaxRows,              \* bound on the rows of one batch
    MaxBatches            \* bound on the number of batches

(* The special first moment moment(0), and a timestamp read back as NULL.  *)
E0 == 0
Invalid == -1

ASSUME BoundsAssumption == MaxRows \in Nat /\ MaxBatches \in Nat
ASSUME ZoneAssumption == Day \in Nat \ {0} /\ Untils \subseteq Nat /\ E0 \in Untils
ASSUME RowsAssumption ==
    Rows \subseteq [value : Int, start : Nat, startTz : Int, end : Nat, endTz : Int,
                    bad : BOOLEAN]
ASSUME ConfigsAssumption ==
    Configs \subseteq [cumulative : BOOLEAN, endOnly : BOOLEAN, honorDst : BOOLEAN,
                       reset : BOOLEAN, resetStart : Nat, resetEnd : Nat, gap : Nat,
                       frequency : Nat, variation : Nat, slack : Nat, update : BOOLEAN,
                       checks : {"reject_all", "reject_bad", "reject_none", "reject_disabled"},
                       minDate : Int, maxDate : Int, minVal : Int, maxVal : Int, maxError : Int]

VARIABLES
    meter,      \* the meter's row in the database: last reading, its times, DST state
    readings,   \* the readings table
    pc,         \* "idle", "loop" (in processData) or "insert" (in loadArrayInput)
    cfg,        \* the settings of the batch in progress
    loop,       \* the local variables of processData
    last,       \* the row the sender delivered last
    batches     \* how many batches have started

vars == <<meter, readings, pc, cfg, loop, last, batches>>

-----------------------------------------------------------------------------
(* Values.                                                                 *)

Whole(v) == [v |-> v, num |-> 1, den |-> 1]

(* prorated: the value scaled by the used share of the original interval.  *)
Prorated(val, start, end, newStart, newEnd) ==
    [v |-> val.v, num |-> val.num * (newEnd - newStart), den |-> val.den * (end - start)]

Later(a, b) == IF a > b THEN a ELSE b
Distance(a, b) == IF a > b THEN a - b ELSE b - a

(* moment comparisons with an invalid moment are false.                    *)
IsAfter(a, b) == a # Invalid /\ b # Invalid /\ a > b

(* getZoneUntil: the last change of offset at or before a wall-clock time. *)
ZoneUntil(t) == CHOOSE u \in Untils : u <= t /\ \A w \in Untils : w <= t => w <= u

(* handleCumulativeReset: is the start of the row inside the reset hours?  *)
(* When the hours wrap around midnight the window opens the day before.    *)
ResetAllowed(c, start) ==
    LET midnight == start - (start % Day)
        opens == midnight + c.resetStart - (IF c.resetStart > c.resetEnd THEN Day ELSE 0)
    IN  c.reset /\ opens <= start /\ start <= midnight + c.resetEnd

-----------------------------------------------------------------------------
(* One turn of the loop of processData.  The working record x holds the    *)
(* row-local variables and, in x.l, those that live across rows.           *)

First(l) == l.prev.end = E0

(* The value used is the raw one, or the gain over the previous raw one;   *)
(* the first row ever only serves as the previous one.                     *)
Parse(c, l, row) ==
    [l |-> [l EXCEPT !.reading = row.value],
     ok |-> ~(First(l) /\ (c.cumulative \/ c.endOnly)),
     start |-> IF c.endOnly THEN l.prev.end ELSE row.start,
     end |-> row.end,
     shift |-> (IF c.endOnly THEN l.prevTz ELSE row.startTz) - row.endTz,
     val |-> Whole(IF c.cumulative THEN row.value - l.reading ELSE row.value)]

(* The row entered DST: it is to be split at the change of offset.         *)
EnterDst(x) ==
    IF x.shift >= 0 THEN x
    ELSE LET until == ZoneUntil(x.end)
             early == x.end + x.shift
         IN  [x EXCEPT !.l = [x.l EXCEPT !.zoneUntil = until, !.origEnd = x.end,
                                         !.splitDst = TRUE],
                       !.end = IF early < until THEN early ELSE x.end]

(* The row left DST: drop what lies before the end of the previous row.    *)
LeaveDst(x) ==
    IF x.shift <= 0 THEN x
    ELSE [x EXCEPT !.l = [x.l EXCEPT !.zoneUntil = ZoneUntil(x.end),
                                     !.prevEnd = x.l.prev.end, !.inDst = TRUE]]

(* Fault: the value of a cut row is not prorated over its real length.     *)
RepeatedByClock(x) ==
    IF ~x.l.inDst THEN x
    ELSE IF IsAfter(x.end, x.l.prevEnd)
    THEN LET use == Later(x.l.prevEnd, x.start)
         IN  [x EXCEPT !.l = [x.l EXCEPT !.startUse = use, !.inDst = FALSE, !.inDstStop = TRUE],
                       !.val = Prorated(x.val, x.start, x.end, use, x.end)]
    ELSE [x EXCEPT !.ok = FALSE, !.start = x.start - x.shift]

(* While wall-clock time repeats, a row is dropped or cut to its new part. *)
Repeated(x) ==
    IF ~x.l.inDst THEN x
    ELSE IF IsAfter(x.end, x.l.prevEnd)
    THEN LET use == Later(x.l.prevEnd, x.start)
         IN  [x EXCEPT !.l = [x.l EXCEPT !.startUse = use, !.inDst = FALSE, !.inDstStop = TRUE],
                       !.val = Prorated(x.val, x.start, x.end + x.shift, use, x.end)]
    ELSE [x EXCEPT !.ok = FALSE, !.start = x.start - x.shift]

(* The first row of a batch whose start is not before its end is not taken *)
(* for a crossing.                                                         *)
HonorDst(c, x) ==
    IF ~(x.ok /\ c.honorDst) THEN x
    ELSE Repeated(LeaveDst(EnterDst(
             IF x.l.n = 0 /\ x.start >= x.end THEN [x EXCEPT !.shift = 0] ELSE x)))

(* Fault: cumulative rows may leave any gap to the previous row.           *)
InOrderAnyGap(c, x) ==
    /\ x.start < x.end
    /\ c.endOnly => x.end > x.l.prev.end
    /\ c.cumulative => x.start >= x.l.prev.end

(* What drops a row: no positive length, end not after the previous end    *)
(* (end only), and for cumulative data an overlap with or too large a gap  *)
(* to the previous row.                                                    *)
InOrder(c, x) ==
    /\ x.start < x.end
    /\ c.endOnly => x.end > x.l.prev.end
    /\ c.cumulative => /\ x.start >= x.l.prev.end
                       /\ Distance(x.start, x.l.prev.end) <= c.gap

Checked(c, x) == [x EXCEPT !.ok = @ /\ InOrder(c, x)]

IsNegative(val) == (IF val.den < 0 THEN -val.v ELSE val.v) * val.num < 0

(* Cumulative data that goes negative without a reset rejects the batch.   *)
RejectsAll(c, x) ==
    /\ x.ok
    /\ c.cumulative
    /\ x.l.reading < 0 \/ (IsNegative(x.val) /\ ~ResetAllowed(c, x.start))

AfterReset(c, x) ==
    IF x.ok /\ c.cumulative /\ IsNegative(x.val)
    THEN [x EXCEPT !.val = Whole(x.l.reading)] ELSE x

(* useMeterFrequency: an end-only reading that is longer than the meter's  *)
(* frequency and of another length than the one before is taken to follow  *)
(* missing ones, and begins one frequency before its end.                  *)
AtFrequency(c, x) ==
    LET len == x.end - x.start
        lenBefore == x.l.prev.end - x.l.prev.start
    IN  IF /\ x.ok
           /\ c.frequency # 0
           /\ ~First(x.l) /\ x.l.prev.start # E0
           /\ Distance(len, lenBefore) > c.variation
           /\ len > c.frequency + c.slack
        THEN [x EXCEPT !.start = x.end - c.frequency] ELSE x

Piece(row, start, end, val) == [start |-> start, end |-> end, val |-> val, row |-> row]

(* An accepted row: the readings it gives and the previous reading the     *)
(* next row will see.                                                      *)
SplitPieces(x, row) ==
    LET l == x.l
        realEnd == l.origEnd + x.shift
        gapStart == l.zoneUntil + x.shift
        part(s, e) == Piece(row, s, e, Prorated(x.val, x.start, realEnd, s, e))
    IN  (IF gapStart > x.start THEN <<part(x.start, gapStart)>> ELSE <<>>)
        \o (IF l.origEnd > l.zoneUntil THEN <<part(l.zoneUntil, l.origEnd)>> ELSE <<>>)

(* Faults: the split is not forgotten after the row it is for, or the next *)
(* row sees the shortened end of a split row.                              *)
AcceptSplitStays(x, row) ==
    IF x.l.splitDst
    THEN [x.l EXCEPT !.result = @ \o SplitPieces(x, row),
                     !.prev = [start |-> x.start, end |-> x.l.origEnd]]
    ELSE [x.l EXCEPT !.result = Append(@, Piece(row, x.start, x.end, x.val)),
                     !.prev = [start |-> x.start, end |-> x.end]]

AcceptShortEnd(x, row) ==
    IF x.l.splitDst
    THEN [x.l EXCEPT !.result = @ \o SplitPieces(x, row), !.splitDst = FALSE,
                     !.prev = [start |-> x.start, end |-> x.end]]
    ELSE IF x.l.inDstStop
    THEN [x.l EXCEPT !.result = Append(@, Piece(row, x.l.startUse, x.end, x.val)),
                     !.inDstStop = FALSE, !.prevEnd = E0,
                     !.prev = [start |-> x.start, end |-> x.end]]
    ELSE [x.l EXCEPT !.result = Append(@, Piece(row, x.start, x.end, x.val)),
                     !.prev = [start |-> x.start, end |-> x.end]]

Accept(x, row) ==
    LET l == x.l IN
    IF l.splitDst
    THEN [l EXCEPT !.result = @ \o SplitPieces(x, row), !.splitDst = FALSE,
                   !.prev = [start |-> IF l.origEnd # x.end THEN x.start - x.shift ELSE x.start,
                             end |-> l.origEnd]]
    ELSE IF l.inDstStop
    THEN [l EXCEPT !.result = Append(@, Piece(row, l.startUse, x.end, x.val)),
                   !.inDstStop = FALSE, !.prevEnd = E0,
                   !.prev = [start |-> x.start, end |-> x.end]]
    ELSE [l EXCEPT !.result = Append(@, Piece(row, x.start, x.end, x.val)),
                   !.prev = [start |-> x.start, end |-> x.end]]

(* Fault: a dropped row does not become the previous one.                  *)
DropForgets(x) == [x.l EXCEPT !.allOk = FALSE]

(* A dropped row still becomes the previous one.                           *)
Drop(x) == [x.l EXCEPT !.allOk = FALSE, !.prev = [start |-> x.start, end |-> x.end]]

Decided(c, x, row) ==
    IF x.ok THEN Accept(AtFrequency(c, AfterReset(c, x)), row) ELSE Drop(x)

(* The start of a row with its offset; an end-only row starts at the end   *)
(* of the row before.                                                      *)
StartTz(c, l, row) == IF c.endOnly THEN l.endTz.t ELSE row.start

Step(c, x, row) ==
    LET l == Decided(c, x, row)
    IN  [l EXCEPT !.prevTz = row.endTz, !.n = @ + 1, !.startTz = StartTz(c, l, row),
                  !.endTz = [t |-> row.end, off |-> row.endTz]]

Examined(c, l, row) == Checked(c, HonorDst(c, Parse(c, l, row)))

-----------------------------------------------------------------------------
Init ==
    /\ meter = [reading |-> 0, start |-> E0, end |-> [t |-> E0, off |-> 0], previousEnd |-> E0]
    /\ readings = {}
    /\ pc = "idle"
    /\ cfg \in Configs
    /\ loop = [n |-> 0, from |-> NoRow, reading |-> 0, prev |-> [start |-> E0, end |-> E0],
               prevTz |-> 0, startTz |-> E0, endTz |-> [t |-> E0, off |-> 0],
               result |-> <<>>, allOk |-> TRUE,
               inDst |-> FALSE, inDstStop |-> FALSE, splitDst |-> FALSE,
               prevEnd |-> E0, origEnd |-> E0, startUse |-> E0, zoneUntil |-> E0]
    /\ last = NoRow
    /\ batches = 0

(* The upload starts: the locals are set from the meter's row.  A batch    *)
(* with a reset but no cumulative data, or with a frequency but not end    *)
(* only, is refused before anything changes.                               *)
StartBatch(c) ==
    /\ pc = "idle"
    /\ batches < MaxBatches
    /\ MayFollow(cfg, c)
    /\ c.reset => c.cumulative
    /\ c.frequency # 0 => c.endOnly
    /\ pc' = "loop"
    /\ cfg' = c
    /\ loop' = [n |-> 0, from |-> last, reading |-> meter.reading,
                prev |-> [start |-> meter.start, end |-> meter.end.t],
                prevTz |-> meter.end.off, startTz |-> meter.start, endTz |-> meter.end,
                result |-> <<>>, allOk |-> TRUE,
                inDst |-> c.honorDst /\ meter.previousEnd # E0,
                inDstStop |-> FALSE, splitDst |-> FALSE,
                prevEnd |-> IF c.honorDst THEN meter.previousEnd ELSE Invalid,
                origEnd |-> E0, startUse |-> E0, zoneUntil |-> E0]
    /\ batches' = batches + 1
    /\ UNCHANGED <<meter, readings, last>>

Delivered(row) ==
    /\ pc = "loop"
    /\ loop.n < MaxRows
    /\ Delivers(cfg, loop.n, last, row)

(* A row is dropped or accepted and the loop goes on.                      *)
ProcessRow(row) ==
    /\ Delivered(row)
    /\ ~row.bad
    /\ LET x == Examined(cfg, loop, row)
       IN  /\ ~RejectsAll(cfg, x)
           /\ loop' = Step(cfg, x, row)
    /\ last' = row
    /\ UNCHANGED <<meter, readings, pc, cfg, batches>>

(* The upload ends without an update of the meter; its rows will be sent   *)
(* again.                                                                  *)
GiveUp ==
    /\ pc' = "idle"
    /\ loop' = [loop EXCEPT !.result = <<>>, !.allOk = FALSE]
    /\ last' = loop.from
    /\ UNCHANGED <<meter, readings, cfg, batches>>

(* A date or value that does not parse, or cumulative data that went       *)
(* negative: the result is emptied and neither meter nor readings change.  *)
RejectBatch(row) ==
    /\ Delivered(row)
    /\ row.bad \/ RejectsAll(cfg, Examined(cfg, loop, row))
    /\ GiveUp

(* validateReadings and validateSingleReading.                             *)
InLimits(c, r) ==
    /\ c.minDate <= r.start /\ r.end <= c.maxDate
    /\ c.minVal * r.val.den <= r.val.v * r.val.num
    /\ r.val.v * r.val.num <= c.maxVal * r.val.den

(* Fault: all is stored as soon as one reading is good.                    *)
KeptIfAnyGood(c, rs) ==
    IF c.checks \in {"reject_disabled", "reject_none"} \/ \E i \in DOMAIN rs : InLimits(c, rs[i])
    THEN DOMAIN rs ELSE {}

(* The indices of the accepted readings that survive the checks, which     *)
(* look no further when maxError errors are reported.                      *)
Kept(c, rs) ==
    LET good == {i \in DOMAIN rs : InLimits(c, rs[i])}
    IN  IF \/ c.checks \in {"reject_disabled", "reject_none"}
           \/ good = DOMAIN rs
           \/ c.maxError <= 0
        THEN DOMAIN rs
        ELSE IF c.checks = "reject_bad" THEN good ELSE {}

(* The checks left nothing to store: the meter is not updated either.      *)
NothingLeft(c, rs) == rs # <<>> /\ Kept(c, rs) = {}

(* meter.update writes previousEnd: NULL if DST was not honoured, and an   *)
(* invalid moment does not format as a timestamp, so the update throws.    *)
UpdateThrows == cfg.honorDst /\ loop.prevEnd = Invalid

FinishBatch ==
    /\ pc = "loop"
    /\ ~NothingLeft(cfg, loop.result)
    /\ ~UpdateThrows
    /\ pc' = "insert"
    /\ meter' = [reading |-> loop.reading, start |-> loop.startTz, end |-> loop.endTz,
                 previousEnd |-> loop.prevEnd]
    /\ UNCHANGED <<readings, cfg, loop, last, batches>>

AbandonBatch ==
    /\ pc = "loop"
    /\ NothingLeft(cfg, loop.result) \/ UpdateThrows
    /\ GiveUp

(* Fault: the key of the table does not stop a second reading.             *)
StoredAgain(rs, kept, db, update) ==
    db \cup {[start |-> rs[i].start, end |-> rs[i].end, val |-> rs[i].val] : i \in kept}

(* insertOrIgnoreAll and insertOrUpdateAll run the statements in order in  *)
(* one transaction; the key is (meter, start), and the update of an        *)
(* existing reading sets its value only.                                   *)
Stored(rs, kept, db, update) ==
    LET at(t) == {i \in kept : rs[i].start = t}
        isNew(i) == /\ \A r \in db : r.start # rs[i].start
                    /\ \A j \in at(rs[i].start) : i <= j
        row(i) == [start |-> rs[i].start, end |-> rs[i].end, val |-> rs[i].val]
        latest(t) == CHOOSE i \in at(t) : \A j \in at(t) : j <= i
        written(r) == IF update /\ at(r.start) # {}
                      THEN [r EXCEPT !.val = rs[latest(r.start)].val] ELSE r
    IN  {written(r) : r \in db \cup {row(i) : i \in {k \in kept : isNew(k)}}}

(* The table has CHECK (start_timestamp < end_timestamp): one bad reading  *)
(* rolls the insert of the whole batch back.                               *)
TableAccepts(rs, kept) == \A i \in kept : rs[i].start < rs[i].end

InsertReadings ==
    LET kept == Kept(cfg, loop.result) IN
    /\ pc = "insert"
    /\ pc' = "idle"
    /\ readings' = IF TableAccepts(loop.result, kept)
                   THEN Stored(loop.result, kept, readings, cfg.update) ELSE readings
    /\ loop' = [loop EXCEPT !.result = <<>>, !.allOk = @ /\ TableAccepts(loop.result, kept)]
    /\ UNCHANGED <<meter, cfg, last, batches>>

(* The server dies, or the database goes away, before the meter is updated *)
(* or between that and the insert, when the readings of the batch are      *)
(* lost: the meter already counts its rows as seen.                        *)
CrashInLoop == pc = "loop" /\ GiveUp

CrashBeforeInsert ==
    /\ pc = "insert"
    /\ pc' = "idle"
    /\ loop' = [loop EXCEPT !.result = <<>>, !.allOk = FALSE]
    /\ UNCHANGED <<meter, readings, cfg, last, batches>>

Next ==
    \/ \E c \in Configs : StartBatch(c)
    \/ \E row \in Rows : ProcessRow(row) \/ RejectBatch(row)
    \/ FinishBatch
    \/ AbandonBatch
    \/ InsertReadings
    \/ CrashInLoop
    \/ CrashBeforeInsert

Spec == Init /\ [][Next]_vars
-----------------------------------------------------------------------------
Fraction == [v : Int, num : Int, den : Int]
Reading == [start : Int, end : Int, val : Fraction]
Accepted == [start : Int, end : Int, val : Fraction, row : Rows]
Interval == [start : Int, end : Int]
Stamp == [t : Nat, off : Int]
Locals ==
    [n : Nat, from : Rows \cup {NoRow}, reading : Int, prev : Interval, prevTz : Int,
     startTz : Nat, endTz : Stamp, result : Seq(Accepted), allOk : BOOLEAN,
     inDst : BOOLEAN, inDstStop : BOOLEAN, splitDst : BOOLEAN,
     prevEnd : Int, origEnd : Int, startUse : Int, zoneUntil : Int]

(* Types of the database rows and of the locals of processData; a value is *)
(* a fraction, a stored reading has lost its offset.                       *)
TypeOK ==
    /\ meter \in [reading : Int, start : Nat, end : Stamp, previousEnd : Int]
    /\ readings \subseteq Reading
    /\ pc \in {"idle", "loop", "insert"}
    /\ cfg \in Configs
    /\ loop \in Locals
    /\ last \in Rows \cup {NoRow}
    /\ batches \in Nat
=============================================================================
