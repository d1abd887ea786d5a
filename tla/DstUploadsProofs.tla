-------------------------- MODULE DstUploadsProofs --------------------------
(***************************************************************************)
(* Proofs about DstUploads, for any year, meter that reports without a     *)
(* pause, settings and batches: readings neither overlap nor leave a hole  *)
(* through the changes of the clock, they keep their rate, and only rows   *)
(* inside the hour that repeats are dropped.                               *)
(***************************************************************************)
EXTENDS DstUploads, TLAPS

(* The wall-clock time up to which the rows have been used: the end of the *)
(* last one or, inside the hour that repeats, where that was begun.        *)
Frontier(end, prevEnd) == IF prevEnd # E0 THEN prevEnd ELSE end

MeterUntil == Frontier(meter.end.t, meter.previousEnd)
LoopUntil == Frontier(loop.prev.end, loop.prevEnd)

(* What is remembered of the rows up to one, on the meter or in the locals *)
(* of processData.                                                         *)
Remembers(row, end, off, prevEnd) ==
    IF row = NoRow THEN end = E0 /\ prevEnd = E0
    ELSE /\ row \in Rows /\ Honest(row) /\ From(row) > 0
         /\ end = row.end /\ off = row.endTz
         /\ prevEnd \in Int
         /\ prevEnd # E0 => /\ Fall <= To(row)
                            /\ row.end <= prevEnd /\ prevEnd <= RepeatEnd

Counted(c, row, reading) == row # NoRow /\ c.cumulative => reading = To(row)

(* Accepted readings follow each other between two times.                  *)
Between(r, a, b) == a <= r.start /\ r.start < r.end /\ r.end <= b

InLine(rs, a, b) ==
    /\ \A i \in DOMAIN rs : Between(rs[i], a, b)
    /\ \A i, j \in DOMAIN rs : i < j => rs[i].end <= rs[j].start

(* They leave no hole, and none before b or after a.                       *)
Joined(rs, b) ==
    /\ \A i \in 1..(Len(rs) - 1) : Meets(rs[i].end, rs[i + 1].start)
    /\ rs # <<>> => Meets(rs[Len(rs)].end, b)

Begun(rs, a, b) == a = IF rs = <<>> THEN b ELSE rs[1].start

Rated(c, r) ==
    c.frequency \in {0, To(r.row) - From(r.row)} =>
        r.val.den > 0 /\ r.val.v * r.val.num = (r.end - r.start) * r.val.den

LocalFields ==
    {"n", "from", "reading", "prev", "prevTz", "startTz", "endTz", "result", "allOk",
     "inDst", "inDstStop", "splitDst", "prevEnd", "origEnd", "startUse", "zoneUntil"}

(* Between two turns of the loop no flag is left but that of the hour that *)
(* repeats.                                                                *)
IsLocals(l) ==
    /\ DOMAIN l = LocalFields
    /\ l.n \in Nat
    /\ l.result \in Seq(Accepted)
    /\ ~l.splitDst /\ ~l.inDstStop
    /\ l.inDst <=> l.prevEnd # E0
    /\ l.endTz = [t |-> l.prev.end, off |-> l.prevTz]

LoopInv ==
    /\ IsLocals(loop) /\ loop.n <= MaxRows
    /\ cfg \in Configs
    /\ Remembers(last, loop.prev.end, loop.prevTz, loop.prevEnd)
    /\ Counted(cfg, last, loop.reading)
    /\ last = NoRow => loop.n = 0 /\ loop.from = NoRow /\ loop.result = <<>>
    /\ Remembers(loop.from, meter.end.t, meter.end.off, meter.previousEnd)
    /\ Counted(cfg, loop.from, meter.reading)
    /\ MeterUntil <= LoopUntil
    /\ InLine(loop.result, MeterUntil, LoopUntil)
    /\ cfg.frequency = 0 =>
        /\ Joined(loop.result, LoopUntil)
        /\ loop.from # NoRow => Begun(loop.result, MeterUntil, LoopUntil)

RestInv ==
    /\ DOMAIN loop = LocalFields /\ loop.n \in Nat
    /\ loop.result \in Seq(Accepted)
    /\ cfg \in Configs
    /\ Remembers(last, meter.end.t, meter.end.off, meter.previousEnd)
    /\ Counted(cfg, last, meter.reading)
    /\ pc = "idle" => loop.result = <<>>
    /\ InLine(loop.result, 0, MeterUntil)
    /\ cfg.frequency = 0 => Joined(loop.result, MeterUntil)

TimeInv ==
    /\ pc \in {"idle", "loop", "insert"}
    /\ meter.end = [t |-> meter.end.t, off |-> meter.end.off]
    /\ pc = "loop" => LoopInv
    /\ pc # "loop" => RestInv
    /\ \A r \in readings :
        /\ DOMAIN r = {"start", "end", "val"} /\ r.start \in Int /\ r.end \in Int
        /\ r.end <= MeterUntil
        /\ pc # "idle" => \A i \in DOMAIN loop.result : r.end <= loop.result[i].start

-----------------------------------------------------------------------------
(* Rows and the clock.                                                     *)

LEMMA RowTypes ==
    ASSUME NEW row \in Rows
    PROVE  /\ row.value \in Int /\ row.start \in Nat /\ row.startTz \in Int
           /\ row.end \in Nat /\ row.endTz \in Int
           /\ From(row) \in Int /\ To(row) \in Int
  BY RowsAssumption DEF From, To

(* The four ways a row of a steady meter lies in the year.                 *)
LEMMA RowCases ==
    ASSUME NEW row \in Rows, Honest(row), From(row) > 0, To(row) - From(row) <= Fall - GapEnd
    PROVE  LET shift == row.startTz - row.endTz
           IN  /\ shift = 0 => row.start < row.end /\ row.end - row.start = To(row) - From(row)
               /\ shift < 0 => /\ From(row) < Spring /\ row.start = From(row) /\ shift = 0 - Saving
                               /\ Spring <= To(row) /\ To(row) + Saving < Fall
                               /\ row.end = To(row) + Saving
               /\ shift > 0 => /\ From(row) < Fall /\ row.start = From(row) + Saving
                               /\ shift = Saving /\ Fall <= To(row) /\ row.end = To(row)
               /\ shift \in Int
               /\ 0 < row.start /\ 0 < row.end
  BY RowTypes, YearAssumption DEF Honest, Offset, GapEnd, From, To

LEMMA UntilSpring ==
    ASSUME NEW t \in Int, GapEnd <= t, t < Fall
    PROVE  ZoneUntil(t) = GapEnd
  <1>1. /\ GapEnd \in Untils /\ GapEnd \in Int /\ Fall \in Int
        /\ \A w \in Untils : w \in Int
        /\ \A w \in Untils : GapEnd <= w /\ w < Fall => w = GapEnd
    BY YearAssumption, ZoneAssumption DEF GapEnd
  <1> HIDE DEF GapEnd
  <1>2. \A w \in Untils : w <= t => w <= GapEnd
    BY <1>1
  <1>3. \A u \in Untils : u <= t /\ (\A w \in Untils : w <= t => w <= u) => u = GapEnd
    BY <1>1, <1>2
  <1>4. QED
    BY <1>1, <1>2, <1>3 DEF ZoneUntil

(* A prorated value keeps its rate, and is not negative.                   *)
LEMMA Rate ==
    ASSUME NEW d \in Int, d > 0, NEW k \in Int
    PROVE  LET val == [v |-> d, num |-> 1 * k, den |-> 1 * d]
           IN  /\ val \in Fraction
               /\ val.den > 0 /\ val.v * val.num = k * val.den
               /\ k > 0 => ~IsNegative(val)
  <1>1. d * (1 * k) = k * (1 * d)
    OBVIOUS
  <1>2. k > 0 => d * (1 * k) > 0
    OBVIOUS
  <1>3. 1 * k \in Int /\ 1 * d \in Int /\ 1 * d > 0
    OBVIOUS
  <1>4. QED
    BY <1>1, <1>2, <1>3 DEF Fraction, IsNegative

LEMMA WholeRate ==
    ASSUME NEW d \in Int, d > 0
    PROVE  /\ Whole(d) \in Fraction
           /\ Whole(d).den > 0 /\ Whole(d).v * Whole(d).num = d * Whole(d).den
           /\ ~IsNegative(Whole(d))
  BY DEF Whole, Fraction, IsNegative

LEMMA ProratedWhole ==
    ASSUME NEW d \in Int, NEW s \in Int, NEW e \in Int, e = s + d, NEW s2 \in Int, NEW e2 \in Int
    PROVE  Prorated(Whole(d), s, e, s2, e2) = [v |-> d, num |-> 1 * (e2 - s2), den |-> 1 * d]
  <1>1. e - s = d
    OBVIOUS
  <1>2. Prorated(Whole(d), s, e, s2, e2) = [v |-> d, num |-> 1 * (e2 - s2), den |-> 1 * (e - s)]
    BY DEF Prorated, Whole
  <1>3. QED
    BY <1>1, <1>2

-----------------------------------------------------------------------------
(* What becomes of a row, by the way it lies.                              *)

WorkFields == {"l", "ok", "start", "end", "shift", "val"}

Noted(l, row) == [l EXCEPT !.reading = row.value]

(* The locals when a row is to be split.                                   *)
Divided(l, row) ==
    [Noted(l, row) EXCEPT !.zoneUntil = GapEnd, !.origEnd = row.end, !.splitDst = TRUE]

LEMMA DividedFields ==
    ASSUME NEW l, DOMAIN l = LocalFields, NEW row
    PROVE  LET k == Divided(l, row)
           IN  /\ DOMAIN k = LocalFields /\ k.splitDst /\ k.zoneUntil = GapEnd
               /\ k.origEnd = row.end /\ k.inDstStop = l.inDstStop /\ k.result = l.result
               /\ k.n = l.n /\ k.from = l.from /\ k.reading = row.value /\ k.prev = l.prev
               /\ k.inDst = l.inDst /\ k.prevEnd = l.prevEnd
  <1> DEFINE j == Noted(l, row)
             k == [j EXCEPT !.zoneUntil = GapEnd, !.origEnd = row.end, !.splitDst = TRUE]
  <1>1. /\ DOMAIN j = LocalFields /\ j.inDstStop = l.inDstStop /\ j.result = l.result
        /\ j.n = l.n /\ j.from = l.from /\ j.reading = row.value /\ j.prev = l.prev
        /\ j.inDst = l.inDst /\ j.prevEnd = l.prevEnd
    BY DEF LocalFields, Noted
  <1> HIDE DEF j
  <1>2. /\ DOMAIN k = LocalFields /\ k.splitDst /\ k.zoneUntil = GapEnd
        /\ k.origEnd = row.end /\ k.inDstStop = l.inDstStop /\ k.result = l.result
        /\ k.n = l.n /\ k.from = l.from /\ k.reading = row.value /\ k.prev = l.prev
        /\ k.inDst = l.inDst /\ k.prevEnd = l.prevEnd
    BY <1>1 DEF LocalFields
  <1>3. QED
    BY <1>2 DEF Divided, j

(* The row as read: the working record before the clock is looked at.      *)
Read(l, row) ==
    [l |-> [l EXCEPT !.reading = row.value], ok |-> TRUE, start |-> row.start, end |-> row.end,
     shift |-> row.startTz - row.endTz, val |-> Whole(To(row) - From(row))]

LEMMA ReadRow ==
    ASSUME NEW c \in Configs, NEW l, IsLocals(l), NEW prior \in Rows \cup {NoRow}, NEW row \in Rows,
           Remembers(prior, l.prev.end, l.prevTz, l.prevEnd), Counted(c, prior, l.reading),
           Steady(c, l.n, prior, row), prior # NoRow \/ ~(c.cumulative \/ c.endOnly)
    PROVE  Parse(c, l, row) = Read(l, row)
  <1>1. /\ row.value \in Int /\ row.start \in Nat /\ row.startTz \in Int
        /\ row.end \in Nat /\ row.endTz \in Int
        /\ prior \in Rows => prior.end \in Nat /\ prior.endTz \in Int
    BY RowTypes
  <1>2. CASE prior # NoRow
    <2>1. /\ l.prev.end = prior.end /\ l.prevTz = prior.endTz /\ prior \in Rows
          /\ From(row) = To(prior) /\ prior.endTz = Offset(To(prior))
          /\ row.startTz = Offset(From(row))
          /\ Honest(prior) /\ From(prior) > 0
      BY <1>2 DEF Remembers, Steady, Honest
    <2>2. /\ row.start = l.prev.end /\ row.startTz = l.prevTz
      BY <1>1, <2>1 DEF From, To
    <2>3. l.prev.end # E0
      <3>1. prior.start - prior.startTz > 0 /\ prior.end - prior.endTz > prior.start - prior.startTz
        BY <2>1 DEF Honest, From, To
      <3>2. prior.startTz \in Int /\ prior.start \in Nat
        BY <2>1, RowTypes
      <3>3. prior.endTz = 0 \/ prior.endTz = Saving
        BY <2>1 DEF Offset
      <3>4. QED
        BY <2>1, <1>1, <3>1, <3>2, <3>3, YearAssumption DEF E0
    <2>4. c.cumulative => l.reading = From(row)
      BY <1>2, <2>1 DEF Counted
    <2>5. row.value = IF c.cumulative THEN To(row) ELSE To(row) - From(row)
      BY DEF Steady
    <2>6. (IF c.cumulative THEN row.value - l.reading ELSE row.value) = To(row) - From(row)
      BY <2>4, <2>5
    <2> QED
      BY <2>2, <2>3, <2>6 DEF Parse, First, Read
  <1>3. CASE prior = NoRow
    BY <1>3 DEF Parse, Read, Steady
  <1>4. QED
    BY <1>2, <1>3

(* A row that begins and ends with the same offset outside the hour that   *)
(* repeats is taken as it is.                                              *)
LEMMA Plain ==
    ASSUME NEW c \in Configs, NEW l, IsLocals(l), NEW row \in Rows,
           row.startTz - row.endTz = 0, row.start < row.end, ~l.inDst
    PROVE  HonorDst(c, Read(l, row)) = Read(l, row)
  <1> DEFINE x == Read(l, row)
  <1>1. x.shift = 0 /\ x.l.inDst = l.inDst /\ x.start < x.end
    BY DEF Read, IsLocals, LocalFields
  <1> HIDE DEF x
  <1>2. EnterDst(x) = x /\ LeaveDst(x) = x /\ Repeated(x) = x
    BY <1>1 DEF EnterDst, LeaveDst, Repeated
  <1>3. ~(x.l.n = 0 /\ x.start >= x.end)
    BY <1>1, RowTypes DEF x, Read
  <1>4. HonorDst(c, x) = x
    BY <1>2, <1>3 DEF HonorDst
  <1>5. QED
    BY <1>4 DEF x

(* A row that enters DST is to be split.                                   *)
LEMMA Enters ==
    ASSUME NEW c \in Configs, c.honorDst, NEW l, IsLocals(l), NEW row \in Rows, ~l.inDst,
           row.startTz - row.endTz = 0 - Saving, row.start < row.end,
           GapEnd <= row.end, row.end < Fall
    PROVE  LET x == HonorDst(c, Read(l, row))
           IN  /\ x.ok /\ DOMAIN x = WorkFields
               /\ x.start = row.start /\ x.shift = 0 - Saving
               /\ x.end = IF row.end - Saving < GapEnd THEN row.end - Saving ELSE row.end
               /\ x.val = Whole(To(row) - From(row))
               /\ x.l = Divided(l, row)
  <1> DEFINE x == Read(l, row)
             k == Noted(l, row)
             m == Divided(l, row)
             y == EnterDst(x)
  <1>1. ZoneUntil(row.end) = GapEnd
    BY UntilSpring, RowTypes
  <1>2. /\ DOMAIN x = WorkFields /\ x.l = k /\ x.ok /\ x.start = row.start /\ x.end = row.end
        /\ x.shift = 0 - Saving /\ x.val = Whole(To(row) - From(row))
    BY DEF Read, WorkFields, Noted
  <1>3. Saving \in Nat \ {0} /\ row.end \in Nat /\ row.start \in Nat
    BY YearAssumption, RowTypes
  <1> HIDE DEF x
  <1>4. ~m.inDst
    <2>1. DOMAIN l = LocalFields
      BY DEF IsLocals
    <2>2. m.inDst = l.inDst
      BY <2>1, DividedFields
    <2>3. QED
      BY <2>2
  <1>5. /\ y.l = m /\ y.ok /\ y.start = row.start /\ y.shift = 0 - Saving
        /\ y.val = Whole(To(row) - From(row)) /\ DOMAIN y = WorkFields
        /\ y.end = IF row.end - Saving < GapEnd THEN row.end - Saving ELSE row.end
    <2> HIDE DEF m, k
    <2>1. ~(x.shift >= 0)
      BY <1>2, <1>3
    <2>2. row.end + (0 - Saving) = row.end - Saving
      BY <1>3
    <2>3. m = [x.l EXCEPT !.zoneUntil = ZoneUntil(x.end), !.origEnd = x.end, !.splitDst = TRUE]
      BY <1>1, <1>2 DEF m, k, Divided
    <2>4. y = [x EXCEPT !.l = m, !.end = IF row.end - Saving < GapEnd THEN row.end - Saving
                                         ELSE row.end]
      BY <1>1, <1>2, <2>1, <2>2, <2>3 DEF EnterDst
    <2>5. QED
      BY <2>4, <1>2 DEF WorkFields
  <1> HIDE DEF y, m
  <1>6. LeaveDst(y) = y /\ Repeated(y) = y
    BY <1>3, <1>4, <1>5 DEF LeaveDst, Repeated
  <1>7. ~(x.l.n = 0 /\ x.start >= x.end)
    BY <1>2, <1>3
  <1>8. HonorDst(c, x) = y
    BY <1>2, <1>6, <1>7 DEF HonorDst, y
  <1>9. QED
    BY <1>5, <1>8 DEF x, m, k

(* A row that leaves DST is cut at the end of the row before, or dropped.  *)
LEMMA Leaves ==
    ASSUME NEW c \in Configs, c.honorDst, NEW l, IsLocals(l), NEW row \in Rows, ~l.inDst,
           row.startTz - row.endTz = Saving, l.n = 0 => row.start < row.end,
           l.prev.end \in Nat
    PROVE  LET x == HonorDst(c, Read(l, row))
               left == [[l EXCEPT !.reading = row.value] EXCEPT
                         !.zoneUntil = ZoneUntil(row.end), !.prevEnd = l.prev.end, !.inDst = TRUE]
               use == Later(l.prev.end, row.start)
           IN  /\ DOMAIN x = WorkFields /\ x.end = row.end
               /\ IF row.end > l.prev.end
                  THEN /\ x.ok /\ x.start = row.start
                       /\ x.l = [left EXCEPT !.startUse = use, !.inDst = FALSE, !.inDstStop = TRUE]
                       /\ x.val = Prorated(Whole(To(row) - From(row)), row.start,
                                           row.end + Saving, use, row.end)
                  ELSE ~x.ok /\ x.l = left
  <1> DEFINE x == Read(l, row)
             k == [l EXCEPT !.reading = row.value]
             left == [k EXCEPT !.zoneUntil = ZoneUntil(row.end), !.prevEnd = l.prev.end,
                               !.inDst = TRUE]
             use == Later(l.prev.end, row.start)
             y == LeaveDst(x)
  <1>1. /\ DOMAIN x = WorkFields /\ x.l = k /\ x.ok /\ x.start = row.start /\ x.end = row.end
        /\ x.shift = Saving /\ x.val = Whole(To(row) - From(row))
    BY DEF Read, WorkFields
  <1>2. Saving \in Nat \ {0} /\ row.end \in Nat /\ row.start \in Nat
    BY YearAssumption, RowTypes
  <1>3. k.n = l.n /\ k.prev = l.prev
    BY DEF IsLocals, LocalFields
  <1> HIDE DEF x
  <1>4. left.inDst /\ left.prevEnd = l.prev.end
    BY DEF IsLocals, LocalFields
  <1>5. /\ y.l = left /\ y.ok /\ y.start = row.start /\ y.shift = Saving /\ y.end = row.end
        /\ y.val = Whole(To(row) - From(row)) /\ DOMAIN y = WorkFields
    <2>1. y = [x EXCEPT !.l = left]
      <3> HIDE DEF k
      <3>1. QED
        BY <1>1, <1>2, <1>3 DEF LeaveDst
    <2> HIDE DEF left, y
    <2>2. QED
      BY <2>1, <1>1 DEF WorkFields
  <1>6. EnterDst(x) = x
    BY <1>1, <1>2 DEF EnterDst
  <1>7. ~(x.l.n = 0 /\ x.start >= x.end)
    BY <1>1, <1>2, <1>3
  <1> HIDE DEF y, k, left, use
  <1>8. HonorDst(c, x) = Repeated(y)
    BY <1>1, <1>6, <1>7 DEF HonorDst, y
  <1>9. IsAfter(row.end, l.prev.end) <=> row.end > l.prev.end
    BY <1>2 DEF IsAfter, Invalid
  <1>10. CASE row.end > l.prev.end
    <2>1. Repeated(y) = [y EXCEPT !.l = [left EXCEPT !.startUse = use, !.inDst = FALSE,
                                                     !.inDstStop = TRUE],
                                  !.val = Prorated(Whole(To(row) - From(row)), row.start,
                                                   row.end + Saving, use, row.end)]
      BY <1>4, <1>5, <1>9, <1>10 DEF Repeated, use
    <2>2. QED
      BY <2>1, <1>5, <1>8, <1>10 DEF WorkFields, x, left, k, use
  <1>11. CASE ~(row.end > l.prev.end)
    <2>1. Repeated(y) = [y EXCEPT !.ok = FALSE, !.start = row.start - Saving]
      BY <1>4, <1>5, <1>9, <1>11 DEF Repeated
    <2>2. QED
      BY <2>1, <1>5, <1>8, <1>11 DEF WorkFields, x, left, k
  <1>12. QED
    BY <1>10, <1>11

(* Inside the hour that repeats a row is cut at the end of what was used   *)
(* before that hour, or dropped.                                           *)
LEMMA Inside ==
    ASSUME NEW c \in Configs, c.honorDst, NEW l, IsLocals(l), NEW row \in Rows, l.inDst,
           row.startTz - row.endTz = 0, l.n = 0 => row.start < row.end,
           l.prevEnd \in Nat
    PROVE  LET x == HonorDst(c, Read(l, row))
               k == Noted(l, row)
               use == Later(l.prevEnd, row.start)
           IN  /\ DOMAIN x = WorkFields /\ x.end = row.end
               /\ IF row.end > l.prevEnd
                  THEN /\ x.ok /\ x.start = row.start
                       /\ x.l = [k EXCEPT !.startUse = use, !.inDst = FALSE, !.inDstStop = TRUE]
                       /\ x.val = Prorated(Whole(To(row) - From(row)), row.start,
                                           row.end, use, row.end)
                  ELSE ~x.ok /\ x.l = k
  <1> DEFINE x == Read(l, row)
             k == Noted(l, row)
             use == Later(l.prevEnd, row.start)
  <1>1. /\ DOMAIN x = WorkFields /\ x.l = k /\ x.ok /\ x.start = row.start /\ x.end = row.end
        /\ x.shift = 0 /\ x.val = Whole(To(row) - From(row))
    BY DEF Read, WorkFields, Noted
  <1>2. row.end \in Nat /\ row.start \in Nat
    BY RowTypes
  <1>3. k.n = l.n /\ k.prevEnd = l.prevEnd /\ k.inDst
    BY DEF IsLocals, LocalFields, Noted
  <1> HIDE DEF x, k, use
  <1>6. EnterDst(x) = x /\ LeaveDst(x) = x
    BY <1>1, <1>2 DEF EnterDst, LeaveDst
  <1>7. ~(x.l.n = 0 /\ x.start >= x.end)
    BY <1>1, <1>2, <1>3
  <1>8. HonorDst(c, x) = Repeated(x)
    BY <1>1, <1>6, <1>7 DEF HonorDst
  <1>9. IsAfter(row.end, l.prevEnd) <=> row.end > l.prevEnd
    BY <1>2 DEF IsAfter, Invalid
  <1>10. CASE row.end > l.prevEnd
    <2>0. row.end + 0 = row.end
      BY <1>2
    <2>1. Repeated(x) = [x EXCEPT !.l = [k EXCEPT !.startUse = use, !.inDst = FALSE,
                                                     !.inDstStop = TRUE],
                                  !.val = Prorated(Whole(To(row) - From(row)), row.start,
                                                   row.end, use, row.end)]
      BY <1>1, <1>3, <1>9, <1>10, <2>0 DEF Repeated, use
    <2>2. QED
      BY <2>1, <1>1, <1>8, <1>10 DEF WorkFields, x, k, use
  <1>11. CASE ~(row.end > l.prevEnd)
    <2>1. Repeated(x) = [x EXCEPT !.ok = FALSE, !.start = row.start - 0]
      BY <1>1, <1>3, <1>9, <1>11 DEF Repeated
    <2>2. QED
      BY <2>1, <1>1, <1>8, <1>11 DEF WorkFields, x, k
  <1>12. QED
    BY <1>10, <1>11

-----------------------------------------------------------------------------
(* What one turn leaves in the locals.                                     *)

Turned(l, m, row, rs, inDst, prevEnd) ==
    /\ DOMAIN m = LocalFields
    /\ m.n = l.n + 1 /\ m.from = l.from /\ m.reading = row.value
    /\ m.prev.end = row.end /\ m.prevTz = row.endTz
    /\ m.endTz = [t |-> row.end, off |-> row.endTz]
    /\ ~m.splitDst /\ ~m.inDstStop
    /\ m.result = rs /\ m.inDst = inDst /\ m.prevEnd = prevEnd

LEMMA StepTurned ==
    ASSUME NEW c, NEW x, NEW row, NEW l, NEW rs, NEW inDst, NEW prevEnd, NEW k,
           k = Decided(c, x, row), DOMAIN k = LocalFields,
           k.n = l.n, k.from = l.from, k.reading = row.value, k.prev.end = row.end,
           ~k.splitDst, ~k.inDstStop, k.result = rs, k.inDst = inDst, k.prevEnd = prevEnd
    PROVE  Turned(l, Step(c, x, row), row, rs, inDst, prevEnd)
  <1> DEFINE stamp == [t |-> row.end, off |-> row.endTz]
             start == StartTz(c, k, row)
             m == [k EXCEPT !.prevTz = row.endTz, !.n = l.n + 1, !.startTz = start,
                            !.endTz = stamp]
  <1>1. Step(c, x, row) = m
    BY DEF Step
  <1> HIDE DEF stamp, start
  <1>2. /\ DOMAIN m = LocalFields
        /\ m.n = l.n + 1 /\ m.from = l.from /\ m.reading = row.value
        /\ m.prev.end = row.end /\ m.prevTz = row.endTz
        /\ m.endTz = stamp
        /\ ~m.splitDst /\ ~m.inDstStop
        /\ m.result = rs /\ m.inDst = inDst /\ m.prevEnd = prevEnd
    BY DEF LocalFields
  <1> HIDE DEF m
  <1>3. QED
    BY <1>1, <1>2 DEF Turned, stamp

LEMMA DropTurned ==
    ASSUME NEW c, NEW x, NEW row, NEW l, DOMAIN l = LocalFields,
           ~x.ok, DOMAIN x.l = LocalFields, x.end = row.end,
           x.l.n = l.n, x.l.from = l.from, x.l.reading = row.value,
           ~x.l.splitDst, ~x.l.inDstStop, x.l.result = l.result
    PROVE  Turned(l, Step(c, x, row), row, l.result, x.l.inDst, x.l.prevEnd)
  <1> DEFINE k == Decided(c, x, row)
             moved == [start |-> x.start, end |-> x.end]
  <1>1. k = [x.l EXCEPT !.allOk = FALSE, !.prev = moved] /\ moved.end = row.end
    BY DEF Decided, Drop
  <1> HIDE DEF k, moved
  <1>2. /\ DOMAIN k = LocalFields
        /\ k.n = l.n /\ k.from = l.from /\ k.reading = row.value /\ k.prev.end = row.end
        /\ ~k.splitDst /\ ~k.inDstStop /\ k.result = l.result /\ k.inDst = x.l.inDst
        /\ k.prevEnd = x.l.prevEnd
    BY <1>1 DEF LocalFields
  <1>3. QED
    BY <1>2, StepTurned DEF k

(* An accepted row may begin later, if it is longer than the frequency of  *)
(* the meter.                                                              *)
LEMMA Begins ==
    ASSUME NEW c \in Configs, NEW x, DOMAIN x = WorkFields, x.ok, ~IsNegative(x.val),
           x.start \in Int, x.end \in Int, x.start < x.end, NEW row
    PROVE  \E y :
              /\ Decided(c, x, row) = Accept(y, row)
              /\ y.l = x.l /\ y.end = x.end /\ y.shift = x.shift /\ y.val = x.val
              /\ y.start \in Int /\ x.start <= y.start /\ y.start < x.end
              /\ c.frequency = 0 \/ x.end - x.start <= c.frequency => y.start = x.start
              /\ y.start # x.start => y.start = x.end - c.frequency
  <1>1. c.frequency \in Nat /\ c.slack \in Nat
    BY ConfigsAssumption
  <1>2. AfterReset(c, x) = x
    BY DEF AfterReset
  <1>3. Decided(c, x, row) = Accept(AtFrequency(c, x), row)
    BY <1>2 DEF Decided
  <1>4. CASE AtFrequency(c, x) = x
    BY <1>3, <1>4
  <1>5. CASE AtFrequency(c, x) # x
    <2>1. /\ AtFrequency(c, x) = [x EXCEPT !.start = x.end - c.frequency]
          /\ c.frequency # 0 /\ x.end - x.start > c.frequency + c.slack
      BY <1>5 DEF AtFrequency
    <2> DEFINE y == [x EXCEPT !.start = x.end - c.frequency]
    <2>2. /\ y.l = x.l /\ y.end = x.end /\ y.shift = x.shift /\ y.val = x.val
          /\ y.start = x.end - c.frequency
      BY DEF WorkFields
    <2> HIDE DEF y
    <2>3. Decided(c, x, row) = Accept(y, row)
      BY <1>3, <2>1 DEF y
    <2>4. /\ y.start \in Int /\ x.start <= y.start /\ y.start < x.end
          /\ ~(x.end - x.start <= c.frequency)
      BY <1>1, <2>1, <2>2
    <2>5. QED
      BY <2>1, <2>2, <2>3, <2>4
  <1>6. QED
    BY <1>4, <1>5

LEMMA AcceptPlain ==
    ASSUME NEW c, NEW x, NEW y, NEW row, NEW l, DOMAIN l = LocalFields,
           Decided(c, x, row) = Accept(y, row), y.end = row.end,
           y.l = [l EXCEPT !.reading = row.value], ~l.splitDst, ~l.inDstStop
    PROVE  Turned(l, Step(c, x, row), row,
                  Append(l.result, Piece(row, y.start, row.end, y.val)), l.inDst, l.prevEnd)
  <1> DEFINE k == [l EXCEPT !.reading = row.value]
             m == Accept(y, row)
             rs == Append(l.result, Piece(row, y.start, row.end, y.val))
             moved == [start |-> y.start, end |-> y.end]
  <1>1. /\ DOMAIN k = LocalFields /\ ~k.splitDst /\ ~k.inDstStop /\ k.result = l.result
        /\ k.n = l.n /\ k.from = l.from /\ k.reading = row.value
        /\ k.inDst = l.inDst /\ k.prevEnd = l.prevEnd
    BY DEF LocalFields
  <1> HIDE DEF k
  <1>2. m = [k EXCEPT !.result = rs, !.prev = moved] /\ moved.end = row.end
    BY <1>1 DEF Accept, k
  <1> HIDE DEF m, rs, moved
  <1>3. /\ DOMAIN m = LocalFields
        /\ m.n = l.n /\ m.from = l.from /\ m.reading = row.value /\ m.prev.end = row.end
        /\ ~m.splitDst /\ ~m.inDstStop /\ m.result = rs /\ m.inDst = l.inDst
        /\ m.prevEnd = l.prevEnd
    BY <1>1, <1>2 DEF LocalFields
  <1>4. QED
    BY <1>3, StepTurned DEF m, rs

LEMMA AcceptCut ==
    ASSUME NEW c, NEW x, NEW y, NEW row, NEW l, NEW use, DOMAIN l = LocalFields,
           Decided(c, x, row) = Accept(y, row), y.end = row.end,
           DOMAIN y.l = LocalFields, y.l.startUse = use, ~y.l.inDst, y.l.inDstStop, ~y.l.splitDst,
           y.l.n = l.n, y.l.from = l.from, y.l.reading = row.value, y.l.result = l.result
    PROVE  Turned(l, Step(c, x, row), row,
                  Append(l.result, Piece(row, use, row.end, y.val)), y.l.inDst, E0)
  <1> DEFINE k == y.l
             m == Accept(y, row)
             rs == Append(l.result, Piece(row, use, row.end, y.val))
             moved == [start |-> y.start, end |-> y.end]
  <1>2. m = [k EXCEPT !.result = rs, !.inDstStop = FALSE, !.prevEnd = E0, !.prev = moved]
        /\ moved.end = row.end
    BY DEF Accept
  <1> HIDE DEF m, rs, moved
  <1>3. /\ DOMAIN m = LocalFields
        /\ m.n = l.n /\ m.from = l.from /\ m.reading = row.value /\ m.prev.end = row.end
        /\ ~m.splitDst /\ ~m.inDstStop /\ m.result = rs /\ m.inDst = k.inDst
        /\ m.prevEnd = E0
    BY <1>2 DEF LocalFields
  <1>4. QED
    BY <1>3, StepTurned DEF m, rs

LEMMA AcceptSplit ==
    ASSUME NEW c, NEW x, NEW y, NEW row, NEW l, DOMAIN l = LocalFields, ~l.inDstStop,
           Decided(c, x, row) = Accept(y, row), y.l = Divided(l, row)
    PROVE  Turned(l, Step(c, x, row), row, l.result \o SplitPieces(y, row), l.inDst, l.prevEnd)
  <1> DEFINE k == y.l
             m == Accept(y, row)
             rs == l.result \o SplitPieces(y, row)
             moved == [start |-> IF k.origEnd # y.end THEN y.start - y.shift ELSE y.start,
                       end |-> k.origEnd]
  <1>1. /\ DOMAIN k = LocalFields /\ k.splitDst /\ ~k.inDstStop /\ k.result = l.result
        /\ k.n = l.n /\ k.from = l.from /\ k.reading = row.value
        /\ k.inDst = l.inDst /\ k.prevEnd = l.prevEnd /\ k.origEnd = row.end
    <2> DEFINE j == Divided(l, row)
    <2>1. /\ DOMAIN j = LocalFields /\ j.splitDst /\ j.inDstStop = l.inDstStop
          /\ j.result = l.result /\ j.n = l.n /\ j.from = l.from /\ j.reading = row.value
          /\ j.inDst = l.inDst /\ j.prevEnd = l.prevEnd /\ j.origEnd = row.end
      <3>1. DOMAIN j = LocalFields /\ j.splitDst
        BY ONLY DOMAIN l = LocalFields, DividedFields
      <3>2. j.inDstStop = l.inDstStop
        BY ONLY DOMAIN l = LocalFields, DividedFields
      <3>3. j.result = l.result /\ j.n = l.n /\ j.from = l.from
        BY ONLY DOMAIN l = LocalFields, DividedFields
      <3>4. j.reading = row.value /\ j.origEnd = row.end
        BY ONLY DOMAIN l = LocalFields, DividedFields
      <3>5. j.inDst = l.inDst /\ j.prevEnd = l.prevEnd
        BY ONLY DOMAIN l = LocalFields, DividedFields
      <3>6. QED BY <3>1, <3>2, <3>3, <3>4, <3>5
    <2> HIDE DEF j
    <2>2. y.l = j
      BY DEF j
    <2>3. QED
      BY <2>1, <2>2
  <1>2. m = [k EXCEPT !.result = rs, !.splitDst = FALSE, !.prev = moved]
        /\ moved.end = row.end
    <2> HIDE DEF rs, moved
    <2>1. m = [k EXCEPT !.result = rs, !.splitDst = FALSE, !.prev = moved]
      BY <1>1 DEF Accept, rs, moved
    <2>2. moved.end = row.end
      BY <1>1 DEF moved
    <2>3. QED
      BY <2>1, <2>2
  <1> HIDE DEF m, rs, moved, k
  <1>3. /\ DOMAIN m = LocalFields
        /\ m.n = l.n /\ m.from = l.from /\ m.reading = row.value /\ m.prev.end = row.end
        /\ ~m.splitDst /\ ~m.inDstStop /\ m.result = rs /\ m.inDst = k.inDst
        /\ m.prevEnd = k.prevEnd
    BY <1>1, <1>2 DEF LocalFields
  <1>4. QED
    BY <1>1, <1>3, StepTurned DEF m, rs
-----------------------------------------------------------------------------
(* One turn of the loop, for a row that continues what is remembered.      *)

Ready(c, l, prior, row) ==
    /\ c \in Configs /\ c.honorDst /\ IsLocals(l)
    /\ prior \in Rows \cup {NoRow} /\ row \in Rows
    /\ Remembers(prior, l.prev.end, l.prevTz, l.prevEnd)
    /\ Counted(c, prior, l.reading)
    /\ prior = NoRow => l.n = 0
    /\ Steady(c, l.n, prior, row)

Taken(c, prior) == prior # NoRow \/ ~(c.cumulative \/ c.endOnly)

LEMMA Situation ==
    ASSUME NEW c, NEW l, NEW prior, NEW row, Ready(c, l, prior, row)
    PROVE  /\ l.prev.end \in Nat /\ l.prevEnd \in Nat
           /\ row.start \in Nat /\ row.end \in Nat /\ row.startTz \in Int /\ row.endTz \in Int
           /\ row.start > 0 /\ row.end > 0
           /\ From(row) \in Int /\ To(row) \in Int /\ To(row) - From(row) > 0
           /\ IF prior = NoRow
              THEN l.n = 0 /\ l.prevEnd = E0 /\ l.prev.end = E0 /\ row.start < row.end
              ELSE row.start = l.prev.end /\ row.startTz = l.prevTz
           /\ l.inDst => /\ row.startTz - row.endTz = 0 /\ prior # NoRow
                         /\ Fall <= From(row) /\ row.start = From(row)
                         /\ row.start <= l.prevEnd /\ l.prevEnd <= RepeatEnd /\ l.prevEnd > 0
           /\ ~l.inDst => l.prevEnd = E0
  <1>1. /\ row \in Rows /\ Honest(row) /\ From(row) > 0 /\ To(row) - From(row) <= Fall - GapEnd
        /\ l.n = 0 => row.start < row.end
        /\ l.inDst <=> l.prevEnd # E0
        /\ prior # NoRow => From(row) = To(prior)
    BY DEF Ready, Steady, IsLocals
  <1>2. /\ row.start \in Nat /\ row.end \in Nat /\ row.startTz \in Int /\ row.endTz \in Int
        /\ From(row) \in Int /\ To(row) \in Int /\ To(row) - From(row) > 0
    BY <1>1, RowTypes DEF Honest
  <1>3. row.start > 0 /\ row.end > 0
    BY <1>1, RowCases
  <1>4. CASE prior = NoRow
    BY <1>1, <1>2, <1>3, <1>4 DEF Ready, Remembers, E0
  <1>5. CASE prior # NoRow
    <2>1. /\ prior \in Rows /\ Honest(prior) /\ From(prior) > 0
          /\ l.prev.end = prior.end /\ l.prevTz = prior.endTz /\ l.prevEnd \in Int
          /\ l.prevEnd # E0 => /\ Fall <= To(prior)
                               /\ prior.end <= l.prevEnd /\ l.prevEnd <= RepeatEnd
      BY <1>5 DEF Ready, Remembers
    <2>2. prior.end \in Nat /\ prior.endTz \in Int /\ To(prior) \in Int
      BY <2>1, RowTypes
    <2>3. prior.endTz = Offset(To(prior)) /\ row.startTz = Offset(From(row))
          /\ row.endTz = Offset(To(row))
      BY <1>1, <2>1 DEF Honest
    <2>4. row.start = l.prev.end /\ row.startTz = l.prevTz
      BY <1>1, <1>2, <1>5, <2>1, <2>2, <2>3 DEF From, To
    <2>5. l.prevEnd \in Nat
      BY <2>1, <2>2 DEF E0
    <2>6. ASSUME l.inDst
          PROVE  /\ row.startTz - row.endTz = 0 /\ prior # NoRow
                 /\ Fall <= From(row) /\ row.start = From(row)
                 /\ row.start <= l.prevEnd /\ l.prevEnd <= RepeatEnd /\ l.prevEnd > 0
      <3>1. /\ Fall <= From(row) /\ Fall <= To(row) /\ row.start <= l.prevEnd
            /\ l.prevEnd <= RepeatEnd
        BY <1>1, <1>2, <1>5, <2>1, <2>4, <2>6, YearAssumption
      <3>2. row.startTz = 0 /\ row.endTz = 0
        BY <1>2, <2>3, <3>1, YearAssumption DEF Offset
      <3>3. QED
        BY <1>2, <1>3, <1>5, <2>5, <3>1, <3>2 DEF From
    <2>7. QED
      BY <1>1, <1>2, <1>3, <1>5, <2>1, <2>2, <2>4, <2>5, <2>6
  <1>6. QED
    BY <1>4, <1>5

LEMMA CheckedFields ==
    ASSUME NEW c, NEW x, DOMAIN x = WorkFields, x.ok \in BOOLEAN
    PROVE  LET y == Checked(c, x)
           IN  /\ DOMAIN y = WorkFields /\ y.l = x.l /\ y.start = x.start /\ y.end = x.end
               /\ y.shift = x.shift /\ y.val = x.val
               /\ y.ok <=> x.ok /\ InOrder(c, x)
  BY DEF Checked, WorkFields

(* A row of a steady meter is never out of order.                          *)
LEMMA Orderly ==
    ASSUME NEW c, NEW l, NEW prior, NEW row, Ready(c, l, prior, row), Taken(c, prior),
           NEW x, x.start = row.start, x.end \in Int, row.start < x.end, x.l.prev = l.prev
    PROVE  InOrder(c, x)
  <1>1. c.gap \in Nat /\ c.cumulative \in BOOLEAN /\ c.endOnly \in BOOLEAN
    BY ConfigsAssumption DEF Ready
  <1>2. /\ row.start \in Nat /\ l.prev.end \in Nat
        /\ prior # NoRow => row.start = l.prev.end
    BY Situation
  <1>3. CASE prior = NoRow
    BY <1>3 DEF InOrder, Taken
  <1>4. CASE prior # NoRow
    <2>1. x.start = row.start /\ x.l.prev.end = row.start /\ row.start < x.end
      BY <1>2, <1>4
    <2>2. Distance(x.start, x.l.prev.end) = 0
      BY <1>2, <2>1 DEF Distance
    <2>3. x.end > x.l.prev.end /\ x.start >= x.l.prev.end /\ x.start < x.end /\ 0 <= c.gap
      BY <1>1, <1>2, <2>1
    <2>4. QED
      BY <2>2, <2>3 DEF InOrder
  <1>5. QED
    BY <1>3, <1>4

LEMMA ExaminedRow ==
    ASSUME NEW c, NEW l, NEW prior, NEW row, Ready(c, l, prior, row), Taken(c, prior)
    PROVE  Examined(c, l, row) = Checked(c, HonorDst(c, Read(l, row)))
  BY ReadRow DEF Examined, Ready, Taken

(* What a turn adds to the result, and what is remembered after it.        *)
Adds(c, l, prior, row, ps, inDst, prevEnd) ==
    LET a == Frontier(l.prev.end, l.prevEnd)
        b == Frontier(row.end, prevEnd)
    IN  /\ ps \in Seq(Accepted) /\ inDst \in BOOLEAN /\ (inDst <=> prevEnd # E0)
        /\ Remembers(row, row.end, row.endTz, prevEnd)
        /\ a <= b /\ InLine(ps, a, b)
        /\ c.frequency = 0 => Joined(ps, b) /\ (prior # NoRow => Begun(ps, a, b))
        /\ c.frequency <= Saving => \A i \in DOMAIN ps : Rated(c, ps[i])
        /\ ps = <<>> => prior = NoRow \/ (RepeatStart <= row.end /\ row.end <= RepeatEnd)

Turn(c, l, prior, row) ==
    \E ps, inDst, prevEnd :
        /\ Adds(c, l, prior, row, ps, inDst, prevEnd)
        /\ Turned(l, Step(c, Examined(c, l, row), row), row, l.result \o ps, inDst, prevEnd)

(* The first row ever of cumulative or end-only data gives no reading.     *)
LEMMA TurnFirst ==
    ASSUME NEW c, NEW l, NEW prior, NEW row, Ready(c, l, prior, row), ~Taken(c, prior)
    PROVE  Turn(c, l, prior, row)
  <1> DEFINE p == Parse(c, l, row)
             x == Examined(c, l, row)
             k == [l EXCEPT !.reading = row.value]
  <1>1. /\ prior = NoRow /\ l.n = 0 /\ l.prevEnd = E0 /\ l.prev.end = E0 /\ ~l.inDst
        /\ row.end \in Nat /\ row.end > 0
    BY Situation DEF Taken
  <1>2. /\ DOMAIN p = WorkFields /\ p.ok = FALSE /\ p.l = k /\ p.end = row.end
    BY <1>1 DEF Parse, WorkFields, Taken, First
  <1> HIDE DEF p
  <1>3. x = Checked(c, p)
    BY <1>2 DEF Examined, HonorDst, p
  <1> HIDE DEF x
  <1>4. ~x.ok /\ x.l = k /\ x.end = row.end
    BY <1>2, <1>3, CheckedFields
  <1>5. /\ DOMAIN k = LocalFields /\ k.n = l.n /\ k.from = l.from /\ k.reading = row.value
        /\ ~k.splitDst /\ ~k.inDstStop /\ k.result = l.result /\ k.inDst = l.inDst
        /\ k.prevEnd = l.prevEnd /\ DOMAIN l = LocalFields /\ l.result \in Seq(Accepted)
    BY DEF Ready, IsLocals, LocalFields
  <1> HIDE DEF k
  <1>6. Turned(l, Step(c, x, row), row, l.result, l.inDst, l.prevEnd)
    BY <1>4, <1>5, DropTurned
  <1>7. l.result \o <<>> = l.result
    BY <1>5
  <1>8. Adds(c, l, prior, row, <<>>, FALSE, E0)
    <2>1. Remembers(row, row.end, row.endTz, E0)
      BY YearAssumption DEF Remembers, Ready, Steady, E0
    <2>2. Frontier(l.prev.end, l.prevEnd) = 0 /\ Frontier(row.end, E0) = row.end
      BY <1>1 DEF Frontier, E0
    <2>3. InLine(<<>>, 0, row.end) /\ Joined(<<>>, row.end)
      BY DEF InLine, Joined
    <2>4. QED
      BY <1>1, <2>1, <2>2, <2>3 DEF Adds
  <1>9. l.inDst = FALSE
    BY <1>1 DEF Ready, IsLocals
  <1>10. QED
    BY <1>1, <1>6, <1>7, <1>8, <1>9 DEF Turn, x
(* One piece, and two pieces with the skipped hour between them.           *)
LEMMA OnePiece ==
    ASSUME NEW row \in Rows, NEW s \in Int, NEW e \in Int, NEW val \in Fraction, s < e,
           NEW rs \in Seq(Accepted)
    PROVE  LET p == Piece(row, s, e, val)
           IN  /\ <<p>> \in Seq(Accepted) /\ p.start = s /\ p.end = e /\ p.val = val
               /\ p.row = row
               /\ \A a \in Int : a <= s => InLine(<<p>>, a, e)
               /\ Joined(<<p>>, e) /\ Begun(<<p>>, s, e) /\ <<p>> # <<>>
               /\ Append(rs, p) = rs \o <<p>>
  <1> DEFINE p == Piece(row, s, e, val)
  <1>1. p.start = s /\ p.end = e /\ p.val = val /\ p.row = row
    BY DEF Piece
  <1>2. p \in Accepted
    BY DEF Piece, Accepted
  <1> HIDE DEF p
  <1>3. ASSUME NEW a \in Int, a <= s
        PROVE  InLine(<<p>>, a, e)
    BY <1>1, <1>3 DEF InLine, Between
  <1>4. Joined(<<p>>, e) /\ Begun(<<p>>, s, e)
    BY <1>1 DEF Joined, Begun, Meets
  <1>5. Append(rs, p) = rs \o <<p>>
    BY <1>2
  <1>6. QED
    BY <1>1, <1>2, <1>3, <1>4, <1>5 DEF p

LEMMA TwoPieces ==
    ASSUME NEW row \in Rows, NEW s \in Int, NEW e \in Int, NEW val \in Fraction, s < e,
           NEW s2 \in Int, NEW e2 \in Int, NEW val2 \in Fraction, s2 < e2, e <= s2, Meets(e, s2),
           NEW a \in Int, a <= s
    PROVE  LET p == Piece(row, s, e, val)
               q == Piece(row, s2, e2, val2)
               ps == <<p>> \o <<q>>
           IN  /\ ps \in Seq(Accepted) /\ DOMAIN ps = {1, 2} /\ ps[1] = p /\ ps[2] = q
               /\ InLine(ps, a, e2) /\ Joined(ps, e2) /\ Begun(ps, s, e2) /\ ps # <<>>
  <1> DEFINE p == Piece(row, s, e, val)
             q == Piece(row, s2, e2, val2)
             ps == <<p>> \o <<q>>
  <1>1. /\ p.start = s /\ p.end = e /\ q.start = s2 /\ q.end = e2
        /\ p \in Accepted /\ q \in Accepted
    BY DEF Piece, Accepted
  <1> HIDE DEF p, q
  <1>2. /\ ps \in Seq(Accepted) /\ Len(ps) = 2 /\ DOMAIN ps = {1, 2} /\ ps[1] = p /\ ps[2] = q
        /\ ps # <<>>
    BY <1>1
  <1> HIDE DEF ps
  <1>3. InLine(ps, a, e2)
    <2>1. ASSUME NEW i \in DOMAIN ps PROVE Between(ps[i], a, e2)
      BY <1>1, <1>2 DEF Between
    <2>2. ASSUME NEW i \in DOMAIN ps, NEW j \in DOMAIN ps, i < j
          PROVE  ps[i].end <= ps[j].start
      <3>1. i = 1 /\ j = 2
        BY <1>2, <2>2
      <3>2. QED
        BY <1>1, <1>2, <3>1
    <2>3. QED
      BY <2>1, <2>2 DEF InLine
  <1>4. Joined(ps, e2)
    <2>1. \A i \in 1..(Len(ps) - 1) : i = 1 /\ i + 1 = 2
      BY <1>2
    <2>2. QED
      BY <1>1, <1>2, <2>1 DEF Joined, Meets
  <1>5. Begun(ps, s, e2)
    BY <1>1, <1>2 DEF Begun, Meets
  <1>6. QED
    BY <1>2, <1>3, <1>4, <1>5 DEF ps, p, q

(* A row taken as it is.                                                   *)
LEMMA TurnPlain ==
    ASSUME NEW c, NEW l, NEW prior, NEW row, Ready(c, l, prior, row), Taken(c, prior),
           row.startTz - row.endTz = 0, ~l.inDst
    PROVE  Turn(c, l, prior, row)
  <1> DEFINE h == HonorDst(c, Read(l, row))
             x == Examined(c, l, row)
             k == [l EXCEPT !.reading = row.value]
             d == To(row) - From(row)
  <1>1. /\ row.start \in Nat /\ row.end \in Nat /\ l.prev.end \in Nat
        /\ l.prevEnd = E0 /\ d \in Int /\ d > 0 /\ row.end > 0
        /\ IF prior = NoRow THEN l.prev.end = E0 ELSE row.start = l.prev.end
    BY Situation
  <1>2. row.start < row.end /\ row.end - row.start = d
    BY RowCases DEF Ready, Steady
  <1>3. /\ c \in Configs /\ IsLocals(l) /\ row \in Rows /\ DOMAIN l = LocalFields
        /\ l.result \in Seq(Accepted) /\ ~l.splitDst /\ ~l.inDstStop
    BY DEF Ready, IsLocals
  <1>4. h = Read(l, row)
    BY <1>2, <1>3, Plain
  <1>5. /\ DOMAIN h = WorkFields /\ h.ok = TRUE /\ h.l = k /\ h.start = row.start
        /\ h.end = row.end /\ h.val = Whole(d)
    BY <1>4 DEF Read, WorkFields
  <1>6. k.prev = l.prev
    BY <1>3 DEF LocalFields
  <1>7. x = Checked(c, h)
    BY ExaminedRow
  <1> HIDE DEF h, k, x
  <1>8. InOrder(c, h)
    BY <1>1, <1>2, <1>5, <1>6, Orderly
  <1>9. /\ DOMAIN x = WorkFields /\ x.ok /\ x.l = k /\ x.start = row.start /\ x.end = row.end
        /\ x.val = Whole(d)
    BY <1>5, <1>7, <1>8, CheckedFields
  <1>10. /\ Whole(d) \in Fraction /\ ~IsNegative(Whole(d))
         /\ Whole(d).den > 0 /\ Whole(d).v * Whole(d).num = d * Whole(d).den
    BY <1>1, WholeRate
  <1> HIDE DEF d
  <1>11. PICK y : /\ Decided(c, x, row) = Accept(y, row)
                  /\ y.l = x.l /\ y.end = x.end /\ y.val = x.val
                  /\ y.start \in Int /\ x.start <= y.start /\ y.start < x.end
                  /\ c.frequency = 0 \/ x.end - x.start <= c.frequency => y.start = x.start
    BY <1>1, <1>2, <1>3, <1>9, <1>10, Begins
  <1>12. /\ y.start \in Int /\ row.start <= y.start /\ y.start < row.end
         /\ c.frequency = 0 \/ d <= c.frequency => y.start = row.start
    BY <1>2, <1>9, <1>11
  <1> DEFINE p == Piece(row, y.start, row.end, Whole(d))
  <1>13. Turned(l, Step(c, x, row), row, Append(l.result, p), l.inDst, l.prevEnd)
    <2>1. y.l = [l EXCEPT !.reading = row.value] /\ y.end = row.end /\ y.val = Whole(d)
      BY <1>9, <1>11 DEF k
    <2>2. QED
      BY <1>3, <1>11, <2>1, AcceptPlain
  <1>14. /\ <<p>> \in Seq(Accepted) /\ p.start = y.start /\ p.end = row.end /\ p.val = Whole(d)
         /\ p.row = row
         /\ Joined(<<p>>, row.end) /\ Begun(<<p>>, y.start, row.end) /\ <<p>> # <<>>
         /\ \A a \in Int : a <= y.start => InLine(<<p>>, a, row.end)
         /\ Append(l.result, p) = l.result \o <<p>>
    <2>1. /\ row \in Rows /\ y.start \in Int /\ row.end \in Int /\ Whole(d) \in Fraction
          /\ y.start < row.end /\ l.result \in Seq(Accepted)
      BY <1>1, <1>3, <1>10, <1>12
    <2> HIDE DEF Whole
    <2>2. QED
      <3>1. /\ p.start = y.start /\ p.end = row.end /\ p.val = Whole(d) /\ p.row = row
        BY DEF Piece
      <3>6. <<p>> \in Seq(Accepted)
        BY ONLY <2>1, OnePiece
      <3>2. Joined(<<p>>, row.end) /\ Begun(<<p>>, y.start, row.end) /\ <<p>> # <<>>
        BY ONLY <2>1, OnePiece
      <3>3. \A a \in Int : a <= y.start => InLine(<<p>>, a, row.end)
        BY ONLY <2>1, OnePiece
      <3>4. Append(l.result, p) = l.result \o <<p>>
        BY ONLY <2>1, OnePiece
      <3>5. QED BY <3>1, <3>2, <3>3, <3>4, <3>6
  <1> HIDE DEF p
  <1>15. Adds(c, l, prior, row, <<p>>, FALSE, E0)
    <2>1. Remembers(row, row.end, row.endTz, E0)
      BY YearAssumption DEF Remembers, Ready, Steady, E0
    <2>2. Frontier(l.prev.end, l.prevEnd) = l.prev.end /\ Frontier(row.end, E0) = row.end
      BY <1>1 DEF Frontier, E0
    <2>3. l.prev.end <= row.start /\ l.prev.end <= y.start /\ l.prev.end <= row.end
          /\ l.prev.end \in Int
      BY <1>1, <1>12 DEF E0
    <2>4. c.frequency = 0 => Joined(<<p>>, row.end)
                             /\ (prior # NoRow => Begun(<<p>>, l.prev.end, row.end))
      BY <1>1, <1>12, <1>14
    <2>5. \A i \in DOMAIN <<p>> : Rated(c, <<p>>[i])
      <3>1. c.frequency \in {0, d} => y.start = row.start
        BY <1>1, <1>12 DEF d
      <3>2. Rated(c, p)
        BY <1>2, <1>10, <1>14, <3>1 DEF Rated, d
      <3>3. QED
        BY <3>2
    <2>6. QED
      BY <1>14, <2>1, <2>2, <2>3, <2>4, <2>5 DEF Adds
  <1>16. l.inDst = FALSE
    BY <1>3 DEF IsLocals
  <1>17. QED
    BY <1>1, <1>13, <1>14, <1>15, <1>16 DEF Turn, x
(* A row of which only the part after use is taken.                        *)
LEMMA TurnCut ==
    ASSUME NEW c, NEW l, NEW prior, NEW row, Ready(c, l, prior, row), Taken(c, prior),
           NEW h, h = HonorDst(c, Read(l, row)), NEW use \in Int,
           DOMAIN h = WorkFields, h.ok, h.start = row.start, h.end = row.end,
           h.val = Prorated(Whole(To(row) - From(row)), row.start,
                            row.start + (To(row) - From(row)), use, row.end),
           DOMAIN h.l = LocalFields, h.l.startUse = use, h.l.inDst = FALSE,
           h.l.inDstStop, ~h.l.splitDst, h.l.n = l.n, h.l.from = l.from,
           h.l.reading = row.value, h.l.result = l.result, h.l.prev = l.prev,
           Frontier(l.prev.end, l.prevEnd) <= use, use < row.end, row.start < row.end,
           prior # NoRow => use = Frontier(l.prev.end, l.prevEnd)
    PROVE  Turn(c, l, prior, row)
  <1> DEFINE x == Examined(c, l, row)
             d == To(row) - From(row)
             a == Frontier(l.prev.end, l.prevEnd)
             val == [v |-> d, num |-> 1 * (row.end - use), den |-> 1 * d]
             p == Piece(row, use, row.end, val)
  <1>1. /\ row.start \in Nat /\ row.end \in Nat /\ d \in Int /\ d > 0 /\ row.end > 0
        /\ l.prev.end \in Nat /\ l.prevEnd \in Nat
    BY Situation
  <1>2. a \in Int
    BY <1>1 DEF Frontier
  <1>3. /\ c \in Configs /\ IsLocals(l) /\ row \in Rows /\ DOMAIN l = LocalFields
        /\ l.result \in Seq(Accepted)
    BY DEF Ready, IsLocals
  <1> HIDE DEF d
  <1>4. h.val = val
    <2>1. PICK e \in Int : e = row.start + d
      BY <1>1
    <2>2. row.start \in Int /\ row.end \in Int /\ d \in Int
      BY <1>1
    <2>3. h.val = Prorated(Whole(d), row.start, e, use, row.end)
      BY <2>1 DEF d
    <2>4. Prorated(Whole(d), row.start, e, use, row.end)
            = [v |-> d, num |-> 1 * (row.end - use), den |-> 1 * d]
      <3>1. e - row.start = d
        BY <2>1, <2>2
      <3>2. Prorated(Whole(d), row.start, e, use, row.end)
              = [v |-> d, num |-> 1 * (row.end - use), den |-> 1 * (e - row.start)]
        BY DEF Prorated, Whole
      <3>3. QED
        BY <3>1, <3>2
    <2>5. QED
      BY <2>3, <2>4
  <1>5. /\ val \in Fraction /\ ~IsNegative(val)
        /\ val.den > 0 /\ val.v * val.num = (row.end - use) * val.den
    <2>1. row.end - use \in Int /\ row.end - use > 0
      BY <1>1
    <2>2. QED
      BY <1>1, <2>1, Rate
  <1> HIDE DEF val
  <1>7. x = Checked(c, h)
    BY ExaminedRow
  <1> HIDE DEF x
  <1>8. InOrder(c, h)
    BY <1>1, Orderly
  <1>9. /\ DOMAIN x = WorkFields /\ x.ok /\ x.l = h.l /\ x.start = row.start /\ x.end = row.end
        /\ x.val = val
    <2>1. h.ok \in BOOLEAN => x.ok
      BY <1>7, <1>8, CheckedFields
    <2>2. QED
      BY <1>4, <1>7, <1>8 DEF Checked, WorkFields
  <1>11. PICK y : /\ Decided(c, x, row) = Accept(y, row)
                  /\ y.l = x.l /\ y.end = x.end /\ y.val = x.val
    BY <1>1, <1>3, <1>5, <1>9, Begins
  <1>12. y.l = h.l /\ y.end = row.end /\ y.val = val
    BY <1>9, <1>11
  <1>13. Turned(l, Step(c, x, row), row, Append(l.result, p), FALSE, E0)
    BY <1>3, <1>11, <1>12, AcceptCut
  <1>14. /\ p.start = use /\ p.end = row.end /\ p.val = val /\ p.row = row
    BY DEF Piece
  <1>15. /\ <<p>> \in Seq(Accepted)
         /\ Joined(<<p>>, row.end) /\ Begun(<<p>>, use, row.end) /\ <<p>> # <<>>
         /\ InLine(<<p>>, a, row.end)
         /\ Append(l.result, p) = l.result \o <<p>>
    <2>1. /\ row \in Rows /\ use \in Int /\ row.end \in Int /\ val \in Fraction
          /\ use < row.end /\ l.result \in Seq(Accepted) /\ a \in Int /\ a <= use
      BY <1>1, <1>2, <1>3, <1>5
    <2> HIDE DEF a
    <2>2. <<p>> \in Seq(Accepted)
      BY ONLY <2>1, OnePiece
    <2>3. Joined(<<p>>, row.end) /\ Begun(<<p>>, use, row.end) /\ <<p>> # <<>>
      BY ONLY <2>1, OnePiece
    <2>4. InLine(<<p>>, a, row.end)
      BY ONLY <2>1, OnePiece
    <2>5. Append(l.result, p) = l.result \o <<p>>
      BY ONLY <2>1, OnePiece
    <2>6. QED
      BY <2>2, <2>3, <2>4, <2>5
  <1> HIDE DEF p
  <1>16. Adds(c, l, prior, row, <<p>>, FALSE, E0)
    <2>1. Remembers(row, row.end, row.endTz, E0)
      BY YearAssumption DEF Remembers, Ready, Steady, E0
    <2>2. Frontier(row.end, E0) = row.end /\ a <= row.end
      BY <1>1, <1>2 DEF Frontier, E0
    <2>3. Rated(c, p)
      BY <1>5, <1>14 DEF Rated
    <2>4. \A i \in DOMAIN <<p>> : Rated(c, <<p>>[i])
      BY <2>3
    <2>5. prior # NoRow => Begun(<<p>>, a, row.end)
      BY <1>15
    <2>6. QED
      BY <1>15, <2>1, <2>2, <2>4, <2>5 DEF Adds
  <1>17. QED
    BY <1>13, <1>15, <1>16 DEF Turn, x

(* A row that was used already, when the clock showed its time before.     *)
LEMMA TurnDropped ==
    ASSUME NEW c, NEW l, NEW prior, NEW row, Ready(c, l, prior, row), Taken(c, prior),
           NEW h, h = HonorDst(c, Read(l, row)),
           DOMAIN h = WorkFields, ~h.ok, h.end = row.end,
           DOMAIN h.l = LocalFields, h.l.inDst = TRUE,
           ~h.l.inDstStop, ~h.l.splitDst, h.l.n = l.n, h.l.from = l.from,
           h.l.reading = row.value, h.l.result = l.result,
           h.l.prevEnd = Frontier(l.prev.end, l.prevEnd), h.l.prevEnd > 0,
           row.end <= h.l.prevEnd, h.l.prevEnd <= RepeatEnd, Fall <= To(row), Fall <= row.end
    PROVE  Turn(c, l, prior, row)
  <1> DEFINE x == Examined(c, l, row)
             a == h.l.prevEnd
  <1>1. /\ row.end \in Nat /\ l.prev.end \in Nat /\ l.prevEnd \in Nat
    BY Situation
  <1>2. a \in Int /\ a # E0
    BY <1>1 DEF Frontier, E0
  <1>3. /\ c \in Configs /\ IsLocals(l) /\ row \in Rows /\ DOMAIN l = LocalFields
        /\ l.result \in Seq(Accepted)
    BY DEF Ready, IsLocals
  <1>4. x = Checked(c, h)
    BY ExaminedRow
  <1> HIDE DEF x
  <1>5. ~x.ok /\ x.l = h.l /\ x.end = row.end
    BY <1>4 DEF Checked, WorkFields
  <1>6. Turned(l, Step(c, x, row), row, l.result, TRUE, a)
    BY <1>3, <1>5, DropTurned
  <1>7. l.result \o <<>> = l.result
    BY <1>3
  <1>8. Adds(c, l, prior, row, <<>>, TRUE, a)
    <2>1. Remembers(row, row.end, row.endTz, a)
      BY <1>2, YearAssumption DEF Remembers, Ready, Steady, E0
    <2>2. Frontier(l.prev.end, l.prevEnd) = a /\ Frontier(row.end, a) = a
      BY <1>2 DEF Frontier
    <2>3. InLine(<<>>, a, a) /\ Joined(<<>>, a) /\ Begun(<<>>, a, a)
      BY DEF InLine, Joined, Begun, Meets
    <2>4. RepeatStart <= row.end /\ row.end <= RepeatEnd
      BY <1>1, <1>2, YearAssumption DEF RepeatStart, RepeatEnd
    <2> HIDE DEF a
    <2>5. a <= a
      BY <1>2
    <2>6. QED
      BY <1>2, <2>1, <2>2, <2>3, <2>4, <2>5 DEF Adds
  <1>9. QED
    BY <1>6, <1>7, <1>8 DEF Turn, x
LEMMA TurnInside ==
    ASSUME NEW c, NEW l, NEW prior, NEW row, Ready(c, l, prior, row), Taken(c, prior), l.inDst
    PROVE  Turn(c, l, prior, row)
  <1> DEFINE h == HonorDst(c, Read(l, row))
             k == Noted(l, row)
             use == Later(l.prevEnd, row.start)
             d == To(row) - From(row)
  <1>1. /\ row.start \in Nat /\ row.end \in Nat /\ l.prev.end \in Nat /\ l.prevEnd \in Nat
        /\ row.startTz - row.endTz = 0 /\ Fall <= From(row) /\ row.start = From(row)
        /\ row.start <= l.prevEnd /\ l.prevEnd <= RepeatEnd /\ l.prevEnd > 0 /\ d > 0
        /\ From(row) \in Int /\ To(row) \in Int
    BY Situation
  <1>2. row.start < row.end /\ row.end - row.start = d /\ row.end = To(row)
    BY <1>1, RowCases DEF Ready, Steady
  <1>3. /\ c \in Configs /\ IsLocals(l) /\ row \in Rows /\ DOMAIN l = LocalFields
        /\ c.honorDst /\ l.inDst = TRUE /\ ~l.splitDst /\ ~l.inDstStop
    BY DEF Ready, IsLocals
  <1>4. /\ DOMAIN h = WorkFields /\ h.end = row.end
        /\ IF row.end > l.prevEnd
           THEN /\ h.ok /\ h.start = row.start
                /\ h.l = [k EXCEPT !.startUse = use, !.inDst = FALSE, !.inDstStop = TRUE]
                /\ h.val = Prorated(Whole(d), row.start, row.end, use, row.end)
           ELSE ~h.ok /\ h.l = k
    <2>1. /\ row.startTz - row.endTz = 0 /\ l.prevEnd \in Nat /\ row.start < row.end
      BY <1>1, <1>2
    <2>2. QED
      BY ONLY <1>3, <2>1, Inside, l.inDst
  <1>5. Frontier(l.prev.end, l.prevEnd) = l.prevEnd
    BY <1>1 DEF Frontier, E0
  <1>6. use = l.prevEnd
    BY <1>1 DEF Later
  <1>7. /\ DOMAIN k = LocalFields /\ k.n = l.n /\ k.from = l.from /\ k.reading = row.value
        /\ k.result = l.result /\ k.prev = l.prev /\ k.inDst = TRUE /\ k.prevEnd = l.prevEnd
        /\ ~k.splitDst /\ ~k.inDstStop
    BY <1>3 DEF LocalFields, Noted
  <1> HIDE DEF h, k, use
  <1>8. CASE row.end > l.prevEnd
    <2>1. /\ h.ok /\ h.start = row.start
          /\ h.l = [k EXCEPT !.startUse = use, !.inDst = FALSE, !.inDstStop = TRUE]
          /\ h.val = Prorated(Whole(d), row.start, row.end, use, row.end)
      BY <1>4, <1>8
    <2>2. /\ DOMAIN h.l = LocalFields /\ h.l.startUse = use /\ h.l.inDst = FALSE
          /\ h.l.inDstStop /\ ~h.l.splitDst /\ h.l.n = l.n /\ h.l.from = l.from
          /\ h.l.reading = row.value /\ h.l.result = l.result /\ h.l.prev = l.prev
      BY <1>7, <2>1 DEF LocalFields
    <2>3. row.start + d = row.end
      BY <1>1, <1>2
    <2>4. use \in Int /\ Frontier(l.prev.end, l.prevEnd) <= use /\ use < row.end
      BY <1>1, <1>5, <1>6, <1>8
    <2>5. QED
      BY <1>2, <1>4, <1>5, <1>6, <2>1, <2>2, <2>3, <2>4, TurnCut DEF h
  <1>9. CASE ~(row.end > l.prevEnd)
    <2>1. /\ ~h.ok /\ h.l = k
      BY <1>4, <1>9
    <2>2. /\ row.end <= l.prevEnd /\ Fall <= To(row) /\ Fall <= row.end
      BY <1>1, <1>2, <1>9, YearAssumption
    <2>3. QED
      BY <1>1, <1>4, <1>5, <1>7, <2>1, <2>2, TurnDropped DEF h
  <1>10. QED
    BY <1>8, <1>9

LEMMA TurnLeaves ==
    ASSUME NEW c, NEW l, NEW prior, NEW row, Ready(c, l, prior, row), Taken(c, prior), ~l.inDst,
           row.startTz - row.endTz > 0
    PROVE  Turn(c, l, prior, row)
  <1> DEFINE h == HonorDst(c, Read(l, row))
             k == [l EXCEPT !.reading = row.value]
             left == [k EXCEPT !.zoneUntil = ZoneUntil(row.end), !.prevEnd = l.prev.end,
                               !.inDst = TRUE]
             use == Later(l.prev.end, row.start)
             d == To(row) - From(row)
  <1>1. /\ row.start \in Nat /\ row.end \in Nat /\ l.prev.end \in Nat
        /\ l.prevEnd = E0 /\ d > 0 /\ row.start > 0 /\ row.end > 0
        /\ From(row) \in Int /\ To(row) \in Int
        /\ IF prior = NoRow THEN l.prev.end = 0 /\ row.start < row.end
           ELSE row.start = l.prev.end
    BY Situation DEF E0
  <1>2. /\ From(row) < Fall /\ row.start = From(row) + Saving /\ row.startTz - row.endTz = Saving
        /\ Fall <= To(row) /\ row.end = To(row)
    BY RowCases DEF Ready, Steady
  <1>3. /\ c \in Configs /\ IsLocals(l) /\ row \in Rows /\ DOMAIN l = LocalFields
        /\ c.honorDst /\ ~l.splitDst /\ ~l.inDstStop
        /\ l.n = 0 => row.start < row.end
    BY DEF Ready, IsLocals, Steady
  <1>4. /\ DOMAIN h = WorkFields /\ h.end = row.end
        /\ IF row.end > l.prev.end
           THEN /\ h.ok /\ h.start = row.start
                /\ h.l = [left EXCEPT !.startUse = use, !.inDst = FALSE, !.inDstStop = TRUE]
                /\ h.val = Prorated(Whole(d), row.start, row.end + Saving, use, row.end)
           ELSE ~h.ok /\ h.l = left
    BY <1>1, <1>2, <1>3, Leaves
  <1>5. Frontier(l.prev.end, l.prevEnd) = l.prev.end
    BY <1>1 DEF Frontier
  <1>6. use = row.start /\ l.prev.end <= row.start
    BY <1>1 DEF Later
  <1>7. /\ DOMAIN left = LocalFields /\ left.n = l.n /\ left.from = l.from
        /\ left.reading = row.value /\ left.result = l.result /\ left.prev = l.prev
        /\ left.inDst = TRUE /\ left.prevEnd = l.prev.end
        /\ ~left.splitDst /\ ~left.inDstStop
    <2>1. /\ DOMAIN k = LocalFields /\ k.n = l.n /\ k.from = l.from /\ k.reading = row.value
          /\ k.result = l.result /\ k.prev = l.prev /\ ~k.splitDst /\ ~k.inDstStop
      BY <1>3 DEF LocalFields
    <2> HIDE DEF k
    <2>2. QED
      BY <2>1 DEF LocalFields
  <1> HIDE DEF h, k, left, use
  <1>8. CASE row.end > l.prev.end
    <2>1. /\ h.ok /\ h.start = row.start
          /\ h.l = [left EXCEPT !.startUse = use, !.inDst = FALSE, !.inDstStop = TRUE]
          /\ h.val = Prorated(Whole(d), row.start, row.end + Saving, use, row.end)
      BY <1>4, <1>8
    <2>2. /\ DOMAIN h.l = LocalFields /\ h.l.startUse = use /\ h.l.inDst = FALSE
          /\ h.l.inDstStop /\ ~h.l.splitDst /\ h.l.n = l.n /\ h.l.from = l.from
          /\ h.l.reading = row.value /\ h.l.result = l.result /\ h.l.prev = l.prev
      BY <1>7, <2>1 DEF LocalFields
    <2>3. row.start + d = row.end + Saving
      BY <1>1, <1>2, YearAssumption
    <2>4. /\ use \in Int /\ Frontier(l.prev.end, l.prevEnd) <= use /\ use < row.end
          /\ row.start < row.end
          /\ prior # NoRow => use = Frontier(l.prev.end, l.prevEnd)
      BY <1>1, <1>5, <1>6, <1>8
    <2>5. QED
      BY <1>4, <2>1, <2>2, <2>3, <2>4, TurnCut DEF h
  <1>9. CASE ~(row.end > l.prev.end)
    <2>1. /\ ~h.ok /\ h.l = left
      BY <1>4, <1>9
    <2>2. /\ row.end <= l.prev.end /\ Fall <= row.end /\ l.prev.end > 0
          /\ l.prev.end <= RepeatEnd
      BY <1>1, <1>2, <1>9, YearAssumption DEF RepeatEnd
    <2>3. QED
      BY <1>2, <1>4, <1>5, <1>7, <2>1, <2>2, TurnDropped DEF h
  <1>10. QED
    BY <1>8, <1>9
(* The parts of a row that is split.                                       *)
LEMMA Parts ==
    ASSUME NEW y, NEW row, NEW l, NEW d, NEW w \in Int,
           y.l = Divided(l, row),
           DOMAIN l = LocalFields, row.end = w + Saving, y.shift = 0 - Saving, y.val = Whole(d)
    PROVE  LET part(s, e) == Piece(row, s, e, Prorated(Whole(d), y.start, w, s, e))
           IN  SplitPieces(y, row) =
                   (IF Spring > y.start THEN <<part(y.start, Spring)>> ELSE <<>>)
                   \o (IF row.end > GapEnd THEN <<part(GapEnd, row.end)>> ELSE <<>>)
  <1> DEFINE k == y.l
             part(s, e) == Piece(row, s, e, Prorated(Whole(d), y.start, w, s, e))
  <1>1. k.zoneUntil = GapEnd /\ k.origEnd = row.end
    BY DividedFields
  <1>2. k.origEnd + y.shift = w /\ k.zoneUntil + y.shift = Spring
    BY <1>1, YearAssumption DEF GapEnd
  <1> HIDE DEF k
  <1>3. \A s, e : Piece(row, s, e, Prorated(y.val, y.start, w, s, e)) = part(s, e)
    OBVIOUS
  <1>4. QED
    BY <1>1, <1>2, <1>3 DEF SplitPieces, k

LEMMA PartRate ==
    ASSUME NEW row \in Rows, NEW d \in Int, d > 0, NEW start \in Int, NEW w \in Int,
           NEW s \in Int, NEW e \in Int, NEW c
    PROVE  LET val == Prorated(Whole(d), start, w, s, e)
               p == Piece(row, s, e, val)
           IN  /\ val \in Fraction
               /\ w - start = d => Rated(c, p)
  <1> DEFINE val == Prorated(Whole(d), start, w, s, e)
             p == Piece(row, s, e, val)
  <1>1. val = [v |-> d, num |-> 1 * (e - s), den |-> 1 * (w - start)]
    BY DEF Prorated, Whole
  <1> HIDE DEF val
  <1>2. p.start = s /\ p.end = e /\ p.val = val
    BY DEF Piece
  <1> HIDE DEF p
  <1>3. val \in Fraction
    BY <1>1 DEF Fraction
  <1>4. ASSUME w - start = d
        PROVE  Rated(c, p)
    <2>1. e - s \in Int
      OBVIOUS
    <2>2. val.den > 0 /\ val.v * val.num = (e - s) * val.den
      BY <1>1, <1>4, <2>1, Rate
    <2>3. QED
      BY <1>2, <2>2 DEF Rated
  <1>5. QED
    BY <1>3, <1>4 DEF p, val

LEMMA TurnEnters ==
    ASSUME NEW c, NEW l, NEW prior, NEW row, Ready(c, l, prior, row), Taken(c, prior), ~l.inDst,
           row.startTz - row.endTz < 0
    PROVE  Turn(c, l, prior, row)
  <1> DEFINE h == HonorDst(c, Read(l, row))
             x == Examined(c, l, row)
             d == To(row) - From(row)
             w == To(row)
             m == Divided(l, row)
  <1>1. /\ row.start \in Nat /\ row.end \in Nat /\ l.prev.end \in Nat
        /\ l.prevEnd = E0 /\ d > 0 /\ d \in Int /\ row.end > 0
        /\ From(row) \in Int /\ w \in Int
        /\ IF prior = NoRow THEN l.prev.end = E0 ELSE row.start = l.prev.end
    BY Situation
  <1>2. /\ From(row) < Spring /\ row.start = From(row) /\ row.startTz - row.endTz = 0 - Saving
        /\ Spring <= w /\ w + Saving < Fall /\ row.end = w + Saving
    BY RowCases DEF Ready, Steady
  <1>3. /\ c \in Configs /\ IsLocals(l) /\ row \in Rows /\ DOMAIN l = LocalFields
        /\ c.honorDst /\ ~l.splitDst /\ ~l.inDstStop /\ l.result \in Seq(Accepted)
        /\ c.frequency \in Nat
    BY ConfigsAssumption DEF Ready, IsLocals
  <1>4. /\ Spring \in Nat /\ GapEnd \in Nat /\ GapEnd = Spring + Saving /\ Saving \in Nat
        /\ Saving > 0 /\ Fall \in Nat
    BY YearAssumption DEF GapEnd
  <1>5. row.start < row.end /\ GapEnd <= row.end /\ row.end < Fall /\ row.end - Saving = w
    BY <1>1, <1>2, <1>4
  <1>6. /\ h.ok /\ DOMAIN h = WorkFields /\ h.start = row.start /\ h.shift = 0 - Saving
        /\ h.end = (IF row.end - Saving < GapEnd THEN row.end - Saving ELSE row.end)
        /\ h.val = Whole(d) /\ h.l = m
    BY <1>2, <1>3, <1>5, Enters
  <1>7. m.prev = l.prev /\ m.origEnd = row.end
    BY <1>3, DividedFields
  <1>8. x = Checked(c, h)
    BY ExaminedRow
  <1> HIDE DEF h, x, m
  <1>9. /\ h.end \in Int /\ row.start < h.end /\ h.end = IF w < GapEnd THEN w ELSE row.end
    BY <1>1, <1>2, <1>4, <1>5, <1>6
  <1>10. InOrder(c, h)
    BY <1>6, <1>7, <1>9, Orderly
  <1>11. /\ DOMAIN x = WorkFields /\ x.ok /\ x.l = m /\ x.start = row.start /\ x.end = h.end
         /\ x.shift = 0 - Saving /\ x.val = Whole(d)
    BY <1>6, <1>8, <1>10 DEF Checked, WorkFields
  <1>12. ~IsNegative(Whole(d))
    BY <1>1, WholeRate
  <1> HIDE DEF d, w
  <1>13. PICK y : /\ Decided(c, x, row) = Accept(y, row)
                  /\ y.l = x.l /\ y.end = x.end /\ y.shift = x.shift /\ y.val = x.val
                  /\ y.start \in Int /\ x.start <= y.start /\ y.start < x.end
                  /\ c.frequency = 0 \/ x.end - x.start <= c.frequency => y.start = x.start
    BY <1>1, <1>3, <1>9, <1>11, <1>12, Begins
  <1> DEFINE s == y.start
             val(b, e) == Prorated(Whole(d), s, w, b, e)
             p == Piece(row, s, Spring, val(s, Spring))
             q == Piece(row, GapEnd, row.end, val(GapEnd, row.end))
             ps == SplitPieces(y, row)
             a == l.prev.end
  <1>14. /\ y.l = m /\ y.shift = 0 - Saving /\ y.val = Whole(d) /\ s \in Int
         /\ row.start <= s /\ s < h.end
         /\ c.frequency = 0 \/ h.end - row.start <= c.frequency => s = row.start
    BY <1>11, <1>13
  <1>15. ps = (IF Spring > s THEN <<p>> ELSE <<>>) \o (IF row.end > GapEnd THEN <<q>> ELSE <<>>)
    BY <1>1, <1>2, <1>3, <1>14, Parts DEF m
  <1>16. Turned(l, Step(c, x, row), row, l.result \o ps, l.inDst, l.prevEnd)
    BY <1>3, <1>7, <1>13, <1>14, AcceptSplit DEF m
  <1>17. /\ val(s, Spring) \in Fraction /\ val(GapEnd, row.end) \in Fraction
         /\ w - s = d => Rated(c, p) /\ Rated(c, q)
    <2>1. /\ row.end \in Int /\ GapEnd \in Int /\ Spring \in Int /\ s \in Int /\ d \in Int /\ d > 0
          /\ w \in Int /\ row \in Rows
      BY <1>1, <1>3, <1>4, <1>14
    <2> HIDE DEF s
    <2>2. val(s, Spring) \in Fraction /\ (w - s = d => Rated(c, p))
      BY ONLY <2>1, PartRate
    <2>3. val(GapEnd, row.end) \in Fraction /\ (w - s = d => Rated(c, q))
      BY ONLY <2>1, PartRate
    <2>4. QED
      BY <2>2, <2>3
  <1>18. /\ p.start = s /\ p.end = Spring /\ p.row = row
         /\ q.start = GapEnd /\ q.end = row.end /\ q.row = row
    BY DEF Piece
  <1>19. p \in Accepted /\ q \in Accepted
    <2> HIDE DEF val
    <2>1. QED
      BY <1>1, <1>3, <1>4, <1>14, <1>17 DEF Piece, Accepted
  <1>20. (c.frequency <= Saving /\ c.frequency \in {0, d}) => w - s = d
    BY <1>1, <1>2, <1>3, <1>4, <1>9, <1>14 DEF d, w
  <1>21. c.frequency <= Saving => Rated(c, p) /\ Rated(c, q)
    <2>1. CASE c.frequency \in {0, d}
      BY <2>1, <1>17, <1>20
    <2>2. CASE c.frequency \notin {0, d}
      BY <2>2, <1>18 DEF Rated, d
    <2>3. QED
      BY <2>1, <2>2
  <1> HIDE DEF p, q
  <1>22. /\ a \in Int /\ a <= row.start /\ a <= s /\ a <= row.end /\ a <= GapEnd
         /\ prior # NoRow /\ c.frequency = 0 => a = s
    BY <1>1, <1>2, <1>4, <1>5, <1>14 DEF E0
  <1>23. /\ ps \in Seq(Accepted) /\ ps # <<>> /\ InLine(ps, a, row.end)
         /\ c.frequency = 0 => Joined(ps, row.end) /\ (prior # NoRow => Begun(ps, a, row.end))
         /\ c.frequency <= Saving => \A i \in DOMAIN ps : Rated(c, ps[i])
    <2>0. Meets(Spring, GapEnd) /\ Spring <= GapEnd
      BY <1>4 DEF Meets, GapStart
    <2>1. CASE Spring > s /\ row.end > GapEnd
      <3>1. ps = <<p>> \o <<q>>
        BY <1>15, <2>1
      <3>2. /\ row \in Rows /\ s \in Int /\ Spring \in Int /\ val(s, Spring) \in Fraction
            /\ s < Spring /\ GapEnd \in Int /\ row.end \in Int
            /\ val(GapEnd, row.end) \in Fraction /\ GapEnd < row.end /\ Spring <= GapEnd
            /\ Meets(Spring, GapEnd) /\ a \in Int /\ a <= s
        BY <1>1, <1>3, <1>4, <1>14, <1>17, <1>22, <2>0, <2>1
      <3> HIDE DEF s, val, ps, a
      <3>3. /\ <<p>> \o <<q>> \in Seq(Accepted) /\ DOMAIN (<<p>> \o <<q>>) = {1, 2}
            /\ <<p>> \o <<q>> # <<>>
        BY <1>19
      <3>4. (<<p>> \o <<q>>)[1] = p /\ (<<p>> \o <<q>>)[2] = q
        BY <1>19
      <3>5. InLine(<<p>> \o <<q>>, a, row.end)
        BY ONLY <3>2, TwoPieces DEF p, q
      <3>6. Joined(<<p>> \o <<q>>, row.end) /\ Begun(<<p>> \o <<q>>, s, row.end)
        BY ONLY <3>2, TwoPieces DEF p, q
      <3>7. c.frequency <= Saving => \A i \in DOMAIN (<<p>> \o <<q>>) : Rated(c, (<<p>> \o <<q>>)[i])
        BY <1>21, <3>3, <3>4
      <3>8. QED
        BY <1>22, <3>1, <3>3, <3>5, <3>6, <3>7
    <2>2. CASE Spring > s /\ ~(row.end > GapEnd)
      <3>1. ps = <<p>>
        <4> HIDE DEF ps
        <4>1. ps = <<p>> \o <<>>
          BY <1>15, <2>2
        <4>2. QED
          BY <4>1, <1>19
      <3> HIDE DEF ps
      <3>2. row.end = GapEnd
        BY <1>1, <1>4, <1>5, <2>2
      <3>3. InLine(<<p>>, a, row.end)
        BY <1>4, <1>14, <1>18, <1>22, <2>0, <2>2, <3>2 DEF InLine, Between
      <3>4. Joined(<<p>>, row.end)
        BY <1>18, <2>0, <3>2 DEF Joined
      <3>5. Begun(<<p>>, s, row.end)
        BY <1>18 DEF Begun, Meets
      <3>6. <<p>> \in Seq(Accepted) /\ <<p>> # <<>>
        BY <1>19
      <3>7. c.frequency <= Saving => \A i \in DOMAIN <<p>> : Rated(c, <<p>>[i])
        BY <1>21
      <3>8. QED
        BY <1>22, <3>1, <3>3, <3>4, <3>5, <3>6, <3>7
    <2>3. CASE ~(Spring > s)
      <3>1. row.end > GapEnd /\ s # row.start
        BY <1>1, <1>2, <1>4, <1>5, <1>9, <1>14, <2>3
      <3>2. ps = <<q>>
        <4> HIDE DEF ps
        <4>1. ps = <<>> \o <<q>>
          BY <1>15, <2>3, <3>1
        <4>2. QED
          BY <4>1, <1>19
      <3> HIDE DEF ps
      <3>3. InLine(<<q>>, a, row.end)
        BY <1>1, <1>4, <1>18, <1>22, <3>1 DEF InLine, Between
      <3>4. c.frequency # 0
        BY <1>14, <3>1
      <3>6. <<q>> \in Seq(Accepted) /\ <<q>> # <<>>
        BY <1>19
      <3>7. c.frequency <= Saving => \A i \in DOMAIN <<q>> : Rated(c, <<q>>[i])
        BY <1>21
      <3>8. QED
        BY <3>2, <3>3, <3>4, <3>6, <3>7
    <2>4. QED
      BY <2>1, <2>2, <2>3
  <1> HIDE DEF ps
  <1>24. Adds(c, l, prior, row, ps, FALSE, E0)
    <2>1. Remembers(row, row.end, row.endTz, E0)
      BY YearAssumption DEF Remembers, Ready, Steady, E0
    <2>2. Frontier(l.prev.end, l.prevEnd) = a /\ Frontier(row.end, E0) = row.end
      BY <1>1 DEF Frontier, E0
    <2>3. QED
      BY <1>22, <1>23, <2>1, <2>2 DEF Adds
  <1>25. l.inDst = FALSE
    BY <1>3 DEF IsLocals
  <1>26. QED
    BY <1>1, <1>16, <1>24, <1>25 DEF Turn, x
LEMMA EveryTurn ==
    ASSUME NEW c, NEW l, NEW prior, NEW row, Ready(c, l, prior, row)
    PROVE  Turn(c, l, prior, row)
  <1>1. row.startTz \in Int /\ row.endTz \in Int
    BY Situation
  <1>2. CASE ~Taken(c, prior)
    BY <1>2, TurnFirst
  <1>3. CASE Taken(c, prior) /\ l.inDst
    BY <1>3, TurnInside
  <1>4. CASE Taken(c, prior) /\ ~l.inDst /\ row.startTz - row.endTz = 0
    BY <1>4, TurnPlain
  <1>5. CASE Taken(c, prior) /\ ~l.inDst /\ row.startTz - row.endTz < 0
    BY <1>5, TurnEnters
  <1>6. CASE Taken(c, prior) /\ ~l.inDst /\ row.startTz - row.endTz > 0
    BY <1>6, TurnLeaves
  <1>7. QED
    BY <1>1, <1>2, <1>3, <1>4, <1>5, <1>6

-----------------------------------------------------------------------------
(* Readings that are added to those accepted before.                       *)

LEMMA JoinTypes ==
    ASSUME NEW rs \in Seq(Accepted), NEW ps \in Seq(Accepted)
    PROVE  /\ rs \o ps \in Seq(Accepted) /\ Len(rs \o ps) = Len(rs) + Len(ps)
           /\ DOMAIN (rs \o ps) = 1..(Len(rs) + Len(ps))
           /\ \A i \in 1..Len(rs) : (rs \o ps)[i] = rs[i]
           /\ \A i \in 1..Len(ps) : (rs \o ps)[Len(rs) + i] = ps[i]
           /\ Len(rs) \in Nat /\ Len(ps) \in Nat
           /\ DOMAIN rs = 1..Len(rs) /\ DOMAIN ps = 1..Len(ps)
           /\ \A i \in DOMAIN rs : rs[i] \in Accepted
           /\ \A i \in DOMAIN ps : ps[i] \in Accepted
  OBVIOUS

(* An element of the whole is one of the first or one of the second part.  *)
LEMMA JoinParts ==
    ASSUME NEW rs \in Seq(Accepted), NEW ps \in Seq(Accepted), NEW i \in DOMAIN (rs \o ps)
    PROVE  IF i <= Len(rs)
           THEN i \in DOMAIN rs /\ (rs \o ps)[i] = rs[i]
           ELSE i - Len(rs) \in DOMAIN ps /\ (rs \o ps)[i] = ps[i - Len(rs)]
  <1>1. /\ i \in 1..(Len(rs) + Len(ps)) /\ Len(rs) \in Nat /\ Len(ps) \in Nat
        /\ DOMAIN rs = 1..Len(rs) /\ DOMAIN ps = 1..Len(ps)
    BY JoinTypes
  <1>2. CASE i <= Len(rs)
    BY <1>1, <1>2, JoinTypes
  <1>3. CASE ~(i <= Len(rs))
    <2>1. i - Len(rs) \in 1..Len(ps) /\ Len(rs) + (i - Len(rs)) = i
      BY <1>1, <1>3
    <2>2. (rs \o ps)[Len(rs) + (i - Len(rs))] = ps[i - Len(rs)]
      BY <2>1, JoinTypes
    <2>3. QED
      BY <1>1, <1>3, <2>1, <2>2
  <1>4. QED
    BY <1>2, <1>3

LEMMA InLineAppended ==
    ASSUME NEW rs \in Seq(Accepted), NEW ps \in Seq(Accepted),
           NEW a \in Int, NEW b \in Int, NEW e \in Int, a <= b, b <= e,
           InLine(rs, a, b), InLine(ps, b, e)
    PROVE  InLine(rs \o ps, a, e)
  <1> DEFINE all == rs \o ps
  <1>1. /\ \A i \in DOMAIN rs : Between(rs[i], a, b) /\ rs[i].start \in Int /\ rs[i].end \in Int
        /\ \A i \in DOMAIN ps : Between(ps[i], b, e) /\ ps[i].start \in Int /\ ps[i].end \in Int
    <2>1. \A r \in Accepted : r.start \in Int /\ r.end \in Int
      BY DEF Accepted
    <2>2. QED
      BY <2>1, JoinTypes DEF InLine
  <1>2. Len(rs) \in Nat /\ \A i \in DOMAIN all : i \in Int
    BY JoinTypes
  <1>3. ASSUME NEW i \in DOMAIN all
        PROVE  /\ Between(all[i], a, e) /\ all[i].start \in Int /\ all[i].end \in Int
               /\ i <= Len(rs) => all[i].end <= b
               /\ ~(i <= Len(rs)) => b <= all[i].start
    <2>1. CASE i <= Len(rs)
      <3>1. i \in DOMAIN rs /\ all[i] = rs[i]
        BY <2>1, JoinParts
      <3> HIDE DEF all
      <3>2. QED
        BY <1>1, <2>1, <3>1 DEF Between
    <2>2. CASE ~(i <= Len(rs))
      <3>1. i - Len(rs) \in DOMAIN ps /\ all[i] = ps[i - Len(rs)]
        BY <2>2, JoinParts
      <3> HIDE DEF all
      <3>2. QED
        BY <1>1, <2>2, <3>1 DEF Between
    <2>3. QED
      BY <2>1, <2>2
  <1>4. ASSUME NEW i \in DOMAIN all, NEW j \in DOMAIN all, i < j
        PROVE  all[i].end <= all[j].start
    <2>1. CASE j <= Len(rs)
      <3>1. i \in DOMAIN rs /\ all[i] = rs[i] /\ j \in DOMAIN rs /\ all[j] = rs[j]
        BY <1>2, <1>4, <2>1, JoinParts
      <3>2. QED
        BY <1>4, <3>1 DEF InLine
    <2>2. CASE i <= Len(rs) /\ ~(j <= Len(rs))
      <3>1. /\ all[i].end <= b /\ b <= all[j].start /\ all[i].end \in Int
            /\ all[j].start \in Int
        BY <1>3, <2>2
      <3>2. QED
        BY <3>1
    <2>3. CASE ~(i <= Len(rs)) /\ ~(j <= Len(rs))
      <3>1. /\ i - Len(rs) \in DOMAIN ps /\ all[i] = ps[i - Len(rs)]
            /\ j - Len(rs) \in DOMAIN ps /\ all[j] = ps[j - Len(rs)]
        BY <2>3, JoinParts
      <3>2. i - Len(rs) < j - Len(rs)
        BY <1>2, <1>4
      <3>3. QED
        BY <3>1, <3>2 DEF InLine
    <2>4. QED
      BY <1>2, <1>4, <2>1, <2>2, <2>3
  <1>5. QED
    BY <1>3, <1>4 DEF InLine

LEMMA JoinedAppended ==
    ASSUME NEW rs \in Seq(Accepted), NEW ps \in Seq(Accepted), NEW b, NEW e,
           Joined(rs, b), Joined(ps, e), Begun(ps, b, e)
    PROVE  Joined(rs \o ps, e)
  <1> DEFINE all == rs \o ps
  <1>0. /\ Len(rs) \in Nat /\ Len(ps) \in Nat /\ DOMAIN rs = 1..Len(rs) /\ DOMAIN ps = 1..Len(ps)
        /\ Len(all) = Len(rs) + Len(ps)
        /\ \A i \in 1..Len(rs) : all[i] = rs[i]
        /\ \A i \in 1..Len(ps) : all[Len(rs) + i] = ps[i]
    BY JoinTypes
  <1>1. CASE ps = <<>>
    <2>1. all = rs /\ b = e
      BY <1>1 DEF Begun
    <2>2. QED
      BY <2>1
  <1>2. CASE ps # <<>>
    <2>1. Len(ps) > 0
      BY <1>0, <1>2
    <2>2. ASSUME NEW i \in 1..(Len(all) - 1)
          PROVE  Meets(all[i].end, all[i + 1].start)
      <3>1. CASE i < Len(rs)
        <4>1. i \in 1..(Len(rs) - 1) /\ i \in 1..Len(rs) /\ i + 1 \in 1..Len(rs)
          BY <1>0, <3>1
        <4>2. all[i] = rs[i] /\ all[i + 1] = rs[i + 1]
          BY <1>0, <4>1
        <4>3. QED
          BY <4>1, <4>2 DEF Joined
      <3>2. CASE i = Len(rs)
        <4>1. Len(rs) \in 1..Len(rs) /\ 1 \in 1..Len(ps) /\ rs # <<>>
          BY <1>0, <2>1, <3>2
        <4>2. all[i] = rs[Len(rs)] /\ all[i + 1] = ps[1]
          BY <1>0, <3>2, <4>1
        <4>3. Meets(rs[Len(rs)].end, b) /\ b = ps[1].start
          BY <1>2, <4>1 DEF Joined, Begun
        <4>4. QED
          BY <4>2, <4>3
      <3>3. CASE i > Len(rs)
        <4> DEFINE k == i - Len(rs)
        <4>1. /\ k \in 1..(Len(ps) - 1) /\ k \in 1..Len(ps) /\ k + 1 \in 1..Len(ps)
              /\ Len(rs) + k = i /\ Len(rs) + (k + 1) = i + 1
          BY <1>0, <3>3
        <4> HIDE DEF k
        <4>2. all[Len(rs) + k] = ps[k] /\ all[Len(rs) + (k + 1)] = ps[k + 1]
          BY <1>0, <4>1
        <4>3. Meets(ps[k].end, ps[k + 1].start)
          BY <4>1 DEF Joined
        <4>4. QED
          BY <4>1, <4>2, <4>3
      <3>4. i \in Int /\ Len(rs) \in Int
        BY <1>0
      <3>5. i < Len(rs) \/ i = Len(rs) \/ i > Len(rs)
        BY <3>4
      <3>6. QED
        BY <3>1, <3>2, <3>3, <3>5
    <2>3. all[Len(all)] = ps[Len(ps)]
      BY <1>0, <2>1
    <2>4. Meets(ps[Len(ps)].end, e)
      BY <1>2 DEF Joined
    <2>5. QED
      BY <2>2, <2>3, <2>4 DEF Joined
  <1>3. QED
    BY <1>1, <1>2

LEMMA BegunAppended ==
    ASSUME NEW rs \in Seq(Accepted), NEW ps \in Seq(Accepted), NEW a, NEW b, NEW e,
           Begun(rs, a, b), Begun(ps, b, e)
    PROVE  Begun(rs \o ps, a, e)
  <1> DEFINE all == rs \o ps
  <1>1. CASE rs = <<>>
    <2>1. all = ps /\ a = b
      BY <1>1 DEF Begun
    <2>2. QED
      BY <2>1
  <1>2. CASE rs # <<>>
    <2>1. all # <<>> /\ all[1] = rs[1]
      BY <1>2
    <2>2. QED
      BY <1>2, <2>1 DEF Begun
  <1>3. QED
    BY <1>1, <1>2
-----------------------------------------------------------------------------
(* The invariant holds at the start and is kept by every action.           *)

LEMMA TimeInit ==
    ASSUME Init
    PROVE  TimeInv
  <1>1. /\ meter.end = [t |-> E0, off |-> 0] /\ meter.previousEnd = E0
        /\ readings = {} /\ pc = "idle" /\ cfg \in Configs /\ last = NoRow
    BY DEF Init
  <1>2. DOMAIN loop = LocalFields /\ loop.n = 0 /\ loop.result = <<>>
    BY DEF Init, LocalFields
  <1>3. /\ Remembers(last, meter.end.t, meter.end.off, meter.previousEnd)
        /\ Counted(cfg, last, meter.reading)
    BY <1>1 DEF Remembers, Counted
  <1>4. \A a, b : InLine(<<>>, a, b) /\ Joined(<<>>, b)
    BY DEF InLine, Joined
  <1>5. RestInv
    BY <1>1, <1>2, <1>3, <1>4 DEF RestInv
  <1>6. QED
    BY <1>1, <1>5 DEF TimeInv

LEMMA RememberedTypes ==
    ASSUME NEW row, NEW end, NEW off, NEW prevEnd, Remembers(row, end, off, prevEnd)
    PROVE  /\ end \in Nat /\ prevEnd \in Int
           /\ Frontier(end, prevEnd) \in Int /\ 0 <= Frontier(end, prevEnd)
           /\ row = NoRow => end = E0 /\ prevEnd = E0
  <1>1. CASE row = NoRow
    BY <1>1 DEF Remembers, Frontier, E0
  <1>2. CASE row # NoRow
    <2>1. /\ row \in Rows /\ end = row.end /\ prevEnd \in Int
          /\ prevEnd # E0 => row.end <= prevEnd
      BY <1>2 DEF Remembers
    <2>2. QED
      BY <1>2, <2>1, RowTypes DEF Frontier
  <1>3. QED
    BY <1>1, <1>2

LEMMA Empty ==
    ASSUME NEW a, NEW b
    PROVE  InLine(<<>>, a, b) /\ Joined(<<>>, b) /\ Begun(<<>>, a, a)
  BY DEF InLine, Joined, Begun

LEMMA TimeStart ==
    ASSUME SteadyMeter, TimeInv, NEW c \in Configs, StartBatch(c)
    PROVE  TimeInv'
  <1>1. /\ pc = "idle" /\ pc' = "loop" /\ cfg' = c /\ UNCHANGED <<meter, readings, last>>
        /\ MayFollow(cfg, c) /\ c.honorDst /\ cfg \in Configs
    BY DEF StartBatch, SteadyMeter, TimeInv, RestInv
  <1>2. RestInv /\ meter.end = [t |-> meter.end.t, off |-> meter.end.off]
    BY <1>1 DEF TimeInv
  <1>3. /\ loop'.n = 0 /\ loop'.from = last /\ loop'.reading = meter.reading
        /\ loop'.prev.end = meter.end.t /\ loop'.prevTz = meter.end.off
        /\ loop'.endTz = meter.end /\ loop'.result = <<>>
        /\ ~loop'.splitDst /\ ~loop'.inDstStop /\ DOMAIN loop' = LocalFields
        /\ loop'.inDst <=> c.honorDst /\ meter.previousEnd # E0
        /\ loop'.prevEnd = IF c.honorDst THEN meter.previousEnd ELSE Invalid
    BY DEF StartBatch, LocalFields
  <1>4. loop'.prevEnd = meter.previousEnd /\ (loop'.inDst <=> meter.previousEnd # E0)
    BY <1>1, <1>3
  <1>5. cfg.cumulative = c.cumulative
    BY <1>1 DEF SteadyMeter
  <1>6. /\ Remembers(last, meter.end.t, meter.end.off, meter.previousEnd)
        /\ Counted(c, last, meter.reading)
    BY <1>2, <1>5 DEF RestInv, Counted
  <1> DEFINE u == Frontier(meter.end.t, meter.previousEnd)
  <1>7. u \in Int
    BY <1>6, RememberedTypes
  <1>8. MeterUntil' = u /\ LoopUntil' = u /\ MeterUntil = u
    BY <1>1, <1>3, <1>4 DEF MeterUntil, LoopUntil
  <1> HIDE DEF u
  <1>9. IsLocals(loop')
    BY <1>2, <1>3, <1>4 DEF IsLocals
  <1>10. LoopInv'
    <2>1. InLine(<<>>, u, u) /\ Joined(<<>>, u) /\ Begun(<<>>, u, u)
      BY Empty
    <2>2. 0 <= MaxRows
      BY BoundsAssumption
    <2>3. QED
      BY <1>1, <1>3, <1>4, <1>6, <1>7, <1>8, <1>9, <2>1, <2>2 DEF LoopInv
  <1>11. \A r \in readings' : /\ DOMAIN r = {"start", "end", "val"}
                              /\ r.start \in Int /\ r.end \in Int /\ r.end <= MeterUntil'
                              /\ \A i \in DOMAIN loop'.result : r.end <= loop'.result[i].start
    BY <1>1, <1>3, <1>8 DEF TimeInv
  <1>12. QED
    BY <1>1, <1>2, <1>10, <1>11 DEF TimeInv
(* A row that is processed is one the turn is proved for.                  *)
LEMMA RowReady ==
    ASSUME SteadyMeter, TimeInv, NEW row \in Rows, ProcessRow(row)
    PROVE  /\ Ready(cfg, loop, last, row) /\ LoopInv
           /\ loop' = Step(cfg, Examined(cfg, loop, row), row)
           /\ pc = "loop" /\ pc' = "loop" /\ last' = row /\ loop.n < MaxRows
           /\ UNCHANGED <<meter, readings, cfg>>
  <1>1. /\ pc = "loop" /\ loop.n < MaxRows /\ Delivers(cfg, loop.n, last, row) /\ ~row.bad
        /\ loop' = Step(cfg, Examined(cfg, loop, row), row)
        /\ last' = row /\ UNCHANGED <<meter, readings, pc, cfg>>
    BY DEF ProcessRow, Delivered
  <1>2. LoopInv
    BY <1>1 DEF TimeInv
  <1>3. /\ IsLocals(loop) /\ loop.n \in Nat /\ cfg \in Configs
        /\ Remembers(last, loop.prev.end, loop.prevTz, loop.prevEnd)
        /\ Counted(cfg, last, loop.reading)
    BY <1>2 DEF LoopInv, IsLocals
  <1>4. last \in Rows \cup {NoRow}
    BY <1>3 DEF Remembers
  <1>5. loop.n \in 0..MaxRows
    BY <1>1, <1>3, BoundsAssumption
  <1>6. Steady(cfg, loop.n, last, row) /\ cfg.honorDst
    BY <1>1, <1>3, <1>4, <1>5 DEF SteadyMeter
  <1>7. last = NoRow => loop.n = 0
    BY <1>2 DEF LoopInv
  <1>8. QED
    BY <1>1, <1>2, <1>3, <1>4, <1>6, <1>7 DEF Ready

LEMMA TimeRow ==
    ASSUME SteadyMeter, TimeInv, NEW row \in Rows, ProcessRow(row)
    PROVE  /\ TimeInv'
           /\ (\A c \in Configs : c.frequency <= Saving) /\ RatePreserved => RatePreserved'
           /\ ~First(loop) /\ DroppedRow => RepeatStart <= last'.end /\ last'.end <= RepeatEnd
  <1>1. /\ Ready(cfg, loop, last, row) /\ LoopInv
        /\ loop' = Step(cfg, Examined(cfg, loop, row), row)
        /\ pc = "loop" /\ pc' = "loop" /\ last' = row /\ loop.n < MaxRows
        /\ UNCHANGED <<meter, readings, cfg>>
    BY RowReady
  <1>2. PICK ps, inDst, prevEnd :
            /\ Adds(cfg, loop, last, row, ps, inDst, prevEnd)
            /\ Turned(loop, loop', row, loop.result \o ps, inDst, prevEnd)
    BY <1>1, EveryTurn DEF Turn
  <1> DEFINE u == MeterUntil
             a == LoopUntil
             b == Frontier(row.end, prevEnd)
             rs == loop.result
  <1>3. /\ loop'.n = loop.n + 1 /\ loop'.from = loop.from /\ loop'.reading = row.value
        /\ loop'.prev.end = row.end /\ loop'.prevTz = row.endTz
        /\ loop'.endTz = [t |-> row.end, off |-> row.endTz]
        /\ ~loop'.splitDst /\ ~loop'.inDstStop /\ DOMAIN loop' = LocalFields
        /\ loop'.result = rs \o ps /\ loop'.inDst = inDst /\ loop'.prevEnd = prevEnd
    BY <1>2 DEF Turned
  <1>4. /\ ps \in Seq(Accepted) /\ inDst \in BOOLEAN /\ (inDst <=> prevEnd # E0)
        /\ Remembers(row, row.end, row.endTz, prevEnd)
        /\ a <= b /\ InLine(ps, a, b)
        /\ cfg.frequency = 0 => Joined(ps, b) /\ (last # NoRow => Begun(ps, a, b))
        /\ cfg.frequency <= Saving => \A i \in DOMAIN ps : Rated(cfg, ps[i])
        /\ ps = <<>> => last = NoRow \/ (RepeatStart <= row.end /\ row.end <= RepeatEnd)
    BY <1>2 DEF Adds, LoopUntil
  <1>5. /\ rs \in Seq(Accepted) /\ loop.n \in Nat /\ cfg \in Configs
        /\ last = NoRow => loop.n = 0 /\ loop.from = NoRow /\ rs = <<>>
        /\ Remembers(loop.from, meter.end.t, meter.end.off, meter.previousEnd)
        /\ Counted(cfg, loop.from, meter.reading)
        /\ u <= a /\ InLine(rs, u, a)
        /\ cfg.frequency = 0 =>
            /\ Joined(rs, a)
            /\ loop.from # NoRow => Begun(rs, u, a)
        /\ Remembers(last, loop.prev.end, loop.prevTz, loop.prevEnd)
    BY <1>1 DEF LoopInv, IsLocals
  <1>6. u \in Int /\ a \in Int /\ b \in Int
    BY <1>4, <1>5, RememberedTypes DEF MeterUntil, LoopUntil
  <1>7. MeterUntil' = u /\ LoopUntil' = b
    BY <1>1, <1>3 DEF MeterUntil, LoopUntil
  <1>8. PICK all \in Seq(Accepted) : all = rs \o ps
    BY <1>4, <1>5, JoinTypes
  <1> HIDE DEF u, a, b, rs
  <1>9. InLine(all, u, b)
    BY <1>4, <1>5, <1>6, <1>8, InLineAppended
  <1>10. cfg.frequency = 0 => Joined(all, b) /\ (loop.from # NoRow => Begun(all, u, b))
    <2>1. SUFFICES ASSUME cfg.frequency = 0
                   PROVE  Joined(all, b) /\ (loop.from # NoRow => Begun(all, u, b))
      OBVIOUS
    <2>2. CASE last = NoRow
      <3>1. all = ps /\ loop.from = NoRow
        BY <1>4, <1>5, <1>8, <2>2
      <3>2. QED
        BY <1>4, <2>1, <3>1
    <2>3. CASE last # NoRow
      <3>1. Joined(rs, a) /\ Joined(ps, b) /\ Begun(ps, a, b)
        BY <1>4, <1>5, <2>1, <2>3
      <3>2. Joined(all, b)
        BY <1>4, <1>5, <1>8, <3>1, JoinedAppended
      <3>3. ASSUME loop.from # NoRow PROVE Begun(all, u, b)
        BY <1>4, <1>5, <1>8, <2>1, <3>1, <3>3, BegunAppended
      <3>4. QED
        BY <3>2, <3>3
    <2>4. QED
      BY <2>2, <2>3
  <1>11. row.value \in Int /\ row \in Rows /\ row # NoRow
    BY RowTypes, YearAssumption
  <1>12. Counted(cfg, row, row.value)
    BY <1>1 DEF Counted, Ready, Steady
  <1>13. IsLocals(loop')
    BY <1>3, <1>4, <1>5, <1>8 DEF IsLocals, rs
  <1>14. LoopInv'
    <2>1. loop'.n <= MaxRows /\ loop'.result = all
      BY <1>1, <1>3, <1>5, <1>8, BoundsAssumption DEF rs
    <2>2. u <= b
      BY <1>4, <1>5, <1>6
    <2>3. QED
      BY <1>1, <1>3, <1>4, <1>5, <1>7, <1>9, <1>10, <1>11, <1>12, <1>13, <2>1, <2>2 DEF LoopInv
  <1>15. \A r \in readings' : /\ DOMAIN r = {"start", "end", "val"}
                              /\ r.start \in Int /\ r.end \in Int /\ r.end <= MeterUntil'
                              /\ \A i \in DOMAIN loop'.result : r.end <= loop'.result[i].start
    <2>1. SUFFICES ASSUME NEW r \in readings
                   PROVE  /\ DOMAIN r = {"start", "end", "val"}
                          /\ r.start \in Int /\ r.end \in Int /\ r.end <= u
                          /\ \A i \in DOMAIN all : r.end <= all[i].start
      BY <1>1, <1>3, <1>7, <1>8 DEF rs
    <2>2. /\ DOMAIN r = {"start", "end", "val"} /\ r.start \in Int /\ r.end \in Int
          /\ r.end <= u
      BY DEF TimeInv, u
    <2>3. ASSUME NEW i \in DOMAIN all
          PROVE  r.end <= all[i].start
      <3>1. all[i].start \in Int /\ u <= all[i].start
        <4>1. all[i] \in Accepted
          BY <1>8
        <4>2. QED
          BY <1>9, <4>1 DEF InLine, Between, Accepted
      <3>2. QED
        BY <1>6, <2>2, <3>1
    <2>4. QED
      BY <2>2, <2>3
  <1>16. TimeInv'
    <2>1. meter' = meter
      BY <1>1
    <2>2. QED
      BY <1>1, <1>14, <1>15, <2>1 DEF TimeInv
  <1>17. ASSUME \A c \in Configs : c.frequency <= Saving, RatePreserved
         PROVE  RatePreserved'
    <2>1. \A i \in DOMAIN ps : Rated(cfg, ps[i])
      BY <1>4, <1>5, <1>17
    <2>2. \A i \in DOMAIN rs : Rated(cfg, rs[i])
      BY <1>17 DEF RatePreserved, Rated, rs
    <2>3. ASSUME NEW i \in DOMAIN all
          PROVE  Rated(cfg, all[i])
      BY <1>4, <1>5, <1>8, <2>1, <2>2, JoinParts
    <2>4. loop'.result = all /\ cfg' = cfg
      BY <1>1, <1>3, <1>8 DEF rs
    <2>5. QED
      BY <2>3, <2>4 DEF RatePreserved, Rated
  <1>18. ASSUME ~First(loop), DroppedRow
         PROVE  RepeatStart <= last'.end /\ last'.end <= RepeatEnd
    <2>1. rs \o ps = rs
      BY <1>3, <1>18 DEF DroppedRow, rs
    <2>2. Len(rs) + Len(ps) = Len(rs) /\ Len(rs) \in Nat /\ Len(ps) \in Nat
      BY <1>4, <1>5, <2>1, JoinTypes
    <2>3. Len(ps) = 0
      BY <2>2
    <2>4. ps = <<>>
      BY <1>4, <2>3
    <2>5. last # NoRow
      BY <1>5, <1>18 DEF First, Remembers
    <2>6. QED
      BY <1>1, <1>4, <2>4, <2>5
  <1>19. QED
    BY <1>16, <1>17, <1>18
(* The upload ends without an update of the meter.                         *)
LEMMA TimeGivenUp ==
    ASSUME TimeInv, pc = "loop", GiveUp
    PROVE  TimeInv' /\ loop'.result = <<>>
  <1>1. /\ LoopInv /\ pc' = "idle" /\ last' = loop.from /\ UNCHANGED <<meter, readings, cfg>>
    BY DEF TimeInv, GiveUp
  <1>2. DOMAIN loop' = LocalFields /\ loop'.n = loop.n /\ loop'.result = <<>>
    BY <1>1 DEF GiveUp, LoopInv, IsLocals, LocalFields
  <1>3. MeterUntil' = MeterUntil
    BY <1>1 DEF MeterUntil
  <1>4. InLine(<<>>, 0, MeterUntil) /\ Joined(<<>>, MeterUntil)
    BY Empty
  <1>5. RestInv'
    <2>1. /\ loop.n \in Nat /\ cfg \in Configs
          /\ Remembers(loop.from, meter.end.t, meter.end.off, meter.previousEnd)
          /\ Counted(cfg, loop.from, meter.reading)
      BY <1>1 DEF LoopInv, IsLocals
    <2>2. QED
      BY <1>1, <1>2, <1>3, <1>4, <2>1 DEF RestInv
  <1>6. QED
    BY <1>1, <1>2, <1>3, <1>5 DEF TimeInv

LEMMA TimeFinish ==
    ASSUME TimeInv, FinishBatch
    PROVE  TimeInv'
  <1>1. /\ LoopInv /\ pc = "loop" /\ pc' = "insert" /\ UNCHANGED <<readings, cfg, loop, last>>
        /\ meter' = [reading |-> loop.reading, start |-> loop.startTz, end |-> loop.endTz,
                     previousEnd |-> loop.prevEnd]
    BY DEF TimeInv, FinishBatch
  <1>2. loop.endTz = [t |-> loop.prev.end, off |-> loop.prevTz]
    BY <1>1 DEF LoopInv, IsLocals
  <1>3. /\ meter'.end.t = loop.prev.end /\ meter'.end.off = loop.prevTz
        /\ meter'.previousEnd = loop.prevEnd /\ meter'.reading = loop.reading
        /\ meter'.end = [t |-> meter'.end.t, off |-> meter'.end.off]
    BY <1>1, <1>2
  <1>4. MeterUntil' = LoopUntil
    BY <1>3 DEF MeterUntil, LoopUntil
  <1>5. /\ MeterUntil \in Int /\ 0 <= MeterUntil /\ LoopUntil \in Int /\ MeterUntil <= LoopUntil
    BY <1>1, RememberedTypes DEF LoopInv, MeterUntil, LoopUntil
  <1>6. InLine(loop.result, 0, LoopUntil)
    <2>1. /\ InLine(loop.result, MeterUntil, LoopUntil) /\ loop.result \in Seq(Accepted)
      BY <1>1 DEF LoopInv, IsLocals
    <2>2. ASSUME NEW i \in DOMAIN loop.result
          PROVE  Between(loop.result[i], 0, LoopUntil)
      <3>1. loop.result[i] \in Accepted
        BY <2>1
      <3>2. QED
        BY <1>5, <2>1, <3>1 DEF InLine, Between, Accepted
    <2>3. QED
      BY <2>1, <2>2 DEF InLine
  <1>7. RestInv'
    <2>1. /\ DOMAIN loop = LocalFields /\ loop.n \in Nat /\ loop.result \in Seq(Accepted)
          /\ cfg \in Configs /\ Remembers(last, loop.prev.end, loop.prevTz, loop.prevEnd)
          /\ Counted(cfg, last, loop.reading)
          /\ cfg.frequency = 0 => Joined(loop.result, LoopUntil)
      BY <1>1 DEF LoopInv, IsLocals
    <2>2. QED
      BY <1>1, <1>3, <1>4, <1>6, <2>1 DEF RestInv
  <1>8. \A r \in readings : /\ DOMAIN r = {"start", "end", "val"}
                            /\ r.start \in Int /\ r.end \in Int /\ r.end <= LoopUntil
                            /\ \A i \in DOMAIN loop.result : r.end <= loop.result[i].start
    <2>1. \A r \in readings : /\ DOMAIN r = {"start", "end", "val"}
                            /\ r.start \in Int /\ r.end \in Int /\ r.end <= MeterUntil
                              /\ \A i \in DOMAIN loop.result : r.end <= loop.result[i].start
      BY <1>1 DEF TimeInv
    <2>2. QED
      BY <1>5, <2>1
  <1>9. QED
    BY <1>1, <1>3, <1>4, <1>7, <1>8 DEF TimeInv

(* Every stored reading has its times from one stored before or from one   *)
(* that was accepted.                                                      *)
LEMMA StoredTimes ==
    ASSUME NEW rs, NEW kept \in SUBSET DOMAIN rs, NEW db, NEW update,
           \A r \in db : DOMAIN r = {"start", "end", "val"},
           NEW r \in Stored(rs, kept, db, update)
    PROVE  /\ DOMAIN r = {"start", "end", "val"}
           /\ \/ \E old \in db : r.start = old.start /\ r.end = old.end
              \/ \E i \in DOMAIN rs : r.start = rs[i].start /\ r.end = rs[i].end
  <1> DEFINE at(t) == {i \in kept : rs[i].start = t}
             isNew(i) == /\ \A q \in db : q.start # rs[i].start
                         /\ \A j \in at(rs[i].start) : i <= j
             row(i) == [start |-> rs[i].start, end |-> rs[i].end, val |-> rs[i].val]
             latest(t) == CHOOSE i \in at(t) : \A j \in at(t) : j <= i
             written(q) == IF update /\ at(q.start) # {}
                           THEN [q EXCEPT !.val = rs[latest(q.start)].val] ELSE q
  <1>1. PICK q \in db \cup {row(i) : i \in {k \in kept : isNew(k)}} : r = written(q)
    BY DEF Stored
  <1>0. DOMAIN q = {"start", "end", "val"}
    BY <1>1
  <1>2. r.start = q.start /\ r.end = q.end /\ DOMAIN r = {"start", "end", "val"}
    <2>1. CASE r = q
      BY <1>0, <2>1
    <2>2. CASE r = [q EXCEPT !.val = rs[latest(q.start)].val]
      BY <1>0, <2>2
    <2>3. QED
      BY <1>1, <2>1, <2>2
  <1>3. CASE q \in db
    BY <1>2, <1>3
  <1>4. CASE q \in {row(i) : i \in {k \in kept : isNew(k)}}
    <2>1. PICK i \in kept : q = row(i)
      BY <1>4
    <2>2. q.start = rs[i].start /\ q.end = rs[i].end /\ i \in DOMAIN rs
      BY <2>1
    <2>3. QED
      BY <1>2, <2>2
  <1>5. QED
    BY <1>1, <1>3, <1>4
LEMMA TimeInsert ==
    ASSUME TimeInv, InsertReadings
    PROVE  TimeInv' /\ loop'.result = <<>>
  <1> DEFINE kept == Kept(cfg, loop.result)
  <1>1. /\ RestInv /\ pc = "insert" /\ pc' = "idle" /\ UNCHANGED <<meter, cfg, last>>
        /\ readings' = readings \/ readings' = Stored(loop.result, kept, readings, cfg.update)
    BY DEF TimeInv, InsertReadings
  <1>2. DOMAIN loop' = LocalFields /\ loop'.n = loop.n /\ loop'.result = <<>>
    <2>1. DOMAIN loop = LocalFields
      BY <1>1 DEF RestInv
    <2>2. PICK ok : loop' = [loop EXCEPT !.result = <<>>, !.allOk = ok]
      BY DEF InsertReadings
    <2>3. QED
      BY <2>1, <2>2 DEF LocalFields
  <1>3. MeterUntil' = MeterUntil
    BY <1>1 DEF MeterUntil
  <1>4. kept \in SUBSET DOMAIN loop.result
    BY DEF Kept
  <1>5. /\ MeterUntil \in Int
        /\ \A r \in readings : /\ DOMAIN r = {"start", "end", "val"}
                              /\ r.start \in Int /\ r.end \in Int /\ r.end <= MeterUntil
    BY <1>1, RememberedTypes DEF TimeInv, RestInv, MeterUntil
  <1>6. \A i \in DOMAIN loop.result :
            /\ loop.result[i].start \in Int /\ loop.result[i].end \in Int
            /\ loop.result[i].end <= MeterUntil
    <2>1. loop.result \in Seq(Accepted) /\ InLine(loop.result, 0, MeterUntil)
      BY <1>1 DEF RestInv
    <2>2. \A i \in DOMAIN loop.result : loop.result[i] \in Accepted
      BY <2>1
    <2>3. QED
      BY <2>1, <2>2 DEF InLine, Between, Accepted
  <1> HIDE DEF kept
  <1>7. ASSUME NEW r \in readings'
        PROVE  /\ DOMAIN r = {"start", "end", "val"}
               /\ r.start \in Int /\ r.end \in Int /\ r.end <= MeterUntil
    <2>1. CASE r \in readings
      BY <1>5, <2>1
    <2>2. CASE r \in Stored(loop.result, kept, readings, cfg.update)
      <3>1. /\ DOMAIN r = {"start", "end", "val"}
            /\ \/ \E old \in readings : r.start = old.start /\ r.end = old.end
               \/ \E i \in DOMAIN loop.result :
                      r.start = loop.result[i].start /\ r.end = loop.result[i].end
        BY <1>4, <1>5, <2>2, StoredTimes
      <3>2. QED
        BY <1>5, <1>6, <3>1
    <2>3. QED
      BY <1>1, <2>1, <2>2
  <1>8. InLine(<<>>, 0, MeterUntil) /\ Joined(<<>>, MeterUntil)
    BY Empty
  <1>9. RestInv'
    BY <1>1, <1>2, <1>3, <1>8 DEF RestInv
  <1>10. QED
    BY <1>1, <1>2, <1>3, <1>7, <1>9 DEF TimeInv

LEMMA TimeCrash ==
    ASSUME TimeInv, CrashBeforeInsert
    PROVE  TimeInv' /\ loop'.result = <<>>
  <1>1. /\ RestInv /\ pc' = "idle" /\ UNCHANGED <<meter, readings, cfg, last>>
    BY DEF TimeInv, CrashBeforeInsert
  <1>2. DOMAIN loop' = LocalFields /\ loop'.n = loop.n /\ loop'.result = <<>>
    BY <1>1 DEF CrashBeforeInsert, RestInv, LocalFields
  <1>3. MeterUntil' = MeterUntil
    BY <1>1 DEF MeterUntil
  <1>4. InLine(<<>>, 0, MeterUntil) /\ Joined(<<>>, MeterUntil)
    BY Empty
  <1>5. RestInv'
    BY <1>1, <1>2, <1>3, <1>4 DEF RestInv
  <1>6. QED
    BY <1>1, <1>2, <1>3, <1>5 DEF TimeInv

LEMMA TimeStays ==
    ASSUME TimeInv, UNCHANGED vars
    PROVE  TimeInv'
  BY DEF TimeInv, LoopInv, RestInv, IsLocals, MeterUntil, LoopUntil, vars

(* What a step does to the accepted readings and to the number of rows.    *)
LEMMA TimeNext ==
    ASSUME SteadyMeter, TimeInv, [Next]_vars
    PROVE  /\ TimeInv'
           /\ (\A c \in Configs : c.frequency <= Saving) /\ RatePreserved => RatePreserved'
           /\ (pc = "loop" /\ cfg.honorDst /\ DroppedRow /\ ~First(loop))
                => RepeatStart <= last'.end /\ last'.end <= RepeatEnd
  <1>1. pc = "loop" => loop.n \in Nat
    BY DEF TimeInv, LoopInv, IsLocals
  <1>2. loop'.result = <<>> => RatePreserved'
    BY DEF RatePreserved
  <1>3. CASE \E c \in Configs : StartBatch(c)
    <2>1. PICK c \in Configs : StartBatch(c)
      BY <1>3
    <2>2. pc = "idle" /\ loop'.result = <<>>
      BY <2>1 DEF StartBatch
    <2>3. QED
      BY <1>2, <2>1, <2>2, TimeStart
  <1>4. CASE \E row \in Rows : ProcessRow(row)
    BY <1>4, TimeRow
  <1>5. CASE (\E row \in Rows : RejectBatch(row)) \/ AbandonBatch \/ CrashInLoop
    <2>1. pc = "loop" /\ GiveUp
      BY <1>5 DEF RejectBatch, AbandonBatch, CrashInLoop, Delivered
    <2>2. TimeInv' /\ loop'.result = <<>>
      BY <2>1, TimeGivenUp
    <2>3. loop'.n = loop.n
      BY <2>1 DEF GiveUp, TimeInv, LoopInv, IsLocals, LocalFields
    <2>4. ~DroppedRow
      BY <1>1, <2>1, <2>3 DEF DroppedRow
    <2>5. QED
      BY <1>2, <2>2, <2>4
  <1>6. CASE FinishBatch
    <2>1. loop' = loop /\ cfg' = cfg /\ pc = "loop"
      BY <1>6 DEF FinishBatch
    <2>2. ~DroppedRow
      BY <1>1, <2>1 DEF DroppedRow
    <2>3. RatePreserved => RatePreserved'
      BY <2>1 DEF RatePreserved
    <2>4. QED
      BY <1>6, <2>2, <2>3, TimeFinish
  <1>7. CASE InsertReadings
    <2>1. pc = "insert"
      BY <1>7 DEF InsertReadings
    <2>2. QED
      BY <1>2, <1>7, <2>1, TimeInsert
  <1>8. CASE CrashBeforeInsert
    <2>1. pc = "insert"
      BY <1>8 DEF CrashBeforeInsert
    <2>2. QED
      BY <1>2, <1>8, <2>1, TimeCrash
  <1>9. CASE UNCHANGED vars
    <2>1. loop' = loop /\ cfg' = cfg
      BY <1>9 DEF vars
    <2>2. pc = "loop" => ~DroppedRow
      BY <1>1, <2>1 DEF DroppedRow
    <2>3. RatePreserved => RatePreserved'
      BY <2>1 DEF RatePreserved
    <2>4. QED
      BY <1>9, <2>2, <2>3, TimeStays
  <1>10. QED
    BY <1>3, <1>4, <1>5, <1>6, <1>7, <1>8, <1>9 DEF Next

LEMMA InvTimes ==
    ASSUME TimeInv
    PROVE  TimesExact
  <1>1. CASE pc = "loop"
    <2>1. LoopInv
      BY <1>1 DEF TimeInv
    <2>2. /\ loop.result \in Seq(Accepted) /\ InLine(loop.result, MeterUntil, LoopUntil)
          /\ cfg.frequency = 0 =>
              /\ Joined(loop.result, LoopUntil)
              /\ loop.from # NoRow => Begun(loop.result, MeterUntil, LoopUntil)
          /\ Remembers(loop.from, meter.end.t, meter.end.off, meter.previousEnd)
      BY <2>1 DEF LoopInv, IsLocals
    <2>3. \A i \in DOMAIN loop.result : i \in Int
      BY <2>2
    <2>4. NoOverlap
      BY <2>2, <2>3 DEF NoOverlap, Disjoint, InLine, TimeInv
    <2>5. NoHole
      BY <1>1, <2>2 DEF NoHole, Joined, Begun, Remembers, MeterUntil, Frontier, Meets
    <2>6. QED
      BY <2>4, <2>5 DEF TimesExact
  <1>2. CASE pc # "loop"
    <2>1. RestInv
      BY <1>2 DEF TimeInv
    <2>2. /\ loop.result \in Seq(Accepted) /\ InLine(loop.result, 0, MeterUntil)
          /\ cfg.frequency = 0 => Joined(loop.result, MeterUntil)
      BY <2>1 DEF RestInv
    <2>3. \A i \in DOMAIN loop.result : i \in Int
      BY <2>2
    <2>4. NoOverlap
      BY <2>2, <2>3 DEF NoOverlap, Disjoint, InLine, TimeInv
    <2>5. NoHole
      BY <1>2, <2>2 DEF NoHole, Joined
    <2>6. QED
      BY <2>4, <2>5 DEF TimesExact
  <1>3. QED
    BY <1>1, <1>2
-----------------------------------------------------------------------------
(* For any year, zone, length of rows and way to cut them into batches,    *)
(* also when uploads are rejected or lost: the intervals stored for a      *)
(* meter that reports without a pause never overlap, and leave no hole but *)
(* the skipped hour (processData, inDst and splitDst, meter.previousEnd).  *)
THEOREM ClockExact ==
    ASSUME SteadyMeter
    PROVE  Spec => []TimesExact
  <1>1. Init => TimeInv
    BY TimeInit
  <1>2. TimeInv /\ [Next]_vars => TimeInv'
    BY TimeNext
  <1>3. TimeInv => TimesExact
    BY InvTimes
  <1>4. QED
    BY <1>1, <1>2, <1>3, PTL DEF Spec

(* They keep the energy of their rows, unless the meter's frequency is     *)
(* longer than the hour that is skipped (processData, prorated; with such  *)
(* a frequency useMeterFrequency moves the start of a row that is split).  *)
THEOREM RatesKept ==
    ASSUME SteadyMeter, \A c \in Configs : c.frequency <= Saving
    PROVE  Spec => []RatePreserved
  <1>1. Init => TimeInv /\ RatePreserved
    BY TimeInit DEF Init, RatePreserved
  <1>2. TimeInv /\ RatePreserved /\ [Next]_vars => TimeInv' /\ RatePreserved'
    BY TimeNext
  <1>3. QED
    BY <1>1, <1>2, PTL DEF Spec

(* And no row is dropped but the first ever and those that end inside the  *)
(* hour that repeats (processData, "entirely overlaps a previous reading").*)
THEOREM OnlyRepeatedDropped ==
    ASSUME SteadyMeter
    PROVE  Spec => DropsOnlyRepeated
  <1>1. Init => TimeInv
    BY TimeInit
  <1>2. TimeInv /\ [Next]_vars => TimeInv'
    BY TimeNext
  <1>3. TimeInv /\ [Next]_vars
        => [(pc = "loop" /\ cfg.honorDst /\ DroppedRow /\ ~First(loop))
             => RepeatStart <= last'.end /\ last'.end <= RepeatEnd]_vars
    BY TimeNext
  <1>4. QED
    BY <1>1, <1>2, <1>3, PTL DEF Spec, DropsOnlyRepeated
=============================================================================
