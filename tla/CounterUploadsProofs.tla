------------------------ MODULE CounterUploadsProofs ------------------------
(***************************************************************************)
(* Proofs about CounterUploads, for any rows, settings, counter and any    *)
(* order of delivery.  The inductive invariant ties the previous raw value *)
(* to the previous end, in the locals of processData and on the meter.     *)
(***************************************************************************)
EXTENDS CounterUploads, WellFoundedInduction, TLAPS

(* Inside the loop the last raw value and the last end belong to one row,  *)
(* and no flag of the DST algorithm is set.                                *)
LoopMatchesCounter ==
    pc = "loop" =>
        /\ loop.prev.end \in Nat
        /\ loop.endTz.t = loop.prev.end
        /\ loop.prev.end # E0 => loop.reading = Shows(loop.prev.end)
        /\ ~loop.splitDst /\ ~loop.inDstStop

IInv == TypeOK /\ MeterMatchesCounter /\ LoopMatchesCounter /\ AcceptedAreExplained

-----------------------------------------------------------------------------
(* What one turn of the loop does to the locals when DST is not honoured.  *)

RowStart(c, l, row) == IF c.endOnly THEN l.prev.end ELSE row.start

LEMMA ExaminedRow ==
    ASSUME NEW c \in Configs, NEW l, NEW row
    PROVE  Examined(c, l, row) = Checked(c, Parse(c, l, row))
  BY CounterAssumption DEF Examined, HonorDst

LEMMA ExaminedFields ==
    ASSUME NEW c \in Configs, NEW l \in Locals, NEW row \in Rows
    PROVE  LET x == Examined(c, l, row)
           IN  /\ x.l = [l EXCEPT !.reading = row.value]
               /\ x.start = RowStart(c, l, row)
               /\ x.end = row.end
               /\ x.shift \in Int
               /\ x.val = Whole(row.value - l.reading)
               /\ x.ok => ~First(l)
               /\ x.ok => InOrder(c, Parse(c, l, row))
               /\ x = [l |-> x.l, ok |-> x.ok, start |-> x.start, end |-> x.end,
                       shift |-> x.shift, val |-> x.val]
  <1> DEFINE p == Parse(c, l, row)
  <1>1. c \in [cumulative : BOOLEAN, endOnly : BOOLEAN, honorDst : BOOLEAN,
               reset : BOOLEAN, resetStart : Nat, resetEnd : Nat, gap : Nat,
               frequency : Nat, variation : Nat, slack : Nat, update : BOOLEAN,
               checks : {"reject_all", "reject_bad", "reject_none", "reject_disabled"},
               minDate : Int, maxDate : Int, minVal : Int, maxVal : Int, maxError : Int]
    BY ConfigsAssumption
  <1>2. row \in [value : Int, start : Nat, startTz : Int, end : Nat, endTz : Int,
                 bad : BOOLEAN]
    BY RowsAssumption
  <1>3. l.prevTz \in Int
    BY DEF Locals
  <1>4. /\ p.l = [l EXCEPT !.reading = row.value]
        /\ p.start = RowStart(c, l, row)
        /\ p.end = row.end
        /\ p.val = Whole(row.value - l.reading)
    BY CounterAssumption DEF Parse, RowStart
  <1>5. p.ok <=> ~First(l)
    BY CounterAssumption DEF Parse
  <1>6. p.shift = (IF c.endOnly THEN l.prevTz ELSE row.startTz) - row.endTz
    BY DEF Parse
  <1>7. p.shift \in Int
    BY <1>1, <1>2, <1>3, <1>6
  <1>8. Examined(c, l, row) = [p EXCEPT !.ok = @ /\ InOrder(c, p)]
    BY ExaminedRow DEF Checked
  <1>9. p = [l |-> p.l, ok |-> p.ok, start |-> p.start, end |-> p.end,
             shift |-> p.shift, val |-> p.val]
    BY DEF Parse
  <1>10. p = Parse(c, l, row)
    OBVIOUS
  <1> HIDE DEF p
  <1>11. /\ Examined(c, l, row).ok <=> (p.ok /\ InOrder(c, p))
         /\ Examined(c, l, row).l = p.l
         /\ Examined(c, l, row).start = p.start
         /\ Examined(c, l, row).end = p.end
         /\ Examined(c, l, row).shift = p.shift
         /\ Examined(c, l, row).val = p.val
         /\ Examined(c, l, row) = [l |-> p.l, ok |-> Examined(c, l, row).ok, start |-> p.start,
                                    end |-> p.end, shift |-> p.shift, val |-> p.val]
    BY <1>8, <1>9
  <1>12. QED
    BY <1>4, <1>5, <1>7, <1>10, <1>11

LEMMA NegativeWhole ==
    ASSUME NEW k \in Int
    PROVE  IsNegative(Whole(k)) <=> k < 0
  BY DEF IsNegative, Whole

(* The value given to an accepted reading: the gain, or over a reset the   *)
(* raw value.                                                              *)
Gain(l, row) ==
    Whole(IF row.value - l.reading < 0 THEN row.value ELSE row.value - l.reading)

LEMMA AfterResetFields ==
    ASSUME NEW c \in Configs, NEW l \in Locals, NEW row \in Rows, Examined(c, l, row).ok
    PROVE  LET x == AfterReset(c, Examined(c, l, row))
           IN  /\ x.l = [l EXCEPT !.reading = row.value]
               /\ x.start = RowStart(c, l, row)
               /\ x.end = row.end
               /\ x.val = Gain(l, row)
  <1> DEFINE x == Examined(c, l, row)
  <1>1. /\ x.l = [l EXCEPT !.reading = row.value]
        /\ x.start = RowStart(c, l, row)
        /\ x.end = row.end
        /\ x.val = Whole(row.value - l.reading)
    BY ExaminedFields
  <1>2. l.reading \in Int /\ row.value \in Int
    BY RowsAssumption DEF Locals
  <1>3. IsNegative(x.val) <=> row.value - l.reading < 0
    BY <1>1, <1>2, NegativeWhole
  <1>4. x.l.reading = row.value
    BY <1>1 DEF Locals
  <1>5. x = [l |-> x.l, ok |-> x.ok, start |-> x.start, end |-> x.end,
             shift |-> x.shift, val |-> x.val]
    BY ExaminedFields
  <1> HIDE DEF x
  <1>6. CASE IsNegative(x.val)
    <2>1. AfterReset(c, x) = [x EXCEPT !.val = Whole(x.l.reading)]
      BY <1>6, CounterAssumption DEF AfterReset, x
    <2>2. QED
      BY <2>1, <1>1, <1>3, <1>4, <1>5, <1>6 DEF Gain, x
  <1>7. CASE ~IsNegative(x.val)
    <2>1. AfterReset(c, x) = x
      BY <1>7 DEF AfterReset
    <2>2. QED
      BY <2>1, <1>1, <1>3, <1>7 DEF Gain, x
  <1>8. QED
    BY <1>6, <1>7

(* The reading a row gives when it is accepted.                            *)
Given(c, l, row) == Piece(row, RowStart(c, l, row), row.end, Gain(l, row))

LEMMA GivenType ==
    ASSUME NEW c \in Configs, NEW l \in Locals, NEW row \in Rows
    PROVE  Given(c, l, row) \in Accepted /\ RowStart(c, l, row) \in Int
  <1>0. l.reading \in Int /\ l.prev \in Interval
    BY DEF Locals
  <1>1. /\ row.value \in Int /\ row.start \in Int /\ row.end \in Int
        /\ l.reading \in Int /\ l.prev.end \in Int
    BY <1>0, RowsAssumption DEF Interval
  <1>2. RowStart(c, l, row) \in Int
    BY <1>1 DEF RowStart
  <1>3. Gain(l, row) \in Fraction
    BY <1>1 DEF Gain, Whole, Fraction
  <1>4. QED
    BY <1>1, <1>2, <1>3 DEF Given, Piece, Accepted

LEMMA AdvancedType ==
    ASSUME NEW l \in Locals, NEW tz \in Int, NEW t \in Nat, NEW s \in Stamp
    PROVE  [l EXCEPT !.prevTz = tz, !.n = @ + 1, !.startTz = t, !.endTz = s] \in Locals
  <1>1. l.n + 1 \in Nat
    BY DEF Locals
  <1>2. [l EXCEPT !.prevTz = tz] \in Locals
    BY DEF Locals
  <1>3. ASSUME NEW k \in Locals, NEW n \in Nat
        PROVE  [k EXCEPT !.n = n] \in Locals
    BY <1>3 DEF Locals
  <1>4. ASSUME NEW k \in Locals
        PROVE  [k EXCEPT !.endTz = s] \in Locals
    BY <1>4 DEF Locals
  <1>5. [l EXCEPT !.prevTz = tz].n = l.n
    BY DEF Locals
  <1> DEFINE a == [l EXCEPT !.prevTz = tz]
             b == [a EXCEPT !.n = @ + 1]
  <1>6. b \in Locals
    BY <1>1, <1>2, <1>3, <1>5
  <1> HIDE DEF b
  <1>7. [b EXCEPT !.startTz = t] \in Locals
    BY <1>6 DEF Locals
  <1> DEFINE d == [b EXCEPT !.startTz = t]
  <1> HIDE DEF d
  <1>8. [d EXCEPT !.endTz = s] \in Locals
    BY <1>4, <1>7 DEF d
  <1>9. QED
    BY <1>8 DEF b, d

LEMMA StartTzType ==
    ASSUME NEW c, NEW l \in Locals, NEW row \in Rows
    PROVE  StartTz(c, l, row) \in Nat
  BY RowsAssumption DEF StartTz, Locals, Stamp

(* No reading is shortened to the meter's frequency.                       *)
LEMMA DecidedRow ==
    ASSUME NEW c \in Configs, NEW x, NEW row
    PROVE  Decided(c, x, row) = IF x.ok THEN Accept(AfterReset(c, x), row) ELSE Drop(x)
  BY CounterAssumption DEF Decided, AtFrequency

LEMMA StepFields ==
    ASSUME NEW c \in Configs, NEW l \in Locals, NEW row \in Rows,
           ~l.splitDst, ~l.inDstStop
    PROVE  LET x == Examined(c, l, row)
               m == Step(c, x, row)
           IN  /\ m \in Locals
               /\ m.reading = row.value
               /\ m.prev.end = row.end
               /\ m.endTz.t = row.end
               /\ ~m.splitDst /\ ~m.inDstStop
               /\ m.result = IF x.ok THEN Append(l.result, Given(c, l, row)) ELSE l.result
  <1> DEFINE x == Examined(c, l, row)
             y == AfterReset(c, x)
             r == [l EXCEPT !.reading = row.value]
  <1>1. ~r.splitDst /\ ~r.inDstStop /\ r.result = l.result
    BY DEF Locals
  <1> DEFINE moved == [start |-> RowStart(c, l, row), end |-> row.end]
             stamp == [t |-> row.end, off |-> row.endTz]
             res == Append(l.result, Given(c, l, row))
  <1>0. /\ moved \in Interval /\ moved.end = row.end
        /\ stamp \in Stamp /\ stamp.t = row.end
        /\ row.value \in Int /\ row.endTz \in Int
        /\ res \in Seq(Accepted)
    <2>1. Given(c, l, row) \in Accepted /\ RowStart(c, l, row) \in Int
      BY GivenType
    <2>2. row.value \in Int /\ row.end \in Nat /\ row.endTz \in Int
      BY RowsAssumption
    <2>3. l.result \in Seq(Accepted)
      BY DEF Locals
    <2>4. res \in Seq(Accepted)
      BY <2>1, <2>3
    <2>5. QED
      BY <2>1, <2>2, <2>4 DEF Interval, Stamp
  <1>2. CASE x.ok
    <2>1. /\ y.l = r /\ y.start = RowStart(c, l, row)
          /\ y.end = row.end /\ y.val = Gain(l, row)
      BY <1>2, AfterResetFields
    <2>2. Accept(y, row) = [r EXCEPT !.result = res, !.prev = moved]
      <3> HIDE DEF y, r
      <3>1. QED
        BY <1>1, <2>1 DEF Accept, Given
    <2>3. Step(c, x, row) = [Accept(y, row) EXCEPT !.prevTz = row.endTz, !.n = @ + 1,
                                      !.startTz = StartTz(c, Accept(y, row), row), !.endTz = stamp]
      <3> HIDE DEF x
      <3>1. QED
        BY <1>2, DecidedRow DEF Step
    <2> HIDE DEF y, moved, stamp, res
    <2>4. r \in Locals
      BY <1>0 DEF Locals
    <2>5. /\ Accept(y, row) \in Locals
          /\ Accept(y, row).reading = row.value
          /\ Accept(y, row).prev = moved
          /\ Accept(y, row).result = res
          /\ ~Accept(y, row).splitDst /\ ~Accept(y, row).inDstStop
      BY <1>0, <1>1, <2>2 DEF Locals
    <2> HIDE DEF x, r
    <2>6. Step(c, x, row) \in Locals
      <3> DEFINE a == Accept(y, row)
      <3>1. /\ stamp \in Stamp /\ row.endTz \in Int /\ a \in Locals
            /\ StartTz(c, a, row) \in Nat
        BY <1>0, <2>5, StartTzType
      <3>2. Step(c, x, row) = [a EXCEPT !.prevTz = row.endTz, !.n = @ + 1,
                                      !.startTz = StartTz(c, a, row), !.endTz = stamp]
        BY <2>3
      <3> HIDE DEF a
      <3>3. [a EXCEPT !.prevTz = row.endTz, !.n = @ + 1,
                                      !.startTz = StartTz(c, a, row), !.endTz = stamp] \in Locals
        BY <3>1, AdvancedType
      <3>4. QED
        BY <3>2, <3>3
    <2>7. /\ Step(c, x, row).reading = row.value
          /\ Step(c, x, row).prev.end = row.end
          /\ Step(c, x, row).endTz.t = row.end
          /\ Step(c, x, row).result = res
          /\ ~Step(c, x, row).splitDst /\ ~Step(c, x, row).inDstStop
      BY <1>0, <2>3, <2>5 DEF Locals
    <2>8. QED
      BY <1>2, <2>6, <2>7 DEF x, res
  <1>3. CASE ~x.ok
    <2>1. x.l = r /\ x.start = RowStart(c, l, row) /\ x.end = row.end
      BY ExaminedFields
    <2>2. Drop(x) = [r EXCEPT !.allOk = FALSE, !.prev = moved]
      <3> HIDE DEF x, r
      <3>1. QED
        BY <2>1 DEF Drop
    <2>3. Step(c, x, row) = [Drop(x) EXCEPT !.prevTz = row.endTz, !.n = @ + 1,
                                      !.startTz = StartTz(c, Drop(x), row), !.endTz = stamp]
      <3> HIDE DEF x
      <3>1. QED
        BY <1>3, DecidedRow DEF Step
    <2> HIDE DEF moved, stamp, res
    <2>4. /\ Drop(x) \in Locals
          /\ Drop(x).reading = row.value
          /\ Drop(x).prev = moved
          /\ Drop(x).result = l.result
          /\ ~Drop(x).splitDst /\ ~Drop(x).inDstStop
      BY <1>0, <1>1, <2>2 DEF Locals
    <2> HIDE DEF x, r
    <2>5. Step(c, x, row) \in Locals
      <3> DEFINE a == Drop(x)
      <3>1. /\ stamp \in Stamp /\ row.endTz \in Int /\ a \in Locals
            /\ StartTz(c, a, row) \in Nat
        BY <1>0, <2>4, StartTzType
      <3>2. Step(c, x, row) = [a EXCEPT !.prevTz = row.endTz, !.n = @ + 1,
                                      !.startTz = StartTz(c, a, row), !.endTz = stamp]
        BY <2>3
      <3> HIDE DEF a
      <3>3. [a EXCEPT !.prevTz = row.endTz, !.n = @ + 1,
                                      !.startTz = StartTz(c, a, row), !.endTz = stamp] \in Locals
        BY <3>1, AdvancedType
      <3>4. QED
        BY <3>2, <3>3
    <2>6. /\ Step(c, x, row).reading = row.value
          /\ Step(c, x, row).prev.end = row.end
          /\ Step(c, x, row).endTz.t = row.end
          /\ Step(c, x, row).result = l.result
          /\ ~Step(c, x, row).splitDst /\ ~Step(c, x, row).inDstStop
      BY <1>0, <2>3, <2>4 DEF Locals
    <2>7. QED
      BY <1>3, <2>5, <2>6 DEF x
  <1>4. QED
    BY <1>2, <1>3

LEMMA GivenExplained ==
    ASSUME NEW c \in Configs, NEW l \in Locals, NEW row \in Rows, ~row.bad,
           l.prev.end \in Nat,
           l.prev.end # E0 => l.reading = Shows(l.prev.end),
           Examined(c, l, row).ok, ~RejectsAll(c, Examined(c, l, row))
    PROVE  Explained(c, Given(c, l, row))
  <1> DEFINE x == Examined(c, l, row)
             start == RowStart(c, l, row)
             p == l.prev.end
             r == Given(c, l, row)
  <1>1. /\ x.l = [l EXCEPT !.reading = row.value]
        /\ x.start = start
        /\ x.val = Whole(row.value - l.reading)
        /\ ~First(l)
        /\ InOrder(c, Parse(c, l, row))
    BY ExaminedFields
  <1>2. c.gap \in Nat /\ c.cumulative
    BY ConfigsAssumption, CounterAssumption
  <1>3. l.reading \in Int /\ row.value \in Int /\ row.value = Shows(row.end)
    BY RowsAssumption, CounterAssumption DEF Locals
  <1>4. p # E0 /\ l.reading = Shows(p)
    BY <1>1 DEF First
  <1>5. start \in Int
    BY GivenType
  <1>6. Parse(c, l, row).l.prev.end = p /\ Parse(c, l, row).start = start
    BY DEF Parse, RowStart, Locals
  <1>7. start >= p /\ Distance(start, p) <= c.gap
    BY <1>1, <1>2, <1>6 DEF InOrder
  <1>8. p \in (r.start - c.gap)..r.start
    <2>1. r.start = start
      BY DEF Given, Piece
    <2>2. p <= start /\ start - p <= c.gap
      BY <1>2, <1>5, <1>7 DEF Distance
    <2> HIDE DEF r, start, p
    <2>3. p \in Int
      BY DEF p
    <2>4. QED
      BY <1>2, <1>5, <2>1, <2>2, <2>3
  <1>9. r.end = row.end /\ r.val = Gain(l, row)
    BY DEF Given, Piece
  <1>10. CASE row.value - l.reading < 0
    <2>1. IsNegative(x.val)
      BY <1>1, <1>3, <1>10, NegativeWhole
    <2>2. ResetAllowed(c, start)
      BY <1>1, <1>2, <2>1 DEF RejectsAll
    <2>3. r.val = Whole(Shows(r.end)) /\ Shows(r.end) < Shows(p)
      BY <1>3, <1>4, <1>9, <1>10 DEF Gain
    <2>4. r.start = start
      BY DEF Given, Piece
    <2> HIDE DEF r, start, p, x
    <2>5. QED
      BY <1>8, <2>2, <2>3, <2>4 DEF Explained, r
  <1>11. CASE ~(row.value - l.reading < 0)
    <2>1. r.val = Whole(Shows(r.end) - Shows(p)) /\ Shows(r.end) >= Shows(p)
      BY <1>3, <1>4, <1>9, <1>11 DEF Gain
    <2> HIDE DEF r, start, p, x
    <2>2. QED
      BY <1>8, <2>1 DEF Explained, r
  <1>12. QED
    BY <1>10, <1>11

-----------------------------------------------------------------------------
(* The inductive invariant.                                                *)

LEMMA InitIInv == Init => IInv
  <1> SUFFICES ASSUME Init PROVE IInv
    OBVIOUS
  <1>1. cfg \in Configs /\ pc = "idle" /\ loop.result = <<>> /\ meter.end.t = E0
    BY DEF Init
  <1>2. TypeOK
    BY DEF Init, TypeOK, Locals, Interval, Stamp, E0
  <1>3. QED
    BY <1>1, <1>2 DEF IInv, MeterMatchesCounter, LoopMatchesCounter, AcceptedAreExplained

LEMMA StartBatchIInv ==
    ASSUME IInv, NEW c \in Configs, StartBatch(c)
    PROVE  IInv'
  <1> USE DEF IInv
  <1>1. /\ meter.end.t \in Nat /\ meter.reading \in Int /\ meter.start \in Nat
        /\ meter.end \in Stamp /\ meter.end.off \in Int /\ meter.previousEnd \in Int
    BY DEF TypeOK, Stamp
  <1>2. /\ loop'.prev.end = meter.end.t
        /\ loop'.endTz = meter.end
        /\ loop'.reading = meter.reading
        /\ loop'.result = <<>>
        /\ ~loop'.splitDst /\ ~loop'.inDstStop
        /\ meter' = meter /\ cfg' = c
    BY DEF StartBatch
  <1>3. loop' \in Locals
    BY <1>1 DEF StartBatch, TypeOK, Locals, Interval, E0, Invalid
  <1>4. TypeOK'
    BY <1>3 DEF StartBatch, TypeOK
  <1>5. MeterMatchesCounter' /\ LoopMatchesCounter' /\ AcceptedAreExplained'
    BY <1>1, <1>2 DEF MeterMatchesCounter, LoopMatchesCounter, AcceptedAreExplained
  <1>6. QED
    BY <1>4, <1>5

LEMMA ProcessRowIInv ==
    ASSUME IInv, NEW row \in Rows, ProcessRow(row)
    PROVE  IInv'
  <1> DEFINE x == Examined(cfg, loop, row)
             m == Step(cfg, x, row)
  <1> USE DEF IInv
  <1>1. /\ cfg \in Configs /\ loop \in Locals /\ pc = "loop"
        /\ ~row.bad /\ ~RejectsAll(cfg, x)
        /\ loop' = m /\ cfg' = cfg /\ meter' = meter /\ pc' = pc
    BY DEF ProcessRow, Delivered, TypeOK
  <1>2. /\ loop.prev.end \in Nat
        /\ loop.prev.end # E0 => loop.reading = Shows(loop.prev.end)
        /\ ~loop.splitDst /\ ~loop.inDstStop
    BY <1>1 DEF LoopMatchesCounter
  <1>3. /\ m \in Locals
        /\ m.reading = row.value
        /\ m.prev.end = row.end
        /\ m.endTz.t = row.end
        /\ ~m.splitDst /\ ~m.inDstStop
        /\ m.result = IF x.ok THEN Append(loop.result, Given(cfg, loop, row)) ELSE loop.result
    BY <1>1, <1>2, StepFields
  <1>4. row.value = Shows(row.end) /\ row.end \in Nat
    BY <1>1, RowsAssumption, CounterAssumption
  <1>5. x.ok => Explained(cfg, Given(cfg, loop, row))
    BY <1>1, <1>2, GivenExplained
  <1>6. loop.result \in Seq(Accepted)
    BY <1>1 DEF Locals
  <1> HIDE DEF m, x
  <1>7. TypeOK'
    BY <1>1, <1>3 DEF ProcessRow, TypeOK
  <1>8. LoopMatchesCounter' /\ MeterMatchesCounter'
    BY <1>1, <1>3, <1>4 DEF LoopMatchesCounter, MeterMatchesCounter
  <1>9. AcceptedAreExplained'
    BY <1>1, <1>3, <1>5, <1>6 DEF AcceptedAreExplained
  <1>10. QED
    BY <1>7, <1>8, <1>9

(* Every way to end a batch empties the result.                            *)
LEMMA EndedIInv ==
    ASSUME IInv, pc' = "idle", cfg' = cfg, meter' = meter, batches' = batches,
           readings' \subseteq Reading, last' \in Rows \cup {NoRow},
           NEW ok \in BOOLEAN, loop' = [loop EXCEPT !.result = <<>>, !.allOk = ok]
    PROVE  IInv'
  <1> USE DEF IInv
  <1>1. loop \in Locals /\ <<>> \in Seq(Accepted)
    BY DEF TypeOK
  <1>2. loop' \in Locals /\ loop'.result = <<>>
    BY <1>1 DEF Locals
  <1>3. TypeOK'
    BY <1>2 DEF TypeOK
  <1>4. QED
    BY <1>2, <1>3 DEF LoopMatchesCounter, MeterMatchesCounter, AcceptedAreExplained

LEMMA GiveUpIInv ==
    ASSUME IInv, GiveUp
    PROVE  IInv'
  <1>1. loop.from \in Rows \cup {NoRow} /\ readings \subseteq Reading
    BY DEF IInv, TypeOK, Locals
  <1>2. /\ pc' = "idle" /\ cfg' = cfg /\ meter' = meter /\ batches' = batches
        /\ readings' \subseteq Reading /\ last' \in Rows \cup {NoRow}
        /\ loop' = [loop EXCEPT !.result = <<>>, !.allOk = FALSE]
    BY <1>1 DEF GiveUp
  <1>3. QED
    BY <1>2, EndedIInv

LEMMA FinishBatchIInv ==
    ASSUME IInv, FinishBatch
    PROVE  IInv'
  <1> USE DEF IInv
  <1>1. /\ pc = "loop" /\ pc' = "insert" /\ cfg' = cfg /\ loop' = loop
        /\ meter' = [reading |-> loop.reading, start |-> loop.startTz, end |-> loop.endTz,
                     previousEnd |-> loop.prevEnd]
    BY DEF FinishBatch
  <1>2. /\ loop.prev.end # E0 => loop.reading = Shows(loop.prev.end)
        /\ loop.endTz.t = loop.prev.end
    BY <1>1 DEF LoopMatchesCounter
  <1>3. meter' \in [reading : Int, start : Nat, end : Stamp, previousEnd : Int]
    BY <1>1 DEF TypeOK, Locals
  <1>4. TypeOK'
    BY <1>1, <1>3 DEF FinishBatch, TypeOK
  <1>5. MeterMatchesCounter'
    BY <1>1, <1>2 DEF MeterMatchesCounter
  <1>6. LoopMatchesCounter' /\ AcceptedAreExplained'
    BY <1>1 DEF LoopMatchesCounter, AcceptedAreExplained
  <1>7. QED
    BY <1>4, <1>5, <1>6

(* Without update, what the insert adds are accepted readings.             *)
New(rs, kept) ==
    {[start |-> rs[i].start, end |-> rs[i].end, val |-> rs[i].val] : i \in kept}

LEMMA StoredIsNew ==
    ASSUME NEW rs \in Seq(Accepted), NEW kept \in SUBSET DOMAIN rs, NEW db
    PROVE  Stored(rs, kept, db, FALSE) \subseteq db \cup New(rs, kept)
  <1> DEFINE at(t) == {i \in kept : rs[i].start = t}
             isNew(i) == /\ \A r \in db : r.start # rs[i].start
                         /\ \A j \in at(rs[i].start) : i <= j
             row(i) == [start |-> rs[i].start, end |-> rs[i].end, val |-> rs[i].val]
             added == {row(i) : i \in {k \in kept : isNew(k)}}
  <1>1. Stored(rs, kept, db, FALSE) = {r : r \in db \cup added}
    BY DEF Stored
  <1>2. added \subseteq New(rs, kept)
    BY DEF New
  <1>3. QED
    BY <1>1, <1>2

LEMMA KeptInDomain ==
    ASSUME NEW c, NEW rs
    PROVE  Kept(c, rs) \in SUBSET DOMAIN rs
  BY DEF Kept

LEMMA InsertReadingsIInv ==
    ASSUME IInv, InsertReadings
    PROVE  IInv'
  <1> DEFINE kept == Kept(cfg, loop.result)
             ok == loop.allOk /\ TableAccepts(loop.result, kept)
  <1>1. cfg \in Configs /\ loop.result \in Seq(Accepted) /\ readings \subseteq Reading
    BY DEF IInv, TypeOK, Locals
  <1>2. New(loop.result, kept) \subseteq Reading
    <2>1. \A i \in DOMAIN loop.result : loop.result[i] \in Accepted
      BY <1>1
    <2>2. \A a \in Accepted : [start |-> a.start, end |-> a.end, val |-> a.val] \in Reading
      BY DEF Accepted, Reading
    <2>3. kept \subseteq DOMAIN loop.result
      BY KeptInDomain
    <2> HIDE DEF kept
    <2>4. QED
      BY <2>1, <2>2, <2>3 DEF New
  <1>3. Stored(loop.result, kept, readings, FALSE) \subseteq Reading
    BY <1>1, <1>2, StoredIsNew, KeptInDomain
  <1>4. ~cfg.update
    BY <1>1, CounterAssumption
  <1>5. cfg.update = FALSE
    BY <1>1, <1>4, ConfigsAssumption
  <1>6. readings' \subseteq Reading
    BY <1>1, <1>3, <1>5 DEF InsertReadings
  <1>7. /\ pc' = "idle" /\ cfg' = cfg /\ meter' = meter /\ batches' = batches
        /\ last' \in Rows \cup {NoRow}
        /\ loop' = [loop EXCEPT !.result = <<>>, !.allOk = ok]
    BY DEF InsertReadings, IInv, TypeOK
  <1>8. ok \in BOOLEAN
    OBVIOUS
  <1> HIDE DEF ok
  <1>9. QED
    BY <1>6, <1>7, <1>8, EndedIInv

LEMMA CrashBeforeInsertIInv ==
    ASSUME IInv, CrashBeforeInsert
    PROVE  IInv'
  <1>1. /\ pc' = "idle" /\ cfg' = cfg /\ meter' = meter /\ batches' = batches
        /\ readings' \subseteq Reading /\ last' \in Rows \cup {NoRow}
        /\ loop' = [loop EXCEPT !.result = <<>>, !.allOk = FALSE]
    BY DEF CrashBeforeInsert, IInv, TypeOK
  <1>2. QED
    BY <1>1, EndedIInv

LEMMA NextIInv == IInv /\ [Next]_vars => IInv'
  <1> SUFFICES ASSUME IInv, [Next]_vars PROVE IInv'
    OBVIOUS
  <1>1. ASSUME NEW c \in Configs, StartBatch(c) PROVE IInv'
    BY <1>1, StartBatchIInv
  <1>2. ASSUME NEW row \in Rows, ProcessRow(row) PROVE IInv'
    BY <1>2, ProcessRowIInv
  <1>3. ASSUME NEW row \in Rows, RejectBatch(row) PROVE IInv'
    BY <1>3, GiveUpIInv DEF RejectBatch
  <1>4. CASE FinishBatch
    BY <1>4, FinishBatchIInv
  <1>5. CASE AbandonBatch
    BY <1>5, GiveUpIInv DEF AbandonBatch
  <1>6. CASE InsertReadings
    BY <1>6, InsertReadingsIInv
  <1>7. CASE CrashInLoop
    BY <1>7, GiveUpIInv DEF CrashInLoop
  <1>8. CASE CrashBeforeInsert
    BY <1>8, CrashBeforeInsertIInv
  <1>9. CASE UNCHANGED vars
    <2>1. TypeOK'
      BY <1>9 DEF vars, IInv, TypeOK
    <2>2. MeterMatchesCounter' /\ LoopMatchesCounter'
      BY <1>9 DEF vars, IInv, LoopMatchesCounter, MeterMatchesCounter
    <2>3. AcceptedAreExplained'
      BY <1>9 DEF vars, IInv, AcceptedAreExplained
    <2>4. QED
      BY <2>1, <2>2, <2>3 DEF IInv
  <1>10. QED
    BY <1>1, <1>2, <1>3, <1>4, <1>5, <1>6, <1>7, <1>8, <1>9 DEF Next

LEMMA SpecIInv == Spec => []IInv
  BY InitIInv, NextIInv, PTL DEF Spec

(* The rows of the database and the locals keep their types on every path  *)
(* of processData and loadArrayInput.                                      *)
THEOREM TypeCorrect == Spec => []TypeOK
  <1>1. IInv => TypeOK
    BY DEF IInv
  <1>2. QED
    BY <1>1, SpecIInv, PTL

(* For any counter and any order of delivery the meter's last raw reading  *)
(* is what the counter showed at the meter's last end (meter.update).      *)
THEOREM MeterCoherent == Spec => []MeterMatchesCounter
  <1>1. IInv => MeterMatchesCounter
    BY DEF IInv
  <1>2. QED
    BY <1>1, SpecIInv, PTL

(* Every reading processData accepts is explained by the counter, for any  *)
(* rows, settings, counter and order of delivery.                          *)
THEOREM ReadingsExplained == Spec => []AcceptedAreExplained
  <1>1. IInv => AcceptedAreExplained
    BY DEF IInv
  <1>2. QED
    BY <1>1, SpecIInv, PTL

-----------------------------------------------------------------------------
(* Checks that reject and may report an error keep good readings only.     *)
LEMMA KeptAreGood ==
    ASSUME NEW c, NEW rs, c.checks \in {"reject_all", "reject_bad"}, ~(c.maxError <= 0)
    PROVE  \A i \in Kept(c, rs) : InLimits(c, rs[i])
  <1> DEFINE good == {i \in DOMAIN rs : InLimits(c, rs[i])}
  <1>1. CASE good = DOMAIN rs
    <2>1. Kept(c, rs) \subseteq good
      BY <1>1, KeptInDomain
    <2>2. QED
      BY <2>1
  <1>2. CASE good # DOMAIN rs
    <2>1. Kept(c, rs) = IF c.checks = "reject_bad" THEN good ELSE {}
      BY <1>2 DEF Kept
    <2>2. Kept(c, rs) \subseteq good
      BY <2>1
    <2>3. QED
      BY <2>2
  <1>3. QED
    BY <1>1, <1>2

(* Whatever batches and crashes came before, an insert adds to the table   *)
(* no reading outside the limits of an upload whose checks reject          *)
(* (validateReadings, loadArrayInput).                                     *)
THEOREM OnlyGoodInserted == Spec => InsertedWithinLimits
  <1> DEFINE Rejects == cfg.checks \in {"reject_all", "reject_bad"} /\ cfg.maxError > 0
             Good == \A r \in readings' \ readings : InLimits(cfg, r)
             kept == Kept(cfg, loop.result)
  <1>1. ASSUME IInv, [Next]_vars, Rejects PROVE Good
    <2>1. CASE InsertReadings
      <3>1. cfg \in Configs /\ loop.result \in Seq(Accepted)
        BY <1>1 DEF IInv, TypeOK, Locals
      <3>2. cfg.update = FALSE /\ cfg.maxError \in Int
        BY <3>1, CounterAssumption, ConfigsAssumption
      <3>3. readings' \subseteq readings \cup New(loop.result, kept)
        <4>1. Stored(loop.result, kept, readings, FALSE) \subseteq readings \cup New(loop.result, kept)
          BY <3>1, KeptInDomain, StoredIsNew
        <4> HIDE DEF kept
        <4>2. \/ readings' = Stored(loop.result, kept, readings, FALSE)
              \/ readings' = readings
          BY <2>1, <3>2 DEF InsertReadings, kept
        <4>3. QED
          BY <4>1, <4>2
      <3>4. ~(cfg.maxError <= 0)
        BY <1>1, <3>2
      <3>5. \A i \in kept : InLimits(cfg, loop.result[i])
        BY <1>1, <3>4, KeptAreGood
      <3> HIDE DEF kept
      <3>6. ASSUME NEW r \in New(loop.result, kept) PROVE InLimits(cfg, r)
        <4>1. PICK i \in kept :
                r = [start |-> loop.result[i].start, end |-> loop.result[i].end,
                     val |-> loop.result[i].val]
          BY <3>6 DEF New
        <4>2. QED
          BY <3>5, <4>1 DEF InLimits
      <3>7. QED
        BY <3>3, <3>6
    <2>2. CASE UNCHANGED readings
      BY <2>2
    <2>3. InsertReadings \/ UNCHANGED readings
      BY <1>1 DEF Next, vars, StartBatch, ProcessRow, RejectBatch, GiveUp, FinishBatch,
                  AbandonBatch, CrashInLoop, CrashBeforeInsert
    <2>4. QED
      BY <2>1, <2>2, <2>3
  <1>2. IInv /\ [Next]_vars => [Rejects => Good]_vars
    BY <1>1
  <1>3. QED
    BY <1>2, SpecIInv, PTL DEF Spec, InsertedWithinLimits

-----------------------------------------------------------------------------
(* What a meter must do for its counter to be a lower bound of the energy  *)
(* used: never gain more than was used, and after a reset show no more     *)
(* than was used since any time it showed more.                            *)
HonestMeter ==
    /\ \A t \in Int : Shows(t) \in Int /\ Used(t) \in Int
    /\ \A p, e \in Int : p <= e =>
        /\ Used(p) <= Used(e)
        /\ Shows(p) <= Shows(e) => Shows(e) - Shows(p) <= Used(e) - Used(p)
        /\ Shows(e) < Shows(p) => Shows(e) <= Used(e) - Used(p)

Attributed(c, r) ==
    r.val.v * r.val.num <= (Used(r.end) - Used(r.start - c.gap)) * r.val.den

LEMMA ExplainedIsAttributed ==
    ASSUME HonestMeter, NEW c \in Configs, NEW r \in Accepted,
           Explained(c, r), r.start < r.end
    PROVE  Attributed(c, r)
  <1>1. r.start \in Int /\ r.end \in Int /\ c.gap \in Nat
    BY ConfigsAssumption DEF Accepted
  <1>2. PICK p \in (r.start - c.gap)..r.start :
            \/ Shows(r.end) >= Shows(p) /\ r.val = Whole(Shows(r.end) - Shows(p))
            \/ Shows(r.end) < Shows(p) /\ r.val = Whole(Shows(r.end))
    BY DEF Explained
  <1> DEFINE b == r.start - c.gap
             e == r.end
  <1>3. b \in Int /\ p \in Int /\ e \in Int /\ b <= p /\ p <= e
    BY <1>1, <1>2
  <1> HIDE DEF b, e
  <1>4. /\ Shows(p) \in Int /\ Shows(e) \in Int
        /\ Used(b) \in Int /\ Used(p) \in Int /\ Used(e) \in Int
        /\ Used(b) <= Used(p)
        /\ Shows(p) <= Shows(e) => Shows(e) - Shows(p) <= Used(e) - Used(p)
        /\ Shows(e) < Shows(p) => Shows(e) <= Used(e) - Used(p)
    BY <1>3 DEF HonestMeter
  <1>5. \/ Shows(e) >= Shows(p) /\ r.val = Whole(Shows(e) - Shows(p))
        \/ Shows(e) < Shows(p) /\ r.val = Whole(Shows(e))
    BY <1>2 DEF e
  <1>6. r.val.v <= Used(e) - Used(b) /\ r.val.v \in Int /\ r.val.num = 1 /\ r.val.den = 1
    BY <1>4, <1>5 DEF Whole
  <1>7. r.val.v * r.val.num <= (Used(e) - Used(b)) * r.val.den
    BY <1>4, <1>6
  <1>8. QED
    BY <1>7 DEF Attributed, b, e

LEMMA InsertAttributed ==
    ASSUME HonestMeter, IInv, NeverOverAttributed, InsertReadings
    PROVE  NeverOverAttributed'
  <1> DEFINE kept == Kept(cfg, loop.result)
  <1>1. /\ cfg \in Configs /\ cfg.update = FALSE
        /\ loop.result \in Seq(Accepted) /\ AcceptedAreExplained
    BY CounterAssumption, ConfigsAssumption DEF IInv, TypeOK, Locals
  <1>2. kept \in SUBSET DOMAIN loop.result
    BY KeptInDomain
  <1>3. CASE ~TableAccepts(loop.result, kept)
    BY <1>3 DEF InsertReadings, NeverOverAttributed
  <1>4. CASE TableAccepts(loop.result, kept)
    <2>1. readings' \subseteq readings \cup New(loop.result, kept)
      BY <1>1, <1>2, <1>4, StoredIsNew DEF InsertReadings
    <2> HIDE DEF kept
    <2>2. ASSUME NEW i \in kept PROVE Attributed(cfg, loop.result[i])
      <3>1. /\ loop.result[i] \in Accepted
            /\ loop.result[i].start < loop.result[i].end
            /\ Explained(cfg, loop.result[i])
        BY <1>1, <1>2, <1>4 DEF TableAccepts, AcceptedAreExplained
      <3>2. QED
        BY <1>1, <3>1, ExplainedIsAttributed
    <2>3. ASSUME NEW r \in New(loop.result, kept) PROVE Attributed(cfg, r)
      BY <2>2 DEF New, Attributed
    <2>4. QED
      BY <1>1, <2>1, <2>3 DEF NeverOverAttributed, Attributed
  <1>5. QED
    BY <1>3, <1>4

(* If the meter is honest, the readings table never credits an interval    *)
(* with more energy than was used in it, widened by the largest allowed    *)
(* gap (insertOrIgnoreAll of what processData accepted).                   *)
THEOREM EnergyBounded == ASSUME HonestMeter PROVE Spec => []NeverOverAttributed
  <1>1. Init => NeverOverAttributed
    BY DEF Init, NeverOverAttributed
  <1>2. IInv /\ NeverOverAttributed /\ [Next]_vars => NeverOverAttributed'
    <2> SUFFICES ASSUME IInv, NeverOverAttributed, [Next]_vars PROVE NeverOverAttributed'
      OBVIOUS
    <2>1. CASE InsertReadings
      BY <2>1, InsertAttributed
    <2>2. CASE readings' = readings
      BY <2>2 DEF NeverOverAttributed
    <2>3. QED
      BY <2>1, <2>2 DEF Next, vars, StartBatch, ProcessRow, RejectBatch, GiveUp, FinishBatch,
                        AbandonBatch, CrashInLoop, CrashBeforeInsert
  <1>3. QED
    BY <1>1, <1>2, SpecIInv, PTL DEF Spec

-----------------------------------------------------------------------------
(* The pipeline implements the ledger of CounterLedger.  The work is in    *)
(* the insert, where of the readings with one start the first is stored if *)
(* none is there yet.                                                      *)

(* A set of natural numbers that is not empty has a least element.         *)
LEMMA LeastNat ==
    ASSUME NEW T \in SUBSET Nat, T # {}
    PROVE  \E x \in T : \A y \in T : x <= y
  <1> DEFINE R == OpToRel(<, Nat)
  <1>1. IsWellFoundedOn(R, Nat)
    BY NatLessThanWellFounded
  <1>2. PICK x \in T : \A y \in T : ~(<<y, x>> \in R)
    <2> HIDE DEF R
    <2>1. QED
      BY <1>1, WFMin
  <1>3. ASSUME NEW y \in T PROVE x <= y
    <2>1. x \in Nat /\ y \in Nat
      OBVIOUS
    <2>2. ~(y < x)
      BY <1>2, <2>1 DEF OpToRel
    <2>3. QED
      BY <2>1, <2>2
  <1>4. QED
    BY <1>3

(* The places of the readings an insert without update adds: the first of  *)
(* each start that is not there.                                           *)
Firsts(rs, kept, db) ==
    {i \in kept : /\ \A r \in db : r.start # rs[i].start
                  /\ \A j \in kept : rs[j].start = rs[i].start => i <= j}

Added(rs, kept, db) == {Plain(rs, i) : i \in Firsts(rs, kept, db)}
AllOf(rs, kept) == {Plain(rs, i) : i \in kept}

LEMMA StoredIsFirsts ==
    ASSUME NEW rs, NEW kept, NEW db
    PROVE  Stored(rs, kept, db, FALSE) = db \cup Added(rs, kept, db)
  <1> DEFINE at(t) == {i \in kept : rs[i].start = t}
             isNew(i) == /\ \A r \in db : r.start # rs[i].start
                         /\ \A j \in at(rs[i].start) : i <= j
             row(i) == [start |-> rs[i].start, end |-> rs[i].end, val |-> rs[i].val]
             added == {row(i) : i \in {k \in kept : isNew(k)}}
  <1>1. Stored(rs, kept, db, FALSE) = {r : r \in db \cup added}
    BY DEF Stored
  <1>2. {k \in kept : isNew(k)} = Firsts(rs, kept, db)
    BY DEF Firsts
  <1>3. added = Added(rs, kept, db)
    BY <1>2 DEF Plain, Added
  <1> HIDE DEF added
  <1>4. QED
    BY <1>1, <1>3

(* What is added has one reading for each start that was owed and had none *)
(* in the table.                                                           *)
LEMMA StoredOnce ==
    ASSUME NEW rs, NEW kept \in SUBSET Nat, NEW db
    PROVE  /\ Added(rs, kept, db) \in SUBSET AllOf(rs, kept)
           /\ Ledger!Starts(Added(rs, kept, db)) = Ledger!Starts(AllOf(rs, kept)) \ Ledger!Starts(db)
           /\ \A a, b \in Added(rs, kept, db) : a.start = b.start => a = b
  <1> DEFINE new == Added(rs, kept, db)
             owed == AllOf(rs, kept)
  <1> USE DEF Added, AllOf
  <1>0. \A i : Plain(rs, i).start = rs[i].start
    BY DEF Plain
  <1>1. new \in SUBSET owed
    BY DEF Firsts
  <1>2. ASSUME NEW a \in new, NEW b \in new, a.start = b.start
        PROVE  a = b
    <2>1. PICK i \in Firsts(rs, kept, db) : a = Plain(rs, i)
      OBVIOUS
    <2>2. PICK j \in Firsts(rs, kept, db) : b = Plain(rs, j)
      OBVIOUS
    <2>3. rs[i].start = rs[j].start
      BY <1>0, <1>2, <2>1, <2>2
    <2>4. i \in Nat /\ j \in Nat /\ i <= j /\ j <= i
      BY <2>3 DEF Firsts
    <2>5. i = j
      BY <2>4
    <2>6. QED
      BY <2>1, <2>2, <2>5
  <1>3. ASSUME NEW s \in Ledger!Starts(new)
        PROVE  s \in Ledger!Starts(owed) \ Ledger!Starts(db)
    <2>1. PICK i \in Firsts(rs, kept, db) : s = Plain(rs, i).start
      BY DEF Ledger!Starts
    <2>2. i \in kept /\ \A r \in db : r.start # rs[i].start
      BY DEF Firsts
    <2>3. s \in Ledger!Starts(owed)
      BY <2>1, <2>2 DEF Ledger!Starts
    <2>4. s \notin Ledger!Starts(db)
      BY <1>0, <2>1, <2>2 DEF Ledger!Starts
    <2>5. QED
      BY <2>3, <2>4
  <1>4. ASSUME NEW s \in Ledger!Starts(owed) \ Ledger!Starts(db)
        PROVE  s \in Ledger!Starts(new)
    <2> DEFINE T == {i \in kept : rs[i].start = s}
    <2>1. T # {}
      BY <1>0 DEF Ledger!Starts
    <2>2. T \in SUBSET Nat
      OBVIOUS
    <2> HIDE DEF T
    <2>3. PICK i \in T : \A j \in T : i <= j
      BY <2>1, <2>2, LeastNat
    <2> USE DEF T
    <2>4. \A r \in db : r.start # s
      BY DEF Ledger!Starts
    <2>5. i \in Firsts(rs, kept, db)
      BY <2>3, <2>4 DEF Firsts
    <2>6. QED
      BY <1>0, <2>3, <2>5 DEF Ledger!Starts
  <1>5. QED
    BY <1>1, <1>2, <1>3, <1>4

-----------------------------------------------------------------------------
LEMMA ToldIsShown ==
    ASSUME IInv
    PROVE  Told \in {s \in [reading : Int, at : Nat] : s.at # E0 => s.reading = Shows(s.at)}
  BY DEF IInv, TypeOK, Stamp, MeterMatchesCounter, Told

LEMMA InitLedger ==
    ASSUME Init
    PROVE  Ledger!Init
  <1>1. IInv
    BY InitIInv
  <1>2. Owed = {} /\ readings = {}
    BY DEF Init, Owed
  <1>3. QED
    BY <1>1, <1>2, ToldIsShown DEF Ledger!Init

(* processData ends: what is owed is what the checks kept of what the      *)
(* counter explains.                                                       *)
LEMMA FinishBatchLedger ==
    ASSUME IInv, IInv', FinishBatch
    PROVE  Ledger!Count
  <1> DEFINE legit == {r \in Reading : \E c \in Configs : Explained(c, r)}
  <1>1. Owed = {}
    BY DEF FinishBatch, Owed
  <1>2. /\ loop.result \in Seq(Accepted) /\ cfg \in Configs
        /\ pc' = "insert" /\ loop' = loop /\ cfg' = cfg /\ readings' = readings
    BY DEF IInv, TypeOK, Locals, FinishBatch
  <1>3. ASSUME NEW i \in Kept(cfg, loop.result)
        PROVE  Plain(loop.result, i) \in legit
    <2>1. i \in DOMAIN loop.result
      BY KeptInDomain
    <2>2. loop.result[i] \in Accepted /\ Explained(cfg, loop.result[i])
      BY <1>2, <2>1 DEF IInv, AcceptedAreExplained
    <2>3. Explained(cfg, Plain(loop.result, i))
      BY <2>2 DEF Explained, Plain
    <2>4. Plain(loop.result, i) \in Reading
      BY <2>2 DEF Accepted, Reading, Plain
    <2>5. QED
      BY <1>2, <2>3, <2>4
  <1>4. Owed' = {Plain(loop.result, i) : i \in Kept(cfg, loop.result)}
    BY <1>2 DEF Owed
  <1>5. Owed' \subseteq legit
    BY <1>3, <1>4
  <1>6. Told' \in {s \in [reading : Int, at : Nat] : s.at # E0 => s.reading = Shows(s.at)}
    BY DEF IInv, TypeOK, Stamp, MeterMatchesCounter, Told
  <1>7. QED
    BY <1>1, <1>2, <1>5, <1>6 DEF Ledger!Count

(* loadArrayInput stores all that is owed, or nothing when the table       *)
(* refuses a reading.                                                      *)
LEMMA InsertReadingsLedger ==
    ASSUME IInv, InsertReadings
    PROVE  Ledger!Next
  <1> DEFINE rs == loop.result
             kept == Kept(cfg, rs)
             new == Added(rs, kept, readings)
  <1>1. /\ Owed = AllOf(rs, kept) /\ Owed' = {}
        /\ Told' = Told
    BY DEF InsertReadings, Owed, Told, AllOf
  <1>2. cfg.update = FALSE
    <2>1. cfg \in Configs /\ ~cfg.update
      BY CounterAssumption DEF IInv, TypeOK
    <2>2. QED
      BY <2>1, ConfigsAssumption
  <1>3. kept \in SUBSET Nat
    <2>1. rs \in Seq(Accepted)
      BY DEF IInv, TypeOK, Locals
    <2>2. DOMAIN rs \subseteq Nat
      BY <2>1
    <2>3. QED
      BY <2>2, KeptInDomain
  <1>4. CASE ~TableAccepts(rs, kept)
    <2>1. readings' = readings
      BY <1>4 DEF InsertReadings
    <2>2. QED
      BY <1>1, <2>1 DEF Ledger!Next, Ledger!Lose
  <1>5. CASE TableAccepts(rs, kept)
    <2>1. readings' = Stored(rs, kept, readings, FALSE)
      BY <1>2, <1>5 DEF InsertReadings
    <2> HIDE DEF rs, kept
    <2>2. readings' = readings \cup new
      BY <2>1, StoredIsFirsts
    <2>3. /\ new \in SUBSET Owed
          /\ Ledger!Starts(new) = Ledger!Starts(Owed) \ Ledger!Starts(readings)
          /\ \A a, b \in new : a.start = b.start => a = b
      BY <1>1, <1>3, StoredOnce
    <2> HIDE DEF new
    <2>4. Ledger!Store
      BY <1>1, <2>2, <2>3 DEF Ledger!Store
    <2>5. QED
      BY <2>4 DEF Ledger!Next
  <1>6. QED
    BY <1>4, <1>5

(* The other steps leave the ledger alone, but for the crash that loses    *)
(* what is owed.                                                           *)
LEMMA NextLedger ==
    ASSUME IInv, IInv', [Next]_vars
    PROVE  [Ledger!Next]_<<Told, Owed, readings>>
  <1>1. CASE FinishBatch
    BY <1>1, FinishBatchLedger DEF Ledger!Next
  <1>2. CASE InsertReadings
    BY <1>2, InsertReadingsLedger
  <1>3. CASE CrashBeforeInsert
    <2>1. Owed' = {} /\ Told' = Told /\ readings' = readings
      BY <1>3 DEF CrashBeforeInsert, Owed, Told
    <2>2. QED
      BY <2>1 DEF Ledger!Next, Ledger!Lose
  <1>4. ASSUME pc # "insert", pc' # "insert", meter' = meter, readings' = readings
        PROVE  UNCHANGED <<Told, Owed, readings>>
    BY <1>4 DEF Told, Owed
  <1>5. CASE \E c \in Configs : StartBatch(c)
    BY <1>4, <1>5 DEF StartBatch
  <1>6. CASE \E row \in Rows : ProcessRow(row)
    BY <1>4, <1>6 DEF ProcessRow, Delivered
  <1>7. CASE \E row \in Rows : RejectBatch(row)
    BY <1>4, <1>7 DEF RejectBatch, Delivered, GiveUp
  <1>8. CASE AbandonBatch \/ CrashInLoop
    BY <1>4, <1>8 DEF AbandonBatch, CrashInLoop, GiveUp
  <1>9. CASE UNCHANGED vars
    BY <1>9 DEF vars, Told, Owed
  <1>10. QED
    BY <1>1, <1>2, <1>3, <1>5, <1>6, <1>7, <1>8, <1>9 DEF Next

(* The pipeline implements the ledger: a reading is stored only after the  *)
(* update of the meter that counts its row, once at most for each start,   *)
(* and with the others of its batch or not at all (processData and         *)
(* loadArrayInput, for any rows, settings, counter and order of delivery). *)
THEOREM LedgerKept == Spec => KeepsLedger
  <1>1. Init => Ledger!Init
    BY InitLedger
  <1>2. IInv /\ IInv' /\ [Next]_vars => [Ledger!Next]_<<Told, Owed, readings>>
    BY NextLedger
  <1>3. QED
    BY <1>1, <1>2, SpecIInv, PTL DEF Spec, KeepsLedger, Ledger!Spec, Ledger!vars
=============================================================================
