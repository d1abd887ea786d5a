-------------------------- MODULE ChartPagesProofs --------------------------
(***************************************************************************)
(* Proofs about ChartPages, for any meters, groups, units, dates and links *)
(* and any number of choices, uploads, failures and keys forgotten: a      *)
(* chart at rest has what it asks for, the effects of its components come  *)
(* to rest, and a link opens the chart it was made from.                   *)
(***************************************************************************)
EXTENDS ChartPages, SequenceTheorems, WellFoundedInduction, TLAPS

StateFields ==
    {"meters", "groups", "unit", "chart", "interval", "slider", "three", "last", "area",
     "shift", "shifted", "hotlinked"}

IsState(g) ==
    /\ g = [f \in StateFields |-> g[f]]
    /\ g.meters \in Seq(Entities) /\ g.groups \in Seq(Entities)
    /\ g.hotlinked \in BOOLEAN

(* A history is of states that all follow the same link, or none.          *)
IsStack(s, hotlinked) ==
    /\ s \in Seq(Range(s))
    /\ \A i \in 1..Len(s) : IsState(s[i]) /\ s[i].hotlinked = hotlinked

IsHistory(h) ==
    /\ DOMAIN h = {"prev", "current", "next"}
    /\ IsState(h.current)
    /\ IsStack(h.prev, h.current.hotlinked)
    /\ IsStack(h.next, h.current.hotlinked)

(* History h leads to k with at most n more states to go back through.     *)
Leads(h, k, n) ==
    /\ IsHistory(k)
    /\ k.current.hotlinked = h.current.hotlinked
    /\ Len(k.prev) <= Len(h.prev) + n

(* What is selected fits the pills of 3D and compare line.                 *)
Fits(g) ==
    /\ g.three \in {None} \cup Range(Selected(g))
    /\ Len(Selected(g)) = 1 => g.three = Selected(g)[1]

Stale(g) == g.three # None /\ g.three \notin Range(Selected(g))

(* How many states the effects still put on the history, at most.          *)
PillsOwe(g, more) ==
    IF Len(Selected(g)) = 1
    THEN IF g.three = Selected(g)[1] THEN 0 ELSE IF g.three = None THEN 1 ELSE 3
    ELSE (IF Stale(g) THEN 1 ELSE 0) + (IF more THEN 1 ELSE 0)

ShiftRuns(r, g) ==
    /\ g.chart = "compareLine" /\ g.shift # "custom" /\ g.interval # Whole
    /\ \/ r = NoChart \/ r.chart # "compareLine"
       \/ <<r.shift, r.interval>> # <<g.shift, g.interval>>

More(r, g, n) == r # NoChart /\ r.chart = g.chart /\ Len(Selected(g)) > n

Owe(r, g, n) ==
    IF g.chart = "line" THEN 0
    ELSE (IF ShiftRuns(r, g) THEN 1 ELSE 0) + PillsOwe(g, More(r, g, n))

-----------------------------------------------------------------------------
(* Sequences                                                               *)

LEMMA LeastNat ==
    ASSUME NEW T \in SUBSET Nat, T # {}
    PROVE  \E x \in T : \A y \in T : x <= y
  <1> DEFINE R == OpToRel(<, Nat)
  <1>1. IsWellFoundedOn(R, Nat)
    BY NatLessThanWellFounded
  <1>2. PICK x \in T : \A y \in T : ~(<<y, x>> \in R)
    <2> HIDE DEF R
    <2>1. QED
      BY <1>1, WFMin
  <1>3. ASSUME NEW y \in T PROVE x <= y
    <2>1. x \in Nat /\ y \in Nat
      OBVIOUS
    <2>2. ~(y < x)
      BY <1>2, <2>1 DEF OpToRel
    <2>3. QED
      BY <2>1, <2>2
  <1>4. QED
    BY <1>3

(* A set that has 0, and with each number the next, has them all.          *)
LEMMA AllNat ==
    ASSUME NEW S, 0 \in S, \A k \in Nat : k \in S => k + 1 \in S
    PROVE  Nat \subseteq S
  <1> DEFINE T == {k \in Nat : k \notin S}
  <1>1. SUFFICES ASSUME T # {} PROVE FALSE
    OBVIOUS
  <1>2. T \in SUBSET Nat
    OBVIOUS
  <1> HIDE DEF T
  <1>3. PICK k \in T : \A j \in T : k <= j
    BY <1>1, <1>2, LeastNat
  <1>4. k # 0 /\ k \in Nat /\ k \notin S
    BY <1>3 DEF T
  <1>5. k - 1 \in Nat /\ k - 1 \notin T /\ (k - 1) + 1 = k
    BY <1>3, <1>4
  <1>6. k - 1 \in S
    BY <1>5 DEF T
  <1>7. QED
    BY <1>4, <1>5, <1>6

(* What is kept of each beginning of s.                                    *)
Grown(kept, e, S) == IF e \in S THEN Append(kept, e) ELSE kept
Keeps(f, s, S, n) == f = [i \in 0..n |-> IF i = 0 THEN <<>> ELSE Grown(f[i - 1], s[i], S)]

LEMMA KeepsExist ==
    ASSUME NEW s, NEW S, NEW n \in Nat
    PROVE  \E f : Keeps(f, s, S, n)
  <1> DEFINE Z == {k \in Nat : \E f : Keeps(f, s, S, k)}
  <1>1. 0 \in Z
    <2>1. Keeps([i \in 0..0 |-> <<>>], s, S, 0)
      BY DEF Keeps
    <2>2. QED
      BY <2>1
  <1>2. ASSUME NEW k \in Nat, k \in Z PROVE k + 1 \in Z
    <2>1. PICK f : Keeps(f, s, S, k)
      BY <1>2
    <2> DEFINE g == [i \in 0..(k + 1) |-> IF i <= k THEN f[i] ELSE Grown(f[k], s[k + 1], S)]
    <2>2. ASSUME NEW i \in 0..(k + 1)
          PROVE  g[i] = IF i = 0 THEN <<>> ELSE Grown(g[i - 1], s[i], S)
      <3>1. CASE i = 0
        BY <2>1, <3>1 DEF Keeps
      <3>2. CASE i # 0 /\ i <= k
        <4>1. f[i] = Grown(f[i - 1], s[i], S)
          BY <2>1, <3>2 DEF Keeps
        <4>2. g[i - 1] = f[i - 1] /\ g[i] = f[i]
          BY <3>2
        <4>3. QED
          BY <3>2, <4>1, <4>2
      <3>3. CASE i = k + 1
        <4>1. g[i - 1] = f[k] /\ g[i] = Grown(f[k], s[k + 1], S) /\ i # 0
          BY <3>3
        <4>2. QED
          BY <3>3, <4>1
      <3>4. QED
        BY <3>1, <3>2, <3>3
    <2>3. g = [i \in 0..(k + 1) |-> g[i]]
      OBVIOUS
    <2> HIDE DEF g
    <2>4. Keeps(g, s, S, k + 1)
      BY <2>2, <2>3 DEF Keeps
    <2>5. QED
      BY <2>4
  <1>3. Nat \subseteq Z
    <2> HIDE DEF Z
    <2>1. QED
      BY <1>1, <1>2, AllNat
  <1>4. QED
    BY <1>3

(* Among keeps all of S that is in s, and nothing else than s has.         *)
LEMMA AmongKeeps ==
    ASSUME NEW T, NEW s \in Seq(T), NEW S
    PROVE  /\ Among(s, S) \in Seq(T)
           /\ \A i \in 1..Len(s) : s[i] \in S => s[i] \in Range(Among(s, S))
  <1> DEFINE f == CHOOSE f : Keeps(f, s, S, Len(s))
             Kept(k) == /\ f[k] \in Seq(T)
                        /\ \A i \in 1..k : s[i] \in S => \E j \in 1..Len(f[k]) : f[k][j] = s[i]
             Z == {k \in Nat : k <= Len(s) => Kept(k)}
  <1>1. Keeps(f, s, S, Len(s))
    BY KeepsExist
  <1>2. Among(s, S) = f[Len(s)]
    BY Zenon DEF Among, Keeps, Grown
  <1> HIDE DEF f
  <1>3. 0 \in Z
    BY <1>1 DEF Keeps
  <1>4. ASSUME NEW k \in Nat, k \in Z PROVE k + 1 \in Z
    <2>1. SUFFICES ASSUME k + 1 <= Len(s) PROVE Kept(k + 1)
      OBVIOUS
    <2>2. Kept(k)
      BY <1>4, <2>1
    <2>3. f[k + 1] = Grown(f[k], s[k + 1], S)
      BY <1>1, <2>1 DEF Keeps
    <2>4. CASE s[k + 1] \in S
      <3>1. f[k + 1] = Append(f[k], s[k + 1]) /\ s[k + 1] \in T
        BY <2>1, <2>3, <2>4 DEF Grown
      <3>2. f[k + 1] \in Seq(T) /\ Len(f[k + 1]) = Len(f[k]) + 1 /\ Len(f[k]) \in Nat
        BY <2>2, <3>1
      <3>3. f[k + 1][Len(f[k]) + 1] = s[k + 1]
            /\ \A j \in 1..Len(f[k]) : f[k + 1][j] = f[k][j]
        BY <2>2, <3>1
      <3>4. ASSUME NEW i \in 1..(k + 1), s[i] \in S
            PROVE  \E j \in 1..Len(f[k + 1]) : f[k + 1][j] = s[i]
        <4>1. CASE i = k + 1
          BY <3>2, <3>3, <4>1
        <4>2. CASE i \in 1..k
          <5>1. PICK j \in 1..Len(f[k]) : f[k][j] = s[i]
            BY <2>2, <3>4, <4>2
          <5>2. j \in 1..Len(f[k + 1]) /\ f[k + 1][j] = s[i]
            BY <3>2, <3>3, <5>1
          <5>3. QED
            BY <5>2
        <4>3. QED
          BY <4>1, <4>2
      <3>5. QED
        BY <3>2, <3>4
    <2>5. CASE s[k + 1] \notin S
      <3>1. f[k + 1] = f[k]
        BY <2>3, <2>5 DEF Grown
      <3>2. ASSUME NEW i \in 1..(k + 1), s[i] \in S PROVE i \in 1..k
        BY <2>5, <3>2
      <3>3. QED
        BY <2>2, <3>1, <3>2
    <2>6. QED
      BY <2>4, <2>5
  <1>5. Nat \subseteq Z
    <2> HIDE DEF Z
    <2>1. QED
      BY <1>3, <1>4, AllNat
  <1>6. Kept(Len(s))
    <2>1. Len(s) \in Nat
      OBVIOUS
    <2>2. QED
      BY <1>5, <2>1
  <1>7. QED
    BY <1>2, <1>6 DEF Range

-----------------------------------------------------------------------------
(* The history                                                             *)

LEMMA AppendIsStack ==
    ASSUME NEW s, NEW b, IsStack(s, b), NEW g, IsState(g), g.hotlinked = b
    PROVE  IsStack(Append(s, g), b) /\ Len(Append(s, g)) = Len(s) + 1
  <1> DEFINE t == Append(s, g)
             T == Range(s) \cup {g}
  <1>1. t \in Seq(T) /\ Len(t) = Len(s) + 1 /\ Len(s) \in Nat
    BY DEF IsStack
  <1>2. \A i \in 1..Len(t) : t[i] = IF i <= Len(s) THEN s[i] ELSE g
    BY DEF IsStack
  <1>3. \A i \in 1..Len(t) : IsState(t[i]) /\ t[i].hotlinked = b
    BY <1>1, <1>2 DEF IsStack
  <1>4. DOMAIN t = 1..Len(t)
    BY <1>1
  <1> HIDE DEF t
  <1>5. t \in Seq(Range(t))
    BY <1>1, <1>4 DEF Range
  <1>6. QED
    BY <1>1, <1>3, <1>5 DEF IsStack, t

LEMMA FrontIsStack ==
    ASSUME NEW s, NEW b, IsStack(s, b), s # <<>>
    PROVE  /\ IsStack(Front(s), b) /\ Len(Front(s)) = Len(s) - 1
           /\ IsState(Last(s)) /\ Last(s).hotlinked = b
  <1> DEFINE t == Front(s)
  <1>1. s \in Seq(Range(s)) /\ Len(s) \in Nat /\ Len(s) # 0
    BY DEF IsStack
  <1> DEFINE n == Len(s) - 1
  <1>a. n \in Nat /\ 1 \in Int /\ \A i \in 1..n : s[i] \in Range(s)
    <2>1. DOMAIN s = 1..Len(s)
      BY <1>1
    <2>2. QED
      BY <1>1, <2>1 DEF Range
  <1>b. t = SubSeq(s, 1, n)
    BY DEF Front
  <1> HIDE DEF t, n
  <1>c. /\ SubSeq(s, 1, n) \in Seq(Range(s))
        /\ Len(SubSeq(s, 1, n)) = IF 1 <= n THEN n - 1 + 1 ELSE 0
        /\ \A i \in 1..(n - 1 + 1) : SubSeq(s, 1, n)[i] = s[1 + i - 1]
    BY <1>a, SubSeqProperties
  <1>2. t \in Seq(Range(s)) /\ Len(t) = n /\ DOMAIN t = 1..Len(t)
    <2>1. t \in Seq(Range(s)) /\ Len(t) = n
      BY <1>a, <1>b, <1>c
    <2>2. QED
      BY <2>1, LenProperties
  <1>3. \A i \in 1..Len(t) : t[i] = s[i]
    BY <1>a, <1>b, <1>c, <1>2
  <1>4. \A i \in 1..Len(t) : IsState(t[i]) /\ t[i].hotlinked = b
    BY <1>1, <1>a, <1>2, <1>3 DEF IsStack, n
  <1>5. IsState(Last(s)) /\ Last(s).hotlinked = b
    BY <1>1 DEF Last, IsStack
  <1>6. t \in Seq(Range(t))
    BY <1>2 DEF Range
  <1>7. QED
    BY <1>2, <1>4, <1>5, <1>6 DEF IsStack, t, n

LEMMA NoStack ==
    ASSUME NEW b
    PROVE  IsStack(<<>>, b)
  BY DEF IsStack, Range

LEMMA PutLeads ==
    ASSUME NEW h, IsHistory(h), NEW g, IsState(g), g.hotlinked = h.current.hotlinked
    PROVE  Leads(h, Put(h, g), 1) /\ Put(h, g).current = g
  <1>1. IsStack(Append(h.prev, h.current), g.hotlinked)
        /\ Len(Append(h.prev, h.current)) = Len(h.prev) + 1
    BY AppendIsStack DEF IsHistory
  <1>2. Len(h.prev) \in Nat
    BY DEF IsHistory, IsStack
  <1>3. QED
    BY <1>1, <1>2, NoStack DEF Put, Leads, IsHistory

LEMMA SetLeads ==
    ASSUME NEW h, IsHistory(h), NEW g, IsState(g), g.hotlinked = h.current.hotlinked
    PROVE  Leads(h, Set(h, g), 1) /\ Set(h, g).current = g
  <1>1. Len(h.prev) \in Nat
    BY DEF IsHistory, IsStack
  <1>2. CASE g = h.current
    BY <1>1, <1>2 DEF Set, Leads
  <1>3. CASE g # h.current
    BY <1>3, PutLeads DEF Set
  <1>4. QED
    BY <1>2, <1>3

LEMMA LeadsOn ==
    ASSUME NEW h, NEW k, NEW l, NEW n \in Int, NEW m \in Int, IsHistory(h),
           Leads(h, k, n), Leads(k, l, m)
    PROVE  Leads(h, l, n + m)
  <1>1. Len(h.prev) \in Nat /\ Len(k.prev) \in Nat /\ Len(l.prev) \in Nat
    BY DEF Leads, IsHistory, IsStack
  <1>2. Len(k.prev) <= Len(h.prev) + n /\ Len(l.prev) <= Len(k.prev) + m
    BY DEF Leads
  <1>3. Len(l.prev) <= Len(h.prev) + (n + m)
    <2>1. \A x, y, z \in Nat : y <= x + n /\ z <= y + m => z <= x + (n + m)
      OBVIOUS
    <2>2. QED
      BY <1>1, <1>2, <2>1
  <1>4. IsHistory(l) /\ l.current.hotlinked = h.current.hotlinked
    BY DEF Leads
  <1>5. QED
    BY <1>3, <1>4 DEF Leads

(* Fewer states are more than promised.                                    *)
LEMMA LeadsLess ==
    ASSUME NEW h, NEW k, NEW n \in Int, NEW m \in Int, IsHistory(h), Leads(h, k, n), n <= m
    PROVE  Leads(h, k, m)
  <1>1. Len(h.prev) \in Nat /\ Len(k.prev) \in Nat
    BY DEF Leads, IsHistory, IsStack
  <1>2. QED
    BY <1>1 DEF Leads

LEMMA StaysHere ==
    ASSUME NEW h, IsHistory(h)
    PROVE  Leads(h, h, 0)
  <1>1. Len(h.prev) \in Nat
    BY DEF IsHistory, IsStack
  <1>2. QED
    BY <1>1 DEF Leads

LEMMA BackLeads ==
    ASSUME NEW h, IsHistory(h), h.prev # <<>>
    PROVE  Leads(h, StepBack(h), 0)
  <1>1. IsStack(Front(h.prev), h.current.hotlinked) /\ Len(Front(h.prev)) = Len(h.prev) - 1
        /\ IsState(Last(h.prev)) /\ Last(h.prev).hotlinked = h.current.hotlinked
    BY FrontIsStack DEF IsHistory
  <1>2. IsStack(Append(h.next, h.current), h.current.hotlinked)
    BY AppendIsStack DEF IsHistory
  <1>3. Len(h.prev) \in Nat
    BY DEF IsHistory, IsStack
  <1>4. QED
    BY <1>1, <1>2, <1>3 DEF StepBack, Leads, IsHistory

LEMMA ForwardLeads ==
    ASSUME NEW h, IsHistory(h), h.next # <<>>
    PROVE  Leads(h, StepForward(h), 1)
  <1>1. IsStack(Front(h.next), h.current.hotlinked)
        /\ IsState(Last(h.next)) /\ Last(h.next).hotlinked = h.current.hotlinked
    BY FrontIsStack DEF IsHistory
  <1>2. IsStack(Append(h.prev, h.current), h.current.hotlinked)
        /\ Len(Append(h.prev, h.current)) = Len(h.prev) + 1
    BY AppendIsStack DEF IsHistory
  <1>3. Len(h.prev) \in Nat
    BY DEF IsHistory, IsStack
  <1>4. QED
    BY <1>1, <1>2, <1>3 DEF StepForward, Leads, IsHistory

LEMMA DefaultIsState == IsState(DefaultState) /\ ~DefaultState.hotlinked
  BY DEF IsState, DefaultState, StateFields

LEMMA AtDefault ==
    IsHistory([prev |-> <<>>, current |-> DefaultState, next |-> <<>>])
  BY DefaultIsState, NoStack DEF IsHistory

(* The pills are the meters and the groups selected.                       *)
LEMMA SelectedIs ==
    ASSUME NEW g, IsState(g)
    PROVE  /\ Selected(g) \in Seq(Entities)
           /\ Len(Selected(g)) = Len(g.meters) + Len(g.groups)
           /\ Len(Selected(g)) \in Nat /\ Len(g.meters) \in Nat /\ Len(g.groups) \in Nat
           /\ Range(Selected(g)) \subseteq Entities
           /\ Range(g.meters) \cup Range(g.groups) \subseteq Range(Selected(g))
           /\ None \notin Range(Selected(g)) /\ Nought \notin Range(Selected(g))
           /\ \A i \in 1..Len(Selected(g)) : Selected(g)[i] \in Range(Selected(g))
           /\ Len(Selected(g)) = 1 => Range(Selected(g)) = {Selected(g)[1]}
  <1> DEFINE s == Selected(g)
             a == g.meters
             b == g.groups
  <1>1. a \in Seq(Entities) /\ b \in Seq(Entities)
    BY DEF IsState
  <1>2. s = a \o b
    BY DEF Selected
  <1> HIDE DEF s, a, b
  <1>a. s \in Seq(Entities) /\ Len(s) = Len(a) + Len(b)
        /\ \A i \in 1..(Len(a) + Len(b)) : s[i] = IF i <= Len(a) THEN a[i] ELSE b[i - Len(a)]
    BY <1>1, <1>2, ConcatProperties
  <1>3. Len(s) \in Nat /\ Len(a) \in Nat /\ Len(b) \in Nat
        /\ DOMAIN s = 1..Len(s) /\ DOMAIN a = 1..Len(a) /\ DOMAIN b = 1..Len(b)
    BY <1>1, <1>a, LenProperties
  <1>4. \A i \in 1..Len(a) : i \in 1..Len(s) /\ s[i] = a[i]
    BY <1>a, <1>3
  <1>5. \A i \in 1..Len(b) : Len(a) + i \in 1..Len(s) /\ s[Len(a) + i] = b[i]
    <2>1. \A x, y, i \in Nat : i \in 1..y =>
              x + i \in 1..(x + y) /\ ~(x + i <= x) /\ (x + i) - x = i
      OBVIOUS
    <2>2. QED
      BY <1>a, <1>3, <2>1
  <1>b. \A i \in 1..Len(s) : s[i] \in Entities
    BY <1>a
  <1>6. Range(s) \subseteq Entities /\ \A i \in 1..Len(s) : s[i] \in Range(s)
    BY <1>b, <1>3 DEF Range
  <1>7. Range(a) \cup Range(b) \subseteq Range(s)
    BY <1>3, <1>4, <1>5 DEF Range
  <1>8. None \notin Range(s) /\ Nought \notin Range(s)
    BY <1>6, ChartAssumption DEF Entities
  <1>9. Len(s) = 1 => Range(s) = {s[1]}
    BY <1>3 DEF Range
  <1>10. QED
    BY <1>a, <1>3, <1>6, <1>7, <1>8, <1>9 DEF s, a, b

-----------------------------------------------------------------------------
(* The effects                                                             *)

LEMMA StateIsNoNone ==
    ASSUME NEW g, IsState(g)
    PROVE  g # NoChart
  <1>1. DOMAIN g = StateFields
    BY DEF IsState
  <1>2. "chart" \in StateFields /\ DOMAIN NoChart = {}
    BY DEF StateFields, NoChart
  <1>3. QED
    BY <1>1, <1>2

LEMMA AnotherThree ==
    ASSUME NEW g, IsState(g), NEW e
    PROVE  LET x == [g EXCEPT !.three = e]
           IN  /\ IsState(x) /\ x.three = e
               /\ \A f \in StateFields \ {"three"} : x[f] = g[f]
               /\ Selected(x) = Selected(g)
               /\ g.three = e => x = g
  <1> DEFINE x == [g EXCEPT !.three = e]
  <1>1. DOMAIN g = StateFields /\ "three" \in StateFields
    BY DEF IsState, StateFields
  <1>2. x = [f \in StateFields |-> IF f = "three" THEN e ELSE g[f]]
    BY <1>1
  <1> HIDE DEF x
  <1>3. x.three = e /\ \A f \in StateFields \ {"three"} : x[f] = g[f]
    BY <1>1, <1>2
  <1>4. x = [f \in StateFields |-> x[f]]
    BY <1>2, <1>3
  <1>5. x.meters = g.meters /\ x.groups = g.groups /\ x.hotlinked = g.hotlinked
    BY <1>3 DEF StateFields
  <1>6. g.three = e => x = g
    BY <1>2 DEF IsState
  <1>7. QED
    BY <1>3, <1>4, <1>5, <1>6 DEF IsState, Selected, x

LEMMA SetThreeLeads ==
    ASSUME NEW h, IsHistory(h), NEW e
    PROVE  LET k == SetThree(h, e)
           IN  /\ Leads(h, k, IF h.current.three = e THEN 0 ELSE 1)
               /\ k.current = [h.current EXCEPT !.three = e]
  <1> DEFINE x == [h.current EXCEPT !.three = e]
  <1>1. IsState(h.current)
    BY DEF IsHistory
  <1>2. IsState(x) /\ x.hotlinked = h.current.hotlinked
        /\ (h.current.three = e => x = h.current)
    BY <1>1, AnotherThree DEF StateFields
  <1>3. SetThree(h, e) = Set(h, x)
    BY DEF SetThree
  <1> HIDE DEF x
  <1>4. CASE h.current.three = e
    <2>1. Set(h, x) = h
      BY <1>2, <1>4 DEF Set
    <2>2. QED
      BY <1>2, <1>3, <1>4, <2>1, StaysHere DEF x
  <1>5. CASE h.current.three # e
    <2>1. Leads(h, Set(h, x), 1) /\ Set(h, x).current = x
      BY <1>2, SetLeads
    <2>2. QED
      BY <1>3, <1>5, <2>1 DEF x
  <1>6. QED
    BY <1>4, <1>5

(* From h to k only the choice of a pill changes, to e, with at most n     *)
(* states more.                                                            *)
Picks(h, k, e, n) == Leads(h, k, n) /\ k.current = [h.current EXCEPT !.three = e]

LEMMA PicksNone ==
    ASSUME NEW h, IsHistory(h)
    PROVE  Picks(h, h, h.current.three, 0)
  BY StaysHere, AnotherThree DEF Picks, IsHistory

LEMMA PicksOn ==
    ASSUME NEW h, IsHistory(h), NEW k, NEW d, NEW n \in Int, Picks(h, k, d, n), NEW e
    PROVE  Picks(h, SetThree(k, e), e, n + (IF d = e THEN 0 ELSE 1))
  <1> DEFINE l == SetThree(k, e)
             m == IF d = e THEN 0 ELSE 1
  <1>1. IsHistory(k) /\ IsState(h.current)
    BY DEF Picks, Leads, IsHistory
  <1>2. k.current = [h.current EXCEPT !.three = d] /\ k.current.three = d
    BY <1>1, AnotherThree DEF Picks
  <1>3. Leads(k, l, m) /\ l.current = [k.current EXCEPT !.three = e]
    BY <1>1, <1>2, SetThreeLeads
  <1>4. l.current = [h.current EXCEPT !.three = e]
    <2>1. "three" \in DOMAIN h.current
      BY <1>1 DEF IsState, StateFields
    <2>2. QED
      BY <1>2, <1>3, <2>1
  <1>5. m \in Int
    OBVIOUS
  <1> HIDE DEF m, l
  <1>6. Leads(h, l, n + m)
    BY <1>3, <1>5, LeadsOn DEF Picks
  <1>7. QED
    BY <1>4, <1>6 DEF Picks, m, l

LEMMA PillEffectLeads ==
    ASSUME NEW h, IsHistory(h), NEW g, IsState(g), NEW before \in Int,
           h.current.three = g.three, Selected(h.current) = Selected(g)
    PROVE  LET k == PillEffect(h, g, before)
               more == Len(Selected(g)) > before
           IN  \E e : \E n \in 0..3 :
                  /\ Picks(h, k, e, n)
                  /\ n + PillsOwe(k.current, FALSE) <= PillsOwe(g, more)
                  /\ ~Fits(g) => e # g.three
                  /\ Len(Selected(g)) # 1 /\ ~more => e = IF Stale(g) THEN None ELSE g.three
  <1> DEFINE p == Selected(g)
             one == Len(p) = 1
             more == Len(p) > before
             k1 == IF one THEN SetThree(h, p[1]) ELSE h
             e1 == IF one THEN p[1] ELSE g.three
             n1 == IF one /\ g.three # p[1] THEN 1 ELSE 0
             stale == g.three # None /\ g.three \notin Range(p)
             k2 == IF stale THEN SetThree(k1, None) ELSE k1
             e2 == IF stale THEN None ELSE e1
             n2 == IF stale /\ e1 # None THEN 1 ELSE 0
             added == CASE g.last = "meters" -> Last1(g.meters)
                        [] g.last = "groups" -> Last1(g.groups)
                        [] OTHER -> None
             adds == more /\ added # None
             k3 == IF adds THEN SetThree(k2, added) ELSE k2
             e3 == IF adds THEN added ELSE e2
             n3 == IF adds /\ e2 # added THEN 1 ELSE 0
  <1>1. PillEffect(h, g, before) = k3
    BY DEF PillEffect
  <1>2. /\ Len(p) \in Nat
        /\ None \notin Range(p) /\ \A i \in 1..Len(p) : p[i] \in Range(p)
        /\ one => Range(p) = {p[1]} /\ p[1] \in Range(p)
    BY SelectedIs
  <1>3. added # None => added \in Range(p)
    <2>1. \A s : s \in Seq(Entities) /\ Last1(s) # None => Last1(s) \in Range(s)
      <3>1. SUFFICES ASSUME NEW s, s \in Seq(Entities), Last1(s) # None
                     PROVE  Last1(s) \in Range(s)
        OBVIOUS
      <3>2. Len(s) \in Nat \ {0} /\ Last1(s) = s[Len(s)] /\ DOMAIN s = 1..Len(s)
        BY <3>1, EmptySeq, LenProperties DEF Last1
      <3>3. QED
        BY <3>2 DEF Range
    <2>2. g.meters \in Seq(Entities) /\ g.groups \in Seq(Entities)
      BY DEF IsState
    <2>3. Range(g.meters) \cup Range(g.groups) \subseteq Range(p)
      BY SelectedIs
    <2>4. QED
      BY <2>1, <2>2, <2>3
  <1> HIDE DEF added
  <1>4. Picks(h, k1, e1, n1)
    <2>1. Picks(h, h, g.three, 0)
      BY PicksNone
    <2>2. CASE one
      <3>1. Picks(h, SetThree(h, p[1]), p[1], 0 + (IF g.three = p[1] THEN 0 ELSE 1))
        BY <2>1, PicksOn
      <3>2. QED
        BY <2>2, <3>1
    <2>3. CASE ~one
      BY <2>1, <2>3
    <2>4. QED
      BY <2>2, <2>3
  <1>5. Picks(h, k2, e2, n1 + n2)
    <2> HIDE DEF k1
    <2>1. n1 \in Int
      OBVIOUS
    <2>2. CASE stale
      <3>1. Picks(h, SetThree(k1, None), None, n1 + (IF e1 = None THEN 0 ELSE 1))
        <4> HIDE DEF e1, n1
        <4>1. QED
          BY <1>4, <2>1, PicksOn
      <3>2. QED
        BY <2>2, <3>1
    <2>3. CASE ~stale
      BY <1>4, <2>3
    <2>4. QED
      BY <2>2, <2>3
  <1>6. Picks(h, k3, e3, n1 + n2 + n3)
    <2> HIDE DEF k2
    <2>1. n1 + n2 \in Int /\ n1 + n2 + 0 = n1 + n2
      OBVIOUS
    <2>2. CASE adds
      <3>1. Picks(h, SetThree(k2, added), added, (n1 + n2) + (IF e2 = added THEN 0 ELSE 1))
        <4> HIDE DEF e2, n1, n2
        <4>1. QED
          BY <1>5, <2>1, PicksOn
      <3>2. QED
        BY <2>2, <3>1
    <2>3. CASE ~adds
      <3>1. k3 = k2 /\ e3 = e2 /\ n3 = 0
        BY <2>3
      <3>2. QED
        BY <1>5, <2>1, <3>1
    <2>4. QED
      BY <2>2, <2>3
  <1> HIDE DEF k1, k2, k3
  <1>7. /\ k3.current.three = e3
        /\ Selected(k3.current) = p
    BY <1>6, AnotherThree DEF Picks, IsHistory
  <1>8. n1 + n2 + n3 + PillsOwe(k3.current, FALSE) <= PillsOwe(g, more)
    <2>1. CASE one
      BY <1>2, <1>3, <1>7, <2>1 DEF PillsOwe, Stale
    <2>2. CASE ~one
      BY <1>2, <1>3, <1>7, <2>2 DEF PillsOwe, Stale
    <2>3. QED
      BY <2>1, <2>2
  <1>9. ~Fits(g) => e3 # g.three
    BY <1>2, <1>3 DEF Fits
  <1>10. ~one /\ ~more => e3 = IF Stale(g) THEN None ELSE g.three
    BY DEF Stale
  <1>11. n1 + n2 + n3 \in 0..3
    OBVIOUS
  <1> HIDE DEF e3, n1, n2, n3, one
  <1>12. QED
    BY <1>1, <1>6, <1>8, <1>9, <1>10, <1>11 DEF one

(* A field is changed that the pills do not depend on.                     *)
LEMMA AnotherField ==
    ASSUME NEW g, IsState(g), NEW field \in StateFields \ {"meters", "groups", "hotlinked"}, NEW e
    PROVE  LET x == [g EXCEPT ![field] = e]
           IN  /\ IsState(x) /\ x[field] = e
               /\ \A f \in StateFields \ {field} : x[f] = g[f]
               /\ Selected(x) = Selected(g)
  <1> DEFINE x == [g EXCEPT ![field] = e]
  <1>1. DOMAIN g = StateFields
    BY DEF IsState
  <1>2. x = [f \in StateFields |-> IF f = field THEN e ELSE g[f]]
    BY <1>1
  <1> HIDE DEF x
  <1>3. x[field] = e /\ \A f \in StateFields \ {field} : x[f] = g[f]
    BY <1>1, <1>2
  <1>4. x = [f \in StateFields |-> x[f]]
    BY <1>2, <1>3
  <1>5. x.meters = g.meters /\ x.groups = g.groups /\ x.hotlinked = g.hotlinked
    BY <1>3 DEF StateFields
  <1>6. QED
    BY <1>3, <1>4, <1>5 DEF IsState, Selected, x

LEMMA ShiftEffectLeads ==
    ASSUME IsHistory(hist)
    PROVE  LET g == hist.current
               k == ShiftEffect(hist, g)
           IN  /\ Leads(hist, k, IF ShiftRuns(rendered, g) THEN 1 ELSE 0)
               /\ \A f \in StateFields \ {"shifted"} : k.current[f] = g[f]
               /\ g.shift = "custom" => k.current.shifted = g.shifted
  <1> DEFINE g == hist.current
             x == [g EXCEPT !.shifted = ShiftDate(g)]
             k == ShiftEffect(hist, g)
  <1>1. IsState(g)
    BY DEF IsHistory
  <1>2. k = IF ShiftRuns(rendered, g) THEN Put(hist, x) ELSE hist
    BY DEF ShiftEffect, ShiftRuns
  <1>3. CASE ShiftRuns(rendered, g)
    <2>1. IsState(x) /\ \A f \in StateFields \ {"shifted"} : x[f] = g[f]
      <3>1. "shifted" \in StateFields \ {"meters", "groups", "hotlinked"}
        BY DEF StateFields
      <3> DEFINE e == ShiftDate(g)
                 y == [g EXCEPT !["shifted"] = e]
      <3> HIDE DEF k, g, e
      <3>2. IsState(y) /\ \A f \in StateFields \ {"shifted"} : y[f] = g[f]
        BY <1>1, <3>1, AnotherField
      <3>3. QED
        BY <3>2 DEF e
    <2>2. x.hotlinked = g.hotlinked
      BY <2>1 DEF StateFields
    <2>3. g.shift # "custom"
      BY <1>3 DEF ShiftRuns
    <2> HIDE DEF x, k
    <2>4. Leads(hist, Put(hist, x), 1) /\ Put(hist, x).current = x
      BY <2>1, <2>2, PutLeads
    <2>5. QED
      BY <1>2, <1>3, <2>1, <2>3, <2>4 DEF k
  <1>4. CASE ~ShiftRuns(rendered, g)
    BY <1>2, <1>4, StaysHere
  <1>5. QED
    BY <1>3, <1>4

(* What React has rendered last is known, and where no chart is shown it   *)
(* is nothing.                                                             *)
TypeOK ==
    /\ IsHistory(hist)
    /\ rendered # NoChart => IsState(rendered) /\ shown = Len(Selected(rendered))
    /\ page \in {"charts", "elsewhere", "link"}
    /\ page # "charts" => rendered = NoChart
    /\ page = "link" =>
        /\ hist.prev = <<>> /\ hist.next = <<>>
        /\ \A f \in {"meters", "groups"} \cap DOMAIN link : link[f] \in Seq(Entities)
    /\ prefs \in BOOLEAN
    /\ acts \in Nat

(* What the effects of the components make of the state that was rendered. *)
Effects(g) ==
    LET same == rendered # NoChart /\ rendered.chart = g.chart
        before == IF same THEN shown ELSE Len(Selected(g))
    IN  IF g.chart = "line" THEN hist ELSE PillEffect(ShiftEffect(hist, g), g, before)

LEMMA EffectsLead ==
    ASSUME TypeOK
    PROVE  LET g == hist.current
               k == Effects(g)
           IN  /\ IsHistory(k) /\ Len(k.prev) \in Nat
               /\ \A f \in StateFields \ {"three", "shifted"} : k.current[f] = g[f]
               /\ Len(k.prev) + Owe(g, k.current, Len(Selected(g)))
                    <= Len(hist.prev) + Owe(rendered, g, shown)
               /\ g.chart = "line" => k = hist
               /\ g.shift = "custom" => k.current.shifted = g.shifted
               /\ g.chart # "line" =>
                    /\ ~Fits(g) => k.current.three # g.three
                    /\ Len(Selected(g)) # 1 /\ ~More(rendered, g, shown) =>
                            k.current.three = IF Stale(g) THEN None ELSE g.three
  <1> DEFINE g == hist.current
             p == Selected(g)
             same == rendered # NoChart /\ rendered.chart = g.chart
             before == IF same THEN shown ELSE Len(p)
             more == Len(p) > before
             h == ShiftEffect(hist, g)
             s == IF ShiftRuns(rendered, g) THEN 1 ELSE 0
             k == Effects(g)
  <1>1. IsHistory(hist) /\ IsState(g)
    BY DEF TypeOK, IsHistory
  <1>2. Len(p) \in Nat
    BY <1>1, SelectedIs
  <1>3. before \in Int /\ (more <=> More(rendered, g, shown))
    <2>1. same => shown \in Nat
      BY SelectedIs DEF TypeOK
    <2>2. QED
      BY <1>2, <2>1 DEF More
  <1>4. Len(hist.prev) \in Nat
    BY <1>1 DEF IsHistory, IsStack
  <1>5. CASE g.chart = "line"
    <2>1. k = hist
      BY <1>5 DEF Effects
    <2>2. Owe(g, g, Len(p)) = 0 /\ Owe(rendered, g, shown) = 0
      BY <1>5 DEF Owe
    <2>3. QED
      BY <1>1, <1>4, <1>5, <2>1, <2>2
  <1>6. CASE g.chart # "line"
    <2>1. /\ Leads(hist, h, s)
          /\ \A f \in StateFields \ {"shifted"} : h.current[f] = g[f]
          /\ g.shift = "custom" => h.current.shifted = g.shifted
      BY <1>1, ShiftEffectLeads
    <2>3. k = PillEffect(h, g, before)
      BY <1>6 DEF Effects
    <2> HIDE DEF h, k, before
    <2>2. h.current.three = g.three /\ Selected(h.current) = p
      <3>1. {"three", "meters", "groups"} \subseteq StateFields \ {"shifted"}
        BY DEF StateFields
      <3>2. QED
        BY <2>1, <3>1 DEF Selected
    <2>4. PICK e : \E n \in 0..3 :
                /\ Picks(h, k, e, n)
                /\ n + PillsOwe(k.current, FALSE) <= PillsOwe(g, more)
                /\ ~Fits(g) => e # g.three
                /\ Len(p) # 1 /\ ~more => e = IF Stale(g) THEN None ELSE g.three
      BY <1>1, <1>3, <2>1, <2>2, <2>3, PillEffectLeads DEF Leads
    <2>5. PICK n \in 0..3 :
                /\ Picks(h, k, e, n)
                /\ n + PillsOwe(k.current, FALSE) <= PillsOwe(g, more)
                /\ ~Fits(g) => e # g.three
                /\ Len(p) # 1 /\ ~more => e = IF Stale(g) THEN None ELSE g.three
      BY <2>4
    <2>6. IsState(h.current)
      BY <2>1 DEF Leads, IsHistory
    <2>7. /\ k.current.three = e
          /\ \A f \in StateFields \ {"three"} : k.current[f] = h.current[f]
          /\ Selected(k.current) = p
      BY <2>2, <2>5, <2>6, AnotherThree DEF Picks
    <2>8. \A f \in StateFields \ {"three", "shifted"} : k.current[f] = g[f]
      BY <2>1, <2>7
    <2>9. Owe(g, k.current, Len(p)) = PillsOwe(k.current, FALSE)
      <3>1. k.current.chart = g.chart /\ k.current.shift = g.shift /\ k.current.interval = g.interval
        BY <2>8 DEF StateFields
      <3>2. ~ShiftRuns(g, k.current)
        BY <1>1, <3>1, StateIsNoNone DEF ShiftRuns
      <3>3. ~More(g, k.current, Len(p))
        BY <1>2, <2>7 DEF More
      <3>4. More(g, k.current, Len(p)) = FALSE
        BY <3>3 DEF More
      <3>5. QED
        BY <1>6, <3>1, <3>2, <3>4 DEF Owe, PillsOwe
    <2>10. Owe(rendered, g, shown) = s + PillsOwe(g, more)
      <3>1. PillsOwe(g, More(rendered, g, shown)) = PillsOwe(g, more)
        BY <1>3 DEF PillsOwe
      <3>2. QED
        BY <1>6, <3>1 DEF Owe
    <2>11. IsHistory(k) /\ Len(k.prev) <= Len(hist.prev) + s + n /\ Len(k.prev) \in Nat
      <3>1. Leads(h, k, n)
        BY <2>5 DEF Picks
      <3>2. Leads(hist, k, s + n)
        BY <1>1, <2>1, <3>1, LeadsOn
      <3>3. IsHistory(k) /\ Len(k.prev) <= Len(hist.prev) + (s + n)
        BY <3>2 DEF Leads
      <3>4. Len(k.prev) \in Nat
        BY <3>3 DEF IsHistory, IsStack
      <3>5. s \in Nat
        OBVIOUS
      <3> HIDE DEF s
      <3>6. \A a, b \in Nat : a <= b + (s + n) => a <= b + s + n
        BY <2>5, <3>5
      <3>7. QED
        BY <1>4, <3>3, <3>4, <3>6
    <2>12. PillsOwe(k.current, FALSE) \in Nat /\ PillsOwe(g, more) \in Nat
      BY DEF PillsOwe
    <2>13. Len(k.prev) + Owe(g, k.current, Len(p)) <= Len(hist.prev) + Owe(rendered, g, shown)
      <3>1. s \in Nat
        OBVIOUS
      <3>2. n + PillsOwe(k.current, FALSE) <= PillsOwe(g, more)
        BY <2>5
      <3> HIDE DEF s, more
      <3>3. \A a, b, c, d \in Nat :
                a <= b + s + n /\ n + c <= d => a + c <= b + (s + d)
        BY <3>1
      <3>4. QED
        BY <1>4, <2>9, <2>10, <2>11, <2>12, <3>2, <3>3
    <2>14. g.shift = "custom" => k.current.shifted = g.shifted
      BY <2>1, <2>7 DEF StateFields
    <2>15. ~Fits(g) => k.current.three # g.three
      BY <2>5, <2>7
    <2>16. Len(p) # 1 /\ ~More(rendered, g, shown) =>
                k.current.three = IF Stale(g) THEN None ELSE g.three
      <3> HIDE DEF more
      <3>1. QED
        BY <1>3, <2>5, <2>7
    <2>17. QED
      BY <1>6, <2>8, <2>11, <2>13, <2>14, <2>15, <2>16 DEF k
  <1>7. QED
    BY <1>5, <1>6

-----------------------------------------------------------------------------
(* The history is bounded, and what is rendered fits or is about to change *)

(* The preferences may yet make the chart another one, once.               *)
Credit == IF ~prefs /\ ~hist.current.hotlinked THEN 4 ELSE 0

Bounded == Len(hist.prev) + Owe(rendered, hist.current, shown) + Credit <= 6 * (acts + 1)

RestFits ==
    rendered # NoChart /\ rendered.chart # "line" =>
        Fits(rendered) \/ hist.current.three # rendered.three

Settles == TypeOK /\ RestFits /\ Bounded

LEMMA OweAtMost ==
    ASSUME NEW g, NEW r, NEW n
    PROVE  Owe(r, g, n) \in 0..4
  BY DEF Owe, PillsOwe

LEMMA AtRestFits ==
    ASSUME TypeOK, RestFits, rendered = hist.current
    PROVE  /\ IsState(rendered) /\ rendered # NoChart
           /\ shown = Len(Selected(rendered)) /\ page = "charts"
           /\ rendered.chart # "line" => Fits(rendered)
  <1>1. IsState(rendered) /\ rendered # NoChart
    BY StateIsNoNone DEF TypeOK, IsHistory
  <1>2. QED
    BY <1>1 DEF TypeOK, RestFits

(* What the user chooses, when that and the effects after it are six       *)
(* states.                                                                 *)
LEMMA ActsSettle ==
    ASSUME Settles, NEW h, Acts(h), IsHistory(h), h.current.hotlinked = hist.current.hotlinked,
           Len(h.prev) + Owe(rendered, h.current, shown) <= Len(hist.prev) + 6
    PROVE  Settles'
  <1>1. /\ rendered = hist.current /\ hist' = h /\ acts' = acts + 1
        /\ rendered' = rendered /\ shown' = shown /\ page' = page /\ prefs' = prefs /\ link' = link
    BY DEF Acts, AtRest, tab
  <1>2. /\ page = "charts" /\ rendered # NoChart
        /\ rendered.chart # "line" => Fits(rendered)
    BY <1>1, AtRestFits DEF Settles
  <1>3. TypeOK'
    BY <1>1, <1>2 DEF Settles, TypeOK
  <1>4. RestFits'
    BY <1>1, <1>2 DEF RestFits
  <1>5. Bounded'
    <2>1. Len(hist.prev) \in Nat /\ Len(h.prev) \in Nat /\ acts \in Nat
      BY DEF Settles, TypeOK, IsHistory, IsStack
    <2>2. Owe(rendered, h.current, shown) \in 0..4 /\ Owe(rendered, hist.current, shown) \in 0..4
      BY OweAtMost
    <2>3. Credit' = Credit /\ Credit \in 0..4
      BY <1>1 DEF Credit
    <2>4. Len(hist.prev) + Owe(rendered, hist.current, shown) + Credit <= 6 * (acts + 1)
      BY DEF Settles, Bounded
    <2>5. Len(h.prev) + Owe(rendered, h.current, shown) + Credit <= 6 * ((acts + 1) + 1)
      <3> DEFINE a == Len(h.prev)
                 b == Owe(rendered, h.current, shown)
                 c == Len(hist.prev)
                 d == Owe(rendered, hist.current, shown)
      <3> HIDE DEF a, b, c, d
      <3>1. a \in Nat /\ b \in 0..4 /\ c \in Nat /\ d \in 0..4 /\ Credit \in 0..4 /\ acts \in Nat
        BY <2>1, <2>2, <2>3 DEF a, b, c, d
      <3>2. a + b <= c + 6 /\ c + d + Credit <= 6 * (acts + 1)
        BY <2>4 DEF a, b, c, d
      <3>3. a + b + Credit <= 6 * ((acts + 1) + 1)
        BY <3>1, <3>2
      <3>4. QED
        BY <3>3 DEF a, b
    <2>6. QED
      BY <1>1, <2>3, <2>5 DEF Bounded
  <1>6. QED
    BY <1>3, <1>4, <1>5 DEF Settles

(* The effects are four states at most, so a choice may be two.            *)
LEMMA ActsLead ==
    ASSUME Settles, NEW h, Acts(h), NEW n \in 0..2, Leads(hist, h, n)
    PROVE  Settles'
  <1>1. IsHistory(h) /\ h.current.hotlinked = hist.current.hotlinked
        /\ Len(h.prev) <= Len(hist.prev) + n
    BY DEF Leads
  <1>2. Len(hist.prev) \in Nat /\ Len(h.prev) \in Nat
    BY <1>1 DEF Settles, TypeOK, IsHistory, IsStack
  <1>3. Len(h.prev) + Owe(rendered, h.current, shown) <= Len(hist.prev) + 6
    <2> DEFINE a == Len(h.prev)
               b == Owe(rendered, h.current, shown)
               c == Len(hist.prev)
    <2>1. b \in 0..4
      BY OweAtMost
    <2> HIDE DEF a, b, c
    <2>2. a \in Nat /\ c \in Nat /\ a <= c + n
      BY <1>1, <1>2 DEF a, c
    <2>3. a + b <= c + 6
      BY <2>1, <2>2
    <2>4. QED
      BY <2>3 DEF a, b, c
  <1>4. QED
    BY <1>1, <1>3, ActsSettle

Like(g, x) ==
    /\ IsState(x) /\ x.hotlinked = g.hotlinked
    /\ x.three = g.three /\ x.chart = g.chart /\ x.shift = g.shift /\ x.interval = g.interval

LEMMA OtherFields ==
    ASSUME NEW g, IsState(g), NEW e
    PROVE  /\ Like(g, [g EXCEPT !.unit = e]) /\ Like(g, [g EXCEPT !.last = e])
           /\ Like(g, [g EXCEPT !.slider = e]) /\ Like(g, [g EXCEPT !.area = e])
           /\ Like(g, [g EXCEPT !.shifted = e])
           /\ [g EXCEPT !.unit = e].meters = g.meters /\ [g EXCEPT !.unit = e].groups = g.groups
           /\ [g EXCEPT !.last = e].meters = g.meters /\ [g EXCEPT !.last = e].groups = g.groups
           /\ IsState([g EXCEPT !.chart = e]) /\ [g EXCEPT !.chart = e].hotlinked = g.hotlinked
           /\ IsState([g EXCEPT !.shift = e]) /\ [g EXCEPT !.shift = e].hotlinked = g.hotlinked
           /\ IsState([g EXCEPT !.interval = e])
           /\ [g EXCEPT !.interval = e].hotlinked = g.hotlinked
           /\ e \in Seq(Entities) =>
                /\ Like(g, [g EXCEPT !.meters = e]) /\ Like(g, [g EXCEPT !.groups = e])
                /\ [g EXCEPT !.meters = e].meters = e /\ [g EXCEPT !.groups = e].groups = e
                /\ [g EXCEPT !.groups = e].meters = g.meters
  <1>1. \A f \in StateFields : [g EXCEPT ![f] = e] =
                [x \in StateFields |-> IF x = f THEN e ELSE g[x]]
    BY DEF IsState
  <1>2. \A f \in StateFields \ {"meters", "groups", "hotlinked", "three", "chart", "shift", "interval"} :
            Like(g, [g EXCEPT ![f] = e])
    BY <1>1 DEF IsState, Like, StateFields
  <1>3. {"unit", "last", "slider", "area", "shifted"} \subseteq StateFields \ 
            {"meters", "groups", "hotlinked", "three", "chart", "shift", "interval"}
    BY DEF StateFields
  <1>4. \A f \in {"chart", "shift", "interval"} :
            IsState([g EXCEPT ![f] = e]) /\ [g EXCEPT ![f] = e].hotlinked = g.hotlinked
    BY <1>1 DEF IsState, StateFields
  <1>5. /\ [g EXCEPT !.unit = e].meters = g.meters /\ [g EXCEPT !.unit = e].groups = g.groups
        /\ [g EXCEPT !.last = e].meters = g.meters /\ [g EXCEPT !.last = e].groups = g.groups
    BY DEF IsState, StateFields
  <1>6. ASSUME e \in Seq(Entities)
        PROVE  /\ Like(g, [g EXCEPT !.meters = e]) /\ Like(g, [g EXCEPT !.groups = e])
               /\ [g EXCEPT !.meters = e].meters = e /\ [g EXCEPT !.groups = e].groups = e
               /\ [g EXCEPT !.groups = e].meters = g.meters
    BY <1>6 DEF IsState, Like, StateFields
  <1>7. Like(g, [g EXCEPT !.unit = e]) /\ Like(g, [g EXCEPT !.last = e])
    BY <1>2, <1>3
  <1>8. Like(g, [g EXCEPT !.slider = e]) /\ Like(g, [g EXCEPT !.area = e])
        /\ Like(g, [g EXCEPT !.shifted = e])
    BY <1>2, <1>3
  <1>9. IsState([g EXCEPT !.chart = e]) /\ [g EXCEPT !.chart = e].hotlinked = g.hotlinked
    BY <1>4
  <1>10. IsState([g EXCEPT !.shift = e]) /\ [g EXCEPT !.shift = e].hotlinked = g.hotlinked
    BY <1>4
  <1>11. IsState([g EXCEPT !.interval = e]) /\ [g EXCEPT !.interval = e].hotlinked = g.hotlinked
    BY <1>4
  <1>12. QED
    BY <1>5, <1>6, <1>7, <1>8, <1>9, <1>10, <1>11

-----------------------------------------------------------------------------
(* Choices                                                                 *)

LEMMA AmongHas ==
    ASSUME NEW s \in Seq(Entities), NEW S
    PROVE  /\ Among(s, S) \in Seq(Entities)
           /\ Range(s) \cap S \subseteq Range(Among(s, S))
  <1>1. Among(s, S) \in Seq(Entities)
        /\ \A i \in 1..Len(s) : s[i] \in S => s[i] \in Range(Among(s, S))
    BY AmongKeeps
  <1>2. DOMAIN s = 1..Len(s)
    BY LenProperties
  <1>3. QED
    BY <1>1, <1>2 DEF Range

LEMMA BothHave ==
    ASSUME NEW s \in Seq(Entities), NEW t \in Seq(Entities)
    PROVE  s \o t \in Seq(Entities) /\ Range(s) \cup Range(t) \subseteq Range(s \o t)
  <1> DEFINE g == [f \in StateFields |-> IF f = "meters" THEN s
                                         ELSE IF f = "groups" THEN t ELSE FALSE]
  <1>1. IsState(g) /\ g.meters = s /\ g.groups = t
    BY DEF IsState, StateFields
  <1> HIDE DEF g
  <1>2. QED
    BY <1>1, SelectedIs DEF Selected

(* Everything asked for is listed.                                         *)
LEMMA ListedHas ==
    ASSUME NEW g, NEW S \in SUBSET Entities
    PROVE  Listed(g, S) \in Seq(Entities) /\ S \subseteq Range(Listed(g, S))
  <1>1. Names \in Seq(Entities) /\ Range(Names) = Entities
    BY ChartAssumption DEF Entities
  <1>2. ASSUME NEW X \in SUBSET Entities
        PROVE  Options(g, X) \in Seq(Entities) /\ X \subseteq Range(Options(g, X))
    <2>1. /\ Among(Names, X \cap Graphable(g)) \in Seq(Entities)
          /\ X \cap Graphable(g) \subseteq Range(Among(Names, X \cap Graphable(g)))
      BY <1>1, AmongHas
    <2>2. /\ Among(Names, X \ Graphable(g)) \in Seq(Entities)
          /\ X \ Graphable(g) \subseteq Range(Among(Names, X \ Graphable(g)))
      BY <1>1, AmongHas
    <2>3. QED
      BY <2>1, <2>2, BothHave DEF Options
  <1>3. QED
    BY <1>2, BothHave DEF Listed

LEMMA SelectionPut ==
    ASSUME NEW g, IsState(g), NEW e \in Seq(Entities)
    PROVE  /\ Like(g, [g EXCEPT !.meters = e]) /\ Like(g, [g EXCEPT !.groups = e])
           /\ [g EXCEPT !.meters = e].meters = e /\ [g EXCEPT !.groups = e].groups = e
           /\ [g EXCEPT !.groups = e].meters = g.meters
  BY Zenon, OtherFields

LEMMA UnitPut ==
    ASSUME NEW g, IsState(g), NEW e
    PROVE  /\ Like(g, [g EXCEPT !.unit = e]) /\ Like(g, [g EXCEPT !.last = e])
           /\ [g EXCEPT !.unit = e].meters = g.meters /\ [g EXCEPT !.unit = e].groups = g.groups
           /\ [g EXCEPT !.last = e].meters = g.meters /\ [g EXCEPT !.last = e].groups = g.groups
  BY Zenon, OtherFields

LEMMA ChooseLeads ==
    ASSUME NEW h, IsHistory(h), NEW S \in Seq(Entities), NEW e
    PROVE  LET k == Choose(h, S, e)
           IN  /\ Leads(h, k, IF e = None THEN 3 ELSE 4)
               /\ Like(h.current, k.current)
               /\ Range(S) \subseteq Range(Selected(k.current))
  <1> DEFINE g == h.current
             a == Among(S, Meters)
             b == Among(S, Entities \ Meters)
             ga == [g EXCEPT !.meters = a]
             ha == Put(h, ga)
             gb == [ga EXCEPT !.groups = b]
             h1 == Put(ha, gb)
             gc == [gb EXCEPT !.last = Kind(e)]
             h2 == IF e = None THEN h1 ELSE Set(h1, gc)
             g2 == IF e = None THEN gb ELSE gc
             gd == [g2 EXCEPT !.unit = DefaultUnit[Last1(S)]]
             last == Last1(S) # None /\ g.unit = None
             h3 == IF last THEN Set(h2, gd) ELSE h2
             g3 == IF last THEN gd ELSE g2
             n2 == IF e = None THEN 2 ELSE 3
  <1>1. /\ a \in Seq(Entities) /\ b \in Seq(Entities)
        /\ Range(S) \subseteq Range(a) \cup Range(b)
    <2>1. Range(S) \subseteq Entities
      <3>1. DOMAIN S = 1..Len(S) /\ \A i \in 1..Len(S) : S[i] \in Entities
        BY LenProperties
      <3>2. QED
        BY <3>1 DEF Range
    <2>2. QED
      BY <2>1, AmongHas
  <1>2. IsState(g)
    BY DEF IsHistory
  <1> HIDE DEF a, b
  <1>3. Like(g, ga) /\ ga.meters = a
    BY <1>1, <1>2, SelectionPut
  <1>4. Leads(h, ha, 1) /\ ha.current = ga
    <2> HIDE DEF ga
    <2>1. QED
      BY <1>3, PutLeads DEF Like
  <1>5. Like(ga, gb) /\ gb.meters = a /\ gb.groups = b
    <2> HIDE DEF ga
    <2>1. QED
      BY <1>1, <1>3, SelectionPut DEF Like
  <1>6. Leads(ha, h1, 1) /\ h1.current = gb
    <2> HIDE DEF ga, gb, ha
    <2>1. QED
      BY <1>4, <1>5, PutLeads DEF Like, Leads
  <1>7. Leads(h, h1, 2)
    <2> HIDE DEF ga, gb, ha, h1
    <2>1. QED
      BY <1>4, <1>6, LeadsOn
  <1>8. Like(gb, gc) /\ gc.meters = a /\ gc.groups = b
    <2> HIDE DEF ga, gb
    <2>1. QED
      BY <1>5, UnitPut DEF Like
  <1>9. Leads(h, h2, n2) /\ h2.current = g2 /\ Like(gb, g2) /\ g2.meters = a /\ g2.groups = b
    <2> HIDE DEF ga, gb, gc, ha, h1
    <2>1. CASE e = None
      BY <1>5, <1>6, <1>7, <2>1 DEF Like
    <2>2. CASE e # None
      <3>1. Leads(h1, Set(h1, gc), 1) /\ Set(h1, gc).current = gc
        BY <1>6, <1>7, <1>8, SetLeads DEF Like, Leads
      <3>2. Leads(h, Set(h1, gc), 3)
        BY <1>7, <3>1, LeadsOn
      <3>3. QED
        BY <1>8, <2>2, <3>1, <3>2
    <2>3. QED
      BY <2>1, <2>2
  <1>10. Like(g2, gd) /\ gd.meters = a /\ gd.groups = b
    <2>1. IsState(g2) /\ g2.meters = a /\ g2.groups = b
      BY <1>9 DEF Like
    <2> DEFINE u == DefaultUnit[Last1(S)]
    <2> HIDE DEF g2, u
    <2>2. /\ Like(g2, [g2 EXCEPT !.unit = u])
          /\ [g2 EXCEPT !.unit = u].meters = g2.meters /\ [g2 EXCEPT !.unit = u].groups = g2.groups
      BY <2>1, UnitPut
    <2>3. QED
      BY <2>1, <2>2 DEF u
  <1>11. Leads(h, h3, n2 + 1) /\ h3.current = g3 /\ Like(g2, g3) /\ g3.meters = a /\ g3.groups = b
    <2>a. Leads(h, h2, n2)
      BY <1>9
    <2>b. n2 \in Int /\ n2 <= n2 + 1
      OBVIOUS
    <2> HIDE DEF g2, gd, h2, n2
    <2>1. CASE last
      <3>1. Leads(h2, Set(h2, gd), 1) /\ Set(h2, gd).current = gd
        BY <1>9, <1>10, SetLeads DEF Like, Leads
      <3>2. Leads(h, Set(h2, gd), n2 + 1)
        BY <2>a, <2>b, <3>1, LeadsOn
      <3>3. QED
        BY <1>10, <2>1, <3>1, <3>2
    <2>2. CASE ~last
      <3>1. Leads(h, h2, n2 + 1)
        BY <2>a, <2>b, LeadsLess
      <3>2. QED
        BY <1>9, <2>2, <3>1 DEF Like
    <2>3. QED
      BY <2>1, <2>2
  <1>12. Choose(h, S, e) = h3
    BY <1>4, <1>6, <1>9 DEF Choose, UpdateSelected, a, b
  <1>13. Like(g, g3)
    BY <1>3, <1>5, <1>9, <1>11 DEF Like
  <1>14. Range(S) \subseteq Range(Selected(g3))
    <2>1. IsState(g3)
      BY <1>13 DEF Like
    <2>2. Range(g3.meters) \cup Range(g3.groups) \subseteq Range(Selected(g3))
      BY <2>1, SelectedIs
    <2>3. QED
      BY <1>1, <1>11, <2>2
  <1> HIDE DEF h3, g3
  <1>15. QED
    BY <1>11, <1>12, <1>13, <1>14

(* What is at rest and chosen keeps its shift.                             *)
LEMMA NoShift ==
    ASSUME NEW g, IsState(g), NEW x, Like(g, x), NEW n
    PROVE  Owe(g, x, n) \in 0..PillsOwe(x, More(g, x, n))
  <1>1. ~ShiftRuns(g, x)
    BY StateIsNoNone DEF ShiftRuns, Like
  <1>2. QED
    BY <1>1 DEF Owe, PillsOwe

LEMMA SourcesSettle ==
    ASSUME Settles, NEW e \in Entities, AddSource(e) \/ RemoveSource(e)
    PROVE  Settles'
  <1> DEFINE s == Range(Selected(g0))
  <1>1. IsHistory(hist) /\ IsState(g0) /\ Len(hist.prev) \in Nat
    BY DEF Settles, TypeOK, IsHistory, IsStack, g0
  <1>2. s \in SUBSET Entities
    BY <1>1, SelectedIs
  <1> HIDE DEF s
  <1>3. ASSUME rendered = hist.current
        PROVE  rendered.chart # "line" => Fits(rendered)
    BY <1>3, AtRestFits DEF Settles
  <1>4. CASE AddSource(e)
    <2> DEFINE S == Append(Listed(g0, s), e)
               h == Choose(hist, S, e)
               x == h.current
    <2>1. e \notin s /\ Acts(h)
      BY <1>4 DEF AddSource, s
    <2>2. S \in Seq(Entities) /\ s \cup {e} \subseteq Range(S)
      <3> DEFINE t == Listed(g0, s)
      <3>1. t \in Seq(Entities) /\ s \subseteq Range(t)
        BY <1>2, ListedHas
      <3> HIDE DEF t
      <3>2. /\ Append(t, e) \in Seq(Entities) /\ Len(Append(t, e)) = Len(t) + 1
            /\ \A i \in 1..Len(t) : Append(t, e)[i] = t[i]
            /\ Append(t, e)[Len(t) + 1] = e
            /\ DOMAIN t = 1..Len(t) /\ Len(t) \in Nat
        BY <3>1
      <3>3. DOMAIN Append(t, e) = 1..(Len(t) + 1)
        BY <3>2
      <3>4. QED
        BY <3>1, <3>2, <3>3 DEF Range, t
    <2>3. e # None
      BY ChartAssumption DEF Entities
    <2> HIDE DEF S, h
    <2>4. Leads(hist, h, 4) /\ Like(g0, x) /\ s \cup {e} \subseteq Range(Selected(x))
      BY <1>1, <2>2, <2>3, ChooseLeads DEF g0, h
    <2>5. rendered = g0
      BY <2>1 DEF Acts, AtRest, g0
    <2>6. Owe(rendered, x, shown) \in 0..2
      <3>1. CASE x.chart = "line"
        BY <3>1 DEF Owe
      <3>2. CASE x.chart # "line"
        <4>1. Fits(g0)
          BY <1>3, <2>4, <2>5, <3>2 DEF Like, g0
        <4>2. x.three \in {None} \cup s
          BY <2>4, <4>1 DEF Fits, Like, s
        <4>3. Len(Selected(x)) = 1 => x.three = None
          <5>1. Len(Selected(x)) = 1 => Range(Selected(x)) = {Selected(x)[1]}
            BY <2>4, SelectedIs DEF Like
          <5>2. QED
            BY <2>1, <2>4, <4>2, <5>1
        <4>4. PillsOwe(x, More(g0, x, shown)) \in 0..2
          BY <4>3 DEF PillsOwe
        <4>5. Owe(g0, x, shown) \in 0..PillsOwe(x, More(g0, x, shown))
          BY <1>1, <2>4, NoShift
        <4>6. QED
          BY <2>5, <4>4, <4>5
      <3>3. QED
        BY <3>1, <3>2
    <2>7. Len(h.prev) + Owe(rendered, x, shown) <= Len(hist.prev) + 6
      <3> DEFINE b == Owe(rendered, x, shown)
                 c == Len(hist.prev)
                 d == Len(h.prev)
      <3>1. d \in Nat /\ d <= c + 4
        BY <2>4 DEF Leads, IsHistory, IsStack
      <3>2. c \in Nat /\ b \in 0..2
        BY <1>1, <2>6
      <3> HIDE DEF b, c, d
      <3>3. d + b <= c + 6
        BY <3>1, <3>2
      <3>4. QED
        BY <3>3 DEF b, c, d
    <2>8. QED
      BY <2>1, <2>4, <2>7, ActsSettle DEF Leads
  <1>5. CASE RemoveSource(e)
    <2> DEFINE S == Listed(g0, s \ {e})
               h == Choose(hist, S, None)
               x == h.current
    <2>1. Acts(h)
      BY <1>5 DEF RemoveSource, s
    <2>2. S \in Seq(Entities)
      BY <1>2, ListedHas
    <2> HIDE DEF S, h
    <2>3. Leads(hist, h, 3) /\ Like(g0, x)
      BY <1>1, <2>2, ChooseLeads DEF g0, h
    <2>4. rendered = g0
      BY <2>1 DEF Acts, AtRest, g0
    <2>5. Owe(rendered, x, shown) \in 0..3
      <3>1. PillsOwe(x, More(g0, x, shown)) \in 0..3
        BY DEF PillsOwe
      <3>2. Owe(g0, x, shown) \in 0..PillsOwe(x, More(g0, x, shown))
        BY <1>1, <2>3, NoShift
      <3>3. QED
        BY <2>4, <3>1, <3>2
    <2>6. Len(h.prev) + Owe(rendered, x, shown) <= Len(hist.prev) + 6
      <3> DEFINE b == Owe(rendered, x, shown)
                 c == Len(hist.prev)
                 d == Len(h.prev)
      <3>1. d \in Nat /\ d <= c + 3
        BY <2>3 DEF Leads, IsHistory, IsStack
      <3>2. c \in Nat /\ b \in 0..3
        BY <1>1, <2>5
      <3> HIDE DEF b, c, d
      <3>3. d + b <= c + 6
        BY <3>1, <3>2
      <3>4. QED
        BY <3>3 DEF b, c, d
    <2>7. QED
      BY <2>1, <2>3, <2>6, ActsSettle DEF Leads
  <1>6. QED
    BY <1>4, <1>5

(* What the other choices make of the state.                               *)
LEMMA ChoicesLead ==
    ASSUME NEW h, IsHistory(h), NEW g, IsState(g), g.hotlinked = h.current.hotlinked
    PROVE  Leads(h, Set(h, g), 1) /\ Leads(h, Put(h, g), 1)
  BY SetLeads, PutLeads

Follows(g, x) == IsState(x) /\ x.hotlinked = g.hotlinked

LEMMA FieldsPut ==
    ASSUME NEW g, IsState(g), NEW e
    PROVE  /\ Follows(g, [g EXCEPT !.unit = e]) /\ Follows(g, [g EXCEPT !.slider = e])
           /\ Follows(g, [g EXCEPT !.area = e]) /\ Follows(g, [g EXCEPT !.shifted = e])
           /\ Follows(g, [g EXCEPT !.chart = e]) /\ Follows(g, [g EXCEPT !.shift = e])
           /\ Follows(g, [g EXCEPT !.interval = e])
  <1>1. \A x : Like(g, x) => Follows(g, x)
    BY DEF Like, Follows
  <1>2. /\ Like(g, [g EXCEPT !.unit = e]) /\ Like(g, [g EXCEPT !.slider = e])
        /\ Like(g, [g EXCEPT !.area = e]) /\ Like(g, [g EXCEPT !.shifted = e])
    BY Zenon, OtherFields
  <1>3. /\ Follows(g, [g EXCEPT !.chart = e]) /\ Follows(g, [g EXCEPT !.shift = e])
        /\ Follows(g, [g EXCEPT !.interval = e])
    BY Zenon, OtherFields DEF Follows
  <1>4. QED
    BY Zenon, <1>1, <1>2, <1>3

LEMMA UserSettles ==
    ASSUME Settles, User
    PROVE  Settles'
  <1>1. IsHistory(hist) /\ IsState(g0) /\ g0 = hist.current /\ acts \in Nat
    BY DEF Settles, TypeOK, IsHistory, g0
  <1>2. ASSUME NEW x, Follows(g0, x)
        PROVE  /\ Acts(Set(hist, x)) => Settles'
               /\ Acts(Put(hist, x)) => Settles'
    <2>1. Leads(hist, Set(hist, x), 1) /\ Leads(hist, Put(hist, x), 1)
      BY <1>1, <1>2, ChoicesLead DEF Follows
    <2>2. QED
      BY <2>1, ActsLead
  <1>3. ASSUME NEW e \in Entities, AddSource(e) \/ RemoveSource(e) \/ PickPill(e) PROVE Settles'
    <2>1. CASE AddSource(e) \/ RemoveSource(e)
      BY <2>1, SourcesSettle
    <2>2. CASE PickPill(e)
      <3>1. IsState([g0 EXCEPT !.three = e]) /\ [g0 EXCEPT !.three = e].hotlinked = g0.hotlinked
        BY <1>1, AnotherThree DEF StateFields
      <3>2. QED
        BY <1>1, <1>2, <2>2, <3>1 DEF Follows, PickPill, SetThree
    <2>3. QED
      BY <1>3, <2>1, <2>2
  <1>4. ASSUME NEW u, PickUnit(u) PROVE Settles'
    <2>1. CASE u # None
      <3>1. Follows(g0, [g0 EXCEPT !.unit = u])
        BY Zenon, <1>1, FieldsPut
      <3>2. QED
        BY <1>1, <1>2, <1>4, <2>1, <3>1 DEF PickUnit, UpdateSelectedUnit
    <2>2. CASE u = None
      <3> DEFINE y == [g0 EXCEPT !.unit = None, !.meters = <<>>, !.groups = <<>>]
      <3>1. IsState(y) /\ y.hotlinked = g0.hotlinked
        <4>1. y = [f \in StateFields |-> IF f = "unit" THEN None
                                         ELSE IF f \in {"meters", "groups"} THEN <<>> ELSE g0[f]]
          BY <1>1 DEF IsState, StateFields
        <4> HIDE DEF y
        <4>2. y.meters = <<>> /\ y.groups = <<>> /\ y.hotlinked = g0.hotlinked
          BY <4>1 DEF StateFields
        <4>3. y = [f \in StateFields |-> y[f]]
          BY <4>1
        <4>4. QED
          BY <1>1, <4>2, <4>3 DEF IsState
      <3>2. Acts(Put(hist, y))
        BY <1>1, <1>4, <2>2 DEF PickUnit, UpdateSelectedUnit
      <3> HIDE DEF y
      <3>3. QED
        BY <1>2, <3>1, <3>2 DEF Follows
    <2>3. QED
      BY <2>1, <2>2
  <1>5. ASSUME NEW c, PickChart(c) PROVE Settles'
    <2>1. Follows(g0, [g0 EXCEPT !.chart = c])
      BY Zenon, <1>1, FieldsPut
    <2>2. QED
      BY <1>2, <1>5, <2>1 DEF PickChart
  <1>6. ASSUME NEW i, PickDates(i) PROVE Settles'
    <2> DEFINE x == [g0 EXCEPT !.interval = i]
               h == Put(hist, x)
               y == [x EXCEPT !.slider = i]
    <2>1. Follows(g0, x)
      BY Zenon, <1>1, FieldsPut
    <2>2. Acts(Put(h, [h.current EXCEPT !.slider = i]))
      BY <1>6 DEF PickDates
    <2> HIDE DEF x
    <2>3. Leads(hist, h, 1) /\ h.current = x
      BY <1>1, <2>1, PutLeads DEF Follows
    <2>4. Follows(x, y)
      BY Zenon, <2>1, FieldsPut DEF Follows
    <2> HIDE DEF h, y
    <2>5. Leads(h, Put(h, y), 1)
      BY <2>3, <2>4, PutLeads DEF Follows, Leads
    <2>6. Leads(hist, Put(h, y), 2)
      BY <1>1, <2>3, <2>5, LeadsOn
    <2>7. QED
      BY <2>2, <2>3, <2>6, ActsLead DEF y
  <1>7. ASSUME NEW i, Zoom(i) PROVE Settles'
    <2> DEFINE h == [hist EXCEPT !.current.slider = i]
               x == [g0 EXCEPT !.slider = i]
    <2>1. Acts(h)
      BY <1>7 DEF Zoom
    <2>2. Follows(g0, x)
      BY Zenon, <1>1, FieldsPut
    <2>3. h.prev = hist.prev /\ h.next = hist.next /\ h.current = x
          /\ DOMAIN h = {"prev", "current", "next"}
      BY <1>1 DEF IsHistory
    <2> HIDE DEF h, x
    <2>4. IsHistory(h)
      BY <1>1, <2>2, <2>3 DEF Follows, IsHistory
    <2>5. Len(hist.prev) \in Nat
      BY <1>1 DEF IsHistory, IsStack
    <2>6. Leads(hist, h, 0)
      BY <1>1, <2>2, <2>3, <2>4, <2>5 DEF Follows, Leads
    <2>7. QED
      BY <2>1, <2>6, ActsLead
  <1>8. ASSUME NEW i, PickShifted(i) PROVE Settles'
    <2>1. Follows(g0, [g0 EXCEPT !.shifted = i])
      BY Zenon, <1>1, FieldsPut
    <2>2. QED
      BY <1>2, <1>8, <2>1 DEF PickShifted
  <1>9. ASSUME NEW s, PickShift(s) PROVE Settles'
    <2>1. Follows(g0, [g0 EXCEPT !.shift = s])
      BY Zenon, <1>1, FieldsPut
    <2>2. QED
      BY <1>2, <1>9, <2>1 DEF PickShift
  <1>10. CASE Redraw
    <2>1. Follows(g0, [g0 EXCEPT !.interval = g0.slider])
      BY Zenon, <1>1, FieldsPut
    <2>2. QED
      BY <1>2, <1>10, <2>1 DEF Redraw
  <1>11. CASE ToggleArea
    <2>1. Follows(g0, [g0 EXCEPT !.area = ~g0.area])
      BY Zenon, <1>1, FieldsPut
    <2>2. QED
      BY <1>2, <1>11, <2>1 DEF ToggleArea
  <1>12. CASE Back
    <2>1. hist.prev # <<>> /\ Acts(StepBack(hist))
      BY <1>12 DEF Back
    <2>2. QED
      BY <1>1, <2>1, BackLeads, ActsLead
  <1>13. CASE Forward
    <2>1. hist.next # <<>> /\ Acts(StepForward(hist))
      BY <1>13 DEF Forward
    <2>2. QED
      BY <1>1, <2>1, ForwardLeads, ActsLead
  <1>14. CASE Clear
    <2> DEFINE h == [prev |-> <<>>, current |-> DefaultState, next |-> <<>>]
    <2>1. Acts(h)
      BY <1>14 DEF Clear
    <2>2. IsHistory(h) /\ Len(h.prev) = 0
      BY AtDefault
    <2>3. h.current.chart = "line"
      BY DEF DefaultState
    <2> HIDE DEF h
    <2>4. /\ rendered = hist.current /\ hist' = h /\ acts' = acts + 1
          /\ rendered' = rendered /\ shown' = shown /\ page' = page /\ prefs' = prefs
          /\ link' = link
      BY <2>1 DEF Acts, AtRest
    <2>5. /\ page = "charts" /\ rendered # NoChart
          /\ rendered.chart # "line" => Fits(rendered)
      BY <2>4, AtRestFits DEF Settles
    <2>6. TypeOK'
      BY <2>2, <2>4, <2>5 DEF Settles, TypeOK
    <2>7. RestFits'
      BY <2>4, <2>5 DEF RestFits
    <2>8. Bounded'
      <3>1. Owe(rendered, h.current, shown) = 0
        BY <2>3 DEF Owe
      <3>2. Credit' \in 0..4
        BY DEF Credit
      <3>3. Len(h.prev) + Owe(rendered, h.current, shown) + Credit' <= 6 * (acts + 1 + 1)
        <4>1. \A a \in 0..4 : 0 + 0 + a <= 6 * (acts + 1 + 1)
          BY <1>1
        <4>2. QED
          BY <2>2, <3>1, <3>2, <4>1
      <3>4. QED
        BY <2>4, <3>3 DEF Bounded
    <2>9. QED
      BY <2>6, <2>7, <2>8 DEF Settles
  <1>15. QED
    BY <1>3, <1>4, <1>5, <1>6, <1>7, <1>8, <1>9, <1>10, <1>11, <1>12, <1>13, <1>14 DEF User

-----------------------------------------------------------------------------
(* Every step                                                              *)

(* Neither the network nor an upload touches the charts.                   *)
charts == <<hist, rendered, shown, page, prefs, link, acts>>

LEMMA SameSettles ==
    ASSUME Settles, UNCHANGED charts
    PROVE  Settles'
  BY DEF Settles, TypeOK, RestFits, Bounded, Credit, charts

LEMMA CommitSettles ==
    ASSUME Settles, Commit
    PROVE  Settles'
  <1> DEFINE g == hist.current
             k == Effects(g)
  <1>1. /\ page = "charts" /\ rendered' = g /\ shown' = Len(Selected(g)) /\ hist' = k
        /\ page' = page /\ prefs' = prefs /\ link' = link /\ acts' = acts
    BY DEF Commit, Due, tab, Effects
  <1>2. TypeOK /\ IsState(g)
    BY DEF Settles, TypeOK, IsHistory
  <1>3. /\ IsHistory(k) /\ Len(k.prev) \in Nat
        /\ \A f \in StateFields \ {"three", "shifted"} : k.current[f] = g[f]
        /\ Len(k.prev) + Owe(g, k.current, Len(Selected(g)))
             <= Len(hist.prev) + Owe(rendered, g, shown)
        /\ g.chart # "line" /\ ~Fits(g) => k.current.three # g.three
    BY <1>2, EffectsLead
  <1> HIDE DEF k
  <1>4. k.current.hotlinked = g.hotlinked /\ k.current.chart = g.chart
    BY <1>3 DEF StateFields
  <1>5. TypeOK'
    BY <1>1, <1>2, <1>3 DEF TypeOK
  <1>6. RestFits'
    <2>1. g.chart # "line" => Fits(g) \/ k.current.three # g.three
      BY <1>3
    <2>2. QED
      BY <1>1, <2>1 DEF RestFits
  <1>7. Bounded'
    <2>1. Credit' = Credit /\ Credit \in 0..4
      BY <1>1, <1>4 DEF Credit
    <2>2. Len(hist.prev) + Owe(rendered, g, shown) + Credit <= 6 * (acts + 1)
      BY DEF Settles, Bounded
    <2>3. Len(k.prev) + Owe(g, k.current, Len(Selected(g))) + Credit <= 6 * (acts + 1)
      <3> DEFINE a == Len(k.prev) + Owe(g, k.current, Len(Selected(g)))
                 b == Len(hist.prev) + Owe(rendered, g, shown)
      <3>1. a \in Nat /\ b \in Nat
        <4>1. Len(hist.prev) \in Nat
          BY <1>2 DEF TypeOK, IsHistory, IsStack
        <4>2. Owe(g, k.current, Len(Selected(g))) \in 0..4 /\ Owe(rendered, g, shown) \in 0..4
          BY OweAtMost
        <4>3. QED
          BY <1>3, <4>1, <4>2
      <3>2. a <= b /\ b + Credit <= 6 * (acts + 1)
        BY <1>3, <2>2
      <3> HIDE DEF a, b
      <3>3. acts \in Nat
        BY <1>2 DEF TypeOK
      <3>4. a + Credit <= 6 * (acts + 1)
        BY <2>1, <3>1, <3>2, <3>3
      <3>5. QED
        BY <3>4 DEF a
    <2>4. QED
      BY <1>1, <2>1, <2>3 DEF Bounded
  <1>8. QED
    BY <1>5, <1>6, <1>7 DEF Settles

LEMMA PagesSettle ==
    ASSUME Settles, Preferences \/ Leave \/ Return \/ OpenLink \/ FollowLink
    PROVE  Settles'
  <1>1. TypeOK /\ IsHistory(hist) /\ IsState(hist.current) /\ acts \in Nat
    BY DEF Settles, TypeOK, IsHistory
  <1>2. Len(hist.prev) \in Nat /\ Credit \in 0..4
    BY <1>1 DEF IsHistory, IsStack, Credit
  <1>3. Len(hist.prev) + Owe(rendered, hist.current, shown) + Credit <= 6 * (acts + 1)
    BY DEF Settles, Bounded
  <1>4. \A g, r, n : Owe(r, g, n) \in 0..4
    BY OweAtMost
  <1>5. CASE Preferences
    <2> DEFINE g == hist.current
               y == GetPreferences(g)
    <2>1. IsState(y) /\ y.hotlinked = g.hotlinked /\ y.three = g.three
          /\ (g.hotlinked => y = g)
      <3>1. CASE g.hotlinked
        BY <1>1, <3>1 DEF GetPreferences
      <3>2. CASE ~g.hotlinked
        <4>1. y = [f \in StateFields |-> IF f = "chart" THEN Preferred.chart
                                         ELSE IF f = "area" THEN Preferred.area ELSE g[f]]
          BY <1>1, <3>2 DEF GetPreferences, IsState, StateFields
        <4> HIDE DEF y
        <4>2. y.meters = g.meters /\ y.groups = g.groups /\ y.hotlinked = g.hotlinked
              /\ y.three = g.three /\ y = [f \in StateFields |-> y[f]]
          BY <4>1 DEF StateFields
        <4>3. QED
          BY <1>1, <3>2, <4>2 DEF IsState
      <3>3. QED
        BY <3>1, <3>2
    <2>2. /\ ~prefs /\ prefs' = TRUE /\ hist' = [hist EXCEPT !.current = y]
          /\ rendered' = rendered /\ shown' = shown /\ page' = page /\ link' = link
          /\ acts' = acts
      BY <1>5 DEF Preferences
    <2> HIDE DEF y
    <2>3. hist'.prev = hist.prev /\ hist'.next = hist.next /\ hist'.current = y
          /\ DOMAIN hist' = {"prev", "current", "next"}
      BY <1>1, <2>2 DEF IsHistory
    <2>4. TypeOK'
      BY <1>1, <2>1, <2>2, <2>3 DEF TypeOK, IsHistory
    <2>5. RestFits'
      BY <2>1, <2>2, <2>3 DEF Settles, RestFits
    <2>6. Bounded'
      <3>1. CASE g.hotlinked
        <4>1. y = g /\ Credit' = 0 /\ Credit = 0
          BY <2>1, <2>2, <2>3, <3>1 DEF Credit
        <4>2. QED
          BY <1>3, <2>2, <2>3, <4>1 DEF Bounded
      <3>2. CASE ~g.hotlinked
        <4>1. Credit' = 0 /\ Credit = 4
          BY <2>1, <2>2, <2>3, <3>2 DEF Credit
        <4> DEFINE a == Len(hist.prev)
                   b == Owe(rendered, g, shown)
                   c == Owe(rendered, y, shown)
        <4>2. a \in Nat /\ b \in 0..4 /\ c \in 0..4 /\ a + b + 4 <= 6 * (acts + 1)
          BY <1>2, <1>3, <1>4, <4>1
        <4> HIDE DEF a, b, c
        <4>3. a + c + 0 <= 6 * (acts + 1)
          BY <1>1, <4>2
        <4>4. QED
          BY <2>2, <2>3, <4>1, <4>3 DEF a, c, Bounded
      <3>3. QED
        BY <3>1, <3>2
    <2>7. QED
      BY <2>4, <2>5, <2>6 DEF Settles
  <1>6. CASE Leave
    <2>1. /\ acts' = acts + 1 /\ page' = "elsewhere" /\ rendered' = NoChart /\ shown' = 0
          /\ hist' = hist /\ prefs' = prefs /\ link' = link
      BY <1>6 DEF Leave
    <2>2. TypeOK' /\ RestFits'
      BY <1>1, <2>1 DEF TypeOK, RestFits
    <2>3. Bounded'
      <3> DEFINE a == Len(hist.prev)
                 b == Owe(rendered, hist.current, shown)
                 c == Owe(NoChart, hist.current, 0)
      <3>1. a \in Nat /\ b \in 0..4 /\ c \in 0..4 /\ a + b + Credit <= 6 * (acts + 1)
        BY <1>2, <1>3, <1>4
      <3>2. Credit' = Credit
        BY <2>1 DEF Credit
      <3> HIDE DEF a, b, c
      <3>3. a + c + Credit <= 6 * ((acts + 1) + 1)
        BY <1>1, <1>2, <3>1
      <3>4. QED
        BY <2>1, <3>2, <3>3 DEF a, c, Bounded
    <2>4. QED
      BY <2>2, <2>3 DEF Settles
  <1>7. CASE Return
    <2>1. /\ page = "elsewhere" /\ page' = "charts" /\ rendered' = rendered /\ shown' = shown
          /\ hist' = hist /\ prefs' = prefs /\ link' = link /\ acts' = acts
      BY <1>7 DEF Return
    <2>2. QED
      BY <2>1 DEF Settles, TypeOK, RestFits, Bounded, Credit
  <1>8. CASE OpenLink
    <2>1. /\ acts' = acts + 1 /\ link' = ChartLink(g0) /\ page' = "link" /\ prefs' = FALSE
          /\ hist' = [prev |-> <<>>, current |-> DefaultState, next |-> <<>>]
          /\ rendered' = NoChart /\ shown' = 0
      BY <1>8 DEF OpenLink
    <2>2. \A f \in {"meters", "groups"} \cap DOMAIN ChartLink(g0) :
              ChartLink(g0)[f] \in Seq(Entities)
      <3>1. g0.meters \in Seq(Entities) /\ g0.groups \in Seq(Entities)
        BY <1>1 DEF g0, IsState
      <3>2. QED
        BY <3>1 DEF ChartLink
    <2>3. TypeOK' /\ RestFits'
      <3>1. IsHistory(hist') /\ hist'.prev = <<>> /\ hist'.next = <<>>
        BY <2>1, AtDefault
      <3>2. \A f \in {"meters", "groups"} \cap DOMAIN link' : link'[f] \in Seq(Entities)
        BY <2>1, <2>2
      <3>a. acts' \in Nat
        BY <1>1, <2>1
      <3>b. page' \in {"charts", "elsewhere", "link"} /\ prefs' \in BOOLEAN
        BY <2>1
      <3>3. page' \in {"charts", "elsewhere", "link"} /\ prefs' \in BOOLEAN /\ acts' \in Nat
        BY <3>a, <3>b
      <3>4. TypeOK'
        BY <2>1, <3>1, <3>2, <3>3 DEF TypeOK
      <3>5. QED
        BY <2>1, <3>4 DEF RestFits
    <2>4. Bounded'
      <3>1. Owe(NoChart, DefaultState, 0) = 0 /\ Credit' \in 0..4
        BY DEF Owe, DefaultState, Credit
      <3>2. Len(hist'.prev) = 0 /\ hist'.current = DefaultState
        BY <2>1
      <3>3. \A a \in 0..4 : 0 + 0 + a <= 6 * ((acts + 1) + 1)
        BY <1>1
      <3>4. QED
        BY <2>1, <3>1, <3>2, <3>3 DEF Bounded
    <2>5. QED
      BY <2>3, <2>4 DEF Settles
  <1>9. CASE FollowLink
    <2> DEFINE g == hist.current
               y == ProcessGraphLink(g, link)
    <2>1. /\ page = "link" /\ hist' = [hist EXCEPT !.current = y] /\ page' = "charts"
          /\ rendered' = rendered /\ shown' = shown /\ prefs' = prefs /\ acts' = acts
      BY <1>9 DEF FollowLink
    <2>2. /\ hist.prev = <<>> /\ hist.next = <<>> /\ rendered = NoChart
          /\ \A f \in {"meters", "groups"} \cap DOMAIN link : link[f] \in Seq(Entities)
      BY <1>1, <2>1 DEF TypeOK
    <2>3. IsState(y) /\ y.hotlinked = TRUE
      <3>1. y = [f \in StateFields |-> IF f = "hotlinked" THEN TRUE
                        ELSE IF f \in DOMAIN link THEN link[f] ELSE g[f]]
        BY <1>1 DEF ProcessGraphLink, IsState
      <3> HIDE DEF y
      <3>2. y.meters \in Seq(Entities) /\ y.groups \in Seq(Entities) /\ y.hotlinked = TRUE
        BY <1>1, <2>2, <3>1 DEF IsState, StateFields
      <3>3. y = [f \in StateFields |-> y[f]]
        BY <3>1
      <3>4. QED
        BY <3>2, <3>3 DEF IsState
    <2> HIDE DEF y
    <2>4. hist'.prev = <<>> /\ hist'.next = <<>> /\ hist'.current = y
          /\ DOMAIN hist' = {"prev", "current", "next"}
      BY <1>1, <2>1, <2>2 DEF IsHistory
    <2>5. TypeOK' /\ RestFits'
      BY <1>1, <2>1, <2>2, <2>3, <2>4, NoStack DEF TypeOK, IsHistory, RestFits
    <2>6. Bounded'
      <3>1. Owe(rendered', hist'.current, shown') \in 0..4
        BY <1>4
      <3>2. Credit' = 0 /\ Len(hist'.prev) = 0
        BY <2>3, <2>4 DEF Credit
      <3>3. \A a \in 0..4 : 0 + a + 0 <= 6 * (acts + 1)
        BY <1>1
      <3>4. QED
        BY <2>1, <3>1, <3>2, <3>3 DEF Bounded
    <2>7. QED
      BY <2>5, <2>6 DEF Settles
  <1>10. QED
    BY <1>5, <1>6, <1>7, <1>8, <1>9

LEMMA InitSettles ==
    ASSUME Init
    PROVE  Settles
  <1>1. TypeOK
    <2>1. page = "link" => \A f \in {"meters", "groups"} \cap DOMAIN link : link[f] \in Seq(Entities)
      BY LinksAssumption DEF Init, Entities
    <2>2. QED
      BY <2>1, AtDefault DEF Init, TypeOK
  <1>2. RestFits
    BY DEF Init, RestFits
  <1>3. Bounded
    <2>1. Owe(NoChart, DefaultState, 0) = 0 /\ Credit \in 0..4
      BY DEF Owe, DefaultState, Credit
    <2>2. Len(hist.prev) = 0 /\ hist.current = DefaultState
      BY DEF Init
    <2>3. QED
      BY <2>1, <2>2 DEF Bounded, Init
  <1>4. QED
    BY <1>1, <1>2, <1>3 DEF Settles

LEMMA StepSettles ==
    ASSUME Settles, [Next]_vars
    PROVE  Settles'
  <1>1. CASE Commit
    BY <1>1, CommitSettles
  <1>2. ASSUME NEW k \in DOMAIN cache, Network(k) \/ Forget(k) PROVE Settles'
    <2>1. UNCHANGED charts
      BY <1>2 DEF Network, Answer, AnswerNothing, Fail, Forget, tab, charts
    <2>2. QED
      BY <2>1, SameSettles
  <1>3. CASE Upload \/ Uploaded \/ UNCHANGED vars
    <2>1. UNCHANGED charts
      BY <1>3 DEF Upload, Uploaded, vars, charts
    <2>2. QED
      BY <2>1, SameSettles
  <1>4. CASE Preferences \/ Leave \/ Return \/ OpenLink \/ FollowLink
    BY <1>4, PagesSettle
  <1>5. CASE User
    BY <1>5, UserSettles
  <1>6. QED
    BY <1>1, <1>2, <1>3, <1>4, <1>5 DEF Next

-----------------------------------------------------------------------------
(* The cache                                                               *)

(* The hooks of a state have each a key of its own, of its unit.           *)
LEMMA HooksKeyed ==
    ASSUME NEW g
    PROVE  /\ \A q \in Hooks(g) : /\ q.unit = g.unit /\ q.key.unit = g.unit
                                  /\ q.interval = q.key.interval
           /\ \A q, r \in Hooks(g) : q.key = r.key => q = r
           /\ g # NoChart /\ g.chart = "line" => \A q \in Hooks(g) : q.interval = g.interval
  <1>1. ASSUME NEW n, NEW e, NEW kind, NEW i, NEW ids
        PROVE  LET q == Hook(n, e, kind, g, i, ids)
               IN  /\ q.unit = g.unit /\ q.key.unit = g.unit
                   /\ q.interval = i /\ q.key.interval = i /\ q.key.kind = kind
    BY DEF Hook, Key
  <1>2. ASSUME NEW q \in LineHooks(g), NEW r \in LineHooks(g)
        PROVE  /\ q.unit = g.unit /\ q.key.unit = g.unit
               /\ q.interval = q.key.interval /\ q.interval = g.interval
               /\ q.key = r.key => q = r
    <2>1. PICK a : q = Hook("line", "line", a, g, g.interval, g[a])
      BY <1>2 DEF LineHooks
    <2>2. PICK b : r = Hook("line", "line", b, g, g.interval, g[b])
      BY <1>2 DEF LineHooks
    <2>3. q.key.kind = a /\ r.key.kind = b
      BY <1>1, <2>1, <2>2
    <2>4. QED
      BY <1>1, <2>1, <2>2, <2>3
  <1>3. ASSUME NEW q \in ThreeDHooks(g), NEW r \in ThreeDHooks(g)
        PROVE  /\ q.unit = g.unit /\ q.key.unit = g.unit
               /\ q.interval = q.key.interval
               /\ q.key = r.key => q = r
    <2>1. /\ q = Hook("threeD", "threeD", Kind(g.three), g, g.interval, <<g.three>>)
          /\ r = q
      BY <1>3 DEF ThreeDHooks
    <2>2. QED
      BY <1>1, <2>1
  <1>4. ASSUME NEW q \in CompareLineHooks(g), NEW r \in CompareLineHooks(g)
        PROVE  /\ q.unit = g.unit /\ q.key.unit = g.unit
               /\ q.interval = q.key.interval
               /\ q.key = r.key => q = r
    <2>1. PICK i : q = Hook("compareLine", "line", Kind(g.three), g, i, <<g.three>>)
      BY <1>4 DEF CompareLineHooks
    <2>2. PICK j : r = Hook("compareLine", "line", Kind(g.three), g, j, <<g.three>>)
      BY <1>4 DEF CompareLineHooks
    <2>3. q.key.interval = i /\ r.key.interval = j
      BY <1>1, <2>1, <2>2
    <2>4. QED
      BY <1>1, <2>1, <2>2, <2>3
  <1>5. CASE g = NoChart
    <2>1. Hooks(g) = {}
      BY <1>5 DEF Hooks
    <2>2. QED
      BY <1>5, <2>1
  <1>6. CASE g # NoChart /\ g.chart = "line"
    <2>1. Hooks(g) = LineHooks(g)
      BY <1>6 DEF Hooks
    <2>2. QED
      BY <1>2, <2>1
  <1>7. CASE g # NoChart /\ g.chart = "threeD"
    <2>1. Hooks(g) = ThreeDHooks(g)
      BY <1>7 DEF Hooks
    <2>2. QED
      BY <1>3, <1>7, <2>1
  <1>8. CASE g # NoChart /\ g.chart \notin {"line", "threeD"}
    <2>1. Hooks(g) = CompareLineHooks(g)
      BY <1>8 DEF Hooks
    <2>2. QED
      BY <1>4, <1>8, <2>1
  <1>9. QED
    BY <1>5, <1>6, <1>7, <1>8

EntryFields == {"pending", "sent", "unit", "interval", "asking", "data"}

(* An entry of key k holds only what is of its unit and dates, and of the  *)
(* last upload seen, t, but for what is missed, m.                         *)
EntryOK(k, x, m, t) ==
    /\ DOMAIN x = EntryFields
    /\ x.pending => x.sent \in Nat /\ t <= x.sent
    /\ x.unit # None => x.unit = k.unit /\ x.interval = k.interval
    /\ x.pending /\ x.asking = {} => \A d \in x.data : <<k, d.of>> \in m
    /\ \A d \in x.data : /\ DOMAIN d = {"of", "unit", "interval", "version"}
                         /\ d.unit = k.unit /\ d.interval = k.interval
                         /\ d.version >= t \/ <<k, d.of>> \in m

(* Query q has, or gets, all it asks for, but for what is missed, m.       *)
Covered(c, m, q) ==
    q.key \in DOMAIN c =>
        \A e \in Range(q.ids) : \/ <<q.key, e>> \in m
                                \/ e \in Ids(c[q.key])
                                \/ c[q.key].pending /\ e \in c[q.key].asking

CacheOK ==
    /\ told \in Nat /\ version \in Nat /\ told <= version
    /\ \A k \in DOMAIN cache : EntryOK(k, cache[k], missed, told)
    /\ \A q \in Hooks(rendered) : Covered(cache, missed, q)

LEMMA CommitCache ==
    ASSUME CacheOK, Commit
    PROVE  CacheOK'
  <1> DEFINE g == hist.current
             old == IF rendered # NoChart /\ rendered.chart = g.chart THEN Hooks(rendered) ELSE {}
             new == Hooks(g) \ old
             c == cache
             asking == {q \in new : ~Entry(c, q.key).pending /\ Lacking(c, q) # {}}
             keys == {q.key : q \in asking}
             d == Initiate(c, new)
             m == missed \cup Dropped(c, new)
  <1>1. /\ rendered' = g /\ cache' = d /\ missed' = m
        /\ told' = told /\ version' = version
    BY DEF Commit, tab
  <1>2. /\ told \in Nat /\ version \in Nat /\ told <= version
        /\ \A k \in DOMAIN c : EntryOK(k, c[k], missed, told)
        /\ \A q \in Hooks(rendered) : Covered(c, missed, q)
    BY DEF CacheOK
  <1>3. /\ \A q \in Hooks(g) : /\ q.unit = g.unit /\ q.key.unit = g.unit
                               /\ q.interval = q.key.interval
        /\ \A q, r \in Hooks(g) : q.key = r.key => q = r
    BY HooksKeyed
  <1>4. DOMAIN d = DOMAIN c \cup keys
    BY DEF Initiate
  <1>5. \A k \in DOMAIN c \ keys : d[k] = c[k]
    BY DEF Initiate
  <1>6. ASSUME NEW q \in asking
        PROVE  /\ ~Entry(c, q.key).pending
               /\ d[q.key] = [pending |-> TRUE, sent |-> version, unit |-> q.unit,
                              interval |-> q.interval, asking |-> Lacking(c, q),
                              data |-> Entry(c, q.key).data]
    <2> DEFINE by == CHOOSE r \in asking : r.key = q.key
    <2>1. by \in asking /\ by.key = q.key
      BY <1>6
    <2>2. by = q
      <3>1. by \in Hooks(g) /\ q \in Hooks(g)
        BY <2>1
      <3> HIDE DEF by
      <3>2. QED
        BY <1>3, <2>1, <3>1
    <2>3. d[q.key] = [pending |-> TRUE, sent |-> version, unit |-> by.unit,
                      interval |-> by.interval, asking |-> Lacking(c, by),
                      data |-> Entry(c, q.key).data]
      BY DEF Initiate
    <2>4. QED
      BY <2>2, <2>3
  <1>7. missed \subseteq m
    OBVIOUS
  <1>8. ASSUME NEW k \in DOMAIN d PROVE EntryOK(k, d[k], m, told)
    <2> HIDE DEF d, m
    <2>1. CASE k \in keys
      <3>1. PICK q \in asking : q.key = k
        BY <2>1
      <3>2. d[k] = [pending |-> TRUE, sent |-> version, unit |-> q.unit,
                    interval |-> q.interval, asking |-> Lacking(c, q),
                    data |-> Entry(c, k).data]
        BY <1>6, <3>1
      <3>3. q.unit = k.unit /\ q.interval = k.interval /\ Lacking(c, q) # {}
        BY <1>3, <3>1
      <3>4. \A x \in Entry(c, k).data :
                /\ DOMAIN x = {"of", "unit", "interval", "version"}
                /\ x.unit = k.unit /\ x.interval = k.interval
                /\ x.version >= told \/ <<k, x.of>> \in m
        <4>1. CASE k \in DOMAIN c
          <5>1. Entry(c, k) = c[k] /\ EntryOK(k, c[k], missed, told)
            BY <1>2, <4>1 DEF Entry
          <5>2. QED
            BY <1>7, <5>1 DEF EntryOK
        <4>2. CASE k \notin DOMAIN c
          BY <4>2 DEF Entry, Fresh
        <4>3. QED
          BY <4>1, <4>2
      <3> DEFINE x == d[k]
      <3>5. /\ DOMAIN x = EntryFields /\ x.sent = version /\ x.unit = q.unit
            /\ x.interval = q.interval /\ x.asking = Lacking(c, q) /\ x.data = Entry(c, k).data
        BY <3>2 DEF EntryFields
      <3> HIDE DEF x
      <3>6. EntryOK(k, x, m, told)
        BY <1>2, <3>3, <3>4, <3>5 DEF EntryOK
      <3>7. QED
        BY <3>6 DEF x
    <2>2. CASE k \notin keys
      <3>1. k \in DOMAIN c /\ d[k] = c[k]
        BY <1>4, <1>5, <2>2
      <3>2. EntryOK(k, c[k], missed, told)
        BY <1>2, <3>1
      <3>3. QED
        BY <1>7, <3>1, <3>2 DEF EntryOK
    <2>3. QED
      BY <2>1, <2>2
  <1>9. ASSUME NEW q \in Hooks(g) PROVE Covered(d, m, q)
    <2> DEFINE k == q.key
    <2>1. SUFFICES ASSUME k \in DOMAIN d, NEW e \in Range(q.ids)
                   PROVE  \/ <<k, e>> \in m \/ e \in Ids(d[k])
                          \/ d[k].pending /\ e \in d[k].asking
      BY DEF Covered
    <2>2. ASSUME q \notin asking PROVE k \in DOMAIN c /\ d[k] = c[k]
      <3>1. k \notin keys
        BY <1>3, <2>2
      <3> HIDE DEF d, keys
      <3>2. QED
        BY <1>4, <1>5, <2>1, <3>1
    <2>3. CASE q \in asking
      <3> HIDE DEF d
      <3>a. d[k] = [pending |-> TRUE, sent |-> version, unit |-> q.unit,
                    interval |-> q.interval, asking |-> Lacking(c, q),
                    data |-> Entry(c, k).data]
        BY <1>6, <2>3
      <3>b. d[k].pending
        BY <3>a
      <3>c. d[k].asking = Lacking(c, q) /\ d[k].data = Entry(c, k).data
        BY <3>a
      <3>1. d[k].pending /\ d[k].asking = Lacking(c, q) /\ d[k].data = Entry(c, k).data
        BY <3>b, <3>c
      <3>2. Ids(d[k]) = Ids(Entry(c, k))
        BY <3>1 DEF Ids
      <3>3. QED
        BY <3>1, <3>2 DEF Lacking
    <2>4. CASE q \notin asking /\ q \in new /\ c[k].pending
      <3>1. k \in DOMAIN c /\ d[k] = c[k]
        BY <2>2, <2>4
      <3>2. e \notin Ids(c[k]) /\ e \notin c[k].asking => <<k, e>> \in Dropped(c, new)
        BY <2>4, <3>1 DEF Dropped
      <3> HIDE DEF d, new
      <3>3. QED
        BY <2>4, <3>1, <3>2
    <2>5. CASE q \notin asking /\ q \in new /\ ~c[k].pending
      <3>1. k \in DOMAIN c /\ d[k] = c[k]
        BY <2>2, <2>5
      <3>2. Entry(c, k) = c[k]
        BY <3>1 DEF Entry
      <3>3. Lacking(c, q) = {}
        BY <2>5, <3>2
      <3>4. e \in Ids(c[k])
        BY <3>2, <3>3 DEF Lacking
      <3>5. QED
        BY <3>1, <3>4
    <2>6. CASE q \notin new
      <3>1. q \in Hooks(rendered) /\ q \notin asking
        BY <2>6
      <3>2. k \in DOMAIN c /\ d[k] = c[k]
        BY <2>2, <3>1
      <3>3. Covered(c, missed, q)
        BY <1>2, <3>1
      <3> HIDE DEF d, m
      <3>4. QED
        BY <1>7, <3>2, <3>3 DEF Covered
    <2>7. QED
      BY <2>3, <2>4, <2>5, <2>6
  <1> HIDE DEF d, m
  <1>10. QED
    BY <1>1, <1>2, <1>8, <1>9 DEF CacheOK

(* One entry of the cache changes, and what is missed of its key.          *)
LEMMA EntryChanges ==
    ASSUME CacheOK, NEW k \in DOMAIN cache, NEW x, NEW m,
           \A j, e : j # k => (<<j, e>> \in m <=> <<j, e>> \in missed),
           EntryOK(k, x, m, told),
           \A e : <<k, e>> \in missed \/ e \in Ids(cache[k])
                    \/ (cache[k].pending /\ e \in cache[k].asking)
                  => <<k, e>> \in m \/ e \in Ids(x) \/ (x.pending /\ e \in x.asking),
           cache' = [cache EXCEPT ![k] = x], missed' = m,
           UNCHANGED <<rendered, version, told>>
    PROVE  CacheOK'
  <1> DEFINE d == [cache EXCEPT ![k] = x]
  <1>1. DOMAIN d = DOMAIN cache /\ d[k] = x /\ \A j \in DOMAIN cache \ {k} : d[j] = cache[j]
    OBVIOUS
  <1>2. cache' = d
    OBVIOUS
  <1> HIDE DEF d
  <1>3. ASSUME NEW j \in DOMAIN d PROVE EntryOK(j, d[j], m, told)
    <2>1. CASE j = k
      BY <1>1, <2>1
    <2>2. CASE j # k
      <3>1. EntryOK(j, cache[j], missed, told) /\ d[j] = cache[j]
        BY <1>1, <1>3, <2>2 DEF CacheOK
      <3>2. QED
        BY <2>2, <3>1 DEF EntryOK
    <2>3. QED
      BY <2>1, <2>2
  <1>4. ASSUME NEW q \in Hooks(rendered) PROVE Covered(d, m, q)
    <2>1. Covered(cache, missed, q)
      BY DEF CacheOK
    <2>2. CASE q.key = k
      BY <1>1, <2>1, <2>2 DEF Covered
    <2>3. CASE q.key # k
      BY <1>1, <2>1, <2>3 DEF Covered
    <2>4. QED
      BY <2>2, <2>3
  <1>5. QED
    BY <1>2, <1>3, <1>4 DEF CacheOK

LEMMA AnswerCache ==
    ASSUME CacheOK, NEW k \in DOMAIN cache, Answer(k)
    PROVE  CacheOK'
  <1> DEFINE a == cache[k].asking
             m == missed \ {<<k, e>> : e \in a}
             kept == {d \in cache[k].data : d.of \notin a}
  <1>1. PICK v \in cache[k].sent .. version :
            cache' = [cache EXCEPT ![k] = [Fresh EXCEPT !.data = kept \cup
                        {[of |-> e, unit |-> cache[k].unit, interval |-> cache[k].interval,
                          version |-> v] : e \in a}]]
    BY DEF Answer
  <1> DEFINE got == {[of |-> e, unit |-> cache[k].unit, interval |-> cache[k].interval,
                      version |-> v] : e \in a}
             x == [Fresh EXCEPT !.data = kept \cup got]
  <1>2. /\ cache[k].pending /\ a # {} /\ cache[k].unit # None
        /\ missed' = m /\ UNCHANGED <<rendered, version, told>>
    BY DEF Answer, tab
  <1>3. EntryOK(k, cache[k], missed, told) /\ told \in Nat /\ version \in Nat
    BY DEF CacheOK
  <1>4. told <= v
    <2>1. cache[k].sent \in Nat /\ told <= cache[k].sent
      BY <1>2, <1>3 DEF EntryOK
    <2>2. v \in Int /\ cache[k].sent <= v
      BY <1>1, <1>3, <2>1
    <2>3. QED
      BY <1>3, <2>1, <2>2
  <1>5. /\ DOMAIN x = EntryFields /\ x.unit = None /\ x.data = kept \cup got /\ ~x.pending
    BY DEF Fresh, EntryFields
  <1>6. \A d \in got : /\ DOMAIN d = {"of", "unit", "interval", "version"}
                       /\ d.unit = k.unit /\ d.interval = k.interval /\ d.version >= told
    BY <1>1, <1>2, <1>3, <1>4 DEF EntryOK
  <1>7. \A d \in kept : /\ DOMAIN d = {"of", "unit", "interval", "version"}
                        /\ d.unit = k.unit /\ d.interval = k.interval
                        /\ d.version >= told \/ <<k, d.of>> \in m
    BY <1>3 DEF EntryOK
  <1>8. ASSUME NEW e \in a PROVE \E d \in got : d.of = e
    <2> DEFINE y == [of |-> e, unit |-> cache[k].unit, interval |-> cache[k].interval,
                     version |-> v]
    <2>1. y \in got /\ y.of = e
      OBVIOUS
    <2>2. QED
      BY <2>1
  <1>9. cache' = [cache EXCEPT ![k] = x]
    BY <1>1
  <1>10. \A j, e : j # k => (<<j, e>> \in m <=> <<j, e>> \in missed)
    OBVIOUS
  <1>11. \A e : e \notin a /\ <<k, e>> \in missed => <<k, e>> \in m
    OBVIOUS
  <1>12. \A e : e \in Ids(cache[k]) => e \in a \/ \E d \in kept : d.of = e
    BY DEF Ids
  <1> HIDE DEF got, kept, x, m
  <1>13. EntryOK(k, x, m, told)
    BY <1>5, <1>6, <1>7 DEF EntryOK
  <1>14. \A e : (\E d \in kept \cup got : d.of = e) => e \in Ids(x)
    BY <1>5 DEF Ids
  <1>15. \A e : <<k, e>> \in missed \/ e \in Ids(cache[k])
                   \/ (cache[k].pending /\ e \in a)
                  => <<k, e>> \in m \/ e \in Ids(x) \/ (x.pending /\ e \in x.asking)
    BY <1>8, <1>11, <1>12, <1>14
  <1>16. QED
    BY <1>2, <1>9, <1>10, <1>13, <1>15, EntryChanges

LEMMA AnswerNothingCache ==
    ASSUME CacheOK, NEW k \in DOMAIN cache, AnswerNothing(k)
    PROVE  CacheOK'
  <1> DEFINE merged == {[d EXCEPT !.version = -1] : d \in cache[k].data}
             x == [Fresh EXCEPT !.data = merged]
  <1>1. /\ cache[k].pending /\ cache[k].asking = {} /\ cache' = [cache EXCEPT ![k] = x]
        /\ missed' = missed /\ UNCHANGED <<rendered, version, told>>
    BY DEF AnswerNothing, tab
  <1>2. EntryOK(k, cache[k], missed, told)
    BY DEF CacheOK
  <1>3. DOMAIN x = EntryFields /\ x.unit = None /\ x.data = merged /\ ~x.pending
    BY DEF Fresh, EntryFields
  <1>4. \A d \in cache[k].data :
            /\ DOMAIN d = {"of", "unit", "interval", "version"}
            /\ d.unit = k.unit /\ d.interval = k.interval /\ <<k, d.of>> \in missed
    BY <1>1, <1>2 DEF EntryOK
  <1>5. \A d \in cache[k].data :
            LET y == [d EXCEPT !.version = -1]
            IN  /\ DOMAIN y = {"of", "unit", "interval", "version"}
                /\ y.of = d.of /\ y.unit = d.unit /\ y.interval = d.interval
    BY <1>4
  <1>6. \A y \in merged : /\ DOMAIN y = {"of", "unit", "interval", "version"}
                          /\ y.unit = k.unit /\ y.interval = k.interval /\ <<k, y.of>> \in missed
    BY <1>4, <1>5
  <1>7. \A e : e \in Ids(cache[k]) => \E y \in merged : y.of = e
    BY <1>5 DEF Ids
  <1> HIDE DEF merged, x
  <1>8. EntryOK(k, x, missed, told)
    BY <1>3, <1>6 DEF EntryOK
  <1>9. ASSUME NEW e \in Ids(cache[k]) PROVE e \in Ids(x)
    <2>1. x.data = merged
      BY <1>3
    <2>2. PICK y \in merged : y.of = e
      BY <1>7
    <2>3. QED
      BY <2>1, <2>2 DEF Ids
  <1>10. \A e : <<k, e>> \in missed \/ e \in Ids(cache[k])
                   \/ (cache[k].pending /\ e \in cache[k].asking)
                  => <<k, e>> \in missed \/ e \in Ids(x) \/ (x.pending /\ e \in x.asking)
    BY <1>1, <1>9
  <1>11. QED
    BY <1>1, <1>8, <1>10, EntryChanges

LEMMA FailCache ==
    ASSUME CacheOK, NEW k \in DOMAIN cache, Fail(k)
    PROVE  CacheOK'
  <1> DEFINE c == cache[k]
             x == [c EXCEPT !.pending = FALSE, !.asking = {}]
             m == missed \cup {<<k, e>> : e \in c.asking}
  <1>1. /\ cache' = [cache EXCEPT ![k].pending = FALSE, ![k].asking = {}]
        /\ missed' = m /\ UNCHANGED <<rendered, version, told>>
    BY DEF Fail, tab
  <1>2. cache' = [cache EXCEPT ![k] = x]
    BY <1>1
  <1>3. EntryOK(k, c, missed, told)
    BY DEF CacheOK
  <1>4. /\ DOMAIN x = EntryFields /\ ~x.pending /\ x.unit = c.unit
        /\ x.interval = c.interval /\ x.data = c.data
    BY <1>3 DEF EntryOK, EntryFields
  <1>5. /\ \A j, e : j # k => (<<j, e>> \in m <=> <<j, e>> \in missed)
        /\ \A j, e : <<j, e>> \in missed => <<j, e>> \in m
        /\ \A e \in c.asking : <<k, e>> \in m
    OBVIOUS
  <1> HIDE DEF x, m
  <1>6. EntryOK(k, x, m, told)
    BY <1>3, <1>4, <1>5 DEF EntryOK
  <1>7. Ids(x) = Ids(c)
    BY <1>4 DEF Ids
  <1>8. \A e : <<k, e>> \in missed \/ e \in Ids(c) \/ (c.pending /\ e \in c.asking)
                  => <<k, e>> \in m \/ e \in Ids(x) \/ (x.pending /\ e \in x.asking)
    BY <1>5, <1>7
  <1>9. QED
    BY <1>1, <1>2, <1>5, <1>6, <1>8, EntryChanges

LEMMA ForgetCache ==
    ASSUME CacheOK, NEW k \in DOMAIN cache, Forget(k)
    PROVE  CacheOK'
  <1> DEFINE d == Without({k})
             m == {x \in missed : x[1] # k}
  <1>1. /\ cache' = d /\ missed' = m /\ k \notin Mounted
        /\ rendered' = rendered /\ version' = version /\ told' = told
    BY DEF Forget, tab
  <1>2. /\ DOMAIN d = DOMAIN cache \ {k}
        /\ \A j \in DOMAIN d : d[j] = cache[j]
    BY DEF Without
  <1>3. \A j, e : j # k => (<<j, e>> \in m <=> <<j, e>> \in missed)
    OBVIOUS
  <1> HIDE DEF d, m
  <1>4. ASSUME NEW j \in DOMAIN d PROVE EntryOK(j, d[j], m, told)
    <2>1. EntryOK(j, cache[j], missed, told) /\ d[j] = cache[j] /\ j # k
      BY <1>2 DEF CacheOK
    <2>2. QED
      BY <1>3, <2>1 DEF EntryOK
  <1>5. ASSUME NEW q \in Hooks(rendered) PROVE Covered(d, m, q)
    <2>1. Covered(cache, missed, q) /\ q.key # k
      BY <1>1 DEF CacheOK, Mounted
    <2>2. QED
      BY <1>2, <1>3, <2>1 DEF Covered
  <1>6. QED
    BY <1>1, <1>4, <1>5 DEF CacheOK

LEMMA UploadedCache ==
    ASSUME CacheOK, Uploaded
    PROVE  CacheOK'
  <1> DEFINE d == Invalidated
             m == {x \in missed : x[1] \in Mounted}
                    \cup UNION {{k} \X Ids(cache[k]) : k \in DOMAIN Invalidated}
  <1>1. /\ Quiet /\ cache' = d /\ missed' = m
        /\ rendered' = rendered /\ version' = version /\ told' = version
    BY DEF Uploaded
  <1>2. /\ DOMAIN d = DOMAIN cache \cap Mounted
        /\ \A k \in DOMAIN d : d[k] =
              IF k.end = "threeD"
              THEN [cache[k] EXCEPT !.pending = TRUE, !.sent = version, !.asking = {k.of}]
              ELSE [cache[k] EXCEPT !.pending = TRUE, !.sent = version]
    BY DEF Invalidated
  <1>3. /\ \A k \in Mounted : \A e : <<k, e>> \in missed => <<k, e>> \in m
        /\ \A k \in DOMAIN d : \A e \in Ids(cache[k]) : <<k, e>> \in m
    OBVIOUS
  <1> HIDE DEF d, m
  <1>4. ASSUME NEW k \in DOMAIN d PROVE EntryOK(k, d[k], m, version)
    <2>1. EntryOK(k, cache[k], missed, told) /\ version \in Nat
      BY <1>2 DEF CacheOK
    <2> DEFINE c == cache[k]
               x == d[k]
    <2>2. DOMAIN x = EntryFields /\ x.sent = version /\ x.unit = c.unit
          /\ x.interval = c.interval /\ x.data = c.data
      <3>1. DOMAIN c = EntryFields
        BY <2>1 DEF EntryOK
      <3>2. CASE k.end = "threeD"
        BY <1>2, <3>1, <3>2 DEF EntryFields
      <3>3. CASE k.end # "threeD"
        BY <1>2, <3>1, <3>3 DEF EntryFields
      <3>4. QED
        BY <3>2, <3>3
    <2>3. \A y \in c.data : <<k, y.of>> \in m
      BY <1>3 DEF Ids
    <2> HIDE DEF x
    <2>4. EntryOK(k, x, m, version)
      BY <2>1, <2>2, <2>3 DEF EntryOK
    <2>5. QED
      BY <2>4 DEF x
  <1>5. ASSUME NEW q \in Hooks(rendered) PROVE Covered(d, m, q)
    <2>1. SUFFICES ASSUME q.key \in DOMAIN d, NEW e \in Range(q.ids)
                   PROVE  <<q.key, e>> \in m
      BY DEF Covered
    <2>2. Covered(cache, missed, q) /\ q.key \in DOMAIN cache /\ q.key \in Mounted
      BY <1>2, <2>1 DEF CacheOK, Mounted
    <2>3. ~cache[q.key].pending
      BY <1>1, <2>2 DEF Quiet
    <2>4. <<q.key, e>> \in missed \/ e \in Ids(cache[q.key])
      BY <2>1, <2>2, <2>3 DEF Covered
    <2>5. QED
      BY <1>3, <2>1, <2>2, <2>4
  <1>6. QED
    BY <1>1, <1>4, <1>5 DEF CacheOK

LEMMA StepCache ==
    ASSUME CacheOK, [Next]_vars
    PROVE  CacheOK'
  <1>1. CASE Commit
    BY <1>1, CommitCache
  <1>2. ASSUME NEW k \in DOMAIN cache, Network(k) \/ Forget(k) PROVE CacheOK'
    BY <1>2, AnswerCache, AnswerNothingCache, FailCache, ForgetCache DEF Network
  <1>3. CASE Uploaded
    BY <1>3, UploadedCache
  <1>4. CASE Upload
    <2>1. version' = version + 1 /\ UNCHANGED <<rendered, cache, missed, told>>
      BY <1>4 DEF Upload
    <2>2. told \in Nat /\ version \in Nat /\ told <= version
      BY DEF CacheOK
    <2>3. version + 1 \in Nat /\ told <= version + 1
      BY <2>2
    <2>4. QED
      BY <2>1, <2>3 DEF CacheOK
  <1>5. CASE Leave \/ OpenLink
    <2>1. rendered' = NoChart
      BY <1>5 DEF Leave, OpenLink
    <2>2. Hooks(NoChart) = {}
      BY DEF Hooks
    <2>3. CASE Leave
      <3>1. UNCHANGED <<cache, missed, told, version>>
        BY <2>3 DEF Leave
      <3>2. QED
        BY <2>1, <2>2, <3>1 DEF CacheOK
    <2>4. CASE OpenLink
      <3>1. cache' = <<>> /\ missed' = {} /\ told' = 0 /\ version' = version
        BY <2>4 DEF OpenLink
      <3>2. DOMAIN cache' = {} /\ told' \in Nat /\ version' \in Nat /\ told' <= version'
        BY <3>1 DEF CacheOK
      <3>3. QED
        BY <2>1, <2>2, <3>2 DEF CacheOK
    <2>5. QED
      BY <1>5, <2>3, <2>4
  <1>6. CASE UNCHANGED <<rendered, cache, missed, told, version>>
    BY <1>6 DEF CacheOK
  <1>7. CASE User
    <2>1. UNCHANGED <<rendered, cache, missed, told, version>>
      BY <1>7 DEF User, AddSource, RemoveSource, PickPill, PickUnit, PickChart, PickDates,
                  Zoom, PickShifted, PickShift, Redraw, ToggleArea, Back, Forward, Clear, Acts
    <2>2. QED
      BY <1>6, <2>1
  <1>8. CASE Preferences \/ Return \/ FollowLink
    BY <1>6, <1>8 DEF Preferences, Return, FollowLink
  <1>9. QED
    BY <1>1, <1>2, <1>3, <1>4, <1>5, <1>6, <1>7, <1>8 DEF Next, vars

LEMMA ShownFromInvariant ==
    ASSUME Settles, CacheOK
    PROVE  ShownAsAsked
  <1>1. Len(hist.prev) <= 6 * (acts + 1)
    <2> DEFINE a == Len(hist.prev)
               b == Owe(rendered, hist.current, shown)
    <2>1. a \in Nat /\ b \in 0..4 /\ acts \in Nat /\ Credit \in 0..4
      BY OweAtMost DEF Settles, TypeOK, IsHistory, IsStack, Credit
    <2>2. a + b + Credit <= 6 * (acts + 1)
      BY DEF Settles, Bounded
    <2> HIDE DEF a, b
    <2>3. a <= 6 * (acts + 1)
      BY <2>1, <2>2
    <2>4. QED
      BY <2>3 DEF a
  <1>2. SUFFICES ASSUME AtRest
                 PROVE  /\ \A q \in Hooks(g0) :
                             q.key \in DOMAIN cache /\ ~cache[q.key].pending =>
                               \A e \in Range(q.ids) :
                                  \/ <<q.key, e>> \in missed
                                  \/ \E d \in cache[q.key].data :
                                        /\ d.of = e /\ d.version >= told
                                        /\ d.unit = g0.unit /\ d.interval = q.interval
                        /\ g0.chart = "line" =>
                             \A d \in Exported(g0) : d.unit = g0.unit /\ d.interval = g0.interval
                        /\ g0.chart # "line" =>
                             /\ g0.three \in {None} \cup Range(Selected(g0))
                             /\ Len(Selected(g0)) = 1 => g0.three = Selected(g0)[1]
    BY <1>1 DEF ShownAsAsked
  <1>3. rendered = g0 /\ g0 # NoChart /\ (g0.chart # "line" => Fits(g0))
    BY <1>2, AtRestFits DEF AtRest, g0, Settles
  <1>4. /\ \A q \in Hooks(g0) : q.unit = g0.unit /\ q.key.unit = g0.unit
                                /\ q.interval = q.key.interval
        /\ g0.chart = "line" => \A q \in Hooks(g0) : q.interval = g0.interval
    BY <1>3, HooksKeyed
  <1>5. \A k \in DOMAIN cache : \A d \in cache[k].data :
            /\ d.unit = k.unit /\ d.interval = k.interval
            /\ d.version >= told \/ <<k, d.of>> \in missed
    BY DEF CacheOK, EntryOK
  <1>6. ASSUME NEW q \in Hooks(g0), q.key \in DOMAIN cache, ~cache[q.key].pending,
               NEW e \in Range(q.ids)
        PROVE  \/ <<q.key, e>> \in missed
               \/ \E d \in cache[q.key].data : /\ d.of = e /\ d.version >= told
                                               /\ d.unit = g0.unit /\ d.interval = q.interval
    <2>1. Covered(cache, missed, q)
      BY <1>3, <1>6 DEF CacheOK
    <2>2. <<q.key, e>> \in missed \/ \E d \in cache[q.key].data : d.of = e
      BY <1>6, <2>1 DEF Covered, Ids
    <2>3. QED
      BY <1>4, <1>5, <1>6, <2>2
  <1>7. ASSUME g0.chart = "line", NEW d \in Exported(g0)
        PROVE  d.unit = g0.unit /\ d.interval = g0.interval
    <2>1. PICK q \in Hooks(g0) : q.key \in DOMAIN cache /\ d \in cache[q.key].data
      BY <1>7 DEF Exported
    <2>2. QED
      BY <1>4, <1>5, <1>7, <2>1
  <1>8. QED
    BY <1>3, <1>6, <1>7 DEF Fits

(* What a chart shows once React has rendered what was chosen is what was  *)
(* asked for: every meter and group is in the cache in the unit and dates  *)
(* selected, of the last upload whose end the tab has seen, or was missed; *)
(* what 3D and compare line show is one of the selected; and what the      *)
(* components dispatch by themselves comes to rest.                        *)
THEOREM ShownIsAsked == Spec => []ShownAsAsked
  <1>1. Init => Settles /\ CacheOK
    <2>1. Init => CacheOK
      <3>1. Hooks(NoChart) = {}
        BY DEF Hooks
      <3>2. QED
        BY <3>1 DEF Init, CacheOK
    <2>2. QED
      BY <2>1, InitSettles
  <1>2. Settles /\ CacheOK /\ [Next]_vars => Settles' /\ CacheOK'
    BY StepSettles, StepCache
  <1>3. Settles /\ CacheOK => ShownAsAsked
    BY ShownFromInvariant
  <1>4. QED
    BY <1>1, <1>2, <1>3, PTL DEF Spec

-----------------------------------------------------------------------------
(* Links                                                                   *)

(* Of what its chart shows g has all that l has; of the pills that of l,   *)
(* or none where l had none, unless there is but one to choose.            *)
Recreates(l, g) ==
    /\ \A f \in Recreated(l) \ {"three"} : g[f] = l[f]
    /\ l.chart # "line" /\ Len(Selected(l)) # 1 =>
            g.three \in IF l.three = None THEN {None, Nought} ELSE {l.three}

LinkInv ==
    linked # None =>
        /\ IsState(linked) /\ (linked.chart # "line" => Fits(linked))
        /\ page = "link" => /\ link = ChartLink(linked)
                            /\ hist.current.meters = <<>> /\ hist.current.groups = <<>>
        /\ page # "link" => hist.current.hotlinked /\ Recreates(linked, hist.current)
        /\ rendered # NoChart => /\ rendered.meters = linked.meters
                                 /\ rendered.groups = linked.groups

LEMMA RecreatedFields ==
    ASSUME NEW g
    PROVE  /\ {"meters", "groups", "unit", "chart", "interval", "area"} \subseteq Recreated(g)
           /\ Recreated(g) \subseteq StateFields
           /\ "three" \in Recreated(g) <=> g.chart # "line"
           /\ "shifted" \in Recreated(g) =>
                "shift" \in Recreated(g) /\ g.chart = "compareLine" /\ g.shift = "custom"
           /\ "shift" \in Recreated(g) => g.chart = "compareLine"
           /\ "slider" \in Recreated(g) => g.chart = "line"
           /\ "hotlinked" \notin Recreated(g)
  BY DEF Recreated, StateFields

LEMMA SameSelected ==
    ASSUME NEW l, NEW g, \A f \in Recreated(l) \ {"three"} : g[f] = l[f]
    PROVE  g.meters = l.meters /\ g.groups = l.groups /\ Selected(g) = Selected(l)
           /\ g.chart = l.chart
  <1>1. {"meters", "groups", "chart"} \subseteq Recreated(l) \ {"three"}
    BY RecreatedFields
  <1>2. QED
    BY <1>1 DEF Selected

LEMMA CommitLink ==
    ASSUME TypeOK, LinkInv, Commit
    PROVE  LinkInv'
  <1> DEFINE g == hist.current
             k == Effects(g)
             l == linked
  <1>1. /\ page = "charts" /\ rendered' = g /\ hist' = k
        /\ page' = page /\ link' = link /\ linked' = linked
    BY DEF Commit, Due, tab, Effects
  <1>2. SUFFICES ASSUME l # None PROVE LinkInv'
    BY <1>1 DEF LinkInv
  <1>3. /\ IsState(l) /\ (l.chart # "line" => Fits(l))
        /\ g.hotlinked /\ Recreates(l, g)
        /\ rendered # NoChart => rendered.meters = l.meters /\ rendered.groups = l.groups
    BY <1>1, <1>2 DEF LinkInv
  <1>4. IsState(g)
    BY DEF TypeOK, IsHistory
  <1>5. /\ \A f \in StateFields \ {"three", "shifted"} : k.current[f] = g[f]
        /\ g.shift = "custom" => k.current.shifted = g.shifted
        /\ g.chart # "line" /\ Len(Selected(g)) # 1 /\ ~More(rendered, g, shown) =>
                k.current.three = IF Stale(g) THEN None ELSE g.three
    BY EffectsLead
  <1>6. g.meters = l.meters /\ g.groups = l.groups /\ Selected(g) = Selected(l) /\ g.chart = l.chart
    BY <1>3, SameSelected DEF Recreates
  <1> HIDE DEF k
  <1>7. k.current.hotlinked
    <2>1. k.current.hotlinked = g.hotlinked
      BY <1>5 DEF StateFields
    <2>2. QED
      BY <1>3, <2>1
  <1>8. ASSUME NEW f \in Recreated(l) \ {"three"} PROVE k.current[f] = l[f]
    <2>1. g[f] = l[f]
      BY <1>3 DEF Recreates
    <2>2. CASE f = "shifted"
      <3>1. "shift" \in Recreated(l) \ {"three"} /\ l.shift = "custom"
        BY <1>8, <2>2, RecreatedFields
      <3>2. g.shift = "custom"
        BY <1>3, <3>1 DEF Recreates
      <3>3. QED
        BY <1>5, <2>1, <2>2, <3>2
    <2>3. CASE f # "shifted"
      <3>1. f \in StateFields \ {"three", "shifted"}
        BY <1>8, <2>3, RecreatedFields
      <3>2. QED
        BY <1>5, <2>1, <3>1
    <2>4. QED
      BY <2>2, <2>3
  <1>9. ASSUME l.chart # "line", Len(Selected(l)) # 1
        PROVE  k.current.three \in IF l.three = None THEN {None, Nought} ELSE {l.three}
    <2>1. ~More(rendered, g, shown)
      <3>1. rendered # NoChart => shown = Len(Selected(l))
        BY <1>3 DEF TypeOK, Selected
      <3>2. Len(Selected(l)) \in Nat
        BY <1>3, SelectedIs
      <3>3. QED
        BY <1>6, <3>1, <3>2 DEF More
    <2>2. k.current.three = IF Stale(g) THEN None ELSE g.three
      BY <1>5, <1>6, <1>9, <2>1
    <2>3. g.three \in IF l.three = None THEN {None, Nought} ELSE {l.three}
      BY <1>3, <1>9 DEF Recreates
    <2>4. CASE l.three = None
      BY <2>2, <2>3, <2>4
    <2>5. CASE l.three # None
      <3>1. g.three = l.three /\ l.three \in Range(Selected(l))
        BY <1>3, <1>9, <2>3, <2>5 DEF Fits
      <3>2. ~Stale(g)
        BY <1>6, <3>1 DEF Stale
      <3>3. QED
        BY <2>2, <2>5, <3>1, <3>2
    <2>6. QED
      BY <2>4, <2>5
  <1>10. Recreates(l, k.current)
    BY <1>8, <1>9 DEF Recreates
  <1>11. QED
    BY <1>1, <1>3, <1>6, <1>7, <1>10 DEF LinkInv

LEMMA FollowCreates ==
    ASSUME NEW l, IsState(l), NEW g, IsState(g), g.meters = <<>>, g.groups = <<>>
    PROVE  LET y == ProcessGraphLink(g, ChartLink(l))
           IN  y.hotlinked = TRUE /\ Recreates(l, y)
  <1> DEFINE p == ChartLink(l)
             y == ProcessGraphLink(g, p)
  <1>1. \A f \in StateFields : y[f] = IF f = "hotlinked" THEN TRUE
                                      ELSE IF f \in DOMAIN p THEN p[f] ELSE g[f]
    BY DEF ProcessGraphLink, IsState
  <1>2. \A f \in DOMAIN p : p[f] = IF f = "three" /\ l.three = None THEN Nought ELSE l[f]
    BY DEF ChartLink
  <1>3. /\ {"chart", "interval", "unit", "area"} \subseteq DOMAIN p
        /\ "meters" \in DOMAIN p <=> l.meters # <<>>
        /\ "groups" \in DOMAIN p <=> l.groups # <<>>
        /\ l.chart = "line" => "slider" \in DOMAIN p
        /\ l.chart # "line" => "three" \in DOMAIN p
        /\ l.chart = "compareLine" => "shift" \in DOMAIN p
        /\ l.chart = "compareLine" /\ l.shift = "custom" => "shifted" \in DOMAIN p
    BY DEF ChartLink
  <1> HIDE DEF p, y
  <1>4. y.hotlinked = TRUE
    BY <1>1 DEF StateFields
  <1>5. ASSUME NEW f \in Recreated(l) \ {"three"} PROVE y[f] = l[f]
    <2>1. f \in StateFields /\ f # "hotlinked" /\ f # "three"
      BY <1>5, RecreatedFields
    <2>2. CASE f \in DOMAIN p
      BY <1>1, <1>2, <2>1, <2>2
    <2>3. CASE f \notin DOMAIN p
      <3>1. f \in {"meters", "groups"}
        BY <1>3, <1>5, <2>3 DEF Recreated
      <3>2. l[f] = <<>> /\ g[f] = <<>>
        BY <1>3, <2>3, <3>1
      <3>3. QED
        BY <1>1, <2>1, <2>3, <3>2
    <2>4. QED
      BY <2>2, <2>3
  <1>6. l.chart # "line" => y.three \in IF l.three = None THEN {None, Nought} ELSE {l.three}
    <2>1. "three" \in StateFields /\ "three" # "hotlinked"
      BY DEF StateFields
    <2>2. QED
      BY <1>1, <1>2, <1>3, <2>1
  <1>7. QED
    BY <1>4, <1>5, <1>6 DEF Recreates, y, p

LEMMA StepLink ==
    ASSUME Settles, LinkInv, [Next]_vars
    PROVE  LinkInv'
  <1>1. TypeOK /\ IsHistory(hist) /\ IsState(hist.current)
    BY DEF Settles, TypeOK, IsHistory
  <1>2. CASE UNCHANGED <<hist, rendered, page, link, linked>>
    BY <1>2 DEF LinkInv
  <1>3. CASE Commit
    BY <1>1, <1>3, CommitLink
  <1>4. ASSUME NEW k \in DOMAIN cache, Network(k) \/ Forget(k) PROVE LinkInv'
    <2>1. UNCHANGED <<hist, rendered, page, link, linked>>
      BY <1>4 DEF Network, Answer, AnswerNothing, Fail, Forget, tab
    <2>2. QED
      BY <1>2, <2>1
  <1>5. CASE Upload \/ Uploaded
    BY <1>2, <1>5 DEF Upload, Uploaded
  <1>6. CASE User
    <2>1. linked' = None
      BY <1>6 DEF User, AddSource, RemoveSource, PickPill, PickUnit, PickChart, PickDates,
                  Zoom, PickShifted, PickShift, Redraw, ToggleArea, Back, Forward, Clear, Acts
    <2>2. QED
      BY <2>1 DEF LinkInv
  <1>7. CASE Preferences
    <2> DEFINE g == hist.current
               y == GetPreferences(g)
    <2>1. /\ hist'.current = y
          /\ UNCHANGED <<rendered, page, link, linked>>
      <3>1. "current" \in DOMAIN hist
        BY <1>1 DEF IsHistory
      <3>2. QED
        BY <1>7, <3>1 DEF Preferences
    <2>2. g.hotlinked => y = g
      BY DEF GetPreferences
    <2>3. y.meters = g.meters /\ y.groups = g.groups
      BY <1>1 DEF GetPreferences, IsState, StateFields
    <2> HIDE DEF y
    <2>4. QED
      BY <2>1, <2>2, <2>3 DEF LinkInv
  <1>8. CASE Leave \/ Return
    <2>1. /\ page # "link" /\ page' # "link"
          /\ rendered' = rendered \/ rendered' = NoChart
          /\ UNCHANGED <<hist, link, linked>>
      BY <1>8 DEF Leave, Return, AtRest
    <2>2. QED
      BY <2>1 DEF LinkInv
  <1>9. CASE OpenLink
    <2>1. /\ AtRest /\ link' = ChartLink(g0) /\ linked' = g0 /\ page' = "link"
          /\ hist'.current = DefaultState /\ rendered' = NoChart
      BY <1>9 DEF OpenLink
    <2>2. IsState(g0) /\ (g0.chart # "line" => Fits(g0))
      BY <2>1, AtRestFits DEF Settles, AtRest, g0
    <2>3. DefaultState.meters = <<>> /\ DefaultState.groups = <<>>
      BY DEF DefaultState
    <2>4. QED
      BY <2>1, <2>2, <2>3 DEF LinkInv
  <1>10. CASE FollowLink
    <2> DEFINE g == hist.current
               y == ProcessGraphLink(g, link)
    <2>1. /\ page = "link" /\ page' = "charts" /\ rendered = NoChart /\ rendered' = NoChart
          /\ hist'.current = y /\ linked' = linked
      <3>1. "current" \in DOMAIN hist
        BY <1>1 DEF IsHistory
      <3>2. QED
        BY <1>1, <1>10, <3>1 DEF FollowLink, TypeOK
    <2>2. SUFFICES ASSUME linked # None PROVE LinkInv'
      BY <2>1 DEF LinkInv
    <2>3. /\ IsState(linked) /\ (linked.chart # "line" => Fits(linked))
          /\ link = ChartLink(linked) /\ g.meters = <<>> /\ g.groups = <<>>
      BY <2>1, <2>2 DEF LinkInv
    <2>4. y.hotlinked = TRUE /\ Recreates(linked, y)
      BY <1>1, <2>3, FollowCreates
    <2> HIDE DEF y
    <2>5. QED
      BY <2>1, <2>3, <2>4 DEF LinkInv
  <1>11. QED
    BY <1>2, <1>3, <1>4, <1>5, <1>6, <1>7, <1>8, <1>9, <1>10 DEF Next, vars

LEMMA LinkFromInvariant ==
    ASSUME Settles, LinkInv
    PROVE  LinkRecreates
  <1>1. SUFFICES ASSUME AtRest, linked # None, NEW f \in Recreated(linked)
                 PROVE  g0[f] = linked[f]
    BY DEF LinkRecreates
  <1>2. /\ rendered = g0 /\ IsState(g0) /\ page = "charts"
        /\ g0.chart # "line" => Fits(g0)
    BY <1>1, AtRestFits DEF AtRest, g0, Settles
  <1>3. /\ IsState(linked) /\ (linked.chart # "line" => Fits(linked)) /\ Recreates(linked, g0)
    BY <1>1, <1>2 DEF LinkInv, g0
  <1>4. CASE f # "three"
    BY <1>1, <1>3, <1>4 DEF Recreates
  <1>5. CASE f = "three"
    <2>1. linked.chart # "line"
      BY <1>1, <1>5, RecreatedFields
    <2>2. Selected(g0) = Selected(linked) /\ g0.chart = linked.chart
      BY <1>3, SameSelected DEF Recreates
    <2>3. Fits(g0) /\ Fits(linked)
      BY <1>2, <1>3, <2>1, <2>2
    <2>4. CASE Len(Selected(linked)) = 1
      BY <1>5, <2>2, <2>3, <2>4 DEF Fits
    <2>5. CASE Len(Selected(linked)) # 1
      <3>1. g0.three \in IF linked.three = None THEN {None, Nought} ELSE {linked.three}
        BY <1>3, <2>1, <2>5 DEF Recreates
      <3>2. Nought \notin Range(Selected(g0))
        BY <1>2, SelectedIs
      <3>3. g0.three = Nought => Nought = None
        BY <2>3, <3>2 DEF Fits
      <3>4. QED
        BY <1>5, <3>1, <3>3
    <2>6. QED
      BY <2>4, <2>5
  <1>6. QED
    BY <1>4, <1>5

(* A link opens the chart it was made from, whether the preferences of the *)
(* site arrive before or after it is read, and whatever the components     *)
(* then dispatch by themselves.                                            *)
THEOREM LinksRecreate == Spec => []LinkRecreates
  <1>1. Init => Settles /\ LinkInv
    <2>1. Init => LinkInv
      BY DEF Init, LinkInv
    <2>2. QED
      BY <2>1, InitSettles
  <1>2. Settles /\ LinkInv /\ [Next]_vars => Settles' /\ LinkInv'
    BY StepSettles, StepLink
  <1>3. Settles /\ LinkInv => LinkRecreates
    BY LinkFromInvariant
  <1>4. QED
    BY <1>1, <1>2, <1>3, PTL DEF Spec

=============================================================================
