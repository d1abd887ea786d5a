--------------------------- MODULE CounterLedger ---------------------------
(***************************************************************************)
(* What the uploads of a cumulative meter promise, without rows, batches   *)
(* or checks: the meter's memory only ever moves to a point its counter    *)
(* went through, what is then owed to the readings table is legitimate,    *)
(* and it is stored once, altogether, or lost, never twice and never       *)
(* without having been counted.                                            *)
(***************************************************************************)
EXTENDS Integers

CONSTANTS
    Legit,      \* the readings the counter explains
    Shown       \* the points [reading, at] the counter went through

VARIABLES
    told,       \* the point the meter remembers
    owed,       \* readings that are counted but not stored
    ledger      \* the readings table

vars == <<told, owed, ledger>>

Starts(S) == {r.start : r \in S}

Init ==
    /\ told \in Shown
    /\ owed = {}
    /\ ledger = {}

(* processData ends: the meter is updated and its readings are owed.       *)
Count ==
    /\ owed = {}
    /\ told' \in Shown
    /\ owed' \subseteq Legit
    /\ UNCHANGED ledger

(* loadArrayInput: a reading for every start that is owed and has none.    *)
Store ==
    /\ owed' = {}
    /\ \E new \in SUBSET owed :
        /\ ledger' = ledger \cup new
        /\ Starts(new) = Starts(owed) \ Starts(ledger)
        /\ \A a, b \in new : a.start = b.start => a = b
    /\ UNCHANGED told

(* A crash, or a reading the table refuses.                                *)
Lose ==
    /\ owed' = {}
    /\ UNCHANGED <<told, ledger>>

Next == Count \/ Store \/ Lose

Spec == Init /\ [][Next]_vars
=============================================================================
