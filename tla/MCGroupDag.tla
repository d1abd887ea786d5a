----------------------------- MODULE MCGroupDag -----------------------------
(***************************************************************************)
(* GroupDag with three group ids, two of them in use at first, one meter   *)
(* and two admins.                                                         *)
(***************************************************************************)
EXTENDS GroupDag

CONSTANTS meter

Edit(g, want, rename) == [kind |-> "edit", group |-> g, want |-> want, rename |-> rename]

MCRequests ==
    {Edit(1, {2}, FALSE), Edit(1, {2, meter}, FALSE), Edit(1, {}, TRUE), Edit(1, {3}, TRUE),
     Edit(2, {1}, FALSE), Edit(2, {3}, FALSE), Edit(3, {1}, TRUE), Edit(3, {meter}, FALSE),
     [kind |-> "create", group |-> None, want |-> {1, meter}, rename |-> FALSE],
     [kind |-> "delete", group |-> 1, want |-> {}, rename |-> FALSE],
     [kind |-> "delete", group |-> 2, want |-> {}, rename |-> FALSE],
     [kind |-> "delete", group |-> 3, want |-> {}, rename |-> FALSE]}
=============================================================================
