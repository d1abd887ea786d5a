------------------------- MODULE MCCounterUploads -------------------------
(***************************************************************************)
(* CounterUploads on one honest meter that uses one unit of energy per    *)
(* tick and whose counter resets at midnight.  Files hold any rows of the  *)
(* meter in any order, with duplicates, gaps and overlaps, and rows that   *)
(* do not parse.  The third setting allows the reset from an hour before   *)
(* midnight on, the first and second do not expect one.                    *)
(***************************************************************************)
EXTENDS CounterUploads

CONSTANTS LastTick, MaxLength

Midnight == 5

MCShows(t) == t % Midnight
MCUsed(t) == t

MCRow(s, e, b) ==
    [value |-> MCShows(e), start |-> s, startTz |-> 0, end |-> e, endTz |-> 0, bad |-> b]

MCRows ==
    {MCRow(s, e, FALSE) : s \in 0..LastTick, e \in 1..LastTick} \cup {MCRow(1, 1, TRUE)}

(* An end-only row has no start; rows without a positive length occur as   *)
(* faults.                                                                 *)
MCDelivers(c, n, prior, row) ==
    \/ row.bad
    \/ IF c.endOnly THEN row.start = 0
       ELSE row.start # 0 /\ row.start <= row.end /\ row.end - row.start <= MaxLength

Setting == [cumulative |-> TRUE, endOnly |-> FALSE, honorDst |-> FALSE, reset |-> FALSE,
            resetStart |-> 0, resetEnd |-> Midnight, gap |-> 1,
            frequency |-> 0, variation |-> 0, slack |-> 0, update |-> FALSE,
            checks |-> "reject_all", minDate |-> 0, maxDate |-> LastTick,
            minVal |-> -LastTick, maxVal |-> LastTick, maxError |-> 1]

MCConfigs ==
    {Setting,
     [Setting EXCEPT !.endOnly = TRUE, !.gap = 0],
     [Setting EXCEPT !.reset = TRUE, !.resetStart = 4, !.resetEnd = 0],
     [Setting EXCEPT !.checks = "reject_bad", !.maxDate = LastTick - 1, !.maxVal = 1]}

MCUntils == {E0}
MCDay == Midnight
MCMayFollow(c, d) == TRUE
=============================================================================
