---------------------------- MODULE MCDstUploads ----------------------------
(***************************************************************************)
(* DstUploads over one year of LastInstant ticks: spring, fall, and rows   *)
(* of MinLength..MaxLength ticks that follow each other.                   *)
(***************************************************************************)
EXTENDS DstUploads

CONSTANTS
    LastInstant,
    MinLength,
    MaxLength,
    Frequency,    \* the meter's frequency, for uploads with useMeterFrequency
    Missing,      \* ticks of rows that may be missing between two rows
    MixedDst      \* uploads may also come without honorDst

MCRow(v, u, w) ==
    [value |-> v, start |-> u + Offset(u), startTz |-> Offset(u),
     end |-> w + Offset(w), endTz |-> Offset(w), bad |-> FALSE]

(* A plain row shows what was used in it, a cumulative one what was used   *)
(* up to its end.                                                          *)
MCRows ==
    LET spans == {<<u, w>> \in (1..LastInstant) \X (1..LastInstant) : w - u \in MinLength..MaxLength}
    IN  {MCRow(s[2], s[1], s[2]) : s \in spans} \cup {MCRow(s[2] - s[1], s[1], s[2]) : s \in spans}

(* Rows follow each other, with at most Missing ticks between them.  A     *)
(* batch does not begin with a row whose clock reading did not advance:    *)
(* processData does not take such a first row for a crossing.              *)
MCDelivers(c, n, prior, row) ==
    /\ Honest(row)
    /\ row.value = IF c.cumulative THEN To(row) ELSE To(row) - From(row)
    /\ IF prior = NoRow THEN From(row) = 1
       ELSE From(row) - To(prior) \in 0..Missing
    /\ n = 0 => row.start < row.end

Setting == [cumulative |-> FALSE, endOnly |-> FALSE, honorDst |-> TRUE, reset |-> FALSE,
            resetStart |-> 0, resetEnd |-> 0, gap |-> 0,
            frequency |-> 0, variation |-> 0, slack |-> 0, update |-> FALSE,
            checks |-> "reject_disabled", minDate |-> 0, maxDate |-> 0, minVal |-> 0,
            maxVal |-> 0, maxError |-> 0]

MCConfigs ==
    {[s EXCEPT !.cumulative = cumulative, !.endOnly = endOnly] :
        cumulative \in BOOLEAN, endOnly \in BOOLEAN,
        s \in {Setting} \cup (IF MixedDst THEN {[Setting EXCEPT !.honorDst = FALSE]} ELSE {})}
    \cup {[Setting EXCEPT !.endOnly = TRUE, !.frequency = Frequency]}

MCUntils == {E0, GapEnd, RepeatStart}
(* Rows keep the form the meter gives them.                                *)
MCMayFollow(c, d) ==
    c.cumulative = d.cumulative /\ c.endOnly = d.endOnly /\ c.frequency = d.frequency

(* The hypotheses of the theorems hold of the instance that is run.        *)
ASSUME SteadyAssumption == Missing = 0 /\ ~MixedDst => SteadyMeter
ASSUME FrequencyAssumption == Frequency <= Saving => \A c \in Configs : c.frequency <= Saving
=============================================================================
