----------------------------- MODULE DstUploads -----------------------------
(***************************************************************************)
(* The pipeline fed by a meter whose wall clock follows daylight saving    *)
(* time.  Instants are real time; a row stands for real time from          *)
(* From(row) to To(row) and is stamped with the wall-clock time and the    *)
(* offset of the zone at those instants.  The meter uses one unit per tick.*)
(***************************************************************************)
EXTENDS ReadingPipeline

CONSTANTS
    Spring,    \* the instant at which the zone enters DST
    Fall,      \* the instant at which it leaves DST
    Saving     \* ticks the clock is put forward in DST

Offset(u) == IF Spring <= u /\ u < Fall THEN Saving ELSE 0

From(row) == row.start - row.startTz
To(row) == row.end - row.endTz

(* The row carries the offsets its zone had.                               *)
Honest(row) ==
    /\ From(row) < To(row)
    /\ row.startTz = Offset(From(row))
    /\ row.endTz = Offset(To(row))

(* The wall-clock times nothing happens at, and those that happen twice.   *)
GapStart == Spring
GapEnd == Spring + Saving
RepeatStart == Fall
RepeatEnd == Fall + Saving

(* The zone is put forward once and back once; the change is what the code *)
(* finds from the end of the hour that is skipped until the clock goes     *)
(* back.                                                                   *)
ASSUME YearAssumption ==
    /\ Spring \in Nat \ {0} /\ Fall \in Nat /\ Saving \in Nat \ {0}
    /\ GapEnd < Fall
    /\ Untils \cap (GapEnd..(Fall - 1)) = {GapEnd}
    /\ NoRow \notin Rows

(* A meter that reports without a pause, in rows shorter than the season,  *)
(* whose uploads all honour DST and keep their form, and in no batch begin *)
(* with a row whose clock did not advance (processData does not take such  *)
(* a first row for a crossing).  A plain row shows what was used in it, a  *)
(* cumulative one what was used up to its end.                             *)
Steady(c, n, prior, row) ==
    /\ Honest(row)
    /\ From(row) > 0 /\ To(row) - From(row) <= Fall - GapEnd
    /\ row.value = IF c.cumulative THEN To(row) ELSE To(row) - From(row)
    /\ prior # NoRow => From(row) = To(prior)
    /\ n = 0 => row.start < row.end

SteadyMeter ==
    /\ \A c \in Configs : c.honorDst
    /\ \A c, d \in Configs : MayFollow(c, d) => c.cumulative = d.cumulative
    /\ \A c \in Configs, n \in 0..MaxRows, prior \in Rows \cup {NoRow}, row \in Rows :
        Delivers(c, n, prior, row) /\ ~row.bad => Steady(c, n, prior, row)

Disjoint(a, b) == a.end <= b.start \/ b.end <= a.start

NoOverlap ==
    \A i \in DOMAIN loop.result :
        /\ \A j \in DOMAIN loop.result : i # j => Disjoint(loop.result[i], loop.result[j])
        /\ pc # "idle" => \A r \in readings : Disjoint(loop.result[i], r)

(* Each accepted reading has exactly the energy of its wall-clock length:  *)
(* the parts of a split row together keep the whole of it, and a cut row   *)
(* keeps the share of the part that is used (prorated in processData).     *)
(* With useMeterFrequency this is claimed for rows of just that length,    *)
(* which follow no missing row.                                            *)
RatePreserved ==
    \A i \in DOMAIN loop.result :
        LET r == loop.result[i]
        IN  cfg.frequency \in {0, To(r.row) - From(r.row)}
            => r.val.den > 0 /\ r.val.v * r.val.num = (r.end - r.start) * r.val.den

Meets(t, s) == s = t \/ (t = GapStart /\ s = GapEnd)

NoHole ==
    cfg.frequency = 0 =>
        /\ \A i \in 1..(Len(loop.result) - 1) :
              Meets(loop.result[i].end, loop.result[i + 1].start)
        /\ (pc = "loop" /\ meter.end.t # E0 /\ loop.result # <<>>)
            => Meets(IF meter.previousEnd # E0 THEN meter.previousEnd ELSE meter.end.t,
                     loop.result[1].start)

(* The wall-clock intervals the pipeline accepts never overlap each other  *)
(* or a stored reading, although clocks go back and rows of any length     *)
(* cross the change, and they leave no hole but the skipped hour, in one   *)
(* batch or over a batch boundary (the inDst part of processData and       *)
(* meter.previousEnd).                                                     *)
TimesExact == NoOverlap /\ NoHole

(* While DST is honoured, the only rows of a meter that reports without a  *)
(* pause that are dropped are its first ever and those that end inside the *)
(* hour that repeats: "this reading entirely overlaps a previous reading   *)
(* so it is dropped" (processData, inDst).                                 *)
DroppedRow == loop'.n = loop.n + 1 /\ loop'.result = loop.result

DropsOnlyRepeated ==
    [][(pc = "loop" /\ cfg.honorDst /\ DroppedRow /\ ~First(loop))
        => RepeatStart <= last'.end /\ last'.end <= RepeatEnd]_vars
=============================================================================
