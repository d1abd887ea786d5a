--------------------------- MODULE CounterUploads ---------------------------
(***************************************************************************)
(* The pipeline fed by a cumulative meter: every row that parses shows the *)
(* meter's counter at the end of the row.  The rows may be in any order,   *)
(* repeated, overlapping or missing, in any number of batches, with        *)
(* batches rejected and the server dying at any point.  DST is not         *)
(* honoured, uploads neither shorten readings to the meter's frequency nor *)
(* update stored ones.                                                     *)
(***************************************************************************)
EXTENDS ReadingPipeline

CONSTANTS
    Shows(_),    \* what the counter shows at a tick
    Used(_)      \* the energy used up to a tick

ASSUME CounterAssumption ==
    /\ \A row \in Rows : ~row.bad => row.value = Shows(row.end)
    /\ \A c \in Configs : c.cumulative /\ ~c.honorDst /\ c.frequency = 0 /\ ~c.update

(* A reading of a cumulative meter is explained by the counter if its      *)
(* value is what the counter gained since some tick p at most the allowed  *)
(* gap before its start or, over a reset inside the reset hours, what the  *)
(* counter showed at its end.                                              *)
Explained(c, r) ==
    \E p \in (r.start - c.gap)..r.start :
        \/ /\ Shows(r.end) >= Shows(p)
           /\ r.val = Whole(Shows(r.end) - Shows(p))
        \/ /\ Shows(r.end) < Shows(p)
           /\ ResetAllowed(c, r.start)
           /\ r.val = Whole(Shows(r.end))

(* The counter explains every reading the pipeline accepts, whatever was   *)
(* dropped, rejected or lost before it (processData: meter.reading and     *)
(* prevReading must move together, in memory and in the database).         *)
AcceptedAreExplained ==
    \A i \in DOMAIN loop.result : Explained(cfg, loop.result[i])

(* The meter's row remembers a raw reading and a time of the same row, so  *)
(* the next batch subtracts the right amount (meter.update at the end of   *)
(* processData, and no update on any path that rejects the batch).         *)
MeterMatchesCounter == meter.end.t # E0 => meter.reading = Shows(meter.end.t)

(* The readings table never credits an interval, widened by the largest    *)
(* gap any upload allows, with more energy than was used in it, in spite   *)
(* of resets, re-uploads and lost batches.                                 *)
NeverOverAttributed ==
    \A r \in readings : \E c \in Configs :
        r.val.v * r.val.num <= (Used(r.end) - Used(r.start - c.gap)) * r.val.den

(* Checks that reject, and may report an error, let nothing outside the    *)
(* limits into the table (validateReadings and validateSingleReading       *)
(* before the insert).                                                     *)
InsertedWithinLimits ==
    [][cfg.checks \in {"reject_all", "reject_bad"} /\ cfg.maxError > 0
        => \A r \in readings' \ readings : InLimits(cfg, r)]_vars

-----------------------------------------------------------------------------
(* The pipeline seen as a ledger: what the meter's row remembers of the    *)
(* counter, and what the update of the row leaves to be inserted.          *)

Plain(rs, i) == [start |-> rs[i].start, end |-> rs[i].end, val |-> rs[i].val]

Told == [reading |-> meter.reading, at |-> meter.end.t]

Owed ==
    IF pc = "insert" THEN {Plain(loop.result, i) : i \in Kept(cfg, loop.result)} ELSE {}

Ledger ==
    INSTANCE CounterLedger WITH
        Legit <- {r \in Reading : \E c \in Configs : Explained(c, r)},
        Shown <- {s \in [reading : Int, at : Nat] : s.at # E0 => s.reading = Shows(s.at)},
        told <- Told, owed <- Owed, ledger <- readings

(* The pipeline implements the ledger: whatever rows come, whatever is     *)
(* dropped, rejected or lost, a reading is stored only after the update of *)
(* the meter that counts its row, once at most for each start, and with    *)
(* the other readings of its batch or not at all (processData and          *)
(* loadArrayInput together).                                               *)
KeepsLedger == Ledger!Spec
=============================================================================
