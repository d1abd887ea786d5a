--------------------------- MODULE MCMeterUploads ---------------------------
(***************************************************************************)
(* MeterUploads with one unit of a quantity and two of a flow, per minute  *)
(* and per hour, and a device that counts four times.                      *)
(***************************************************************************)
EXTENDS MeterUploads

CONSTANTS energy, flow, slow, kwh, gpm

MCLimit == [uploads |-> 1, edits |-> 1, files |-> 1, crashes |-> 1]
MCEntered == {[unit |-> flow, graphic |-> NoUnit, displayable |-> TRUE]}
MCInFiles == {[unit |-> energy, graphic |-> kwh, displayable |-> TRUE],
              [unit |-> NoUnit, graphic |-> gpm, displayable |-> TRUE]}
MCKind(u) == IF u = energy THEN "quantity" ELSE "flow"
MCSeconds(u) == IF u = flow THEN 60 ELSE 3600
MCCompatible(u) == IF u = energy THEN {kwh} ELSE {gpm}
=============================================================================
