---------------------------- MODULE MCMeterPages ----------------------------
(***************************************************************************)
(* MeterPages with two names and two units, one meter of a group, and      *)
(* files of one meter, in its bounds or not, and of one given twice.       *)
(***************************************************************************)
EXTENDS MeterPages

CONSTANTS m1, m2, energy, flow

Entry(u, c, r, o) == [unit |-> u, cumulative |-> c, reset |-> r, odd |-> o]
MCEntered == {Entry(energy, TRUE, TRUE, {}), Entry(flow, FALSE, FALSE, {"area"}),
              Entry(flow, FALSE, FALSE, {"limits"}), Entry(flow, FALSE, FALSE, {"dates"})}

FileRow(n, u, c, gives, odd) ==
    [name |-> n, unit |-> u, limits |-> Widest, cumulative |-> c, reset |-> FALSE,
     gives |-> gives, odd |-> odd]
MCFiles == {<<FileRow(m2, energy, FALSE, {"dates"}, {"dates"}),
              FileRow(m2, flow, TRUE, {}, {})>>,
            <<FileRow(m1, flow, TRUE, {"dates"}, {})>>,
            <<FileRow(m1, energy, TRUE, {"limits"}, {"limits"})>>}
=============================================================================
