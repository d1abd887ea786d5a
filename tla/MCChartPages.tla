---------------------------- MODULE MCChartPages ----------------------------
(* One meter that is shown in kWh or in a raw unit, one without an area, and *)
(* a group of both.                                                          *)
EXTENDS ChartPages
CONSTANTS m1, m2, g1, kWh, C

MCNames == <<m1, g1, m2>>
MCMembers == g1 :> {m1, m2}
MCCik == (m1 :> {kWh, C}) @@ (m2 :> {kWh})
MCDefaultUnit == (m1 :> kWh) @@ (m2 :> None) @@ (g1 :> kWh)
MCIntervals == {<<"june">>}
(* A link to compare line, and none.                                         *)
MCLinks == {None, ChartLink([DefaultState EXCEPT !.meters = <<m1>>, !.unit = kWh,
    !.chart = "compareLine", !.interval = <<"june">>, !.three = m1, !.shift = "week",
    !.shifted = <<"june", "week">>])}
MCPreferred == [chart |-> "threeD", area |-> TRUE]
=============================================================================
