---------------------------- MODULE MCCikRefresh ----------------------------
(***************************************************************************)
(* CikRefresh with the units of the test data that has a suffix: a meter's *)
(* unit, kWh, "kg CO2" with the suffix CO2, kg, which is not shown, and a  *)
(* unit that a bidirectional conversion joins to it.                       *)
(***************************************************************************)
EXTENDS CikRefresh

CONSTANTS meter, kWh, carbon, kg, ton, gram, pound, co2, co

Row(t, s, d) == [type |-> t, suffix |-> s, disp |-> d]
Line(a, b) == [slope |-> a, icept |-> b]
Conversion(a, b, two, f) == [source |-> a, dest |-> b, bi |-> two, map |-> f]

MCInitUnits ==
    meter :> Row("meter", NoSuffix, "none") @@ kWh :> Row("unit", NoSuffix, "all")
    @@ carbon :> Row("unit", co2, "all") @@ kg :> Row("unit", NoSuffix, "none")
    @@ ton :> Row("unit", NoSuffix, "admin") @@ gram :> Row("unit", NoSuffix, "none")
MCInitConversions ==
    <<meter, kWh>> :> [bi |-> FALSE, map |-> Line(1, 0)]
    @@ <<kWh, carbon>> :> [bi |-> FALSE, map |-> Line(2, 1)]
    @@ <<carbon, kg>> :> [bi |-> FALSE, map |-> Line(1, 2)]
    @@ <<ton, kg>> :> [bi |-> TRUE, map |-> Line(3, 1)]

MCAdds ==
    {Conversion(carbon, gram, FALSE, Line(2, 3)), Conversion(meter, kg, FALSE, Line(4, 0)),
     Conversion(kg, kWh, TRUE, Line(2, 0))}
MCEdits == {Conversion(carbon, kg, FALSE, Line(3, 2)), Conversion(ton, kg, FALSE, Line(2, 2))}
MCDeletes == {<<kWh, carbon>>, <<ton, kg>>}
MCUnitAdds == {[unit |-> pound] @@ Row("unit", NoSuffix, "all")}
MCUnitEdits ==
    {[unit |-> carbon, suffix |-> co, disp |-> Absent], [unit |-> carbon, suffix |-> Absent, disp |-> "none"],
     [unit |-> Made(ton, co2), suffix |-> NoSuffix, disp |-> "none"],
     [unit |-> kg, suffix |-> NoSuffix, disp |-> "all"]}
=============================================================================
