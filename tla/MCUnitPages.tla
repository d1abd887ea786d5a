---------------------------- MODULE MCUnitPages -----------------------------
(***************************************************************************)
(* UnitPages with two meters of different units and a group of both.  The  *)
(* electricity goes to kWh, which is not shown, and so to MJ and to kg: by *)
(* a conversion of its own and, by way of the unit CO2 with the suffix     *)
(* co2, to "kg of co2".  A refresh cuts the second way.  The gas goes to   *)
(* kWh and MJ directly and is shown in kg.  A third meter's unit has no    *)
(* conversion, and a unit of nothing has no use.                           *)
(***************************************************************************)
EXTENDS UnitPages

CONSTANTS m1, m2, m3, both, elec, gas, water, spare, kWh, MJ, CO2, kg, co2

Row(type, suffix, disp) ==
    [type |-> type, suffix |-> suffix, disp |-> disp, repr |-> "flow", rate |-> 1]

MCUnits ==
    (elec :> Row("meter", NoSuffix, "none")) @@ (gas :> Row("meter", NoSuffix, "none"))
        @@ (water :> Row("meter", NoSuffix, "none")) @@ (spare :> Row("meter", NoSuffix, "none"))
        @@ (kWh :> Row("unit", NoSuffix, "none")) @@ (MJ :> Row("unit", NoSuffix, "all"))
        @@ (CO2 :> Row("suffix", co2, "none")) @@ (kg :> Row("unit", NoSuffix, "all"))

Link(bi) == [bi |-> bi, map |-> <<1>>]

MCLinks ==
    (<<elec, kWh>> :> Link(FALSE)) @@ (<<gas, kWh>> :> Link(FALSE)) @@ (<<gas, MJ>> :> Link(FALSE))
        @@ (<<kWh, MJ>> :> Link(TRUE)) @@ (<<kWh, kg>> :> Link(FALSE))
        @@ (<<kWh, CO2>> :> Link(FALSE)) @@ (<<CO2, kg>> :> Link(FALSE))

MCUnitOf == (m1 :> elec) @@ (m2 :> gas) @@ (m3 :> water)
MCDeep == both :> {m1, m2}
MCGraphic == (m1 :> <<kg, co2>>) @@ (m2 :> kg) @@ (m3 :> None) @@ (both :> MJ)

MCVisited ==
    {UnitPage(u) : u \in {water, spare, CO2}}
        \cup {LinkPage(e) : e \in {<<gas, kWh>>, <<kWh, MJ>>, <<kWh, CO2>>, <<kWh, kg>>, <<kg, MJ>>}}
=============================================================================
