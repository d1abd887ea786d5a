---------------------------- MODULE MCGroupPages ----------------------------
(***************************************************************************)
(* GroupPages with one group of one meter, room for a second, and two      *)
(* meters whose units have one graphic unit of three in common.            *)
(***************************************************************************)
EXTENDS GroupPages, TLC

CONSTANTS g1, g2, m1, m2, kWh, MJ, BTU, power, gas, here

MCCompatible == [k \in {power, gas} |-> IF k = power THEN {kWh, MJ} ELSE {MJ, BTU}]
MCCollected == [m \in {m1, m2} |-> IF m = m1 THEN power ELSE gas]

Group(kids, unit, gps) == [kids |-> kids, unit |-> unit, gps |-> gps]

MCStored == g1 :> Group({m1}, kWh, None)
=============================================================================
