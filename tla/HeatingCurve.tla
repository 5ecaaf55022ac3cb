---------------------------- MODULE HeatingCurve ----------------------------
(***************************************************************************)
(* calcHeatingTemperature (src/src/HeatingCurve.h): outdoor and heating     *)
(* temperatures are hundredths of a degree, a curve is nine degrees.        *)
(***************************************************************************)
EXTENDS Integers

hcOutdoorAxis == <<20, 15, 10, 5, 0, -5, -10, -15, -20>>

\* The first point of the axis that is not above the outdoor temperature.
Reached(outdoor) ==
  {i \in 1 .. 9 : /\ hcOutdoorAxis[i] * 100 <= outdoor
                  /\ \A j \in 1 .. i - 1 : hcOutdoorAxis[j] * 100 > outdoor}

MutLine(outdoor, curve, i) ==
  500 * curve[i - 1]
    + (curve[i] - curve[i - 1]) * (hcOutdoorAxis[i] * 100 - outdoor)

\* Five times the value of the line through two points, an integer.
Line(outdoor, curve, i) ==
  500 * curve[i - 1]
    + (curve[i] - curve[i - 1]) * (hcOutdoorAxis[i - 1] * 100 - outdoor)

\* The result is truncated; a whole number may be missed by the rounding of
\* float arithmetic, to which a fifth is too far.
calcHeatingTemperature(outdoor, curve) ==
  CASE Reached(outdoor) = {}  -> {curve[9] * 100}
    [] Reached(outdoor) = {1} -> {curve[1] * 100}
    [] OTHER ->
         LET i     == CHOOSE i \in Reached(outdoor) : TRUE
             exact == Line(outdoor, curve, i)
         IN  {exact \div 5} \cup
             (IF exact > 0 /\ exact % 5 = 0 THEN {exact \div 5 - 1} ELSE {})
=============================================================================
