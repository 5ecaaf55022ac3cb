----------------------------- MODULE MCSensing -----------------------------
(***************************************************************************)
(* Sensing with the heating curve of the unit tests.                        *)
(***************************************************************************)
EXTENDS Sensing

MCTemps == {570, -2600}

MCCurve == <<20, 25, 30, 35, 45, 55, 65, 75, 80>>

MCReadings == -2600 .. 2600

=============================================================================
