------------------------------- MODULE MCRoom -------------------------------
(***************************************************************************)
(* A room with a cool night, a warm morning and a weekend whose setting     *)
(* overlaps the morning with the same temperature.                          *)
(***************************************************************************)
EXTENDS RoomControl

MCSettings == <<
  [from |-> 2200, to |-> 600, days |-> 0 .. 6, temp |-> 1800, supply |-> 0,
   enabled |-> TRUE],
  [from |-> 600, to |-> 800, days |-> 0 .. 6, temp |-> 2100, supply |-> 55,
   enabled |-> TRUE],
  [from |-> 700, to |-> 2200, days |-> {0, 6}, temp |-> 2100, supply |-> 40,
   enabled |-> TRUE],
  [from |-> 0, to |-> 2359, days |-> 0 .. 6, temp |-> 2400, supply |-> 60,
   enabled |-> FALSE] >>

NoSettings == <<>>

FrostReadings == {-50, 600}
=============================================================================
