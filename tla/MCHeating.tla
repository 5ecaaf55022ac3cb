----------------------------- MODULE MCHeating -----------------------------
(***************************************************************************)
(* Two rooms and two valves.  In the program "home" each room has a valve   *)
(* of its own; "away" disables the second room.                             *)
(***************************************************************************)
EXTENDS Heating

\* Each mode, with and without preheating.
AllConfigs ==
  {[mode |-> "onoff", delay |-> 2], [mode |-> "onoff_outdoor", delay |-> 0],
   [mode |-> "ems", delay |-> 2]}

OnoffConfigs == {c \in AllConfigs : c.mode = "onoff"}

EmsConfigs == {c \in AllConfigs : c.mode = "ems"}

MCSensorOf == <<"living", "bath">>

MCEnabledIn == [p \in Programs |-> IF p = "away" THEN {1} ELSE {1, 2}]

MCValvesOf == [p \in Programs |-> <<{0}, {1}>>]
=============================================================================
