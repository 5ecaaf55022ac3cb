----------------------------- MODULE MCPreheat -----------------------------
(***************************************************************************)
(* MCHeating with a history variable: for how many ticks each valve has     *)
(* been open without a break.                                               *)
(***************************************************************************)
EXTENDS MCHeating

VARIABLE warm

WarmInit == HeatingInit /\ warm = [v \in Valve |-> delay]

\* Counted up to the delay, the only value it is compared with.
WarmNext ==
  /\ HeatingNext
  /\ warm' = [v \in Valve |->
       IF ~opened[v] \/ ~opened'[v] THEN 0
       ELSE IF PassTime /\ warm[v] < delay THEN warm[v] + 1
       ELSE warm[v]]

WarmSpec == WarmInit /\ [][WarmNext]_<<allVars, warm>>

\* "Boiler start delayed by %ds" and "Finished valve preheating"
\* (BoilerController.h:60 and :45): when automatic control starts the boiler,
\* the valves of a room that wants heat have been open for the whole delay.
StartsOnWarmValves ==
  [][~started /\ started' /\ ~testActive /\ ~testActive' =>
       \E r \in Room :
         /\ verdict[r] \in {"START", "CONTINUE"}
         /\ \A v \in ValvesOf[program][r] : warm[v] >= delay]_<<allVars, warm>>
=============================================================================
