------------------------------ MODULE MCEmsSet ------------------------------
(***************************************************************************)
(* EmsController with history variables for the heating temperature: what   *)
(* SetHeatingTemperature was last called with, and whether a telegram that  *)
(* sets a temperature has been lost since.                                  *)
(***************************************************************************)
EXTENDS EmsController

VARIABLES asked, setLost

IsSet(t) == t.kind = "set"

HoldsSet(queue) == \E i \in DOMAIN queue : IsSet(queue[i])

SetInit == Init /\ asked = boilerSet /\ setLost = FALSE

\* Asking for the temperature the boiler is thought to have is a call as well.
AskKnown(temp) ==
  /\ known = temp
  /\ LoopBegins(<<>>)
  /\ asked' = temp /\ setLost' = FALSE
  /\ UNCHANGED emsVars

AskOther(temp) ==
  /\ SetHeatingTemperature(temp)
  /\ asked' = temp /\ setLost' = FALSE

\* Any other step; it loses a telegram by a reset or on the bus.
Otherwise ==
  /\ Next
  /\ \A temp \in Temps : ~SetHeatingTemperature(temp)
  /\ setLost' = (setLost \/ Busy("loop", "clearQueue")
                         \/ Busy("uart", "clearQueue")
                         \/ (LoseFrame /\ IsSet(Head(wire))))
  /\ UNCHANGED asked

SetNext == Otherwise \/ \E temp \in Temps : AskKnown(temp) \/ AskOther(temp)

setVars == <<emsVars, asked, setLost>>

SetSpec == SetInit /\ [][SetNext]_setVars

AllSent == ~HoldsSet(toSend) /\ ~HoldsSet(wire) /\ Idle("loop")

\* "for onoff_outdoor we need to update heating temperature in case it changed"
\* (BoilerController.h:77): once every telegram has been sent and none was lost,
\* the boiler uses the temperature it was last asked to use.
BoilerUsesLastTemperature == AllSent /\ ~setLost => boilerSet = asked
=============================================================================
