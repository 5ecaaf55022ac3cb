------------------------------- MODULE Boiler -------------------------------
(***************************************************************************)
(* BoilerController (src/src/BoilerController.h): the relay or the EMS      *)
(* commands that fire the boiler, the valve coils, valve preheating and     *)
(* the manual I/O test.  The module takes the public methods in any order   *)
(* and with any arguments; Heating.tla calls them the way                   *)
(* HeatingController does.  Definitions named Mut... are wrong variants of   *)
(* the definition that follows, which the properties are tried against.     *)
(*                                                                         *)
(* steady_clock time points are kept as what the code compares: the time    *)
(* since preheating began (up to the delay) and the time the manual test    *)
(* has left.                                                               *)
(***************************************************************************)
EXTENDS Naturals

CONSTANTS
  NumValves,    \* valvePorts_.size()
  Configs,      \* values of config_.boiler considered: mode and delay
  TestLengths,  \* values of durationSeconds considered, in ticks
  CurveTemps,   \* degrees the heating curve returns for some outdoor reading
  Overrides,    \* degrees of a room's heating temperature override, 0: none
  MaxCurveTemp  \* config_.heatingCurve.maxHeatingCurveTemp

ControlModes == {"onoff", "onoff_outdoor", "ems"}

ASSUME BoilerAssumption ==
  /\ NumValves \in Nat
  /\ Configs \subseteq [mode : ControlModes, delay : Nat]
  /\ TestLengths \subseteq Nat \ {0}
  /\ CurveTemps \subseteq Nat
  /\ Overrides \subseteq Nat
  /\ MaxCurveTemp \in Nat

Valve == 0 .. NumValves - 1

VARIABLES
  mode, delay,            \* config_: fixed for the life of the controller
  started,                \* currentBoilerState_
  preheating, preheatAge, \* valvePreheating_, now - lastPreheatTime_
  testActive, testLeft,   \* manualTestActive_, manualTestEnd_ - now
  opened,                 \* valvesStates_
  relay, coil,            \* the levels last written to the GPIO ports
  commanded,              \* what EmsController was last told
  tested                  \* history: a manual test, or a restart with the EMS
                          \* boiler on, set currentBoilerState_ and
                          \* changeBoilerState has not run since

config  == <<mode, delay>>
preheat == <<preheating, preheatAge>>
test    == <<testActive, testLeft>>
valves  == <<opened, coil>>
burner  == <<started, relay, commanded, tested>>
vars    == <<config, preheat, test, valves, burner>>

MutOverrideIgnored(a, b) == a

\* std::max of the curve's temperature and the room's override.
Larger(a, b) == IF a < b THEN b ELSE a

-----------------------------------------------------------------------------
(* Valves and the burner *)

\* handleValve for every valve of `set`: the shadow state and the coil.
MutOnlyShadow(set) ==
  /\ opened' = [v \in Valve |-> v \in set]
  /\ coil' = coil

OpenExactly(set) ==
  /\ opened' = [v \in Valve |-> v \in set]
  /\ coil' = [v \in Valve |-> v \notin set]

MutTestNeverExpires == testActive

\* A test past its end is still flagged active until isManualTestActive looks.
TestRunning == testActive /\ testLeft > 0
TestExpired == testActive /\ testLeft = 0

\* currentBoilerState_ and the relay once isManualTestActive has stopped an
\* expired test.
StartedNow == started /\ ~TestExpired
RelayNow   == relay /\ ~TestExpired

Commands == [heat : {"none", "on", "off"}, flow : Nat, param : Nat]

MutCommandOnChange(on, temp) ==
  CASE mode = "onoff"         -> commanded
    [] mode = "onoff_outdoor" -> [commanded EXCEPT !.param = temp]
    [] mode = "ems"           -> IF on THEN [heat |-> "on", flow |-> temp,
                                          param |-> MaxCurveTemp]
                                 ELSE commanded

\* The calls changeBoilerState makes on EmsController: the boiler's heating
\* temperature parameter is set in both modes, heating commanded in one.
Command(on, temp) ==
  CASE mode = "onoff"         -> commanded
    [] mode = "onoff_outdoor" -> [commanded EXCEPT !.param = temp]
    [] mode = "ems"           -> [heat |-> IF on THEN "on" ELSE "off",
                                  flow |-> temp, param |-> MaxCurveTemp]

ChangeBoilerState(on, temp) ==
  /\ started' = on
  /\ relay' = IF mode = "ems" THEN RelayNow ELSE on
  /\ commanded' = Command(on, temp)
  /\ tested' = FALSE

\* No changeBoilerState: the burner moves only if an expired test was stopped.
KeepBurner ==
  /\ started' = StartedNow
  /\ relay' = RelayNow
  /\ tested' = (tested \/ TestExpired)
  /\ UNCHANGED commanded

-----------------------------------------------------------------------------
(* The public methods *)

\* handleValves: in automatic operation all valves open while the burner rests,
\* else exactly those outside valvesToClose.
HandleValves(close) ==
  \/ TestRunning /\ UNCHANGED vars
  \/ /\ ~TestRunning
     /\ testActive' = FALSE
     /\ OpenExactly(IF StartedNow \/ preheating THEN Valve \ close
                                               ELSE Valve)
     /\ KeepBurner
     /\ UNCHANGED <<config, preheat, testLeft>>

PreheatElapsed == preheating /\ preheatAge >= delay

FinishPreheating(on, temp) ==
  /\ PreheatElapsed
  /\ preheating' = FALSE
  /\ ChangeBoilerState(on, temp)
  /\ UNCHANGED preheatAge

MutPreheatRestarts(start) ==
  /\ ~PreheatElapsed
  /\ start /\ delay > 0 /\ ~StartedNow
  /\ preheating' = TRUE
  /\ preheatAge' = 0
  /\ KeepBurner

\* Begin preheating, or go on with it.
StartPreheating(start) ==
  /\ ~PreheatElapsed
  /\ start /\ delay > 0 /\ ~StartedNow
  /\ preheating' = TRUE
  /\ preheatAge' = IF preheating THEN preheatAge ELSE 0
  /\ KeepBurner

StartBoiler(start, temp) ==
  /\ ~PreheatElapsed
  /\ start /\ (delay = 0 \/ StartedNow)
  /\ ChangeBoilerState(TRUE, temp)
  /\ UNCHANGED preheat

MutStopOnlyStarted(start, cont, temp) ==
  /\ ~PreheatElapsed
  /\ ~start /\ ~cont
  /\ IF StartedNow THEN ChangeBoilerState(FALSE, temp) ELSE KeepBurner
  /\ UNCHANGED preheat

\* Both stop branches: with the boiler on, and with it off already.
StopBoiler(start, cont, temp) ==
  /\ ~PreheatElapsed
  /\ ~start /\ ~cont
  /\ ChangeBoilerState(FALSE, temp)
  /\ UNCHANGED preheat

MutRefreshStarts(start, cont, temp) ==
  /\ ~PreheatElapsed
  /\ ~start /\ cont
  /\ IF mode = "onoff" THEN KeepBurner
                       ELSE ChangeBoilerState(TRUE, temp)
  /\ UNCHANGED preheat

\* A boiler that may go on stays as it is; its temperature is sent again.
RefreshBoiler(start, cont, temp) ==
  /\ ~PreheatElapsed
  /\ ~start /\ cont
  /\ IF mode = "onoff" THEN KeepBurner
                       ELSE ChangeBoilerState(StartedNow, temp)
  /\ UNCHANGED preheat

\* The body of startBoilerOrContinue after its manual-test check.
DecideBurner(start, cont, temp) ==
  \/ FinishPreheating(start \/ cont, temp)
  \/ StartPreheating(start)
  \/ StartBoiler(start, temp)
  \/ StopBoiler(start, cont, temp)
  \/ RefreshBoiler(start, cont, temp)

StartBoilerOrContinue(start, cont, override, curve) ==
  \/ TestRunning /\ UNCHANGED vars
  \/ /\ ~TestRunning
     /\ testActive' = FALSE
     /\ IF TestExpired THEN OpenExactly(Valve) ELSE UNCHANGED valves
     /\ DecideBurner(start, cont, Larger(curve, override))
     /\ UNCHANGED <<config, testLeft>>

\* startManualTest: `given` is the number of valve states in the request;
\* valves past it keep their state.
StartManualTest(on, given, open, length) ==
  /\ testActive' = TRUE
  /\ testLeft' = length
  /\ started' = on
  /\ relay' = on
  /\ tested' = TRUE
  /\ OpenExactly({v \in Valve : IF v < given THEN v \in open ELSE opened[v]})
  /\ UNCHANGED <<config, preheat, commanded>>

MutStopKeepsRelay ==
  /\ testActive' = FALSE
  /\ started' = FALSE
  /\ tested' = TRUE
  /\ OpenExactly(Valve)
  /\ UNCHANGED <<config, preheat, testLeft, relay, commanded>>

StopManualTest ==
  /\ testActive' = FALSE
  /\ started' = FALSE
  /\ relay' = FALSE
  /\ tested' = TRUE
  /\ OpenExactly(Valve)
  /\ UNCHANGED <<config, preheat, testLeft, commanded>>

\* ESP.restart() or a power cut: the controller is built anew and initOutput
\* releases every output; the EMS boiler keeps the last command it was given.
Restart ==
  /\ started' = FALSE
  /\ relay' = FALSE
  /\ tested' = (commanded.heat = "on")
  /\ preheating' = FALSE
  /\ preheatAge' = 0
  /\ testActive' = FALSE
  /\ testLeft' = 0
  /\ OpenExactly(Valve)
  /\ UNCHANGED <<config, commanded>>

\* Time passes for both deadlines.
Tick ==
  /\ preheatAge' = IF preheating /\ preheatAge < delay THEN preheatAge + 1
                                                       ELSE preheatAge
  /\ testLeft' = IF testLeft > 0 THEN testLeft - 1 ELSE 0
  /\ UNCHANGED <<config, preheating, testActive, valves, burner>>

-----------------------------------------------------------------------------
Init ==
  /\ \E c \in Configs : mode = c.mode /\ delay = c.delay
  /\ started = FALSE
  /\ relay = FALSE
  /\ tested = FALSE
  /\ commanded = [heat |-> "none", flow |-> 0, param |-> 0]
  /\ preheating = FALSE
  /\ preheatAge = 0
  /\ testActive = FALSE
  /\ testLeft = 0
  /\ opened = [v \in Valve |-> TRUE]
  /\ coil = [v \in Valve |-> FALSE]

Next ==
  \/ \E close \in SUBSET Valve : HandleValves(close)
  \/ \E start, cont \in BOOLEAN, override \in Overrides, curve \in CurveTemps :
       StartBoilerOrContinue(start, cont, override, curve)
  \/ \E on \in BOOLEAN, given \in 0 .. NumValves, length \in TestLengths :
       \E open \in SUBSET (0 .. given - 1) :
         StartManualTest(on, given, open, length)
  \/ StopManualTest
  \/ Restart
  \/ Tick

Spec == Init /\ [][Next]_vars

-----------------------------------------------------------------------------
(* Properties *)

\* Every field keeps its type; the preheat clock never passes the delay.
TypeOK ==
  /\ mode \in ControlModes
  /\ delay \in Nat
  /\ started \in BOOLEAN /\ relay \in BOOLEAN /\ tested \in BOOLEAN
  /\ commanded \in Commands
  /\ preheating \in BOOLEAN
  /\ preheatAge \in 0 .. delay
  /\ testActive \in BOOLEAN
  /\ testLeft \in Nat
  /\ opened \in [Valve -> BOOLEAN]
  /\ coil \in [Valve -> BOOLEAN]

\* What getStatus reports is what the outputs do: each coil is energised for
\* exactly the valves reported closed, and the relay level is the reported
\* boiler state, whichever of handleValves, the manual test, its expiry and
\* changeBoilerState wrote last.  In ems mode only a manual test energises the
\* relay.
OutputsFollowState ==
  /\ \A v \in Valve : coil[v] = ~opened[v]
  /\ mode # "ems" \/ testActive => relay = started
  /\ mode = "ems" /\ ~testActive => ~relay

\* In ems mode the boiler has been commanded to heat exactly while the
\* controller believes it is started, unless a manual test or a restart (which
\* send no EMS command) has set that belief since.
EmsFollowsState ==
  mode = "ems" /\ ~tested => (commanded.heat = "on") = started

\* While valves preheat, the burner is out: no sequence of calls, manual tests
\* included, leaves the flag up with the relay closed in automatic operation.
NoFiringWhilePreheating ==
  preheating /\ ~testActive => delay > 0 /\ ~started /\ ~relay

\* A boiler state forced by a manual test never outlives the test or a restart:
\* once the test has been stopped or found expired, the relay is open until
\* automatic control closes it.
TestLeavesNothingOn == tested /\ ~testActive => ~started /\ ~relay
=============================================================================
