--------------------------- MODULE HeatingProofs ---------------------------
(***************************************************************************)
(* Proofs about Boiler.tla and Heating.tla: the safety properties hold for  *)
(* any number of valves, rooms, sensors and programs, any delays and        *)
(* temperatures, any order of calls and any arguments.                      *)
(*                                                                         *)
(* BoilerController's properties are inductive together, not one by one:    *)
(* that the burner rests when an expired test is found takes                *)
(* OutputsFollowState and TestLeavesNothingOn, and a manual test hides from *)
(* NoFiringWhilePreheating that there is a delay to wait for, so            *)
(* DelayedPreheating keeps that fact.                                       *)
(*                                                                         *)
(* HeatingController uses BoilerController only through its public methods, *)
(* so every behaviour of the system is one of Boiler.tla and all that is    *)
(* proved there holds here.                                                 *)
(*                                                                         *)
(* NeverHeatsBlind is not inductive.  A fresh sample bounds the silence     *)
(* (SamplesBoundSilence); a verdict was given on a fresh sample, and at     *)
(* most one tick has passed since, because a tick waits for a completed     *)
(* cycle (VerdictsBoundSilence); a running boiler obeys the last verdict,   *)
(* one more tick later at most (FiringBoundsSilence).                       *)
(*                                                                         *)
(* Nor is HeatReachesRooms: the valves are set one step before the boiler   *)
(* is, and the boiler may be started by a step that does not touch them.    *)
(* ValvesFollowVerdicts holds from the moment the valves are set, whether   *)
(* the boiler is on or off.                                                 *)
(***************************************************************************)
EXTENDS Heating, TLAPS

(* BoilerController *)

\* The preheating flag goes up only if a delay is configured.
DelayedPreheating == preheating => delay > 0

IInv ==
  /\ TypeOK
  /\ DelayedPreheating
  /\ OutputsFollowState
  /\ EmsFollowsState
  /\ NoFiringWhilePreheating
  /\ TestLeavesNothingOn

USE DEF config, preheat, test, valves, burner, vars

-----------------------------------------------------------------------------
(* BoilerController: the helpers *)

\* handleValve, for every valve, leaves shadow state and coils in agreement.
LEMMA OpenExactlyAgrees ==
  ASSUME NEW set, OpenExactly(set)
  PROVE  /\ opened' \in [Valve -> BOOLEAN]
         /\ coil' \in [Valve -> BOOLEAN]
         /\ \A v \in Valve : coil'[v] = ~opened'[v]
<1>1. \A v \in Valve : opened'[v] = (v \in set) /\ coil'[v] = (v \notin set)
  BY Zenon DEF OpenExactly
<1>2. opened' \in [Valve -> BOOLEAN] /\ coil' \in [Valve -> BOOLEAN]
  BY SMT DEF OpenExactly
<1>3. \A v \in Valve : coil'[v] = ~opened'[v]
  BY <1>1, Zenon
<1>4. QED
  BY <1>2, <1>3

\* An expired test found by isManualTestActive leaves relay and state at rest.
LEMMA ExpiryAtRest ==
  ASSUME IInv, ~TestRunning
  PROVE  /\ StartedNow \in BOOLEAN /\ RelayNow \in BOOLEAN
         /\ mode # "ems" => RelayNow = StartedNow
         /\ mode = "ems" => ~RelayNow
         /\ testActive => TestExpired /\ ~StartedNow /\ ~RelayNow
         /\ ~testActive => StartedNow = started /\ RelayNow = relay
         /\ tested => ~StartedNow /\ ~RelayNow
         /\ preheating => delay > 0 /\ ~StartedNow /\ ~RelayNow
BY DEF IInv, TypeOK, DelayedPreheating, OutputsFollowState,
       NoFiringWhilePreheating, TestLeavesNothingOn, TestRunning, TestExpired,
       StartedNow, RelayNow,
       ControlModes

\* What changeBoilerState tells EmsController has its type and, in ems mode, is
\* the state the boiler is put in.
LEMMA CommandFollows ==
  ASSUME IInv, NEW on \in BOOLEAN, NEW temp \in Nat
  PROVE  /\ Command(on, temp) \in Commands
         /\ mode = "ems" => (Command(on, temp).heat = "on") = on
<1>1. mode \in {"onoff", "onoff_outdoor", "ems"}
  BY DEF IInv, TypeOK, ControlModes
<1>2. commanded \in Commands
  BY DEF IInv, TypeOK
<1>3. CASE mode = "onoff"
  BY <1>2, <1>3 DEF Command
<1>4. CASE mode = "onoff_outdoor"
  BY <1>2, <1>4 DEF Command, Commands
<1>5. CASE mode = "ems"
  BY <1>5, BoilerAssumption DEF Command, Commands
<1>6. QED
  BY <1>1, <1>3, <1>4, <1>5

\* The burner's part of the invariant, for a step that ends a test.
BurnerOK ==
  /\ started \in BOOLEAN /\ relay \in BOOLEAN /\ tested \in BOOLEAN
  /\ commanded \in Commands
  /\ mode # "ems" => relay = started
  /\ mode = "ems" => ~relay
  /\ EmsFollowsState
  /\ tested => ~started /\ ~relay

LEMMA ChangeBoilerStateKeeps ==
  ASSUME IInv, ~TestRunning, mode' = mode,
         NEW on \in BOOLEAN, NEW temp \in Nat, ChangeBoilerState(on, temp)
  PROVE  BurnerOK'
<1>1. /\ commanded' \in Commands
      /\ mode = "ems" => (commanded'.heat = "on") = on
  BY CommandFollows DEF ChangeBoilerState
<1>2. /\ RelayNow \in BOOLEAN
      /\ mode = "ems" => ~RelayNow
  BY ExpiryAtRest
<1>3. QED
  BY <1>1, <1>2 DEF ChangeBoilerState, BurnerOK, EmsFollowsState

LEMMA KeepBurnerKeeps ==
  ASSUME IInv, ~TestRunning, mode' = mode, KeepBurner
  PROVE  /\ BurnerOK'
         /\ preheating => ~started' /\ ~relay'
<1>1. TestExpired \in BOOLEAN /\ tested \in BOOLEAN
  BY DEF TestExpired, IInv, TypeOK
<1>2. ~tested /\ ~TestExpired => StartedNow = started
  BY ExpiryAtRest DEF TestRunning, TestExpired, IInv, TypeOK
<1>3. QED
  BY <1>1, <1>2, ExpiryAtRest
     DEF KeepBurner, BurnerOK, EmsFollowsState, TestExpired, IInv, TypeOK

-----------------------------------------------------------------------------
(* BoilerController: one lemma per method *)

LEMMA Stutters == ASSUME IInv, UNCHANGED vars PROVE IInv'
BY DEF IInv, TypeOK, DelayedPreheating, OutputsFollowState, EmsFollowsState,
       NoFiringWhilePreheating, TestLeavesNothingOn

LEMMA HandleValvesKeeps ==
  ASSUME IInv, NEW close \in SUBSET Valve, HandleValves(close)
  PROVE  IInv'
<1>1. CASE TestRunning /\ UNCHANGED vars
  BY <1>1, Stutters
<1>2. CASE /\ ~TestRunning
           /\ testActive' = FALSE
           /\ OpenExactly(IF StartedNow \/ preheating THEN Valve \ close
                                                     ELSE Valve)
           /\ KeepBurner
           /\ UNCHANGED <<config, preheat, testLeft>>
  <2>1. /\ opened' \in [Valve -> BOOLEAN]
        /\ coil' \in [Valve -> BOOLEAN]
        /\ \A v \in Valve : coil'[v] = ~opened'[v]
    BY <1>2, OpenExactlyAgrees
  <2>2. BurnerOK' /\ (preheating => ~started' /\ ~relay')
    BY <1>2, KeepBurnerKeeps
  <2>3. TypeOK'
    BY <1>2, <2>1, <2>2 DEF TypeOK, BurnerOK, IInv
  <2>4. DelayedPreheating'
    BY <1>2 DEF DelayedPreheating, IInv
  <2>5. OutputsFollowState'
    BY <1>2, <2>1, <2>2 DEF OutputsFollowState, BurnerOK
  <2>6. EmsFollowsState' /\ TestLeavesNothingOn'
    BY <2>2 DEF BurnerOK, TestLeavesNothingOn
  <2>7. NoFiringWhilePreheating'
    BY <1>2, <2>2, <2>4 DEF NoFiringWhilePreheating, DelayedPreheating
  <2>8. QED
    BY <2>3, <2>4, <2>5, <2>6, <2>7 DEF IInv
<1>3. QED
  BY <1>1, <1>2 DEF HandleValves

\* Whatever startBoilerOrContinue decides, the burner obeys its part of the
\* invariant, and it is out if the preheating flag is up afterwards.
LEMMA DecideBurnerKeeps ==
  ASSUME IInv, ~TestRunning, UNCHANGED config,
         NEW start \in BOOLEAN, NEW cont \in BOOLEAN, NEW temp \in Nat,
         DecideBurner(start, cont, temp)
  PROVE  /\ BurnerOK'
         /\ preheating' \in BOOLEAN /\ preheatAge' \in 0 .. delay
         /\ preheating' => delay > 0 /\ ~started' /\ ~relay'
<1>1. /\ preheating \in BOOLEAN /\ preheatAge \in 0 .. delay /\ delay \in Nat
      /\ preheating => delay > 0
      /\ mode' = mode
  BY DEF IInv, TypeOK, DelayedPreheating
<1>2. /\ StartedNow \in BOOLEAN
      /\ preheating => ~StartedNow /\ ~RelayNow
  BY ExpiryAtRest
<1>3. CASE FinishPreheating(start \/ cont, temp)
  BY <1>1, <1>3, ChangeBoilerStateKeeps DEF FinishPreheating
<1>4. CASE StartPreheating(start)
  <2>1. BurnerOK'
    BY <1>1, <1>4, KeepBurnerKeeps DEF StartPreheating
  <2>2. ~started' /\ ~relay'
    BY <1>1, <1>4, <2>1 DEF StartPreheating, KeepBurner, BurnerOK
  <2>3. QED
    BY <1>1, <1>4, <2>1, <2>2 DEF StartPreheating
<1>5. CASE StartBoiler(start, temp)
  <2>1. ~preheating
    BY <1>1, <1>2, <1>5 DEF StartBoiler
  <2>2. QED
    BY <1>1, <1>5, <2>1, ChangeBoilerStateKeeps DEF StartBoiler
<1>6. CASE StopBoiler(start, cont, temp)
  <2>1. BurnerOK' /\ ~started'
    BY <1>1, <1>6, ChangeBoilerStateKeeps DEF StopBoiler, ChangeBoilerState
  <2>2. ~relay'
    BY <2>1 DEF BurnerOK
  <2>3. QED
    BY <1>1, <1>6, <2>1, <2>2 DEF StopBoiler
<1>7. CASE RefreshBoiler(start, cont, temp)
  <2>1. CASE mode = "onoff"
    BY <1>1, <1>7, <2>1, KeepBurnerKeeps DEF RefreshBoiler
  <2>2. CASE mode # "onoff"
    <3>1. BurnerOK' /\ started' = StartedNow
      BY <1>1, <1>2, <1>7, <2>2, ChangeBoilerStateKeeps
         DEF RefreshBoiler, ChangeBoilerState
    <3>2. preheating => ~started' /\ ~relay'
      BY <1>2, <3>1 DEF BurnerOK
    <3>3. QED
      BY <1>1, <1>7, <3>1, <3>2 DEF RefreshBoiler
  <2>3. QED
    BY <2>1, <2>2
<1>8. QED
  BY <1>3, <1>4, <1>5, <1>6, <1>7 DEF DecideBurner

LEMMA StartBoilerOrContinueKeeps ==
  ASSUME IInv, NEW start \in BOOLEAN, NEW cont \in BOOLEAN,
         NEW override \in Overrides, NEW curve \in CurveTemps,
         StartBoilerOrContinue(start, cont, override, curve)
  PROVE  IInv'
<1>1. CASE TestRunning /\ UNCHANGED vars
  BY <1>1, Stutters
<1>2. CASE /\ ~TestRunning
           /\ testActive' = FALSE
           /\ IF TestExpired THEN OpenExactly(Valve) ELSE UNCHANGED valves
           /\ DecideBurner(start, cont, Larger(curve, override))
           /\ UNCHANGED <<config, testLeft>>
  <2>1. Larger(curve, override) \in Nat
    BY BoilerAssumption DEF Larger
  <2>2. /\ BurnerOK'
        /\ preheating' \in BOOLEAN /\ preheatAge' \in 0 .. delay
        /\ preheating' => delay > 0 /\ ~started' /\ ~relay'
    BY <1>2, <2>1, DecideBurnerKeeps
  <2>3. /\ opened' \in [Valve -> BOOLEAN]
        /\ coil' \in [Valve -> BOOLEAN]
        /\ \A v \in Valve : coil'[v] = ~opened'[v]
    <3>1. CASE TestExpired
      BY <1>2, <3>1, OpenExactlyAgrees
    <3>2. CASE ~TestExpired
      BY <1>2, <3>2 DEF IInv, TypeOK, OutputsFollowState
    <3>3. QED
      BY <3>1, <3>2
  <2>4. TypeOK'
    BY <1>2, <2>2, <2>3 DEF TypeOK, BurnerOK, IInv
  <2>5. OutputsFollowState'
    BY <1>2, <2>2, <2>3 DEF OutputsFollowState, BurnerOK
  <2>6. DelayedPreheating' /\ NoFiringWhilePreheating'
    BY <1>2, <2>2 DEF DelayedPreheating, NoFiringWhilePreheating
  <2>7. EmsFollowsState' /\ TestLeavesNothingOn'
    BY <2>2 DEF BurnerOK, TestLeavesNothingOn
  <2>8. QED
    BY <2>4, <2>5, <2>6, <2>7 DEF IInv
<1>3. QED
  BY <1>1, <1>2 DEF StartBoilerOrContinue

LEMMA StartManualTestKeeps ==
  ASSUME IInv, NEW on \in BOOLEAN, NEW given \in 0 .. NumValves,
         NEW open \in SUBSET (0 .. given - 1), NEW length \in TestLengths,
         StartManualTest(on, given, open, length)
  PROVE  IInv'
<1>1. /\ opened' \in [Valve -> BOOLEAN]
      /\ coil' \in [Valve -> BOOLEAN]
      /\ \A v \in Valve : coil'[v] = ~opened'[v]
  BY OpenExactlyAgrees DEF StartManualTest
<1>2. length \in Nat
  BY BoilerAssumption
<1>3. TypeOK' /\ DelayedPreheating'
  BY <1>1, <1>2 DEF StartManualTest, IInv, TypeOK, DelayedPreheating
<1>4. OutputsFollowState'
  BY <1>1 DEF StartManualTest, OutputsFollowState
<1>5. EmsFollowsState' /\ NoFiringWhilePreheating' /\ TestLeavesNothingOn'
  BY DEF StartManualTest, EmsFollowsState, NoFiringWhilePreheating,
         TestLeavesNothingOn
<1>6. QED
  BY <1>3, <1>4, <1>5 DEF IInv

LEMMA StopManualTestKeeps ==
  ASSUME IInv, StopManualTest
  PROVE  IInv'
<1>1. /\ opened' \in [Valve -> BOOLEAN]
      /\ coil' \in [Valve -> BOOLEAN]
      /\ \A v \in Valve : coil'[v] = ~opened'[v]
  BY OpenExactlyAgrees DEF StopManualTest
<1>2. TypeOK' /\ DelayedPreheating'
  BY <1>1 DEF StopManualTest, IInv, TypeOK, DelayedPreheating
<1>3. OutputsFollowState'
  BY <1>1 DEF StopManualTest, OutputsFollowState
<1>4. EmsFollowsState' /\ NoFiringWhilePreheating' /\ TestLeavesNothingOn'
  BY <1>2 DEF StopManualTest, EmsFollowsState, NoFiringWhilePreheating,
              TestLeavesNothingOn, DelayedPreheating
<1>5. QED
  BY <1>2, <1>3, <1>4 DEF IInv

LEMMA RestartKeeps ==
  ASSUME IInv, Restart
  PROVE  IInv'
<1>1. /\ opened' \in [Valve -> BOOLEAN]
      /\ coil' \in [Valve -> BOOLEAN]
      /\ \A v \in Valve : coil'[v] = ~opened'[v]
  BY OpenExactlyAgrees DEF Restart
<1>2. /\ mode' \in ControlModes /\ delay' \in Nat /\ tested' \in BOOLEAN
      /\ commanded' \in Commands
  BY DEF Restart, IInv, TypeOK
<1>3. preheatAge' \in 0 .. delay'
  BY <1>2 DEF Restart
<1>4. TypeOK' /\ DelayedPreheating'
  BY <1>1, <1>2, <1>3 DEF Restart, TypeOK, DelayedPreheating
<1>5. OutputsFollowState'
  BY <1>1 DEF Restart, OutputsFollowState
<1>6. EmsFollowsState' /\ NoFiringWhilePreheating' /\ TestLeavesNothingOn'
  BY DEF Restart, EmsFollowsState, NoFiringWhilePreheating, TestLeavesNothingOn
<1>7. QED
  BY <1>4, <1>5, <1>6 DEF IInv

LEMMA TickKeeps ==
  ASSUME IInv, Tick
  PROVE  IInv'
<1>1. TypeOK'
  BY DEF Tick, IInv, TypeOK
<1>2. /\ DelayedPreheating' /\ OutputsFollowState' /\ EmsFollowsState'
      /\ NoFiringWhilePreheating' /\ TestLeavesNothingOn'
  BY DEF Tick, IInv, DelayedPreheating, OutputsFollowState, EmsFollowsState,
         NoFiringWhilePreheating, TestLeavesNothingOn
<1>3. QED
  BY <1>1, <1>2 DEF IInv

-----------------------------------------------------------------------------
(* BoilerController: the invariant *)

LEMMA InitOK == Init => IInv
<1> SUFFICES ASSUME Init PROVE IInv
  OBVIOUS
<1>1. mode \in ControlModes /\ delay \in Nat
  BY BoilerAssumption DEF Init
<1>2. preheatAge \in 0 .. delay
  BY <1>1 DEF Init
<1>3. TypeOK
  BY <1>1, <1>2 DEF Init, TypeOK, Commands
<1>4. /\ DelayedPreheating /\ OutputsFollowState /\ EmsFollowsState
      /\ NoFiringWhilePreheating /\ TestLeavesNothingOn
  BY DEF Init, DelayedPreheating, OutputsFollowState, EmsFollowsState,
         NoFiringWhilePreheating, TestLeavesNothingOn
<1>5. QED
  BY <1>3, <1>4 DEF IInv

LEMMA NextKeeps == IInv /\ [Next]_vars => IInv'
<1> SUFFICES ASSUME IInv, [Next]_vars PROVE IInv'
  OBVIOUS
<1>1. CASE UNCHANGED vars
  BY <1>1, Stutters
<1>2. ASSUME NEW close \in SUBSET Valve, HandleValves(close) PROVE IInv'
  BY <1>2, HandleValvesKeeps
<1>3. ASSUME NEW start \in BOOLEAN, NEW cont \in BOOLEAN,
             NEW override \in Overrides, NEW curve \in CurveTemps,
             StartBoilerOrContinue(start, cont, override, curve)
      PROVE  IInv'
  BY <1>3, StartBoilerOrContinueKeeps
<1>4. ASSUME NEW on \in BOOLEAN, NEW given \in 0 .. NumValves,
             NEW open \in SUBSET (0 .. given - 1), NEW length \in TestLengths,
             StartManualTest(on, given, open, length)
      PROVE  IInv'
  BY <1>4, StartManualTestKeeps
<1>5. CASE StopManualTest
  BY <1>5, StopManualTestKeeps
<1>6. CASE Restart
  BY <1>6, RestartKeeps
<1>7. CASE Tick
  BY <1>7, TickKeeps
<1>8. QED
  BY <1>1, <1>2, <1>3, <1>4, <1>5, <1>6, <1>7 DEF Next

\* The inductive invariant holds in every state of every behaviour.
THEOREM Invariant == Spec => []IInv
BY InitOK, NextKeeps, PTL DEF Spec

\* Every field of the controller keeps its type.
THEOREM TypeCorrect == Spec => []TypeOK
<1>1. IInv => TypeOK
  BY DEF IInv
<1>2. QED
  BY <1>1, Invariant, PTL

\* What getStatus reports is what the valve coils and the relay do, whichever
\* of handleValves, startBoilerOrContinue and the manual test acted last.
THEOREM StatusIsTrue == Spec => []OutputsFollowState
<1>1. IInv => OutputsFollowState
  BY DEF IInv
<1>2. QED
  BY <1>1, Invariant, PTL

\* In ems mode the last command to the boiler agrees with the controller's
\* state until a manual test changes that state.
THEOREM CommandIsTrue == Spec => []EmsFollowsState
<1>1. IInv => EmsFollowsState
  BY DEF IInv
<1>2. QED
  BY <1>1, Invariant, PTL

\* The burner is never fired by automatic control while valves preheat.
THEOREM PreheatingIsCold == Spec => []NoFiringWhilePreheating
<1>1. IInv => NoFiringWhilePreheating
  BY DEF IInv
<1>2. QED
  BY <1>1, Invariant, PTL

\* A manual test, stopped or expired, leaves the burner's relay open.
THEOREM TestsEndCold == Spec => []TestLeavesNothingOn
<1>1. IInv => TestLeavesNothingOn
  BY DEF IInv
<1>2. QED
  BY <1>1, Invariant, PTL

-----------------------------------------------------------------------------
(* HeatingController *)

SamplesBoundSilence == \A r \in Room : age[r] <= FreshFor => silent <= age[r]

VerdictsBoundSilence ==
  phase # "idle" /\ (Starting \/ Continuing)
  => silent <= FreshFor + (IF cycled THEN 0 ELSE 1)

FiringBoundsSilence ==
  started /\ ~testActive => silent <= FreshFor + (IF cycled THEN 1 ELSE 2)

\* A valve that no satisfied room needs closed is open for the rooms that ask
\* for heat, from the moment handleValves returns until the next verdicts.
ValvesFollowVerdicts ==
  phase # "decided" /\ ~testActive =>
    \A r \in Room : AsksForHeat(r) =>
      \A v \in ValvesOf[program][r] \ ToClose : opened[v]

HInv ==
  /\ IInv
  /\ HeatingTypeOK
  /\ SamplesBoundSilence
  /\ VerdictsBoundSilence
  /\ FiringBoundsSilence
  /\ ValvesFollowVerdicts
  /\ SupplyHonoursOverride

USE DEF roomVars, loopVars, allVars

-----------------------------------------------------------------------------
(* Every step is one of BoilerController's methods, or none *)

LEMMA StepIsBoilerStep ==
  ASSUME HeatingTypeOK, [HeatingNext]_allVars
  PROVE  [Next]_vars
<1>1. CASE UNCHANGED allVars
  BY <1>1
<1>2. CASE EvaluateRooms
  BY <1>2 DEF EvaluateRooms
<1>3. CASE SetValves
  <2>1. ToClose \in SUBSET Valve
    BY HeatingAssumption DEF ToClose, HeatingTypeOK
  <2>2. HandleValves(ToClose)
    BY <1>3 DEF SetValves
  <2>3. QED
    BY <2>1, <2>2 DEF Next
<1>4. CASE DriveBoiler
  <2>1. Starting \in BOOLEAN /\ Continuing \in BOOLEAN /\ wanted \in Overrides
    BY DEF Starting, Continuing, HeatingTypeOK
  <2>2. PICK curve \in CurveTemps :
          StartBoilerOrContinue(Starting, Continuing, wanted, curve)
    BY <1>4 DEF DriveBoiler
  <2>3. QED
    BY <2>1, <2>2 DEF Next
<1>5. CASE \E s \in Sensor : PushTemperature(s)
  BY <1>5 DEF PushTemperature
<1>6. CASE ManualTest
  BY <1>6 DEF ManualTest, Next
<1>7. CASE \E p \in Programs : ReloadConfiguration(p)
  BY <1>7 DEF ReloadConfiguration
<1>8. CASE RestartForSilence \/ PowerCut
  BY <1>8 DEF RestartForSilence, PowerCut, Reboot, Next
<1>9. CASE PassTime
  BY <1>9 DEF PassTime, Next
<1>10. QED
  BY <1>1, <1>2, <1>3, <1>4, <1>5, <1>6, <1>7, <1>8, <1>9 DEF HeatingNext

-----------------------------------------------------------------------------
(* What a burning boiler says about the last verdicts *)

\* After startBoilerOrContinue the boiler burns only for a room that asked.
LEMMA BurnsOnDemandOnly ==
  ASSUME IInv, NEW start \in BOOLEAN, NEW cont \in BOOLEAN,
         NEW override \in Overrides, NEW curve \in CurveTemps,
         StartBoilerOrContinue(start, cont, override, curve),
         started', ~testActive'
  PROVE  start \/ cont
<1>1. /\ ~TestRunning
      /\ DecideBurner(start, cont, Larger(curve, override))
  BY DEF StartBoilerOrContinue, TestRunning, IInv, TypeOK
<1>2. QED
  BY <1>1 DEF DecideBurner, FinishPreheating, StartPreheating, StartBoiler,
               StopBoiler, RefreshBoiler, ChangeBoilerState, KeepBurner

\* handleValves never starts the boiler.
LEMMA ValvesStartNothing ==
  ASSUME IInv, NEW close \in SUBSET Valve, HandleValves(close),
         started', ~testActive'
  PROVE  started /\ ~testActive
<1>1. ~TestRunning /\ started' = StartedNow
  BY DEF HandleValves, KeepBurner, TestRunning, IInv, TypeOK
<1>2. QED
  BY <1>1, ExpiryAtRest

\* The controller's configuration is fixed for its life.
LEMMA ConfigKept == ASSUME [Next]_vars PROVE mode' = mode /\ delay' = delay
BY DEF Next, HandleValves, StartBoilerOrContinue, StartManualTest,
       StopManualTest, Restart, Tick

\* Neither does a manual test once it is over, nor a restart.
LEMMA TestsStartNothing ==
  ASSUME ManualTest, ~testActive'
  PROVE  ~started'
BY DEF ManualTest, StartManualTest, StopManualTest

-----------------------------------------------------------------------------
(* The invariant of the whole system *)

LEMMA HeatingInitOK == HeatingInit => HInv
<1> SUFFICES ASSUME HeatingInit PROVE HInv
  OBVIOUS
<1>1. IInv /\ TypeOK
  BY InitOK DEF HeatingInit, IInv
<1>2. FreshFor \in Nat /\ WatchdogFor \in Nat /\ 0 \in Overrides
  BY HeatingAssumption
<1>3. age \in [Room -> 0 .. FreshFor + 1]
  BY <1>2 DEF HeatingInit, NoSample
<1>4. silent \in 0 .. WatchdogFor
  BY <1>2 DEF HeatingInit
<1>5. verdict \in [Room -> {"NONE", "DISABLED", "MISSING"} \cup Status]
  BY DEF HeatingInit, NoVerdict
<1>6. HeatingTypeOK
  BY <1>1, <1>2, <1>3, <1>4, <1>5 DEF HeatingInit, HeatingTypeOK
<1>7. SamplesBoundSilence
  BY <1>2 DEF HeatingInit, NoSample, SamplesBoundSilence
<1>8. VerdictsBoundSilence /\ FiringBoundsSilence
  BY DEF HeatingInit, Init, VerdictsBoundSilence, FiringBoundsSilence
<1>9. ValvesFollowVerdicts
  BY DEF HeatingInit, NoVerdict, ValvesFollowVerdicts, AsksForHeat
<1>10. SupplyHonoursOverride
  BY DEF HeatingInit, Init, SupplyHonoursOverride
<1>11. QED
  BY <1>1, <1>6, <1>7, <1>8, <1>9, <1>10 DEF HInv

LEMMA HeatingTypeKept ==
  ASSUME HInv, [HeatingNext]_allVars
  PROVE  HeatingTypeOK'
<1> USE DEF HeatingTypeOK
<1>1. HeatingTypeOK /\ TypeOK'
  BY StepIsBoilerStep, NextKeeps DEF HInv, IInv
<1>2. FreshFor \in Nat /\ WatchdogFor \in Nat /\ 0 \in Overrides
  BY HeatingAssumption
<1>3. NoSample \in [Room -> 0 .. FreshFor + 1]
  BY <1>2 DEF NoSample
<1>4. NoVerdict \in [Room -> {"NONE", "DISABLED", "MISSING"} \cup Status]
  BY DEF NoVerdict
<1>5. CASE UNCHANGED allVars
  BY <1>1, <1>5
<1>6. CASE EvaluateRooms
  <2>1. verdict' \in [Room -> {"NONE", "DISABLED", "MISSING"} \cup Status]
    BY <1>6 DEF EvaluateRooms
  <2>2. wanted' \in Overrides
    BY <1>2, <1>6 DEF EvaluateRooms
  <2>3. QED
    BY <1>1, <1>6, <2>1, <2>2 DEF EvaluateRooms
<1>7. CASE SetValves
  BY <1>1, <1>7 DEF SetValves
<1>8. CASE DriveBoiler
  BY <1>1, <1>8 DEF DriveBoiler
<1>9. CASE \E s \in Sensor : PushTemperature(s)
  <2>1. age' \in [Room -> 0 .. FreshFor + 1]
    BY <1>1, <1>2, <1>9 DEF PushTemperature
  <2>2. QED
    BY <1>1, <1>2, <1>9, <2>1 DEF PushTemperature
<1>10. CASE ManualTest
  BY <1>1, <1>10 DEF ManualTest
<1>11. CASE \E p \in Programs : ReloadConfiguration(p)
  BY <1>1, <1>3, <1>4, <1>11 DEF ReloadConfiguration
<1>12. CASE RestartForSilence \/ PowerCut
  <2>1. silent' \in 0 .. WatchdogFor
    BY <1>2, <1>12 DEF RestartForSilence, PowerCut, Reboot
  <2>2. QED
    BY <1>1, <1>2, <1>3, <1>4, <1>12, <2>1
       DEF RestartForSilence, PowerCut, Reboot
<1>13. CASE PassTime
  <2>1. age' \in [Room -> 0 .. FreshFor + 1]
    BY <1>1, <1>2, <1>13 DEF PassTime
  <2>2. silent' \in 0 .. WatchdogFor
    BY <1>1, <1>2, <1>13 DEF PassTime
  <2>3. QED
    BY <1>1, <1>13, <2>1, <2>2 DEF PassTime
<1>14. QED
  BY <1>5, <1>6, <1>7, <1>8, <1>9, <1>10, <1>11, <1>12, <1>13
     DEF HeatingNext

\* Only a pushed temperature makes a sample younger, and it ends the silence.
LEMMA SamplesKept ==
  ASSUME HInv, [HeatingNext]_allVars
  PROVE  SamplesBoundSilence'
<1> USE DEF SamplesBoundSilence
<1>1. /\ SamplesBoundSilence
      /\ age \in [Room -> 0 .. FreshFor + 1]
      /\ silent \in 0 .. WatchdogFor
  BY DEF HInv, HeatingTypeOK
<1>2. FreshFor \in Nat /\ WatchdogFor \in Nat
  BY HeatingAssumption
<1>3. CASE UNCHANGED <<age, silent>>
  BY <1>1, <1>3
<1>4. CASE \E s \in Sensor : PushTemperature(s)
  BY <1>1, <1>2, <1>4 DEF PushTemperature
<1>5. CASE age' = NoSample
  BY <1>2, <1>5 DEF NoSample
<1>6. CASE PassTime
  BY <1>1, <1>2, <1>6 DEF PassTime
<1>7. QED
  BY <1>3, <1>4, <1>5, <1>6
     DEF HeatingNext, EvaluateRooms, SetValves, DriveBoiler, ManualTest,
         ReloadConfiguration, RestartForSilence, PowerCut, Reboot

\* A room asks for heat only on a fresh sample, and until the cycle that heard
\* it completes, at most one tick passes.
LEMMA VerdictsKept ==
  ASSUME HInv, [HeatingNext]_allVars
  PROVE  VerdictsBoundSilence'
<1> USE DEF VerdictsBoundSilence, Starting, Continuing
<1>1. /\ VerdictsBoundSilence /\ SamplesBoundSilence
      /\ age \in [Room -> 0 .. FreshFor + 1]
      /\ silent \in 0 .. WatchdogFor
      /\ cycled \in BOOLEAN
  BY DEF HInv, HeatingTypeOK
<1>2. FreshFor \in Nat /\ WatchdogFor \in Nat
  BY HeatingAssumption
<1>3. CASE phase' = "idle"
  BY <1>3
<1>4. CASE EvaluateRooms
  <2> SUFFICES ASSUME NEW r \in Room, verdict'[r] \in {"START", "CONTINUE"}
               PROVE  silent' <= FreshFor
    BY <1>1, <1>2, <1>4 DEF EvaluateRooms
  <2>1. verdict'[r] \in Verdicts[r]
    BY <1>4 DEF EvaluateRooms
  <2>2. age[r] <= FreshFor
    BY <1>1, <1>2, <2>1 DEF Verdicts
  <2>3. QED
    BY <1>1, <1>2, <1>4, <2>2 DEF EvaluateRooms, SamplesBoundSilence
<1>5. CASE \E s \in Sensor : PushTemperature(s)
  BY <1>1, <1>2, <1>5 DEF PushTemperature
<1>6. CASE PassTime
  BY <1>1, <1>2, <1>6 DEF PassTime
<1>7. CASE SetValves \/ UNCHANGED allVars
  BY <1>1, <1>7 DEF SetValves
<1>8. QED
  BY <1>3, <1>4, <1>5, <1>6, <1>7
     DEF HeatingNext, DriveBoiler, ManualTest, ReloadConfiguration,
         RestartForSilence, PowerCut, Reboot

\* The boiler burns on the verdicts of the last completed cycle.
LEMMA FiringKept ==
  ASSUME HInv, [HeatingNext]_allVars
  PROVE  FiringBoundsSilence'
<1> USE DEF FiringBoundsSilence
<1>1. /\ FiringBoundsSilence /\ VerdictsBoundSilence /\ IInv
      /\ silent \in 0 .. WatchdogFor
      /\ cycled \in BOOLEAN
  BY DEF HInv, HeatingTypeOK
<1>2. FreshFor \in Nat /\ WatchdogFor \in Nat
  BY HeatingAssumption
<1>3. CASE ~started' \/ testActive'
  BY <1>3
<1>4. CASE UNCHANGED <<started, testActive, silent, cycled>>
  BY <1>1, <1>4
<1>5. CASE SetValves /\ started' /\ ~testActive'
  <2>1. ToClose \in SUBSET Valve
    BY HeatingAssumption DEF ToClose, HInv, HeatingTypeOK
  <2>2. started /\ ~testActive
    BY <1>1, <1>5, <2>1, ValvesStartNothing DEF SetValves
  <2>3. QED
    BY <1>1, <1>5, <2>2 DEF SetValves
<1>6. CASE DriveBoiler /\ started' /\ ~testActive'
  <2>1. /\ Starting \in BOOLEAN /\ Continuing \in BOOLEAN
        /\ wanted \in Overrides
    BY DEF Starting, Continuing, HInv, HeatingTypeOK
  <2>2. Starting \/ Continuing
    BY <1>1, <1>6, <2>1, BurnsOnDemandOnly DEF DriveBoiler
  <2>3. silent <= FreshFor + 1
    BY <1>1, <1>2, <1>6, <2>2 DEF DriveBoiler, VerdictsBoundSilence
  <2>4. QED
    BY <1>6, <2>3 DEF DriveBoiler
<1>7. CASE \E s \in Sensor : PushTemperature(s)
  BY <1>2, <1>7 DEF PushTemperature
<1>8. CASE ManualTest
  BY <1>3, <1>8, TestsStartNothing
<1>9. CASE RestartForSilence \/ PowerCut
  BY <1>9 DEF RestartForSilence, PowerCut, Reboot, Restart
<1>10. CASE PassTime
  BY <1>1, <1>2, <1>10 DEF PassTime, Tick
<1>11. QED
  BY <1>3, <1>4, <1>5, <1>6, <1>7, <1>8, <1>9, <1>10
     DEF HeatingNext, EvaluateRooms, ReloadConfiguration

-----------------------------------------------------------------------------
(* Valves and the supply temperature *)

\* In automatic operation handleValves leaves no valve closed but those it is
\* told to close.
LEMMA HandleValvesOpens ==
  ASSUME TypeOK, NEW close \in SUBSET Valve, HandleValves(close), ~testActive'
  PROVE  \A v \in Valve \ close : opened'[v]
<1>1. OpenExactly(IF StartedNow \/ preheating THEN Valve \ close ELSE Valve)
  BY DEF HandleValves, TestRunning
<1>2. CASE StartedNow \/ preheating
  BY <1>1, <1>2 DEF OpenExactly
<1>3. CASE ~(StartedNow \/ preheating)
  BY <1>1, <1>3 DEF OpenExactly
<1>4. QED
  BY <1>2, <1>3

\* startBoilerOrContinue touches the valves only to open them all.
LEMMA BoilerClosesNothing ==
  ASSUME TypeOK, NEW start, NEW cont, NEW override, NEW curve,
         StartBoilerOrContinue(start, cont, override, curve), ~testActive'
  PROVE  (~testActive /\ opened' = opened) \/ \A v \in Valve : opened'[v]
<1>1. ~TestRunning
  BY DEF StartBoilerOrContinue, TestRunning
<1>2. IF TestExpired THEN OpenExactly(Valve) ELSE UNCHANGED valves
  BY <1>1 DEF StartBoilerOrContinue
<1>3. CASE TestExpired
  BY <1>2, <1>3 DEF OpenExactly
<1>4. CASE ~TestExpired
  BY <1>1, <1>2, <1>4 DEF TestExpired, TestRunning, TypeOK
<1>5. QED
  BY <1>3, <1>4

LEMMA ValvesKept ==
  ASSUME HInv, [HeatingNext]_allVars
  PROVE  ValvesFollowVerdicts'
<1> USE DEF ValvesFollowVerdicts, AsksForHeat, ToClose
<1>1. /\ ValvesFollowVerdicts /\ TypeOK
      /\ \A p \in Programs, r \in Room : ValvesOf[p][r] \subseteq Valve
      /\ program \in Programs
  BY HeatingAssumption DEF HInv, IInv, HeatingTypeOK
<1>2. CASE phase' = "decided" \/ testActive'
  BY <1>2
<1>3. CASE UNCHANGED <<phase, testActive, verdict, program, opened>>
  BY <1>1, <1>3
<1>4. CASE \A v \in Valve : opened'[v]
  BY <1>1, <1>4, HeatingTypeKept DEF HeatingTypeOK
<1>5. CASE SetValves /\ ~testActive'
  <2>1. ToClose \in SUBSET Valve
    BY <1>1
  <2>2. \A v \in Valve \ ToClose : opened'[v]
    BY <1>1, <1>5, <2>1, HandleValvesOpens DEF SetValves
  <2>3. QED
    BY <1>1, <1>5, <2>2 DEF SetValves
<1>6. CASE DriveBoiler /\ ~testActive'
  <2>1. (~testActive /\ opened' = opened) \/ \A v \in Valve : opened'[v]
    BY <1>1, <1>6, BoilerClosesNothing DEF DriveBoiler
  <2>2. phase = "valvesSet" /\ UNCHANGED <<verdict, program>>
    BY <1>6 DEF DriveBoiler
  <2>3. QED
    BY <1>1, <2>1, <2>2
<1>7. CASE ManualTest /\ ~testActive'
  BY <1>4, <1>7
     DEF ManualTest, StartManualTest, StopManualTest, OpenExactly
<1>8. CASE \E p \in Programs : ReloadConfiguration(p)
  BY <1>8 DEF ReloadConfiguration, NoVerdict
<1>9. CASE RestartForSilence \/ PowerCut
  BY <1>4, <1>9 DEF RestartForSilence, PowerCut, Reboot, Restart, OpenExactly
<1>10. QED
  BY <1>2, <1>3, <1>5, <1>6, <1>7, <1>8, <1>9
     DEF HeatingNext, EvaluateRooms, PushTemperature, PassTime, Tick

\* What the boiler is told to heat the supply to is, in both modes that tell
\* it, the temperature given to changeBoilerState.
LEMMA SupplyCommanded ==
  ASSUME TypeOK, mode # "onoff", mode' = mode, NEW on, NEW temp,
         ChangeBoilerState(on, temp)
  PROVE  Supply' = temp
<1>1. mode \in {"onoff_outdoor", "ems"} /\ commanded \in Commands
  BY DEF TypeOK, ControlModes
<1>2. CASE mode = "onoff_outdoor"
  BY <1>1, <1>2 DEF ChangeBoilerState, Command, Commands, Supply
<1>3. CASE mode = "ems"
  BY <1>3 DEF ChangeBoilerState, Command, Supply
<1>4. QED
  BY <1>1, <1>2, <1>3

\* Whichever branch startBoilerOrContinue takes, a boiler that burns afterwards
\* has been told the larger of curve and override.
LEMMA BurningIsCommanded ==
  ASSUME IInv, mode # "onoff", NEW start, NEW cont, NEW override, NEW curve,
         StartBoilerOrContinue(start, cont, override, curve),
         started', ~testActive'
  PROVE  Supply' = Larger(curve, override)
<1>1. /\ ~TestRunning
      /\ mode' = mode
      /\ DecideBurner(start, cont, Larger(curve, override))
  BY DEF StartBoilerOrContinue, TestRunning, IInv, TypeOK
<1>2. TypeOK
  BY DEF IInv
<1>3. CASE \E on : ChangeBoilerState(on, Larger(curve, override))
  BY <1>1, <1>2, <1>3, SupplyCommanded
<1>4. CASE StartPreheating(start)
  BY <1>4 DEF StartPreheating, KeepBurner
<1>5. QED
  BY <1>1, <1>3, <1>4
     DEF DecideBurner, FinishPreheating, StartBoiler, StopBoiler, RefreshBoiler

LEMMA OverrideKept ==
  ASSUME HInv, [HeatingNext]_allVars
  PROVE  SupplyHonoursOverride'
<1> USE DEF SupplyHonoursOverride, Automatic
<1>1. SupplyHonoursOverride /\ IInv /\ mode' = mode
  BY StepIsBoilerStep, ConfigKept DEF HInv
<1>2. CASE phase' # "idle" \/ ~started' \/ testActive' \/ mode = "onoff"
  BY <1>1, <1>2
<1>3. CASE UNCHANGED <<phase, started, testActive, commanded, wanted>>
  BY <1>1, <1>3 DEF Supply
<1>4. CASE DriveBoiler /\ started' /\ ~testActive' /\ mode # "onoff"
  <2>1. PICK curve \in CurveTemps :
          StartBoilerOrContinue(Starting, Continuing, wanted, curve)
    BY <1>4 DEF DriveBoiler
  <2>2. Supply' = Larger(curve, wanted)
    BY <1>1, <1>4, <2>1, BurningIsCommanded
  <2>3. curve \in Nat /\ wanted \in Nat
    BY BoilerAssumption DEF HInv, HeatingTypeOK
  <2>4. QED
    BY <1>4, <2>2, <2>3 DEF Larger, DriveBoiler
<1>5. CASE ManualTest
  BY <1>2, <1>5, TestsStartNothing
<1>6. CASE RestartForSilence \/ PowerCut
  BY <1>2, <1>6 DEF RestartForSilence, PowerCut, Reboot, Restart
<1>7. QED
  BY <1>1, <1>2, <1>3, <1>4, <1>5, <1>6
     DEF HeatingNext, EvaluateRooms, SetValves, PushTemperature,
         ReloadConfiguration, PassTime, Tick

-----------------------------------------------------------------------------
(* Theorems *)

LEMMA HeatingKeeps == HInv /\ [HeatingNext]_allVars => HInv'
<1> SUFFICES ASSUME HInv, [HeatingNext]_allVars PROVE HInv'
  OBVIOUS
<1>1. IInv'
  BY StepIsBoilerStep, NextKeeps DEF HInv
<1>2. QED
  BY <1>1, HeatingTypeKept, SamplesKept, VerdictsKept, FiringKept,
     ValvesKept, OverrideKept
     DEF HInv

THEOREM HeatingInvariant == HeatingSpec => []HInv
BY HeatingInitOK, HeatingKeeps, PTL DEF HeatingSpec

\* Rooms, verdicts, clocks and the cycle keep their types.
THEOREM HeatingTypeCorrect == HeatingSpec => []HeatingTypeOK
<1>1. HInv => HeatingTypeOK
  BY DEF HInv
<1>2. QED
  BY <1>1, HeatingInvariant, PTL

\* operate(), the REST requests, the watchdog and restarts use BoilerController
\* only as Boiler.tla allows: what holds there holds in the whole system.
THEOREM HeatingUsesBoiler == HeatingSpec => Spec
<1>1. HeatingInit => Init
  BY DEF HeatingInit
<1>2. HInv /\ [HeatingNext]_allVars => [Next]_vars
  BY StepIsBoilerStep DEF HInv
<1>3. QED
  BY <1>1, <1>2, HeatingInvariant, PTL DEF HeatingSpec, Spec

\* Under automatic control the boiler is never on more than two ticks after the
\* last fresh temperature of a known room ran out, for any number of rooms,
\* sensors and programs.
THEOREM NeverBlind == HeatingSpec => []NeverHeatsBlind
<1>1. HInv => NeverHeatsBlind
  BY HeatingAssumption
     DEF HInv, HeatingTypeOK, FiringBoundsSilence, NeverHeatsBlind, Automatic
<1>2. QED
  BY <1>1, HeatingInvariant, PTL

\* Between two cycles every valve of a room that asked for heat, or whose
\* temperature is missing, is open unless a satisfied room closes that very
\* valve.
THEOREM OnlySatisfiedRoomsClose == HeatingSpec => []ValvesFollowVerdicts
<1>1. HInv => ValvesFollowVerdicts
  BY DEF HInv
<1>2. QED
  BY <1>1, HeatingInvariant, PTL

\* If no two rooms share a valve, a burning boiler heats every room that asked
\* for it, although the valves are set before it is decided upon.
THEOREM HeatGetsThrough ==
  ASSUME OneRoomPerValve
  PROVE  HeatingSpec => []HeatReachesRooms
<1>1. HInv => HeatReachesRooms
  <2> SUFFICES ASSUME HInv, phase = "idle", started, Automatic,
                      NEW r \in Room, AsksForHeat(r),
                      NEW v \in ValvesOf[program][r]
               PROVE  opened[v]
    BY DEF HeatReachesRooms
  <2>1. program \in Programs
    BY DEF HInv, HeatingTypeOK
  <2>2. v \notin ToClose
    BY <2>1 DEF OneRoomPerValve, ToClose, AsksForHeat
  <2>3. QED
    BY <2>2 DEF HInv, ValvesFollowVerdicts, Automatic
<1>2. QED
  BY <1>1, HeatingInvariant, PTL

\* With a burning boiler the supply temperature last commanded is never below
\* the override the last evaluation asked for.
THEOREM OverrideIsHonoured == HeatingSpec => []SupplyHonoursOverride
<1>1. HInv => SupplyHonoursOverride
  BY DEF HInv
<1>2. QED
  BY <1>1, HeatingInvariant, PTL
=============================================================================
