------------------------------ MODULE Heating ------------------------------
(***************************************************************************)
(* HeatingController::operate (src/src/HeatingController.h) and what runs   *)
(* around it: the rooms' verdicts, the valves, the boiler, temperatures     *)
(* pushed by the NimBLE task, the manual I/O test and the reload asked for  *)
(* over REST, the no-data watchdog and restarts.                            *)
(*                                                                         *)
(* A room's mean temperature may be anything its fresh samples allow, so    *)
(* the verdict on a room with a fresh sample is any of START, CONTINUE and  *)
(* OK (Room::shouldStartBoilerAndHeat); without one it is MISSING.          *)
(*                                                                         *)
(* operate() is three steps, since tens of milliseconds pass in the valves' *)
(* power-surge delays: time, and temperatures, move between them.  REST and *)
(* operate share the loop task, so a request lands between two cycles.      *)
(***************************************************************************)
EXTENDS Boiler

CONSTANTS
  NumRooms,     \* rooms_.size()
  Sensor,       \* addresses of the beacons in range
  SensorOf,     \* the sensor address configured for a room
  Programs,     \* configuration programs
  EnabledIn,    \* the rooms enabled in a program
  ValvesOf,     \* the valves a program gives a room, as indices of valvePorts_
  FreshFor,     \* Room::getMaxSampleAgeMs, in ticks
  WatchdogFor   \* period of lastReadTemperatureCounter_, in ticks

Room == 1 .. NumRooms

ASSUME HeatingAssumption ==
  /\ NumRooms \in Nat \ {0}
  /\ SensorOf \in [Room -> Sensor]
  /\ EnabledIn \in [Programs -> SUBSET Room]
  /\ ValvesOf \in [Programs -> [Room -> SUBSET Valve]]
  /\ FreshFor \in Nat
  /\ WatchdogFor \in Nat \ {0}
  /\ 0 \in Overrides

Status == {"START", "CONTINUE", "OK"}

VARIABLES
  program,   \* currentProgram_
  age,       \* age of a room's newest sample, FreshFor + 1: none that counts
  silent,    \* now - last lastReadTemperatureCounter_.notifyNow()
  scanning,  \* bluetoothScan_
  phase,     \* how far operate() has got
  verdict,   \* what the last evaluation said of each room
  wanted,    \* boilerHeatingTempOverride of the last evaluation, 0: none
  cycled     \* an operate() has completed since the last tick

roomVars == <<program, age, silent, scanning>>
loopVars == <<phase, verdict, wanted, cycled>>
allVars  == <<vars, roomVars, loopVars>>

NoVerdict == [r \in Room |-> "NONE"]

MutNoSample == [r \in Room |-> FreshFor + 2]

NoSample == [r \in Room |-> FreshFor + 1]

Starting   == \E r \in Room : verdict[r] = "START"
Continuing == \E r \in Room : verdict[r] = "CONTINUE"

\* The room find_if returns: the first one with that sensor's address.
Hearing(s) ==
  {r \in Room : SensorOf[r] = s /\ \A q \in 1 .. r - 1 : SensorOf[q] # s}

-----------------------------------------------------------------------------
(* operate() *)

WatchdogDue == scanning /\ silent = WatchdogFor

MutVerdictsIgnoringAge ==
  [r \in Room |-> IF r \in EnabledIn[program] THEN Status ELSE {"DISABLED"}]

\* shouldStartBoilerAndHeat of each room of the program.
Verdicts ==
  [r \in Room |-> IF r \notin EnabledIn[program] THEN {"DISABLED"}
                  ELSE IF age[r] > FreshFor THEN {"MISSING"} ELSE Status]

\* The room loop, under roomsAccessMutex_.
EvaluateRooms ==
  /\ phase = "idle"
  /\ ~WatchdogDue
  /\ phase' = "decided"
  /\ verdict' \in [Room -> {"DISABLED", "MISSING"} \cup Status]
  /\ \A r \in Room : verdict'[r] \in Verdicts[r]
  /\ wanted' \in IF \E r \in Room : verdict'[r] \in Status
                   THEN Overrides ELSE {0}
  /\ UNCHANGED <<vars, roomVars, cycled>>

MutCloseContinuing ==
  UNION {ValvesOf[program][r] :
           r \in {q \in Room : verdict[q] \in {"OK", "CONTINUE"}}}

\* valvesWhichShouldBeClosed
ToClose == UNION {ValvesOf[program][r] : r \in {q \in Room : verdict[q] = "OK"}}

SetValves ==
  /\ phase = "decided"
  /\ phase' = "valvesSet"
  /\ HandleValves(ToClose)
  /\ UNCHANGED <<roomVars, verdict, wanted, cycled>>

DriveBoiler ==
  /\ phase = "valvesSet"
  /\ phase' = "idle"
  /\ cycled' = TRUE
  /\ \E curve \in CurveTemps :
       StartBoilerOrContinue(Starting, Continuing, wanted, curve)
  /\ UNCHANGED <<roomVars, verdict, wanted>>

-----------------------------------------------------------------------------
(* What happens around operate() *)

\* pushTemperatureData on the NimBLE task, for an advertisement that carries a
\* temperature; an address no room has leaves only a trace in devicesFound_.
PushTemperature(s) ==
  /\ scanning
  /\ Hearing(s) # {}
  /\ age' = [r \in Room |-> IF r \in Hearing(s) THEN 0 ELSE age[r]]
  /\ silent' = 0
  /\ UNCHANGED <<vars, program, scanning, loopVars>>

\* startManualGpioTest and stopManualGpioTest
ManualTest ==
  /\ phase = "idle"
  /\ \/ \E on \in BOOLEAN, given \in 0 .. NumValves, length \in TestLengths :
          \E open \in SUBSET (0 .. given - 1) :
            StartManualTest(on, given, open, length)
     \/ StopManualTest
  /\ UNCHANGED <<roomVars, loopVars>>

\* reloadConfiguration: the rooms are built anew and have no samples.
ReloadConfiguration(p) ==
  /\ phase = "idle"
  /\ program' = p
  /\ age' = NoSample
  /\ verdict' = NoVerdict
  /\ UNCHANGED <<vars, silent, scanning, phase, wanted, cycled>>

\* A fresh start of the firmware; the program and the mode are read from flash.
\* Without a WiFi network configured it becomes an access point: WifiSetUp calls
\* stopBluetoothScan and shuts Bluetooth down before the first cycle.
Reboot ==
  /\ Restart
  /\ age' = NoSample
  /\ silent' = 0
  /\ scanning' \in BOOLEAN
  /\ phase' = "idle"
  /\ verdict' = NoVerdict
  /\ wanted' = 0
  /\ cycled' = FALSE
  /\ UNCHANGED program

MutNoRestart == phase = "idle" /\ WatchdogDue /\ UNCHANGED allVars

\* resetIfNoDataForLongTime, called from the room loop.
RestartForSilence == phase = "idle" /\ WatchdogDue /\ Reboot

PowerCut == Reboot

\* loop() runs operate() every ten seconds; a tick is longer than that.
PassTime ==
  /\ cycled
  /\ cycled' = FALSE
  /\ Tick
  /\ age' = [r \in Room |-> IF age[r] > FreshFor THEN age[r] ELSE age[r] + 1]
  /\ silent' = IF silent < WatchdogFor THEN silent + 1 ELSE silent
  /\ UNCHANGED <<program, scanning, phase, verdict, wanted>>

-----------------------------------------------------------------------------
HeatingInit ==
  /\ Init
  /\ program \in Programs
  /\ age = NoSample
  /\ silent = 0
  /\ scanning \in BOOLEAN
  /\ phase = "idle"
  /\ verdict = NoVerdict
  /\ wanted = 0
  /\ cycled = FALSE

HeatingNext ==
  \/ EvaluateRooms
  \/ SetValves
  \/ DriveBoiler
  \/ \E s \in Sensor : PushTemperature(s)
  \/ ManualTest
  \/ \E p \in Programs : ReloadConfiguration(p)
  \/ RestartForSilence
  \/ PowerCut
  \/ PassTime

\* The loop task keeps running and time keeps passing.
HeatingFairness ==
  /\ WF_allVars(EvaluateRooms)
  /\ WF_allVars(SetValves)
  /\ WF_allVars(DriveBoiler)
  /\ WF_allVars(RestartForSilence)
  /\ WF_allVars(PassTime)

HeatingSpec == HeatingInit /\ [][HeatingNext]_allVars /\ HeatingFairness

-----------------------------------------------------------------------------
(* Properties *)

Automatic == ~testActive

HeatingTypeOK ==
  /\ TypeOK
  /\ program \in Programs
  /\ age \in [Room -> 0 .. FreshFor + 1]
  /\ silent \in 0 .. WatchdogFor
  /\ scanning \in BOOLEAN /\ cycled \in BOOLEAN
  /\ phase \in {"idle", "decided", "valvesSet"}
  /\ verdict \in [Room -> {"NONE", "DISABLED", "MISSING"} \cup Status]
  /\ wanted \in Overrides

\* The boiler never runs blind: under automatic control it is on only if a
\* known room reported a temperature at most two ticks before the freshness
\* limit ran out, whatever sensors fail, rooms are reloaded or tests are run.
\* (One tick for a decision taken on the last fresh sample, one for the cycle
\* that carries it out.)
NeverHeatsBlind == started /\ Automatic => silent <= FreshFor + 2

AsksForHeat(r) == verdict[r] \in {"START", "CONTINUE", "MISSING"}

\* While the boiler runs under automatic control, between two cycles, every
\* valve of a room that asked for heat, or whose temperature is missing, is
\* open, although operate() sets the valves before it decides on the boiler
\* and although a valve may have been closed for an earlier verdict.
HeatReachesRooms ==
  phase = "idle" /\ started /\ Automatic =>
    \A r \in Room : AsksForHeat(r) =>
      \A v \in ValvesOf[program][r] : opened[v]

\* What HeatReachesRooms takes for granted of a configuration, and the code
\* does not check: no two rooms of a program share a valve.
OneRoomPerValve ==
  \A p \in Programs : \A r, q \in Room :
    r # q => ValvesOf[p][r] \cap ValvesOf[p][q] = {}

\* What the boiler is told to heat the supply to.
Supply == IF mode = "ems" THEN commanded.flow ELSE commanded.param

\* The supply temperature commanded with a running boiler is never below the
\* override the last evaluation asked for, on a boiler that was just started,
\* restarted after preheating or merely continued.
SupplyHonoursOverride ==
  phase = "idle" /\ started /\ Automatic /\ mode # "onoff" =>
    Supply >= wanted

\* From some time on nobody touches the manual test or cuts the power; the
\* watchdog may go on restarting the controller.
LeftAlone == <>[][~ManualTest /\ (Reboot => RestartForSilence)]_allVars

\* Once no room asks for heat any more, and the system is left alone, it comes
\* to rest: the boiler off, no EMS command to heat outstanding and every valve
\* released, even if preheating or a manual test was under way.
ComesToRest ==
  LeftAlone /\ <>[](~Starting /\ ~Continuing)
  => <>[](~started /\ commanded.heat # "on" /\ \A v \in Valve : ~coil[v])

\* A room that stays below its lower margin gets heat: neither a manual test
\* that was still running nor stale preheating holds the boiler off for ever.
DemandIsServed == LeftAlone /\ <>[]Starting => <>[](started /\ Automatic)

\* The firmware does not stay deaf: silence of all known sensors ends with a
\* restart, even during a manual test, except in an access point, which is
\* deaf by choice.
SilenceEnds == []<>(silent < WatchdogFor \/ ~scanning)

\* A manual test ends by itself: nobody needs to call stopManualTest.
ManualTestsEnd == <>[][~ManualTest]_allVars => <>[]Automatic
=============================================================================
