------------------------------ MODULE Sensing ------------------------------
(***************************************************************************)
(* Where the controller's measurements come from: the end of                *)
(* HeatingController::operate (src/src/HeatingController.h), which triggers *)
(* the Bluetooth scan and the weather request, the tasks that bring their   *)
(* results, the watchdog, and the outdoor temperature chosen from what      *)
(* there is.  A tick is the ten seconds between two cycles; the rest of a   *)
(* cycle is Heating.tla.                                                    *)
(***************************************************************************)
EXTENDS BleScan, OpenWeather, HeatingCurve

CONSTANTS
  Sources,  \* values of config_.boiler.outdoorSensor considered
  Curve,    \* config_.heatingCurve.heatingCurve
  Readings  \* outdoor temperatures the curve is tried at

ASSUME SensingAssumption ==
  /\ Sources \subseteq {"openweather", "ems", "no"}
  /\ Curve \in [1 .. 9 -> 0 .. 255]
  /\ Readings \subseteq Int

VARIABLES
  source,      \* boilerConfig_.boiler.outdoorSensor
  emsOutdoor,  \* EmsBoilerState::outdoorTemperature
  cycle        \* where operate() is

sensingVars == <<scanVars, weatherVars, source, emsOutdoor, cycle>>

-----------------------------------------------------------------------------
(* getOutdoorTemperature *)

Configured == CASE source = "openweather" -> weather
                [] source = "ems"         -> emsOutdoor
                [] source = "no"          -> {}

MutAvailable == Configured

Available ==
  IF Configured # {} THEN Configured
  ELSE IF weather # {} THEN weather ELSE emsOutdoor

\* The lowest of the axis if nothing is known.
Outdoor == IF Available = {} THEN -2000 ELSE CHOOSE t \in Available : TRUE

-----------------------------------------------------------------------------
(* The loop task *)

WatchdogDue == silent = WatchdogFor

TriggerScanInCycle ==
  /\ cycle = "scan" /\ ~WatchdogDue
  /\ \/ TriggerScan /\ cycle' = "start"
     \/ ~MayScan /\ cycle' = "weather" /\ UNCHANGED scanVars
  /\ UNCHANGED <<weatherVars, source, emsOutdoor>>

StartScanInCycle ==
  /\ cycle = "start"
  /\ cycle' = "weather"
  /\ StartScan \/ FailToStart
  /\ UNCHANGED <<weatherVars, source, emsOutdoor>>

FetchInCycle ==
  /\ cycle = "weather"
  /\ cycle' = "wait"
  /\ Fetch \/ Wait
  /\ UNCHANGED <<scanVars, source, emsOutdoor>>

\* processTelegrams: the outdoor sensor of the boiler, if it has one.
HearBoiler ==
  /\ cycle = "wait"
  /\ emsOutdoor' \in Optional(Temps)
  /\ UNCHANGED <<scanVars, weatherVars, source, cycle>>

Reboot ==
  /\ ScanReboot /\ WeatherReboot
  /\ emsOutdoor' = {}
  /\ cycle' = "wait"
  /\ UNCHANGED source

MutRestartForSilence ==
  /\ cycle = "scan" /\ WatchdogDue
  /\ cycle' = "weather"
  /\ UNCHANGED <<scanVars, weatherVars, source, emsOutdoor>>

\* resetIfNoDataForLongTime, in the room loop of the same cycle
RestartForSilence == cycle = "scan" /\ WatchdogDue /\ Reboot

PowerCut == Reboot

-----------------------------------------------------------------------------
(* The NimBLE task, the fetch tasks and time *)

HearSensor ==
  /\ Hear
  /\ UNCHANGED <<weatherVars, source, emsOutdoor, cycle>>

ScanEnds ==
  /\ EndScan \/ ClearPending \/ StoreEnd
  /\ UNCHANGED <<weatherVars, source, emsOutdoor, cycle>>

FetchBegins ==
  /\ BeginFetch
  /\ UNCHANGED <<scanVars, source, emsOutdoor, cycle>>

FetchEnds ==
  /\ Answer \/ EndFetch
  /\ UNCHANGED <<scanVars, source, emsOutdoor, cycle>>

Tick ==
  /\ cycle = "wait"
  /\ cycle' = "scan"
  /\ ScanTick /\ WeatherTick
  /\ UNCHANGED <<source, emsOutdoor>>

SensingInit ==
  /\ ScanInit /\ WeatherInit
  /\ source \in Sources
  /\ emsOutdoor = {}
  /\ cycle = "wait"

SensingNext ==
  \/ TriggerScanInCycle
  \/ StartScanInCycle
  \/ FetchInCycle
  \/ HearBoiler
  \/ RestartForSilence
  \/ PowerCut
  \/ HearSensor
  \/ ScanEnds
  \/ FetchBegins
  \/ FetchEnds
  \/ Tick

\* The loop task and time go on, scans end, requests time out, and a task that
\* is ready runs.
SensingFairness ==
  /\ WF_sensingVars(TriggerScanInCycle)
  /\ WF_sensingVars(StartScanInCycle)
  /\ WF_sensingVars(FetchInCycle)
  /\ WF_sensingVars(RestartForSilence)
  /\ WF_sensingVars(Tick)
  /\ WF_sensingVars(ScanEnds)
  /\ WF_sensingVars(FetchBegins)
  /\ WF_sensingVars(FetchEnds)

SensingSpec ==
  SensingInit /\ [][SensingNext]_sensingVars /\ SensingFairness

-----------------------------------------------------------------------------
(* Properties *)

\* Every field keeps its type.
SensingTypeOK ==
  /\ source \in Sources
  /\ weather \in Optional(Temps) /\ emsOutdoor \in Optional(Temps)
  /\ cycle \in {"scan", "start", "weather", "wait"}
  /\ now \in 0 .. Clock - 1 /\ lastFetch \in 0 .. Clock - 1
  /\ created \in 0 .. MaxTasks /\ fetching \in Nat /\ closing \in Nat
  /\ inProgress \in BOOLEAN /\ pending \in BOOLEAN
  /\ heard \in BOOLEAN /\ faulty \in BOOLEAN
  /\ scanning \in -1 .. ScanTime /\ rested \in -1 .. ScanInterval
  /\ finish \in {"called", "cleared", "done"}
  /\ silent \in 0 .. WatchdogFor

\* However many fetch tasks are created while the service keeps one waiting,
\* one at a time uses the HTTP client, and the flag says whether one does.
OneFetchAtATime == fetching + closing = IF inProgress THEN 1 ELSE 0

\* No scan is started while another one runs or its callback has only begun,
\* although the flag and the time that triggerScan looks at are written by
\* another task.
ScansDoNotOverlap ==
  [][StartScanInCycle => scanning = -1 /\ finish # "called"]_sensingVars

\* As long as every scan starts and brings a temperature, the watchdog does
\* not fire, whatever the moments of callback, cycle and advertisement in them.
NoRestartWhileHeard == ~faulty => ~WatchdogDue

\* Scanning goes on for ever, if only the power stays: a scan that fails to
\* start leaves its flag up, but the silence that follows restarts the firmware.
ScanningGoesOn ==
  <>[][Reboot => RestartForSilence]_sensingVars
  => []<><<StartScanInCycle>>_sensingVars

\* When requests go on, fetch tasks can be created and the service gives the
\* same answer for good, the controller uses it in the end, however many
\* requests hung or failed before and whichever reading was used until then;
\* with the boiler's sensor configured, as long as that has no reading.
WeatherIsUsed ==
  \A t \in Temps :
    /\ <>[](source = "ems" => emsOutdoor = {})
    /\ []<><<FetchInCycle /\ Fetch>>_sensingVars
    /\ <>[][/\ Answer => weather' = {t}
            /\ Fetch => created' = created + 1
            /\ ~Reboot]_sensingVars
    => <>[](Outdoor = t)

\* The temperatures between which the curve runs at an outdoor temperature.
Neighbours(outdoor) ==
  {Curve[i] * 100 : i \in {i \in 1 .. 9 :
     \/ /\ hcOutdoorAxis[i] * 100 >= outdoor
        /\ \A j \in i + 1 .. 9 : hcOutdoorAxis[j] * 100 < outdoor
     \/ /\ hcOutdoorAxis[i] * 100 <= outdoor
        /\ \A j \in 1 .. i - 1 : hcOutdoorAxis[j] * 100 > outdoor}}

BetweenPoints(outdoor) ==
  \A result \in calcHeatingTemperature(outdoor, Curve) :
    /\ \E n \in Neighbours(outdoor) : result >= n - 1
    /\ \E n \in Neighbours(outdoor) : result <= n

BetweenPointsAlways == \A outdoor \in Readings : BetweenPoints(outdoor)

\* For every reading, and for the one in use, the supply temperature lies
\* between the configured temperatures of the two points around it, or one
\* hundredth below them.
CurveStaysBetweenPoints == BetweenPointsAlways /\ BetweenPoints(Outdoor)
=============================================================================
