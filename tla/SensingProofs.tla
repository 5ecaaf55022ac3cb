---------------------------- MODULE SensingProofs ----------------------------
(***************************************************************************)
(* Proofs about Sensing.tla, for any times of scan, pause and watchdog, any   *)
(* clock and any number of fetch tasks.                                       *)
(*                                                                         *)
(* That the watchdog stays quiet rests on how long the silence can have been   *)
(* at each stage of scan, callback and pause.  For this the stages must be in   *)
(* order although three tasks write them, which ScansInOrder says.              *)
(* Of the heating curve, that a line keeps between its ends.                    *)
(***************************************************************************)
EXTENDS Sensing, TLAPS

\* The flag is up from the trigger to the callback, and no trigger falls in a
\* scan or before its callback has put the flag down.
ScansInOrder ==
  /\ cycle = "start" => pending /\ scanning = -1 /\ finish # "called"
  /\ scanning >= 0 => pending /\ finish # "called"
  /\ finish = "called" => pending
  /\ ~faulty /\ pending /\ scanning = -1 => cycle = "start" \/ finish = "called"

\* The silence at most, while every scan starts and brings a temperature.
Before == ScanTime + ScanInterval

SilenceInScan ==
  scanning >= 0 => silent <= scanning + (IF heard THEN 0 ELSE Before)

SilenceAfterScan == scanning = -1 /\ finish # "done" => silent <= ScanTime

SilenceAtStart == cycle = "start" => silent <= Before

SilenceInPause ==
  scanning = -1 /\ finish = "done" /\ ~pending =>
    /\ rested = -1 => silent <= 1 /\ cycle \in {"scan", "wait"}
    /\ rested >= 0 => silent <= ScanTime + rested
    /\ cycle # "scan" => rested # ScanInterval
    /\ rested = -1 /\ cycle = "wait" => silent = 0

SilenceBounded ==
  ~faulty => /\ SilenceInScan
             /\ SilenceAfterScan
             /\ SilenceAtStart
             /\ SilenceInPause

SInv ==
  /\ SensingTypeOK
  /\ ScansInOrder
  /\ SilenceBounded
  /\ OneFetchAtATime

-----------------------------------------------------------------------------
(* Lemmas *)

LEMMA Times ==
  /\ ScanTime \in Nat /\ ScanTime >= 1
  /\ ScanInterval \in Nat /\ ScanInterval >= 1
  /\ WatchdogFor \in Nat /\ WatchdogFor > 2 * ScanTime + ScanInterval
BY ScanAssumption

LEMMA Clocks ==
  /\ Clock \in Nat /\ Clock >= 1
  /\ Cycles \subseteq Nat
  /\ MaxTasks \in Nat /\ MaxTasks >= 1
BY WeatherAssumption

LEMMA InitSInv == SensingInit => SInv
<1> SUFFICES ASSUME SensingInit PROVE SInv
  OBVIOUS
<1> USE DEF SensingInit, ScanInit, WeatherInit
<1>1. SensingTypeOK
  <2>1. /\ inProgress \in BOOLEAN /\ pending \in BOOLEAN
        /\ heard \in BOOLEAN /\ faulty \in BOOLEAN
    BY Zenon
  <2>2. weather \in Optional(Temps) /\ emsOutdoor \in Optional(Temps)
    BY DEF Optional
  <2>3. source \in Sources /\ cycle = "wait" /\ finish = "done"
    OBVIOUS
  <2>4. /\ now \in 0 .. Clock - 1 /\ lastFetch \in 0 .. Clock - 1
        /\ created \in 0 .. MaxTasks /\ fetching \in Nat /\ closing \in Nat
        /\ scanning \in -1 .. ScanTime /\ rested \in -1 .. ScanInterval
        /\ silent \in 0 .. WatchdogFor
    BY Times, Clocks
  <2>5. QED
    BY <2>1, <2>2, <2>3, <2>4 DEF SensingTypeOK
<1>2. ScansInOrder /\ SilenceBounded
  BY Times DEF ScansInOrder, SilenceBounded, SilenceInScan, SilenceAfterScan,
     SilenceAtStart, SilenceInPause
<1>3. OneFetchAtATime
  BY DEF OneFetchAtATime
<1>4. QED
  BY <1>1, <1>2, <1>3 DEF SInv

\* The tasks of the weather do not touch the scans.
LEMMA ScansAlone ==
  ASSUME SInv, UNCHANGED scanVars, UNCHANGED cycle
  PROVE  ScansInOrder' /\ SilenceBounded'
BY DEF SInv, scanVars, ScansInOrder, SilenceBounded, SilenceInScan,
   SilenceAfterScan, SilenceAtStart, SilenceInPause

\* Nor the scans those tasks.
LEMMA FetchesAlone ==
  ASSUME SInv, UNCHANGED weatherVars
  PROVE  OneFetchAtATime'
BY DEF SInv, weatherVars, OneFetchAtATime

-----------------------------------------------------------------------------
(* The scans *)

LEMMA TriggerSInv ==
  ASSUME SInv, TriggerScanInCycle
  PROVE  SInv'
<1> USE DEF SInv
<1>1. UNCHANGED <<weatherVars, source, emsOutdoor>> /\ cycle = "scan"
  BY DEF TriggerScanInCycle
<1>2. CASE TriggerScan /\ cycle' = "start"
  <2>1. /\ ~pending /\ pending' = TRUE /\ rested \in {-1, ScanInterval}
        /\ UNCHANGED <<scanning, finish, rested, silent, heard, faulty>>
    BY <1>2 DEF TriggerScan, MayScan
  <2>2. scanning = -1 /\ finish # "called"
    BY <2>1, Times DEF ScansInOrder, SensingTypeOK
  <2>3. SensingTypeOK'
    BY <1>1, <1>2, <2>1 DEF SensingTypeOK, weatherVars
  <2>4. ScansInOrder'
    BY <1>2, <2>1, <2>2 DEF ScansInOrder
  <2>5. ASSUME ~faulty PROVE silent <= Before
    BY <2>1, <2>2, <2>5, Times DEF SilenceBounded, SilenceAfterScan, SilenceInPause,
       Before, SensingTypeOK
  <2>6. SilenceBounded'
    BY <1>2, <2>1, <2>2, <2>5 DEF SilenceBounded, SilenceInScan, SilenceAfterScan,
       SilenceAtStart, SilenceInPause, SensingTypeOK
  <2>7. QED
    BY <1>1, <2>3, <2>4, <2>6, FetchesAlone
<1>3. CASE ~MayScan /\ cycle' = "weather" /\ UNCHANGED scanVars
  <2>1. UNCHANGED <<pending, scanning, finish, rested, silent, heard, faulty>>
    BY <1>3 DEF scanVars
  <2>2. SensingTypeOK'
    BY <1>1, <1>3, <2>1 DEF SensingTypeOK, weatherVars
  <2>3. ScansInOrder'
    BY <1>1, <1>3, <2>1 DEF ScansInOrder
  <2>4. SilenceBounded'
    BY <1>1, <1>3, <2>1 DEF SilenceBounded, SilenceInScan, SilenceAfterScan,
       SilenceAtStart, SilenceInPause, MayScan
  <2>5. QED
    BY <1>1, <2>2, <2>3, <2>4, FetchesAlone
<1>4. QED
  BY <1>2, <1>3 DEF TriggerScanInCycle

LEMMA StartSInv ==
  ASSUME SInv, StartScanInCycle
  PROVE  SInv'
<1> USE DEF SInv
<1>1. /\ UNCHANGED <<weatherVars, source, emsOutdoor>>
      /\ cycle = "start" /\ cycle' = "weather"
      /\ pending /\ scanning = -1 /\ finish # "called"
  BY DEF StartScanInCycle, ScansInOrder
<1>2. CASE StartScan
  <2>1. /\ scanning' = 0 /\ heard' = FALSE
        /\ UNCHANGED <<pending, finish, rested, silent, faulty>>
    BY <1>2 DEF StartScan
  <2> heard' \in BOOLEAN
    BY <2>1, Zenon
  <2>2. SensingTypeOK'
    BY <1>1, <2>1, Times DEF SensingTypeOK, weatherVars
  <2>3. ScansInOrder'
    BY <1>1, <2>1 DEF ScansInOrder
  <2>4. SilenceBounded'
    BY <1>1, <2>1, Times DEF SilenceBounded, SilenceInScan, SilenceAfterScan,
       SilenceAtStart, SilenceInPause, SensingTypeOK, Before
  <2>5. QED
    BY <1>1, <2>2, <2>3, <2>4, FetchesAlone
<1>3. CASE FailToStart
  <2>1. /\ faulty' = TRUE
        /\ UNCHANGED <<pending, scanning, finish, rested, silent, heard>>
    BY <1>3 DEF FailToStart
  <2>2. SensingTypeOK'
    BY <1>1, <2>1 DEF SensingTypeOK, weatherVars
  <2>3. ScansInOrder' /\ SilenceBounded'
    BY <1>1, <2>1 DEF ScansInOrder, SilenceBounded
  <2>4. QED
    BY <1>1, <2>2, <2>3, FetchesAlone
<1>4. QED
  BY <1>2, <1>3 DEF StartScanInCycle

LEMMA HearSInv ==
  ASSUME SInv, HearSensor
  PROVE  SInv'
<1> USE DEF SInv
<1>1. /\ scanning >= 0 /\ heard' = TRUE /\ silent' = 0
      /\ UNCHANGED <<pending, scanning, rested, finish, faulty, cycle>>
      /\ UNCHANGED <<weatherVars, source, emsOutdoor>>
  BY DEF HearSensor, Hear
<1>2. SensingTypeOK'
  BY <1>1, Times DEF SensingTypeOK, weatherVars
<1>3. ScansInOrder'
  BY <1>1 DEF ScansInOrder
<1>4. SilenceBounded'
  BY <1>1, Times DEF SilenceBounded, SilenceInScan, SilenceAfterScan, SilenceAtStart,
     SilenceInPause, SensingTypeOK, Before
<1>5. QED
  BY <1>1, <1>2, <1>3, <1>4, FetchesAlone

LEMMA ScanEndsSInv ==
  ASSUME SInv, ScanEnds
  PROVE  SInv'
<1> USE DEF SInv
<1>1. UNCHANGED <<weatherVars, source, emsOutdoor, cycle>>
  BY DEF ScanEnds
<1>2. CASE EndScan
  <2>1. /\ scanning >= 0 /\ scanning' = -1 /\ finish' = "called"
        /\ faulty' = (faulty \/ ~heard)
        /\ UNCHANGED <<pending, rested, silent, heard>>
    BY <1>2 DEF EndScan
  <2>2. cycle # "start" /\ pending
    BY <2>1 DEF ScansInOrder
  <2>3. scanning <= ScanTime
    BY <2>1, Times DEF SensingTypeOK
  <2>4. faulty' \in BOOLEAN
    BY <2>1
  <2>5. SensingTypeOK'
    BY <1>1, <2>1, <2>4, Times DEF SensingTypeOK, weatherVars
  <2>6. ScansInOrder'
    BY <1>1, <2>1, <2>2 DEF ScansInOrder
  <2>7. SilenceBounded'
    <3> SUFFICES ASSUME ~faulty, heard
                 PROVE  SilenceInScan' /\ SilenceAfterScan' /\ SilenceAtStart'
                        /\ SilenceInPause'
      BY <2>1 DEF SilenceBounded
    <3>1. silent <= scanning
      BY <2>1, Times DEF SilenceBounded, SilenceInScan, SensingTypeOK
    <3>2. silent' <= ScanTime
      BY <2>1, <2>3, <3>1, Times DEF SensingTypeOK
    <3>3. QED
      BY <1>1, <2>1, <2>2, <3>2 DEF SilenceInScan, SilenceAfterScan, SilenceAtStart,
         SilenceInPause
  <2>8. QED
    BY <1>1, <2>5, <2>6, <2>7, FetchesAlone
<1>3. CASE ClearPending
  <2>1. /\ finish = "called" /\ finish' = "cleared" /\ pending' = FALSE
        /\ UNCHANGED <<scanning, rested, silent, heard, faulty>>
    BY <1>3 DEF ClearPending
  <2>2. cycle # "start" /\ ~(scanning >= 0)
    BY <2>1 DEF ScansInOrder
  <2>3. SensingTypeOK'
    BY <1>1, <2>1 DEF SensingTypeOK, weatherVars
  <2>4. ScansInOrder' /\ SilenceBounded'
    BY <1>1, <2>1, <2>2 DEF ScansInOrder, SilenceBounded, SilenceInScan,
       SilenceAfterScan, SilenceAtStart, SilenceInPause
  <2>5. QED
    BY <1>1, <2>3, <2>4, FetchesAlone
<1>4. CASE StoreEnd
  <2>1. /\ finish = "cleared" /\ finish' = "done" /\ rested' = 0
        /\ UNCHANGED <<pending, scanning, silent, heard, faulty>>
    BY <1>4 DEF StoreEnd
  <2>2. SensingTypeOK'
    BY <1>1, <2>1, Times DEF SensingTypeOK, weatherVars
  <2>3. ScansInOrder'
    BY <1>1, <2>1 DEF ScansInOrder
  <2>4. SilenceBounded'
    BY <1>1, <2>1, Times DEF SilenceBounded, SilenceInScan, SilenceAfterScan,
       SilenceAtStart, SilenceInPause, SensingTypeOK
  <2>5. QED
    BY <1>1, <2>2, <2>3, <2>4, FetchesAlone
<1>5. QED
  BY <1>2, <1>3, <1>4 DEF ScanEnds

LEMMA TickSInv ==
  ASSUME SInv, Tick
  PROVE  SInv'
<1> USE DEF SInv
<1>1. /\ cycle = "wait" /\ cycle' = "scan"
      /\ scanning < ScanTime /\ finish = "done"
      /\ scanning' = IF scanning < 0 THEN -1 ELSE scanning + 1
      /\ rested' = IF rested \in 0 .. ScanInterval - 1 THEN rested + 1 ELSE rested
      /\ silent' = IF silent < WatchdogFor THEN silent + 1 ELSE silent
      /\ UNCHANGED <<pending, finish, heard, faulty, source, emsOutdoor>>
  BY DEF Tick, ScanTick
<1>2. /\ now' \in {(now + c) % Clock : c \in Cycles}
      /\ UNCHANGED <<lastFetch, created, fetching, closing, inProgress, weather>>
  BY DEF Tick, WeatherTick
<1>3. now' \in 0 .. Clock - 1
  BY <1>2, Clocks DEF SensingTypeOK
<1>4. SensingTypeOK'
  <2>1. /\ scanning' \in -1 .. ScanTime /\ rested' \in -1 .. ScanInterval
        /\ silent' \in 0 .. WatchdogFor
    BY <1>1, Times DEF SensingTypeOK
  <2>2. QED
    BY <1>1, <1>2, <1>3, <2>1 DEF SensingTypeOK
<1>5. ScansInOrder'
  BY <1>1, Times DEF ScansInOrder, SensingTypeOK
<1>6. SilenceBounded'
  <2> SUFFICES ASSUME ~faulty
               PROVE  SilenceInScan' /\ SilenceAfterScan' /\ SilenceAtStart'
                      /\ SilenceInPause'
    BY <1>1 DEF SilenceBounded
  <2>1. SilenceInScan'
    BY <1>1, Times DEF SilenceBounded, SilenceInScan, SensingTypeOK, Before
  <2>2. SilenceAfterScan' /\ SilenceAtStart'
    BY <1>1 DEF SilenceAfterScan, SilenceAtStart
  <2>3. SilenceInPause'
    BY <1>1, Times DEF SilenceBounded, SilenceInPause, SensingTypeOK
  <2>4. QED
    BY <2>1, <2>2, <2>3
<1>7. OneFetchAtATime'
  BY <1>2 DEF OneFetchAtATime
<1>8. QED
  BY <1>4, <1>5, <1>6, <1>7

-----------------------------------------------------------------------------
(* The weather *)

LEMMA FetchSInv ==
  ASSUME SInv, FetchInCycle
  PROVE  SInv'
<1> USE DEF SInv
<1>1. /\ UNCHANGED <<scanVars, source, emsOutdoor>>
      /\ cycle = "weather" /\ cycle' = "wait"
  BY DEF FetchInCycle
<1>2. UNCHANGED <<pending, scanning, finish, rested, silent, heard, faulty>>
  BY <1>1 DEF scanVars
<1>3. ScansInOrder' /\ SilenceBounded'
  BY <1>1, <1>2 DEF ScansInOrder, SilenceBounded, SilenceInScan, SilenceAfterScan,
     SilenceAtStart, SilenceInPause
<1>4. CASE Fetch
  <2>1. /\ lastFetch' = now
        /\ created' \in {created, created + 1} \cap 0 .. MaxTasks
        /\ UNCHANGED <<now, fetching, closing, inProgress, weather>>
    BY <1>4 DEF Fetch
  <2>2. SensingTypeOK'
    BY <1>1, <1>2, <2>1 DEF SensingTypeOK
  <2>3. OneFetchAtATime'
    BY <2>1 DEF OneFetchAtATime
  <2>4. QED
    BY <1>3, <2>2, <2>3
<1>5. CASE Wait
  <2>1. UNCHANGED weatherVars
    BY <1>5 DEF Wait
  <2>2. SensingTypeOK'
    BY <1>1, <1>2, <2>1 DEF SensingTypeOK, weatherVars
  <2>3. QED
    BY <1>3, <2>1, <2>2, FetchesAlone
<1>6. QED
  BY <1>4, <1>5 DEF FetchInCycle

LEMMA BeginsSInv ==
  ASSUME SInv, FetchBegins
  PROVE  SInv'
<1> USE DEF SInv
<1>1. /\ created > 0 /\ created' = created - 1 /\ inProgress' = TRUE
      /\ fetching' = IF inProgress THEN fetching ELSE fetching + 1
      /\ UNCHANGED <<now, lastFetch, closing, weather>>
      /\ UNCHANGED <<scanVars, source, emsOutdoor, cycle>>
  BY DEF FetchBegins, BeginFetch
<1>2. SensingTypeOK'
  BY <1>1, Clocks DEF SensingTypeOK, scanVars
<1>3. OneFetchAtATime'
  BY <1>1 DEF OneFetchAtATime, SensingTypeOK
<1>4. QED
  BY <1>1, <1>2, <1>3, ScansAlone

LEMMA EndsSInv ==
  ASSUME SInv, FetchEnds
  PROVE  SInv'
<1> USE DEF SInv
<1>1. UNCHANGED <<scanVars, source, emsOutdoor, cycle>>
  BY DEF FetchEnds
<1>2. CASE Answer
  <2>1. /\ fetching > 0 /\ fetching' = fetching - 1 /\ closing' = closing + 1
        /\ weather' \in {weather} \cup Optional(Temps)
        /\ UNCHANGED <<now, lastFetch, created, inProgress>>
    BY <1>2 DEF Answer
  <2>2. SensingTypeOK'
    BY <1>1, <2>1 DEF SensingTypeOK, scanVars
  <2>3. OneFetchAtATime'
    BY <2>1 DEF OneFetchAtATime, SensingTypeOK
  <2>4. QED
    BY <1>1, <2>2, <2>3, ScansAlone
<1>3. CASE EndFetch
  <2>1. /\ closing > 0 /\ closing' = closing - 1 /\ inProgress' = FALSE
        /\ UNCHANGED <<now, lastFetch, created, fetching, weather>>
    BY <1>3 DEF EndFetch
  <2> inProgress' \in BOOLEAN
    BY <2>1, Zenon
  <2>2. SensingTypeOK'
    BY <1>1, <2>1 DEF SensingTypeOK, scanVars
  <2>3. OneFetchAtATime'
    BY <2>1 DEF OneFetchAtATime, SensingTypeOK
  <2>4. QED
    BY <1>1, <2>2, <2>3, ScansAlone
<1>4. QED
  BY <1>2, <1>3 DEF FetchEnds

LEMMA HearBoilerSInv ==
  ASSUME SInv, HearBoiler
  PROVE  SInv'
<1> USE DEF SInv
<1>1. /\ emsOutdoor' \in Optional(Temps)
      /\ UNCHANGED <<scanVars, weatherVars, source, cycle>>
  BY DEF HearBoiler
<1>2. SensingTypeOK'
  BY <1>1 DEF SensingTypeOK, scanVars, weatherVars
<1>3. QED
  BY <1>1, <1>2, ScansAlone, FetchesAlone

LEMMA RebootSInv ==
  ASSUME SInv, Reboot
  PROVE  SInv'
<1> USE DEF SInv
<1>1. /\ pending' = FALSE /\ scanning' = -1 /\ finish' = "done" /\ rested' = -1
      /\ silent' = 0 /\ heard' = FALSE /\ faulty' = FALSE
      /\ cycle' = "wait" /\ emsOutdoor' = {} /\ source' = source
      /\ now' = 0 /\ lastFetch' = 0 /\ created' = 0 /\ fetching' = 0
      /\ closing' = 0 /\ inProgress' = FALSE /\ weather' = {}
  BY DEF Reboot, ScanReboot, WeatherReboot
<1>2. SensingTypeOK'
  <2>1. /\ inProgress' \in BOOLEAN /\ pending' \in BOOLEAN
        /\ heard' \in BOOLEAN /\ faulty' \in BOOLEAN
    BY <1>1, Zenon
  <2>2. weather' \in Optional(Temps) /\ emsOutdoor' \in Optional(Temps)
    BY <1>1 DEF Optional
  <2>3. source' \in Sources /\ cycle' = "wait" /\ finish' = "done"
    BY <1>1 DEF SensingTypeOK
  <2>4. /\ now' \in 0 .. Clock - 1 /\ lastFetch' \in 0 .. Clock - 1
        /\ created' \in 0 .. MaxTasks /\ fetching' \in Nat /\ closing' \in Nat
        /\ scanning' \in -1 .. ScanTime /\ rested' \in -1 .. ScanInterval
        /\ silent' \in 0 .. WatchdogFor
    BY <1>1, Times, Clocks
  <2>5. QED
    BY <2>1, <2>2, <2>3, <2>4 DEF SensingTypeOK
<1>3. ScansInOrder' /\ SilenceBounded'
  BY <1>1, Times DEF ScansInOrder, SilenceBounded, SilenceInScan, SilenceAfterScan,
     SilenceAtStart, SilenceInPause
<1>4. OneFetchAtATime'
  BY <1>1 DEF OneFetchAtATime
<1>5. QED
  BY <1>2, <1>3, <1>4

LEMMA NextSInv ==
  ASSUME SInv, [SensingNext]_sensingVars
  PROVE  SInv'
<1>1. CASE TriggerScanInCycle
  BY <1>1, TriggerSInv
<1>2. CASE StartScanInCycle
  BY <1>2, StartSInv
<1>3. CASE FetchInCycle
  BY <1>3, FetchSInv
<1>4. CASE HearBoiler
  BY <1>4, HearBoilerSInv
<1>5. CASE RestartForSilence \/ PowerCut
  BY <1>5, RebootSInv DEF RestartForSilence, PowerCut
<1>6. CASE HearSensor
  BY <1>6, HearSInv
<1>7. CASE ScanEnds
  BY <1>7, ScanEndsSInv
<1>8. CASE FetchBegins
  BY <1>8, BeginsSInv
<1>9. CASE FetchEnds
  BY <1>9, EndsSInv
<1>10. CASE Tick
  BY <1>10, TickSInv
<1>11. CASE UNCHANGED sensingVars
  <2>1. UNCHANGED <<scanVars, weatherVars, source, emsOutdoor, cycle>>
    BY <1>11 DEF sensingVars
  <2>2. SensingTypeOK'
    BY <2>1 DEF SInv, SensingTypeOK, scanVars, weatherVars
  <2>3. QED
    BY <2>1, <2>2, ScansAlone, FetchesAlone DEF SInv
<1>12. QED
  BY <1>1, <1>2, <1>3, <1>4, <1>5, <1>6, <1>7, <1>8, <1>9, <1>10, <1>11
  DEF SensingNext

-----------------------------------------------------------------------------
(* The theorems *)

\* The inductive invariant of the scans and the fetches.
THEOREM SensingInvariant == SensingSpec => []SInv
<1>1. SensingInit => SInv
  BY InitSInv
<1>2. SInv /\ [SensingNext]_sensingVars => SInv'
  BY NextSInv
<1>3. QED
  BY <1>1, <1>2, PTL DEF SensingSpec

\* Every field keeps its type; the counts of tasks stay in their bounds.
THEOREM SensingTypeCorrect == SensingSpec => []SensingTypeOK
<1>1. SInv => SensingTypeOK
  BY DEF SInv
<1>2. QED
  BY <1>1, SensingInvariant, PTL

\* OpenWeather::getData: for any number of tasks, one uses the client.
THEOREM OneClientUser == SensingSpec => []OneFetchAtATime
<1>1. SInv => OneFetchAtATime
  BY DEF SInv
<1>2. QED
  BY <1>1, SensingInvariant, PTL

\* resetIfNoDataForLongTime: the watchdog does not fire while every scan brings a
\* temperature, for any times with WatchdogFor > 2 * ScanTime + ScanInterval.
THEOREM WatchdogStaysQuiet == SensingSpec => []NoRestartWhileHeard
<1>1. SInv => NoRestartWhileHeard
  <2> SUFFICES ASSUME SInv, ~faulty PROVE silent # WatchdogFor
    BY DEF NoRestartWhileHeard, WatchdogDue
  <2> USE DEF SInv, SilenceBounded
  <2>1. CASE scanning >= 0
    BY <2>1, Times DEF SilenceInScan, SensingTypeOK, Before
  <2>2. CASE scanning = -1 /\ finish # "done"
    BY <2>2, Times DEF SilenceAfterScan, SensingTypeOK
  <2>3. CASE cycle = "start"
    BY <2>3, Times DEF SilenceAtStart, SensingTypeOK, Before
  <2>4. CASE scanning = -1 /\ finish = "done" /\ cycle # "start"
    <3>1. ~pending
      BY <2>4 DEF ScansInOrder
    <3>2. QED
      BY <2>4, <3>1, Times DEF SilenceInPause, SensingTypeOK
  <2>5. QED
    BY <2>1, <2>2, <2>3, <2>4, Times DEF SensingTypeOK
<1>2. QED
  BY <1>1, SensingInvariant, PTL

\* triggerScan: never a scan during another or before its callback.
THEOREM ScansApart == SensingSpec => ScansDoNotOverlap
<1>1. SInv /\ [SensingNext]_sensingVars
      => [StartScanInCycle => scanning = -1 /\ finish # "called"]_sensingVars
  BY DEF SInv, ScansInOrder, StartScanInCycle
<1>2. QED
  BY <1>1, SensingInvariant, PTL DEF SensingSpec, ScansDoNotOverlap

-----------------------------------------------------------------------------
(* The heating curve *)

\* Temperatures of a curve, and where a reading can lie between two of them.
Degrees == 0 .. 255
Gap == 0 .. 500

\* Five times a point of the line from a to b, and that it lies between them.
Point(a, b, d) == 500 * a + (b - a) * d

Between(a, b, p) ==
  /\ p \in Nat
  /\ p >= 500 * a \/ p >= 500 * b
  /\ p <= 500 * a \/ p <= 500 * b

LEMMA OnTheLine ==
  ASSUME NEW a \in Degrees, NEW b \in Degrees, NEW d \in Gap
  PROVE  Between(a, b, Point(a, b, d))
<1> USE DEF Degrees, Gap, Point, Between
<1>1. ASSUME NEW x \in Nat, NEW y \in 0 .. 500
      PROVE  x * y \in Nat /\ x * y <= 500 * x
  <2>1. x * y \in Nat /\ x * (500 - y) \in Nat
    OBVIOUS
  <2>2. x * (500 - y) = 500 * x - x * y
    OBVIOUS
  <2>3. QED
    BY <2>1, <2>2
<1>2. CASE a <= b
  <2>1. (b - a) * d \in Nat /\ (b - a) * d <= 500 * (b - a)
    BY <1>1, <1>2
  <2>2. QED
    BY <2>1
<1>3. CASE b <= a
  <2>1. (a - b) * d \in Nat /\ (a - b) * d <= 500 * (a - b)
    BY <1>1, <1>3
  <2>2. (b - a) * d = 0 - (a - b) * d
    OBVIOUS
  <2>3. QED
    BY <2>1, <2>2
<1>4. QED
  BY <1>2, <1>3

\* The axis descends in steps of five degrees.
Axis(i) == hcOutdoorAxis[i] * 100

LEMMA AxisDescends ==
  /\ \A i \in 1 .. 9 : Axis(i) = 2500 - 500 * i
  /\ \A i, j \in 1 .. 9 : i < j => Axis(j) < Axis(i)
<1>1. \A i \in 1 .. 9 : Axis(i) = 2500 - 500 * i
  <2>1. \A i \in 1 .. 9 : i = 1 \/ i = 2 \/ i = 3 \/ i = 4 \/ i = 5 \/ i = 6
                          \/ i = 7 \/ i = 8 \/ i = 9
    OBVIOUS
  <2>2. QED
    BY <2>1 DEF Axis, hcOutdoorAxis
<1>2. QED
  BY <1>1

\* Where a reading lies on the axis.
LEMMA WhereReached ==
  ASSUME NEW t \in Int
  PROVE  \/ t < Axis(9) /\ Reached(t) = {}
         \/ Axis(1) <= t /\ Reached(t) = {1}
         \/ \E i \in 2 .. 9 :
              Axis(i) <= t /\ t < Axis(i - 1) /\ Reached(t) = {i}
<1> DEFINE R == {i \in 1 .. 9 : /\ Axis(i) <= t
                                /\ \A j \in 1 .. i - 1 : Axis(j) > t}
<1>1. Reached(t) = R
  BY DEF Reached, Axis
<1>2. ASSUME NEW i \in 1 .. 9, Axis(i) <= t, i = 1 \/ t < Axis(i - 1)
      PROVE  R = {i}
  <2>1. \A j \in 1 .. i - 1 : Axis(j) > t
    BY <1>2, AxisDescends
  <2>2. \A j \in 1 .. 9 : j > i => i \in 1 .. j - 1
    OBVIOUS
  <2>3. \A j \in 1 .. 9 : j < i => j \in 1 .. i - 1
    OBVIOUS
  <2>4. QED
    BY <1>2, <2>1, <2>2, <2>3, AxisDescends
<1>3. ASSUME t < Axis(9)
      PROVE  R = {}
  BY <1>3, AxisDescends
<1> HIDE DEF R
<1>4. CASE t < Axis(9)
  BY <1>1, <1>3, <1>4
<1>5. CASE Axis(1) <= t
  BY <1>1, <1>2, <1>5
<1>6. CASE Axis(9) <= t /\ t < Axis(1)
  <2>1. \E i \in 2 .. 9 : Axis(i) <= t /\ t < Axis(i - 1)
    BY <1>6, AxisDescends
  <2>2. PICK i \in 2 .. 9 : Axis(i) <= t /\ t < Axis(i - 1)
    BY <2>1
  <2>3. R = {i}
    BY <1>2, <2>2
  <2>4. QED
    BY <1>1, <2>2, <2>3
<1>7. QED
  BY <1>4, <1>5, <1>6, AxisDescends

LEMMA BetweenItsPoints ==
  ASSUME NEW t \in Int
  PROVE  BetweenPoints(t)
<1> SUFFICES ASSUME NEW result \in calcHeatingTemperature(t, Curve)
             PROVE  /\ \E n \in Neighbours(t) : result >= n - 1
                    /\ \E n \in Neighbours(t) : result <= n
  BY DEF BetweenPoints
<1>1. \A i \in 1 .. 9 : Curve[i] \in 0 .. 255
  BY SensingAssumption
<1>2. ASSUME NEW i \in 1 .. 9,
             \/ Axis(i) >= t /\ \A j \in i + 1 .. 9 : Axis(j) < t
             \/ Axis(i) <= t /\ \A j \in 1 .. i - 1 : Axis(j) > t
      PROVE  Curve[i] * 100 \in Neighbours(t)
  BY <1>2 DEF Neighbours, Axis
<1>3. CASE t < Axis(9) /\ Reached(t) = {}
  <2>1. result = Curve[9] * 100
    BY <1>3 DEF calcHeatingTemperature
  <2>2. Curve[9] * 100 \in Neighbours(t)
    BY <1>2, <1>3, AxisDescends
  <2>3. QED
    BY <1>1, <2>1, <2>2
<1>4. CASE Axis(1) <= t /\ Reached(t) = {1}
  <2>1. result = Curve[1] * 100
    BY <1>4 DEF calcHeatingTemperature
  <2>2. Curve[1] * 100 \in Neighbours(t)
    BY <1>2, <1>4, AxisDescends
  <2>3. QED
    BY <1>1, <2>1, <2>2
<1>5. ASSUME NEW i \in 2 .. 9, Axis(i) <= t, t < Axis(i - 1), Reached(t) = {i}
      PROVE  /\ \E n \in Neighbours(t) : result >= n - 1
             /\ \E n \in Neighbours(t) : result <= n
  <2> DEFINE a == Curve[i - 1]
             b == Curve[i]
             d == Axis(i - 1) - t
             exact == Point(a, b, d)
  <2>1. a \in Degrees /\ b \in Degrees
    BY <1>1 DEF Degrees
  <2>2. d \in Gap /\ (d < 500 => Axis(i) < t) /\ (d = 500 => Axis(i) = t)
    BY <1>5, AxisDescends DEF Gap
  <2>3. \/ result = exact \div 5
        \/ exact > 0 /\ exact % 5 = 0 /\ result = exact \div 5 - 1
    <3>1. (CHOOSE k \in {i} : TRUE) = i
      OBVIOUS
    <3>2. Line(t, Curve, i) = exact
      BY DEF Line, Axis, Point
    <3> HIDE DEF exact
    <3>3. calcHeatingTemperature(t, Curve) =
            {exact \div 5} \cup
            (IF exact > 0 /\ exact % 5 = 0 THEN {exact \div 5 - 1} ELSE {})
      <4>1. {i} # {} /\ {i} # {1}
        OBVIOUS
      <4>2. QED
        BY <1>5, <3>1, <3>2, <4>1 DEF calcHeatingTemperature
    <3>4. QED
      BY <3>3
  <2>4. b * 100 \in Neighbours(t)
    BY <1>2, <1>5, AxisDescends
  <2>5. d < 500 => a * 100 \in Neighbours(t)
    <3> SUFFICES ASSUME d < 500 PROVE a * 100 \in Neighbours(t)
      OBVIOUS
    <3>1. i - 1 \in 1 .. 9
      OBVIOUS
    <3>2. \A j \in i .. 9 : Axis(j) < t
      BY <2>2, AxisDescends
    <3>3. QED
      BY <1>2, <1>5, <3>1, <3>2, AxisDescends
  <2> HIDE DEF a, b, d
  <2>6. d = 500 => exact = 500 * b
    <3>1. (b - a) * 500 = 500 * b - 500 * a
      BY <2>1 DEF Degrees
    <3>2. QED
      BY <2>1, <3>1 DEF Point, Degrees
  <2>7. Between(a, b, exact)
    BY <2>1, <2>2, OnTheLine, Zenon
  <2> HIDE DEF exact
  <2>8. /\ result \in Int
        /\ result >= a * 100 - 1 \/ result >= b * 100 - 1
        /\ result <= a * 100 \/ result <= b * 100
    BY <2>1, <2>3, <2>7 DEF Degrees, Between
  <2>9. CASE d = 500
    <3>1. result >= b * 100 - 1 /\ result <= b * 100
      BY <2>1, <2>3, <2>6, <2>9 DEF Degrees
    <3>2. QED
      BY <2>4, <3>1
  <2>10. CASE d < 500
    BY <2>4, <2>5, <2>8, <2>10
  <2>11. QED
    BY <2>2, <2>9, <2>10 DEF Gap
<1>6. QED
  BY <1>3, <1>4, <1>5, WhereReached

\* calcHeatingTemperature: for any curve and any readings, and for the outdoor
\* temperature in use whatever its source, the supply lies between its points.
THEOREM CurveIsFollowed == SensingSpec => []CurveStaysBetweenPoints
<1>1. SensingTypeOK => CurveStaysBetweenPoints
  <2> SUFFICES ASSUME SensingTypeOK PROVE CurveStaysBetweenPoints
    OBVIOUS
  <2>1. Temps \subseteq Int /\ Readings \subseteq Int
    BY WeatherAssumption, SensingAssumption
  <2>2. Available \in Optional(Temps)
    <3>1. source \in {"openweather", "ems", "no"}
      BY SensingAssumption DEF SensingTypeOK
    <3>2. {} \in Optional(Temps)
      BY DEF Optional
    <3>3. QED
      BY <3>1, <3>2 DEF SensingTypeOK, Available, Configured
  <2>3. Outdoor \in Int
    BY <2>1, <2>2 DEF Optional, Outdoor
  <2>4. QED
    BY <2>1, <2>3, BetweenItsPoints DEF CurveStaysBetweenPoints, BetweenPointsAlways
<1>2. QED
  BY <1>1, SensingTypeCorrect, PTL
=============================================================================
