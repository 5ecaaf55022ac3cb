------------------------------ MODULE BleScan ------------------------------
(***************************************************************************)
(* The scanning of BeaconTemperatureReader                                  *)
(* (src/src/BeaconTemperatureReader.h): triggerScan on the loop task,       *)
(* scanFinished and the advertisements on the NimBLE host task.             *)
(* Sensing.tla composes it with the rest of operate().                      *)
(***************************************************************************)
EXTENDS Integers

CONSTANTS
  ScanTime,      \* config_.scanTime, in ticks
  ScanInterval,  \* config_.scanInterval, in ticks
  WatchdogFor    \* period of lastReadTemperatureCounter_, in ticks

\* From an advertisement at the start of a scan to one at the end of the next
\* there are two scans and the pause.
ASSUME ScanAssumption ==
  /\ ScanTime \in Nat \ {0} /\ ScanInterval \in Nat \ {0}
  /\ WatchdogFor \in Nat \ {0}
  /\ WatchdogFor > 2 * ScanTime + ScanInterval

VARIABLES
  pending,   \* bluetoothScanPending_
  scanning,  \* for how long NimBLE has been scanning, -1: it is not
  finish,    \* how far scanFinished has got
  rested,    \* now - lastScanFinishedMillis_ up to the interval, -1: never
  silent,    \* now - last lastReadTemperatureCounter_.notifyNow()
  heard,     \* history: the last scan brought a temperature
  faulty     \* history: since start-up a scan did not start, or brought none

scanVars == <<pending, scanning, finish, rested, silent, heard, faulty>>

MutMayScan == rested \in {-1, ScanInterval}

MayScan == ~pending /\ rested \in {-1, ScanInterval}

\* triggerScan before NimBLE is asked to start.
TriggerScan ==
  /\ MayScan
  /\ pending' = TRUE
  /\ UNCHANGED <<scanning, finish, rested, silent, heard, faulty>>

StartScan ==
  /\ scanning' = 0
  /\ heard' = FALSE
  /\ UNCHANGED <<pending, finish, rested, silent, faulty>>

\* That the scan did not start is only logged.
FailToStart ==
  /\ faulty' = TRUE
  /\ UNCHANGED <<pending, scanning, finish, rested, silent, heard>>

\* An advertisement with the temperature of a room.
Hear ==
  /\ scanning >= 0
  /\ heard' = TRUE
  /\ silent' = 0
  /\ UNCHANGED <<pending, scanning, finish, rested, faulty>>

EndScan ==
  /\ scanning >= 0
  /\ scanning' = -1
  /\ finish' = "called"
  /\ faulty' = (faulty \/ ~heard)
  /\ UNCHANGED <<pending, rested, silent, heard>>

MutClearPending ==
  /\ finish = "called"
  /\ finish' = "cleared"
  /\ UNCHANGED <<pending, scanning, rested, silent, heard, faulty>>

\* scanFinished is two stores, which triggerScan may fall between.
ClearPending ==
  /\ finish = "called"
  /\ finish' = "cleared"
  /\ pending' = FALSE
  /\ UNCHANGED <<scanning, rested, silent, heard, faulty>>

StoreEnd ==
  /\ finish = "cleared"
  /\ finish' = "done"
  /\ rested' = 0
  /\ UNCHANGED <<pending, scanning, silent, heard, faulty>>

\* A scan lasts no longer than it was asked to.
ScanTick ==
  /\ scanning < ScanTime /\ finish = "done"
  /\ scanning' = IF scanning < 0 THEN -1 ELSE scanning + 1
  /\ rested' = IF rested \in 0 .. ScanInterval - 1 THEN rested + 1 ELSE rested
  /\ silent' = IF silent < WatchdogFor THEN silent + 1 ELSE silent
  /\ UNCHANGED <<pending, finish, heard, faulty>>

ScanInit ==
  /\ pending = FALSE /\ scanning = -1
  /\ finish = "done" /\ rested = -1
  /\ silent = 0
  /\ heard = FALSE /\ faulty = FALSE

ScanReboot ==
  /\ pending' = FALSE /\ scanning' = -1
  /\ finish' = "done" /\ rested' = -1
  /\ silent' = 0
  /\ heard' = FALSE /\ faulty' = FALSE
=============================================================================
