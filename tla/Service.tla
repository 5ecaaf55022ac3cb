------------------------------- MODULE Service -------------------------------
(***************************************************************************)
(* The device as its owner has it: the requests of Rest, which reach it only  *)
(* over the WiFi of Access, and the settings for that WiFi, which are in the   *)
(* same file system and can be saved, cut short or written over like the      *)
(* programs.  Every behaviour is one of Rest.                                 *)
(***************************************************************************)
EXTENDS Rest, Access

serviceVars == <<restVars, accessVars>>

-----------------------------------------------------------------------------
(* Requests *)

\* loop() comes round to the requests, and one that is due finds it.
Handled == Reachable /\ ~CycleDue

Request ==
  /\ Handled
  /\ \/ \E name \in Name :
          \/ SelectProgram(name)
          \/ \E body \in Body \cup {"broken"} : SaveProgram(name, body)
          \/ DeleteProgram(name)
     \/ \E partition \in Partition : RefuseUpload(partition)
     \/ StartFirmware
     \/ StartFilesystem
  /\ UNCHANGED accessVars

Upload ==
  /\ Reachable
  /\ ReceivePart \/ FinishFirmware \/ FinishFilesystem
  /\ UNCHANGED accessVars

\* It was received whole, or no more of it comes for some seconds.
UploadEnds == EndUpload /\ UNCHANGED accessVars

SettingsUnchangedBut(file) ==
  /\ UNCHANGED restVars
  /\ UNCHANGED <<network, port, link, sinceCycle, present>>
  /\ UNCHANGED file

\* configWiFi, POST: neither what is sent nor the write is checked.
SaveWiFi ==
  /\ Handled /\ Serving
  /\ wifi' \in WiFiFile
  /\ SettingsUnchangedBut(device)

\* configDevice, POST
SaveDevice ==
  /\ Handled /\ Serving
  /\ device' \in DeviceFile
  /\ SettingsUnchangedBut(wifi)

-----------------------------------------------------------------------------
(* Restarts *)

\* What an image brings with it; of one written in part some files, or none.
MountSettings(on, w, d) ==
  CASE data = "files"   -> w = wifi /\ d = device
    [] data = "image"   -> w = "none" /\ d = "good"
    [] data = "partial" -> w = "none" /\ d \in (IF on THEN DeviceFile ELSE {"broken"})

ServiceReboot ==
  /\ Reboot
  /\ MountSettings(mounted', wifi', device')
  /\ SetUp(wifi', device')

\* The power fails between opening a file of settings and closing it.
CutWhileSavingSettings ==
  /\ Handled /\ Serving
  /\ data = "files"
  /\ Reboot
  /\ \/ wifi' = "none" /\ device' = device
     \/ device' = "broken" /\ wifi' = wifi
  /\ SetUp(wifi', device')

ServiceCut ==
  /\ Handled
  /\ \E name \in Name : CutWhileSaving(name)
  /\ UNCHANGED settings
  /\ SetUp(wifi, device)

-----------------------------------------------------------------------------
EventTask ==
  /\ AccessPointStarts \/ WiFiGotIP
  /\ UNCHANGED restVars

LoopAndTime ==
  /\ \/ ~sending /\ Cycle
     \/ PassTime(sending)
     \/ Join
  /\ UNCHANGED restVars

Network == NetworkChanges /\ UNCHANGED restVars

ServiceInit == Init /\ AccessInit

ServiceNext ==
  \/ Request
  \/ Upload
  \/ UploadEnds
  \/ SaveWiFi
  \/ SaveDevice
  \/ ServiceReboot
  \/ CutWhileSavingSettings
  \/ ServiceCut
  \/ EventTask
  \/ LoopAndTime
  \/ Network

\* Time passes and the loop runs, as does the task of the events, and a request
\* that nobody continues is given up.
ServiceFairness ==
  /\ WF_serviceVars(LoopAndTime)
  /\ WF_serviceVars(EventTask)
  /\ WF_serviceVars(UploadEnds)

ServiceSpec == ServiceInit /\ [][ServiceNext]_serviceVars /\ ServiceFairness

-----------------------------------------------------------------------------
(* Properties *)

Restarts == serviceVars' # serviceVars /\ SetUp(wifi', device')

\* Device settings that do not parse, beside WiFi settings that do: there is no
\* access point, and no port.
OutOfReach == ~startAP /\ ~port

\* Between two restarts the owner can reach the device in the end, whatever was
\* saved, cut short or updated before, however often the network went away and
\* however many uploads hung: over the network it was told once that stays, or
\* over the access point when it knows none.
StaysReachable ==
  <>[]present /\ <>[][~Restarts]_serviceVars => <>[](Reachable \/ OutOfReach)
=============================================================================
