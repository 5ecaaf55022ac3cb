-------------------------------- MODULE Rest --------------------------------
(***************************************************************************)
(* The REST requests that change what is stored in flash (src/src/REST.h):  *)
(* programs, the choice of one, and updates of the firmware and of the file *)
(* system; and what a restart or a reload makes of it (src/src/config.cpp). *)
(*                                                                         *)
(* All requests are served by the loop task, one at a time.  An upload is   *)
(* one request of many steps, and no other is served before it ends; but    *)
(* the power may be cut anywhere.                                           *)
(***************************************************************************)
CONSTANTS
  Name,      \* names of programs
  Default,   \* the program to fall back on
  Body,      \* contents of a program file that hold rooms
  ImageBody  \* the default program of a file system image

ASSUME RestAssumption ==
  /\ Default \in Name /\ "" \notin Name
  /\ ImageBody \in Body
  /\ {"absent", "broken", "none"} \cap Body = {}

\* "broken": cut short, or nothing that parses as a list of rooms.
File == Body \cup {"absent", "broken"}

Partition == {"app", "fs"}

VARIABLES
  files,     \* the files under /programs, as far as they can be opened
  selected,  \* the program /cfg/cfgprogram.json names, "": none
  data,      \* what the file system's partition holds
  mounted,   \* SPIFFS is mounted
  current,   \* currentProgram_ of HeatingController
  rooms,     \* contents that rooms_ was built from
  ota,       \* ota_
  sending,   \* an upload is being received
  lost,      \* history: some part of that upload was not written
  spare,     \* what the app partition holds that is not running
  bootSpare, \* that partition is the one to boot
  damaged    \* history: an event has befallen the stored programs that may
             \* cost the default program

store      == <<files, selected>>
controller == <<current, rooms>>
update     == <<ota, sending, lost, spare, bootSpare>>
restVars   == <<store, data, mounted, controller, update, damaged>>

NoFiles == [name \in Name |-> "absent"]

NoUpload == [partition |-> "none", started |-> FALSE, failed |-> FALSE,
             success |-> FALSE]

-----------------------------------------------------------------------------
(* Programs *)

MutLoads(programs, name) ==
  IF name \in Name /\ programs[name] \in Body THEN programs[name] ELSE "none"

\* getRoomsConfig: a program that does not exist is replaced by the default
\* one; one that does not parse gives no rooms.
Loads(programs, name) ==
  LET exists  == name \in Name /\ programs[name] # "absent"
      content == programs[IF exists THEN name ELSE Default]
  IN  IF content \in Body THEN content ELSE "none"

\* reloadConfiguration, and the same on construction.
LoadFrom(programs, name) ==
  /\ current' = name
  /\ rooms' = Loads(programs, name)

\* Requests find the files only in a mounted file system.
Serving == ~sending /\ mounted

\* POST of the current program.  The write is not checked and may be short.
SelectProgram(name) ==
  /\ Serving
  /\ files[name] # "absent"
  /\ selected' \in {name, ""}
  /\ LoadFrom(files, selected')
  /\ UNCHANGED <<files, data, mounted, update, damaged>>

MutSaveProgram(name, body) ==
  /\ Serving
  /\ \E written \in {body, "broken"} :
       files' = [files EXCEPT ![name] = written]
  /\ damaged' = (damaged \/ files'[name] = "broken")
  /\ IF current = name THEN LoadFrom(files, name) ELSE UNCHANGED controller
  /\ UNCHANGED <<selected, data, mounted, update>>

\* POST of a program: neither what is sent nor the write is checked.
SaveProgram(name, body) ==
  /\ Serving
  /\ \E written \in {body, "broken"} :
       files' = [files EXCEPT ![name] = written]
  /\ damaged' = (damaged \/ files'[name] = "broken")
  /\ IF selected = name THEN LoadFrom(files', selected)
                        ELSE UNCHANGED controller
  /\ UNCHANGED <<selected, data, mounted, update>>

DeleteProgram(name) ==
  /\ Serving
  /\ files[name] # "absent"
  /\ files' = [files EXCEPT ![name] = "absent"]
  /\ damaged' = (damaged \/ name = Default)
  /\ UNCHANGED <<selected, data, mounted, controller, update>>

-----------------------------------------------------------------------------
(* handleOTAUpdate and handleOTAFFSUpdate *)

\* The partition is missing, the image too large, or esp_ota_begin fails.
RefuseUpload(partition) ==
  /\ ~sending
  /\ sending' = TRUE /\ lost' = FALSE
  /\ ota' = [NoUpload EXCEPT !.partition = partition, !.failed = TRUE]
  /\ spare' \in IF partition = "app" THEN {spare, "partial"} ELSE {spare}
  /\ UNCHANGED <<store, data, mounted, controller, bootSpare, damaged>>

\* esp_ota_begin erases the app partition.
StartFirmware ==
  /\ ~sending
  /\ sending' = TRUE /\ lost' = FALSE
  /\ ota' = [NoUpload EXCEPT !.partition = "app", !.started = TRUE]
  /\ spare' = "partial"
  /\ UNCHANGED <<store, data, mounted, controller, bootSpare, damaged>>

\* SPIFFS.end() comes before the partition is erased, which may fail.
StartFilesystem ==
  /\ ~sending
  /\ sending' = TRUE /\ lost' = FALSE
  /\ mounted' = FALSE
  /\ files' = NoFiles /\ selected' = ""
  /\ data' = "partial" /\ damaged' = TRUE
  /\ \E failed \in BOOLEAN :
       ota' = [NoUpload EXCEPT !.partition = "fs", !.started = ~failed,
                               !.failed = failed]
  /\ UNCHANGED <<controller, spare, bootSpare>>

Receiving == ota.started /\ ~ota.failed

\* One buffer of the image; after a failure the rest is skipped.
ReceivePart ==
  /\ sending
  /\ \E failed \in IF Receiving THEN BOOLEAN ELSE {ota.failed} :
       /\ ota' = [ota EXCEPT !.failed = failed]
       /\ lost' = (lost \/ failed \/ ~Receiving)
  /\ UNCHANGED <<store, data, mounted, controller, sending, spare, bootSpare,
                 damaged>>

\* esp_ota_end checks the image; then the partition is set to boot.
FinishFirmware ==
  /\ sending /\ ota.partition = "app" /\ Receiving
  /\ sending' = FALSE /\ lost' = FALSE
  /\ \/ /\ ota' = [ota EXCEPT !.failed = TRUE]
        /\ spare' \in {"partial"} \cup (IF lost THEN {} ELSE {"whole"})
        /\ UNCHANGED bootSpare
     \/ /\ ~lost
        /\ ota' = [ota EXCEPT !.success = TRUE]
        /\ spare' = "whole"
        /\ bootSpare' = TRUE
  /\ UNCHANGED <<store, data, mounted, controller, damaged>>

MutFinishFilesystem ==
  /\ sending /\ ota.partition = "fs" /\ ota.started
  /\ sending' = FALSE /\ lost' = FALSE
  /\ ota' = [ota EXCEPT !.success = TRUE]
  /\ data' = IF lost THEN "partial" ELSE "image"
  /\ UNCHANGED <<store, mounted, controller, spare, bootSpare, damaged>>

\* Nothing checks the image of a file system.
FinishFilesystem ==
  /\ sending /\ ota.partition = "fs" /\ Receiving
  /\ sending' = FALSE /\ lost' = FALSE
  /\ ota' = [ota EXCEPT !.success = TRUE]
  /\ data' = IF lost THEN "partial" ELSE "image"
  /\ UNCHANGED <<store, mounted, controller, spare, bootSpare, damaged>>

\* UPLOAD_FILE_END after a failure, or UPLOAD_FILE_ABORTED.
EndUpload ==
  /\ sending
  /\ sending' = FALSE /\ lost' = FALSE
  /\ UNCHANGED <<store, data, mounted, controller, ota, spare, bootSpare,
                 damaged>>

-----------------------------------------------------------------------------
(* Restarts *)

\* What SPIFFS.begin finds: a partition written in part may not mount at all,
\* or with some of its files.
Mounts ==
  CASE data = "files" ->
         {[on |-> TRUE, programs |-> files, name |-> selected]}
    [] data = "image" ->
         {[on |-> TRUE, name |-> Default,
           programs |-> [n \in Name |-> IF n = Default THEN ImageBody
                                                       ELSE "absent"]]}
    [] data = "partial" ->
         [on : {TRUE}, name : {"", Default},
          programs : [Name -> {"absent", "broken", ImageBody}]]
         \cup {[on |-> FALSE, name |-> "",
                programs |-> NoFiles]}

\* configReboot, ESP.restart() or a power cut; then setup().
Reboot ==
  \E found \in Mounts :
    /\ mounted' = found.on
    /\ files' = found.programs /\ selected' = found.name
    /\ data' = IF found.on THEN "files" ELSE data
    /\ damaged' = (data # "image" /\ damaged)
    /\ LoadFrom(found.programs, found.name)
    /\ ota' = NoUpload /\ sending' = FALSE /\ lost' = FALSE
    /\ bootSpare' = FALSE /\ UNCHANGED spare

\* The power fails between opening a program file for writing, which empties
\* it, and closing it.
CutWhileSaving(name) ==
  /\ Serving
  /\ files' = [files EXCEPT ![name] = "broken"]
  /\ damaged' = TRUE
  /\ LoadFrom(files', selected)
  /\ ota' = NoUpload /\ lost' = FALSE
  /\ bootSpare' = FALSE
  /\ UNCHANGED <<selected, data, mounted, sending, spare>>

-----------------------------------------------------------------------------
Init ==
  /\ files \in [Name -> Body \cup {"absent"}] /\ files[Default] \in Body
  /\ selected \in Name \cup {""}
  /\ data = "files" /\ mounted = TRUE
  /\ current = selected /\ rooms = Loads(files, selected)
  /\ ota = NoUpload /\ sending = FALSE /\ lost = FALSE
  /\ spare = "whole" /\ bootSpare = FALSE
  /\ damaged = FALSE

Next ==
  \/ \E name \in Name :
       \/ SelectProgram(name)
       \/ \E body \in Body \cup {"broken"} : SaveProgram(name, body)
       \/ DeleteProgram(name)
       \/ CutWhileSaving(name)
  \/ \E partition \in Partition : RefuseUpload(partition)
  \/ StartFirmware
  \/ StartFilesystem
  \/ ReceivePart
  \/ FinishFirmware
  \/ FinishFilesystem
  \/ EndUpload
  \/ Reboot

Spec == Init /\ [][Next]_restVars

-----------------------------------------------------------------------------
(* Properties *)

\* Every field keeps its type.
TypeOK ==
  /\ files \in [Name -> File]
  /\ selected \in Name \cup {""} /\ current \in Name \cup {""}
  /\ data \in {"files", "partial", "image"}
  /\ rooms \in Body \cup {"none"}
  /\ ota \in [partition : Partition \cup {"none"}, started : BOOLEAN,
              failed : BOOLEAN, success : BOOLEAN]
  /\ spare \in {"whole", "partial"}
  /\ mounted \in BOOLEAN /\ sending \in BOOLEAN /\ lost \in BOOLEAN
  /\ bootSpare \in BOOLEAN /\ damaged \in BOOLEAN

\* The controller runs the program that is selected, and as long as its file
\* exists it runs what the file holds, after any sequence of requests,
\* failed writes, updates and restarts.
RunsWhatIsStored ==
  mounted =>
    /\ current = selected
    /\ selected \in Name /\ files[selected] # "absent"
       => rooms = Loads(files, selected)

\* The programs are never left without rooms, whichever of them are deleted or
\* selected, unless a program was damaged, the default one deleted or the file
\* system written over.
RoomsRemain == ~damaged => rooms # "none"

\* An update reported as successful is complete, whichever parts of it or of an
\* earlier one could not be written: the partition to boot holds a whole
\* firmware, or the file system a whole image.
SuccessMeansWhole ==
  ota.success => IF ota.partition = "app" THEN bootSpare /\ spare = "whole"
                                          ELSE data = "image"
=============================================================================
