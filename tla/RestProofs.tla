------------------------------ MODULE RestProofs ------------------------------
(***************************************************************************)
(* Proofs about Rest.tla, for any programs and contents, and about           *)
(* Service.tla, whose behaviours are behaviours of Rest.                     *)
(*                                                                         *)
(* What the properties say of the controller, the programs and a finished     *)
(* upload rests on how the partition, the mount and the upload go together:    *)
(* files are in use exactly while the partition holds files, an upload to the  *)
(* file system has been noted as damage, and one that goes on after a part     *)
(* was lost is known to have failed.                                          *)
(***************************************************************************)
EXTENDS Service, TLAPS

\* Files are in use exactly while the partition holds them.
MountedFiles == mounted <=> data = "files"

\* An upload that goes on has lost nothing and not succeeded yet, and one to the
\* file system has unmounted it.
UploadInOrder ==
  sending => /\ ~ota.success
             /\ ota.started /\ ~ota.failed => ~lost
             /\ ota.started /\ ota.partition = "fs" => ~mounted

\* Writing over the file system is damage until an image is mounted.
DamageNoted ==
  /\ data = "partial" => damaged
  /\ ota.partition = "fs" /\ ota.started => damaged

\* Programs without damage: the default one holds rooms, all others parse.
ProgramsWhole ==
  ~damaged => /\ files[Default] \in Body
              /\ \A name \in Name : files[name] # "broken"

RInv ==
  /\ TypeOK
  /\ MountedFiles
  /\ UploadInOrder
  /\ DamageNoted
  /\ ProgramsWhole
  /\ RunsWhatIsStored
  /\ RoomsRemain
  /\ SuccessMeansWhole

USE DEF File, Partition, Receiving

-----------------------------------------------------------------------------
(* Lemmas *)

LEMMA Constants ==
  /\ Default \in Name /\ "" \notin Name
  /\ ImageBody \in Body
  /\ "absent" \notin Body /\ "broken" \notin Body /\ "none" \notin Body
BY RestAssumption

\* getRoomsConfig gives the rooms of a program, or none.
LEMMA LoadsTypes ==
  ASSUME NEW programs \in [Name -> File], NEW name
  PROVE  Loads(programs, name) \in Body \cup {"none"}
BY DEF Loads

\* For a program that exists it looks at this program only.
LEMMA LoadsExisting ==
  ASSUME NEW programs, NEW name \in Name, programs[name] # "absent"
  PROVE  Loads(programs, name) =
           IF programs[name] \in Body THEN programs[name] ELSE "none"
BY DEF Loads

\* Whole programs give rooms, whichever is selected.
LEMMA LoadsRooms ==
  ASSUME NEW programs \in [Name -> File], NEW name,
         programs[Default] \in Body,
         \A n \in Name : programs[n] # "broken"
  PROVE  Loads(programs, name) # "none"
BY Constants DEF Loads

-----------------------------------------------------------------------------
(* The invariant *)

LEMMA InitRInv == Init => RInv
<1> SUFFICES ASSUME Init PROVE RInv
  OBVIOUS
<1>1. files \in [Name -> File]
  BY DEF Init
<1>2. rooms \in Body \cup {"none"}
  BY <1>1, LoadsTypes DEF Init
<1>3. TypeOK
  BY <1>1, <1>2 DEF Init, TypeOK, NoUpload
<1>4. /\ files[Default] \in Body
      /\ \A name \in Name : files[name] # "broken"
  BY Constants DEF Init
<1>5. ProgramsWhole /\ RoomsRemain
  BY <1>1, <1>4, LoadsRooms DEF Init, ProgramsWhole, RoomsRemain
<1>6. MountedFiles /\ UploadInOrder /\ DamageNoted /\ RunsWhatIsStored
      /\ SuccessMeansWhole
  BY DEF Init, NoUpload, MountedFiles, UploadInOrder, DamageNoted,
         RunsWhatIsStored, SuccessMeansWhole
<1>7. QED
  BY <1>3, <1>5, <1>6 DEF RInv

\* The type of what an upload changes.
UploadTyped ==
  /\ data \in {"files", "partial", "image"}
  /\ ota \in [partition : Partition \cup {"none"}, started : BOOLEAN,
              failed : BOOLEAN, success : BOOLEAN]
  /\ spare \in {"whole", "partial"}
  /\ mounted \in BOOLEAN /\ sending \in BOOLEAN /\ lost \in BOOLEAN
  /\ bootSpare \in BOOLEAN /\ damaged \in BOOLEAN

LEMMA RequestsTyped ==
  ASSUME TypeOK, UNCHANGED <<data, mounted, update>>,
         files' \in [Name -> File], selected' \in Name \cup {""},
         current' \in Name \cup {""}, rooms' \in Body \cup {"none"},
         damaged' \in BOOLEAN
  PROVE  TypeOK'
<1>1. UploadTyped
  BY DEF TypeOK, UploadTyped
<1>2. /\ data' = data /\ mounted' = mounted /\ ota' = ota /\ sending' = sending
      /\ lost' = lost /\ spare' = spare /\ bootSpare' = bootSpare
  BY DEF update
<1>3. UploadTyped'
  BY <1>1, <1>2 DEF UploadTyped
<1>4. QED
  BY <1>3 DEF TypeOK, UploadTyped

LEMMA UploadsTyped ==
  ASSUME TypeOK, UNCHANGED <<store, controller>>, UploadTyped'
  PROVE  TypeOK'
<1>1. /\ files' = files /\ selected' = selected
      /\ current' = current /\ rooms' = rooms
  BY DEF store, controller
<1>2. /\ files' \in [Name -> File] /\ rooms' \in Body \cup {"none"}
      /\ selected' \in Name \cup {""} /\ current' \in Name \cup {""}
  BY <1>1 DEF TypeOK
<1>3. QED
  BY <1>2 DEF TypeOK, UploadTyped

\* Requests for programs leave the partition and the upload alone.
LEMMA ProgramRequests ==
  ASSUME RInv, UNCHANGED <<data, mounted, update>>, damaged => damaged'
  PROVE  MountedFiles' /\ UploadInOrder' /\ DamageNoted' /\ SuccessMeansWhole'
BY DEF RInv, TypeOK, update, MountedFiles, UploadInOrder, DamageNoted, SuccessMeansWhole

LEMMA SelectRInv ==
  ASSUME RInv, NEW name \in Name, SelectProgram(name)
  PROVE  RInv'
<1> USE DEF RInv
<1>1. /\ files' = files /\ damaged' = damaged
      /\ UNCHANGED <<data, mounted, update>>
      /\ selected' \in Name \cup {""}
      /\ current' = selected' /\ rooms' = Loads(files, selected')
  BY DEF SelectProgram, LoadFrom
<1>2. rooms' \in Body \cup {"none"}
  BY <1>1, LoadsTypes DEF TypeOK
<1>3. TypeOK'
  <2>1. files' \in [Name -> File] /\ damaged' \in BOOLEAN
    BY <1>1 DEF TypeOK
  <2>2. QED
    BY <1>1, <1>2, <2>1, RequestsTyped
<1>4. ProgramsWhole'
  BY <1>1 DEF ProgramsWhole
<1>5. RunsWhatIsStored'
  BY <1>1 DEF RunsWhatIsStored, Loads
<1>6. RoomsRemain'
  BY <1>1, LoadsRooms DEF ProgramsWhole, RoomsRemain, TypeOK
<1>7. QED
  BY <1>1, <1>3, <1>4, <1>5, <1>6, ProgramRequests

LEMMA SaveRInv ==
  ASSUME RInv, NEW name \in Name, NEW body \in Body \cup {"broken"},
         SaveProgram(name, body)
  PROVE  RInv'
<1> USE DEF RInv
<1>1. PICK written \in {body, "broken"} :
        files' = [files EXCEPT ![name] = written]
  BY DEF SaveProgram
<1>2. /\ damaged' = (damaged \/ files'[name] = "broken")
      /\ selected' = selected
      /\ UNCHANGED <<data, mounted, update>>
  BY DEF SaveProgram
<1>3. files' \in [Name -> File]
  BY <1>1 DEF TypeOK
<1>4. IF selected = name THEN current' = selected /\ rooms' = Loads(files', selected)
                         ELSE current' = current /\ rooms' = rooms
  BY DEF SaveProgram, LoadFrom, controller
<1>5. rooms' \in Body \cup {"none"}
  BY <1>3, <1>4, LoadsTypes DEF TypeOK
<1>6. TypeOK'
  <2>1. damaged' \in BOOLEAN
    BY <1>2 DEF TypeOK
  <2>2. selected' \in Name \cup {""} /\ current' \in Name \cup {""}
    BY <1>2, <1>4 DEF TypeOK
  <2>3. QED
    BY <1>2, <1>3, <1>5, <2>1, <2>2, RequestsTyped
<1>7. ProgramsWhole'
  BY <1>1, <1>2, Constants DEF ProgramsWhole, TypeOK
<1>8. RunsWhatIsStored'
  <2> SUFFICES ASSUME mounted
               PROVE  /\ current' = selected
                      /\ selected \in Name /\ files'[selected] # "absent"
                         => rooms' = Loads(files', selected)
    BY <1>2 DEF RunsWhatIsStored
  <2>1. CASE selected = name
    BY <2>1, <1>4
  <2>2. CASE selected # name
    <3>1. current' = selected
      BY <2>2, <1>4 DEF RunsWhatIsStored
    <3>2. ASSUME selected \in Name, files'[selected] # "absent"
          PROVE  rooms' = Loads(files', selected)
      <4>1. files'[selected] = files[selected]
        BY <3>2, <2>2, <1>1 DEF TypeOK
      <4>2. rooms = Loads(files, selected)
        BY <3>2, <4>1 DEF RunsWhatIsStored
      <4>3. QED
        BY <3>2, <4>1, <4>2, <2>2, <1>4, LoadsExisting
    <3>3. QED
      BY <3>1, <3>2
  <2>3. QED
    BY <2>1, <2>2
<1>9. RoomsRemain'
  <2> SUFFICES ASSUME ~damaged' PROVE rooms' # "none"
    BY DEF RoomsRemain
  <2>1. CASE selected = name
    BY <2>1, <1>3, <1>4, <1>7, LoadsRooms DEF ProgramsWhole
  <2>2. CASE selected # name
    BY <2>2, <1>2, <1>4 DEF RoomsRemain
  <2>3. QED
    BY <2>1, <2>2
<1>10. QED
  BY <1>2, <1>6, <1>7, <1>8, <1>9, ProgramRequests

LEMMA DeleteRInv ==
  ASSUME RInv, NEW name \in Name, DeleteProgram(name)
  PROVE  RInv'
<1> USE DEF RInv
<1>1. /\ files' = [files EXCEPT ![name] = "absent"]
      /\ damaged' = (damaged \/ name = Default)
      /\ selected' = selected /\ current' = current /\ rooms' = rooms
      /\ UNCHANGED <<data, mounted, update>>
  BY DEF DeleteProgram, controller
<1>2. TypeOK'
  <2>1. files' \in [Name -> File]
    BY <1>1 DEF TypeOK
  <2>2. /\ ota' = ota /\ sending' = sending /\ lost' = lost /\ spare' = spare
        /\ bootSpare' = bootSpare /\ data' = data /\ mounted' = mounted
    BY <1>1 DEF update
  <2>3. damaged' \in BOOLEAN /\ lost' \in BOOLEAN /\ sending' \in BOOLEAN
        /\ mounted' \in BOOLEAN /\ bootSpare' \in BOOLEAN
    BY <1>1, <2>2 DEF TypeOK
  <2>4. QED
    BY <1>1, <2>1, <2>2, <2>3 DEF TypeOK
<1>3. ProgramsWhole'
  BY <1>1, Constants DEF ProgramsWhole, TypeOK
<1>4. RunsWhatIsStored'
  <2> SUFFICES ASSUME mounted, selected \in Name, files'[selected] # "absent"
               PROVE  rooms = Loads(files', selected)
    BY <1>1 DEF RunsWhatIsStored
  <2>1. files'[selected] = files[selected]
    BY <1>1 DEF TypeOK
  <2>2. rooms = Loads(files, selected)
    BY <2>1 DEF RunsWhatIsStored
  <2>3. QED
    BY <2>1, <2>2, LoadsExisting
<1>5. RoomsRemain'
  BY <1>1 DEF RoomsRemain
<1>6. QED
  BY <1>1, <1>2, <1>3, <1>4, <1>5, ProgramRequests

LEMMA CutRInv ==
  ASSUME RInv, NEW name \in Name, CutWhileSaving(name)
  PROVE  RInv'
<1> USE DEF RInv
<1>1. /\ files' = [files EXCEPT ![name] = "broken"]
      /\ damaged' = TRUE
      /\ current' = selected /\ rooms' = Loads(files', selected)
      /\ ota' = NoUpload /\ lost' = FALSE /\ bootSpare' = FALSE
      /\ UNCHANGED <<selected, data, mounted, sending, spare>>
      /\ ~sending
  BY DEF CutWhileSaving, LoadFrom, Serving
<1>2. files' \in [Name -> File]
  BY <1>1 DEF TypeOK
<1>3. rooms' \in Body \cup {"none"}
  BY <1>1, <1>2, LoadsTypes
<1>4. TypeOK'
  BY <1>1, <1>2, <1>3 DEF TypeOK, NoUpload
<1>5. RunsWhatIsStored'
  BY <1>1 DEF RunsWhatIsStored, Loads
<1>6. QED
  BY <1>1, <1>4, <1>5 DEF NoUpload, MountedFiles, UploadInOrder, DamageNoted,
     ProgramsWhole, RoomsRemain, SuccessMeansWhole

\* Uploads leave programs and controller alone.
LEMMA Uploads ==
  ASSUME RInv, UNCHANGED <<store, controller>>, mounted' => mounted,
         damaged => damaged'
  PROVE  ProgramsWhole' /\ RunsWhatIsStored' /\ RoomsRemain'
BY DEF RInv, store, controller, ProgramsWhole, RunsWhatIsStored, RoomsRemain, Loads

LEMMA RefuseRInv ==
  ASSUME RInv, NEW partition \in Partition, RefuseUpload(partition)
  PROVE  RInv'
<1> USE DEF RInv
<1>1. /\ UNCHANGED <<store, controller>> /\ mounted' = mounted
      /\ damaged' = damaged
      /\ ota' = [NoUpload EXCEPT !.partition = partition, !.failed = TRUE]
      /\ sending' = TRUE /\ lost' = FALSE
      /\ spare' \in {spare, "partial"}
      /\ UNCHANGED <<data, bootSpare>>
  BY DEF RefuseUpload
<1>2. TypeOK'
  <2>1. ota' \in [partition : Partition \cup {"none"}, started : BOOLEAN,
                  failed : BOOLEAN, success : BOOLEAN]
    BY <1>1 DEF NoUpload
  <2>2. UploadTyped'
    BY <1>1, <2>1 DEF TypeOK, UploadTyped
  <2>3. QED
    BY <1>1, <2>2, UploadsTyped
<1>3. QED
  BY <1>1, <1>2, Uploads DEF NoUpload, MountedFiles, UploadInOrder, DamageNoted,
     SuccessMeansWhole

LEMMA StartRInv ==
  ASSUME RInv, StartFirmware \/ StartFilesystem
  PROVE  RInv'
<1> USE DEF RInv
<1>1. CASE StartFirmware
  <2>1. /\ UNCHANGED <<store, controller>> /\ mounted' = mounted
        /\ damaged' = damaged
        /\ ota' = [NoUpload EXCEPT !.partition = "app", !.started = TRUE]
        /\ sending' = TRUE /\ lost' = FALSE /\ spare' = "partial"
        /\ UNCHANGED <<data, bootSpare>>
    BY <1>1 DEF StartFirmware
  <2>2. TypeOK'
    BY <2>1 DEF TypeOK, store, controller, NoUpload
  <2>3. QED
    BY <2>1, <2>2, Uploads DEF NoUpload, MountedFiles, UploadInOrder, DamageNoted,
       SuccessMeansWhole
<1>2. CASE StartFilesystem
  <2>1. PICK failed \in BOOLEAN :
          ota' = [NoUpload EXCEPT !.partition = "fs", !.started = ~failed,
                                  !.failed = failed]
    BY <1>2 DEF StartFilesystem
  <2>2. /\ files' = NoFiles /\ selected' = ""
        /\ UNCHANGED controller /\ mounted' = FALSE
        /\ data' = "partial" /\ damaged' = TRUE
        /\ sending' = TRUE /\ lost' = FALSE
        /\ UNCHANGED <<spare, bootSpare>>
    BY <1>2 DEF StartFilesystem
  <2>3. TypeOK'
    BY <2>1, <2>2 DEF TypeOK, controller, NoUpload, NoFiles
  <2>4. QED
    BY <2>1, <2>2, <2>3 DEF NoUpload, MountedFiles, UploadInOrder, DamageNoted,
       ProgramsWhole, RunsWhatIsStored, RoomsRemain, SuccessMeansWhole
<1>3. QED
  BY <1>1, <1>2

LEMMA ReceiveRInv ==
  ASSUME RInv, ReceivePart
  PROVE  RInv'
<1> USE DEF RInv
<1>1. PICK failed \in IF Receiving THEN BOOLEAN ELSE {ota.failed} :
        /\ ota' = [ota EXCEPT !.failed = failed]
        /\ lost' = (lost \/ failed \/ ~Receiving)
  BY DEF ReceivePart
<1>2. /\ UNCHANGED <<store, controller>> /\ mounted' = mounted
      /\ damaged' = damaged
      /\ sending /\ UNCHANGED <<data, sending, spare, bootSpare>>
  BY DEF ReceivePart
<1>3. failed \in BOOLEAN
  BY DEF TypeOK
<1>4. TypeOK'
  BY <1>1, <1>2, <1>3 DEF TypeOK, store, controller
<1>5. UploadInOrder'
  BY <1>1, <1>2, <1>3 DEF UploadInOrder, TypeOK
<1>6. QED
  BY <1>1, <1>2, <1>3, <1>4, <1>5, Uploads DEF MountedFiles, UploadInOrder, DamageNoted,
     SuccessMeansWhole, TypeOK

LEMMA FinishFirmwareRInv ==
  ASSUME RInv, FinishFirmware
  PROVE  RInv'
<1> USE DEF RInv
<1>1. /\ UNCHANGED <<store, controller>> /\ mounted' = mounted
      /\ damaged' = damaged /\ data' = data /\ lost' = FALSE
      /\ sending' = FALSE /\ ota.partition = "app" /\ sending
  BY DEF FinishFirmware
<1>2. \/ /\ ota' = [ota EXCEPT !.failed = TRUE]
         /\ spare' \in {"partial", "whole"} /\ bootSpare' = bootSpare
      \/ /\ ota' = [ota EXCEPT !.success = TRUE]
         /\ spare' = "whole" /\ bootSpare' = TRUE
  BY DEF FinishFirmware
<1>3. TypeOK'
  BY <1>1, <1>2 DEF TypeOK, store, controller
<1>4. QED
  BY <1>1, <1>2, <1>3, Uploads DEF MountedFiles, UploadInOrder, DamageNoted,
     SuccessMeansWhole, TypeOK

LEMMA FinishFilesystemRInv ==
  ASSUME RInv, FinishFilesystem
  PROVE  RInv'
<1> USE DEF RInv
<1>1. /\ UNCHANGED <<store, controller>> /\ mounted' = mounted
      /\ damaged' = damaged /\ lost' = FALSE
      /\ sending' = FALSE /\ sending
      /\ ota.partition = "fs" /\ ota.started /\ ~ota.failed
      /\ ota' = [ota EXCEPT !.success = TRUE]
      /\ data' = IF lost THEN "partial" ELSE "image"
      /\ UNCHANGED <<spare, bootSpare>>
  BY DEF FinishFilesystem
<1>2. ~lost /\ damaged
  BY <1>1 DEF UploadInOrder, DamageNoted
<1>3. ~mounted
  BY <1>1 DEF UploadInOrder
<1>4. TypeOK'
  BY <1>1 DEF TypeOK, store, controller
<1>5. SuccessMeansWhole'
  BY <1>1, <1>2 DEF SuccessMeansWhole, TypeOK
<1>6. MountedFiles' /\ UploadInOrder' /\ DamageNoted'
  BY <1>1, <1>2, <1>3 DEF MountedFiles, UploadInOrder, DamageNoted
<1>7. QED
  BY <1>1, <1>4, <1>5, <1>6, Uploads

LEMMA EndUploadRInv ==
  ASSUME RInv, EndUpload
  PROVE  RInv'
<1> USE DEF RInv
<1>1. /\ UNCHANGED <<store, controller>> /\ mounted' = mounted
      /\ damaged' = damaged /\ lost' = FALSE /\ sending' = FALSE
      /\ UNCHANGED <<data, ota, spare, bootSpare>>
  BY DEF EndUpload
<1>2. TypeOK'
  <2>1. UploadTyped'
    BY <1>1 DEF TypeOK, UploadTyped
  <2>2. QED
    BY <1>1, <2>1, UploadsTyped
<1>3. QED
  BY <1>1, <1>2, Uploads DEF MountedFiles, UploadInOrder, DamageNoted,
     SuccessMeansWhole

\* What is mounted are programs, and without damage whole ones.
LEMMA MountsTypes ==
  ASSUME RInv, NEW found \in Mounts
  PROVE  /\ found.on \in BOOLEAN
         /\ found.programs \in [Name -> File]
         /\ found.name \in Name \cup {""}
         /\ data = "files" => found.on /\ found.programs = files
         /\ data = "image" =>
              /\ found.on
              /\ found.programs = [n \in Name |-> IF n = Default THEN ImageBody
                                                                 ELSE "absent"]
<1> USE DEF RInv, TypeOK
<1>1. CASE data = "files"
  <2>1. found = [on |-> TRUE, programs |-> files, name |-> selected]
    BY <1>1 DEF Mounts
  <2>2. found.on = TRUE /\ found.programs = files /\ found.name = selected
    BY <2>1
  <2>3. QED
    BY <1>1, <2>2
<1>2. CASE data = "image"
  <2> DEFINE image == [n \in Name |-> IF n = Default THEN ImageBody ELSE "absent"]
  <2>1. found = [on |-> TRUE, name |-> Default, programs |-> image]
    BY <1>2 DEF Mounts
  <2>2. image \in [Name -> File]
    BY Constants
  <2>3. found.on = TRUE /\ found.programs = image /\ found.name = Default
    BY <2>1
  <2>4. found.programs \in [Name -> File]
    BY <2>2, <2>3
  <2> HIDE DEF image
  <2>5. /\ found.on \in BOOLEAN /\ found.name \in Name \cup {""}
        /\ data # "files"
    BY <1>2, <2>3, Constants
  <2>6. found.programs = [n \in Name |-> IF n = Default THEN ImageBody
                                                        ELSE "absent"]
    BY <2>3 DEF image
  <2>7. QED
    BY <2>3, <2>4, <2>5, <2>6
<1>3. CASE data = "partial"
  <2>1. CASE found \in [on : {TRUE}, name : {"", Default},
                       programs : [Name -> {"absent", "broken", ImageBody}]]
    <3>1. /\ found.on = TRUE /\ found.name \in {"", Default}
          /\ found.programs \in [Name -> {"absent", "broken", ImageBody}]
      BY <2>1
    <3>2. [Name -> {"absent", "broken", ImageBody}] \subseteq [Name -> File]
      BY Constants
    <3>3. QED
      BY <1>3, <3>1, <3>2, Constants
  <2>2. CASE found = [on |-> FALSE, name |-> "", programs |-> NoFiles]
    <3>1. found.on = FALSE /\ found.programs = NoFiles /\ found.name = ""
      BY <2>2
    <3>2. NoFiles \in [Name -> File]
      BY DEF NoFiles
    <3>3. QED
      BY <1>3, <3>1, <3>2
  <2>3. QED
    BY <1>3, <2>1, <2>2 DEF Mounts
<1>4. QED
  BY <1>1, <1>2, <1>3

LEMMA RebootRInv ==
  ASSUME RInv, Reboot
  PROVE  RInv'
<1> USE DEF RInv
<1>1. PICK found \in Mounts :
        /\ mounted' = found.on
        /\ files' = found.programs /\ selected' = found.name
        /\ data' = IF found.on THEN "files" ELSE data
        /\ current' = found.name
        /\ rooms' = Loads(found.programs, found.name)
  BY DEF Reboot, LoadFrom
<1>2. /\ damaged' = (data # "image" /\ damaged)
      /\ ota' = NoUpload /\ sending' = FALSE /\ lost' = FALSE
      /\ bootSpare' = FALSE /\ spare' = spare
  BY DEF Reboot
<1>3. /\ found.on \in BOOLEAN
      /\ found.programs \in [Name -> File]
      /\ found.name \in Name \cup {""}
      /\ data = "files" => found.on /\ found.programs = files
      /\ data = "image" =>
           /\ found.on
           /\ found.programs = [n \in Name |-> IF n = Default THEN ImageBody
                                                              ELSE "absent"]
  BY MountsTypes
<1>4. rooms' \in Body \cup {"none"}
  BY <1>1, <1>3, LoadsTypes
<1>5. TypeOK'
  <2>1. /\ files' \in [Name -> File]
        /\ selected' \in Name \cup {""} /\ current' \in Name \cup {""}
        /\ mounted' \in BOOLEAN
    BY <1>1, <1>3
  <2>2. data' \in {"files", "partial", "image"}
    BY <1>1 DEF TypeOK
  <2>3. /\ ota' \in [partition : Partition \cup {"none"}, started : BOOLEAN,
                     failed : BOOLEAN, success : BOOLEAN]
        /\ spare' \in {"whole", "partial"}
        /\ sending' \in BOOLEAN /\ lost' \in BOOLEAN
        /\ bootSpare' \in BOOLEAN /\ damaged' \in BOOLEAN
    BY <1>2 DEF TypeOK, NoUpload
  <2>4. QED
    BY <1>4, <2>1, <2>2, <2>3 DEF TypeOK
<1>6. MountedFiles'
  BY <1>1, <1>3 DEF MountedFiles, TypeOK
<1>7. UploadInOrder' /\ SuccessMeansWhole'
  BY <1>2 DEF UploadInOrder, SuccessMeansWhole, NoUpload
<1>8. DamageNoted'
  BY <1>1, <1>2, <1>3 DEF DamageNoted, NoUpload, TypeOK
<1>9. ProgramsWhole'
  <2>1. CASE data = "files"
    BY <2>1, <1>1, <1>2, <1>3 DEF ProgramsWhole
  <2>2. CASE data = "image"
    <3>1. files' = [n \in Name |-> IF n = Default THEN ImageBody ELSE "absent"]
      BY <2>2, <1>1, <1>3
    <3>2. files'[Default] = ImageBody
      BY <3>1, Constants
    <3>3. \A n \in Name : files'[n] \in {ImageBody, "absent"}
      BY <3>1
    <3>4. QED
      BY <3>2, <3>3, Constants DEF ProgramsWhole
  <2>3. CASE data = "partial"
    BY <2>3, <1>2 DEF DamageNoted, ProgramsWhole
  <2>4. QED
    BY <2>1, <2>2, <2>3 DEF TypeOK
<1>10. RunsWhatIsStored'
  BY <1>1 DEF RunsWhatIsStored, Loads
<1>11. RoomsRemain'
  <2> SUFFICES ASSUME ~damaged' PROVE rooms' # "none"
    BY DEF RoomsRemain
  <2>1. /\ found.programs[Default] \in Body
        /\ \A n \in Name : found.programs[n] # "broken"
    BY <1>1, <1>9 DEF ProgramsWhole
  <2>2. QED
    BY <1>1, <1>3, <2>1, LoadsRooms
<1>12. QED
  BY <1>5, <1>6, <1>7, <1>8, <1>9, <1>10, <1>11

LEMMA StutterRInv ==
  ASSUME RInv, UNCHANGED restVars
  PROVE  RInv'
<1> USE DEF RInv
<1>1. UNCHANGED <<store, controller, update, data, mounted, damaged>>
  BY DEF restVars
<1>2. MountedFiles' /\ UploadInOrder' /\ DamageNoted' /\ SuccessMeansWhole'
  BY <1>1, ProgramRequests
<1>3. ProgramsWhole' /\ RunsWhatIsStored' /\ RoomsRemain'
  BY <1>1, Uploads
<1>4. TypeOK'
  <2>1. /\ files' = files /\ selected' = selected /\ current' = current
        /\ rooms' = rooms /\ ota' = ota /\ sending' = sending /\ lost' = lost
        /\ spare' = spare /\ bootSpare' = bootSpare /\ data' = data
        /\ mounted' = mounted /\ damaged' = damaged
    BY <1>1 DEF store, controller, update
  <2>2. /\ files' \in [Name -> File]
        /\ selected' \in Name \cup {""} /\ current' \in Name \cup {""}
        /\ data' \in {"files", "partial", "image"}
        /\ rooms' \in Body \cup {"none"}
    BY <2>1 DEF TypeOK
  <2>3. /\ ota' \in [partition : Partition \cup {"none"}, started : BOOLEAN,
                     failed : BOOLEAN, success : BOOLEAN]
        /\ spare' \in {"whole", "partial"}
    BY <2>1 DEF TypeOK
  <2>4. /\ mounted' \in BOOLEAN /\ sending' \in BOOLEAN /\ lost' \in BOOLEAN
        /\ bootSpare' \in BOOLEAN /\ damaged' \in BOOLEAN
    BY <2>1 DEF TypeOK
  <2>5. QED
    BY <2>2, <2>3, <2>4 DEF TypeOK
<1>5. QED
  BY <1>2, <1>3, <1>4

LEMMA NextRInv ==
  ASSUME RInv, [Next]_restVars
  PROVE  RInv'
<1>1. CASE \E name \in Name : SelectProgram(name)
  BY <1>1, SelectRInv
<1>2. CASE \E name \in Name, body \in Body \cup {"broken"} : SaveProgram(name, body)
  BY <1>2, SaveRInv
<1>3. CASE \E name \in Name : DeleteProgram(name)
  BY <1>3, DeleteRInv
<1>4. CASE \E name \in Name : CutWhileSaving(name)
  BY <1>4, CutRInv
<1>5. CASE \E partition \in Partition : RefuseUpload(partition)
  BY <1>5, RefuseRInv
<1>6. CASE StartFirmware \/ StartFilesystem
  BY <1>6, StartRInv
<1>7. CASE ReceivePart
  BY <1>7, ReceiveRInv
<1>8. CASE FinishFirmware
  BY <1>8, FinishFirmwareRInv
<1>9. CASE FinishFilesystem
  BY <1>9, FinishFilesystemRInv
<1>10. CASE EndUpload
  BY <1>10, EndUploadRInv
<1>11. CASE Reboot
  BY <1>11, RebootRInv
<1>12. CASE UNCHANGED restVars
  BY <1>12, StutterRInv
<1>13. QED
  BY <1>1, <1>2, <1>3, <1>4, <1>5, <1>6, <1>7, <1>8, <1>9, <1>10, <1>11, <1>12
  DEF Next

-----------------------------------------------------------------------------
(* The theorems *)

\* The inductive invariant of the requests, the updates and the restarts.
THEOREM RestInvariant == Spec => []RInv
<1>1. Init => RInv
  BY InitRInv
<1>2. RInv /\ [Next]_restVars => RInv'
  BY NextRInv
<1>3. QED
  BY <1>1, <1>2, PTL DEF Spec

\* Every field keeps its type, after any requests, failures and restarts.
THEOREM RestTypeCorrect == Spec => []TypeOK
<1>1. RInv => TypeOK
  BY DEF RInv
<1>2. QED
  BY <1>1, RestInvariant, PTL

\* The controller runs the program that is selected, for any programs and any
\* contents of theirs (setCurrentProgram, configPrograms, reloadConfiguration).
THEOREM ControllerRunsWhatIsStored == Spec => []RunsWhatIsStored
<1>1. RInv => RunsWhatIsStored
  BY DEF RInv
<1>2. QED
  BY <1>1, RestInvariant, PTL

\* Without damage to the files there are always rooms (getRoomsConfig).
THEOREM UndamagedRoomsRemain == Spec => []RoomsRemain
<1>1. RInv => RoomsRemain
  BY DEF RInv
<1>2. QED
  BY <1>1, RestInvariant, PTL

\* A success that is reported means a whole image (handleOTAUpdate,
\* handleOTAFFSUpdate).
THEOREM UpdatesAreWhole == Spec => []SuccessMeansWhole
<1>1. RInv => SuccessMeansWhole
  BY DEF RInv
<1>2. QED
  BY <1>1, RestInvariant, PTL

-----------------------------------------------------------------------------
(* The device refines its requests *)

\* With its WiFi and the settings for it, the device does nothing to the
\* programs and the updates but what the requests and the restarts do.
THEOREM ServiceUsesRest == ServiceSpec => Spec
<1>1. ServiceInit => Init
  BY DEF ServiceInit
<1>2. [ServiceNext]_serviceVars => [Next]_restVars
  <2> SUFFICES ASSUME [ServiceNext]_serviceVars PROVE [Next]_restVars
    OBVIOUS
  <2>1. CASE Request
    BY <2>1 DEF Request, Next
  <2>2. CASE Upload
    BY <2>2 DEF Upload, Next
  <2>3. CASE UploadEnds
    BY <2>3 DEF UploadEnds, Next
  <2>4. CASE SaveWiFi \/ SaveDevice
    BY <2>4 DEF SaveWiFi, SaveDevice, SettingsUnchangedBut
  <2>5. CASE ServiceReboot \/ CutWhileSavingSettings
    BY <2>5 DEF ServiceReboot, CutWhileSavingSettings, Next
  <2>6. CASE ServiceCut
    BY <2>6 DEF ServiceCut, Next
  <2>7. CASE EventTask \/ LoopAndTime \/ Network
    BY <2>7 DEF EventTask, LoopAndTime, Network
  <2>8. CASE UNCHANGED serviceVars
    BY <2>8 DEF serviceVars
  <2>9. QED
    BY <2>1, <2>2, <2>3, <2>4, <2>5, <2>6, <2>7, <2>8 DEF ServiceNext
<1>3. QED
  BY <1>1, <1>2, PTL DEF ServiceSpec, Spec
=============================================================================
