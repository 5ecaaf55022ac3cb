---------------------------- MODULE EmsTelegram ----------------------------
(***************************************************************************)
(* The telegrams of the EMS bus as bytes (src/src/EMS/EmsTelegram.h, .cpp):  *)
(* how a telegram is written and read, its check sum, and how a field is     *)
(* taken from a telegram that carries only a window of the sender's memory.  *)
(*                                                                         *)
(* An optional value is a set with at most one element.  Numbers are those   *)
(* of the code: bytes, 16-bit types, two's complement for int16_t.           *)
(***************************************************************************)
EXTENDS Integers, SequencesExt

Byte == 0 .. 255

\* The operation READ_WITH_DATA is never constructed.
Operations == {"READ", "WRITE", "BROADCAST"}

\* boilerId_, deviceId_; destination 0 is everybody.
BoilerId == 8
DeviceId == 25
maxEmsDataLength == 27

\* 1 << bitPos, and whether that bit of a byte is set
Weight(bitPos) == <<1, 2, 4, 8, 16, 32, 64, 128>>[bitPos + 1]
HasBit(byte, bitPos) == (byte \div Weight(bitPos)) % 2 = 1

\* id | 0x80 and id & 0x7F
Marked(id) == IF HasBit(id, 7) THEN id ELSE id + 128
Unmarked(id) == id % 128

isEms2(t) == t.typeId > 255

-----------------------------------------------------------------------------
(* The check sum *)

\* Exclusive or, bit by bit: the weight of one that differs.
Differing(a, b, bitPos) ==
  IF HasBit(a, bitPos) = HasBit(b, bitPos) THEN 0 ELSE Weight(bitPos)

Xor(a, b) ==
  Differing(a, b, 0) + Differing(a, b, 1) + Differing(a, b, 2)
  + Differing(a, b, 3) + Differing(a, b, 4) + Differing(a, b, 5)
  + Differing(a, b, 6) + Differing(a, b, 7)

\* The entries follow a rule: a shift, with the polynomial when a bit drops out.
ems_crc_table ==
  [c \in Byte |-> IF c < 128 THEN 2 * c ELSE Xor(2 * c - 256, 25)]

calculateCRC(bytes) ==
  LET crc[n \in 0 .. Len(bytes)] ==   \* of the first n bytes
        IF n = 0 THEN 0 ELSE Xor(ems_crc_table[crc[n - 1]], bytes[n])
  IN  crc[Len(bytes)]

-----------------------------------------------------------------------------
(* Writing and reading *)

Header(t) ==
  << Marked(t.source),
     IF t.operation = "READ" /\ t.destination # 0 THEN Marked(t.destination)
                                                  ELSE t.destination,
     IF isEms2(t) THEN 255 ELSE t.typeId,
     t.offset >>

MutTypeBytes(t) ==
  IF isEms2(t) THEN <<t.typeId \div 256, t.typeId % 256>> ELSE <<>>

\* An EMS2 type, 256 and up, is written without its lowest page.
TypeBytes(t) ==
  IF isEms2(t) THEN <<t.typeId \div 256 - 1, t.typeId % 256>> ELSE <<>>

\* A request asks for a number of bytes, before the type.
Requested(t) == IF t.data = <<>> THEN <<0>> ELSE <<Head(t.data)>>

encodeToRawDataWithCRC(t) ==
  LET raw == Header(t) \o IF t.operation = "READ"
                          THEN Requested(t) \o TypeBytes(t)
                          ELSE TypeBytes(t) \o t.data
  IN  Append(raw, calculateCRC(raw))

\* "Bad CRC" is thrown for every other frame.
Undamaged(raw) == Last(raw) = calculateCRC(Front(raw))

\* Bytes of a frame are numbered from 1, with the check sum but without the break.
getFromRawData(raw) ==
  LET asks == raw[2] >= 128
      ems1 == raw[3] # 255 \/ Len(raw) < 6
      page(i) == raw[i] * 256 + raw[i + 1] + 256
  IN  [operation   |-> CASE raw[2] = 0 -> "BROADCAST"
                         [] raw[2] # 0 /\ asks -> "READ"
                         [] OTHER -> "WRITE",
       source      |-> raw[1],
       destination |-> raw[2],
       offset      |-> raw[4],
       typeId      |-> CASE ems1 -> raw[3]
                         [] ~ems1 /\ asks -> page(6)
                         [] OTHER -> page(5),
       data        |-> CASE ems1 -> SubSeq(raw, 5, Len(raw) - 1)
                         [] ~ems1 /\ asks -> <<raw[5]>>
                         [] OTHER -> SubSeq(raw, 7, Len(raw) - 1)]

\* processTelegram: a shortest length, with the break, and the addressee
\* decide; polls have two bytes.
ForUs(raw) ==
  /\ Len(raw) + 1 >= 7
  /\ raw[2] = 0 \/ Unmarked(raw[2]) = DeviceId

Taken(raw) == ForUs(raw) /\ Undamaged(raw)

-----------------------------------------------------------------------------
(* Fields *)

\* The guard of getValue: all of the field's bytes lie in the window.
Carries(t, dataStart, size) ==
  /\ t.offset <= dataStart
  /\ dataStart - t.offset + size <= Len(t.data)

\* getValueAbs: uint8_t and uint16_t, the high byte first
Number(bytes, first, size) ==
  IF size = 1 THEN bytes[first] ELSE 256 * bytes[first] + bytes[first + 1]

MutGetValue(t, dataStart, size) ==
  IF Carries(t, dataStart, 1)
  THEN {Number(t.data \o <<0>>, dataStart - t.offset + 1, size)}
  ELSE {}

getValue(t, dataStart, size) ==
  IF Carries(t, dataStart, size)
  THEN {Number(t.data, dataStart - t.offset + 1, size)}
  ELSE {}

\* bool at a bit
getBit(t, dataStart, bitPos) ==
  {HasBit(v, bitPos) : v \in getValue(t, dataStart, 1)}

\* int16_t
getSigned(t, dataStart) ==
  {IF v < 32768 THEN v ELSE v - 65536 : v \in getValue(t, dataStart, 2)}

-----------------------------------------------------------------------------
(* What the controller sends *)

EmsTelegram(operation, destination, offset, typeId, data) ==
  [operation |-> operation, source |-> DeviceId, destination |-> destination,
   offset |-> offset, typeId |-> typeId, data |-> data]

\* getRequest of the parameters, the versions, the factory data, the outdoor
\* temperature
Requests ==
  {EmsTelegram("READ", BoilerId, 0, type, <<maxEmsDataLength>>) :
     type \in {234, 230, 2, 239, 4}}
  \cup {EmsTelegram("READ", BoilerId, 0, 209, <<2>>)}

\* startHeating, stopHeating
HeatCommands ==
  {EmsTelegram("WRITE", BoilerId, 0, 736, <<1, temperature, 100, 0, 1>>) :
     temperature \in {0, 30, 65, 127, 128, 255}}
  \cup {EmsTelegram("WRITE", BoilerId, 0, 736, <<1, 0, 0, 0, 1>>)}

\* UBAParametersPlus::setHeatingTemperature, and the external controller
Settings ==
  {EmsTelegram("WRITE", BoilerId, 1, 230, <<temperature>>) :
     temperature \in {0, 65, 255}}
  \cup {EmsTelegram("WRITE", BoilerId, 0, 231, <<0, 2, 0>>)}

\* processReadRequest answers who asked, of any type it asked for.
Answers ==
  {EmsTelegram("WRITE", asker, 0, 2, <<99, 1, 1, 0, 0, 0, 0, 0, 0, 99>>) :
     asker \in {BoilerId, 24}}
  \cup {EmsTelegram("WRITE", asker, 0, type, <<>>) :
          asker \in {BoilerId, 24}, type \in {230, 256, 736, 767, 65535}}

Sent == Requests \cup HeatCommands \cup Settings \cup Answers

\* What the addressee of a telegram reads: the marks of the header stay on.
AsRead(t) ==
  [t EXCEPT !.source = Marked(@),
            !.destination = IF t.operation = "READ" THEN Marked(@) ELSE @]

\* A frame with one byte changed.
Damaged(raw) ==
  {[raw EXCEPT ![i] = b] : i \in DOMAIN raw, b \in Byte} \ {raw}
=============================================================================
