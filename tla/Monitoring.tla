----------------------------- MODULE Monitoring -----------------------------
(***************************************************************************)
(* From the bytes on the bus to what the thermostat shows and meters.  The    *)
(* UART task decodes a telegram and queues it; the loop hands it to the       *)
(* processors: those of EmsController (src/src/EmsController.cpp) keep the    *)
(* boiler's state, those of EmsMetrics sum up energy and water.  Each of the   *)
(* bodies below carries a window of the boiler's memory, as the boiler cuts     *)
(* it.                                                                         *)
(*                                                                         *)
(* The telegrams, their fields and the cuts are taken byte for byte; the sums  *)
(* are those of Metering, whose specification this one implements.            *)
(***************************************************************************)
EXTENDS Metering, EmsTelegram

CONSTANTS
  MaxInbox    \* bound of the model: telegrams queued

ASSUME MonitoringAssumption ==
  /\ MaxInbox \in Nat \ {0} /\ Nominal \in Byte
  /\ {0, 1} \subseteq Powers /\ Flows \subseteq Byte

VARIABLES
  inbox,      \* telegramsToProcess_
  shown       \* boilerState_, the fields a telegram of the model carries

monitorVars == <<meterVars, inbox, shown>>

-----------------------------------------------------------------------------
(* The boiler: what it is doing and what its memory then holds *)

Moments ==
  [idle    |-> [power |-> 0, gas |-> FALSE, pump |-> FALSE, valve |-> FALSE,
                flowTemp |-> 255],
   heating |-> [power |-> 1, gas |-> TRUE, pump |-> TRUE, valve |-> FALSE,
                flowTemp |-> 512],
   water   |-> [power |-> 1, gas |-> TRUE, pump |-> TRUE, valve |-> TRUE,
                flowTemp |-> 512]]

Bit(b, pos) == IF b THEN Weight(pos) ELSE 0
Wide(v) == <<v \div 256, v % 256>>

FastPlus(m) ==
  <<0, 45, 72, 0, 0, 200, 65>> \o Wide(m.flowTemp) \o
  <<0, m.power, Bit(m.gas, 0) + Bit(m.pump, 1) + Bit(m.valve, 2)>>

WWPlus(f) == [i \in 1 .. 12 |-> IF i = 12 THEN f ELSE 0]

Factory == <<0, 0, 0, 0, Nominal>>

\* -0.5 degrees, and the value that says that there is no sensor
OutdoorTemps == {-5, 32767}

Outdoor(temp) == Wide(temp % 65536)

\* A telegram with the bytes of a memory from offset on, size of them.
Window(destination, type, memory, offset, size) ==
  [operation |-> IF destination = 0 THEN "BROADCAST" ELSE "WRITE",
   source |-> BoilerId, destination |-> destination, offset |-> offset,
   typeId |-> type, data |-> SubSeq(memory, offset + 1, offset + size)]

\* What a telegram says, for the properties: the memory and the window.
Said(type, m, offset, size) ==
  [type |-> type, m |-> m, offset |-> offset, size |-> size]

\* Windows: all of it, a part that ends inside the flow temperature or before
\* the flags, a part that begins inside the flow temperature, the flags alone.
Cuts == {<<0, 12>>, <<0, 8>>, <<8, 4>>, <<11, 1>>}

Bodies ==
  {Said("fastPlus", Moments[d], c[1], c[2]) :
     d \in DOMAIN Moments, c \in Cuts}
  \cup {Said("wwPlus", [flow |-> f], 0, n) : f \in Flows, n \in {11, 12}}
  \cup {Said("factory", [nominal |-> Nominal], 0, n) : n \in {4, 5}}
  \cup {Said("outdoor", [outdoor |-> t], 0, n) : t \in OutdoorTemps, n \in {1, 2}}

ToTelegram(s, destination) ==
  CASE s.type = "fastPlus" ->
         Window(destination, 228, FastPlus(s.m), s.offset, s.size)
    [] s.type = "wwPlus" ->
         Window(destination, 233, WWPlus(s.m.flow), s.offset, s.size)
    [] s.type = "factory" -> Window(destination, 4, Factory, s.offset, s.size)
    [] s.type = "outdoor" ->
         Window(destination, 209, Outdoor(s.m.outdoor), s.offset, s.size)

\* The bytes of a telegram of the boiler, which writes them as we do.
OnTheBus(s, destination) == encodeToRawDataWithCRC(ToTelegram(s, destination))

\* To everybody, to us, to another device.
Destinations == {0, DeviceId, 24}

Telegrams == {<<s, OnTheBus(s, d)>> : s \in Bodies, d \in Destinations}

\* What can be queued: the decoded telegram, with what the boiler said in it.
Queueable ==
  {[said |-> p[1], telegram |-> getFromRawData(p[2])] :
     p \in {q \in Telegrams : Taken(q[2])}}

-----------------------------------------------------------------------------
(* Processors *)

\* UPDATE_IF_SET
UpdateIfSet(old, got) == IF got = {} THEN old ELSE got

\* getHeatingActive
HeatingActive(t) ==
  {~v /\ p : v \in getBit(t, 11, 2), p \in getBit(t, 11, 1)}

\* getWarmWaterActive
WarmWaterActive(t) ==
  {g /\ v : g \in getBit(t, 11, 0), v \in getBit(t, 11, 2)}

\* The power comes before the flags: energy up to now is booked as they were.
FastPlusTelegram(t) ==
  /\ shown' = [shown EXCEPT
       !.flowTemp  = UpdateIfSet(@, getValue(t, 7, 2)),
       !.gas       = UpdateIfSet(@, getBit(t, 11, 0)),
       !.pump      = UpdateIfSet(@, getBit(t, 11, 1)),
       !.heating   = UpdateIfSet(@, HeatingActive(t)),
       !.warmWater = UpdateIfSet(@, WarmWaterActive(t))]
  /\ \/ \E p \in getValue(t, 10, 1) : calculatePowerUsage(p)
     \/ /\ getValue(t, 10, 1) = {}
        /\ UNCHANGED <<power, powerFor, energy, missed>>
  /\ \/ /\ \E h \in HeatingActive(t) : heating' = h
        /\ \E w \in WarmWaterActive(t) : warmWater' = w
     \/ HeatingActive(t) = {} /\ UNCHANGED <<heating, warmWater>>
  /\ UNCHANGED <<nominal, flow, flowFor, water, stream, burned, drawn>>

MutWWPlusTelegram(t) ==
  /\ shown' = [shown EXCEPT !.flow = UpdateIfSet(@, getValue(t, 11, 1))]
  /\ \/ /\ \E f \in getValue(t, 11, 1) : flow' = f
        /\ flowFor' = 0
        /\ UNCHANGED <<readings, sums, stream, actual>>
     \/ getValue(t, 11, 1) = {} /\ UNCHANGED meterVars

WWPlusTelegram(t) ==
  /\ shown' = [shown EXCEPT !.flow = UpdateIfSet(@, getValue(t, 11, 1))]
  /\ \/ \E f \in getValue(t, 11, 1) : WaterReading(f)
     \/ getValue(t, 11, 1) = {} /\ UNCHANGED meterVars

\* value_or(0)
FactoryTelegram(t) ==
  /\ \/ \E n \in getValue(t, 4, 1) : FactoryReading(n)
     \/ getValue(t, 4, 1) = {} /\ FactoryReading(0)
  /\ UNCHANGED shown

\* getOutdoorTemperature: assigned as it comes, none when it is not there.
OutdoorTelegram(t) ==
  /\ shown' = [shown EXCEPT !.outdoor =
       {10 * v : v \in getSigned(t, 0) \ {32767, -32768}}]
  /\ UNCHANGED meterVars

-----------------------------------------------------------------------------
(* Actions *)

Nothing ==
  [flowTemp |-> {}, gas |-> {}, pump |-> {}, heating |-> {}, warmWater |-> {},
   flow |-> {}, outdoor |-> {}]

\* processTelegram, on the UART task
ReceiveTelegram ==
  /\ Len(inbox) < MaxInbox
  /\ \E entry \in Queueable : inbox' = Append(inbox, entry)
  /\ UNCHANGED <<meterVars, shown>>

\* processTelegrams, on the loop task: one round of its loop.
ProcessTelegram ==
  /\ inbox # <<>>
  /\ inbox' = Tail(inbox)
  /\ LET t == Head(inbox).telegram
     IN  \/ t.typeId = 228 /\ FastPlusTelegram(t)
         \/ t.typeId = 233 /\ WWPlusTelegram(t)
         \/ t.typeId = 4 /\ FactoryTelegram(t)
         \/ t.typeId = 209 /\ OutdoorTelegram(t)

Publication ==
  /\ PublishMetrics \/ PublishOther \/ Connect \/ Disconnect
  /\ UNCHANGED <<inbox, shown>>

Restart == Reboot /\ inbox' = <<>> /\ shown' = Nothing

PassTime == Tick /\ UNCHANGED <<inbox, shown>>

MonitorInit == Init /\ inbox = <<>> /\ shown = Nothing

MonitorNext ==
  \/ ReceiveTelegram
  \/ ProcessTelegram
  \/ Publication
  \/ Restart
  \/ PassTime

MonitorSpec == MonitorInit /\ [][MonitorNext]_monitorVars

-----------------------------------------------------------------------------
(* Properties *)

\* Where a field of the boiler's memory lies: its type, first byte, length.
Place ==
  [flowTemp |-> <<"fastPlus", 7, 2>>, gas |-> <<"fastPlus", 11, 1>>,
   pump |-> <<"fastPlus", 11, 1>>, heating |-> <<"fastPlus", 11, 1>>,
   warmWater |-> <<"fastPlus", 11, 1>>, flow |-> <<"wwPlus", 11, 1>>, outdoor |-> <<"outdoor", 0, 2>>]

Holds(s, field) ==
  /\ Place[field][1] = s.type
  /\ \A i \in 0 .. Place[field][3] - 1 :
       Place[field][2] + i \in s.offset .. s.offset + s.size - 1

\* What the boiler means by it.  Space heating is on when the pump runs and the
\* valve does not point to the hot water.
Meant(s, field) ==
  CASE field = "heating" -> {s.m.pump /\ ~s.m.valve}
    [] field = "warmWater" -> {s.m.gas /\ s.m.valve}
    [] field = "outdoor" -> IF s.m.outdoor = 32767 THEN {} ELSE {10 * s.m.outdoor}
    [] OTHER -> {s.m[field]}

\* A telegram sets exactly the readings whose bytes it carries in full, and to
\* what the boiler has there, wherever the boiler cuts its memory: no reading
\* is put together of two telegrams or of bytes outside one, and the readings
\* that come out of one byte are of one moment.  Only the outdoor temperature is
\* cleared by a telegram that does not carry it.
ReadingsAreWhole ==
  [][ProcessTelegram =>
       LET s == Head(inbox).said
       IN  \A field \in DOMAIN Nothing :
             shown'[field] =
               CASE Holds(s, field) -> Meant(s, field)
                 [] ~Holds(s, field) /\ field = "outdoor" /\ s.type = "outdoor" -> {}
                 [] OTHER -> shown[field]]_monitorVars

\* Every telegram the controller makes is read by its addressee as it was sent.
SentIsRead ==
  \A t \in Sent :
    LET raw == encodeToRawDataWithCRC(t)
    IN  Undamaged(raw) /\ getFromRawData(raw) = AsRead(t)

\* No frame of the boiler and no heat command passes with one byte damaged.
DamageIsSeen ==
  \A raw \in {OnTheBus(s, 0) : s \in Bodies}
             \cup {encodeToRawDataWithCRC(t) : t \in HeatCommands} :
    \A bad \in Damaged(raw) : ~Undamaged(bad)

\* The addressee reads what was sent, in every telegram the controller makes and
\* in every one of the boiler that waits to be processed, and the check sum
\* rejects every frame in which the bus damaged one byte.
WireIsTrusted ==
  /\ SentIsRead
  /\ DamageIsSeen
  /\ \A i \in DOMAIN inbox :
       \E d \in Destinations :
         inbox[i].telegram = AsRead(ToTelegram(inbox[i].said, d))
=============================================================================
