# A verification project for open_thermostat

open_thermostat is the firmware of a central-heating controller on an ESP32. It
hears Bluetooth thermometers in the rooms, opens and closes valves, and fires a
boiler through a relay, through a relay and a supply temperature, or over the
boiler's EMS bus. This directory holds TLA+ models of that program, the TLC runs
that check them on small instances, and TLAPS proofs for all instances.

Source paths below are relative to the repository (`src/` is its source
directory); `PROJECT.json` maps every definition to the lines it models.

## 1. Inventory

### Tasks

| task | what it runs | how often |
|---|---|---|
| Arduino loop | `HeatingController::operate`; then `loop` (MQTT, EMS telegrams); then REST requests | every 10 s; every turn; every turn (`main.cpp` 216-239) |
| EmsBusUart | `processTelegram`, `processPoll` of `EmsController` | per frame, highest priority |
| forwarder UART | frames of the attached EMS devices | per frame |
| NimBLE host | `pushTemperatureData`, `scanFinished` | per advertisement |
| weather fetch | one HTTP request | once per period |
| WiFi events | start of the web server, time zone, name service | per event |

`operate`, EMS telegram processing, MQTT and REST never overlap: they share a
task. What overlaps is the loop task with the NimBLE task (through
`roomsAccessMutex_` and each room's mutex), with the UART tasks (through the queue
mutex and one atomic counter) and with the weather task (through atomics).

### Components

| component | state | operations | hard part | correct when |
|---|---|---|---|---|
| `BoilerController` | relay, coils, shadow states, preheating flag and clock, manual test and its end, what EMS was told | `startBoilerOrContinue`, `handleValves`, manual test start/stop, lazy expiry | three writers of one output; a test that ends in three ways; preheating that is abandoned | outputs, shadow state and EMS commands agree; no fire while preheating; nothing outlives a test |
| `HeatingController` | rooms, program, watchdog clock, scan switch | `operate`, `pushTemperatureData`, reload, restart | verdict, valves and boiler are three steps; sensors fall silent; restarts | never heats blind; rooms that want heat get it; demand is served and rest is reached |
| `EmsController` | send queue, receive queue, unconfirmed counter, boiler parameters | commands, periodic requests, telegram processing, polls, echoes, reset | two tasks, reset from either, lost frames, uninitialised counter, full queue | commands in order and never lost silently; nothing sent above the limit |
| `Room`, `RoomConfig` | samples, temporary override, statistics | store, judge, override, schedule | two age limits, integer widths, ranges over midnight | the verdict is that of the true mean of young samples |
| `HeatingCurve` | the curve | interpolation | ends of the curve, duplicate points | monotone, within its limits |
| `EmsBusUart`, forwarder | frame buffer, per-device queues | framing by break, read timeout, forwarding | break against data, overflow, two tasks | a frame is delivered whole or not at all |
| EMS telegrams | none | encode, decode, checksum | offsets, lengths, missing fields | decode inverts encode; a field is read whole or not at all |
| `EmsMetrics` | energy and water sums | accumulate, read and clear | readings out of order, clear on read | what is consumed is published once |
| `BeaconTemperatureReader` | scan state | trigger, finish, parse | callback against trigger, a scan that fails | scans do not overlap and go on |
| `OpenWeather` | last temperature, pending fetch | operate, fetch | failed or hanging fetch | one request at a time; a good answer is used |
| `MQTT` | connection, publication counters | publish, discovery | lost connections, packet lengths | the broker keeps in step with the stream |
| `REST`, configuration | program files, the selected one, update in progress | save, select, delete, both updates, restart | writes that fall short, updates that fail or are cut | what runs is what is stored; success means a whole image |
| `PcfGpioPort`, hardware settings | a shadow register per device, the map from names to circuits | write, save, load | read-modify-write, transmissions lost, settings saved while older ones run | a relay is where its port was told; a name means the circuit that carries it |
| `main.cpp`, WiFi | access point or network, connection, server, cycle clock | set up, events, reconnect | events against loop, settings that do not parse | the owner can reach the device in the end |

The hazards of each are listed, with lines, under "hazards" in `PROJECT.json`.

## 2. Modules

    Boiler  <--EXTENDS--  Heating  <--EXTENDS--  MCHeating  <--EXTENDS--  MCPreheat
                             ^
                        HeatingProofs

    HeatChannel  <--INSTANCE--  EmsController  <--EXTENDS--  MCEmsSet
                                    ^
                                 EmsProofs
    RoomControl  <--EXTENDS--  MCRoom
      ^
    RoomProofs

    OpenWeather, BleScan, HeatingCurve  <--EXTENDS--  Sensing  <--EXTENDS--  MCSensing
                                                        ^
                                                   SensingProofs
    Metering, EmsTelegram  <--EXTENDS--  Monitoring  <--EXTENDS--  MonitoringProofs

    Rest, Access  <--EXTENDS--  Service  <--EXTENDS--  RestProofs

    Ports  <--EXTENDS--  Wiring  <--EXTENDS--  MCWiring
                           ^
                      PortsProofs

    EmsBus  <--EXTENDS--  EmsBusProofs

**Boiler** models `BoilerController`: one action per public method, called in any
order with any arguments, plus restart and the passage of time. Time points are
kept as what the code compares them with: how long preheating has run (up to the
delay) and how long the test has left. `TestExpired` is a test past its end that
`isManualTestActive` has not yet noticed; the methods that call it stop the test
first, as in the code. `commanded` is what `EmsController` was told: to heat or
not, the flow temperature, and the heating-temperature parameter. The history
variable `tested` says that a manual test (or a restart with the EMS boiler on)
set the boiler state behind `changeBoilerState`'s back.

**Heating** is `HeatingController::operate` in the three steps between which time
passes in the code (the rooms' loop, the valves with their power-surge delays, the
boiler), composed with `Boiler`, and what interleaves with it: temperatures pushed
by the NimBLE task, REST requests (manual test, program change), the watchdog and
power cuts. A restart may come up as an access point, which has no Bluetooth. A room's verdict is any its fresh samples allow. The
room loop holds `roomsAccessMutex_` throughout, hence one step; requests share the
task with `operate`, hence land between cycles. `HeatingUsesBoiler` (proved) says
the composition calls `Boiler` only as `Boiler` may be called.

**EmsController** models the two tasks over the send queue. A task's `todo` holds
what is left of its current call, one entry for each critical section or atomic
operation, and each step carries out one entry of one task; `reset()` is therefore
several steps, which the other task may fall between. The bus is half duplex: the
frame last written is on the `wire` until its echo comes back or it is lost. The
boiler (`Obeyed`) is external and modelled by what the code expects of it.

**HeatChannel** is the abstract specification of the heat commands: a lossy queue
that neither reorders nor repeats. `EmsController` implements it under the
mapping `pending <- heat commands on the wire and in the queue`.

**RoomControl** is `Room` with its schedule. Temperatures are 16-bit hundredths of
a degree; the mean divides 32-bit words as unsigned, since `avgTemp /=
validSamples` converts the signed sum to `size_t`, and narrows the quotient to 16
bits. The clock of day may jump (it is set over the network), the steady clock
ticks. The mutex of the room makes each method one step.

**EmsBus** is `EmsBusUart` with the queues of its forwarder. The driver of the UART
keeps the bytes it received apart from the events that announce them, and the task
keeps a count of its own: `ring`, `events` and `length`. At a break it reads as many
bytes as it counted. A byte that finds the ring full, or the FIFO behind it, is lost
with an event that says so (`Overflow`). An event that finds its queue full is lost
without a sign, its byte stays, and the count falls behind (`Notify`). `dropped`
remembers that until ring, queue and count are empty together: at the next overflow
whose event finds room, or at the next reset. What the module is about is that the
three agree, through overflows, over-long telegrams, senders that stop in the middle, a telegram of our
own that goes out while the task waits, and `reset()` from three places. `reset()`
and the overflow branches discard the bytes in one step and the events in another,
between which the driver may receive (`Discarding`). A poll is answered from the
queue of an attached device if a telegram waits there, otherwise handed to
`EmsController`, which is kept here only as far as it writes to the bus or resets
it. In `EmsController` in turn, frames arrive whole (`BusEvent`). `cuts` counts the
discards that fall into a telegram.

**Sensing** composes where measurements come from. *BleScan* is the scan state
machine of `BeaconTemperatureReader`: `triggerScan` on the loop task looks at a flag
and a time that `scanFinished` writes one after the other on the NimBLE task.
*OpenWeather* is the weather request: one task per request, the flag that is to keep
them apart, a service that answers late, badly or never, and a clock that wraps.
*HeatingCurve* is the interpolation, with the one hundredth that the rounding of
`float` may cost a whole result. *Sensing* itself is the end of `operate()`, which
triggers both, the watchdog, and `getOutdoorTemperature`, which chooses among what
there is. A tick is a cycle of the loop task.

**Metering** is `EmsMetrics` with what `MQTT` makes of it. Readings arrive in any
order and in part; `powerFor` and `flowFor` are how long the last ones have held.
`burned` and `drawn` are history: what was used since the sums were last taken.
`aligned` says that the broker looks for the next packet where one begins, which
rests on the digits of the packet length. `publish` ignores what becomes of its three
writes (`MQTT.h` 62-64), so a packet may go out whole, not at all, or in part; `short`
remembers the last until the connection breaks.

**EmsTelegram** is the codec of telegrams, byte for byte: header, the two kinds of
type, check sum, and the fields that a telegram carries whole. `Sent` is every
telegram the controller makes. Bits are taken as numbers (`HasBit`, `Xor`), since the
provers know no operations on bits.

**Monitoring** runs from these bytes to what is shown and metered: the UART task
decodes and queues, the loop task hands over to the processors of `EmsController`
and `EmsMetrics`. The boiler (external) sends parts of its memory, cut before,
inside and behind a field; each queued telegram remembers what the boiler said in
it, for the properties. The sums are those of `Metering`, which `Monitoring`
implements (property `Spec`; proved).

**Rest** is the requests that change programs and images. A program file may be
absent or broken; `Loads` is what the controller makes of it. An upload is one
request that occupies the loop task from its first part to its last, hence `sending`
excludes all other requests, but not power cuts. What a partition written in part
holds after a restart is any mixture of files of the image, or nothing that mounts
(`Mounts`).

**Access** is how the web server is reached: the choice between access point and
network in `setup`, the events that start the server, the loop that reconnects and
handles requests. **Service** composes both: requests need the connection, the WiFi
and device settings lie in the file system that updates erase, and a request can
save them, cut short or not. Every behaviour of `Service` is one of `Rest` (proved).

**Ports** is the output ports. `Boiler` takes a port for the level last written to
it; `Ports` says when the relay is there too. The ports on one expander share its
shadow register, every write transmits the whole of it, and a transmission may be
lost without anybody looking (`lost`). Expanders keep their outputs when the ESP32
alone restarts. **Wiring** builds the ports and the map from names to circuits from
the hardware settings, which a request may save at any time and which are read at
the start only; the program, which names its circuits, is loaded at once. `booted` is
the file as it was at the start. `Wiring` implements `Ports` (proved).

**MCHeating**, **MCPreheat**, **MCEmsSet**, **MCRoom**, **MCSensing** and **MCWiring**
give constants their values; MCPreheat and MCEmsSet add history variables for one
property each.

Definitions called `Mut...` are wrong variants of the definition that follows:
plausible slips (a dropped reset, a limit not looked at, a queue's wrong end) with
which a property must fail. They are not part of any specification.

## 3. Runs

| run | states | what it shows |
|---|---|---|
| `heating` | 321,000 | over all interleavings of the cycle, in three modes: outputs, shadow state and EMS commands agree (`OutputsFollowState`, `EmsFollowsState`), preheating and tests (`NoFiringWhilePreheating`, `TestLeavesNothingOn`), `NeverHeatsBlind`, `HeatReachesRooms`, `SupplyHonoursOverride`; and `ComesToRest`, `DemandIsServed`, `SilenceEnds`, `ManualTestsEnd` |
| `ems` | 3.6 million | `ChannelSpec` (refinement), `NewestHeatObeyed`, `SendsWithinLimit` |
| `room` | 31,000 | `MissingExactlyWhenStale`, `VerdictIsTrue`, `ColdRoomAsksForHeat` |
| `bus` | 2.1 million | `StaysInStep`: the bytes a break announces are there, and what is processed is what came between two breaks, unless an event was dropped; `ForwardedIsSent` |
| `service` | 378,000 | `RunsWhatIsStored`, `RoomsRemain`, `SuccessMeansWhole`; `StaysReachable`: however settings, network and updates fail, the owner reaches the device again |
| `monitoring` | 1.1 million | `ReadingsAreWhole`, `WireIsTrusted`, `SumsAreTrue`, `BrokerKeepsInStep`; `Spec` (refinement of `Metering`) |
| `wiring` | 19,000 | `RelaysFollow`, `RelaysMoveAsTold`, `NamesMeanTheirCircuits` |
| `sensing` | 457,000 | `OneFetchAtATime`, `ScansDoNotOverlap`, `NoRestartWhileHeard`, `CurveStaysBetweenPoints`, `ScanningGoesOn`, `WeatherIsUsed` |
| `preheat_stale` | violated | the end of an abandoned preheating period starts the boiler on cold valves |
| `ems_set` | violated | the boiler may keep an older heating temperature although nothing was lost |
| `bus_cut` | violated | a reset by the timeout or the loop task leaves the UART task out of step with the bus |
| `room_frost` | violated | samples below zero average to over 200 degrees, and the room is judged warm |

The four violations are disagreements between the code and a comment or log
message of its own; each is described under "findings" in `PROJECT.json`. More
was met on the way, and is not a run:

* When `millis()` wraps about the deadline of the weather request, the next request
  waits for the clock to come round (49 days).
* Stopping a manual test in ems mode does not "turn off boiler"
  (`BoilerController.h:162`), since only the relay is written: the next cycle does.
* A full event queue of the UART is never noticed: the task counts fewer bytes than
  came, or sees no break, and processes telegrams that are none until something else
  empties the driver. With `dropped` left out of `StaysInStep` the run `bus` fails so.
* A packet that goes out in part leaves the broker reading the following packets in
  the wrong places; `publish` returns true (`MQTT.h:66`) and nothing reconnects.
* The average flow that `MQTT.h` announces is always published as 0
  (`EmsMetrics.h:85-95`).
* The maximum of the heating temperature is read into `minHeatingTemp`
  (`config.cpp:604`), which is used nowhere.

The properties of `Boiler` are checked in `heating`, where the cycle calls it, and
proved for every sequence of calls in `HeatingProofs`.

Two properties need a word. `NeverHeatsBlind` allows two ticks past the freshness
limit: one for a decision on the last fresh sample, one for the cycle that carries
it out; one tick is not enough, as the run shows when the bound is lowered.
`HeatReachesRooms` is stated between cycles, since within a cycle the valves still
belong to the previous verdict of the boiler.

### Bounds

* *Boiler, Heating*: two valves, so that a method can close one and leave the
  other. A delay of 2 for the relay and for ems, 0 for the mode with a supply
  temperature, and tests of 1 tick, so that each deadline can expire before, with and
  after the other, and preheating can be absent. Two rooms with a valve each, three
  beacons of which one belongs to no room, two programs of which one disables a
  room, a freshness of 0 ticks and a watchdog of 3, just above the two ticks
  `NeverHeatsBlind` needs: the watchdog can fire, and firing is not what makes the
  property hold.
* *EmsController*: a queue of 3 (the program's is 60), a limit of 1 unconfirmed
  telegram (20) and a counter modulo 4 (2^32): the queue can be full with each mix
  of kinds, the counter can pass its limit, wrap below zero and start anywhere. One
  flow temperature besides "off" in `ems`; two in `ems_set`. `MaxInbox` and
  `MaxBacklog` bound the model only: the first the received telegrams waiting, the
  second how much of the UART task's call may be left when the loop task starts a
  call of its own.
* *RoomControl*: three samples (ten), ages of 1 and 2 ticks for three and five
  minutes: the buffer overflows, and a sample can lie between the two limits. The
  schedule has a setting over midnight, two overlapping ones of equal temperature
  and a disabled one; times hit the inside and the inclusive ends of ranges.
  `room_frost` has the buffer's real capacity and a tick of a minute.
* *EmsBus*: one attached device besides the controller; telegrams of 3 and 4 bytes
  with a limit of 3 (the program's is 33), so that one is too long; a ring of 4 bytes
  (129). The queue takes 2 events (68) in `bus`, so that, as in the program, it is
  full before the ring: it can drop the event of a byte, of a break alone, of both and
  of an overflow, in the middle of a telegram and between two. In `bus_cut` it takes
  6, so that a whole telegram fits and no event need be dropped to lose step.
  `MaxCuts` is a bound of the model: with 0 (`bus`) a reset by the read timeout or the
  loop task happens only outside telegrams, and no byte arrives between two discards;
  with 1 (`bus_cut`) it may happen once, which suffices to lose step.
* *Service*: two programs, so that one can be selected while the other is written or
  deleted; one body, since for any bodies `RunsWhatIsStored` is proved. An attempt to
  join takes 1 tick of a cycle's 2, so that it can end before, with or be dropped by
  the cycle's reconnection.
* *Monitoring*: three moments of the boiler that differ in every flag and whose flow
  temperature changes both bytes; four cuts, two of them inside the flow temperature,
  one before the flags; telegrams to everybody, to us and to somebody else. Powers and
  flows of 0 and 1 and one telegram queued; packet sizes on both sides of the change
  from one digit to two and the first with three. `MaxBurned` and `MaxDrawn` bound the
  model: time stops when so much was used and not yet published. The sums are proved
  for all values.
* *Wiring*: two expanders of two pins and two built-in pins; three ports; four
  settings chosen so that rows are not used, change places, have no label or one label
  twice, lie on an expander that is not listed, and fall into the file cut short.
* *Sensing*: scans and pauses of one tick and a watchdog of 4, the least that
  `ScanAssumption` allows: with 3, `NoRestartWhileHeard` fails, and the same was seen
  for scans and pauses of two. A clock of 6 counts that a cycle advances by 1 or 2, so
  that a request's deadline can be met, passed over, and lie on either side of the
  wrap; with cycles of one length the deadline is always met exactly. Two weather
  temperatures, the curve of the unit tests, and outdoor temperatures beyond both
  ends of its axis in hundredths.

### Fairness

`HeatingFairness` is weak fairness of the three steps of `operate`, of the
watchdog's restart and of the passage of time: the loop task calls `operate` every
ten seconds and never blocks in it. Nothing is assumed of sensors, requests, tests
or power. `PassTime` waits for a completed cycle (`cycled`): a tick of the model is
longer than ten seconds. `RoomControl` assumes the same of the judging of its room.
`ComesToRest` and `DemandIsServed` assume in their statements that manual tests and
power cuts stop at some time (`LeftAlone`), since a test repeated for ever holds
the boiler for ever. Restarts by the watchdog may go on. `EmsBus` assumes that a byte begun arrives and that the UART
task runs: it has the highest priority of all tasks. `ForwardedIsSent` says in its
statement what it needs of the bus: the device is polled again and again, and from
some time on no byte and no event is lost, nobody resets the driver and the master leaves us the
time to answer (`Undisturbed`). `EmsController` has safety properties only,
so far. `SensingFairness` is that the loop task and time go on, that a scan ends when
its time is up, that an HTTP request times out and that a ready task runs. `WeatherIsUsed` says in its statement that
requests go on, which the code does not ensure when the clock wraps.
`ServiceFairness` is that the loop task and time go on, that the task of the WiFi
events runs, and that an upload which nobody continues is given up (the web server
times out). `StaysReachable` says in its statement that the network stays in the end
and that restarts end. The heating cycle takes the loop not to be held by an upload
for ever (`REST.h:805`). `Rest`, `Metering`, `Monitoring`, `Ports` and `Wiring` have
safety properties only.

### Assumptions about configuration

* The configuration is fixed while a controller lives, but for the program.
* Each valve belongs to one room (`OneRoomPerValve`, a hypothesis of
  `HeatGetsThrough`). With a valve in two rooms `HeatReachesRooms` fails: the
  satisfied room closes it against the other. What holds then is
  `OnlySatisfiedRoomsClose`.
* No thermometer reports less than zero degrees and a room's buffer holds at most
  65,536 samples (hypotheses of `VerdictOfMean`; the code's buffer holds ten). Below
  zero the verdict is wrong, as `room_frost` shows.
* There is at least one room. With none, the room loop does not run and the
  watchdog in it never fires, so `SilenceEnds` fails.
* Supply-temperature overrides include "none".
* Two scans and the pause between them are shorter than the watchdog's five minutes
  (`ScanAssumption`); a weather period with the longest cycle is shorter than a turn
  of `millis()` (`WeatherAssumption`).
* An attempt to join the network takes less than the ten seconds of a cycle
  (`AccessAssumption`): otherwise `WiFi.reconnect` drops each attempt.
* No two ports have one place (`Configured`), and labels are not numerals. Two ports
  at one pin write it against each other, and `RelaysFollow` fails.
* The boiler reports powers, flows and its nominal power as bytes
  (`MonitoringAssumption`), which is how it sends them.
* Packets are shorter than 65,536 bytes (`MeteringAssumption`): beyond, `publish`
  narrows their length to 16 bits.
* `BrokerKeepsInStep` speaks of connections on which no packet went out in part
  (`short`); `TelegramsAreWhole` of times since which no event was dropped (`dropped`).

## 4. Proofs

All theorems hold for every value of the constants that satisfies the named
assumptions (`BoilerAssumption`, `HeatingAssumption`, `EmsAssumption`,
`EmsBusAssumption`, `MeteringAssumption`, `MonitoringAssumption`, `RestAssumption`, `AccessAssumption`,
`PortsAssumption`, `WiringAssumption`, `ScanAssumption`, `WeatherAssumption`,
`SensingAssumption`, `RoomAssumption`). Two theorems have a hypothesis beside these,
which section 3 explains: `HeatGetsThrough` and `VerdictOfMean`.

**HeatingProofs**, of `Boiler`. The inductive invariant `IInv` is the conjunction of
`TypeOK` and the four safety properties with `DelayedPreheating` (preheating implies a
positive delay): the properties are not inductive one by one. That the relay is open
while valves preheat rests on tests leaving nothing on, since
`startBoilerOrContinue` only begins preheating with the boiler off; that in turn rests
on the outputs following the state. `ExpiryAtRest` says what a method finds once it
has looked for an expired test; `ChangeBoilerStateKeeps` and `KeepBurnerKeeps` are the
two ways a method leaves the burner. Results: `TypeCorrect`, `StatusIsTrue`,
`CommandIsTrue`, `PreheatingIsCold`, `TestsEndCold`.

**HeatingProofs**, of `Heating`. `StepIsBoilerStep` shows every step of the
composition to be a step of `Boiler` or to leave it alone, so `IInv` carries over
(`HeatingUsesBoiler`: `HeatingSpec => Spec`). `NeverHeatsBlind` bounds the silence of
all sensors by a chain of three facts in `HInv`: silence is no longer than the age of
any fresh sample (`SamplesBoundSilence`); a verdict for heat was given on a sample
that was fresh then, at most one tick ago (`VerdictsBoundSilence`); and a running
boiler obeys the last verdict, at most one more tick later (`FiringBoundsSilence`).
`HeatReachesRooms` speaks of the moments between cycles only, and the valves are set
before the boiler: `ValvesFollowVerdicts` says of every moment from the valves' step to
the next verdicts that only a satisfied room keeps a valve closed, whether the boiler
runs or not. That no boiler step closes a valve is `BoilerClosesNothing`.
`SupplyHonoursOverride` is inductive; `BurningIsCommanded` and `TestsStartNothing`
say that a boiler which burns under automatic control was commanded in this cycle.
Results: `HeatingTypeCorrect`, `NeverBlind`, `OnlySatisfiedRoomsClose`,
`HeatGetsThrough`, `OverrideIsHonoured`.

**EmsProofs.** Type correctness includes the queue's limit, although each task may
find it full in turn. `SendsWithinLimit` needs that whatever stands in the UART
task's `todo` before an answer to a poll puts the counter right
(`LimitBeforeAnswer`), and that counting entries stand alone there (`CountsLast`),
so that the loop task's `reset()` is the only other writer, and it only lowers the
counter. That heat commands keep their order needs two facts of what is left of each
call: what is pushed in front of the queue is always a request
(`FrontsAreRequests`), and no poll is answered while a frame is on the wire
(`WireThenPoll`). With them every step is one of the channel's or none
(`ChannelStep`), which yields both the refinement and `NewestIsLast`: the newest
command is the last on its way, or obeyed, unless one was lost. Results:
`EmsTypeCorrect`, `SendsInLimit`, `NewestObeyed`, `ImplementsChannel`.

**EmsBusProofs.** The driver's bytes and events are tied together by nothing but their
numbers. `Matched` says how: the events can be numbered by positions in the ring so
that a data event moves on by one byte and never past the last (`Numbers`), and, as
long as none was dropped, a break event stands at a break and no break is without one
(`Exact`). Dropping an event gives up the second and keeps the first
(`LooselyMatched`), so the task still finds what it reads. Counting a byte, seeing a break and reading a telegram each move the
beginning of that numbering (`CountMatched`, `BreakMatched`, `ReadMatched`), the
driver its end (`ByteMatched`, `LastByteMatched`, `OverflowMatched`). Between the two halves of a reset the ring must be empty and nothing
counted (`RingEmptied`, `NothingCounted`), which is what fails when a discard falls
into a telegram; `cuts` records that. Results: `BusTypeCorrect`, `TaskStaysInStep`.

**MonitoringProofs**, of `EmsTelegram`. A byte is told by its bits (`BitsTellByte`), so
neither exclusive or nor the table of the check sum takes two bytes to one
(`XorInjective`, `TableInjective`); two frames that differ in one byte therefore have
check sums that differ from there to the end (`CrcsDiffer`), and with the byte of the
check sum itself that makes `DamageNoticed`. `RoundTrip` takes a frame apart in two: the
header tells operation, addresses and offset (`HeaderTells`), what follows the type and
the data (`RestTells`). It holds of every message with identifiers of seven bits, a type
the frame has room for, and data where the kind needs it (`Message`); `SentAreMessages`
says that the controller makes no other.

**MonitoringProofs**, of `Monitoring`. Each queued telegram is a window of the boiler's
memory (`Inbox`); what the memory holds at each place is `MemoryIs`. A field read from a
telegram is the number at its place in the memory if the window covers all of it, and
absent otherwise (`ValueRead`, `HoldsIs`). From this follows, processor by processor, which
readings are set and which step of `Metering` is taken (`FastPlusProcessed`,
`WWPlusProcessed`, `FactoryProcessed`, `OutdoorProcessed`, together `Processed`): both
the action property and the refinement. Results: `WireTrusted`, `EveryReadingIsWhole`,
`ImplementsMetering`, `WireIsBilledOnce`.

**MonitoringProofs**, of `Metering`. While the nominal power is unknown `MeteredOnce` says
nothing of the time since the last reading, which is billed once the nominal power comes:
the invariant `FullyMetered` counts that time at the true power. The products of power
and time are why `OneMore` and `Product` stand apart from the steps. Of the packets,
`HeaderUnderstood`: the digits of a length below 65,536 are as many as the header has
room for and add up to it; `aligned` or `short` is then invariant. Results: `MeteringTypeCorrect`, `NothingMeteredTwice`,
`PartsStayWithinTotal`, of both `PublishedSumsAreTrue`, and `BrokerFollows`.

**PortsProofs.** `RelaysFollow` speaks of the expanders' outputs, but what the next
transmission puts out is in the shadow. `ShadowIsTold`: a bit of the shadow is LOW
exactly where a port was told to be on, which needs that no two ports have one place;
`OutputsAreShadow`: only a lost transmission keeps the outputs from the shadow. A
transmission, whoever causes it, then moves relays only to where they were told to
be. `WiringImplementsPorts` says that ports built from any settings behave so, hence
`WiredRelaysFollow`. That a name means the row that carried it follows from what
`valveLabelMap` and the ports were built of (`WInv`); that leaving out unused rows
moves labels and ports alike is `PinsAgree`, proved over the rows one at a time.
Results: `RelaysAreWhereTold`, `NoRelayMovesUntold`, `NamesAreTheirRows`.

**RestProofs.** `MountedFiles`: files are in use exactly while the partition holds
files. `UploadInOrder`: an upload that goes on has lost nothing, and one to the file
system has unmounted it, hence `SuccessMeansWhole` although an earlier upload may have
failed anywhere. `DamageNoted` and `ProgramsWhole` carry `RoomsRemain`. Results:
`RestTypeCorrect`, `ControllerRunsWhatIsStored`, `UndamagedRoomsRemain`,
`UpdatesAreWhole`; and `ServiceUsesRest`, by which they hold of the whole device.

**SensingProofs.** `NoRestartWhileHeard` bounds the silence at each stage of scan,
callback and pause (`SilenceBounded`). For that the stages must be in order although
the loop task reads what the NimBLE task writes in two stores (`ScansInOrder`).
The curve keeps between its points whichever rounding a whole result suffers, since a
line keeps between its ends (`OnTheLine`) and the axis has two neighbours for every
reading inside it (`WhereReached`). Results: `SensingTypeCorrect`, `OneClientUser`,
`WatchdogStaysQuiet`, `ScansApart`, `CurveIsFollowed`.

**RoomProofs.** `isTemperatureValid` looks at the newest sample, the mean at all. That
they agree on whether a room has a temperature rests on the order of age in the
buffer, part of `TypeOK` and kept by `PushInOrder`. `VerdictIsTrue` compares the exact
mean, the code a truncated quotient of 32-bit words. Where no sample is negative and
the sum fits (`SumBounded`), the long division by halves is the division of numbers
(`QuotientIs`), and truncation does not move the mean over a whole margin
(`BelowMean`). Results: `RoomTypeCorrect`, `MissingMeansStale`, `VerdictOfMean`.

What a recursive function or a fold computes (`HeatCommands`, `ValvePins`, the sum of
samples, the digits of a length, the check sum) is proved by least counterexample: a set of numbers
that is not empty has a least one (`LeastNatural`, from which `UpTo`), since the
induction theorems of the library take an operator, which the provers cannot
instantiate.

Model-checked only: the liveness properties (`ComesToRest`, `DemandIsServed`,
`SilenceEnds`, `ManualTestsEnd`, `ColdRoomAsksForHeat`, `ForwardedIsSent`,
`StaysReachable`, `ScanningGoesOn`, `WeatherIsUsed`), which are out of the prover's
reach, and the four violations. Every invariant, action property and refinement of the
passing runs has a theorem, two of them under the hypotheses named above.

## 5. Not modelled, and the plan

Not modelled: pages and JSON of the REST server; the contents of an image; texts of
MQTT messages; logging; time zone, RTC and name service; the layout of advertisements;
telegram types that only fill values shown in the UI, signed bytes and 32-bit fields,
and EMS2 frames of fewer than seven bytes; parity and framing errors of the UARTs;
transmissions to an expander that arrive in part; expanders of type
mcp23017, which `HeatingController.h:36` drives as if they were 16-bit PCFs; the values in the configuration
files other than WiFi, device and hardware settings (they are constants of the models).
An upload holds the loop task, and the heating cycle with it, while the boiler may
burn: `Service` has such uploads but no boiler, `Heating` no uploads. Humidity, battery
level and `devicesFound_` are only displayed.

Next, in this order:

1. Liveness of `EmsController` (a confirmed boiler state in the end, when the bus
   stops losing frames), in the run `ems`.
2. `Heating` with a loop that uploads hold: for how long a boiler may then burn.
3. An abstract specification of a receiver that takes whole frames or none, which
   `EmsBus` implements while no discard falls into a telegram.
