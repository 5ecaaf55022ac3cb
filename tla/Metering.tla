------------------------------ MODULE Metering ------------------------------
(***************************************************************************)
(* What the boiler burns and how much hot water it gives: EmsMetrics        *)
(* (src/src/EmsMetrics.h) sums up the boiler's readings, and MQTT           *)
(* (src/src/MQTT.h) takes the sums and publishes them.                      *)
(*                                                                         *)
(* Readings, cycles and publications are steps of one task, the loop.  A    *)
(* reading holds until the next one.  Energy is counted in percent of       *)
(* nominal power times ticks; the rounding of doubles is left out.          *)
(***************************************************************************)
EXTENDS Integers, FiniteSetsExt

CONSTANTS
  Powers,        \* burner powers the boiler reports, percent
  Flows,         \* flows of hot water it reports
  Nominal,       \* the nominal power of the boiler
  PublishEvery,  \* config_.interval of MQTT, in ticks
  Sizes,         \* sizes of the packets that are published
  MaxBurned,     \* bounds of the model: energy and water not yet published
  MaxDrawn

ASSUME MeteringAssumption ==
  /\ Powers \subseteq Nat /\ 0 \in Powers
  /\ Flows \subseteq Nat /\ 0 \in Flows
  /\ Nominal \in Nat \ {0} /\ PublishEvery \in Nat \ {0}
  /\ Sizes \subseteq Nat /\ \A s \in Sizes : s < 65536
  /\ MaxBurned \in Nat /\ MaxDrawn \in Nat

VARIABLES
  power,       \* previousPowerState_.powerPercentage
  powerFor,    \* now - previousPowerState_.time
  nominal,     \* boilerNominalPower_
  heating,     \* heatingActive_
  warmWater,   \* warmWaterActive_
  energy,      \* totalEnergyUsedKwh_, heatingEnergyUsedKwh_, warmWater...
  flow,        \* previousWarmWaterState_.flow
  flowFor,     \* now - previousWarmWaterState_.time
  water,       \* totalWarmWaterUsage_
  waiting,     \* time since publishEmsMetricsCounter_ last passed
  connected,   \* the broker has a connection
  aligned,     \* the broker looks for the next packet where one begins
  short,       \* history: a packet went out in part on this connection
  burned,      \* history: what was burned since the sums were last taken
  drawn,       \* history: water drawn and not yet taken
  missed       \* history: energy was summed up without the nominal power

readings == <<power, powerFor, nominal, heating, warmWater>>
sums     == <<energy, water>>
link     == <<connected, aligned, short>>
stream   == <<waiting, link>>
actual   == <<burned, drawn, missed>>
meterVars == <<readings, flow, flowFor, sums, stream, actual>>

NoEnergy == [total |-> 0, heating |-> 0, warmWater |-> 0]

-----------------------------------------------------------------------------
(* Readings: the processors of telegrams *)

Used == nominal * power * powerFor

Plus(e, used) ==
  [total     |-> e.total + used,
   heating   |-> e.heating + IF heating THEN used ELSE 0,
   warmWater |-> e.warmWater + IF warmWater THEN used ELSE 0]

calculatePowerUsage(next) ==
  /\ energy' = Plus(energy, Used)
  /\ power' = next /\ powerFor' = 0
  /\ missed' = (missed \/ (nominal = 0 /\ power * powerFor > 0))

\* getHeatingActive and getWarmWaterActive, from three bits of one byte.
SetActive(gas, pump, valve) ==
  /\ heating' = (~valve /\ pump)
  /\ warmWater' = (gas /\ valve)

\* UBAMonitorFastPlus: a telegram may carry either byte without the other.
\* The time up to a change of the flags is summed up before it only if the
\* power came with it.
BoilerReading ==
  /\ \/ \E p \in Powers : calculatePowerUsage(p)
     \/ UNCHANGED <<power, powerFor, energy, missed>>
  /\ \/ \E gas, pump, valve \in BOOLEAN : SetActive(gas, pump, valve)
     \/ UNCHANGED <<heating, warmWater>>
  /\ UNCHANGED <<nominal, flow, flowFor, water, stream, burned, drawn>>

\* UBAMonitorWWPlus, calculateWaterUsage
WaterReading(f) ==
  /\ water' = water + flow * flowFor
  /\ flow' = f /\ flowFor' = 0
  /\ UNCHANGED <<readings, energy, stream, actual>>

\* UBAFactory: a telegram without the field sets the power to zero.
FactoryReading(n) ==
  /\ nominal' = n
  /\ UNCHANGED <<power, powerFor, heating, warmWater, flow, flowFor, sums,
                 stream, actual>>

-----------------------------------------------------------------------------
(* Publication *)

MutBytesNeeded(size) == Min({n \in 1 .. 4 : size <= 128 ^ n})

\* howManyBytesWeNeedToEncodeSize, the room left in the header
BytesNeeded(size) == Min({n \in 1 .. 4 : size < 128 ^ n})

\* The digits written there: seven bits each, the eighth says that more follow.
\* The size is narrowed to 16 bits first.
Digits(size) ==
  LET len  == size % 65536
      last == Min({n \in 1 .. 3 : len < 128 ^ n})
  IN  [i \in 1 .. last |->
         ((len \div 128 ^ (i - 1)) % 128) + IF i < last THEN 128 ELSE 0]

\* The broker reads digits up to one without the eighth bit, looks for the
\* topic behind them and for the next packet where their value says.
Understood(size) ==
  LET digits == Digits(size)
      last   == Min({i \in DOMAIN digits : digits[i] < 128})
      value[i \in 0 .. last] ==   \* of the first i digits
        IF i = 0 THEN 0
        ELSE value[i - 1] + (digits[i] % 128) * 128 ^ (i - 1)
  IN  last = BytesNeeded(size) /\ value[last] = size

\* With the connection the stream ends.
Break == connected' = FALSE /\ aligned' = TRUE /\ short' = FALSE

\* publish writes the header, the topic and the payload, and does not look at
\* what became of any of them: all of it may go out, or nothing, or a part
\* while the connection lasts, or the connection breaks.
Publish(size) ==
  \/ aligned' = (aligned /\ Understood(size)) /\ UNCHANGED <<connected, short>>
  \/ UNCHANGED link
  \/ aligned' = FALSE /\ short' = TRUE /\ UNCHANGED connected
  \/ Break

\* Another topic: rooms, status, device status, discovery.
PublishOther ==
  /\ connected
  /\ \E size \in Sizes : Publish(size)
  /\ UNCHANGED <<readings, flow, flowFor, sums, waiting, actual>>

MutGetMetrics ==
  /\ energy' = NoEnergy /\ water' = 0
  /\ powerFor' = 0
  /\ burned' = IF missed \/ nominal = 0 THEN 0 ELSE burned - energy.total
  /\ drawn' = drawn - water
  /\ missed' = FALSE
  /\ UNCHANGED <<power, nominal, heating, warmWater, flow, flowFor>>

\* getMetrics: the sums, the energy since the last reading included, are taken
\* and start anew.  (The average flow is always published as 0.)
getMetrics ==
  /\ energy' = NoEnergy /\ water' = 0
  /\ powerFor' = 0
  /\ burned' = IF missed \/ nominal = 0 THEN 0
               ELSE burned - Plus(energy, Used).total
  /\ drawn' = drawn - water
  /\ missed' = FALSE
  /\ UNCHANGED <<power, nominal, heating, warmWater, flow, flowFor>>

\* publishEmsMetrics, from operate()
PublishMetrics ==
  /\ connected
  /\ waiting = PublishEvery
  /\ waiting' = 0
  /\ getMetrics
  /\ \E size \in Sizes : Publish(size)

Connect ==
  /\ ~connected
  /\ connected' = TRUE /\ aligned' = TRUE /\ short' = FALSE
  /\ UNCHANGED <<readings, flow, flowFor, sums, waiting, actual>>

Disconnect ==
  /\ connected
  /\ Break
  /\ UNCHANGED <<readings, flow, flowFor, sums, waiting, actual>>

-----------------------------------------------------------------------------
\* A restart loses the sums.
Reboot ==
  /\ power' = 0 /\ powerFor' = 0 /\ nominal' = 0
  /\ heating' = FALSE /\ warmWater' = FALSE
  /\ flow' = 0 /\ flowFor' = 0
  /\ energy' = NoEnergy /\ water' = 0
  /\ waiting' = 0 /\ Break
  /\ burned' = 0 /\ drawn' = 0 /\ missed' = FALSE

\* How long nothing was burned or drawn makes no difference.
Tick ==
  /\ burned + Nominal * power <= MaxBurned /\ drawn + flow <= MaxDrawn
  /\ powerFor' = IF power = 0 THEN 0 ELSE powerFor + 1
  /\ flowFor' = IF flow = 0 THEN 0 ELSE flowFor + 1
  /\ waiting' = IF waiting < PublishEvery THEN waiting + 1 ELSE waiting
  /\ burned' = burned + Nominal * power
  /\ drawn' = drawn + flow
  /\ UNCHANGED <<power, nominal, heating, warmWater, flow, sums, link, missed>>

Init ==
  /\ power = 0 /\ powerFor = 0 /\ nominal = 0
  /\ heating = FALSE /\ warmWater = FALSE
  /\ flow = 0 /\ flowFor = 0
  /\ energy = NoEnergy /\ water = 0
  /\ waiting = 0 /\ connected = FALSE /\ aligned = TRUE /\ short = FALSE
  /\ burned = 0 /\ drawn = 0 /\ missed = FALSE

Next ==
  \/ BoilerReading
  \/ \E f \in Flows : WaterReading(f)
  \/ \E n \in {0, Nominal} : FactoryReading(n)
  \/ PublishOther
  \/ PublishMetrics
  \/ Connect
  \/ Disconnect
  \/ Reboot
  \/ Tick

Spec == Init /\ [][Next]_meterVars

-----------------------------------------------------------------------------
(* Properties *)

\* Every field keeps its type.
TypeOK ==
  /\ power \in Powers /\ flow \in Flows
  /\ nominal \in {0, Nominal}
  /\ heating \in BOOLEAN /\ warmWater \in BOOLEAN /\ missed \in BOOLEAN
  /\ connected \in BOOLEAN /\ aligned \in BOOLEAN /\ short \in BOOLEAN
  /\ energy \in [total : 0 .. MaxBurned, heating : 0 .. MaxBurned,
                 warmWater : 0 .. MaxBurned]
  /\ water \in 0 .. MaxDrawn
  /\ powerFor \in Nat /\ flowFor \in Nat
  /\ waiting \in 0 .. PublishEvery
  /\ burned \in 0 .. MaxBurned /\ drawn \in 0 .. MaxDrawn

EnergyMetered ==
  LET metered == energy.total + Used
  IN  /\ metered <= burned
      /\ ~missed /\ nominal = Nominal => metered = burned

WaterMetered == water + flow * flowFor = drawn

\* Nothing is metered twice, and nothing is forgotten, however readings, their
\* absence and publications follow on each other: what was burned since the
\* sums were last taken is what they hold now with the time since the last
\* reading, less only what was summed up before the nominal power was known.
\* Water is taken without the time since the last reading, which the next one
\* must then count.
MeteredOnce == EnergyMetered /\ WaterMetered

\* Energy is used for space heating or for hot water, not for both: the parts
\* never add up to more than the total that is published with them, although
\* power and flags may come with different telegrams.
PartsWithinTotal == energy.heating + energy.warmWater <= energy.total

\* Both: what is published can be billed.
SumsAreTrue == MeteredOnce /\ PartsWithinTotal

\* The broker can tell where each packet ends, through any sequence of packets
\* of any sizes, those lost altogether included, as long as none has gone out in
\* part on this connection.
BrokerKeepsInStep == connected /\ ~short => aligned
=============================================================================
