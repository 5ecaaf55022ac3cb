---------------------------- MODULE RoomControl ----------------------------
(***************************************************************************)
(* One room: Room (src/src/Room.h, Room.cpp) and its schedule, RoomConfig   *)
(* (src/src/RoomConfig.h, RoomConfig.cpp).  Temperatures are stored by the  *)
(* NimBLE task, the room is judged by the loop task; both hold the room's   *)
(* mutex, so each method is one step.                                       *)
(*                                                                         *)
(* Temperatures are in hundredths of a degree and keep their 16 bits; the   *)
(* mean is computed as the ESP32 computes it, with a 32-bit size_t.         *)
(***************************************************************************)
EXTENDS Integers, Sequences, FiniteSets, FiniteSetsExt, SequencesExt

CONSTANTS
  BufferSize,        \* capacity of temperatureData_
  FreshFor,          \* getMaxSampleAgeMs, in ticks
  ValidFor,          \* the limit in isTemperatureValid, in ticks
  Base,              \* config_.baseTemperature_
  MarginUp,          \* config_.temperatureMarginUp_
  MarginDown,        \* config_.temperatureMarginDown_
  Settings,          \* config_.temperatures_, a sequence
  Readings,          \* temperatures a sensor reports in this instance
  OverrideTemps,     \* temperatures of temporary overrides
  OverrideLengths,   \* their durations, in ticks
  Times, Days        \* times of day, as HHMM, and days of the week considered

Int16 == -32768 .. 32767

\* TemperatureSetting
Setting ==
  [from : 0 .. 2359, to : 0 .. 2359, days : SUBSET (0 .. 6),
   temp : Int16 \ {-32768}, supply : 0 .. 255, enabled : BOOLEAN]

ASSUME RoomAssumption ==
  /\ BufferSize \in Nat \ {0}
  /\ FreshFor \in Nat /\ ValidFor \in Nat /\ FreshFor <= ValidFor
  /\ Base \in Int16
  /\ MarginUp \in 0 .. 255 /\ MarginDown \in 0 .. 255
  /\ Settings \in Seq(Setting)
  /\ Readings \subseteq Int16
  /\ OverrideTemps \subseteq Int16
  /\ OverrideLengths \subseteq Nat
  /\ Times \subseteq Nat /\ Days \subseteq 0 .. 6

VARIABLES
  samples,       \* temperatureData_, newest last
  override,      \* temporaryOverride_, `left` 0: none or over
  program,       \* stats.currentProgram_, 0: none
  shouldStart,   \* stats.shouldStartBoiler_
  shouldHeat,    \* stats.shouldHeat_
  status,        \* what the last shouldStartBoilerAndHeat returned
  supply,        \* the heating temperature override it returned, 0: none
  judged         \* the room has been judged since the last tick

stats    == <<program, shouldStart, shouldHeat>>
returned == <<status, supply>>
roomVars == <<samples, override, stats, returned, judged>>

-----------------------------------------------------------------------------
(* The mean *)

MutCountsAll(sample) == TRUE

\* Whether a sample is young enough to count.
Counts(sample) == sample.age <= FreshFor

Fresh == {i \in DOMAIN samples : Counts(samples[i])}

Half == 65536

\* A 32-bit word as its upper and its lower half; a negative number wraps.
Upper(n) == (n \div Half) % Half
Lower(n) == n % Half

\* avgTemp /= validSamples divides UNSIGNED 32-bit words, whose quotient is then
\* narrowed to int16_t: long division by halves, the lower half kept.
Quotient(sum, n) ==
  LET low == (((Upper(sum) % n) * Half + Lower(sum)) \div n) % Half
  IN  IF low < 32768 THEN low ELSE low - Half

Mean ==
  Quotient(MapThenSumSet(LAMBDA i : samples[i].temp, Fresh), Cardinality(Fresh))

-----------------------------------------------------------------------------
(* The schedule *)

\* doesFit
Fits(setting, time, day) ==
  /\ time < 2400
  /\ day \in setting.days
  /\ IF setting.from <= setting.to
       THEN time >= setting.from /\ time <= setting.to
       ELSE time >= setting.from \/ time <= setting.to

Fitting(time, day) ==
  {i \in DOMAIN Settings :
     Settings[i].enabled /\ Fits(Settings[i], time, day)}

\* The first of the warmest settings that fit, 0 when none does.
CurrentProgram(time, day) ==
  LET fitting == Fitting(time, day)
      warmest == {i \in fitting :
                    \A j \in fitting : Settings[j].temp <= Settings[i].temp}
  IN  IF fitting = {} THEN 0 ELSE Min(warmest)

MutOverridden == override.temp # 0

\* temporaryOverride_ is set and still valid.
Overridden == override.left > 0

TemperatureSet(time, day) ==
  IF Overridden THEN override.temp
  ELSE IF Fitting(time, day) = {} THEN Base
  ELSE Settings[CurrentProgram(time, day)].temp

-----------------------------------------------------------------------------
(* The methods *)

\* CircularBuffer::push: the oldest sample gives way.
Push(sample) ==
  Append(IF Len(samples) = BufferSize THEN Tail(samples) ELSE samples, sample)

StoreTemperature(temp) ==
  /\ samples' = Push([temp |-> temp, age |-> 0])
  /\ UNCHANGED <<override, stats, returned, judged>>

CreateTemporaryOverride(temp, length) ==
  /\ override' = [temp |-> temp, left |-> length]
  /\ UNCHANGED <<samples, stats, returned, judged>>

MutTemperatureValid == samples # <<>> /\ Head(samples).age <= ValidFor

\* isTemperatureValid
TemperatureValid == samples # <<>> /\ Last(samples).age <= ValidFor

MissingTemperature == status' = "MISSING" /\ supply' = 0

Verdict(mean, set) ==
  IF mean < set - MarginDown THEN "START"
  ELSE IF mean < set + MarginUp THEN "CONTINUE"
  ELSE "OK"

\* The end of shouldStartBoilerAndHeat, with a mean to judge by.
JudgeMean(time, day) ==
  LET set  == TemperatureSet(time, day)
      now  == CurrentProgram(time, day)
      mean == Mean
  IN  /\ status' = Verdict(mean, set)
      /\ supply' = IF now = 0 THEN 0 ELSE Settings[now].supply
      /\ shouldStart' = (mean < set - MarginDown)
      /\ shouldHeat' = (mean < set + MarginUp)

\* shouldStartBoilerAndHeat at a local time, which may jump.
Judge(time, day) ==
  /\ judged' = TRUE
  /\ UNCHANGED <<samples, override>>
  /\ \/ ~TemperatureValid /\ MissingTemperature /\ UNCHANGED stats
     \/ /\ TemperatureValid
        /\ program' = CurrentProgram(time, day)
        /\ \/ /\ Fresh = {}
              /\ MissingTemperature
              /\ UNCHANGED <<shouldStart, shouldHeat>>
           \/ Fresh # {} /\ JudgeMean(time, day)

JudgeNow == \E time \in Times, day \in Days : Judge(time, day)

\* Operate judges every room between two ticks of this clock.
Tick ==
  /\ judged
  /\ judged' = FALSE
  /\ samples' = [i \in DOMAIN samples |->
       [samples[i] EXCEPT !.age = IF @ > ValidFor THEN @ ELSE @ + 1]]
  /\ override' = [override EXCEPT !.left = IF @ > 0 THEN @ - 1 ELSE 0]
  /\ UNCHANGED <<stats, returned>>

-----------------------------------------------------------------------------
\* Room objects are built with no samples, no override and no statistics.
Init ==
  /\ samples = <<>>
  /\ override = [temp |-> 0, left |-> 0]
  /\ program = 0
  /\ shouldStart = FALSE
  /\ shouldHeat = FALSE
  /\ status = "NONE"
  /\ supply = 0
  /\ judged = FALSE

Next ==
  \/ \E temp \in Readings : StoreTemperature(temp)
  \/ \E temp \in OverrideTemps, length \in OverrideLengths :
       CreateTemporaryOverride(temp, length)
  \/ JudgeNow
  \/ Tick

Fairness == WF_roomVars(~judged /\ JudgeNow) /\ WF_roomVars(Tick)

Spec == Init /\ [][Next]_roomVars /\ Fairness

-----------------------------------------------------------------------------
(* Properties *)

\* Every field keeps its type (program and supply are values of the settings),
\* the buffer its capacity, and the buffer is in the order of age, which
\* isTemperatureValid relies on.
TypeOK ==
  /\ samples \in Seq([temp : Int16, age : 0 .. ValidFor + 1])
  /\ Len(samples) <= BufferSize
  /\ \A i, j \in DOMAIN samples : i < j => samples[i].age >= samples[j].age
  /\ override \in [temp : Int16, left : Nat]
  /\ shouldStart \in BOOLEAN /\ shouldHeat \in BOOLEAN /\ judged \in BOOLEAN
  /\ status \in {"NONE", "MISSING", "START", "CONTINUE", "OK"}

Recent == {i \in DOMAIN samples : samples[i].age <= FreshFor}

RecentSum == MapThenSumSet(LAMBDA i : samples[i].temp, Recent)

\* A room is reported missing exactly when it has no sample younger than three
\* minutes, although two different age limits are applied, one of them to the
\* newest sample only.  This is what Heating assumes of a room.
MissingExactlyWhenStale ==
  [][JudgeNow => (status' = "MISSING" <=> Recent = {})]_roomVars

\* The verdict is that of the exact mean of the recent samples, whatever the
\* division rounds: START below the lower margin, OK from the upper one on.
VerdictIsTrue ==
  [][\A time \in Times, day \in Days :
       Judge(time, day) /\ Recent # {} =>
         LET set == TemperatureSet(time, day)
             n == Cardinality(Recent)
         IN  /\ status' = "START" <=> RecentSum < n * (set - MarginDown)
             /\ status' = "OK" <=> RecentSum >= n * (set + MarginUp)]_roomVars

\* Readings too low for every setting of the schedule.
Cold == {temp \in Readings :
           /\ temp < Base - MarginDown
           /\ \A i \in DOMAIN Settings : temp < Settings[i].temp - MarginDown}

Reports(temps) == \E temp \in temps : StoreTemperature(temp)

OnlyCold ==
  /\ ~Reports(Readings \ Cold)
  /\ \A temp \in OverrideTemps, length \in OverrideLengths :
       ~CreateTemporaryOverride(temp, length)

\* A room whose sensor keeps reporting it cold asks for heat again and again:
\* warm samples from before and a temporary override that was set lose their
\* effect by themselves.
ColdRoomAsksForHeat ==
  <>[][OnlyCold]_roomVars /\ []<><<Reports(Cold)>>_roomVars
  => []<>(status = "START")

\* "valve should be closed only if temperature is in upper/lower margin"
\* (HeatingController.h:129): a room is judged OK, so that its valves are
\* closed, only if a recent sample is not below the lower margin.
ClosesOnlyWarmRooms ==
  [][\A time \in Times, day \in Days :
       Judge(time, day) /\ status' = "OK" =>
         \E i \in Recent :
           samples[i].temp >= TemperatureSet(time, day) - MarginDown]_roomVars
=============================================================================
