---------------------------- MODULE OpenWeather ----------------------------
(***************************************************************************)
(* OpenWeather (src/src/OpenWeather.h): operate() on the loop task creates  *)
(* a task for each fetch, and the tasks store what the service answers.     *)
(* Sensing.tla composes it with the rest of operate().                      *)
(*                                                                         *)
(* An optional temperature is a set of at most one.                         *)
(***************************************************************************)
EXTENDS Integers

CONSTANTS
  Clock,     \* the count at which millis() is back at 0
  Cycles,    \* times from one cycle of operate() to the next, on that clock
  Interval,  \* config_.interval, on that clock
  Temps,     \* temperatures the service answers
  MaxTasks   \* fetch tasks there is memory for

ASSUME WeatherAssumption ==
  /\ Clock \in Nat \ {0} /\ Interval \in Nat \ {0}
  /\ Cycles \subseteq Nat \ {0}
  /\ \A c \in Cycles : c + Interval < Clock
  /\ Temps \subseteq Int
  /\ MaxTasks \in Nat \ {0}

Optional(T) == {{}} \cup {{t} : t \in T}

VARIABLES
  now,         \* millis()
  lastFetch,   \* lastFetch_
  created,     \* number of fetch tasks that have not entered getData
  fetching,    \* number of those that wait for the service
  closing,     \* number of those that have its answer and still use http_
  inProgress,  \* getDataInProgress_
  weather      \* outdoor_

weatherVars == <<now, lastFetch, created, fetching, closing, inProgress, weather>>

\* The deadline wraps with the clock; the comparison does not know.
Waits == lastFetch > 0 /\ now < (lastFetch + Interval) % Clock

Wait == Waits /\ UNCHANGED weatherVars

\* That xTaskCreate may fail is not looked at.
Fetch ==
  /\ ~Waits
  /\ lastFetch' = now
  /\ created' \in {created, created + 1} \cap 0 .. MaxTasks
  /\ UNCHANGED <<now, fetching, closing, inProgress, weather>>

MutBeginFetch ==
  /\ created > 0
  /\ created' = created - 1
  /\ inProgress' = TRUE
  /\ fetching' = fetching + 1
  /\ UNCHANGED <<now, lastFetch, closing, weather>>

\* getData to its first unlock: a task that finds another one there goes away.
BeginFetch ==
  /\ created > 0
  /\ created' = created - 1
  /\ inProgress' = TRUE
  /\ fetching' = IF inProgress THEN fetching ELSE fetching + 1
  /\ UNCHANGED <<now, lastFetch, closing, weather>>

\* GET and parsePayload: no answer or an empty one leaves outdoor_ as it is,
\* one without a temperature makes it invalid.
Answer ==
  /\ fetching > 0
  /\ fetching' = fetching - 1
  /\ closing' = closing + 1
  /\ weather' \in {weather} \cup Optional(Temps)
  /\ UNCHANGED <<now, lastFetch, created, inProgress>>

EndFetch ==
  /\ closing > 0
  /\ closing' = closing - 1
  /\ inProgress' = FALSE
  /\ UNCHANGED <<now, lastFetch, created, fetching, weather>>

WeatherTick ==
  /\ now' \in {(now + c) % Clock : c \in Cycles}
  /\ UNCHANGED <<lastFetch, created, fetching, closing, inProgress, weather>>

WeatherInit ==
  /\ now = 0 /\ lastFetch = 0
  /\ created = 0 /\ fetching = 0 /\ closing = 0
  /\ inProgress = FALSE
  /\ weather = {}

WeatherReboot ==
  /\ now' = 0 /\ lastFetch' = 0
  /\ created' = 0 /\ fetching' = 0 /\ closing' = 0
  /\ inProgress' = FALSE
  /\ weather' = {}
=============================================================================
