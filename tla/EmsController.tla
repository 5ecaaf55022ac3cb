--------------------------- MODULE EmsController ---------------------------
(***************************************************************************)
(* EmsController (src/src/EmsController.h, .cpp): the queue of telegrams    *)
(* for the EMS bus, shared by the loop task, which issues commands, and the *)
(* EmsBusUart task, which answers the bus master's polls.                   *)
(*                                                                         *)
(* The two tasks meet at telegramProcessingMutex_ and at the atomic         *)
(* txNotConfirmed_ only.  A task's `todo` holds what is left of its current *)
(* call, one entry for each critical section or atomic operation, and every *)
(* step carries out one entry.                                              *)
(*                                                                         *)
(* The bus is half duplex: a frame written in answer to a poll is on the    *)
(* wire until it comes back as an echo, and no other frame is meanwhile.    *)
(***************************************************************************)
EXTENDS Naturals, Sequences

CONSTANTS
  Enabled,        \* values of emsConfig_.emsEnabled considered
  Temps,          \* flow temperatures, degrees
  MaxQueue,       \* maxTelegramQueueSize
  MaxTx,          \* maxTxNotConfirmed
  CounterMod,     \* 2^32: std::atomic_size_t on the ESP32
  StartupReads,   \* read requests of requestStartupData
  DetailReads,    \* read requests of requestPeriodicData
  MaxInbox,       \* bound of the model on telegramsToProcess_
  MaxBacklog      \* bound of the model on the UART task's todo: the loop task
                  \* starts no call while more is left of it

ASSUME EmsAssumption ==
  /\ Enabled \subseteq BOOLEAN
  /\ Temps \subseteq Nat \ {0}
  /\ MaxQueue \in Nat \ {0}
  /\ MaxTx \in Nat
  /\ CounterMod \in Nat /\ MaxTx + 1 < CounterMod
  /\ StartupReads \in Nat /\ DetailReads \in Nat
  /\ MaxInbox \in Nat /\ MaxBacklog \in Nat

Task == {"loop", "uart"}

HeatCommand == {0} \cup Temps     \* 0: stop heating

Telegram ==
  [kind : {"read", "enable", "reply", "shortReply"}, value : {0}]
    \cup [kind : {"set"}, value : Temps]
    \cup [kind : {"heat"}, value : HeatCommand]

\* An entry of a task's todo; only the first two kinds carry a telegram.
Entry ==
  [op : {"pushFront", "pushBack", "resetCounter", "clearQueue", "answerPoll",
         "countSent", "countConfirmed"},
   telegram : Telegram]

Received ==
  [kind : {"params"}, value : Temps]
    \cup [kind : {"versionRequest", "otherRequest"}, value : {0}]

VARIABLES
  enabled,     \* emsConfig_.emsEnabled
  toSend,      \* telegramsToSend_
  toProcess,   \* telegramsToProcess_
  tx,          \* txNotConfirmed_
  known,       \* boilerParams_.heatingTemperature, 0: not known
  todo,        \* what is left of a task's current call
  wire,        \* the frame we wrote that has not come back yet
  boilerHeat,  \* the last heat command the boiler obeyed
  boilerSet,   \* the boiler's heating temperature parameter
  newest,      \* history: the heat command accepted last
  intact       \* history: that command has not been lost

bus     == <<wire, boilerHeat, boilerSet>>
history == <<newest, intact>>
emsVars == <<enabled, toSend, toProcess, tx, known, todo, bus, history>>

-----------------------------------------------------------------------------
(* What a call has to do *)

Frame(kind, value) == [kind |-> kind, value |-> value]

NoFrame == Frame("read", 0)

PushFront(t)   == [op |-> "pushFront", telegram |-> t]
PushBack(t)    == [op |-> "pushBack", telegram |-> t]
ResetCounter   == [op |-> "resetCounter", telegram |-> NoFrame]
ClearQueue     == [op |-> "clearQueue", telegram |-> NoFrame]
AnswerPoll     == [op |-> "answerPoll", telegram |-> NoFrame]
CountSent      == [op |-> "countSent", telegram |-> NoFrame]
CountConfirmed == [op |-> "countConfirmed", telegram |-> NoFrame]

Reads(n) == [i \in 1 .. n |-> PushFront(Frame("read", 0))]

EnableExternalControl == PushBack(Frame("enable", 0))

RequestStartupData == Append(Reads(StartupReads), EnableExternalControl)

\* reset(): the counter, the queue, and the startup requests again.
Reset == <<ResetCounter, ClearQueue>> \o RequestStartupData

Idle(task) == todo[task] = <<>>

Busy(task, op) == ~Idle(task) /\ Head(todo[task]).op = op

Begin(task, ops) == Idle(task) /\ todo' = [todo EXCEPT ![task] = ops]

Proceed(task) == todo' = [todo EXCEPT ![task] = Tail(todo[task])]

IsHeat(t) == t.kind = "heat"

HoldsHeat(queue) == \E i \in DOMAIN queue : IsHeat(queue[i])

-----------------------------------------------------------------------------
(* Steps of either task inside a call *)

Accepted(t) == IF IsHeat(t) THEN newest' = t.value /\ intact' = TRUE
                           ELSE UNCHANGED history

MutPushAnyway(task, op, queue) ==
  /\ Busy(task, op)
  /\ toSend' = queue
  /\ Proceed(task)
  /\ Accepted(Head(todo[task]).telegram)
  /\ UNCHANGED <<enabled, toProcess, tx, known, bus>>

\* enqueueTelegramToSend, the queue then being `queue`.  When the queue is full
\* the telegram is dropped and the controller resets itself.
Enqueue(task, op, queue) ==
  /\ Busy(task, op)
  /\ IF Len(toSend) = MaxQueue
       THEN /\ todo' = [todo EXCEPT ![task] = Reset \o Tail(todo[task])]
            /\ intact' = (intact /\ ~IsHeat(Head(todo[task]).telegram))
            /\ UNCHANGED <<toSend, newest>>
       ELSE /\ toSend' = queue
            /\ Proceed(task)
            /\ Accepted(Head(todo[task]).telegram)
  /\ UNCHANGED <<enabled, toProcess, tx, known, bus>>

\* The parameter the code calls `front` is FALSE here ...
EnqueueFront(task) ==
  Enqueue(task, "pushFront", <<Head(todo[task]).telegram>> \o toSend)

MutEnqueueBackFirst(task) ==
  Enqueue(task, "pushBack", <<Head(todo[task]).telegram>> \o toSend)

\* ... and TRUE here.
EnqueueBack(task) ==
  Enqueue(task, "pushBack", Append(toSend, Head(todo[task]).telegram))

ZeroCounter(task) ==
  /\ Busy(task, "resetCounter")
  /\ tx' = 0
  /\ Proceed(task)
  /\ UNCHANGED <<enabled, toSend, toProcess, known, bus, history>>

DropQueue(task) ==
  /\ Busy(task, "clearQueue")
  /\ toSend' = <<>>
  /\ intact' = (intact /\ ~HoldsHeat(toSend))
  /\ Proceed(task)
  /\ UNCHANGED <<enabled, toProcess, tx, known, bus, newest>>

-----------------------------------------------------------------------------
(* Calls of the loop task *)

LoopBegins(ops) == Len(todo["uart"]) <= MaxBacklog /\ Begin("loop", ops)

\* changeBoilerState, through startHeating or stopHeating.
ChangeBoilerState(command) ==
  /\ enabled
  /\ LoopBegins(<<PushBack(Frame("heat", command))>>)
  /\ UNCHANGED <<enabled, toSend, toProcess, tx, known, bus, history>>

\* Nothing is sent when the boiler is known to use that temperature already.
SetHeatingTemperature(temp) ==
  /\ known # temp
  /\ LoopBegins(<<PushFront(Frame("set", temp))>>)
  /\ UNCHANGED <<enabled, toSend, toProcess, tx, known, bus, history>>

RequestPeriodicData ==
  /\ enabled
  /\ \/ LoopBegins(<<EnableExternalControl>>)
     \/ LoopBegins(Reads(DetailReads))
     \/ LoopBegins(<<EnableExternalControl>> \o Reads(DetailReads))
  /\ UNCHANGED <<enabled, toSend, toProcess, tx, known, bus, history>>

Answer(request) ==
  PushFront(Frame(IF request.kind = "versionRequest" THEN "reply"
                                                     ELSE "shortReply", 0))

\* One round of the loop in processTelegrams.
ProcessTelegrams ==
  /\ enabled
  /\ toProcess # <<>>
  /\ toProcess' = Tail(toProcess)
  /\ IF Head(toProcess).kind = "params"
       THEN LoopBegins(<<>>) /\ known' = Head(toProcess).value
       ELSE LoopBegins(<<Answer(Head(toProcess))>>) /\ UNCHANGED known
  /\ UNCHANGED <<enabled, toSend, tx, bus, history>>

-----------------------------------------------------------------------------
(* Calls of the UART task *)

MutPollUnchecked(own) ==
  /\ enabled
  /\ wire = <<>>
  /\ Begin("uart", IF own THEN <<AnswerPoll>> ELSE <<>>)
  /\ UNCHANGED <<enabled, toSend, toProcess, tx, known, bus, history>>

\* processPoll, for our device id or another; the counter is looked at first.
Poll(own) ==
  /\ enabled
  /\ wire = <<>>
  /\ own \/ tx > MaxTx
  /\ Begin("uart", (IF tx > MaxTx THEN Reset ELSE <<>>)
                     \o (IF own THEN <<AnswerPoll>> ELSE <<>>))
  /\ UNCHANGED <<enabled, toSend, toProcess, tx, known, bus, history>>

MutSendNewest ==
  /\ Busy("uart", "answerPoll")
  /\ IF toSend = <<>>
       THEN Proceed("uart") /\ UNCHANGED <<toSend, wire>>
       ELSE /\ wire' = <<toSend[Len(toSend)]>>
            /\ toSend' = SubSeq(toSend, 1, Len(toSend) - 1)
            /\ todo' = [todo EXCEPT !["uart"] = <<CountSent>>]
  /\ UNCHANGED <<enabled, toProcess, tx, known, boilerHeat, boilerSet, history>>

\* The rest of processPoll: the first telegram, or a pong.
SendFirst ==
  /\ Busy("uart", "answerPoll")
  /\ IF toSend = <<>>
       THEN Proceed("uart") /\ UNCHANGED <<toSend, wire>>
       ELSE /\ wire' = <<Head(toSend)>>
            /\ toSend' = Tail(toSend)
            /\ todo' = [todo EXCEPT !["uart"] = <<CountSent>>]
  /\ UNCHANGED <<enabled, toProcess, tx, known, boilerHeat, boilerSet, history>>

Count ==
  /\ Busy("uart", "countSent")
  /\ tx' = (tx + 1) % CounterMod
  /\ Proceed("uart")
  /\ UNCHANGED <<enabled, toSend, toProcess, known, bus, history>>

Uncount ==
  /\ Busy("uart", "countConfirmed")
  /\ tx' = (tx + CounterMod - 1) % CounterMod
  /\ Proceed("uart")
  /\ UNCHANGED <<enabled, toSend, toProcess, known, bus, history>>

\* The boiler acts on the frame.
Obeyed(frame) ==
  /\ boilerHeat' = IF IsHeat(frame) THEN frame.value ELSE boilerHeat
  /\ boilerSet' = IF frame.kind = "set" THEN frame.value ELSE boilerSet

\* The echo of our frame; one shorter than a telegram must be is ignored.
Echo ==
  /\ wire # <<>>
  /\ Begin("uart", IF Head(wire).kind # "shortReply" /\ tx > 0
                     THEN <<CountConfirmed>> ELSE <<>>)
  /\ Obeyed(Head(wire))
  /\ wire' = <<>>
  /\ UNCHANGED <<enabled, toSend, toProcess, tx, known, history>>

\* The frame or its echo is lost: the boiler may have understood it or not.
LoseFrame ==
  /\ wire # <<>>
  /\ Idle("uart")
  /\ wire' = <<>>
  /\ \/ Obeyed(Head(wire)) /\ UNCHANGED intact
     \/ /\ intact' = (intact /\ ~IsHeat(Head(wire)))
        /\ UNCHANGED <<boilerHeat, boilerSet>>
  /\ UNCHANGED <<enabled, toSend, toProcess, tx, known, todo, newest>>

\* A telegram for us with a good checksum; parameters are the boiler's own.
Receive(telegram) ==
  /\ enabled
  /\ Idle("uart") /\ wire = <<>>
  /\ telegram.kind = "params" => telegram.value = boilerSet
  /\ Len(toProcess) < MaxInbox
  /\ toProcess' = Append(toProcess, telegram)
  /\ UNCHANGED <<enabled, toSend, tx, known, todo, bus, history>>

-----------------------------------------------------------------------------
\* Construction: txNotConfirmed_ has no initialiser, the UART task runs from
\* here on, and the constructor still has to request the startup data.
Init ==
  /\ enabled \in Enabled
  /\ toSend = <<>>
  /\ toProcess = <<>>
  /\ tx \in 0 .. CounterMod - 1
  /\ known = 0
  /\ todo = [task \in Task |-> IF task = "loop" /\ enabled
                                 THEN RequestStartupData ELSE <<>>]
  /\ wire = <<>>
  /\ boilerHeat \in HeatCommand
  /\ boilerSet \in Temps
  /\ newest = boilerHeat
  /\ intact = TRUE

TaskStep(task) ==
  \/ EnqueueFront(task)
  \/ EnqueueBack(task)
  \/ ZeroCounter(task)
  \/ DropQueue(task)

LoopCall ==
  \/ \E command \in HeatCommand : ChangeBoilerState(command)
  \/ \E temp \in Temps : SetHeatingTemperature(temp)
  \/ RequestPeriodicData
  \/ ProcessTelegrams

UartStep ==
  \/ SendFirst
  \/ Count
  \/ Uncount

BusEvent ==
  \/ \E own \in BOOLEAN : Poll(own)
  \/ Echo
  \/ LoseFrame
  \/ \E telegram \in Received : Receive(telegram)

Next ==
  \/ \E task \in Task : TaskStep(task)
  \/ LoopCall
  \/ UartStep
  \/ BusEvent

Spec == Init /\ [][Next]_emsVars

-----------------------------------------------------------------------------
(* Properties *)

\* Every field keeps its type, and the queue its limit, although both tasks
\* fill it.
TypeOK ==
  /\ enabled \in BOOLEAN
  /\ toSend \in Seq(Telegram) /\ Len(toSend) <= MaxQueue
  /\ toProcess \in Seq(Received)
  /\ tx \in 0 .. CounterMod - 1
  /\ known \in {0} \cup Temps
  /\ todo \in [Task -> Seq(Entry)]
  /\ wire \in Seq(Telegram) /\ Len(wire) <= 1
  /\ boilerHeat \in HeatCommand /\ newest \in HeatCommand
  /\ boilerSet \in Temps
  /\ intact \in BOOLEAN

\* The heat commands of a queue, oldest first.
HeatCommands(queue) ==
  LET heat[n \in 0 .. Len(queue)] ==   \* those of the first n telegrams
        IF n = 0 THEN <<>>
        ELSE IF IsHeat(queue[n]) THEN Append(heat[n - 1], queue[n].value)
        ELSE heat[n - 1]
  IN  heat[Len(queue)]

Channel == INSTANCE HeatChannel WITH
  Command <- HeatCommand,
  pending <- HeatCommands(wire \o toSend),
  obeyed  <- boilerHeat

\* Heat commands reach the boiler in the order in which they were accepted,
\* each at most once, whatever requests, replies and resets come between.
ChannelSpec == Channel!Spec

\* A heat command is never lost silently: when nothing is left to send, the
\* boiler does what it was told last, unless that command was dropped by a
\* full queue, by a reset or on the bus.
NewestHeatObeyed ==
  intact /\ ~HoldsHeat(toSend) /\ ~HoldsHeat(wire) => boilerHeat = newest

\* The counter never stays out of its range: whatever it was at construction
\* and however it is reset under the UART task's hands, no telegram is put on
\* the bus while it is above the limit.
SendsWithinLimit == [][wire = <<>> /\ wire' # <<>> => tx <= MaxTx]_emsVars
=============================================================================
