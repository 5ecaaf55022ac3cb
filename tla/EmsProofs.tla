----------------------------- MODULE EmsProofs -----------------------------
(***************************************************************************)
(* Proofs about EmsController.tla, for every size of the queue, limit,      *)
(* counter width and number of requests: types and the queue's limit; no    *)
(* telegram is sent while txNotConfirmed_ is above its limit; heat commands *)
(* pass as through HeatChannel, and the newest is obeyed unless it was      *)
(* dropped.                                                                 *)
(*                                                                         *)
(* SendsWithinLimit needs to know what is left to do of the poll that       *)
(* sends: LimitBeforeAnswer says that an answer waits either for the        *)
(* counter to be reset first or with the counter in its range, and          *)
(* CountsLast that the UART task changes the counter only after it.         *)
(*                                                                         *)
(* The channel needs that no heat command is ever pushed in front of the    *)
(* queue, by what is left of any call (FrontsAreRequests), and that no      *)
(* poll is answered while a frame is on the wire (WireThenPoll).  What the  *)
(* recursive HeatCommands computes is proved by least counterexample: a     *)
(* set of numbers that is not empty has a least one.                        *)
(***************************************************************************)
EXTENDS EmsController, WellFoundedInduction, TLAPS

USE DEF bus, history, emsVars

-----------------------------------------------------------------------------
(* Sequences of entries *)

LEMMA EntryTypes ==
  /\ NoFrame \in Telegram /\ Frame("enable", 0) \in Telegram
  /\ \A t \in Telegram : PushFront(t) \in Entry /\ PushBack(t) \in Entry
  /\ ResetCounter \in Entry /\ ClearQueue \in Entry /\ AnswerPoll \in Entry
  /\ CountSent \in Entry /\ CountConfirmed \in Entry
BY DEF NoFrame, Frame, Telegram, Entry, PushFront, PushBack, ResetCounter,
       ClearQueue, AnswerPoll, CountSent, CountConfirmed

LEMMA ReadsType ==
  ASSUME NEW n \in Nat
  PROVE  Reads(n) \in Seq(Entry)
<1>1. PushFront(Frame("read", 0)) \in Entry
  BY EntryTypes DEF NoFrame
<1>2. QED
  BY <1>1 DEF Reads

LEMMA ResetType ==
  /\ RequestStartupData \in Seq(Entry)
  /\ Reset \in Seq(Entry)
<1>1. EnableExternalControl \in Entry
  BY EntryTypes DEF EnableExternalControl
<1>2. Reads(StartupReads) \in Seq(Entry)
  BY EmsAssumption, ReadsType
<1>3. RequestStartupData \in Seq(Entry)
  BY <1>1, <1>2 DEF RequestStartupData
<1>4. <<ResetCounter, ClearQueue>> \in Seq(Entry)
  BY EntryTypes
<1>5. QED
  BY <1>3, <1>4 DEF Reset

LEMMA HeatTelegram ==
  ASSUME NEW t \in Telegram, IsHeat(t)
  PROVE  t.value \in HeatCommand
BY DEF Telegram, IsHeat

\* What Begin and Proceed leave to do.
LEMMA BeginType ==
  ASSUME TypeOK, NEW task \in Task, NEW ops \in Seq(Entry), Begin(task, ops)
  PROVE  todo' \in [Task -> Seq(Entry)]
BY DEF TypeOK, Begin

LEMMA ProceedType ==
  ASSUME TypeOK, NEW task \in Task, ~Idle(task), Proceed(task)
  PROVE  todo' \in [Task -> Seq(Entry)]
<1>1. todo[task] \in Seq(Entry) /\ todo[task] # <<>>
  BY DEF TypeOK, Idle
<1>2. Tail(todo[task]) \in Seq(Entry)
  BY <1>1
<1>3. QED
  BY <1>2 DEF TypeOK, Proceed

LEMMA HeadType ==
  ASSUME TypeOK, NEW task \in Task, ~Idle(task)
  PROVE  Head(todo[task]) \in Entry /\ Head(todo[task]).telegram \in Telegram
<1>1. todo[task] \in Seq(Entry) /\ todo[task] # <<>>
  BY DEF TypeOK, Idle
<1>2. Head(todo[task]) \in Entry
  BY <1>1
<1>3. QED
  BY <1>2 DEF Entry

-----------------------------------------------------------------------------
(* Types and the limit of the queue *)

LEMMA EnqueueTyped ==
  ASSUME TypeOK, NEW task \in Task, NEW op, NEW queue,
         Len(toSend) # MaxQueue =>
            queue \in Seq(Telegram) /\ Len(queue) <= MaxQueue,
         Enqueue(task, op, queue)
  PROVE  TypeOK'
<1>1. /\ ~Idle(task)
      /\ Head(todo[task]).telegram \in Telegram
  BY HeadType DEF Enqueue, Busy
<1>2. CASE Len(toSend) = MaxQueue
  <2>1. Tail(todo[task]) \in Seq(Entry)
    BY <1>1 DEF TypeOK, Idle
  <2>2. Reset \o Tail(todo[task]) \in Seq(Entry)
    BY <2>1, ResetType
  <2>3. todo' \in [Task -> Seq(Entry)]
    BY <1>2, <2>2 DEF Enqueue, TypeOK
  <2>4. intact' \in BOOLEAN
    BY <1>2 DEF Enqueue, TypeOK, IsHeat
  <2>5. QED
    BY <1>2, <2>3, <2>4 DEF Enqueue, TypeOK
<1>3. CASE Len(toSend) # MaxQueue
  <2>1. todo' \in [Task -> Seq(Entry)]
    BY <1>1, <1>3, ProceedType DEF Enqueue
  <2>2. newest' \in HeatCommand /\ intact' \in BOOLEAN
    BY <1>1, <1>3, HeatTelegram DEF Enqueue, Accepted, TypeOK
  <2>3. QED
    BY <1>3, <2>1, <2>2 DEF Enqueue, TypeOK
<1>4. QED
  BY <1>2, <1>3

LEMMA TaskStepTyped ==
  ASSUME TypeOK, NEW task \in Task, TaskStep(task)
  PROVE  TypeOK'
<1>1. /\ toSend \in Seq(Telegram) /\ Len(toSend) <= MaxQueue /\ MaxQueue \in Nat
  BY EmsAssumption DEF TypeOK
<1>2. CASE EnqueueFront(task)
  <2>1. Head(todo[task]).telegram \in Telegram
    BY <1>2, HeadType DEF EnqueueFront, Enqueue, Busy
  <2>2. /\ <<Head(todo[task]).telegram>> \o toSend \in Seq(Telegram)
        /\ Len(<<Head(todo[task]).telegram>> \o toSend) = Len(toSend) + 1
    BY <1>1, <2>1
  <2>3. Len(toSend) # MaxQueue => Len(toSend) + 1 <= MaxQueue
    BY <1>1
  <2>4. Enqueue(task, "pushFront", <<Head(todo[task]).telegram>> \o toSend)
    BY <1>2 DEF EnqueueFront
  <2>5. QED
    BY <2>2, <2>3, <2>4, EnqueueTyped
<1>3. CASE EnqueueBack(task)
  <2>1. Head(todo[task]).telegram \in Telegram
    BY <1>3, HeadType DEF EnqueueBack, Enqueue, Busy
  <2>2. /\ Append(toSend, Head(todo[task]).telegram) \in Seq(Telegram)
        /\ Len(Append(toSend, Head(todo[task]).telegram)) = Len(toSend) + 1
    BY <1>1, <2>1
  <2>3. Len(toSend) # MaxQueue => Len(toSend) + 1 <= MaxQueue
    BY <1>1
  <2>4. Enqueue(task, "pushBack", Append(toSend, Head(todo[task]).telegram))
    BY <1>3 DEF EnqueueBack
  <2>5. QED
    BY <2>2, <2>3, <2>4, EnqueueTyped
<1>4. CASE ZeroCounter(task)
  <2>1. todo' \in [Task -> Seq(Entry)]
    BY <1>4, ProceedType DEF ZeroCounter, Busy
  <2>2. tx' \in 0 .. CounterMod - 1
    BY <1>4, EmsAssumption DEF ZeroCounter
  <2>3. QED
    BY <1>4, <2>1, <2>2 DEF ZeroCounter, TypeOK
<1>5. CASE DropQueue(task)
  <2>1. todo' \in [Task -> Seq(Entry)]
    BY <1>5, ProceedType DEF DropQueue, Busy
  <2>2. toSend' \in Seq(Telegram) /\ Len(toSend') <= MaxQueue
    BY <1>1, <1>5 DEF DropQueue
  <2>3. intact' \in BOOLEAN
    BY <1>5 DEF DropQueue, TypeOK, HoldsHeat
  <2>4. QED
    BY <1>5, <2>1, <2>2, <2>3 DEF DropQueue, TypeOK
<1>6. QED
  BY <1>2, <1>3, <1>4, <1>5 DEF TaskStep

LEMMA LoopCallTyped ==
  ASSUME TypeOK, LoopCall
  PROVE  TypeOK'
<1> USE DEF LoopBegins, Task
<1>1. ASSUME NEW command \in HeatCommand, ChangeBoilerState(command)
      PROVE  TypeOK'
  <2>1. Frame("heat", command) \in Telegram
    BY DEF Frame, Telegram
  <2>2. <<PushBack(Frame("heat", command))>> \in Seq(Entry)
    BY <2>1, EntryTypes
  <2>3. QED
    BY <1>1, <2>2, BeginType DEF ChangeBoilerState, TypeOK
<1>2. ASSUME NEW temp \in Temps, SetHeatingTemperature(temp)
      PROVE  TypeOK'
  <2>1. Frame("set", temp) \in Telegram
    BY DEF Frame, Telegram
  <2>2. <<PushFront(Frame("set", temp))>> \in Seq(Entry)
    BY <2>1, EntryTypes
  <2>3. QED
    BY <1>2, <2>2, BeginType DEF SetHeatingTemperature, TypeOK
<1>3. CASE RequestPeriodicData
  <2>1. EnableExternalControl \in Entry
    BY EntryTypes DEF EnableExternalControl
  <2>2. /\ Reads(DetailReads) \in Seq(Entry)
        /\ <<EnableExternalControl>> \in Seq(Entry)
    BY <2>1, ReadsType, EmsAssumption
  <2>3. <<EnableExternalControl>> \o Reads(DetailReads) \in Seq(Entry)
    BY <2>2
  <2>4. todo' \in [Task -> Seq(Entry)]
    BY <1>3, <2>2, <2>3, BeginType DEF RequestPeriodicData
  <2>5. QED
    BY <1>3, <2>4 DEF RequestPeriodicData, TypeOK
<1>4. CASE ProcessTelegrams
  <2>1. /\ Head(toProcess) \in Received
        /\ toProcess' \in Seq(Received)
    BY <1>4 DEF ProcessTelegrams, TypeOK
  <2>2. CASE Head(toProcess).kind = "params"
    <3>1. known' \in {0} \cup Temps
      BY <1>4, <2>1, <2>2 DEF ProcessTelegrams, Received
    <3>2. Begin("loop", <<>>) /\ <<>> \in Seq(Entry)
      BY <1>4, <2>2 DEF ProcessTelegrams
    <3>3. todo' \in [Task -> Seq(Entry)]
      BY <3>2, BeginType
    <3>4. QED
      BY <1>4, <2>1, <3>1, <3>3 DEF ProcessTelegrams, TypeOK
  <2>3. CASE Head(toProcess).kind # "params"
    <3>1. Frame("reply", 0) \in Telegram /\ Frame("shortReply", 0) \in Telegram
      BY DEF Frame, Telegram
    <3>2. <<Answer(Head(toProcess))>> \in Seq(Entry)
      BY <3>1, EntryTypes DEF Answer
    <3>3. todo' \in [Task -> Seq(Entry)]
      BY <1>4, <2>3, <3>2, BeginType DEF ProcessTelegrams
    <3>4. QED
      BY <1>4, <2>1, <2>3, <3>3 DEF ProcessTelegrams, TypeOK
  <2>4. QED
    BY <2>2, <2>3
<1>5. QED
  BY <1>1, <1>2, <1>3, <1>4 DEF LoopCall

LEMMA UartStepTyped ==
  ASSUME TypeOK, UartStep
  PROVE  TypeOK'
<1> USE DEF Task
<1>1. CASE SendFirst
  <2>1. CASE toSend = <<>>
    <3>1. todo' \in [Task -> Seq(Entry)]
      BY <1>1, <2>1, ProceedType DEF SendFirst, Busy
    <3>2. QED
      BY <1>1, <2>1, <3>1 DEF SendFirst, TypeOK
  <2>2. CASE toSend # <<>>
    <3>1. /\ toSend \in Seq(Telegram)
          /\ Len(toSend) <= MaxQueue /\ MaxQueue \in Nat
      BY EmsAssumption DEF TypeOK
    <3>2. /\ Tail(toSend) \in Seq(Telegram) /\ Len(Tail(toSend)) <= MaxQueue
          /\ Head(toSend) \in Telegram
      BY <2>2, <3>1
    <3>3. <<Head(toSend)>> \in Seq(Telegram) /\ Len(<<Head(toSend)>>) <= 1
      BY <3>2
    <3>4. <<CountSent>> \in Seq(Entry)
      BY EntryTypes
    <3>5. todo' \in [Task -> Seq(Entry)]
      BY <1>1, <2>2, <3>4 DEF SendFirst, TypeOK
    <3>6. QED
      BY <1>1, <2>2, <3>2, <3>3, <3>5 DEF SendFirst, TypeOK
  <2>3. QED
    BY <2>1, <2>2
<1>2. CASE Count
  <2>1. todo' \in [Task -> Seq(Entry)]
    BY <1>2, ProceedType DEF Count, Busy
  <2>2. tx' \in 0 .. CounterMod - 1
    BY <1>2, EmsAssumption DEF Count, TypeOK
  <2>3. QED
    BY <1>2, <2>1, <2>2 DEF Count, TypeOK
<1>3. CASE Uncount
  <2>1. todo' \in [Task -> Seq(Entry)]
    BY <1>3, ProceedType DEF Uncount, Busy
  <2>2. tx' \in 0 .. CounterMod - 1
    BY <1>3, EmsAssumption DEF Uncount, TypeOK
  <2>3. QED
    BY <1>3, <2>1, <2>2 DEF Uncount, TypeOK
<1>4. QED
  BY <1>1, <1>2, <1>3 DEF UartStep

LEMMA ObeyedTyped ==
  ASSUME TypeOK, NEW frame \in Telegram, Obeyed(frame)
  PROVE  boilerHeat' \in HeatCommand /\ boilerSet' \in Temps
<1>1. frame.kind = "set" => frame.value \in Temps
  BY DEF Telegram
<1>2. QED
  BY <1>1, HeatTelegram DEF Obeyed, TypeOK

LEMMA BusEventTyped ==
  ASSUME TypeOK, BusEvent
  PROVE  TypeOK'
<1> USE DEF Task
<1>1. ASSUME NEW own \in BOOLEAN, Poll(own)
      PROVE  TypeOK'
  <2>1. (IF tx > MaxTx THEN Reset ELSE <<>>) \in Seq(Entry)
    BY ResetType
  <2>2. (IF own THEN <<AnswerPoll>> ELSE <<>>) \in Seq(Entry)
    BY EntryTypes
  <2>3. (IF tx > MaxTx THEN Reset ELSE <<>>)
          \o (IF own THEN <<AnswerPoll>> ELSE <<>>) \in Seq(Entry)
    BY <2>1, <2>2
  <2>4. QED
    BY <1>1, <2>3, BeginType DEF Poll, TypeOK
<1>2. CASE Echo
  <2>1. (IF Head(wire).kind # "shortReply" /\ tx > 0
           THEN <<CountConfirmed>> ELSE <<>>) \in Seq(Entry)
    BY EntryTypes
  <2>2. todo' \in [Task -> Seq(Entry)]
    BY <1>2, <2>1, BeginType DEF Echo
  <2>3. Head(wire) \in Telegram
    BY <1>2 DEF Echo, TypeOK
  <2>4. boilerHeat' \in HeatCommand /\ boilerSet' \in Temps
    BY <1>2, <2>3, ObeyedTyped DEF Echo
  <2>5. QED
    BY <1>2, <2>2, <2>4 DEF Echo, TypeOK
<1>3. CASE LoseFrame
  <2>1. Head(wire) \in Telegram
    BY <1>3 DEF LoseFrame, TypeOK
  <2>2. boilerHeat' \in HeatCommand /\ boilerSet' \in Temps
    BY <1>3, <2>1, ObeyedTyped DEF LoseFrame, TypeOK
  <2>3. intact' \in BOOLEAN
    BY <1>3 DEF LoseFrame, TypeOK, IsHeat
  <2>4. QED
    BY <1>3, <2>2, <2>3 DEF LoseFrame, TypeOK
<1>4. ASSUME NEW telegram \in Received, Receive(telegram)
      PROVE  TypeOK'
  BY <1>4 DEF Receive, TypeOK
<1>5. QED
  BY <1>1, <1>2, <1>3, <1>4 DEF BusEvent

LEMMA EmsInitTyped == Init => TypeOK
<1> SUFFICES ASSUME Init PROVE TypeOK
  OBVIOUS
<1>1. enabled \in BOOLEAN /\ 0 <= MaxQueue
  BY EmsAssumption DEF Init
<1>2. todo \in [Task -> Seq(Entry)]
  BY ResetType DEF Init
<1>3. /\ toSend \in Seq(Telegram)
      /\ toProcess \in Seq(Received)
      /\ wire \in Seq(Telegram)
  BY DEF Init
<1>4. QED
  BY <1>1, <1>2, <1>3 DEF Init, TypeOK

LEMMA EmsTypeKept == TypeOK /\ [Next]_emsVars => TypeOK'
<1> SUFFICES ASSUME TypeOK, [Next]_emsVars PROVE TypeOK'
  OBVIOUS
<1>1. CASE UNCHANGED emsVars
  BY <1>1 DEF TypeOK
<1>2. QED
  BY <1>1, TaskStepTyped, LoopCallTyped, UartStepTyped, BusEventTyped DEF Next

\* Every field keeps its type and telegramsToSend_ never exceeds its limit,
\* whichever task fills it.
THEOREM EmsTypeCorrect == Spec => []TypeOK
BY EmsInitTyped, EmsTypeKept, PTL DEF Spec

-----------------------------------------------------------------------------
(* The limit of the counter *)

Counts == {"countSent", "countConfirmed"}

AnswersLimited(ops, counter) ==
  \A i \in 1 .. Len(ops) : ops[i].op = "answerPoll" =>
    counter <= MaxTx \/ \E j \in 1 .. i - 1 : ops[j].op = "resetCounter"

CountsAlone(ops) ==
  \A i \in 1 .. Len(ops) : ops[i].op \in Counts => Len(ops) = 1

LimitBeforeAnswer == AnswersLimited(todo["uart"], tx)

CountsLast == CountsAlone(todo["uart"])

EmsInv == TypeOK /\ LimitBeforeAnswer /\ CountsLast

\* Finishing an entry that is not the reset of the counter.
LEMMA TailLimited ==
  ASSUME NEW ops \in Seq(Entry), ops # <<>>, NEW counter \in Nat,
         AnswersLimited(ops, counter), CountsAlone(ops),
         Head(ops).op # "resetCounter"
  PROVE  AnswersLimited(Tail(ops), counter) /\ CountsAlone(Tail(ops))
<1>1. /\ Tail(ops) \in Seq(Entry)
      /\ Len(ops) \in Nat /\ Len(Tail(ops)) = Len(ops) - 1
      /\ \A i \in 1 .. Len(Tail(ops)) : Tail(ops)[i] = ops[i + 1]
      /\ Head(ops) = ops[1]
  OBVIOUS
<1>2. ASSUME NEW i \in 1 .. Len(Tail(ops)), Tail(ops)[i].op = "answerPoll",
             ~(counter <= MaxTx)
      PROVE  \E j \in 1 .. i - 1 : Tail(ops)[j].op = "resetCounter"
  <2>1. PICK j \in 1 .. (i + 1) - 1 : ops[j].op = "resetCounter"
    BY <1>1, <1>2 DEF AnswersLimited
  <2>2. j # 1
    BY <1>1, <2>1
  <2>3. j - 1 \in 1 .. i - 1 /\ Tail(ops)[j - 1].op = "resetCounter"
    BY <1>1, <2>1, <2>2
  <2>4. QED
    BY <2>3
<1>3. AnswersLimited(Tail(ops), counter)
  BY <1>2 DEF AnswersLimited
<1>4. CountsAlone(Tail(ops))
  BY <1>1 DEF CountsAlone
<1>5. QED
  BY <1>3, <1>4

LEMMA ResetShape ==
  /\ Reset \in Seq(Entry) /\ Len(Reset) \in Nat \ {0}
  /\ Reset[1].op = "resetCounter"
  /\ \A i \in 1 .. Len(Reset) : Reset[i].op \notin Counts
<1> USE EmsAssumption
<1>1. /\ Reads(StartupReads) \in Seq(Entry)
      /\ Len(Reads(StartupReads)) = StartupReads
      /\ \A i \in 1 .. StartupReads :
           Reads(StartupReads)[i].op = "pushFront"
  <2>1. Reads(StartupReads) \in Seq(Entry)
    BY ReadsType
  <2>2. QED
    BY <2>1 DEF Reads, PushFront
<1>2. /\ RequestStartupData \in Seq(Entry)
      /\ Len(RequestStartupData) = StartupReads + 1
      /\ \A i \in 1 .. StartupReads + 1 :
           RequestStartupData[i].op \in {"pushFront", "pushBack"}
  <2>1. EnableExternalControl \in Entry /\ EnableExternalControl.op = "pushBack"
    BY EntryTypes DEF EnableExternalControl, PushBack
  <2>2. QED
    BY <1>1, <2>1 DEF RequestStartupData
<1>3. <<ResetCounter, ClearQueue>> \in Seq(Entry)
  BY EntryTypes
<1>4. ResetCounter.op = "resetCounter" /\ ClearQueue.op = "clearQueue"
  BY DEF ResetCounter, ClearQueue
<1>5. Len(Reset) = StartupReads + 3 /\ Reset \in Seq(Entry)
  BY <1>2, <1>3 DEF Reset
<1>6. ASSUME NEW i \in 1 .. Len(Reset)
      PROVE  Reset[i] = IF i <= 2 THEN <<ResetCounter, ClearQueue>>[i]
                                  ELSE RequestStartupData[i - 2]
  BY <1>2, <1>3, <1>5 DEF Reset
<1>7. Reset[1] = ResetCounter /\ Reset[2] = ClearQueue
  BY <1>5, <1>6
<1>8. ASSUME NEW i \in 1 .. Len(Reset), i > 2
      PROVE  Reset[i].op \in {"pushFront", "pushBack"}
  <2>1. Reset[i] = RequestStartupData[i - 2] /\ i - 2 \in 1 .. StartupReads + 1
    BY <1>5, <1>6, <1>8
  <2>2. QED
    BY <1>2, <2>1
<1>9. \A i \in 1 .. Len(Reset) : i = 1 \/ i = 2 \/ i > 2
  BY <1>5
<1>10. \A i \in 1 .. Len(Reset) : Reset[i].op \notin Counts
  BY <1>4, <1>7, <1>8, <1>9 DEF Counts
<1>11. QED
  BY <1>4, <1>5, <1>7, <1>10

\* Work put behind a reset finds the counter reset.
LEMMA ResetLimited ==
  ASSUME NEW ops \in Seq(Entry), NEW counter \in Nat,
         \A i \in 1 .. Len(ops) : ops[i].op \notin Counts
  PROVE  AnswersLimited(Reset \o ops, counter) /\ CountsAlone(Reset \o ops)
<1>1. /\ Reset \o ops \in Seq(Entry)
      /\ Len(Reset \o ops) = Len(Reset) + Len(ops)
      /\ \A i \in 1 .. Len(Reset) + Len(ops) :
           (Reset \o ops)[i] = IF i <= Len(Reset) THEN Reset[i]
                                                 ELSE ops[i - Len(Reset)]
  BY ResetShape
<1>2. (Reset \o ops)[1].op = "resetCounter"
  BY <1>1, ResetShape
<1>3. AnswersLimited(Reset \o ops, counter)
  BY <1>1, <1>2 DEF AnswersLimited
<1>4. CountsAlone(Reset \o ops)
  BY <1>1, ResetShape DEF CountsAlone
<1>5. QED
  BY <1>3, <1>4

\* The UART task finishes an entry other than a reset of the counter or a
\* count, and the counter stays.
LEMMA ProceedLimited ==
  ASSUME EmsInv, ~Idle("uart"), Head(todo["uart"]).op # "resetCounter",
         Proceed("uart")
  PROVE  AnswersLimited(todo'["uart"], tx) /\ CountsAlone(todo'["uart"])
<1>1. /\ todo["uart"] \in Seq(Entry) /\ todo["uart"] # <<>>
      /\ tx \in Nat
  BY EmsAssumption DEF EmsInv, TypeOK, Task, Idle
<1>2. todo'["uart"] = Tail(todo["uart"])
  BY DEF Proceed, EmsInv, TypeOK, Task
<1>3. QED
  BY <1>1, <1>2, TailLimited DEF EmsInv, LimitBeforeAnswer, CountsLast

LEMMA EnqueueLimited ==
  ASSUME EmsInv, NEW task \in Task, NEW op \in {"pushFront", "pushBack"},
         NEW queue, Enqueue(task, op, queue)
  PROVE  LimitBeforeAnswer' /\ CountsLast'
<1> USE DEF LimitBeforeAnswer, CountsLast
<1>1. tx' = tx /\ tx \in Nat
  BY EmsAssumption DEF Enqueue, EmsInv, TypeOK
<1>2. CASE task = "loop"
  <2>1. todo'["uart"] = todo["uart"]
    BY <1>2 DEF Enqueue, Proceed, EmsInv, TypeOK, Task
  <2>2. QED
    BY <1>1, <2>1 DEF EmsInv
<1>3. CASE task = "uart"
  <2>1. /\ todo["uart"] \in Seq(Entry) /\ todo["uart"] # <<>>
        /\ Head(todo["uart"]).op = op
    BY <1>3 DEF Enqueue, Busy, Idle, EmsInv, TypeOK, Task
  <2>2. CASE Len(toSend) = MaxQueue
    <3>1. todo'["uart"] = Reset \o Tail(todo["uart"])
      BY <1>3, <2>2 DEF Enqueue, EmsInv, TypeOK, Task
    <3>2. /\ Tail(todo["uart"]) \in Seq(Entry)
          /\ \A i \in 1 .. Len(Tail(todo["uart"])) :
               Tail(todo["uart"])[i].op \notin Counts
      BY <2>1 DEF EmsInv, CountsAlone, Counts
    <3>3. QED
      BY <1>1, <3>1, <3>2, ResetLimited
  <2>3. CASE Len(toSend) # MaxQueue
    <3>1. Proceed("uart") /\ ~Idle("uart")
      BY <1>3, <2>1, <2>3 DEF Enqueue, Idle
    <3>2. QED
      BY <1>1, <2>1, <3>1, ProceedLimited
  <2>4. QED
    BY <2>2, <2>3
<1>4. QED
  BY <1>2, <1>3 DEF Task

\* Any step that leaves what the UART task has to do, and does not raise the
\* counter above its limit.
LEMMA OthersLimited ==
  ASSUME EmsInv, todo'["uart"] = todo["uart"], tx' \in {0, tx}
  PROVE  LimitBeforeAnswer' /\ CountsLast'
BY EmsAssumption
   DEF EmsInv, LimitBeforeAnswer, CountsLast, AnswersLimited

\* A call the UART task begins.
LEMMA ShortCallLimited ==
  ASSUME NEW entry \in Entry, entry.op # "answerPoll", NEW counter \in Nat
  PROVE  /\ AnswersLimited(<<entry>>, counter) /\ CountsAlone(<<entry>>)
         /\ AnswersLimited(<<>>, counter) /\ CountsAlone(<<>>)
BY DEF AnswersLimited, CountsAlone

LEMMA PollLimited ==
  ASSUME EmsInv, NEW own \in BOOLEAN, Poll(own)
  PROVE  LimitBeforeAnswer' /\ CountsLast'
<1> DEFINE answer == IF own THEN <<AnswerPoll>> ELSE <<>>
<1>1. tx' = tx /\ tx \in Nat /\ MaxTx \in Nat
  BY EmsAssumption DEF Poll, EmsInv, TypeOK
<1>2. /\ answer \in Seq(Entry) /\ Len(answer) <= 1
      /\ \A i \in 1 .. Len(answer) : answer[i].op = "answerPoll"
  BY EntryTypes DEF AnswerPoll
<1>3. todo'["uart"] = (IF tx > MaxTx THEN Reset ELSE <<>>) \o answer
  BY DEF Poll, Begin, EmsInv, TypeOK, Task
<1>4. CASE tx > MaxTx
  <2>1. AnswersLimited(Reset \o answer, tx) /\ CountsAlone(Reset \o answer)
    BY <1>1, <1>2, ResetLimited DEF Counts
  <2>2. QED
    BY <1>1, <1>3, <1>4, <2>1 DEF LimitBeforeAnswer, CountsLast
<1>5. CASE ~(tx > MaxTx)
  <2>1. todo'["uart"] = answer
    BY <1>2, <1>3, <1>5
  <2>2. AnswersLimited(answer, tx) /\ CountsAlone(answer)
    BY <1>1, <1>2, <1>5 DEF AnswersLimited, CountsAlone, Counts
  <2>3. QED
    BY <1>1, <2>1, <2>2 DEF LimitBeforeAnswer, CountsLast
<1>6. QED
  BY <1>4, <1>5

LEMMA EmsInvInit == Init => EmsInv
<1> SUFFICES ASSUME Init PROVE EmsInv
  OBVIOUS
<1>1. todo["uart"] = <<>>
  BY DEF Init, Task
<1>2. QED
  BY <1>1, EmsInitTyped
     DEF EmsInv, LimitBeforeAnswer, CountsLast, AnswersLimited, CountsAlone

LEMMA EmsInvKept == EmsInv /\ [Next]_emsVars => EmsInv'
<1> SUFFICES ASSUME EmsInv, [Next]_emsVars
             PROVE  LimitBeforeAnswer' /\ CountsLast'
  BY EmsTypeKept DEF EmsInv
<1>1. /\ TypeOK
      /\ todo["uart"] \in Seq(Entry) /\ todo["loop"] \in Seq(Entry)
      /\ tx \in Nat /\ MaxTx \in Nat
  BY EmsAssumption DEF EmsInv, TypeOK, Task
<1>2. CASE UNCHANGED emsVars
  BY <1>2, OthersLimited
<1>3. ASSUME NEW task \in Task, TaskStep(task)
      PROVE  LimitBeforeAnswer' /\ CountsLast'
  <2>1. CASE EnqueueFront(task) \/ EnqueueBack(task)
    BY <2>1, EnqueueLimited DEF EnqueueFront, EnqueueBack
  <2>2. CASE ZeroCounter(task)
    <3>1. CASE task = "loop"
      BY <1>1, <2>2, <3>1, OthersLimited DEF ZeroCounter, Proceed, TypeOK, Task
    <3>2. CASE task = "uart"
      <4>1. /\ todo["uart"] # <<>>
            /\ todo'["uart"] = Tail(todo["uart"])
            /\ tx' = 0
        BY <1>1, <2>2, <3>2 DEF ZeroCounter, Proceed, Busy, Idle, TypeOK, Task
      <4>2. LimitBeforeAnswer'
        BY <1>1, <4>1 DEF LimitBeforeAnswer, AnswersLimited
      <4>3. CountsLast'
        BY <1>1, <4>1 DEF EmsInv, CountsLast, CountsAlone
      <4>4. QED
        BY <4>2, <4>3
    <3>3. QED
      BY <3>1, <3>2 DEF Task
  <2>3. CASE DropQueue(task)
    <3>1. CASE task = "loop"
      BY <1>1, <2>3, <3>1, OthersLimited DEF DropQueue, Proceed, TypeOK, Task
    <3>2. CASE task = "uart"
      BY <2>3, <3>2, ProceedLimited
         DEF DropQueue, Busy, LimitBeforeAnswer, CountsLast
    <3>3. QED
      BY <3>1, <3>2 DEF Task
  <2>4. QED
    BY <1>3, <2>1, <2>2, <2>3 DEF TaskStep
<1>4. CASE LoopCall
  BY <1>1, <1>4, OthersLimited
     DEF LoopCall, ChangeBoilerState, SetHeatingTemperature, ProcessTelegrams,
         RequestPeriodicData, LoopBegins, Begin, TypeOK, Task
<1>5. CASE SendFirst
  <2>1. tx' = tx
    BY <1>5 DEF SendFirst
  <2>2. CASE toSend = <<>>
    BY <1>5, <2>1, <2>2, ProceedLimited
       DEF SendFirst, Busy, LimitBeforeAnswer, CountsLast
  <2>3. CASE toSend # <<>>
    <3>1. todo'["uart"] = <<CountSent>>
      BY <1>1, <1>5, <2>3 DEF SendFirst, TypeOK, Task
    <3>2. CountSent \in Entry /\ CountSent.op # "answerPoll"
      BY EntryTypes DEF CountSent
    <3>3. AnswersLimited(<<CountSent>>, tx) /\ CountsAlone(<<CountSent>>)
      BY <1>1, <3>2, ShortCallLimited
    <3>4. QED
      BY <2>1, <3>1, <3>3 DEF LimitBeforeAnswer, CountsLast
  <2>4. QED
    BY <2>2, <2>3
<1>6. CASE Count \/ Uncount
  <2>1. /\ todo["uart"] # <<>>
        /\ todo["uart"][1].op \in Counts
        /\ todo'["uart"] = Tail(todo["uart"])
    BY <1>1, <1>6 DEF Count, Uncount, Busy, Idle, Proceed, Counts, TypeOK, Task
  <2>2. Len(todo["uart"]) = 1
    BY <1>1, <2>1 DEF EmsInv, CountsLast, CountsAlone
  <2>3. Len(todo'["uart"]) = 0
    BY <1>1, <2>1, <2>2
  <2>4. QED
    BY <2>3 DEF LimitBeforeAnswer, CountsLast, AnswersLimited, CountsAlone
<1>7. ASSUME NEW own \in BOOLEAN, Poll(own)
      PROVE  LimitBeforeAnswer' /\ CountsLast'
  BY <1>7, PollLimited
<1>8. CASE Echo
  <2>1. /\ tx' = tx
        /\ todo'["uart"] \in {<<CountConfirmed>>, <<>>}
    BY <1>1, <1>8 DEF Echo, Begin, TypeOK, Task
  <2>2. CountConfirmed \in Entry /\ CountConfirmed.op # "answerPoll"
    BY EntryTypes DEF CountConfirmed
  <2>3. /\ AnswersLimited(<<CountConfirmed>>, tx)
        /\ CountsAlone(<<CountConfirmed>>)
        /\ AnswersLimited(<<>>, tx) /\ CountsAlone(<<>>)
    BY <1>1, <2>2, ShortCallLimited
  <2>4. QED
    BY <2>1, <2>3 DEF LimitBeforeAnswer, CountsLast
<1>9. CASE LoseFrame \/ \E telegram \in Received : Receive(telegram)
  BY <1>9, OthersLimited DEF LoseFrame, Receive
<1>10. QED
  BY <1>2, <1>3, <1>4, <1>5, <1>6, <1>7, <1>8, <1>9
     DEF Next, UartStep, BusEvent

\* A frame goes out only in answer to a poll, before which nothing is counted.
LEMMA SendsLimited ==
  ASSUME EmsInv, Next, wire = <<>>, wire' # <<>>
  PROVE  tx <= MaxTx
<1>1. SendFirst
  BY DEF Next, TaskStep, LoopCall, UartStep, BusEvent, EnqueueFront,
         EnqueueBack, Enqueue, ZeroCounter, DropQueue, ChangeBoilerState,
         SetHeatingTemperature, RequestPeriodicData, ProcessTelegrams, Count,
         Uncount, Poll, Echo, LoseFrame, Receive
<1>2. /\ todo["uart"] \in Seq(Entry) /\ todo["uart"] # <<>>
      /\ todo["uart"][1].op = "answerPoll"
  BY <1>1 DEF SendFirst, Busy, Idle, EmsInv, TypeOK, Task
<1>3. QED
  BY <1>2 DEF EmsInv, LimitBeforeAnswer, AnswersLimited

THEOREM EmsInvariant == Spec => []EmsInv
BY EmsInvInit, EmsInvKept, PTL DEF Spec

\* No telegram is put on the bus while txNotConfirmed_ is above its limit,
\* whatever its value at construction and however the loop task's reset and the
\* UART task's counting interleave.
THEOREM SendsInLimit == Spec => SendsWithinLimit
<1>1. EmsInv /\ [Next]_emsVars =>
        [wire = <<>> /\ wire' # <<>> => tx <= MaxTx]_emsVars
  BY SendsLimited
<1>2. QED
  BY <1>1, EmsInvariant, PTL DEF Spec, SendsWithinLimit

-----------------------------------------------------------------------------
(* The heat commands of a queue *)

\* The form of induction used below: a set of numbers has a least one.
LEMMA LeastNatural ==
  ASSUME NEW T, T \subseteq Nat, T # {}
  PROVE  \E m \in T : \A k \in T : m <= k
<1>1. PICK m \in T : \A k \in T : <<k, m>> \notin OpToRel(<, Nat)
  BY NatLessThanWellFounded, WFMin
<1>2. \A k \in T : ~(k < m)
  BY <1>1 DEF OpToRel
<1>3. QED
  BY <1>2

\* The heat commands of the first n telegrams, given those of fewer.
HeatAfter(queue, heat, n) ==
  IF n = 0 THEN <<>>
  ELSE IF IsHeat(queue[n]) THEN Append(heat[n - 1], queue[n].value)
  ELSE heat[n - 1]

IsHistory(queue, heat) ==
  heat = [n \in 0 .. Len(queue) |-> HeatAfter(queue, heat, n)]

LEMMA HeatCommandsChosen ==
  ASSUME NEW queue
  PROVE  HeatCommands(queue) = (CHOOSE heat : IsHistory(queue, heat))[Len(queue)]
BY DEF HeatCommands, IsHistory, HeatAfter

LEMMA HistoryExists ==
  ASSUME NEW queue \in Seq(Telegram)
  PROVE  \E heat \in [0 .. Len(queue) -> Seq(HeatCommand)] :
            IsHistory(queue, heat)
<1> DEFINE HistoryTo(n) == \E heat \in [0 .. n -> Seq(HeatCommand)] :
                             \A k \in 0 .. n : heat[k] = HeatAfter(queue, heat, k)
           Missing == {n \in 0 .. Len(queue) : ~HistoryTo(n)}
<1>1. Len(queue) \in Nat /\ \A i \in 1 .. Len(queue) : queue[i] \in Telegram
  OBVIOUS
<1>2. HistoryTo(0)
  <2> DEFINE heat == [k \in 0 .. 0 |-> <<>>]
  <2>1. heat \in [0 .. 0 -> Seq(HeatCommand)]
    OBVIOUS
  <2>2. \A k \in 0 .. 0 : heat[k] = HeatAfter(queue, heat, k)
    BY DEF HeatAfter
  <2>3. QED
    BY <2>1, <2>2
<1>3. ASSUME NEW n \in 1 .. Len(queue), HistoryTo(n - 1)
      PROVE  HistoryTo(n)
  <2>1. PICK heat \in [0 .. n - 1 -> Seq(HeatCommand)] :
               \A k \in 0 .. n - 1 : heat[k] = HeatAfter(queue, heat, k)
    BY <1>3
  <2> DEFINE more == [k \in 0 .. n |->
                        IF k = n THEN HeatAfter(queue, heat, n) ELSE heat[k]]
  <2>2. n - 1 \in 0 .. n - 1 /\ heat[n - 1] \in Seq(HeatCommand)
    BY <1>1
  <2>3. HeatAfter(queue, heat, n) \in Seq(HeatCommand)
    BY <1>1, <2>2, HeatTelegram DEF HeatAfter
  <2>4. more \in [0 .. n -> Seq(HeatCommand)]
    <3>1. ASSUME NEW k \in 0 .. n PROVE k = n \/ k \in 0 .. n - 1
      BY <1>1
    <3>2. QED
      BY <2>1, <2>3, <3>1
  <2>5. ASSUME NEW k \in 0 .. n
        PROVE  more[k] = HeatAfter(queue, more, k)
    <3>1. k = n \/ k \in 0 .. n - 1
      BY <1>1
    <3>2. k # 0 => k - 1 \in 0 .. n - 1 /\ k - 1 \in 0 .. n /\ k - 1 # n
      BY <1>1
    <3>3. HeatAfter(queue, more, k) = HeatAfter(queue, heat, k)
      BY <3>2 DEF HeatAfter
    <3>4. QED
      BY <2>1, <3>1, <3>3
  <2>6. QED
    BY <2>4, <2>5
<1>4. Missing = {}
  <2>1. SUFFICES ASSUME Missing # {} PROVE FALSE
    OBVIOUS
  <2>2. PICK m \in Missing : \A k \in Missing : m <= k
    <3>1. Missing \subseteq Nat
      BY <1>1
    <3> HIDE DEF Missing
    <3>2. QED
      BY <2>1, <3>1, LeastNatural
  <2>3. m # 0
    BY <1>2, <2>2
  <2>4. m - 1 \in 0 .. Len(queue) /\ ~(m <= m - 1) /\ m \in 1 .. Len(queue)
    BY <1>1, <2>2, <2>3
  <2>5. HistoryTo(m - 1)
    BY <2>2, <2>4
  <2>6. QED
    BY <1>3, <2>2, <2>4, <2>5
<1>5. HistoryTo(Len(queue))
  BY <1>1, <1>4
<1>6. PICK heat \in [0 .. Len(queue) -> Seq(HeatCommand)] :
        \A k \in 0 .. Len(queue) : heat[k] = HeatAfter(queue, heat, k)
  BY <1>5
<1>7. IsHistory(queue, heat)
  BY <1>6 DEF IsHistory
<1>8. QED
  BY <1>7

LEMMA HistoryUnique ==
  ASSUME NEW queue \in Seq(Telegram),
         NEW heat, IsHistory(queue, heat),
         NEW other, IsHistory(queue, other)
  PROVE  heat[Len(queue)] = other[Len(queue)]
<1> DEFINE Different == {n \in 0 .. Len(queue) : heat[n] # other[n]}
<1>1. Len(queue) \in Nat
  OBVIOUS
<1>2. \A n \in 0 .. Len(queue) : /\ heat[n] = HeatAfter(queue, heat, n)
                                 /\ other[n] = HeatAfter(queue, other, n)
  BY DEF IsHistory
<1>3. SUFFICES ASSUME Different # {} PROVE FALSE
  BY <1>1
<1>4. PICK m \in Different : \A k \in Different : m <= k
  <2>1. Different \subseteq Nat
    BY <1>1
  <2> HIDE DEF Different
  <2>2. QED
    BY <1>3, <2>1, LeastNatural
<1>5. m # 0
  BY <1>2, <1>4 DEF HeatAfter
<1>6. m - 1 \in 0 .. Len(queue) /\ ~(m <= m - 1)
  BY <1>1, <1>4, <1>5
<1>7. heat[m - 1] = other[m - 1]
  BY <1>4, <1>6
<1>8. heat[m] = other[m]
  BY <1>2, <1>4, <1>7 DEF HeatAfter
<1>9. QED
  BY <1>4, <1>8

\* Any history tells what the heat commands are.
LEMMA HeatCommandsAre ==
  ASSUME NEW queue \in Seq(Telegram), NEW heat, IsHistory(queue, heat)
  PROVE  HeatCommands(queue) = heat[Len(queue)]
<1> DEFINE chosen == CHOOSE h : IsHistory(queue, h)
<1>1. IsHistory(queue, chosen)
  OBVIOUS
<1>2. HeatCommands(queue) = chosen[Len(queue)]
  BY HeatCommandsChosen
<1> HIDE DEF chosen
<1>3. QED
  BY <1>1, <1>2, HistoryUnique

LEMMA HeatCommandsEmpty == HeatCommands(<<>>) = <<>>
<1> DEFINE queue == <<>>
<1>0. queue \in Seq(Telegram) /\ Len(queue) = 0
  OBVIOUS
<1> HIDE DEF queue
<1>1. PICK heat : IsHistory(queue, heat)
  BY <1>0, HistoryExists
<1>2. heat[0] = <<>>
  BY <1>0, <1>1 DEF IsHistory, HeatAfter
<1>3. HeatCommands(queue) = heat[Len(queue)]
  BY <1>0, <1>1, HeatCommandsAre
<1>4. HeatCommands(queue) = <<>>
  BY <1>0, <1>2, <1>3
<1>5. QED
  BY <1>4 DEF queue

LEMMA HeatCommandsTyped ==
  ASSUME NEW queue \in Seq(Telegram)
  PROVE  HeatCommands(queue) \in Seq(HeatCommand)
<1>1. PICK heat \in [0 .. Len(queue) -> Seq(HeatCommand)] :
        IsHistory(queue, heat)
  BY HistoryExists
<1>2. Len(queue) \in 0 .. Len(queue)
  OBVIOUS
<1>3. QED
  BY <1>1, <1>2, HeatCommandsAre

LEMMA HeatCommandsAppend ==
  ASSUME NEW queue \in Seq(Telegram), NEW t \in Telegram
  PROVE  HeatCommands(Append(queue, t)) =
           IF IsHeat(t) THEN Append(HeatCommands(queue), t.value)
                        ELSE HeatCommands(queue)
<1> DEFINE longer == Append(queue, t)
           n == Len(queue)
<1>1. /\ longer \in Seq(Telegram) /\ n \in Nat /\ Len(longer) = n + 1
      /\ \A i \in 1 .. n : longer[i] = queue[i]
      /\ longer[n + 1] = t
  OBVIOUS
<1>2. PICK heat : IsHistory(longer, heat)
  BY <1>1, HistoryExists
<1> HIDE DEF longer
<1> DEFINE first == [k \in 0 .. n |-> heat[k]]
<1>3. \A k \in 0 .. n + 1 : heat[k] = HeatAfter(longer, heat, k)
  BY <1>1, <1>2 DEF IsHistory
<1>4. ASSUME NEW k \in 0 .. n
      PROVE  heat[k] = HeatAfter(queue, first, k)
  <2>1. k \in 0 .. n + 1 /\ (k # 0 => k \in 1 .. n /\ k - 1 \in 0 .. n)
    BY <1>1
  <2>2. HeatAfter(longer, heat, k) = HeatAfter(queue, first, k)
    BY <1>1, <2>1 DEF HeatAfter
  <2>3. QED
    BY <1>3, <2>1, <2>2
<1>5. IsHistory(queue, first)
  BY <1>4 DEF IsHistory
<1>6. n \in 0 .. n /\ HeatCommands(queue) = heat[n]
  BY <1>1, <1>5, HeatCommandsAre
<1>7. HeatCommands(longer) = heat[n + 1]
  BY <1>1, <1>2, HeatCommandsAre
<1>8. heat[n + 1] = IF IsHeat(t) THEN Append(heat[n], t.value) ELSE heat[n]
  <2>1. n + 1 \in 0 .. n + 1 /\ n + 1 # 0 /\ (n + 1) - 1 = n
    BY <1>1
  <2>2. QED
    BY <1>1, <1>3, <2>1 DEF HeatAfter
<1>9. QED
  BY <1>6, <1>7, <1>8 DEF longer

LEMMA AppendBehind ==
  ASSUME NEW S, NEW s \in Seq(S), NEW t \in Seq(S), NEW e \in S
  PROVE  s \o Append(t, e) = Append(s \o t, e)
OBVIOUS

LEMMA HeatCommandsFirst ==
  ASSUME NEW queue \in Seq(Telegram), NEW t \in Telegram
  PROVE  HeatCommands(<<t>> \o queue) =
           IF IsHeat(t) THEN <<t.value>> \o HeatCommands(queue)
                        ELSE HeatCommands(queue)
<1> DEFINE longer == <<t>> \o queue
           n == Len(queue)
           front == IF IsHeat(t) THEN <<t.value>> ELSE <<>>
<1>1. /\ longer \in Seq(Telegram) /\ n \in Nat /\ Len(longer) = n + 1
      /\ \A i \in 1 .. n : longer[i + 1] = queue[i]
      /\ longer[1] = t
  OBVIOUS
<1>2. PICK heat \in [0 .. n -> Seq(HeatCommand)] : IsHistory(queue, heat)
  BY HistoryExists
<1>3. \A k \in 0 .. n : heat[k] = HeatAfter(queue, heat, k)
  BY <1>2 DEF IsHistory
<1>4. front \in Seq(HeatCommand)
  BY HeatTelegram
<1> HIDE DEF longer
<1> DEFINE more == [k \in 0 .. n + 1 |->
                      IF k = 0 THEN <<>> ELSE front \o heat[k - 1]]
<1>5. ASSUME NEW k \in 0 .. n + 1
      PROVE  more[k] = HeatAfter(longer, more, k)
  <2>1. CASE k = 0
    BY <2>1 DEF HeatAfter
  <2>2. CASE k = 1
    <3>1. heat[0] = <<>> /\ 0 \in 0 .. n + 1 /\ 1 \in 0 .. n + 1
      BY <1>1, <1>3 DEF HeatAfter
    <3>2. more[1] = front /\ more[0] = <<>>
      <4> HIDE DEF front
      <4>1. more[1] = front \o heat[0] /\ more[0] = <<>>
        BY <3>1
      <4> HIDE DEF more
      <4>2. front \o <<>> = front
        BY <1>4
      <4>3. QED
        BY <3>1, <4>1, <4>2
    <3>3. HeatAfter(longer, more, 1) =
            IF IsHeat(t) THEN Append(<<>>, t.value) ELSE <<>>
      BY <1>1, <3>2 DEF HeatAfter
    <3>4. QED
      BY <2>2, <3>2, <3>3
  <2>3. CASE k > 1
    <3>1. /\ k - 1 \in 1 .. n /\ k - 1 \in 0 .. n /\ k - 2 \in 0 .. n
          /\ k - 1 \in 0 .. n + 1 /\ k # 0 /\ k - 1 # 0
          /\ (k - 1) - 1 = k - 2 /\ (k - 1) + 1 = k
      BY <1>1, <2>3
    <3>2. longer[k] = queue[k - 1]
      BY <1>1, <3>1
    <3>3. more[k] = front \o heat[k - 1] /\ more[k - 1] = front \o heat[k - 2]
      BY <3>1
    <3>4. heat[k - 1] =
            IF IsHeat(queue[k - 1])
              THEN Append(heat[k - 2], queue[k - 1].value) ELSE heat[k - 2]
      BY <1>3, <3>1 DEF HeatAfter
    <3>5. HeatAfter(longer, more, k) =
            IF IsHeat(queue[k - 1])
              THEN Append(front \o heat[k - 2], queue[k - 1].value)
              ELSE front \o heat[k - 2]
      BY <3>1, <3>2, <3>3 DEF HeatAfter
    <3>6. heat[k - 2] \in Seq(HeatCommand) /\ queue[k - 1] \in Telegram
      BY <1>2, <3>1
    <3>7. IsHeat(queue[k - 1]) => queue[k - 1].value \in HeatCommand
      BY <3>6, HeatTelegram
    <3>8. IsHeat(queue[k - 1]) =>
            front \o Append(heat[k - 2], queue[k - 1].value) =
            Append(front \o heat[k - 2], queue[k - 1].value)
      <4> HIDE DEF front, more
      <4> DEFINE value == queue[k - 1].value
                 rest == heat[k - 2]
      <4>1. rest \in Seq(HeatCommand)
        BY <3>6
      <4>2. IsHeat(queue[k - 1]) => value \in HeatCommand
        BY <3>7
      <4> HIDE DEF value, rest
      <4>3. IsHeat(queue[k - 1]) =>
              front \o Append(rest, value) = Append(front \o rest, value)
        BY <1>4, <4>1, <4>2, AppendBehind
      <4>4. QED
        BY <4>3 DEF value, rest
    <3> HIDE DEF front, more
    <3>9. more[k] = HeatAfter(longer, more, k)
      BY <3>3, <3>4, <3>5, <3>8
    <3>10. QED
      BY <3>9
  <2>4. k = 0 \/ k = 1 \/ k > 1
    BY <1>1
  <2> HIDE DEF more, front
  <2>5. QED
    BY <2>1, <2>2, <2>3, <2>4
<1>6. IsHistory(longer, more)
  BY <1>1, <1>5 DEF IsHistory
<1>7. HeatCommands(longer) = more[n + 1] /\ HeatCommands(queue) = heat[n]
  BY <1>1, <1>2, <1>6, HeatCommandsAre
<1>8. more[n + 1] = front \o heat[n]
  BY <1>1
<1>9. heat[n] \in Seq(HeatCommand) /\ <<>> \o heat[n] = heat[n]
  BY <1>1, <1>2
<1>10. QED
  BY <1>7, <1>8, <1>9 DEF longer

LEMMA HeatCommandsNone ==
  ASSUME NEW queue \in Seq(Telegram), ~HoldsHeat(queue)
  PROVE  HeatCommands(queue) = <<>>
<1> DEFINE none == [k \in 0 .. Len(queue) |-> <<>>]
<1>1. Len(queue) \in Nat /\ Len(queue) \in 0 .. Len(queue)
  OBVIOUS
<1>2. ASSUME NEW k \in 0 .. Len(queue)
      PROVE  HeatAfter(queue, none, k) = <<>>
  <2>1. k # 0 => k \in DOMAIN queue /\ k - 1 \in 0 .. Len(queue)
    BY <1>1
  <2>2. k # 0 => ~IsHeat(queue[k])
    BY <2>1 DEF HoldsHeat
  <2>3. QED
    BY <2>1, <2>2 DEF HeatAfter
<1>3. IsHistory(queue, none)
  BY <1>2 DEF IsHistory
<1>4. HeatCommands(queue) = none[Len(queue)]
  BY <1>3, HeatCommandsAre
<1>5. QED
  BY <1>1, <1>4

-----------------------------------------------------------------------------
(* The channel of heat commands *)

\* Entries as both tasks make them: what is pushed in front is a request.
Polite == {e \in Entry : e.op = "pushFront" => ~IsHeat(e.telegram)}

FrontsAreRequests == todo \in [Task -> Seq(Polite)]

\* No answer to a poll is left to give while a frame is on the wire.
NoAnswer(ops) == \A i \in 1 .. Len(ops) : ops[i].op # "answerPoll"

WireThenPoll == wire # <<>> => NoAnswer(todo["uart"])

OnItsWay == HeatCommands(wire \o toSend)

NewestIsLast ==
  intact => newest = IF OnItsWay = <<>> THEN boilerHeat
                                        ELSE OnItsWay[Len(OnItsWay)]

ChannelInv ==
  /\ EmsInv
  /\ FrontsAreRequests
  /\ WireThenPoll
  /\ NewestIsLast

-----------------------------------------------------------------------------
LEMMA PoliteEntries ==
  /\ Polite \subseteq Entry
  /\ \A t \in Telegram : PushBack(t) \in Polite
  /\ \A t \in Telegram : ~IsHeat(t) => PushFront(t) \in Polite
  /\ ResetCounter \in Polite /\ ClearQueue \in Polite /\ AnswerPoll \in Polite
  /\ CountSent \in Polite /\ CountConfirmed \in Polite
  /\ \A n \in Nat : Reads(n) \in Seq(Polite)
  /\ EnableExternalControl \in Polite
<1>1. \A t \in Telegram : PushBack(t) \in Polite
  BY EntryTypes DEF Polite, PushBack
<1>2. \A t \in Telegram : ~IsHeat(t) => PushFront(t) \in Polite
  BY EntryTypes DEF Polite, PushFront
<1>3. /\ ResetCounter \in Polite /\ ClearQueue \in Polite
      /\ AnswerPoll \in Polite
      /\ CountSent \in Polite /\ CountConfirmed \in Polite
  BY EntryTypes
     DEF Polite, ResetCounter, ClearQueue, AnswerPoll, CountSent, CountConfirmed
<1>4. EnableExternalControl \in Polite
  BY <1>1, EntryTypes DEF EnableExternalControl
<1>5. ASSUME NEW n \in Nat PROVE Reads(n) \in Seq(Polite)
  <2>1. Frame("read", 0) \in Telegram /\ ~IsHeat(Frame("read", 0))
    BY EntryTypes DEF NoFrame, Frame, IsHeat
  <2>2. PushFront(Frame("read", 0)) \in Polite
    BY <1>2, <2>1
  <2>3. QED
    BY <2>2 DEF Reads
<1>6. QED
  BY <1>1, <1>2, <1>3, <1>4, <1>5 DEF Polite

LEMMA PoliteReset ==
  /\ RequestStartupData \in Seq(Polite)
  /\ Reset \in Seq(Polite)
  /\ NoAnswer(Reset)
<1>1. /\ Reads(StartupReads) \in Seq(Polite)
      /\ <<EnableExternalControl>> \in Seq(Polite)
      /\ <<ResetCounter, ClearQueue>> \in Seq(Polite)
  BY EmsAssumption, PoliteEntries
<1>2. RequestStartupData \in Seq(Polite)
  BY <1>1, PoliteEntries DEF RequestStartupData
<1>3. Reset \in Seq(Polite)
  BY <1>1, <1>2 DEF Reset
<1>4. /\ Len(Reads(StartupReads)) = StartupReads
      /\ \A i \in 1 .. StartupReads : Reads(StartupReads)[i].op = "pushFront"
  BY EmsAssumption DEF Reads, PushFront
<1>5. /\ Len(RequestStartupData) = StartupReads + 1
      /\ \A i \in 1 .. StartupReads + 1 :
           RequestStartupData[i].op # "answerPoll"
  <2>1. EnableExternalControl.op = "pushBack"
    BY DEF EnableExternalControl, PushBack
  <2>2. QED
    BY <1>1, <1>4, <2>1, EmsAssumption DEF RequestStartupData
<1>6. ASSUME NEW i \in 1 .. Len(Reset) PROVE Reset[i].op # "answerPoll"
  <2>1. /\ Len(Reset) = StartupReads + 3
        /\ Reset[i] = IF i <= 2 THEN <<ResetCounter, ClearQueue>>[i]
                                ELSE RequestStartupData[i - 2]
    BY <1>1, <1>2, <1>5, EmsAssumption DEF Reset
  <2>2. CASE i <= 2
    <3>1. Reset[i] \in {ResetCounter, ClearQueue}
      BY <2>1, <2>2
    <3>2. QED
      BY <3>1 DEF ResetCounter, ClearQueue
  <2>3. CASE ~(i <= 2)
    <3>1. Reset[i] = RequestStartupData[i - 2] /\ i - 2 \in 1 .. StartupReads + 1
      BY <2>1, <2>3, EmsAssumption
    <3>2. QED
      BY <1>5, <3>1
  <2>4. QED
    BY <2>2, <2>3
<1>7. QED
  BY <1>2, <1>3, <1>6 DEF NoAnswer

\* What is left to do, seen by task.
LEMMA TodoKnown ==
  ASSUME ChannelInv, NEW task \in Task
  PROVE  /\ todo[task] \in Seq(Polite)
         /\ ~Idle(task) =>
              /\ todo[task] # <<>>
              /\ Tail(todo[task]) \in Seq(Polite)
              /\ Head(todo[task]) \in Polite
              /\ Head(todo[task]).telegram \in Telegram
<1>1. todo[task] \in Seq(Polite)
  BY DEF ChannelInv, FrontsAreRequests
<1>2. ~Idle(task) => todo[task] # <<>>
  BY DEF Idle
<1>3. ~Idle(task) => /\ Tail(todo[task]) \in Seq(Polite)
                     /\ Head(todo[task]) \in Polite
  BY <1>1, <1>2
<1>4. QED
  BY <1>1, <1>2, <1>3 DEF Polite, Entry

LEMMA TailNoAnswer ==
  ASSUME NEW ops \in Seq(Entry), ops # <<>>, NoAnswer(ops)
  PROVE  NoAnswer(Tail(ops)) /\ NoAnswer(Reset \o Tail(ops))
<1>1. /\ Tail(ops) \in Seq(Entry) /\ Len(Tail(ops)) = Len(ops) - 1
      /\ \A i \in 1 .. Len(Tail(ops)) : Tail(ops)[i] = ops[i + 1]
  OBVIOUS
<1>2. ASSUME NEW i \in 1 .. Len(Tail(ops)) PROVE Tail(ops)[i].op # "answerPoll"
  <2>1. i + 1 \in 1 .. Len(ops)
    BY <1>1
  <2>2. QED
    BY <1>1, <2>1 DEF NoAnswer
<1>3. NoAnswer(Tail(ops))
  BY <1>2 DEF NoAnswer
<1>4. Reset \in Seq(Entry) /\ NoAnswer(Reset)
  BY ResetType, PoliteReset
<1>5. ASSUME NEW i \in 1 .. Len(Reset \o Tail(ops))
      PROVE  (Reset \o Tail(ops))[i].op # "answerPoll"
  <2>1. (Reset \o Tail(ops))[i] = IF i <= Len(Reset) THEN Reset[i]
                                  ELSE Tail(ops)[i - Len(Reset)]
    BY <1>1, <1>4
  <2>2. CASE i <= Len(Reset)
    <3>1. i \in 1 .. Len(Reset)
      BY <1>4, <2>2
    <3>2. QED
      BY <1>4, <2>1, <2>2, <3>1 DEF NoAnswer
  <2>3. CASE ~(i <= Len(Reset))
    <3>1. i - Len(Reset) \in 1 .. Len(Tail(ops))
      BY <1>1, <1>4, <2>3
    <3>2. QED
      BY <1>3, <2>1, <2>3, <3>1 DEF NoAnswer
  <2>4. QED
    BY <2>2, <2>3
<1>6. QED
  BY <1>3, <1>5 DEF NoAnswer

-----------------------------------------------------------------------------
(* What each task has left to do *)

\* A task is done with an entry, or puts a reset in its place.
LEMMA GoesOnPolite ==
  ASSUME ChannelInv, NEW task \in Task, ~Idle(task), wire' = wire,
         \/ todo' = [todo EXCEPT ![task] = Reset \o Tail(todo[task])]
         \/ Proceed(task)
  PROVE  FrontsAreRequests' /\ WireThenPoll'
<1>1. /\ todo \in [Task -> Seq(Polite)] /\ todo[task] # <<>>
      /\ Tail(todo[task]) \in Seq(Polite)
      /\ todo[task] \in Seq(Entry)
  BY TodoKnown DEF ChannelInv, FrontsAreRequests, EmsInv, TypeOK
<1>2. \/ todo' = [todo EXCEPT ![task] = Reset \o Tail(todo[task])]
      \/ todo' = [todo EXCEPT ![task] = Tail(todo[task])]
  BY DEF Proceed
<1>3. Reset \o Tail(todo[task]) \in Seq(Polite)
  BY <1>1, PoliteReset
<1>4. FrontsAreRequests'
  BY <1>1, <1>2, <1>3 DEF FrontsAreRequests
<1>5. CASE task = "uart"
  <2>1. todo'["uart"] \in {Tail(todo["uart"]), Reset \o Tail(todo["uart"])}
    BY <1>1, <1>2, <1>5
  <2>2. wire # <<>> => NoAnswer(todo["uart"])
    BY DEF ChannelInv, WireThenPoll
  <2>3. wire # <<>> =>
          NoAnswer(Tail(todo["uart"])) /\ NoAnswer(Reset \o Tail(todo["uart"]))
    BY <1>1, <1>5, <2>2, TailNoAnswer
  <2>4. WireThenPoll'
    BY <2>1, <2>3 DEF WireThenPoll
  <2>5. QED
    BY <1>4, <2>4
<1>6. CASE task # "uart"
  <2>1. todo'["uart"] = todo["uart"]
    BY <1>1, <1>2, <1>6 DEF Task
  <2>2. WireThenPoll'
    BY <2>1 DEF ChannelInv, WireThenPoll
  <2>3. QED
    BY <1>4, <2>2
<1>7. QED
  BY <1>5, <1>6

\* A call begins; the UART task begins none that answers a poll while a frame
\* is on the wire.
LEMMA BeginPolite ==
  ASSUME ChannelInv, NEW task \in Task, NEW ops \in Seq(Polite),
         Begin(task, ops),
         IF task = "loop" THEN wire' = wire ELSE wire' = <<>>
  PROVE  FrontsAreRequests' /\ WireThenPoll'
<1>1. todo \in [Task -> Seq(Polite)]
  BY DEF ChannelInv, FrontsAreRequests
<1>2. todo' = [todo EXCEPT ![task] = ops]
  BY DEF Begin
<1>3. FrontsAreRequests'
  BY <1>1, <1>2 DEF FrontsAreRequests
<1>4. task = "loop" => todo'["uart"] = todo["uart"]
  BY <1>1, <1>2 DEF Task
<1>5. WireThenPoll'
  BY <1>4 DEF ChannelInv, WireThenPoll
<1>6. QED
  BY <1>3, <1>5

LEMMA LoopCallPolite ==
  ASSUME ChannelInv, LoopCall
  PROVE  FrontsAreRequests' /\ WireThenPoll'
<1>1. ASSUME NEW ops \in Seq(Polite), LoopBegins(ops), wire' = wire
      PROVE  FrontsAreRequests' /\ WireThenPoll'
  BY <1>1, BeginPolite DEF LoopBegins, Task
<1>2. ASSUME NEW command \in HeatCommand, ChangeBoilerState(command)
      PROVE  FrontsAreRequests' /\ WireThenPoll'
  <2>1. Frame("heat", command) \in Telegram
    BY DEF Frame, Telegram
  <2>2. <<PushBack(Frame("heat", command))>> \in Seq(Polite)
    BY <2>1, PoliteEntries
  <2>3. QED
    BY <1>1, <1>2, <2>2 DEF ChangeBoilerState
<1>3. ASSUME NEW temp \in Temps, SetHeatingTemperature(temp)
      PROVE  FrontsAreRequests' /\ WireThenPoll'
  <2>1. Frame("set", temp) \in Telegram /\ ~IsHeat(Frame("set", temp))
    BY DEF Frame, Telegram, IsHeat
  <2>2. <<PushFront(Frame("set", temp))>> \in Seq(Polite)
    BY <2>1, PoliteEntries
  <2>3. QED
    BY <1>1, <1>3, <2>2 DEF SetHeatingTemperature
<1>4. CASE RequestPeriodicData
  <2>1. /\ Reads(DetailReads) \in Seq(Polite)
        /\ <<EnableExternalControl>> \in Seq(Polite)
    BY PoliteEntries, EmsAssumption
  <2>2. <<EnableExternalControl>> \o Reads(DetailReads) \in Seq(Polite)
    BY <2>1
  <2>3. QED
    BY <1>1, <1>4, <2>1, <2>2 DEF RequestPeriodicData
<1>5. CASE ProcessTelegrams
  <2>1. wire' = wire
    BY <1>5 DEF ProcessTelegrams
  <2>2. /\ Frame("reply", 0) \in Telegram /\ ~IsHeat(Frame("reply", 0))
        /\ Frame("shortReply", 0) \in Telegram /\ ~IsHeat(Frame("shortReply", 0))
    BY DEF Frame, Telegram, IsHeat
  <2>3. Answer(Head(toProcess)) \in Polite
    BY <2>2, PoliteEntries DEF Answer
  <2>4. <<Answer(Head(toProcess))>> \in Seq(Polite) /\ <<>> \in Seq(Polite)
    BY <2>3
  <2>5. LoopBegins(<<>>) \/ LoopBegins(<<Answer(Head(toProcess))>>)
    BY <1>5 DEF ProcessTelegrams
  <2>6. QED
    BY <1>1, <2>1, <2>4, <2>5
<1>6. QED
  BY <1>2, <1>3, <1>4, <1>5 DEF LoopCall

LEMMA SendFirstPolite ==
  ASSUME ChannelInv, SendFirst
  PROVE  FrontsAreRequests' /\ WireThenPoll'
<1>1. ~Idle("uart") /\ "uart" \in Task
  BY DEF SendFirst, Busy, Task
<1>2. CASE toSend = <<>>
  BY <1>1, <1>2, GoesOnPolite DEF SendFirst
<1>3. CASE toSend # <<>>
  <2>1. todo \in [Task -> Seq(Polite)]
    BY DEF ChannelInv, FrontsAreRequests
  <2>2. todo' = [todo EXCEPT !["uart"] = <<CountSent>>]
    BY <1>3 DEF SendFirst
  <2>3. <<CountSent>> \in Seq(Polite)
    BY PoliteEntries
  <2>4. FrontsAreRequests'
    BY <2>1, <2>2, <2>3 DEF FrontsAreRequests
  <2>5. todo'["uart"] = <<CountSent>>
    BY <1>1, <2>1, <2>2
  <2>6. NoAnswer(<<CountSent>>)
    BY DEF NoAnswer, CountSent
  <2>7. QED
    BY <2>4, <2>5, <2>6 DEF WireThenPoll
<1>4. QED
  BY <1>2, <1>3

LEMMA PolitenessKept ==
  ASSUME ChannelInv, [Next]_emsVars
  PROVE  FrontsAreRequests' /\ WireThenPoll'
<1>1. CASE wire' \in {wire, <<>>} /\ todo' = todo
  BY <1>1 DEF ChannelInv, FrontsAreRequests, WireThenPoll
<1>2. ASSUME NEW task \in Task, TaskStep(task)
      PROVE  FrontsAreRequests' /\ WireThenPoll'
  <2>1. CASE EnqueueFront(task) \/ EnqueueBack(task)
    BY <2>1, GoesOnPolite DEF EnqueueFront, EnqueueBack, Enqueue, Busy
  <2>2. CASE ZeroCounter(task) \/ DropQueue(task)
    BY <2>2, GoesOnPolite DEF ZeroCounter, DropQueue, Busy
  <2>3. QED
    BY <1>2, <2>1, <2>2 DEF TaskStep
<1>3. CASE Count \/ Uncount
  BY <1>3, GoesOnPolite DEF Count, Uncount, Busy, Task
<1>4. ASSUME NEW own \in BOOLEAN, Poll(own)
      PROVE  FrontsAreRequests' /\ WireThenPoll'
  <2> DEFINE ops == (IF tx > MaxTx THEN Reset ELSE <<>>)
                      \o (IF own THEN <<AnswerPoll>> ELSE <<>>)
  <2>1. /\ (IF tx > MaxTx THEN Reset ELSE <<>>) \in Seq(Polite)
        /\ (IF own THEN <<AnswerPoll>> ELSE <<>>) \in Seq(Polite)
    BY PoliteReset, PoliteEntries
  <2>2. ops \in Seq(Polite)
    BY <2>1
  <2>3. Begin("uart", ops) /\ wire' = <<>>
    BY <1>4 DEF Poll
  <2>4. "uart" \in Task /\ "uart" # "loop"
    BY DEF Task
  <2> HIDE DEF ops
  <2>5. QED
    BY <2>2, <2>3, <2>4, BeginPolite
<1>5. CASE Echo
  <2> DEFINE ops == IF Head(wire).kind # "shortReply" /\ tx > 0
                      THEN <<CountConfirmed>> ELSE <<>>
  <2>1. ops \in Seq(Polite)
    BY PoliteEntries
  <2>2. Begin("uart", ops) /\ wire' = <<>>
    BY <1>5 DEF Echo
  <2>3. "uart" \in Task /\ "uart" # "loop"
    BY DEF Task
  <2> HIDE DEF ops
  <2>4. QED
    BY <2>1, <2>2, <2>3, BeginPolite
<1>6. CASE \/ UNCHANGED emsVars \/ LoseFrame
           \/ \E telegram \in Received : Receive(telegram)
  BY <1>1, <1>6 DEF LoseFrame, Receive
<1>7. QED
  BY <1>2, <1>3, <1>4, <1>5, <1>6, LoopCallPolite, SendFirstPolite
     DEF Next, UartStep, BusEvent

-----------------------------------------------------------------------------
(* What a step does to the heat commands on their way *)

\* Nothing, or it accepts one, or the oldest is obeyed, or some are lost; and
\* what becomes of the history.
ChannelStep ==
  \/ /\ UNCHANGED <<OnItsWay, boilerHeat, newest>>
     /\ intact' => intact
  \/ /\ \E c \in HeatCommand : Channel!Accept(c) /\ newest' = c
  \/ /\ Channel!Obey
     /\ UNCHANGED newest
     /\ intact' => intact
  \/ /\ ~intact'
     /\ Channel!LoseOldest \/ \E kept \in 0 .. 1 :
                                kept <= Len(OnItsWay) /\ Channel!Drop(kept)

\* The frame on the wire, if there is one, comes before the queue.
LEMMA QueueParts ==
  ASSUME TypeOK
  PROVE  /\ toSend \in Seq(Telegram) /\ wire \in Seq(Telegram)
         /\ wire \o toSend \in Seq(Telegram)
         /\ OnItsWay \in Seq(HeatCommand)
         /\ wire = <<>> => wire \o toSend = toSend
         /\ wire # <<>> =>
              /\ Head(wire) \in Telegram
              /\ wire = <<Head(wire)>>
              /\ wire \o toSend = <<Head(wire)>> \o toSend
<1>1. toSend \in Seq(Telegram) /\ wire \in Seq(Telegram) /\ Len(wire) <= 1
  BY DEF TypeOK
<1>2. wire \o toSend \in Seq(Telegram)
  BY <1>1
<1>3. wire = <<>> => wire \o toSend = toSend
  BY <1>1
<1>4. ASSUME wire # <<>>
      PROVE  Head(wire) \in Telegram /\ wire = <<Head(wire)>>
  <2>1. Len(wire) = 1 /\ Head(wire) = wire[1] /\ wire[1] \in Telegram
    BY <1>1, <1>4
  <2>2. <<Head(wire)>> \in Seq(Telegram) /\ Len(<<Head(wire)>>) = 1
    BY <2>1
  <2>3. wire = <<Head(wire)>>
    BY <1>1, <2>1, <2>2
  <2>4. QED
    BY <2>1, <2>3
<1>5. QED
  BY <1>1, <1>2, <1>3, <1>4, HeatCommandsTyped DEF OnItsWay

\* A telegram other than a heat command pushed in front.
LEMMA FrontKeepsCommands ==
  ASSUME TypeOK, NEW t \in Telegram, ~IsHeat(t)
  PROVE  HeatCommands(wire \o (<<t>> \o toSend)) = OnItsWay
<1>1. /\ <<t>> \o toSend \in Seq(Telegram)
      /\ HeatCommands(<<t>> \o toSend) = HeatCommands(toSend)
  <2>1. toSend \in Seq(Telegram)
    BY QueueParts
  <2>2. <<t>> \o toSend \in Seq(Telegram)
    BY <2>1
  <2>3. QED
    BY <2>1, <2>2, HeatCommandsFirst
<1>2. CASE wire = <<>>
  <2>1. wire \o (<<t>> \o toSend) = <<t>> \o toSend
    BY <1>1, <1>2
  <2>2. QED
    BY <1>1, <1>2, <2>1, QueueParts DEF OnItsWay
<1>3. CASE wire # <<>>
  <2>1. wire \o (<<t>> \o toSend) = <<Head(wire)>> \o (<<t>> \o toSend)
    BY <1>3, QueueParts
  <2>2. HeatCommands(<<Head(wire)>> \o (<<t>> \o toSend)) =
          HeatCommands(<<Head(wire)>> \o toSend)
    BY <1>1, <1>3, QueueParts, HeatCommandsFirst
  <2>3. QED
    BY <1>3, <2>1, <2>2, QueueParts DEF OnItsWay
<1>4. QED
  BY <1>2, <1>3

LEMMA EnqueueStep ==
  ASSUME ChannelInv, NEW task \in Task,
         EnqueueFront(task) \/ EnqueueBack(task)
  PROVE  ChannelStep
<1> DEFINE t == Head(todo[task]).telegram
<1>1. /\ TypeOK /\ t \in Telegram /\ Head(todo[task]) \in Polite
      /\ wire' = wire /\ boilerHeat' = boilerHeat
      /\ intact \in BOOLEAN
  BY TodoKnown
     DEF ChannelInv, EmsInv, TypeOK, EnqueueFront, EnqueueBack, Enqueue, Busy
<1>2. CASE Len(toSend) = MaxQueue
  <2>1. toSend' = toSend /\ newest' = newest /\ intact' = (intact /\ ~IsHeat(t))
    BY <1>2 DEF EnqueueFront, EnqueueBack, Enqueue
  <2>2. QED
    BY <1>1, <2>1 DEF ChannelStep, OnItsWay
<1>3. CASE Len(toSend) # MaxQueue /\ EnqueueFront(task)
  <2>1. toSend' = <<t>> \o toSend /\ Accepted(t)
    BY <1>3 DEF EnqueueFront, Enqueue
  <2>2. Head(todo[task]).op = "pushFront"
    BY <1>3 DEF EnqueueFront, Enqueue, Busy
  <2>3. ~IsHeat(t)
    BY <1>1, <2>2 DEF Polite
  <2>4. newest' = newest /\ intact' = intact
    BY <2>1, <2>3 DEF Accepted
  <2>5. OnItsWay' = OnItsWay
    <3> HIDE DEF t
    <3>1. QED
      BY <1>1, <2>1, <2>3, FrontKeepsCommands DEF OnItsWay
  <2>6. QED
    BY <1>1, <2>4, <2>5 DEF ChannelStep
<1>4. CASE Len(toSend) # MaxQueue /\ EnqueueBack(task)
  <2>1. toSend' = Append(toSend, t) /\ Accepted(t)
    BY <1>4 DEF EnqueueBack, Enqueue
  <2> HIDE DEF t
  <2>2. wire \o Append(toSend, t) = Append(wire \o toSend, t)
    BY <1>1, QueueParts, AppendBehind
  <2>3. OnItsWay' = IF IsHeat(t) THEN Append(OnItsWay, t.value) ELSE OnItsWay
    BY <1>1, <2>1, <2>2, QueueParts, HeatCommandsAppend DEF OnItsWay
  <2>4. CASE IsHeat(t)
    <3>1. t.value \in HeatCommand /\ newest' = t.value
      BY <1>1, <2>1, <2>4, HeatTelegram DEF Accepted
    <3>2. Channel!Accept(t.value)
      BY <1>1, <2>3, <2>4 DEF Channel!Accept, OnItsWay
    <3>3. QED
      BY <3>1, <3>2 DEF ChannelStep
  <2>5. CASE ~IsHeat(t)
    <3>1. newest' = newest /\ intact' = intact
      BY <2>1, <2>5 DEF Accepted
    <3>2. QED
      BY <1>1, <2>3, <2>5, <3>1 DEF ChannelStep
  <2>6. QED
    BY <2>4, <2>5
<1>5. QED
  BY <1>2, <1>3, <1>4

LEMMA DropQueueStep ==
  ASSUME ChannelInv, NEW task \in Task, DropQueue(task)
  PROVE  ChannelStep
<1>1. /\ TypeOK /\ intact \in BOOLEAN
      /\ toSend' = <<>> /\ wire' = wire
      /\ boilerHeat' = boilerHeat /\ newest' = newest
      /\ intact' = (intact /\ ~HoldsHeat(toSend))
  BY DEF ChannelInv, EmsInv, TypeOK, DropQueue
<1>2. /\ wire \o <<>> = wire /\ OnItsWay' = HeatCommands(wire)
      /\ OnItsWay = HeatCommands(wire \o toSend)
  BY <1>1, QueueParts DEF OnItsWay
<1> DEFINE queued == HeatCommands(toSend)
           ahead  == HeatCommands(wire)
<1>3. /\ queued \in Seq(HeatCommand) /\ ahead \in Seq(HeatCommand)
      /\ Len(ahead) <= 1 /\ OnItsWay = ahead \o queued
  <2>1. queued \in Seq(HeatCommand) /\ ahead \in Seq(HeatCommand)
    BY <1>1, QueueParts, HeatCommandsTyped
  <2>2. CASE wire = <<>>
    <3>1. ahead = <<>> /\ OnItsWay = queued
      BY <1>1, <1>2, <2>2, QueueParts, HeatCommandsEmpty
    <3> HIDE DEF ahead, queued
    <3>2. QED
      BY <2>1, <3>1
  <2>3. CASE wire # <<>>
    <3> DEFINE w == Head(wire)
    <3>1. w \in Telegram /\ wire = <<w>> /\ wire \o toSend = <<w>> \o toSend
      BY <1>1, <2>3, QueueParts
    <3> HIDE DEF w
    <3>2. <<w>> \o <<>> = <<w>> /\ <<>> \in Seq(Telegram)
      BY <3>1
    <3>3. ahead = IF IsHeat(w) THEN <<w.value>> \o <<>> ELSE <<>>
      BY <3>1, <3>2, HeatCommandsFirst, HeatCommandsEmpty
    <3>4. OnItsWay = IF IsHeat(w) THEN <<w.value>> \o queued ELSE queued
      BY <1>1, <1>2, <3>1, QueueParts, HeatCommandsFirst
    <3>5. IsHeat(w) => w.value \in HeatCommand
      BY <3>1, HeatTelegram
    <3> HIDE DEF ahead, queued
    <3>6. QED
      BY <2>1, <3>3, <3>4, <3>5
  <2>4. QED
    BY <2>2, <2>3
<1>4. CASE HoldsHeat(toSend)
  <2> DEFINE kept == Len(ahead)
  <2>1. kept \in 0 .. 1 /\ kept <= Len(OnItsWay)
    <3> HIDE DEF ahead, queued
    <3>1. Len(OnItsWay) = Len(ahead) + Len(queued)
      BY <1>3
    <3>2. Len(ahead) \in Nat /\ Len(queued) \in Nat /\ Len(ahead) <= 1
      BY <1>3
    <3> HIDE DEF kept
    <3>3. kept = Len(ahead)
      BY DEF kept
    <3>4. kept \in 0 .. 1
      BY <3>2, <3>3
    <3>5. kept <= Len(OnItsWay)
      BY <3>1, <3>2, <3>3
    <3>6. QED
      BY <3>4, <3>5
  <2>2. ahead = SubSeq(OnItsWay, 1, kept)
    <3> HIDE DEF ahead, queued
    <3>1. QED
      BY <1>3
  <2>3. Channel!Drop(kept)
    BY <1>1, <1>2, <2>2 DEF Channel!Drop, OnItsWay
  <2> HIDE DEF kept
  <2>4. QED
    BY <1>1, <1>4, <2>1, <2>3 DEF ChannelStep
<1>5. CASE ~HoldsHeat(toSend)
  <2>1. queued = <<>>
    BY <1>1, <1>5, QueueParts, HeatCommandsNone
  <2>2. OnItsWay' = OnItsWay
    <3> HIDE DEF queued
    <3>1. ahead = OnItsWay
      <4> HIDE DEF ahead
      <4>1. QED
        BY <1>3, <2>1
    <3>2. QED
      BY <1>2, <3>1
  <2>3. QED
    BY <1>1, <2>2 DEF ChannelStep
<1>6. QED
  BY <1>4, <1>5

LEMMA SendFirstStep ==
  ASSUME ChannelInv, SendFirst
  PROVE  ChannelStep
<1>1. /\ TypeOK
      /\ boilerHeat' = boilerHeat /\ newest' = newest /\ intact' = intact
  BY DEF ChannelInv, EmsInv, SendFirst
<1>2. CASE toSend = <<>>
  BY <1>1, <1>2 DEF SendFirst, ChannelStep, OnItsWay
<1>3. CASE toSend # <<>>
  <2>1. wire = <<>>
    <3>1. todo["uart"] \in Seq(Polite) /\ todo["uart"] # <<>>
      BY TodoKnown DEF SendFirst, Busy, Task
    <3>2. /\ 1 \in 1 .. Len(todo["uart"])
          /\ todo["uart"][1].op = "answerPoll"
      BY <3>1 DEF SendFirst, Busy
    <3>3. QED
      BY <3>2 DEF ChannelInv, WireThenPoll, NoAnswer
  <2>2. wire' = <<Head(toSend)>> /\ toSend' = Tail(toSend)
    BY <1>3 DEF SendFirst
  <2>3. <<Head(toSend)>> \o Tail(toSend) = toSend
    BY <1>1, <1>3, QueueParts
  <2>4. OnItsWay' = OnItsWay
    BY <1>1, <2>1, <2>2, <2>3, QueueParts DEF OnItsWay
  <2>5. QED
    BY <1>1, <2>4 DEF ChannelStep
<1>4. QED
  BY <1>2, <1>3

\* The frame leaves the wire: with its echo, or lost.
LEMMA WireStep ==
  ASSUME ChannelInv, wire # <<>>, wire' = <<>>, toSend' = toSend,
         newest' = newest,
         \/ Obeyed(Head(wire)) /\ intact' = intact
         \/ /\ intact' = (intact /\ ~IsHeat(Head(wire)))
            /\ boilerHeat' = boilerHeat
  PROVE  ChannelStep
<1> DEFINE w == Head(wire)
           queued == HeatCommands(toSend)
<1>1. /\ TypeOK /\ intact \in BOOLEAN
      /\ w \in Telegram /\ wire \o toSend = <<w>> \o toSend
      /\ toSend \in Seq(Telegram)
      /\ queued \in Seq(HeatCommand)
      /\ <<>> \o toSend = toSend
  BY QueueParts, HeatCommandsTyped DEF ChannelInv, EmsInv, TypeOK
<1>2. OnItsWay' = queued
  BY <1>1 DEF OnItsWay
<1> HIDE DEF w
<1>3. OnItsWay = IF IsHeat(w) THEN <<w.value>> \o queued ELSE queued
  BY <1>1, HeatCommandsFirst DEF OnItsWay
<1>4. CASE ~IsHeat(w)
  <2>1. boilerHeat' = boilerHeat /\ intact' = intact
    BY <1>1, <1>4 DEF Obeyed, w
  <2>2. QED
    BY <1>2, <1>3, <1>4, <2>1 DEF ChannelStep
<1>5. CASE IsHeat(w)
  <2>1. w.value \in HeatCommand
    BY <1>1, <1>5, HeatTelegram
  <2> HIDE DEF queued
  <2>2. /\ OnItsWay # <<>> /\ Head(OnItsWay) = w.value
        /\ Tail(OnItsWay) = queued
    BY <1>1, <1>3, <1>5, <2>1
  <2>3. CASE Obeyed(w) /\ intact' = intact
    <3>1. boilerHeat' = w.value
      BY <1>5, <2>3 DEF Obeyed
    <3>2. Channel!Obey
      BY <1>2, <2>2, <3>1 DEF Channel!Obey, OnItsWay
    <3>3. QED
      BY <2>3, <3>2 DEF ChannelStep
  <2>4. CASE /\ intact' = (intact /\ ~IsHeat(w))
             /\ boilerHeat' = boilerHeat
    <3>1. Channel!LoseOldest
      BY <1>2, <2>2, <2>4 DEF Channel!LoseOldest, OnItsWay
    <3>2. ~intact'
      BY <1>5, <2>4
    <3>3. QED
      BY <3>1, <3>2 DEF ChannelStep
  <2>5. QED
    BY <2>3, <2>4 DEF w
<1>6. QED
  BY <1>4, <1>5

LEMMA EveryChannelStep ==
  ASSUME ChannelInv, [Next]_emsVars
  PROVE  ChannelStep
<1>1. CASE UNCHANGED <<wire, toSend, boilerHeat, newest, intact>>
  BY <1>1 DEF ChannelStep, OnItsWay
<1>2. ASSUME NEW task \in Task, TaskStep(task)
      PROVE  ChannelStep
  BY <1>1, <1>2, EnqueueStep, DropQueueStep DEF TaskStep, ZeroCounter
<1>3. CASE LoopCall
  BY <1>1, <1>3
     DEF LoopCall, ChangeBoilerState, SetHeatingTemperature, RequestPeriodicData,
         ProcessTelegrams
<1>4. CASE Count \/ Uncount
  BY <1>1, <1>4 DEF Count, Uncount
<1>5. CASE Echo
  BY <1>5, WireStep DEF Echo
<1>6. CASE LoseFrame
  BY <1>6, WireStep DEF LoseFrame
<1>7. CASE \/ \E own \in BOOLEAN : Poll(own)
           \/ \E telegram \in Received : Receive(telegram)
  BY <1>1, <1>7 DEF Poll, Receive
<1>8. CASE UNCHANGED emsVars
  BY <1>1, <1>8
<1>9. QED
  BY <1>2, <1>3, <1>4, <1>5, <1>6, <1>7, <1>8, SendFirstStep
     DEF Next, UartStep, BusEvent

-----------------------------------------------------------------------------
(* The refinement and the newest command *)

LEMMA NewestKept ==
  ASSUME ChannelInv, ChannelStep
  PROVE  NewestIsLast'
<1>1. /\ OnItsWay \in Seq(HeatCommand)
      /\ intact => newest = IF OnItsWay = <<>> THEN boilerHeat
                                               ELSE OnItsWay[Len(OnItsWay)]
  BY QueueParts DEF ChannelInv, EmsInv, NewestIsLast
<1>2. CASE /\ UNCHANGED <<OnItsWay, boilerHeat, newest>>
           /\ intact' => intact
  BY <1>1, <1>2 DEF NewestIsLast
<1>3. ASSUME NEW c \in HeatCommand, Channel!Accept(c), newest' = c
      PROVE  NewestIsLast'
  <2>1. OnItsWay' = Append(OnItsWay, c)
    BY <1>3 DEF Channel!Accept, OnItsWay
  <2>2. /\ Append(OnItsWay, c) # <<>>
        /\ Append(OnItsWay, c)[Len(Append(OnItsWay, c))] = c
    BY <1>1
  <2>3. QED
    BY <1>3, <2>1, <2>2 DEF NewestIsLast
<1>4. CASE Channel!Obey /\ UNCHANGED newest /\ (intact' => intact)
  <2>1. /\ OnItsWay # <<>> /\ OnItsWay' = Tail(OnItsWay)
        /\ boilerHeat' = Head(OnItsWay)
    BY <1>4 DEF Channel!Obey, OnItsWay
  <2>2. intact => newest = OnItsWay[Len(OnItsWay)]
    BY <1>1, <2>1
  <2>3. CASE Tail(OnItsWay) = <<>>
    <3>1. Len(Tail(OnItsWay)) = Len(OnItsWay) - 1 /\ Len(OnItsWay) \in Nat
      BY <1>1, <2>1
    <3>2. Len(Tail(OnItsWay)) = 0
      BY <2>3
    <3>3. Len(OnItsWay) = 1
      BY <3>1, <3>2
    <3>4. Head(OnItsWay) = OnItsWay[1]
      BY <1>1, <2>1
    <3>5. QED
      BY <1>4, <2>1, <2>2, <2>3, <3>3, <3>4 DEF NewestIsLast
  <2>4. CASE Tail(OnItsWay) # <<>>
    <3>1. Tail(OnItsWay)[Len(Tail(OnItsWay))] = OnItsWay[Len(OnItsWay)]
      BY <1>1, <2>1, <2>4
    <3>2. QED
      BY <1>4, <2>1, <2>2, <2>4, <3>1 DEF NewestIsLast
  <2>5. QED
    BY <2>3, <2>4
<1>5. CASE ~intact'
  BY <1>5 DEF NewestIsLast
<1>6. QED
  BY <1>2, <1>3, <1>4, <1>5 DEF ChannelStep

LEMMA ChannelInvInit == Init => ChannelInv /\ Channel!Init
<1> SUFFICES ASSUME Init PROVE ChannelInv /\ Channel!Init
  OBVIOUS
<1>1. EmsInv /\ todo["uart"] = <<>> /\ wire = <<>> /\ toSend = <<>>
  BY EmsInvInit DEF Init, Task
<1>2. <<>> \o <<>> = <<>> /\ OnItsWay = <<>>
  BY <1>1, HeatCommandsEmpty DEF OnItsWay
<1>3. FrontsAreRequests
  BY PoliteReset DEF Init, FrontsAreRequests
<1>4. WireThenPoll /\ NewestIsLast
  BY <1>1, <1>2 DEF WireThenPoll, NewestIsLast, Init
<1>5. Channel!Init
  BY <1>2 DEF Channel!Init, Init, OnItsWay
<1>6. QED
  BY <1>1, <1>3, <1>4, <1>5 DEF ChannelInv

LEMMA ChannelInvKept == ChannelInv /\ [Next]_emsVars => ChannelInv'
<1> SUFFICES ASSUME ChannelInv, [Next]_emsVars PROVE ChannelInv'
  OBVIOUS
<1>1. EmsInv'
  BY EmsInvKept DEF ChannelInv
<1>2. FrontsAreRequests' /\ WireThenPoll'
  BY PolitenessKept
<1>3. NewestIsLast'
  BY EveryChannelStep, NewestKept
<1>4. QED
  BY <1>1, <1>2, <1>3 DEF ChannelInv

THEOREM ChannelInvariant == Spec => []ChannelInv
BY ChannelInvInit, ChannelInvKept, PTL DEF Spec

\* When nothing is left to send and no heat command was dropped, the boiler
\* does what it was told last, whatever was queued meanwhile by either task.
THEOREM NewestObeyed == Spec => []NewestHeatObeyed
<1>1. ChannelInv => NewestHeatObeyed
  <2> SUFFICES ASSUME ChannelInv, intact, ~HoldsHeat(toSend), ~HoldsHeat(wire)
               PROVE  boilerHeat = newest
    BY DEF NewestHeatObeyed
  <2>1. TypeOK /\ HeatCommands(toSend) = <<>>
    BY QueueParts, HeatCommandsNone DEF ChannelInv, EmsInv
  <2>2. CASE wire = <<>>
    <3>1. OnItsWay = <<>>
      BY <2>1, <2>2, QueueParts DEF OnItsWay
    <3>2. QED
      BY <3>1 DEF ChannelInv, NewestIsLast
  <2>3. CASE wire # <<>>
    <3>1. /\ Head(wire) \in Telegram
          /\ wire \o toSend = <<Head(wire)>> \o toSend
          /\ toSend \in Seq(Telegram)
      BY <2>1, <2>3, QueueParts
    <3>2. 1 \in DOMAIN wire /\ wire[1] = Head(wire)
      BY <2>1, <2>3 DEF TypeOK
    <3>3. ~IsHeat(Head(wire))
      BY <3>2 DEF HoldsHeat
    <3>4. OnItsWay = <<>>
      BY <2>1, <3>1, <3>3, HeatCommandsFirst DEF OnItsWay
    <3>5. QED
      BY <3>4 DEF ChannelInv, NewestIsLast
  <2>4. QED
    BY <2>2, <2>3
<1>2. QED
  BY <1>1, ChannelInvariant, PTL

\* The queue, the wire and both tasks together are a lossy channel that keeps
\* the order of the heat commands and delivers each at most once.
THEOREM ImplementsChannel == Spec => ChannelSpec
<1>1. Init => Channel!Init
  BY ChannelInvInit
<1>2. ChannelInv /\ [Next]_emsVars => [Channel!Next]_(Channel!channel)
  <2> SUFFICES ASSUME ChannelInv, [Next]_emsVars
               PROVE  Channel!Next \/ UNCHANGED Channel!channel
    OBVIOUS
  <2>1. ChannelStep
    BY EveryChannelStep
  <2>2. CASE UNCHANGED <<OnItsWay, boilerHeat, newest>>
    BY <2>2 DEF OnItsWay, Channel!channel
  <2>3. QED
    BY <2>1, <2>2 DEF ChannelStep, Channel!Next, OnItsWay
<1>3. QED
  BY <1>1, <1>2, ChannelInvariant, PTL DEF Spec, ChannelSpec, Channel!Spec
=============================================================================
