------------------------------- MODULE EmsBus -------------------------------
(***************************************************************************)
(* EmsBusUart (src/src/EmsBusUart.h) and EmsBusUartForwarder                *)
(* (src/src/EmsBusUartForwarder.h): how the UART task cuts the bytes of the *)
(* EMS bus into telegrams, and how telegrams of devices attached behind the *)
(* forwarder wait until the bus master polls their device.                  *)
(*                                                                         *)
(* The UART driver keeps two records of what it received: the bytes (`ring`)*)
(* and one event for each byte and each break (`events`).  The task counts  *)
(* the data events and, at a break, reads as many bytes.  Every telegram    *)
(* ends with the zero byte of its break.  A byte that finds the ring full is *)
(* lost and an event says so; an event that finds its queue full is lost    *)
(* and nothing says so.                                                     *)
(*                                                                         *)
(* The forwarder frames the bytes of its own UART with the same code, so    *)
(* its telegrams arrive here in one step.                                   *)
(***************************************************************************)
EXTENDS Naturals, Sequences

CONSTANTS
  OwnId,        \* deviceId_ of EmsController
  Attached,     \* ids of devices behind the forwarder
  Telegrams,    \* lengths of telegrams on the bus, break included
  MaxSize,      \* EmsMaxTelegramSize
  MaxWaiting,   \* MaxForwarderQueueSize
  RingSize,     \* bytes the driver buffers
  MaxEvents,    \* events it queues
  MaxCuts       \* bound of the model on `cuts`

ASSUME EmsBusAssumption ==
  /\ {"data", "break"} \cap (Attached \cup {OwnId}) = {}
  /\ Telegrams \subseteq Nat \ {0, 1, 2}
  /\ MaxSize \in Nat \ {0, 1, 2} /\ MaxWaiting \in Nat \ {0}
  /\ RingSize \in Nat /\ MaxEvents \in Nat
  /\ MaxCuts \in Nat

Device == Attached \cup {OwnId}

Byte == Device \cup {"data", "break"}

Event == {"data", "break", "overflow"}

VARIABLES
  line,       \* bytes of the telegram on the bus that are still to come
  ring,       \* received bytes that have not been read
  events,     \* uartQueue_
  length,     \* length in uart_event_task
  pc,         \* where the UART task is
  buffer,     \* the telegram being processed
  waiting,    \* sizes of the queues in sendToEmsBusQueue_
  flushed,    \* the loop task is inside reset(), before xQueueReset
  cuts,       \* history: how often bytes and their events, or their count,
              \* have been discarded apart
  dropped     \* history: an event found the queue full, and ring, queue and
              \* count have not been emptied together since

received == <<ring, events>>
task     == <<length, pc, buffer>>
history  == <<cuts, dropped>>
busVars  == <<line, received, task, waiting, flushed, history>>

-----------------------------------------------------------------------------
(* The bus *)

Poll(device) == <<device, "break">>

Telegram(size) ==
  [i \in 1 .. size |-> IF i = size THEN "break" ELSE "data"]

\* Some other participant begins to send.
Begin(frame) ==
  /\ line = <<>>
  /\ line' = frame
  /\ UNCHANGED <<received, task, waiting, flushed, history>>

\* It stops in the middle, or its break is not recognised.
Abandon ==
  /\ line # <<>> /\ pc # "write"
  /\ line' = <<>>
  /\ UNCHANGED <<received, task, waiting, flushed, history>>

\* Somebody is between discarding the bytes and discarding their events.
Discarding == flushed \/ pc \in {"requeue", "pollReset", "timeoutReset"}

\* Whether a step cuts a telegram.
CutIf(apart) ==
  /\ apart => cuts < MaxCuts
  /\ cuts' = IF apart THEN cuts + 1 ELSE cuts

\* The driver queues events as long as there is room.
Notify(new) ==
  LET room == MaxEvents - Len(events)
      all  == Len(new) <= room
  IN  /\ events' = events \o IF all THEN new ELSE SubSeq(new, 1, room)
      /\ dropped' = (dropped \/ ~all)

Announced(byte) == IF byte = "break" THEN <<"data", "break">> ELSE <<"data">>

\* A byte arrives, and with the last one a break is detected.
ReceiveByte ==
  /\ line # <<>>
  /\ Len(ring) < RingSize
  /\ line' = Tail(line)
  /\ ring' = Append(ring, Head(line))
  /\ Notify(Announced(Head(line)))
  /\ CutIf(Discarding)
  /\ UNCHANGED <<task, waiting, flushed>>

\* The hardware FIFO overflows, or the ring is full: a byte is lost.
Overflow ==
  /\ line # <<>>
  /\ line' = Tail(line)
  /\ Notify(<<"overflow">>)
  /\ UNCHANGED <<ring, task, waiting, flushed, cuts>>

-----------------------------------------------------------------------------
(* uart_event_task *)

\* Once ring, queue and count are empty, what was dropped makes no difference
\* but to a telegram that is being processed.
Mend ==
  dropped' = (dropped /\ (ring # <<>> \/ length' # 0 \/ pc' = "process"))

Take(event) ==
  /\ pc = "event"
  /\ events # <<>> /\ Head(events) = event
  /\ events' = Tail(events)

CountByte ==
  /\ Take("data")
  /\ length' = length + 1
  /\ UNCHANGED <<line, ring, pc, buffer, waiting, flushed, history>>

SeeBreak ==
  /\ Take("break")
  /\ pc' = "read"
  /\ UNCHANGED <<line, ring, length, buffer, waiting, flushed, history>>

\* UART_FIFO_OVF, UART_BUFFER_FULL: the bytes go first.
SeeOverflow ==
  /\ Take("overflow")
  /\ ring' = <<>>
  /\ pc' = "requeue"
  /\ UNCHANGED <<line, length, buffer, waiting, flushed, history>>

MutRequeueKeepsLength ==
  /\ pc = "requeue"
  /\ events' = <<>>
  /\ pc' = "event"
  /\ UNCHANGED length
  /\ Mend
  /\ UNCHANGED <<line, ring, buffer, waiting, flushed, cuts>>

\* Then the events and the count.
Requeue ==
  /\ pc = "requeue"
  /\ events' = <<>>
  /\ length' = 0
  /\ pc' = "event"
  /\ Mend
  /\ UNCHANGED <<line, ring, buffer, waiting, flushed, cuts>>

MutReadTelegram ==
  /\ pc = "read"
  /\ Len(ring) >= length
  /\ ring' = SubSeq(ring, length + 1, Len(ring))
  /\ length' = 0
  /\ pc' = "process" /\ buffer' = SubSeq(ring, 1, length)
  /\ UNCHANGED <<line, events, waiting, flushed, history>>

\* uart_read_bytes waits until all it was asked for is there.
ReadTelegram ==
  /\ pc = "read"
  /\ Len(ring) >= length
  /\ ring' = SubSeq(ring, length + 1, Len(ring))
  /\ length' = 0
  /\ IF length > MaxSize
       THEN pc' = "event" /\ UNCHANGED buffer
       ELSE pc' = "process" /\ buffer' = SubSeq(ring, 1, length)
  /\ UNCHANGED <<line, events, waiting, flushed, history>>

\* After five seconds without an event reset() discards bytes and events, but
\* not the count.
ReadTimeout ==
  /\ pc = "event" /\ events = <<>> /\ line = <<>>
  /\ ring' = <<>>
  /\ pc' = "timeoutReset"
  /\ CutIf(length > 0)
  /\ UNCHANGED <<line, events, length, buffer, waiting, flushed, dropped>>

\* The end of reset(), which sends a break of its own.
FinishReset ==
  /\ pc \in {"pollReset", "timeoutReset"}
  /\ events' = <<>>
  /\ line' = <<"break">>
  /\ pc' = IF pc = "pollReset" THEN "processOnly" ELSE "event"
  /\ UNCHANGED <<ring, length, buffer, waiting, flushed, cuts>>
  /\ Mend

-----------------------------------------------------------------------------
(* processTelegram *)

MutIsPoll(frame) == Len(frame) = 1 /\ Head(frame) \in Device

IsPoll(frame) == Len(frame) = 2 /\ Head(frame) \in Device

Polled(device) == IsPoll(buffer) /\ Head(buffer) = device

Waits(device) == Polled(device) /\ waiting[device] > 0

\* Writing takes the bus over, behind the break of a reset just made; the task
\* waits until its bytes are out.
Write(frame) ==
  /\ line' = (IF pc = "processOnly" THEN line ELSE <<>>) \o frame
  /\ pc' = "write"

\* A poll of a device whose telegram waits is answered with that telegram.
AnswerFor(device) ==
  /\ pc = "process" /\ Waits(device)
  /\ waiting' = [waiting EXCEPT ![device] = @ - 1]
  /\ \E size \in Telegrams : size <= MaxSize /\ Write(Telegram(size))
  /\ buffer' = <<>>
  /\ UNCHANGED <<received, length, flushed, history>>

\* EmsController answers polls of its own id, with a telegram or a pong; the
\* bytes go out while the task waits.
ControllerProcesses ==
  IF Polled(OwnId)
    THEN \E frame \in {Telegram(size) : size \in Telegrams \cup {2}} :
           Len(frame) <= MaxSize /\ Write(frame)
    ELSE pc' = "event" /\ UNCHANGED line

\* Any telegram that was not answered here goes to EmsController.
HandOver ==
  /\ pc \in {"process", "processOnly"}
  /\ pc = "process" => \A device \in Attached : ~Waits(device)
  /\ ControllerProcesses
  /\ buffer' = <<>>
  /\ UNCHANGED <<received, length, waiting, flushed, history>>

\* At a poll EmsController may find too many telegrams unconfirmed and call
\* reset() before it answers.
PollReset ==
  /\ pc = "process"
  /\ IsPoll(buffer)
  /\ \A device \in Attached : ~Waits(device)
  /\ ring' = <<>>
  /\ pc' = "pollReset"
  /\ UNCHANGED <<line, events, length, buffer, waiting, flushed, history>>

FinishWrite ==
  /\ pc = "write" /\ line = <<>>
  /\ pc' = "event"
  /\ UNCHANGED <<line, received, length, buffer, waiting, flushed, history>>

-----------------------------------------------------------------------------
(* The other tasks *)

\* reset() on the loop task, when the send queue of EmsController is full;
\* uart_flush waits for a read that is under way.
LoopFlush ==
  /\ ~flushed /\ pc # "read"
  /\ ring' = <<>>
  /\ flushed' = TRUE
  /\ CutIf(line # <<>> \/ events # <<>> \/ length > 0)
  /\ UNCHANGED <<line, events, task, waiting, dropped>>

LoopRequeue ==
  /\ flushed
  /\ events' = <<>>
  /\ line' = <<"break">>
  /\ flushed' = FALSE
  /\ UNCHANGED <<ring, task, waiting, cuts>>
  /\ Mend

\* A telegram from an attached device; it is dropped when too many wait.
Enqueue(device) ==
  /\ waiting' = [waiting EXCEPT ![device] = IF @ = MaxWaiting THEN @ ELSE @ + 1]
  /\ UNCHANGED <<line, received, task, flushed, history>>

\* A lone break from an attached device has no sender id: data->at(0) throws,
\* nobody catches it and the firmware restarts.
LoneBreak ==
  /\ ring' = <<>> /\ events' = <<>>
  /\ length' = 0 /\ pc' = "event" /\ buffer' = <<>>
  /\ waiting' = [device \in Attached |-> 0]
  /\ flushed' = FALSE
  /\ cuts' = 0 /\ dropped' = FALSE
  /\ line' = IF pc = "write" THEN <<>> ELSE line

-----------------------------------------------------------------------------
Init ==
  /\ line = <<>> /\ ring = <<>> /\ events = <<>>
  /\ length = 0
  /\ pc = "event"
  /\ buffer = <<>>
  /\ waiting = [device \in Attached |-> 0]
  /\ flushed = FALSE
  /\ cuts = 0 /\ dropped = FALSE

UartStep ==
  \/ CountByte
  \/ SeeBreak
  \/ SeeOverflow
  \/ Requeue
  \/ ReadTelegram
  \/ \E device \in Attached : AnswerFor(device)
  \/ HandOver
  \/ PollReset
  \/ FinishReset
  \/ FinishWrite

Next ==
  \/ \E device \in Device : Begin(Poll(device))
  \/ \E size \in Telegrams : Begin(Telegram(size))
  \/ Abandon
  \/ ReceiveByte
  \/ Overflow
  \/ UartStep
  \/ ReadTimeout
  \/ LoopFlush
  \/ LoopRequeue
  \/ \E device \in Attached : Enqueue(device)
  \/ LoneBreak

\* A byte once begun arrives, and the UART task has the highest priority.
Fairness == WF_busVars(ReceiveByte) /\ WF_busVars(UartStep)

Spec == Init /\ [][Next]_busVars /\ Fairness

-----------------------------------------------------------------------------
(* Properties *)

\* Every field keeps its type, and no buffer takes more than its capacity: that
\* of the telegram holds whatever two breaks on a disturbed bus lie apart.
TypeOK ==
  /\ line \in Seq(Byte)
  /\ ring \in Seq(Byte) /\ Len(ring) <= RingSize
  /\ events \in Seq(Event) /\ Len(events) <= MaxEvents
  /\ length \in Nat
  /\ pc \in {"event", "read", "requeue", "process", "pollReset", "processOnly",
             "timeoutReset", "write"}
  /\ buffer \in Seq(Byte) /\ Len(buffer) <= MaxSize
  /\ waiting \in [Attached -> 0 .. MaxWaiting]
  /\ flushed \in BOOLEAN /\ cuts \in 0 .. MaxCuts /\ dropped \in BOOLEAN

\* What came between two breaks: it ends with a break and holds no other.
EndsWithBreak(frame) ==
  /\ frame # <<>>
  /\ \A i \in DOMAIN frame : frame[i] = "break" <=> i = Len(frame)

\* Every telegram the task processes is what came between two breaks, unless
\* an event was dropped since the records were last emptied together.
TelegramsAreWhole == pc = "process" /\ ~dropped => EndsWithBreak(buffer)

\* At a break there is something to read, and all of it is there: the task
\* does not wait in uart_read_bytes for bytes that were discarded, nor does it
\* process a telegram of no bytes.  Dropped events leave the count too low
\* only.
ReadsWhatIsThere == pc = "read" => length \in 1 .. Len(ring)

\* The UART task stays in step with the bus, after overflows, senders that
\* give up and resets at a poll, as long as no reset by the read timeout or by
\* the loop task has fallen into a telegram and no byte between the two
\* discards.
StaysInStep == cuts = 0 => TelegramsAreWhole /\ ReadsWhatIsThere

\* "telegram always ends with BRK" (EmsController.cpp:206), without conditions.
TelegramEndsWithBreak == pc = "process" => EndsWithBreak(buffer)

\* We begin to answer while another telegram is on the bus.
Collision == pc # "write" /\ pc' = "write" /\ line # <<>>

\* No byte and no event is lost, no sender gives up, nobody resets the driver,
\* and the bus master gives us the time to answer a poll.
Undisturbed ==
  [][/\ ~dropped' /\ ~Overflow /\ ~Abandon /\ ~Collision
     /\ ~LoopFlush /\ ~PollReset /\ ~ReadTimeout]_busVars

\* A telegram of an attached device is sent, whatever else the task has to do,
\* if its device is polled again and again.
ForwardedIsSent ==
  \A device \in Attached :
    <>Undisturbed /\ []<><<Begin(Poll(device))>>_busVars
    => []<>(waiting[device] = 0) \/ []<><<AnswerFor(device)>>_busVars
=============================================================================
