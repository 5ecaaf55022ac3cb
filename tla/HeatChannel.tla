---------------------------- MODULE HeatChannel ----------------------------
(***************************************************************************)
(* What EmsController promises about the commands that start and stop       *)
(* heating: a command it has accepted may be lost, on the bus or when the   *)
(* controller resets itself, but no command overtakes another, none reaches *)
(* the boiler twice and none that was not given reaches it at all.          *)
(***************************************************************************)
EXTENDS Naturals, Sequences

CONSTANT Command

VARIABLES
  pending,   \* accepted and not yet obeyed, oldest first
  obeyed     \* the last command the boiler obeyed

channel == <<pending, obeyed>>

Init == pending = <<>> /\ obeyed \in Command

Accept(c) == pending' = Append(pending, c) /\ UNCHANGED obeyed

Obey ==
  /\ pending # <<>>
  /\ obeyed' = Head(pending)
  /\ pending' = Tail(pending)

LoseOldest == pending # <<>> /\ pending' = Tail(pending) /\ UNCHANGED obeyed

\* Whatever waits behind the first `kept` commands is dropped.
Drop(kept) == pending' = SubSeq(pending, 1, kept) /\ UNCHANGED obeyed

Next ==
  \/ \E c \in Command : Accept(c)
  \/ Obey
  \/ LoseOldest
  \/ \E kept \in 0 .. 1 : kept <= Len(pending) /\ Drop(kept)

Spec == Init /\ [][Next]_channel
=============================================================================
