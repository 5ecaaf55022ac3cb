---------------------------- MODULE EmsBusProofs ----------------------------
(***************************************************************************)
(* Proofs about EmsBus.tla: types and capacities of every buffer, and that  *)
(* the UART task stays in step with the bus, for every set of telegrams and *)
(* attached devices, and every size of the ring, the event queue and the    *)
(* telegram buffer.                                                         *)
(*                                                                         *)
(* The driver's two records of what it received, bytes and events, are tied *)
(* together by nothing but their numbers.  Matched says how: there is a     *)
(* numbering of the events by positions in the ring in which a data event   *)
(* moves on by one byte, never past the last, and a break event follows the *)
(* data event of its byte (Numbers).  That holds whatever events a full     *)
(* queue drops.  As long as none was dropped, every byte has its event and  *)
(* a break event stands at each break and at no other byte (Exact).         *)
(*                                                                         *)
(* Every step of the task but the resets keeps both; a reset keeps them if  *)
(* nothing arrives between its two halves and no byte has been counted,     *)
(* which is what `cuts` records.                                            *)
(***************************************************************************)
EXTENDS EmsBus, SequenceTheorems, TLAPS

USE DEF received, task, history, busVars

-----------------------------------------------------------------------------
(* Bytes and their events *)

\* The events e numbered by positions in the bytes r, when n bytes have been
\* counted already; the break of the first `from` bytes has been seen.
Numbers(at, r, e, n, from) ==
  /\ at[0] = n /\ at[Len(e)] <= Len(r)
  /\ \A i \in 1 .. Len(e) :
       at[i] = IF e[i] = "data" THEN at[i - 1] + 1 ELSE at[i - 1]
  /\ \A i, j \in 0 .. Len(e) : i <= j => at[i] <= at[j]
  /\ \A i \in 1 .. Len(e) : e[i] = "break" =>
       at[i] > from /\ (i > 1 => e[i - 1] = "data")

\* Every byte has its event, and every break.
Exact(at, r, e, from) ==
  /\ at[Len(e)] = Len(r)
  /\ \A i \in 1 .. Len(e) : e[i] = "break" => r[at[i]] = "break"
  /\ \A p \in from + 1 .. Len(r) : r[p] = "break" =>
       \E i \in 1 .. Len(e) : at[i] = p /\ e[i] = "break"

\* Events were dropped, or `whole`.
Matched(r, e, n, from, whole) ==
  \E at \in [0 .. Len(e) -> Nat] :
    Numbers(at, r, e, n, from) /\ (whole => Exact(at, r, e, from))

\* The first n bytes are what came between two breaks.
OneTelegram(r, n) ==
  /\ n > 0 /\ n <= Len(r)
  /\ \A p \in 1 .. n : r[p] = "break" <=> p = n

LEMMA NothingMatched ==
  ASSUME NEW whole \in BOOLEAN
  PROVE  Matched(<<>>, <<>>, 0, 0, whole)
<1> DEFINE at == [i \in 0 .. 0 |-> 0]
<1>1. /\ at \in [0 .. Len(<<>>) -> Nat]
      /\ Numbers(at, <<>>, <<>>, 0, 0) /\ Exact(at, <<>>, <<>>, 0)
  BY DEF Numbers, Exact
<1>2. QED
  BY <1>1 DEF Matched

\* UART_DATA is taken from the queue and its byte counted.
LEMMA CountMatched ==
  ASSUME NEW r \in Seq(Byte), NEW e \in Seq(Event), NEW n \in Nat,
         NEW whole \in BOOLEAN,
         e # <<>>, Head(e) = "data", Matched(r, e, n, 0, whole)
  PROVE  n < Len(r) /\ Matched(r, Tail(e), n + 1, 0, whole)
<1>1. PICK at \in [0 .. Len(e) -> Nat] :
        Numbers(at, r, e, n, 0) /\ (whole => Exact(at, r, e, 0))
  BY DEF Matched
<1>2. /\ Len(e) \in Nat \ {0} /\ Len(Tail(e)) = Len(e) - 1
      /\ \A i \in 1 .. Len(e) - 1 : Tail(e)[i] = e[i + 1]
      /\ e[1] = "data"
  OBVIOUS
<1>3. at[1] = n + 1 /\ at[1] <= Len(r)
  BY <1>1, <1>2 DEF Numbers
<1> DEFINE tail == [i \in 0 .. Len(e) - 1 |-> at[i + 1]]
<1>4. /\ tail \in [0 .. Len(Tail(e)) -> Nat]
      /\ tail[0] = n + 1 /\ tail[Len(Tail(e))] = at[Len(e)]
  BY <1>1, <1>2, <1>3
<1>5. \A i \in 1 .. Len(Tail(e)) :
        tail[i] = IF Tail(e)[i] = "data" THEN tail[i - 1] + 1 ELSE tail[i - 1]
  BY <1>1, <1>2 DEF Numbers
<1>6. \A i, j \in 0 .. Len(Tail(e)) : i <= j => tail[i] <= tail[j]
  BY <1>1, <1>2 DEF Numbers
<1>7. \A i \in 1 .. Len(Tail(e)) : Tail(e)[i] = "break" =>
        tail[i] > 0 /\ (i > 1 => Tail(e)[i - 1] = "data")
  BY <1>1, <1>2 DEF Numbers
<1>8. ASSUME whole
      PROVE  Exact(tail, r, Tail(e), 0)
  <2>1. ASSUME NEW p \in 1 .. Len(r), r[p] = "break"
        PROVE  \E i \in 1 .. Len(Tail(e)) : tail[i] = p /\ Tail(e)[i] = "break"
    <3>1. PICK i \in 1 .. Len(e) : at[i] = p /\ e[i] = "break"
      BY <1>1, <1>8, <2>1 DEF Exact
    <3>2. i # 1
      BY <1>2, <3>1
    <3>3. i - 1 \in 1 .. Len(Tail(e)) /\ tail[i - 1] = p
          /\ Tail(e)[i - 1] = "break"
      BY <1>2, <3>1, <3>2
    <3>4. QED
      BY <3>3
  <2>2. \A i \in 1 .. Len(Tail(e)) : Tail(e)[i] = "break" => r[tail[i]] = "break"
    BY <1>1, <1>2, <1>8 DEF Exact
  <2>3. tail[Len(Tail(e))] = Len(r)
    BY <1>1, <1>4, <1>8 DEF Exact
  <2> HIDE DEF tail
  <2>4. QED
    BY <2>1, <2>2, <2>3 DEF Exact
<1>9. at[Len(e)] <= Len(r)
  BY <1>1 DEF Numbers
<1> HIDE DEF tail
<1>10. Numbers(tail, r, Tail(e), n + 1, 0)
  BY <1>4, <1>5, <1>6, <1>7, <1>9 DEF Numbers
<1>11. Matched(r, Tail(e), n + 1, 0, whole)
  BY <1>4, <1>8, <1>10 DEF Matched
<1>12. n < Len(r)
  BY <1>3
<1>13. QED
  BY <1>11, <1>12

\* UART_BREAK is taken from the queue: the bytes counted are there, and they
\* are a telegram.
LEMMA BreakMatched ==
  ASSUME NEW r \in Seq(Byte), NEW e \in Seq(Event), NEW n \in Nat,
         NEW whole \in BOOLEAN,
         e # <<>>, Head(e) = "break", Matched(r, e, n, 0, whole)
  PROVE  /\ n \in 1 .. Len(r) /\ (whole => OneTelegram(r, n))
         /\ Matched(r, Tail(e), n, n, whole)
<1>1. PICK at \in [0 .. Len(e) -> Nat] :
        Numbers(at, r, e, n, 0) /\ (whole => Exact(at, r, e, 0))
  BY DEF Matched
<1>2. /\ Len(e) \in Nat \ {0} /\ Len(Tail(e)) = Len(e) - 1
      /\ \A i \in 1 .. Len(e) - 1 : Tail(e)[i] = e[i + 1]
      /\ e[1] = "break"
  OBVIOUS
<1>3. at[1] = n /\ n <= Len(r) /\ n > 0
  BY <1>1, <1>2 DEF Numbers
<1>4. ASSUME whole
      PROVE  OneTelegram(r, n)
  <2>1. r[n] = "break"
    BY <1>1, <1>2, <1>3, <1>4 DEF Exact
  <2>2. ASSUME NEW p \in 1 .. n, r[p] = "break"
        PROVE  p = n
    <3>1. p \in 0 + 1 .. Len(r)
      BY <1>3
    <3>2. PICK i \in 1 .. Len(e) : at[i] = p /\ e[i] = "break"
      BY <1>1, <1>4, <2>2, <3>1 DEF Exact
    <3>3. at[1] <= at[i]
      BY <1>1, <1>2 DEF Numbers
    <3>4. QED
      BY <1>3, <3>2, <3>3
  <2>3. QED
    BY <1>3, <2>1, <2>2 DEF OneTelegram
<1> DEFINE tail == [i \in 0 .. Len(e) - 1 |-> at[i + 1]]
<1>5. /\ tail \in [0 .. Len(Tail(e)) -> Nat]
      /\ tail[0] = n /\ tail[Len(Tail(e))] = at[Len(e)]
  BY <1>1, <1>2, <1>3
<1>6. \A i \in 1 .. Len(Tail(e)) :
        tail[i] = IF Tail(e)[i] = "data" THEN tail[i - 1] + 1 ELSE tail[i - 1]
  BY <1>1, <1>2 DEF Numbers
<1>7. \A i, j \in 0 .. Len(Tail(e)) : i <= j => tail[i] <= tail[j]
  BY <1>1, <1>2 DEF Numbers
<1>8. ASSUME NEW i \in 1 .. Len(Tail(e)), Tail(e)[i] = "break"
      PROVE  tail[i] > n /\ (i > 1 => Tail(e)[i - 1] = "data")
  <2>1. i + 1 \in 2 .. Len(e) /\ e[i + 1] = "break" /\ tail[i] = at[i + 1]
    BY <1>2, <1>8
  <2>2. e[i] = "data"
    BY <1>1, <2>1 DEF Numbers
  <2>3. i # 1
    BY <1>2, <2>2
  <2>4. at[i] = at[i - 1] + 1 /\ at[i + 1] = at[i]
    <3>1. i \in 1 .. Len(e) /\ i + 1 \in 1 .. Len(e) /\ (i + 1) - 1 = i
      BY <1>2, <2>1
    <3>2. at[i + 1] = IF e[i + 1] = "data" THEN at[(i + 1) - 1] + 1
                                           ELSE at[(i + 1) - 1]
      BY <1>1, <3>1 DEF Numbers
    <3>3. at[i] = IF e[i] = "data" THEN at[i - 1] + 1 ELSE at[i - 1]
      BY <1>1, <3>1 DEF Numbers
    <3>4. QED
      BY <2>1, <2>2, <3>1, <3>2, <3>3
  <2>5. at[1] <= at[i - 1] /\ at[i - 1] \in Nat
    <3>1. 1 \in 0 .. Len(e) /\ i - 1 \in 0 .. Len(e) /\ 1 <= i - 1
      BY <1>2, <2>1, <2>3
    <3>2. QED
      BY <1>1, <3>1 DEF Numbers
  <2>6. at[i + 1] > n
    BY <1>3, <2>4, <2>5
  <2>7. i > 1 => Tail(e)[i - 1] = "data"
    <3>1. i > 1 => i - 1 \in 1 .. Len(e) - 1
      BY <1>2
    <3>2. QED
      BY <1>2, <2>2, <3>1
  <2>8. QED
    BY <2>1, <2>6, <2>7
<1>9. ASSUME whole
      PROVE  Exact(tail, r, Tail(e), n)
  <2>1. ASSUME NEW p \in n + 1 .. Len(r), r[p] = "break"
        PROVE  \E i \in 1 .. Len(Tail(e)) : tail[i] = p /\ Tail(e)[i] = "break"
    <3>1. PICK i \in 1 .. Len(e) : at[i] = p /\ e[i] = "break"
      BY <1>1, <1>9, <2>1 DEF Exact
    <3>2. i # 1
      BY <1>3, <3>1
    <3>3. i - 1 \in 1 .. Len(Tail(e)) /\ tail[i - 1] = p
          /\ Tail(e)[i - 1] = "break"
      BY <1>2, <3>1, <3>2
    <3>4. QED
      BY <3>3
  <2>2. \A i \in 1 .. Len(Tail(e)) : Tail(e)[i] = "break" => r[tail[i]] = "break"
    BY <1>1, <1>2, <1>9 DEF Exact
  <2>3. tail[Len(Tail(e))] = Len(r)
    BY <1>1, <1>5, <1>9 DEF Exact
  <2> HIDE DEF tail
  <2>4. QED
    BY <2>1, <2>2, <2>3 DEF Exact
<1>10. at[Len(e)] <= Len(r)
  BY <1>1 DEF Numbers
<1> HIDE DEF tail
<1>11. Numbers(tail, r, Tail(e), n, n)
  BY <1>5, <1>6, <1>7, <1>8, <1>10 DEF Numbers
<1>12. Matched(r, Tail(e), n, n, whole)
  BY <1>5, <1>9, <1>11 DEF Matched
<1>13. QED
  BY <1>3, <1>4, <1>12

\* uart_read_bytes takes the telegram out of the ring.
LEMMA ReadMatched ==
  ASSUME NEW r \in Seq(Byte), NEW e \in Seq(Event), NEW n \in Nat,
         NEW whole \in BOOLEAN, n <= Len(r), Matched(r, e, n, n, whole)
  PROVE  Matched(SubSeq(r, n + 1, Len(r)), e, 0, 0, whole)
<1> DEFINE rest == SubSeq(r, n + 1, Len(r))
<1>1. PICK at \in [0 .. Len(e) -> Nat] :
        Numbers(at, r, e, n, n) /\ (whole => Exact(at, r, e, n))
  BY DEF Matched
<1>2. /\ rest \in Seq(Byte) /\ Len(rest) = Len(r) - n
      /\ \A p \in 1 .. Len(r) - n : rest[p] = r[n + p]
  OBVIOUS
<1>3. Len(e) \in Nat /\ Len(r) \in Nat
  OBVIOUS
<1>4. \A i \in 0 .. Len(e) : at[i] \in Nat /\ at[i] >= n /\ at[i] <= Len(r)
  <2> SUFFICES ASSUME NEW i \in 0 .. Len(e)
               PROVE  at[i] \in Nat /\ at[i] >= n /\ at[i] <= Len(r)
    OBVIOUS
  <2>1. /\ at[i] \in Nat /\ at[Len(e)] \in Nat
        /\ 0 \in 0 .. Len(e) /\ Len(e) \in 0 .. Len(e)
        /\ 0 <= i /\ i <= Len(e)
    BY <1>3
  <2>2. at[0] <= at[i] /\ at[i] <= at[Len(e)]
    BY <1>1, <2>1 DEF Numbers
  <2>3. at[0] = n /\ at[Len(e)] <= Len(r)
    BY <1>1 DEF Numbers
  <2>4. QED
    BY <1>3, <2>1, <2>2, <2>3
<1> DEFINE left == [i \in 0 .. Len(e) |-> at[i] - n]
<1>5. left \in [0 .. Len(e) -> Nat]
  BY <1>4
<1>6. left[0] = 0 /\ left[Len(e)] <= Len(rest)
  BY <1>1, <1>2, <1>3, <1>4 DEF Numbers
<1>7. \A i \in 1 .. Len(e) :
        left[i] = IF e[i] = "data" THEN left[i - 1] + 1 ELSE left[i - 1]
  <2> SUFFICES ASSUME NEW i \in 1 .. Len(e)
               PROVE  left[i] = IF e[i] = "data" THEN left[i - 1] + 1
                                                 ELSE left[i - 1]
    OBVIOUS
  <2>1. at[i] = IF e[i] = "data" THEN at[i - 1] + 1 ELSE at[i - 1]
    BY <1>1 DEF Numbers
  <2>2. i \in 0 .. Len(e) /\ i - 1 \in 0 .. Len(e)
    BY <1>3
  <2>3. left[i] = at[i] - n /\ left[i - 1] = at[i - 1] - n
    BY <2>2
  <2>4. at[i - 1] \in Nat
    BY <1>4, <2>2
  <2>5. QED
    BY <2>1, <2>3, <2>4
<1>8. \A i, j \in 0 .. Len(e) : i <= j => left[i] <= left[j]
  BY <1>1, <1>3, <1>4 DEF Numbers
<1>9. ASSUME NEW i \in 1 .. Len(e), e[i] = "break"
      PROVE  left[i] > 0 /\ (i > 1 => e[i - 1] = "data")
  <2>1. at[i] > n /\ (i > 1 => e[i - 1] = "data")
    BY <1>1, <1>9 DEF Numbers
  <2>2. left[i] = at[i] - n /\ at[i] \in Nat
    BY <1>3, <1>4
  <2>3. QED
    BY <2>1, <2>2
<1>10. ASSUME whole
       PROVE  Exact(left, rest, e, 0)
  <2>1. ASSUME NEW p \in 0 + 1 .. Len(rest), rest[p] = "break"
        PROVE  \E i \in 1 .. Len(e) : left[i] = p /\ e[i] = "break"
    <3>1. n + p \in n + 1 .. Len(r) /\ r[n + p] = "break"
      BY <1>2, <1>3, <2>1
    <3>2. PICK i \in 1 .. Len(e) : at[i] = n + p /\ e[i] = "break"
      BY <1>1, <1>10, <3>1 DEF Exact
    <3>3. left[i] = p
      BY <1>3, <1>4, <3>2
    <3>4. QED
      BY <3>2, <3>3
  <2>2. ASSUME NEW i \in 1 .. Len(e), e[i] = "break"
        PROVE  rest[left[i]] = "break"
    <3>1. at[i] > n /\ r[at[i]] = "break"
      BY <1>1, <1>10, <2>2 DEF Numbers, Exact
    <3>2. left[i] \in 1 .. Len(r) - n /\ n + left[i] = at[i]
      BY <1>3, <1>4, <3>1
    <3>3. QED
      BY <1>2, <3>1, <3>2
  <2>3. left[Len(e)] = Len(rest)
    BY <1>1, <1>2, <1>3, <1>10 DEF Exact
  <2> HIDE DEF left, rest
  <2>4. QED
    BY <2>1, <2>2, <2>3 DEF Exact
<1> HIDE DEF left, rest
<1>11. Numbers(left, rest, e, 0, 0)
  BY <1>6, <1>7, <1>8, <1>9 DEF Numbers
<1>12. Matched(rest, e, 0, 0, whole)
  BY <1>5, <1>10, <1>11 DEF Matched
<1>13. QED
  BY <1>12 DEF rest

\* An event that stands for no byte in the ring.
LEMMA OverflowMatched ==
  ASSUME NEW r \in Seq(Byte), NEW e \in Seq(Event), NEW n \in Nat,
         NEW whole \in BOOLEAN,
         NEW from \in Nat, Matched(r, e, n, from, whole)
  PROVE  Matched(r, Append(e, "overflow"), n, from, whole)
<1> DEFINE more == Append(e, "overflow")
<1>1. PICK at \in [0 .. Len(e) -> Nat] :
        Numbers(at, r, e, n, from) /\ (whole => Exact(at, r, e, from))
  BY DEF Matched
<1>2. /\ Len(e) \in Nat /\ Len(r) \in Nat /\ Len(more) = Len(e) + 1
      /\ more[Len(e) + 1] = "overflow"
      /\ \A i \in 1 .. Len(e) : more[i] = e[i]
  BY DEF Event
<1> DEFINE longer == [i \in 0 .. Len(e) + 1 |->
                        IF i <= Len(e) THEN at[i] ELSE at[Len(e)]]
<1>3. longer \in [0 .. Len(more) -> Nat]
  BY <1>2
<1>4. longer[0] = n /\ longer[Len(more)] = at[Len(e)] /\ at[Len(e)] <= Len(r)
  BY <1>1, <1>2 DEF Numbers
<1>5. \A i \in 0 .. Len(e) : at[i] <= at[Len(e)]
  BY <1>1, <1>2 DEF Numbers
<1>6. \A i \in 1 .. Len(more) :
        longer[i] = IF more[i] = "data" THEN longer[i - 1] + 1 ELSE longer[i - 1]
  BY <1>1, <1>2 DEF Numbers
<1>7. \A i, j \in 0 .. Len(more) : i <= j => longer[i] <= longer[j]
  BY <1>1, <1>2, <1>5 DEF Numbers
<1>8. ASSUME NEW i \in 1 .. Len(more), more[i] = "break"
      PROVE  longer[i] > from /\ (i > 1 => more[i - 1] = "data")
  <2>1. i \in 1 .. Len(e) /\ e[i] = "break" /\ longer[i] = at[i]
    BY <1>2, <1>8
  <2>2. at[i] > from /\ (i > 1 => e[i - 1] = "data")
    BY <1>1, <2>1 DEF Numbers
  <2>3. QED
    BY <1>2, <2>1, <2>2
<1>9. ASSUME whole
      PROVE  Exact(longer, r, more, from)
  <2>1. ASSUME NEW p \in from + 1 .. Len(r), r[p] = "break"
        PROVE  \E i \in 1 .. Len(more) : longer[i] = p /\ more[i] = "break"
    <3>1. PICK i \in 1 .. Len(e) : at[i] = p /\ e[i] = "break"
      BY <1>1, <1>9, <2>1 DEF Exact
    <3>2. i \in 1 .. Len(more) /\ longer[i] = p /\ more[i] = "break"
      BY <1>2, <3>1
    <3>3. QED
      BY <3>2
  <2>2. ASSUME NEW i \in 1 .. Len(more), more[i] = "break"
        PROVE  r[longer[i]] = "break"
    <3>1. i \in 1 .. Len(e) /\ e[i] = "break" /\ longer[i] = at[i]
      BY <1>2, <2>2
    <3>2. QED
      BY <1>1, <1>9, <3>1 DEF Exact
  <2>3. longer[Len(more)] = Len(r)
    BY <1>1, <1>4, <1>9 DEF Exact
  <2> HIDE DEF longer, more
  <2>4. QED
    BY <2>1, <2>2, <2>3 DEF Exact
<1> HIDE DEF longer, more
<1>10. Numbers(longer, r, more, n, from)
  BY <1>4, <1>6, <1>7, <1>8 DEF Numbers
<1>11. Matched(r, more, n, from, whole)
  BY <1>3, <1>9, <1>10 DEF Matched
<1>12. QED
  BY <1>11 DEF more

\* The numbering `at` of k events, continued over d more of which the first is
\* a byte.
Continues(longer, at, k, d) ==
  /\ \A i \in 0 .. k : longer[i] = at[i]
  /\ \A i \in k + 1 .. k + d : longer[i] = at[k] + 1
  /\ \A i, j \in 0 .. k + d : i <= j => longer[i] <= longer[j]

LEMMA NumberingGoesOn ==
  ASSUME NEW k \in Nat, NEW at \in [0 .. k -> Nat], NEW d \in 1 .. 2,
         \A i, j \in 0 .. k : i <= j => at[i] <= at[j]
  PROVE  \E longer \in [0 .. k + d -> Nat] : Continues(longer, at, k, d)
<1> DEFINE longer == [i \in 0 .. k + d |-> IF i <= k THEN at[i] ELSE at[k] + 1]
<1>1. at[k] \in Nat /\ \A i \in 0 .. k : at[i] \in Nat /\ at[i] <= at[k]
  OBVIOUS
<1>2. longer \in [0 .. k + d -> Nat]
  BY <1>1
<1>3. \A i \in 0 .. k : longer[i] = at[i]
  OBVIOUS
<1>4. \A i \in k + 1 .. k + d : longer[i] = at[k] + 1
  OBVIOUS
<1> HIDE DEF longer
<1>5. \A i, j \in 0 .. k + d : i <= j => longer[i] <= longer[j]
  <2> SUFFICES ASSUME NEW i \in 0 .. k + d, NEW j \in 0 .. k + d, i <= j
               PROVE  longer[i] <= longer[j]
    OBVIOUS
  <2>1. CASE j <= k
    BY <1>3, <2>1
  <2>2. CASE i <= k /\ j > k
    BY <1>1, <1>3, <1>4, <2>2
  <2>3. CASE i > k
    BY <1>1, <1>4, <2>3
  <2>4. QED
    BY <2>1, <2>2, <2>3
<1>6. Continues(longer, at, k, d)
  BY <1>3, <1>4, <1>5 DEF Continues
<1>7. QED
  BY <1>2, <1>6

\* A byte with its data event: no break, or one whose break event is dropped.
LEMMA ByteMatched ==
  ASSUME NEW r \in Seq(Byte), NEW e \in Seq(Event), NEW n \in Nat,
         NEW whole \in BOOLEAN,
         NEW from \in Nat, Matched(r, e, n, from, whole),
         NEW b \in Byte, whole => b # "break"
  PROVE  Matched(Append(r, b), Append(e, "data"), n, from, whole)
<1> DEFINE more == Append(e, "data")
           ring2 == Append(r, b)
<1>1. PICK at \in [0 .. Len(e) -> Nat] :
        Numbers(at, r, e, n, from) /\ (whole => Exact(at, r, e, from))
  BY DEF Matched
<1>2. /\ Len(e) \in Nat /\ Len(r) \in Nat /\ Len(more) = Len(e) + 1
      /\ Len(ring2) = Len(r) + 1
  BY DEF Event, Byte
<1>3. /\ more[Len(e) + 1] = "data"
      /\ \A i \in 1 .. Len(e) : more[i] = e[i]
  BY DEF Event
<1>4. /\ ring2[Len(r) + 1] = b
      /\ \A p \in 1 .. Len(r) : ring2[p] = r[p]
  BY DEF Byte
<1> HIDE DEF more, ring2
<1>5. PICK longer \in [0 .. Len(e) + 1 -> Nat] : Continues(longer, at, Len(e), 1)
  <2>1. \A i, j \in 0 .. Len(e) : i <= j => at[i] <= at[j]
    BY <1>1 DEF Numbers
  <2>2. Len(e) \in Nat /\ 1 \in 1 .. 2
    BY <1>2
  <2>3. QED
    BY <2>1, <2>2, NumberingGoesOn
<1>6. /\ 0 \in 0 .. Len(e) /\ Len(e) \in 0 .. Len(e) /\ at[Len(e)] \in Nat
      /\ at[0] = n /\ at[Len(e)] <= Len(r)
  BY <1>1, <1>2 DEF Numbers
<1>7. ASSUME NEW i \in 1 .. Len(e)
      PROVE  i \in 0 .. Len(e) /\ at[i] \in Nat /\ at[i] <= Len(r)
  <2>1. i \in 0 .. Len(e) /\ i <= Len(e)
    BY <1>2
  <2>2. at[i] \in Nat /\ at[i] <= at[Len(e)]
    BY <1>1, <1>6, <2>1 DEF Numbers
  <2>3. QED
    BY <1>2, <1>6, <2>1, <2>2
<1>8. \A i \in 1 .. Len(more) :
        longer[i] = IF more[i] = "data" THEN longer[i - 1] + 1 ELSE longer[i - 1]
  <2> SUFFICES ASSUME NEW i \in 1 .. Len(more)
               PROVE  longer[i] = IF more[i] = "data" THEN longer[i - 1] + 1
                                                      ELSE longer[i - 1]
    OBVIOUS
  <2>1. CASE i \in 1 .. Len(e)
    <3>1. at[i] = IF e[i] = "data" THEN at[i - 1] + 1 ELSE at[i - 1]
      BY <1>1, <2>1 DEF Numbers
    <3>2. i \in 0 .. Len(e) /\ i - 1 \in 0 .. Len(e)
      BY <1>2, <2>1
    <3>3. longer[i] = at[i] /\ longer[i - 1] = at[i - 1] /\ more[i] = e[i]
      BY <1>3, <1>5, <2>1, <3>2 DEF Continues
    <3>4. QED
      BY <3>1, <3>3
  <2>2. CASE i = Len(e) + 1
    <3>1. i \in Len(e) + 1 .. Len(e) + 1 /\ i - 1 = Len(e)
      BY <1>2, <2>2
    <3>2. longer[i] = at[Len(e)] + 1 /\ longer[i - 1] = at[Len(e)]
      BY <1>5, <1>6, <3>1 DEF Continues
    <3>3. QED
      BY <1>3, <2>2, <3>2
  <2>3. QED
    BY <1>2, <2>1, <2>2
<1>9. ASSUME NEW i \in 1 .. Len(more), more[i] = "break"
      PROVE  i \in 1 .. Len(e)
  BY <1>2, <1>3, <1>9
<1>10. ASSUME NEW i \in 1 .. Len(e), more[i] = "break"
       PROVE  /\ e[i] = "break" /\ longer[i] = at[i] /\ at[i] > from
              /\ i > 1 => more[i - 1] = "data"
  <2>1. e[i] = "break" /\ longer[i] = at[i]
    BY <1>2, <1>3, <1>5, <1>10 DEF Continues
  <2>2. at[i] > from /\ (i > 1 => e[i - 1] = "data")
    BY <1>1, <2>1 DEF Numbers
  <2>3. i > 1 => i - 1 \in 1 .. Len(e)
    BY <1>2
  <2>4. i > 1 => more[i - 1] = e[i - 1]
    BY <1>3, <2>3
  <2>5. QED
    BY <2>1, <2>2, <2>4
<1>11. \A i \in 1 .. Len(more) : more[i] = "break" =>
         longer[i] > from /\ (i > 1 => more[i - 1] = "data")
  BY <1>9, <1>10
<1>12. longer[0] = n /\ longer[Len(more)] <= Len(ring2)
  <2>1. Len(more) \in Len(e) + 1 .. Len(e) + 1
    BY <1>2
  <2>2. longer[Len(more)] = at[Len(e)] + 1 /\ longer[0] = at[0]
    BY <1>5, <1>6, <2>1 DEF Continues
  <2>3. QED
    BY <1>2, <1>6, <2>2
<1>13. Numbers(longer, ring2, more, n, from)
  BY <1>2, <1>5, <1>8, <1>11, <1>12 DEF Numbers, Continues
<1>14. ASSUME whole
       PROVE  Exact(longer, ring2, more, from)
  <2>1. at[Len(e)] = Len(r)
    BY <1>1, <1>14 DEF Exact
  <2>2. longer[Len(more)] = Len(ring2)
    <3>1. Len(more) \in Len(e) + 1 .. Len(e) + 1
      BY <1>2
    <3>2. longer[Len(more)] = at[Len(e)] + 1
      BY <1>5, <3>1 DEF Continues
    <3>3. QED
      BY <1>2, <2>1, <3>2
  <2>3. ASSUME NEW i \in 1 .. Len(e), more[i] = "break"
        PROVE  ring2[longer[i]] = "break"
    <3>1. e[i] = "break" /\ longer[i] = at[i] /\ at[i] > from
      BY <1>10, <2>3
    <3>2. r[at[i]] = "break"
      BY <1>1, <1>14, <3>1 DEF Exact
    <3>3. at[i] \in 1 .. Len(r)
      BY <1>7, <3>1
    <3>4. QED
      BY <1>4, <3>1, <3>2, <3>3
  <2>4. \A i \in 1 .. Len(more) : more[i] = "break" => ring2[longer[i]] = "break"
    BY <1>9, <2>3
  <2>5. ASSUME NEW p \in from + 1 .. Len(r), ring2[p] = "break"
        PROVE  \E i \in 1 .. Len(more) : longer[i] = p /\ more[i] = "break"
    <3>1. r[p] = "break"
      BY <1>2, <1>4, <2>5
    <3>2. PICK i \in 1 .. Len(e) : at[i] = p /\ e[i] = "break"
      BY <1>1, <1>14, <3>1 DEF Exact
    <3>3. i \in 1 .. Len(more) /\ longer[i] = p /\ more[i] = "break"
      BY <1>2, <1>3, <1>5, <3>2 DEF Continues
    <3>4. QED
      BY <3>3
  <2>6. \A p \in from + 1 .. Len(ring2) : ring2[p] = "break" => p \in from + 1 .. Len(r)
    BY <1>2, <1>4, <1>14
  <2>7. QED
    BY <2>2, <2>4, <2>5, <2>6 DEF Exact
<1>15. longer \in [0 .. Len(more) -> Nat]
  BY <1>2
<1>16. Matched(ring2, more, n, from, whole)
  BY <1>13, <1>14, <1>15 DEF Matched
<1>17. QED
  BY <1>16 DEF more, ring2

\* A break, with its data event and its break event.
LEMMA LastByteMatched ==
  ASSUME NEW r \in Seq(Byte), NEW e \in Seq(Event), NEW n \in Nat,
         NEW whole \in BOOLEAN,
         NEW from \in 0 .. n, Matched(r, e, n, from, whole)
  PROVE  Matched(Append(r, "break"), e \o <<"data", "break">>, n, from, whole)
<1> DEFINE more == e \o <<"data", "break">>
           ring2 == Append(r, "break")
<1>1. PICK at \in [0 .. Len(e) -> Nat] :
        Numbers(at, r, e, n, from) /\ (whole => Exact(at, r, e, from))
  BY DEF Matched
<1>2. /\ Len(e) \in Nat /\ Len(r) \in Nat /\ Len(more) = Len(e) + 2
      /\ Len(ring2) = Len(r) + 1
  BY DEF Event, Byte
<1>3. /\ more[Len(e) + 1] = "data" /\ more[Len(e) + 2] = "break"
      /\ \A i \in 1 .. Len(e) : more[i] = e[i]
  BY DEF Event
<1>4. /\ ring2[Len(r) + 1] = "break"
      /\ \A p \in 1 .. Len(r) : ring2[p] = r[p]
  BY DEF Byte
<1> HIDE DEF more, ring2
<1>5. PICK longer \in [0 .. Len(e) + 2 -> Nat] : Continues(longer, at, Len(e), 2)
  <2>1. \A i, j \in 0 .. Len(e) : i <= j => at[i] <= at[j]
    BY <1>1 DEF Numbers
  <2>2. Len(e) \in Nat /\ 2 \in 1 .. 2
    BY <1>2
  <2>3. QED
    BY <2>1, <2>2, NumberingGoesOn
<1>6. /\ 0 \in 0 .. Len(e) /\ Len(e) \in 0 .. Len(e) /\ at[Len(e)] \in Nat
      /\ at[0] = n /\ at[Len(e)] <= Len(r)
  BY <1>1, <1>2 DEF Numbers
<1>7. ASSUME NEW i \in 1 .. Len(e)
      PROVE  i \in 0 .. Len(e) /\ at[i] \in Nat /\ at[i] <= Len(r)
  <2>1. i \in 0 .. Len(e) /\ i <= Len(e)
    BY <1>2
  <2>2. at[i] \in Nat /\ at[i] <= at[Len(e)]
    BY <1>1, <1>6, <2>1 DEF Numbers
  <2>3. QED
    BY <1>2, <1>6, <2>1, <2>2
<1>8. \A i \in 1 .. Len(more) :
        longer[i] = IF more[i] = "data" THEN longer[i - 1] + 1 ELSE longer[i - 1]
  <2> SUFFICES ASSUME NEW i \in 1 .. Len(more)
               PROVE  longer[i] = IF more[i] = "data" THEN longer[i - 1] + 1
                                                      ELSE longer[i - 1]
    OBVIOUS
  <2>1. CASE i \in 1 .. Len(e)
    <3>1. at[i] = IF e[i] = "data" THEN at[i - 1] + 1 ELSE at[i - 1]
      BY <1>1, <2>1 DEF Numbers
    <3>2. i \in 0 .. Len(e) /\ i - 1 \in 0 .. Len(e)
      BY <1>2, <2>1
    <3>3. longer[i] = at[i] /\ longer[i - 1] = at[i - 1] /\ more[i] = e[i]
      BY <1>3, <1>5, <2>1, <3>2 DEF Continues
    <3>4. QED
      BY <3>1, <3>3
  <2>2. CASE i = Len(e) + 1
    <3>1. i \in Len(e) + 1 .. Len(e) + 2 /\ i - 1 = Len(e)
      BY <1>2, <2>2
    <3>2. longer[i] = at[Len(e)] + 1 /\ longer[i - 1] = at[Len(e)]
      BY <1>5, <1>6, <3>1 DEF Continues
    <3>3. QED
      BY <1>3, <2>2, <3>2
  <2>3. CASE i = Len(e) + 2
    <3>1. i \in Len(e) + 1 .. Len(e) + 2 /\ i - 1 \in Len(e) + 1 .. Len(e) + 2
      BY <1>2, <2>3
    <3>2. longer[i] = at[Len(e)] + 1 /\ longer[i - 1] = at[Len(e)] + 1
      BY <1>5, <3>1 DEF Continues
    <3>3. QED
      BY <1>3, <2>3, <3>2
  <2>4. i \in 1 .. Len(e) \/ i = Len(e) + 1 \/ i = Len(e) + 2
    BY <1>2
  <2>5. QED
    BY <2>1, <2>2, <2>3, <2>4
<1>9. longer[Len(e) + 2] = at[Len(e)] + 1 /\ at[Len(e)] + 1 > from
  <2>1. at[0] <= at[Len(e)]
    BY <1>1, <1>2 DEF Numbers
  <2>2. longer[Len(e) + 2] = at[Len(e)] + 1
    BY <1>2, <1>5 DEF Continues
  <2>3. QED
    BY <1>6, <2>1, <2>2
<1>10. ASSUME NEW i \in 1 .. Len(more), more[i] = "break", i # Len(e) + 2
       PROVE  i \in 1 .. Len(e)
  <2>1. i # Len(e) + 1
    BY <1>3, <1>10
  <2>2. i \in Nat /\ i > 0 /\ i <= Len(e) + 2
    BY <1>2
  <2>3. QED
    BY <1>2, <1>10, <2>1, <2>2
<1>11. ASSUME NEW i \in 1 .. Len(e), more[i] = "break"
       PROVE  /\ e[i] = "break" /\ longer[i] = at[i] /\ at[i] > from
              /\ i > 1 => more[i - 1] = "data"
  <2>1. e[i] = "break" /\ longer[i] = at[i]
    BY <1>2, <1>3, <1>5, <1>11 DEF Continues
  <2>2. at[i] > from /\ (i > 1 => e[i - 1] = "data")
    BY <1>1, <2>1 DEF Numbers
  <2>3. i > 1 => i - 1 \in 1 .. Len(e)
    BY <1>2
  <2>4. i > 1 => more[i - 1] = e[i - 1]
    BY <1>3, <2>3
  <2>5. QED
    BY <2>1, <2>2, <2>4
<1>12. \A i \in 1 .. Len(more) : more[i] = "break" =>
         longer[i] > from /\ (i > 1 => more[i - 1] = "data")
  <2> SUFFICES ASSUME NEW i \in 1 .. Len(more), more[i] = "break"
               PROVE  longer[i] > from /\ (i > 1 => more[i - 1] = "data")
    OBVIOUS
  <2>1. CASE i = Len(e) + 2
    BY <1>2, <1>3, <1>9, <2>1
  <2>2. CASE i # Len(e) + 2
    BY <1>10, <1>11, <2>2
  <2>3. QED
    BY <2>1, <2>2
<1>13. longer[0] = n /\ longer[Len(more)] <= Len(ring2)
  <2>1. Len(more) \in Len(e) + 1 .. Len(e) + 2
    BY <1>2
  <2>2. longer[Len(more)] = at[Len(e)] + 1 /\ longer[0] = at[0]
    BY <1>5, <1>6, <2>1 DEF Continues
  <2>3. QED
    BY <1>2, <1>6, <2>2
<1>14. Numbers(longer, ring2, more, n, from)
  BY <1>2, <1>5, <1>8, <1>12, <1>13 DEF Numbers, Continues
<1>15. ASSUME whole
       PROVE  Exact(longer, ring2, more, from)
  <2>1. at[Len(e)] = Len(r)
    BY <1>1, <1>15 DEF Exact
  <2>2. longer[Len(more)] = Len(ring2)
    <3>1. Len(more) \in Len(e) + 1 .. Len(e) + 2
      BY <1>2
    <3>2. longer[Len(more)] = at[Len(e)] + 1
      BY <1>5, <3>1 DEF Continues
    <3>3. QED
      BY <1>2, <2>1, <3>2
  <2>3. ASSUME NEW i \in 1 .. Len(e), more[i] = "break"
        PROVE  ring2[longer[i]] = "break"
    <3>1. e[i] = "break" /\ longer[i] = at[i] /\ at[i] > from
      BY <1>11, <2>3
    <3>2. r[at[i]] = "break"
      BY <1>1, <1>15, <3>1 DEF Exact
    <3>3. at[i] \in 1 .. Len(r)
      BY <1>7, <3>1
    <3>4. QED
      BY <1>4, <3>1, <3>2, <3>3
  <2>4. ring2[longer[Len(e) + 2]] = "break"
    BY <1>4, <1>9, <2>1
  <2>5. \A i \in 1 .. Len(more) : more[i] = "break" => ring2[longer[i]] = "break"
    BY <1>10, <2>3, <2>4
  <2>6. ASSUME NEW p \in from + 1 .. Len(r), ring2[p] = "break"
        PROVE  \E i \in 1 .. Len(more) : longer[i] = p /\ more[i] = "break"
    <3>1. r[p] = "break"
      BY <1>2, <1>4, <2>6
    <3>2. PICK i \in 1 .. Len(e) : at[i] = p /\ e[i] = "break"
      BY <1>1, <1>15, <3>1 DEF Exact
    <3>3. i \in 1 .. Len(more) /\ longer[i] = p /\ more[i] = "break"
      BY <1>2, <1>3, <1>5, <3>2 DEF Continues
    <3>4. QED
      BY <3>3
  <2>7. \A p \in from + 1 .. Len(ring2) : ring2[p] = "break" =>
          \E i \in 1 .. Len(more) : longer[i] = p /\ more[i] = "break"
    <3>1. /\ Len(e) + 2 \in 1 .. Len(more)
          /\ longer[Len(e) + 2] = Len(r) + 1 /\ more[Len(e) + 2] = "break"
      BY <1>2, <1>3, <1>9, <2>1
    <3>2. \A p \in from + 1 .. Len(ring2) :
            p \in from + 1 .. Len(r) \/ p = Len(r) + 1
      BY <1>2
    <3>3. QED
      BY <2>6, <3>1, <3>2
  <2>8. QED
    BY <2>2, <2>5, <2>7 DEF Exact
<1>16. longer \in [0 .. Len(more) -> Nat]
  BY <1>2
<1>17. Matched(ring2, more, n, from, whole)
  BY <1>14, <1>15, <1>16 DEF Matched
<1>18. QED
  BY <1>17 DEF more, ring2

\* An event was dropped: what is known of the others remains.
LEMMA LooselyMatched ==
  ASSUME NEW r, NEW e, NEW n, NEW from, NEW whole \in BOOLEAN,
         Matched(r, e, n, from, whole)
  PROVE  Matched(r, e, n, from, FALSE)
BY DEF Matched

\* A byte without an event.
LEMMA SilentByteMatched ==
  ASSUME NEW r \in Seq(Byte), NEW e \in Seq(Event), NEW n \in Nat,
         NEW from \in Nat, Matched(r, e, n, from, FALSE), NEW b \in Byte
  PROVE  Matched(Append(r, b), e, n, from, FALSE)
<1>1. PICK at \in [0 .. Len(e) -> Nat] : Numbers(at, r, e, n, from)
  BY DEF Matched
<1>2. Len(r) \in Nat /\ Len(Append(r, b)) = Len(r) + 1 /\ Len(e) \in Nat
  OBVIOUS
<1>3. at[Len(e)] \in Nat
  BY <1>2
<1>4. Numbers(at, Append(r, b), e, n, from)
  BY <1>1, <1>2, <1>3 DEF Numbers
<1>5. QED
  BY <1>4 DEF Matched

-----------------------------------------------------------------------------
(* Types and capacities *)

LEMMA FrameTypes ==
  /\ \A device \in Device : Poll(device) \in Seq(Byte) /\ Len(Poll(device)) = 2
  /\ \A size \in Nat : Telegram(size) \in Seq(Byte) /\ Len(Telegram(size)) = size
<1>1. ASSUME NEW device \in Device
      PROVE  Poll(device) \in Seq(Byte) /\ Len(Poll(device)) = 2
  BY DEF Poll, Byte
<1>2. ASSUME NEW size \in Nat
      PROVE  Telegram(size) \in Seq(Byte) /\ Len(Telegram(size)) = size
  BY DEF Telegram, Byte
<1>3. QED
  BY <1>1, <1>2

LEMMA EmptyTyped ==
  /\ <<>> \in Seq(Byte) /\ <<>> \in Seq(Event)
  /\ Len(<<>>) <= RingSize /\ Len(<<>>) <= MaxEvents /\ Len(<<>>) <= MaxSize
  /\ [device \in Attached |-> 0] \in [Attached -> 0 .. MaxWaiting]
  /\ <<"break">> \in Seq(Byte)
  /\ 0 \in 0 .. MaxCuts
<1>1. /\ <<>> \in Seq(Byte) /\ <<>> \in Seq(Event)
      /\ Len(<<>>) <= RingSize /\ Len(<<>>) <= MaxEvents
      /\ Len(<<>>) <= MaxSize /\ 0 \in 0 .. MaxCuts
  BY EmsBusAssumption
<1>2. [device \in Attached |-> 0] \in [Attached -> 0 .. MaxWaiting]
  BY EmsBusAssumption
<1>3. <<"break">> \in Seq(Byte)
  BY DEF Byte
<1>4. QED
  BY <1>1, <1>2, <1>3

LEMMA BusInitTyped == Init => TypeOK
<1> SUFFICES ASSUME Init PROVE TypeOK
  OBVIOUS
<1>1. /\ line \in Seq(Byte) /\ ring \in Seq(Byte) /\ Len(ring) <= RingSize
      /\ events \in Seq(Event) /\ Len(events) <= MaxEvents
      /\ buffer \in Seq(Byte) /\ Len(buffer) <= MaxSize
  BY EmptyTyped DEF Init
<1>2. waiting \in [Attached -> 0 .. MaxWaiting] /\ cuts \in 0 .. MaxCuts
  BY EmptyTyped DEF Init
<1>3. length \in Nat /\ pc = "event" /\ flushed \in BOOLEAN /\ dropped \in BOOLEAN
  BY DEF Init
<1>4. QED
  BY <1>1, <1>2, <1>3 DEF TypeOK

\* Of the events of a byte the driver queues all, the first, or none.
LEMMA NotifyOutcomes ==
  ASSUME TypeOK,
         NEW new \in {<<"overflow">>, <<"data">>, <<"data", "break">>}, Notify(new)
  PROVE  /\ Len(events') <= MaxEvents
         /\ \/ events' = events \o new /\ dropped' = dropped
            \/ events' = events /\ dropped'
            \/ /\ events' = Append(events, "data") /\ dropped'
               /\ new = <<"data", "break">>
<1> USE EmsBusAssumption
<1> DEFINE room == MaxEvents - Len(events)
           all  == Len(new) <= room
<1>1. /\ events \in Seq(Event) /\ Len(events) \in Nat /\ room \in Nat
      /\ dropped \in BOOLEAN
  BY DEF TypeOK
<1>2. /\ new \in Seq(Event) /\ Len(new) \in {1, 2}
      /\ Len(new) = 2 => new = <<"data", "break">>
  <2>1. CASE new = <<"overflow">>
    BY <2>1 DEF Event
  <2>2. CASE new = <<"data">>
    BY <2>2 DEF Event
  <2>3. CASE new = <<"data", "break">>
    BY <2>3 DEF Event
  <2>4. QED
    BY <2>1, <2>2, <2>3
<1>3. CASE all
  <2>1. events' = events \o new
    BY <1>3 DEF Notify
  <2>2. dropped' = dropped
    BY <1>1, <1>3, Zenon DEF Notify
  <2>3. Len(events') <= MaxEvents
    BY <1>1, <1>2, <1>3, <2>1
  <2>4. QED
    BY <2>1, <2>2, <2>3
<1>4. CASE ~all
  <2>1. events' = events \o SubSeq(new, 1, room)
    BY <1>4 DEF Notify
  <2>2. dropped'
    BY <1>4, Zenon DEF Notify
  <2>3. CASE room = 0
    <3>1. SubSeq(new, 1, room) = <<>>
      BY <2>3, SubSeqEmpty
    <3>2. events' = events
      BY <1>1, <2>1, <3>1, ConcatEmptySeq
    <3>3. QED
      BY <1>1, <2>2, <3>2
  <2>4. CASE room # 0
    <3>1. room = 1 /\ Len(new) = 2
      <4>1. Len(new) \in 1 .. 2 /\ room \in Nat \ {0} /\ ~(Len(new) <= room)
        BY <1>1, <1>2, <1>4, <2>4
      <4>2. \A k \in Nat \ {0}, l \in 1 .. 2 : ~(l <= k) => k = 1 /\ l = 2
        OBVIOUS
      <4> HIDE DEF room
      <4>3. QED
        BY <4>1, <4>2
    <3>2. SubSeq(<<"data", "break">>, 1, 1) = <<"data">>
      <4> DEFINE seq == <<"data", "break">>
      <4>1. /\ seq \in Seq(Event) /\ seq[1] = "data" /\ <<"data">> \in Seq(Event)
            /\ 1 \in 1 .. Len(seq) /\ 1 \in 1 .. 1
        BY DEF Event
      <4>2. SubSeq(seq, 1, 1) = SubSeq(seq, 1, 0) \o <<seq[1]>>
        <5> HIDE DEF seq
        <5>1. SubSeq(seq, 1, 1) = SubSeq(seq, 1, 1 - 1) \o <<seq[1]>>
          BY <4>1, SubSeqRecursiveSecond
        <5>2. QED
          BY <5>1
      <4>3. SubSeq(seq, 1, 0) = <<>>
        BY SubSeqEmpty
      <4>4. QED
        BY <4>1, <4>2, <4>3, ConcatEmptySeq
    <3>3. events' = Append(events, "data")
      <4>1. events' = events \o <<"data">>
        BY <1>2, <2>1, <3>1, <3>2
      <4>2. "data" \in Event
        BY DEF Event
      <4>3. QED
        BY <1>1, <4>1, <4>2, AppendIsConcat
    <3>4. Len(events') <= MaxEvents
      BY <1>1, <3>1, <3>3 DEF Event
    <3>5. QED
      BY <1>2, <2>2, <3>1, <3>3, <3>4
  <2>5. QED
    BY <2>3, <2>4
<1>5. QED
  BY <1>3, <1>4

LEMMA NotifyTyped ==
  ASSUME TypeOK,
         NEW new \in {<<"overflow">>, <<"data">>, <<"data", "break">>}, Notify(new)
  PROVE  /\ events' \in Seq(Event) /\ Len(events') <= MaxEvents
         /\ dropped' \in BOOLEAN
<1>1. /\ events \o new \in Seq(Event) /\ events \in Seq(Event)
      /\ Append(events, "data") \in Seq(Event)
  <2>1. /\ <<"overflow">> \in Seq(Event) /\ <<"data">> \in Seq(Event)
        /\ <<"data", "break">> \in Seq(Event)
    BY DEF Event
  <2>2. events \in Seq(Event)
    BY DEF TypeOK
  <2>3. new \in Seq(Event) /\ "data" \in Event
    BY <2>1 DEF Event
  <2>4. QED
    BY <2>2, <2>3
<1>2. dropped' \in BOOLEAN
  BY Zenon DEF Notify
<1>3. QED
  BY <1>1, <1>2, NotifyOutcomes

\* What the bus does to the driver's buffers.
LEMMA BusTyped ==
  ASSUME TypeOK,
         \/ \E device \in Device : Begin(Poll(device))
         \/ \E size \in Telegrams : Begin(Telegram(size))
         \/ Abandon \/ ReceiveByte \/ Overflow
  PROVE  TypeOK'
<1> USE EmsBusAssumption
<1>1. CASE \E device \in Device : Begin(Poll(device))
  BY <1>1, FrameTypes DEF Begin, TypeOK
<1>2. CASE \E size \in Telegrams : Begin(Telegram(size))
  BY <1>2, FrameTypes DEF Begin, TypeOK
<1>3. CASE Abandon
  BY <1>3 DEF Abandon, TypeOK
<1>4. CASE ReceiveByte
  <2>1. line' \in Seq(Byte) /\ Head(line) \in Byte
    BY <1>4 DEF ReceiveByte, TypeOK
  <2>2. ring' \in Seq(Byte) /\ Len(ring') <= RingSize
    BY <1>4, <2>1 DEF ReceiveByte, TypeOK
  <2>3. Announced(Head(line)) \in {<<"overflow">>, <<"data">>, <<"data", "break">>}
    BY DEF Announced
  <2>4. /\ events' \in Seq(Event) /\ Len(events') <= MaxEvents
        /\ dropped' \in BOOLEAN
    BY <1>4, <2>3, NotifyTyped DEF ReceiveByte
  <2>5. cuts' \in 0 .. MaxCuts
    BY <1>4 DEF ReceiveByte, CutIf, TypeOK
  <2>6. QED
    BY <1>4, <2>1, <2>2, <2>4, <2>5 DEF ReceiveByte, TypeOK
<1>5. CASE Overflow
  <2>1. /\ events' \in Seq(Event) /\ Len(events') <= MaxEvents
        /\ dropped' \in BOOLEAN
    BY <1>5, NotifyTyped DEF Overflow
  <2>2. line' \in Seq(Byte)
    BY <1>5 DEF Overflow, TypeOK
  <2>3. QED
    BY <1>5, <2>1, <2>2 DEF Overflow, TypeOK
<1>6. QED
  BY <1>1, <1>2, <1>3, <1>4, <1>5

LEMMA WriteTyped ==
  ASSUME TypeOK, NEW frame \in Seq(Byte), Write(frame)
  PROVE  line' \in Seq(Byte) /\ pc' = "write"
BY DEF Write, TypeOK

LEMMA TakeTyped ==
  ASSUME TypeOK, NEW event, Take(event)
  PROVE  events' \in Seq(Event) /\ Len(events') <= MaxEvents
<1>1. events \in Seq(Event) /\ events # <<>> /\ Len(events) <= MaxEvents
  BY DEF Take, TypeOK
<1>2. Tail(events) \in Seq(Event) /\ Len(Tail(events)) <= Len(events)
  BY <1>1
<1>3. QED
  BY <1>1, <1>2, EmsBusAssumption DEF Take

LEMMA MendTyped == Mend => dropped' \in BOOLEAN
BY Zenon DEF Mend

\* The events that the task takes, and the telegram it reads.
LEMMA EventTyped ==
  ASSUME TypeOK,
         CountByte \/ SeeBreak \/ SeeOverflow \/ Requeue \/ ReadTelegram
  PROVE  TypeOK'
<1> USE EmsBusAssumption
<1>1. CASE CountByte \/ SeeBreak \/ SeeOverflow
  <2>1. events' \in Seq(Event) /\ Len(events') <= MaxEvents
    BY <1>1, TakeTyped DEF CountByte, SeeBreak, SeeOverflow
  <2>2. ring' \in Seq(Byte) /\ Len(ring') <= RingSize
    BY <1>1, EmptyTyped DEF CountByte, SeeBreak, SeeOverflow, TypeOK
  <2>3. length' \in Nat /\ pc' \in {"event", "read", "requeue"}
    BY <1>1 DEF CountByte, SeeBreak, SeeOverflow, Take, TypeOK
  <2>4. QED
    BY <1>1, <2>1, <2>2, <2>3 DEF CountByte, SeeBreak, SeeOverflow, TypeOK
<1>2. CASE Requeue
  BY <1>2, EmptyTyped, MendTyped DEF Requeue, TypeOK
<1>3. CASE ReadTelegram
  <2>1. /\ ring \in Seq(Byte) /\ length \in 0 .. Len(ring)
        /\ Len(ring) <= RingSize
    BY <1>3 DEF ReadTelegram, TypeOK
  <2>2. /\ SubSeq(ring, length + 1, Len(ring)) \in Seq(Byte)
        /\ Len(SubSeq(ring, length + 1, Len(ring))) = Len(ring) - length
    BY <2>1
  <2>3. /\ SubSeq(ring, 1, length) \in Seq(Byte)
        /\ Len(SubSeq(ring, 1, length)) = length
    BY <2>1
  <2>4. ring' \in Seq(Byte) /\ Len(ring') <= RingSize
    BY <1>3, <2>1, <2>2 DEF ReadTelegram
  <2>5. CASE length > MaxSize
    BY <1>3, <2>4, <2>5 DEF ReadTelegram, TypeOK
  <2>6. CASE ~(length > MaxSize)
    <3>1. buffer' \in Seq(Byte) /\ Len(buffer') <= MaxSize
      BY <1>3, <2>1, <2>3, <2>6 DEF ReadTelegram
    <3>2. pc' = "process"
      BY <1>3, <2>6 DEF ReadTelegram
    <3>3. QED
      BY <1>3, <2>4, <3>1, <3>2 DEF ReadTelegram, TypeOK
  <2>7. QED
    BY <2>5, <2>6
<1>4. QED
  BY <1>1, <1>2, <1>3

\* What the task does with a telegram.
LEMMA ProcessTyped ==
  ASSUME TypeOK,
         \/ \E device \in Attached : AnswerFor(device)
         \/ HandOver \/ PollReset \/ FinishReset \/ FinishWrite
  PROVE  TypeOK'
<1> USE EmsBusAssumption
<1>1. ASSUME NEW device \in Attached, AnswerFor(device)
      PROVE  TypeOK'
  <2>1. line' \in Seq(Byte) /\ pc' = "write"
    BY <1>1, FrameTypes, WriteTyped DEF AnswerFor
  <2>2. waiting' \in [Attached -> 0 .. MaxWaiting]
    BY <1>1 DEF AnswerFor, Waits, TypeOK
  <2>3. QED
    BY <1>1, <2>1, <2>2 DEF AnswerFor, TypeOK
<1>2. CASE HandOver
  <2>1. line' \in Seq(Byte) /\ pc' \in {"write", "event"}
    <3>1. \A size \in Telegrams \cup {2} : Telegram(size) \in Seq(Byte)
      BY FrameTypes
    <3>2. QED
      BY <1>2, <3>1, WriteTyped DEF HandOver, ControllerProcesses, TypeOK
  <2>2. QED
    BY <1>2, <2>1 DEF HandOver, TypeOK
<1>3. CASE PollReset \/ FinishWrite
  BY <1>3, EmptyTyped DEF PollReset, FinishWrite, TypeOK
<1>4. CASE FinishReset
  BY <1>4, EmptyTyped, MendTyped DEF FinishReset, TypeOK
<1>5. QED
  BY <1>1, <1>2, <1>3, <1>4

\* What happens outside the task.
LEMMA OthersTyped ==
  ASSUME TypeOK,
         \/ ReadTimeout \/ LoopFlush \/ LoopRequeue \/ LoneBreak
         \/ \E device \in Attached : Enqueue(device)
  PROVE  TypeOK'
<1> USE EmsBusAssumption
<1>1. CASE ReadTimeout
  BY <1>1, EmptyTyped DEF ReadTimeout, CutIf, TypeOK
<1>2. CASE LoopFlush
  BY <1>2, EmptyTyped DEF LoopFlush, CutIf, TypeOK
<1>3. CASE LoopRequeue
  <2>1. flushed' \in BOOLEAN
    BY <1>3, Zenon DEF LoopRequeue
  <2>2. QED
    BY <1>3, <2>1, EmptyTyped, MendTyped DEF LoopRequeue, TypeOK
<1>4. CASE LoneBreak
  <2>1. /\ ring' \in Seq(Byte) /\ Len(ring') <= RingSize
        /\ events' \in Seq(Event) /\ Len(events') <= MaxEvents
        /\ buffer' \in Seq(Byte) /\ Len(buffer') <= MaxSize
    BY <1>4, EmptyTyped DEF LoneBreak
  <2>2. /\ waiting' \in [Attached -> 0 .. MaxWaiting]
        /\ cuts' \in 0 .. MaxCuts /\ line' \in Seq(Byte)
    BY <1>4, EmptyTyped DEF LoneBreak, TypeOK
  <2>3. /\ length' \in Nat /\ pc' = "event" /\ flushed' \in BOOLEAN
        /\ dropped' \in BOOLEAN
    BY <1>4 DEF LoneBreak
  <2>4. QED
    BY <2>1, <2>2, <2>3 DEF TypeOK
<1>5. ASSUME NEW device \in Attached, Enqueue(device)
      PROVE  TypeOK'
  <2>1. waiting' \in [Attached -> 0 .. MaxWaiting]
    BY <1>5 DEF Enqueue, TypeOK
  <2>2. QED
    BY <1>5, <2>1 DEF Enqueue, TypeOK
<1>6. QED
  BY <1>1, <1>2, <1>3, <1>4, <1>5

LEMMA BusTypeKept == TypeOK /\ [Next]_busVars => TypeOK'
<1> SUFFICES ASSUME TypeOK, [Next]_busVars PROVE TypeOK'
  OBVIOUS
<1>1. CASE UNCHANGED busVars
  BY <1>1 DEF TypeOK
<1>2. QED
  BY <1>1, BusTyped, EventTyped, ProcessTyped, OthersTyped DEF Next, UartStep

\* Every field keeps its type and no buffer takes more than its capacity,
\* whatever telegrams come and however they are disturbed.
THEOREM BusTypeCorrect == Spec => []TypeOK
BY BusInitTyped, BusTypeKept, PTL DEF Spec

-----------------------------------------------------------------------------
(* The task in step with the bus *)

\* Bytes, events and count agree, except while they are being discarded, and
\* but for the events that were dropped.
InStep ==
  pc \notin {"requeue", "pollReset"} =>
    Matched(ring, events, length, IF pc = "read" THEN length ELSE 0, ~dropped)

TelegramReady ==
  pc = "read" =>
    length \in 1 .. Len(ring) /\ (~dropped => OneTelegram(ring, length))

\* Between the two halves of a reset the ring stays empty.
RingEmptied ==
  flushed \/ pc \in {"requeue", "pollReset", "timeoutReset"} => ring = <<>>

\* Nothing has been counted while a telegram is processed or a reset is under
\* way, but for the reset that overflows bring about.
NothingCounted ==
  flushed \/ pc \in {"process", "processOnly", "write",
                      "pollReset", "timeoutReset"} => length = 0

TelegramWhole == pc = "process" /\ ~dropped => EndsWithBreak(buffer)

Sync ==
  /\ InStep
  /\ TelegramReady
  /\ RingEmptied
  /\ NothingCounted
  /\ TelegramWhole

BusInv == TypeOK /\ (cuts = 0 => Sync)

\* A telegram is what came between two breaks.
LEMMA ReadOutWhole ==
  ASSUME NEW r \in Seq(Byte), NEW n \in Nat, OneTelegram(r, n)
  PROVE  EndsWithBreak(SubSeq(r, 1, n))
<1>1. n > 0 /\ n <= Len(r) /\ \A p \in 1 .. n : r[p] = "break" <=> p = n
  BY DEF OneTelegram
<1>2. /\ SubSeq(r, 1, n) \in Seq(Byte) /\ Len(SubSeq(r, 1, n)) = n
      /\ \A p \in 1 .. n : SubSeq(r, 1, n)[p] = r[p]
  BY <1>1
<1>3. DOMAIN SubSeq(r, 1, n) = 1 .. n
  BY <1>2
<1>4. SubSeq(r, 1, n) # <<>>
  BY <1>1, <1>2
<1>5. QED
  BY <1>1, <1>2, <1>3, <1>4 DEF EndsWithBreak

\* A reset with an empty ring cannot be overtaken by a telegram.
LEMMA FlushedNotReading ==
  ASSUME TypeOK, Sync, flushed
  PROVE  pc # "read"
<1>1. ring = <<>>
  BY DEF Sync, RingEmptied
<1>2. QED
  BY <1>1 DEF Sync, TelegramReady, TypeOK

\* A telegram being processed is not declared whole by a reset.
LEMMA MendKeeps ==
  ASSUME Mend, pc' = "process", ~dropped'
  PROVE  ~dropped
BY Zenon DEF Mend

LEMMA ReceiveKeepsStep ==
  ASSUME TypeOK, Sync, ReceiveByte, ~Discarding
  PROVE  Sync'
<1> DEFINE from == IF pc = "read" THEN length ELSE 0
           byte == Head(line)
<1>1. /\ ring \in Seq(Byte) /\ events \in Seq(Event) /\ length \in Nat
      /\ line \in Seq(Byte) /\ line # <<>> /\ dropped \in BOOLEAN
  BY DEF TypeOK, ReceiveByte
<1>2. /\ byte \in Byte
      /\ Announced(byte) \in {<<"overflow">>, <<"data">>, <<"data", "break">>}
      /\ Announced(byte) = IF byte = "break" THEN <<"data", "break">> ELSE <<"data">>
  BY <1>1 DEF Announced
<1>3. UNCHANGED <<length, pc, buffer, flushed>> /\ ring' = Append(ring, byte)
  BY DEF ReceiveByte
<1>4. Matched(ring, events, length, from, ~dropped)
  BY DEF Sync, InStep, Discarding
<1>5. from \in 0 .. length /\ from \in Nat
  BY <1>1
<1>6. Matched(ring, events, length, from, FALSE)
  BY <1>4, LooselyMatched
<1>7. Notify(Announced(byte))
  BY DEF ReceiveByte
<1> HIDE DEF from, byte
<1>8. Matched(ring', events', length, from, ~dropped') /\ (dropped => dropped')
  <2>1. CASE events' = events \o Announced(byte) /\ dropped' = dropped
    <3>1. CASE byte = "break"
      BY <1>1, <1>2, <1>3, <1>4, <1>5, <2>1, <3>1, LastByteMatched
    <3>2. CASE byte # "break"
      <4>1. events' = Append(events, "data")
        BY <1>1, <1>2, <2>1, <3>2 DEF Event
      <4>2. QED
        BY <1>1, <1>2, <1>3, <1>4, <1>5, <2>1, <3>2, <4>1, ByteMatched
    <3>3. QED
      BY <3>1, <3>2
  <2>2. CASE events' = events /\ dropped'
    <3>1. Matched(ring', events', length, from, FALSE)
      BY <1>1, <1>2, <1>3, <1>5, <1>6, <2>2, SilentByteMatched
    <3>2. QED
      BY <2>2, <3>1
  <2>3. CASE events' = Append(events, "data") /\ dropped'
    <3>1. Matched(ring', events', length, from, FALSE)
      BY <1>1, <1>2, <1>3, <1>5, <1>6, <2>3, ByteMatched
    <3>2. QED
      BY <2>3, <3>1
  <2>4. QED
    BY <1>2, <1>7, <2>1, <2>2, <2>3, NotifyOutcomes
<1>9. InStep'
  BY <1>3, <1>8 DEF InStep, from
<1>10. TelegramReady'
  <2>1. pc = "read" =>
          length \in 1 .. Len(ring) /\ (~dropped => OneTelegram(ring, length))
    BY DEF Sync, TelegramReady
  <2>2. /\ Len(ring') = Len(ring) + 1 /\ Len(ring) \in Nat
        /\ \A p \in 1 .. Len(ring) : ring'[p] = ring[p]
    BY <1>1, <1>2, <1>3
  <2>3. OneTelegram(ring, length) => OneTelegram(ring', length)
    BY <1>1, <2>2 DEF OneTelegram
  <2>4. QED
    BY <1>1, <1>3, <1>8, <2>1, <2>2, <2>3 DEF TelegramReady
<1>11. RingEmptied' /\ NothingCounted' /\ TelegramWhole'
  BY <1>3, <1>8
     DEF Discarding, Sync, RingEmptied, NothingCounted, TelegramWhole
<1>12. QED
  BY <1>9, <1>10, <1>11 DEF Sync

LEMMA OverflowKeepsStep ==
  ASSUME TypeOK, Sync, Overflow
  PROVE  Sync'
<1> DEFINE from == IF pc = "read" THEN length ELSE 0
<1>1. /\ ring \in Seq(Byte) /\ events \in Seq(Event) /\ length \in Nat
      /\ dropped \in BOOLEAN /\ from \in Nat
  BY DEF TypeOK
<1>2. UNCHANGED <<ring, length, pc, buffer, flushed>> /\ Notify(<<"overflow">>)
  BY DEF Overflow
<1>3. \/ events' = Append(events, "overflow") /\ dropped' = dropped
      \/ events' = events /\ dropped'
  <2>1. <<"overflow">> # <<"data", "break">>
    BY DEF Event
  <2>2. events \o <<"overflow">> = Append(events, "overflow")
    BY <1>1 DEF Event
  <2>3. QED
    BY <1>2, <2>1, <2>2, NotifyOutcomes
<1>4. dropped => dropped'
  BY <1>3
<1>5. InStep'
  <2> SUFFICES ASSUME pc \notin {"requeue", "pollReset"}
               PROVE  Matched(ring, events', length, from, ~dropped')
    BY <1>2 DEF InStep
  <2>1. Matched(ring, events, length, from, ~dropped)
    BY DEF Sync, InStep
  <2> HIDE DEF from
  <2>2. CASE events' = Append(events, "overflow") /\ dropped' = dropped
    BY <1>1, <2>1, <2>2, OverflowMatched
  <2>3. CASE events' = events /\ dropped'
    <3>1. Matched(ring, events, length, from, FALSE)
      BY <2>1, LooselyMatched
    <3>2. QED
      BY <2>3, <3>1
  <2>4. QED
    BY <1>3, <2>2, <2>3
<1>6. TelegramReady' /\ RingEmptied' /\ NothingCounted' /\ TelegramWhole'
  BY <1>2, <1>4
     DEF Sync, TelegramReady, RingEmptied, NothingCounted, TelegramWhole
<1>7. QED
  BY <1>5, <1>6 DEF Sync

LEMMA CountKeepsStep ==
  ASSUME TypeOK, Sync, CountByte
  PROVE  Sync'
<1>1. /\ ring \in Seq(Byte) /\ events \in Seq(Event) /\ length \in Nat
      /\ pc = "event" /\ events # <<>> /\ Head(events) = "data"
  BY DEF TypeOK, CountByte, Take
<1>2. Matched(ring, events, length, 0, ~dropped) /\ dropped' = dropped
  BY <1>1 DEF Sync, InStep, CountByte
<1>3. /\ length < Len(ring)
      /\ Matched(ring, Tail(events), length + 1, 0, ~dropped)
  BY <1>1, <1>2, CountMatched
<1>4. ~flushed
  BY <1>1, <1>3 DEF Sync, RingEmptied
<1>5. /\ ring' = ring /\ events' = Tail(events) /\ length' = length + 1
      /\ pc' = "event" /\ ~flushed'
  BY <1>1, <1>4 DEF CountByte, Take, TypeOK
<1>6. InStep'
  BY <1>2, <1>3, <1>5 DEF InStep
<1>7. QED
  BY <1>5, <1>6
     DEF Sync, TelegramReady, RingEmptied, NothingCounted, TelegramWhole

LEMMA BreakKeepsStep ==
  ASSUME TypeOK, Sync, SeeBreak
  PROVE  Sync'
<1>1. /\ ring \in Seq(Byte) /\ events \in Seq(Event) /\ length \in Nat
      /\ pc = "event" /\ events # <<>> /\ Head(events) = "break"
  BY DEF TypeOK, SeeBreak, Take
<1>2. Matched(ring, events, length, 0, ~dropped) /\ dropped' = dropped
  BY <1>1 DEF Sync, InStep, SeeBreak
<1>3. /\ length \in 1 .. Len(ring) /\ (~dropped => OneTelegram(ring, length))
      /\ Matched(ring, Tail(events), length, length, ~dropped)
  BY <1>1, <1>2, BreakMatched
<1>4. ~flushed
  BY <1>1, <1>3 DEF Sync, RingEmptied
<1>5. /\ ring' = ring /\ events' = Tail(events) /\ length' = length
      /\ pc' = "read" /\ ~flushed'
  BY <1>1, <1>4 DEF SeeBreak, Take, TypeOK
<1>6. InStep' /\ TelegramReady'
  BY <1>2, <1>3, <1>5 DEF InStep, TelegramReady
<1>7. QED
  BY <1>5, <1>6 DEF Sync, RingEmptied, NothingCounted, TelegramWhole

LEMMA ReadKeepsStep ==
  ASSUME TypeOK, Sync, ReadTelegram
  PROVE  Sync'
<1>1. ring \in Seq(Byte) /\ events \in Seq(Event) /\ length \in Nat
  BY DEF TypeOK
<1>2. pc = "read" /\ ~flushed /\ flushed' = flushed /\ dropped' = dropped
  BY FlushedNotReading DEF ReadTelegram
<1>3. /\ length \in 1 .. Len(ring) /\ (~dropped => OneTelegram(ring, length))
      /\ Matched(ring, events, length, length, ~dropped)
  BY <1>2 DEF Sync, InStep, TelegramReady
<1>4. Matched(SubSeq(ring, length + 1, Len(ring)), events, 0, 0, ~dropped)
  <2>1. length <= Len(ring) /\ (~dropped) \in BOOLEAN
    BY <1>1, <1>3
  <2>2. QED
    BY <1>1, <1>3, <2>1, ReadMatched
<1>5. /\ ring' = SubSeq(ring, length + 1, Len(ring)) /\ events' = events
      /\ length' = 0 /\ pc' \in {"event", "process"}
      /\ pc' = "process" => buffer' = SubSeq(ring, 1, length)
  BY DEF ReadTelegram
<1>6. ~dropped => EndsWithBreak(SubSeq(ring, 1, length))
  BY <1>1, <1>3, ReadOutWhole
<1>7. InStep'
  BY <1>2, <1>4, <1>5 DEF InStep
<1>8. TelegramWhole'
  BY <1>2, <1>5, <1>6 DEF TelegramWhole
<1>9. TelegramReady' /\ RingEmptied' /\ NothingCounted'
  BY <1>2, <1>5 DEF TelegramReady, RingEmptied, NothingCounted
<1>10. QED
  BY <1>7, <1>8, <1>9 DEF Sync

\* The resets that empty ring and events one after the other.
LEMMA ResetKeepsStep ==
  ASSUME TypeOK, Sync,
         \/ SeeOverflow \/ Requeue \/ PollReset \/ FinishReset
         \/ ReadTimeout /\ length = 0
         \/ LoopFlush /\ events = <<>> /\ length = 0
         \/ LoopRequeue
  PROVE  Sync'
<1> USE DEF InStep, TelegramReady, RingEmptied, NothingCounted, TelegramWhole
<1>1. CASE SeeOverflow
  BY <1>1 DEF SeeOverflow, Take, Sync
<1>2. CASE Requeue
  BY <1>2, NothingMatched DEF Requeue, Sync
<1>3. CASE PollReset
  BY <1>3 DEF PollReset, Sync
<1>4. CASE FinishReset
  BY <1>4, NothingMatched DEF FinishReset, Sync
<1>5. CASE ReadTimeout /\ length = 0
  BY <1>5, NothingMatched DEF ReadTimeout, Sync
<1>6. CASE LoopFlush /\ events = <<>> /\ length = 0
  BY <1>6, NothingMatched DEF LoopFlush, Sync
<1>7. CASE LoopRequeue
  <2>1. pc # "read" /\ ring = <<>> /\ length = 0
    BY <1>7, FlushedNotReading DEF LoopRequeue, Sync
  <2>2. InStep' /\ TelegramReady' /\ RingEmptied' /\ NothingCounted'
    BY <1>7, <2>1, NothingMatched DEF LoopRequeue, Sync
  <2>3. TelegramWhole'
    BY <1>7, MendKeeps DEF LoopRequeue, Sync
  <2>4. QED
    BY <2>2, <2>3 DEF Sync
<1>8. QED
  BY <1>1, <1>2, <1>3, <1>4, <1>5, <1>6, <1>7

\* Steps that touch neither record of what was received.
LEMMA OthersKeepStep ==
  ASSUME TypeOK, Sync, UNCHANGED <<ring, events, length, flushed, dropped>>,
         \/ UNCHANGED <<pc, buffer>>
         \/ /\ pc \in {"process", "processOnly", "write"}
            /\ pc' \in {"write", "event"}
  PROVE  Sync'
BY DEF Sync, InStep, TelegramReady, RingEmptied, NothingCounted, TelegramWhole

\* A restart finds everything empty.
LEMMA RestartInStep == LoneBreak => Sync'
BY NothingMatched
   DEF LoneBreak, Sync, InStep, TelegramReady, RingEmptied, NothingCounted,
       TelegramWhole

LEMMA BusInvInit == Init => BusInv
BY BusInitTyped, NothingMatched
   DEF Init, BusInv, Sync, InStep, TelegramReady, RingEmptied, NothingCounted,
       TelegramWhole

LEMMA BusInvKept == BusInv /\ [Next]_busVars => BusInv'
<1> SUFFICES ASSUME BusInv, [Next]_busVars, cuts' = 0
             PROVE  Sync'
  BY BusTypeKept DEF BusInv
<1>1. TypeOK /\ cuts \in Nat
  BY DEF BusInv, TypeOK
<1>2. CASE LoneBreak
  BY <1>2, RestartInStep
<1>3. CASE ~LoneBreak
  <2>1. cuts = 0
    BY <1>1, <1>3
       DEF Next, UartStep, Begin, Abandon, ReceiveByte, Overflow, CountByte,
           SeeBreak, SeeOverflow, Requeue, ReadTelegram, AnswerFor, HandOver,
           PollReset, FinishReset, FinishWrite, ReadTimeout, LoopFlush,
           LoopRequeue, Enqueue, CutIf
  <2>2. Sync
    BY <2>1 DEF BusInv
  <2>3. CASE ReceiveByte
    BY <1>1, <2>1, <2>2, <2>3, ReceiveKeepsStep DEF ReceiveByte, CutIf
  <2>4. CASE ReadTimeout
    BY <1>1, <2>1, <2>2, <2>4, ResetKeepsStep DEF ReadTimeout, CutIf, TypeOK
  <2>5. CASE LoopFlush
    BY <1>1, <2>1, <2>2, <2>5, ResetKeepsStep DEF LoopFlush, CutIf, TypeOK
  <2>6. CASE SeeOverflow \/ Requeue \/ PollReset \/ FinishReset \/ LoopRequeue
    BY <1>1, <2>2, <2>6, ResetKeepsStep
  <2>7. CASE Overflow
    BY <1>1, <2>2, <2>7, OverflowKeepsStep
  <2>8. CASE CountByte
    BY <1>1, <2>2, <2>8, CountKeepsStep
  <2>9. CASE SeeBreak
    BY <1>1, <2>2, <2>9, BreakKeepsStep
  <2>10. CASE ReadTelegram
    BY <1>1, <2>2, <2>10, ReadKeepsStep
  <2>11. CASE \/ \E device \in Attached : AnswerFor(device)
              \/ HandOver \/ FinishWrite
    BY <1>1, <2>2, <2>11, OthersKeepStep
       DEF AnswerFor, HandOver, ControllerProcesses, Write, FinishWrite
  <2>12. CASE \/ \E device \in Device : Begin(Poll(device))
              \/ \E size \in Telegrams : Begin(Telegram(size))
              \/ \E device \in Attached : Enqueue(device)
              \/ Abandon \/ UNCHANGED busVars
    BY <1>1, <2>2, <2>12, OthersKeepStep DEF Begin, Enqueue, Abandon
  <2>13. QED
    BY <1>3, <2>3, <2>4, <2>5, <2>6, <2>7, <2>8, <2>9, <2>10, <2>11, <2>12
       DEF Next, UartStep
<1>4. QED
  BY <1>2, <1>3

\* Bytes, events and count stay matched, and between the halves of a reset
\* everything stays empty: the invariant behind the next theorem.
THEOREM BusInvariant == Spec => []BusInv
BY BusInvInit, BusInvKept, PTL DEF Spec

\* Every telegram the UART task processes is what came between two breaks,
\* and every read finds its bytes, for all sizes of ring and event queue:
\* whatever bytes are lost, whoever gives up in the middle and however often
\* the driver is reset at a poll, as long as no other reset cut a telegram;
\* the first only if no event was dropped since the driver was last emptied.
THEOREM TaskStaysInStep == Spec => []StaysInStep
<1>1. BusInv => StaysInStep
  BY DEF BusInv, Sync, TelegramReady, TelegramWhole, StaysInStep,
         TelegramsAreWhole, ReadsWhatIsThere
<1>2. QED
  BY <1>1, BusInvariant, PTL
=============================================================================
