-------------------------- MODULE MonitoringProofs --------------------------
(***************************************************************************)
(* Proofs about EmsTelegram.tla, Monitoring.tla and Metering.tla, for every *)
(* set of powers and flows, nominal power, interval of publication and      *)
(* length of the queue.                                                     *)
(*                                                                         *)
(* The check sum notices a damaged byte because neither the table nor the   *)
(* exclusive or takes two bytes to one: from the damaged byte on the two    *)
(* sums differ.  A frame is read back part by part: the header tells its    *)
(* kind, and its kind where the type and the data are.  What the loop reads *)
(* out of a window is then what the boiler's memory holds there, and every  *)
(* step of Monitoring is one of Metering or leaves it alone.                *)
(*                                                                         *)
(* MeteredOnce is not inductive: while the nominal power is unknown it says *)
(* nothing of the time since the last reading, which is billed once the     *)
(* nominal power comes.  FullyMetered counts that time at the true power.   *)
(* PartsWithinTotal needs that the boiler's flags exclude each other.       *)
(* Of the packets, that the digits of a size shorter than 65536 bytes add   *)
(* up to it and are as many as the header has room for.                     *)
(***************************************************************************)
EXTENDS Monitoring, FiniteSetTheorems, WellFoundedInduction, TLAPS

-----------------------------------------------------------------------------
(* Bits and bytes *)

LEMMA Weights ==
  /\ Weight(0) = 1 /\ Weight(1) = 2 /\ Weight(2) = 4 /\ Weight(3) = 8
  /\ Weight(4) = 16 /\ Weight(5) = 32 /\ Weight(6) = 64 /\ Weight(7) = 128
BY DEF Weight

LEMMA BytesAre == \A b : b \in Byte <=> b \in Int /\ 0 <= b /\ b <= 255
BY DEF Byte

Bits == [0 .. 7 -> 0 .. 1]

Sum(h) == h[0] + 2 * h[1] + 4 * h[2] + 8 * h[3]
          + 16 * h[4] + 32 * h[5] + 64 * h[6] + 128 * h[7]

\* A byte is the sum of the weights of its bits.
LEMMA SumOfBits ==
  ASSUME NEW b \in Byte
  PROVE  \E h \in Bits : Sum(h) = b /\ \A i \in 0 .. 7 : h[i] = 1 <=> HasBit(b, i)
<1> DEFINE h == [i \in 0 .. 7 |-> (b \div Weight(i)) % 2]
<1>1. b \in Int /\ 0 <= b /\ b <= 255
  BY BytesAre
<1>2. \A n \in Nat \ {0} : (b \div n) % 2 \in 0 .. 1
  BY <1>1
<1>3. h \in Bits
  BY <1>2, Weights DEF Bits
<1>4. \A i \in 0 .. 7 : h[i] = 1 <=> HasBit(b, i)
  BY DEF HasBit
<1>5. Sum(h) = b
  <2>1. /\ h[0] = b - 2 * (b \div 2)
        /\ h[1] = b \div 2 - 2 * (b \div 4)
    BY <1>1, Weights
  <2>2. /\ h[2] = b \div 4 - 2 * (b \div 8)
        /\ h[3] = b \div 8 - 2 * (b \div 16)
    BY <1>1, Weights
  <2>3. /\ h[4] = b \div 16 - 2 * (b \div 32)
        /\ h[5] = b \div 32 - 2 * (b \div 64)
    BY <1>1, Weights
  <2>4. /\ h[6] = b \div 64 - 2 * (b \div 128)
        /\ h[7] = b \div 128
    BY <1>1, Weights
  <2> HIDE DEF h
  <2>5. QED
    BY <1>1, <2>1, <2>2, <2>3, <2>4 DEF Sum
<1>6. QED
  BY <1>3, <1>4, <1>5

LEMMA BitTypes ==
  ASSUME NEW h \in Bits
  PROVE  /\ \A i \in 0 .. 7 : h[i] \in 0 .. 1
         /\ h[0] \in 0 .. 1 /\ h[1] \in 0 .. 1 /\ h[2] \in 0 .. 1
         /\ h[3] \in 0 .. 1 /\ h[4] \in 0 .. 1 /\ h[5] \in 0 .. 1
         /\ h[6] \in 0 .. 1 /\ h[7] \in 0 .. 1
BY DEF Bits

\* The sum tells the bits, from the lowest one on.
LEMMA SumTellsBits ==
  ASSUME NEW h \in Bits, NEW g \in Bits, Sum(h) = Sum(g)
  PROVE  \A i \in 0 .. 7 : h[i] = g[i]
<1> DEFINE a0 == h[0]   a1 == h[1]   a2 == h[2]   a3 == h[3]
           a4 == h[4]   a5 == h[5]   a6 == h[6]   a7 == h[7]
           b0 == g[0]   b1 == g[1]   b2 == g[2]   b3 == g[3]
           b4 == g[4]   b5 == g[5]   b6 == g[6]   b7 == g[7]
<1>1. /\ a0 \in 0 .. 1 /\ a1 \in 0 .. 1 /\ a2 \in 0 .. 1 /\ a3 \in 0 .. 1
      /\ a4 \in 0 .. 1 /\ a5 \in 0 .. 1 /\ a6 \in 0 .. 1 /\ a7 \in 0 .. 1
      /\ b0 \in 0 .. 1 /\ b1 \in 0 .. 1 /\ b2 \in 0 .. 1 /\ b3 \in 0 .. 1
      /\ b4 \in 0 .. 1 /\ b5 \in 0 .. 1 /\ b6 \in 0 .. 1 /\ b7 \in 0 .. 1
  BY BitTypes
<1>2. a0 + 2 * a1 + 4 * a2 + 8 * a3
        + 16 * a4 + 32 * a5 + 64 * a6 + 128 * a7
      = b0 + 2 * b1 + 4 * b2 + 8 * b3
        + 16 * b4 + 32 * b5 + 64 * b6 + 128 * b7
  BY DEF Sum
<1> HIDE DEF a0, a1, a2, a3, a4, a5, a6, a7, b0, b1, b2, b3, b4, b5, b6, b7
<1>3. a0 = b0
  BY <1>1, <1>2
<1>4. a1 = b1
  BY <1>1, <1>2, <1>3
<1>5. a2 = b2
  BY <1>1, <1>2, <1>3, <1>4
<1>6. a3 = b3
  BY <1>1, <1>2, <1>3, <1>4, <1>5
<1>7. a4 = b4
  BY <1>1, <1>2, <1>3, <1>4, <1>5, <1>6
<1>8. a5 = b5
  BY <1>1, <1>2, <1>3, <1>4, <1>5, <1>6, <1>7
<1>9. a6 = b6
  BY <1>1, <1>2, <1>3, <1>4, <1>5, <1>6, <1>7, <1>8
<1>10. a7 = b7
  BY <1>1, <1>2, <1>3, <1>4, <1>5, <1>6, <1>7, <1>8, <1>9
<1>11. QED
  BY <1>3, <1>4, <1>5, <1>6, <1>7, <1>8, <1>9, <1>10
     DEF a0, a1, a2, a3, a4, a5, a6, a7, b0, b1, b2, b3, b4, b5, b6, b7

LEMMA XorBits ==
  ASSUME NEW a \in Byte, NEW b \in Byte
  PROVE  \E d \in Bits :
           /\ Sum(d) = Xor(a, b)
           /\ \A i \in 0 .. 7 : d[i] = 1 <=> (HasBit(a, i) # HasBit(b, i))
<1> DEFINE d == [i \in 0 .. 7 |-> IF HasBit(a, i) = HasBit(b, i) THEN 0 ELSE 1]
<1>1. d \in Bits
  BY DEF Bits
<1>2. \A i \in 0 .. 7 : d[i] = 1 <=> (HasBit(a, i) # HasBit(b, i))
  OBVIOUS
<1>3. \A i \in 0 .. 7 : Differing(a, b, i) = IF d[i] = 1 THEN Weight(i) ELSE 0
  BY DEF Differing
<1>4. d[0] \in 0 .. 1 /\ d[1] \in 0 .. 1 /\ d[2] \in 0 .. 1 /\ d[3] \in 0 .. 1
      /\ d[4] \in 0 .. 1 /\ d[5] \in 0 .. 1 /\ d[6] \in 0 .. 1 /\ d[7] \in 0 .. 1
  BY <1>1, BitTypes
<1> HIDE DEF d
<1>5. /\ Differing(a, b, 0) = d[0] /\ Differing(a, b, 1) = 2 * d[1]
      /\ Differing(a, b, 2) = 4 * d[2] /\ Differing(a, b, 3) = 8 * d[3]
      /\ Differing(a, b, 4) = 16 * d[4] /\ Differing(a, b, 5) = 32 * d[5]
      /\ Differing(a, b, 6) = 64 * d[6] /\ Differing(a, b, 7) = 128 * d[7]
  BY <1>3, <1>4, Weights
<1>6. Sum(d) = Xor(a, b)
  BY <1>4, <1>5 DEF Sum, Xor
<1>7. QED
  BY <1>1, <1>2, <1>6

LEMMA XorByte ==
  ASSUME NEW a \in Byte, NEW b \in Byte
  PROVE  /\ Xor(a, b) \in Byte
         /\ Xor(a, b) % 2 = 0 <=> (HasBit(a, 0) <=> HasBit(b, 0))
<1>1. PICK d \in Bits :
        /\ Sum(d) = Xor(a, b)
        /\ \A i \in 0 .. 7 : d[i] = 1 <=> (HasBit(a, i) # HasBit(b, i))
  BY XorBits
<1>2. d[0] \in 0 .. 1 /\ d[1] \in 0 .. 1 /\ d[2] \in 0 .. 1 /\ d[3] \in 0 .. 1
      /\ d[4] \in 0 .. 1 /\ d[5] \in 0 .. 1 /\ d[6] \in 0 .. 1 /\ d[7] \in 0 .. 1
  BY <1>1, BitTypes
<1>3. 0 <= Sum(d) /\ Sum(d) <= 255 /\ Sum(d) \in Int
  BY <1>2 DEF Sum
<1>4. Sum(d) % 2 = d[0]
  BY <1>2 DEF Sum
<1>5. d[0] = 1 <=> (HasBit(a, 0) # HasBit(b, 0))
  BY <1>1
<1>6. Xor(a, b) \in Byte
  BY <1>1, <1>3, BytesAre
<1>7. Xor(a, b) % 2 = 0 <=> ~(HasBit(a, 0) # HasBit(b, 0))
  BY <1>1, <1>2, <1>4, <1>5
<1>8. HasBit(a, 0) \in BOOLEAN /\ HasBit(b, 0) \in BOOLEAN
  BY DEF HasBit
<1>9. QED
  BY <1>6, <1>7, <1>8

\* Bytes with the same bits are the same.
LEMMA BitsTellByte ==
  ASSUME NEW a \in Byte, NEW b \in Byte,
         \A i \in 0 .. 7 : HasBit(a, i) = HasBit(b, i)
  PROVE  a = b
<1>1. PICK h \in Bits : Sum(h) = a /\ \A i \in 0 .. 7 : h[i] = 1 <=> HasBit(a, i)
  BY SumOfBits
<1>2. PICK g \in Bits : Sum(g) = b /\ \A i \in 0 .. 7 : g[i] = 1 <=> HasBit(b, i)
  BY SumOfBits
<1>3. \A i \in 0 .. 7 : h[i] \in 0 .. 1 /\ g[i] \in 0 .. 1
  BY BitTypes
<1>4. \A i \in 0 .. 7 : h[i] = g[i]
  BY <1>1, <1>2, <1>3
<1>5. Sum(h) = Sum(g)
  BY <1>4 DEF Sum
<1>6. QED
  BY <1>1, <1>2, <1>5

LEMMA XorCommutes ==
  ASSUME NEW a, NEW b
  PROVE  Xor(a, b) = Xor(b, a)
<1>1. \A i : Differing(a, b, i) = Differing(b, a, i)
  BY DEF Differing
<1>2. /\ Differing(a, b, 0) = Differing(b, a, 0)
      /\ Differing(a, b, 1) = Differing(b, a, 1)
      /\ Differing(a, b, 2) = Differing(b, a, 2)
      /\ Differing(a, b, 3) = Differing(b, a, 3)
      /\ Differing(a, b, 4) = Differing(b, a, 4)
      /\ Differing(a, b, 5) = Differing(b, a, 5)
      /\ Differing(a, b, 6) = Differing(b, a, 6)
      /\ Differing(a, b, 7) = Differing(b, a, 7)
  BY <1>1
<1>3. QED
  BY <1>2, Zenon DEF Xor

\* The exclusive or with a byte takes no two bytes to one.
LEMMA XorInjective ==
  ASSUME NEW a \in Byte, NEW b \in Byte, NEW c \in Byte, Xor(a, b) = Xor(a, c)
  PROVE  b = c
<1>1. PICK d \in Bits :
        /\ Sum(d) = Xor(a, b)
        /\ \A i \in 0 .. 7 : d[i] = 1 <=> (HasBit(a, i) # HasBit(b, i))
  BY XorBits
<1>2. PICK e \in Bits :
        /\ Sum(e) = Xor(a, c)
        /\ \A i \in 0 .. 7 : e[i] = 1 <=> (HasBit(a, i) # HasBit(c, i))
  BY XorBits
<1>3. \A i \in 0 .. 7 : d[i] = e[i]
  BY <1>1, <1>2, SumTellsBits
<1>4. \A i : /\ HasBit(a, i) \in BOOLEAN /\ HasBit(b, i) \in BOOLEAN
             /\ HasBit(c, i) \in BOOLEAN
  BY DEF HasBit
<1>5. \A i \in 0 .. 7 : HasBit(b, i) = HasBit(c, i)
  BY <1>1, <1>2, <1>3, <1>4
<1>6. QED
  BY <1>5, BitsTellByte

LEMMA TableTyped == \A c \in Byte : ems_crc_table[c] \in Byte
<1>1. 25 \in Byte
  BY BytesAre
<1>2. ASSUME NEW c \in Byte
      PROVE  ems_crc_table[c] \in Byte
  <2>1. c \in Int /\ 0 <= c /\ c <= 255
    BY BytesAre
  <2>2. CASE c < 128
    <3>1. 2 * c \in Byte
      BY <2>1, <2>2, BytesAre
    <3>2. QED
      BY <2>2, <3>1 DEF ems_crc_table
  <2>3. CASE ~(c < 128)
    <3>1. 2 * c - 256 \in Byte
      BY <2>1, <2>3, BytesAre
    <3>2. Xor(2 * c - 256, 25) \in Byte
      BY <1>1, <3>1, XorByte
    <3>3. QED
      BY <2>3, <3>2 DEF ems_crc_table
  <2>4. QED
    BY <2>2, <2>3
<1>3. QED
  BY <1>2

\* The shift of a byte without its highest bit is even, the polynomial odd.
LEMMA TableInjective ==
  ASSUME NEW c \in Byte, NEW d \in Byte, ems_crc_table[c] = ems_crc_table[d]
  PROVE  c = d
<1>1. /\ c \in Int /\ 0 <= c /\ c <= 255
      /\ d \in Int /\ 0 <= d /\ d <= 255
  BY BytesAre
<1>2. 25 \in Byte /\ HasBit(25, 0)
  BY BytesAre, Weights DEF HasBit
<1>3. ASSUME NEW e \in Byte, ~(e < 128)
      PROVE  /\ 2 * e - 256 \in Byte
             /\ ems_crc_table[e] = Xor(2 * e - 256, 25)
             /\ Xor(2 * e - 256, 25) % 2 # 0
  <2>1. e \in Int /\ 0 <= e /\ e <= 255
    BY BytesAre
  <2>2. 2 * e - 256 \in Byte
    BY <1>3, <2>1, BytesAre
  <2>3. ~HasBit(2 * e - 256, 0)
    BY <2>1, Weights DEF HasBit
  <2>4. Xor(2 * e - 256, 25) % 2 # 0
    BY <1>2, <2>2, <2>3, XorByte
  <2>5. QED
    BY <1>3, <2>2, <2>4 DEF ems_crc_table
<1>4. ASSUME NEW e \in Byte, e < 128
      PROVE  ems_crc_table[e] = 2 * e /\ (2 * e) % 2 = 0
  <2>1. e \in Int
    BY BytesAre
  <2>2. QED
    BY <1>4, <2>1 DEF ems_crc_table
<1>5. CASE c < 128 /\ d < 128
  BY <1>1, <1>4, <1>5
<1>6. CASE ~(c < 128) /\ ~(d < 128)
  <2>1. Xor(25, 2 * c - 256) = Xor(25, 2 * d - 256)
    BY <1>3, <1>6, XorCommutes
  <2>2. 2 * c - 256 = 2 * d - 256
    BY <1>2, <1>3, <1>6, <2>1, XorInjective
  <2>3. QED
    BY <1>1, <2>2
<1>7. CASE c < 128 /\ ~(d < 128)
  BY <1>3, <1>4, <1>7
<1>8. CASE ~(c < 128) /\ d < 128
  BY <1>3, <1>4, <1>8
<1>9. QED
  BY <1>5, <1>6, <1>7, <1>8

-----------------------------------------------------------------------------
(* The check sum *)

\* Induction over the numbers up to n, for a set.
LEMMA UpTo ==
  ASSUME NEW n \in Nat, NEW T, 0 \in T, \A k \in 1 .. n : k - 1 \in T => k \in T
  PROVE  0 .. n \subseteq T
<1> DEFINE Missing == {k \in 0 .. n : k \notin T}
<1>1. SUFFICES ASSUME Missing # {} PROVE FALSE
  OBVIOUS
<1>2. PICK m \in Missing : \A k \in Missing : ~(k < m)
  <2>1. PICK m \in Missing : \A k \in Missing : <<k, m>> \notin OpToRel(<, Nat)
    <3>1. Missing \subseteq Nat
      OBVIOUS
    <3> HIDE DEF Missing
    <3>2. QED
      BY <1>1, <3>1, NatLessThanWellFounded, WFMin
  <2>2. \A k \in Missing : k \in Nat
    OBVIOUS
  <2> HIDE DEF Missing
  <2>3. QED
    BY <2>1, <2>2 DEF OpToRel
<1>3. m \in 1 .. n /\ m - 1 \in 0 .. n /\ m - 1 < m
  BY <1>2
<1>4. QED
  BY <1>2, <1>3

CrcAfter(bytes, crc, n) ==
  IF n = 0 THEN 0 ELSE Xor(ems_crc_table[crc[n - 1]], bytes[n])

AreCrcs(bytes, crc) ==
  crc = [n \in 0 .. Len(bytes) |-> CrcAfter(bytes, crc, n)]

LEMMA CrcChosen ==
  ASSUME NEW bytes
  PROVE  calculateCRC(bytes) =
           (CHOOSE crc : AreCrcs(bytes, crc))[Len(bytes)]
BY Zenon DEF calculateCRC, AreCrcs, CrcAfter

\* calculateCRC is defined for every sequence of bytes.
LEMMA CrcsExist ==
  ASSUME NEW bytes \in Seq(Byte)
  PROVE  \E crc : AreCrcs(bytes, crc)
<1> DEFINE CrcsTo(n, crc) == /\ crc \in [0 .. n -> Byte]
                             /\ \A k \in 0 .. n : crc[k] = CrcAfter(bytes, crc, k)
           There == {n \in 0 .. Len(bytes) : \E crc : CrcsTo(n, crc)}
<1>1. Len(bytes) \in Nat /\ \A i \in 1 .. Len(bytes) : bytes[i] \in Byte
  OBVIOUS
<1>2. 0 \in There
  <2> DEFINE crc == [k \in 0 .. 0 |-> 0]
  <2>1. crc \in [0 .. 0 -> Byte]
    BY BytesAre
  <2>2. \A k \in 0 .. 0 : crc[k] = CrcAfter(bytes, crc, k)
    BY DEF CrcAfter
  <2>3. CrcsTo(0, crc)
    BY <2>1, <2>2
  <2>4. 0 \in 0 .. Len(bytes)
    BY <1>1
  <2> HIDE DEF CrcsTo, crc
  <2>5. QED
    BY <2>3, <2>4
<1>3. ASSUME NEW n \in 1 .. Len(bytes), n - 1 \in There
      PROVE  n \in There
  <2>1. PICK crc : CrcsTo(n - 1, crc)
    BY <1>3
  <2> DEFINE more == [k \in 0 .. n |->
                        IF k = n THEN CrcAfter(bytes, crc, n) ELSE crc[k]]
  <2>2. n - 1 \in 0 .. n - 1 /\ crc[n - 1] \in Byte
    BY <1>1, <2>1
  <2>3. CrcAfter(bytes, crc, n) \in Byte
    <3>1. n # 0 /\ bytes[n] \in Byte
      BY <1>1
    <3>2. ems_crc_table[crc[n - 1]] \in Byte
      BY <2>2, TableTyped
    <3>3. QED
      BY <3>1, <3>2, XorByte DEF CrcAfter
  <2>4. more \in [0 .. n -> Byte]
    <3>1. ASSUME NEW k \in 0 .. n PROVE k = n \/ k \in 0 .. n - 1
      BY <1>1
    <3>2. QED
      BY <2>1, <2>3, <3>1
  <2>5. ASSUME NEW k \in 0 .. n
        PROVE  more[k] = CrcAfter(bytes, more, k)
    <3>1. k = n \/ k \in 0 .. n - 1
      BY <1>1
    <3>2. k # 0 => k - 1 \in 0 .. n - 1 /\ k - 1 \in 0 .. n /\ k - 1 # n
      BY <1>1
    <3>3. CrcAfter(bytes, more, k) = CrcAfter(bytes, crc, k)
      BY <3>2 DEF CrcAfter
    <3>4. QED
      BY <2>1, <3>1, <3>3
  <2>6. CrcsTo(n, more)
    BY <2>4, <2>5
  <2>7. n \in 0 .. Len(bytes)
    BY <1>1
  <2> HIDE DEF CrcsTo
  <2>8. QED
    BY <2>6, <2>7
<1>4. 0 .. Len(bytes) \subseteq There
  <2> HIDE DEF There
  <2>1. QED
    BY <1>1, <1>2, <1>3, UpTo
<1>5. Len(bytes) \in There
  BY <1>1, <1>4
<1>6. PICK crc : CrcsTo(Len(bytes), crc)
  <2> HIDE DEF CrcsTo
  <2>1. QED
    BY <1>5
<1>7. AreCrcs(bytes, crc)
  BY <1>6 DEF AreCrcs
<1>8. QED
  BY <1>7

\* The check sum is the last of those of ever longer parts.
LEMMA CrcOf ==
  ASSUME NEW bytes \in Seq(Byte)
  PROVE  \E crc \in [0 .. Len(bytes) -> Byte] :
           /\ calculateCRC(bytes) = crc[Len(bytes)]
           /\ crc[0] = 0
           /\ \A n \in 1 .. Len(bytes) :
                crc[n] = Xor(ems_crc_table[crc[n - 1]], bytes[n])
<1> DEFINE crc == CHOOSE c : AreCrcs(bytes, c)
<1>1. AreCrcs(bytes, crc)
  BY CrcsExist, Zenon
<1>2. calculateCRC(bytes) = crc[Len(bytes)]
  BY CrcChosen, Zenon
<1> HIDE DEF crc
<1>3. Len(bytes) \in Nat /\ \A i \in 1 .. Len(bytes) : bytes[i] \in Byte
  OBVIOUS
<1>4. /\ crc[0] = 0
      /\ \A n \in 1 .. Len(bytes) :
           crc[n] = Xor(ems_crc_table[crc[n - 1]], bytes[n])
  <2>1. \A n \in 0 .. Len(bytes) : crc[n] = CrcAfter(bytes, crc, n)
    BY <1>1 DEF AreCrcs
  <2>2. 0 \in 0 .. Len(bytes)
    BY <1>3
  <2>3. \A n \in 1 .. Len(bytes) : n \in 0 .. Len(bytes) /\ n # 0
    BY <1>3
  <2>4. QED
    BY <2>1, <2>2, <2>3 DEF CrcAfter
<1>5. crc \in [0 .. Len(bytes) -> Byte]
  <2> DEFINE Typed == {n \in 0 .. Len(bytes) : crc[n] \in Byte}
  <2>1. 0 \in Typed
    BY <1>3, <1>4, BytesAre
  <2>2. ASSUME NEW n \in 1 .. Len(bytes), n - 1 \in Typed
        PROVE  n \in Typed
    <3>1. ems_crc_table[crc[n - 1]] \in Byte
      BY <2>2, TableTyped
    <3>2. crc[n] \in Byte
      BY <1>3, <1>4, <3>1, XorByte
    <3>3. n \in 0 .. Len(bytes)
      BY <1>3
    <3>4. QED
      BY <3>2, <3>3
  <2>3. 0 .. Len(bytes) \subseteq Typed
    <3> HIDE DEF Typed
    <3>1. QED
      BY <1>3, <2>1, <2>2, UpTo
  <2>4. \A n \in 0 .. Len(bytes) : crc[n] \in Byte
    BY <2>3
  <2>5. crc = [n \in 0 .. Len(bytes) |-> CrcAfter(bytes, crc, n)]
    BY <1>1 DEF AreCrcs
  <2>6. DOMAIN crc = 0 .. Len(bytes)
    BY <2>5
  <2>7. crc = [n \in 0 .. Len(bytes) |-> crc[n]]
    BY <2>5, <2>6
  <2>8. QED
    BY <2>4, <2>7
<1>6. QED
  BY <1>2, <1>4, <1>5

\* Frames that differ in one byte differ in the sum from there on: neither the
\* table nor the exclusive or takes two values to one.
LEMMA CrcsDiffer ==
  ASSUME NEW a \in Seq(Byte), NEW b \in Seq(Byte), Len(a) = Len(b),
         NEW i \in 1 .. Len(a), a[i] # b[i],
         \A j \in 1 .. Len(a) : j # i => a[j] = b[j]
  PROVE  calculateCRC(a) # calculateCRC(b)
<1>1. PICK c \in [0 .. Len(a) -> Byte] :
        /\ calculateCRC(a) = c[Len(a)]
        /\ c[0] = 0
        /\ \A n \in 1 .. Len(a) : c[n] = Xor(ems_crc_table[c[n - 1]], a[n])
  BY CrcOf
<1>2. PICK d \in [0 .. Len(b) -> Byte] :
        /\ calculateCRC(b) = d[Len(b)]
        /\ d[0] = 0
        /\ \A n \in 1 .. Len(b) : d[n] = Xor(ems_crc_table[d[n - 1]], b[n])
  BY CrcOf
<1>3. /\ Len(a) \in Nat /\ i \in Nat /\ i > 0
      /\ \A n \in 1 .. Len(a) : a[n] \in Byte /\ b[n] \in Byte
  OBVIOUS
<1> DEFINE Told == {n \in 0 .. Len(a) : c[n] = d[n] <=> n < i}
<1>4. 0 \in Told
  BY <1>1, <1>2, <1>3
<1>5. ASSUME NEW n \in 1 .. Len(a), n - 1 \in Told
      PROVE  n \in Told
  <2>1. /\ n \in 0 .. Len(a) /\ n - 1 \in 0 .. Len(a) /\ n \in Int
        /\ c[n - 1] \in Byte /\ d[n - 1] \in Byte
    <3>1. n \in 0 .. Len(a) /\ n - 1 \in 0 .. Len(a) /\ n \in Int
      OBVIOUS
    <3>2. c[n - 1] \in Byte
      BY <3>1
    <3>3. d[n - 1] \in Byte
      BY <3>1
    <3>4. QED
      BY <3>1, <3>2, <3>3
  <2> DEFINE tc == ems_crc_table[c[n - 1]]
             td == ems_crc_table[d[n - 1]]
  <2>2. /\ tc \in Byte /\ td \in Byte /\ a[n] \in Byte /\ b[n] \in Byte
        /\ c[n] = Xor(tc, a[n]) /\ d[n] = Xor(td, b[n])
    BY <1>1, <1>2, <1>3, <2>1, TableTyped
  <2>3. c[n - 1] = d[n - 1] <=> n - 1 < i
    BY <1>5
  <2>4. tc = td => c[n - 1] = d[n - 1]
    BY <2>1, TableInjective
  <2>5. c[n - 1] = d[n - 1] => tc = td
    OBVIOUS
  <2> HIDE DEF tc, td
  <2>6. CASE n < i
    <3>1. a[n] = b[n] /\ n - 1 < i
      BY <1>3, <2>1, <2>6
    <3>2. QED
      BY <2>1, <2>2, <2>3, <2>5, <2>6, <3>1
  <2>7. CASE n = i
    <3>1. tc = td /\ a[n] # b[n]
      BY <1>3, <2>3, <2>5, <2>7
    <3>2. c[n] # d[n]
      BY <2>2, <3>1, XorInjective
    <3>3. QED
      BY <1>3, <2>1, <2>7, <3>2
  <2>8. CASE n > i
    <3>1. tc # td /\ a[n] = b[n]
      BY <1>3, <2>1, <2>3, <2>4, <2>8
    <3>2. c[n] # d[n]
      <4>1. SUFFICES ASSUME c[n] = d[n] PROVE FALSE
        OBVIOUS
      <4>2. Xor(a[n], tc) = Xor(a[n], td)
        BY <2>2, <3>1, <4>1, XorCommutes
      <4>3. QED
        BY <2>2, <3>1, <4>2, XorInjective
    <3>3. QED
      BY <1>3, <2>1, <2>8, <3>2
  <2>9. QED
    BY <1>3, <2>1, <2>6, <2>7, <2>8
<1>6. 0 .. Len(a) \subseteq Told
  <2> HIDE DEF Told
  <2>1. QED
    BY <1>3, <1>4, <1>5, UpTo
<1>7. Len(a) \in Told /\ ~(Len(a) < i)
  BY <1>3, <1>6
<1>8. QED
  BY <1>1, <1>2, <1>7

\* The check sum notices one damaged byte wherever it is, itself included.
LEMMA DamageNoticed ==
  ASSUME NEW raw \in Seq(Byte), Undamaged(raw), NEW bad \in Damaged(raw)
  PROVE  ~Undamaged(bad)
<1>1. PICK i \in DOMAIN raw, b \in Byte : bad = [raw EXCEPT ![i] = b]
  BY DEF Damaged
<1>2. b # raw[i]
  BY <1>1 DEF Damaged
<1>3. /\ i \in 1 .. Len(raw) /\ Len(raw) \in Nat /\ Len(raw) >= 1
      /\ bad \in Seq(Byte) /\ Len(bad) = Len(raw)
      /\ bad[i] = b /\ \A j \in 1 .. Len(raw) : j # i => bad[j] = raw[j]
  BY <1>1
<1> DEFINE n == Len(raw) - 1
<1>4. ASSUME NEW s \in Seq(Byte), Len(s) = Len(raw)
      PROVE  /\ Front(s) \in Seq(Byte) /\ Len(Front(s)) = n
             /\ \A j \in 1 .. n : Front(s)[j] = s[j]
             /\ Last(s) = s[Len(raw)]
  BY <1>3, <1>4 DEF Front, Last
<1>5. CASE i = Len(raw)
  <2>1. \A j \in 1 .. n : j \in 1 .. Len(raw) /\ j # i
    BY <1>3, <1>5
  <2>2. Front(bad) = Front(raw)
    <3>1. /\ Front(bad) \in Seq(Byte) /\ Len(Front(bad)) = n
          /\ Front(raw) \in Seq(Byte) /\ Len(Front(raw)) = n
          /\ \A j \in 1 .. n : Front(bad)[j] = Front(raw)[j]
      BY <1>3, <1>4, <2>1
    <3> HIDE DEF n
    <3>2. QED
      BY <3>1
  <2>3. QED
    BY <1>2, <1>3, <1>4, <1>5, <2>2 DEF Undamaged
<1>6. CASE i # Len(raw)
  <2>1. /\ i \in 1 .. n /\ Len(raw) # i /\ Len(raw) \in 1 .. Len(raw)
        /\ \A j \in 1 .. n : j \in 1 .. Len(raw)
    BY <1>3, <1>6
  <2>2. Last(bad) = Last(raw)
    BY <1>3, <1>4, <2>1
  <2>3. calculateCRC(Front(bad)) # calculateCRC(Front(raw))
    <3> HIDE DEF n
    <3>1. /\ Front(bad) \in Seq(Byte) /\ Front(raw) \in Seq(Byte)
          /\ Len(Front(bad)) = Len(Front(raw)) /\ i \in 1 .. Len(Front(bad))
          /\ Front(bad)[i] # Front(raw)[i]
          /\ \A j \in 1 .. Len(Front(bad)) :
               j # i => Front(bad)[j] = Front(raw)[j]
      BY <1>2, <1>3, <1>4, <2>1
    <3>2. QED
      BY <3>1, CrcsDiffer
  <2>4. QED
    BY <2>2, <2>3 DEF Undamaged
<1>7. QED
  BY <1>5, <1>6

-----------------------------------------------------------------------------
(* Telegrams and frames *)

Id == {n \in Nat : n < 128}
Word == {n \in Nat : n < 65536}

LEMMA IdsAre == \A n \in Id : n \in Int /\ 0 <= n /\ n < 128
BY DEF Id

LEMMA WordsAre == \A n \in Word : n \in Int /\ 0 <= n /\ n <= 65535
BY DEF Word

\* What a telegram can be: the marks are no part of its ids, 255 says that two
\* bytes of the type follow, and a request asks for one number of bytes.
Message ==
  {t \in [operation : Operations, source : Id, destination : Id,
          offset : Byte, typeId : Word, data : Seq(Byte)] :
     /\ t.typeId # 255
     /\ t.operation = "BROADCAST" <=> t.destination = 0
     /\ t.operation = "READ" => Len(t.data) = 1}

\* What stands between the header and the check sum.
Rest(t) ==
  IF t.operation = "READ" THEN Requested(t) \o TypeBytes(t)
                          ELSE TypeBytes(t) \o t.data

LEMMA MessageTypes ==
  ASSUME NEW t \in Message
  PROVE  /\ t.operation \in Operations /\ t.offset \in Byte /\ t.data \in Seq(Byte)
         /\ t.source \in Int /\ 0 <= t.source /\ t.source < 128
         /\ t.destination \in Int /\ 0 <= t.destination /\ t.destination < 128
         /\ t.typeId \in Word /\ t.typeId # 255
         /\ t.operation = "BROADCAST" <=> t.destination = 0
         /\ t.operation = "READ" => Len(t.data) = 1
<1>1. /\ t \in [operation : Operations, source : Id, destination : Id,
                offset : Byte, typeId : Word, data : Seq(Byte)]
      /\ t.typeId # 255
      /\ t.operation = "BROADCAST" <=> t.destination = 0
      /\ t.operation = "READ" => Len(t.data) = 1
  BY Zenon DEF Message
<1>2. /\ t.operation \in Operations /\ t.offset \in Byte /\ t.data \in Seq(Byte)
      /\ t.source \in Id /\ t.destination \in Id /\ t.typeId \in Word
  BY <1>1, Zenon
<1>3. /\ t.source \in Int /\ 0 <= t.source /\ t.source < 128
      /\ t.destination \in Int /\ 0 <= t.destination /\ t.destination < 128
  BY <1>2, IdsAre, Zenon
<1>4. QED
  BY <1>1, <1>2, <1>3, Zenon

LEMMA MarkAdds ==
  ASSUME NEW id \in Int, 0 <= id, id < 128
  PROVE  Marked(id) = id + 128 /\ id \in Byte /\ Marked(id) \in Byte
<1>1. ~HasBit(id, 7)
  BY Weights DEF HasBit
<1>2. QED
  BY <1>1, BytesAre DEF Marked

LEMMA HeaderTyped ==
  ASSUME NEW t \in Message
  PROVE  /\ Header(t) \in Seq(Byte) /\ Len(Header(t)) = 4
         /\ Header(t)[1] = Marked(t.source)
         /\ Header(t)[2] = IF t.operation = "READ" THEN Marked(t.destination)
                                                   ELSE t.destination
         /\ Header(t)[3] = IF isEms2(t) THEN 255 ELSE t.typeId
         /\ Header(t)[4] = t.offset
<1>1. Marked(t.source) \in Byte
  BY MessageTypes, MarkAdds
<1>2. t.destination \in Byte /\ Marked(t.destination) \in Byte
  BY MessageTypes, MarkAdds
<1>3. (IF isEms2(t) THEN 255 ELSE t.typeId) \in Byte
  BY MessageTypes, WordsAre, BytesAre DEF isEms2
<1>4. t.operation = "READ" => t.destination # 0
  BY MessageTypes
<1>5. t.offset \in Byte
  BY MessageTypes
<1>6. QED
  BY <1>1, <1>2, <1>3, <1>4, <1>5 DEF Header

\* Two bytes give the type of an EMS2 telegram back, its lowest page added.
LEMMA TypeBytesTyped ==
  ASSUME NEW t \in Message
  PROVE  /\ isEms2(t) =>
              /\ TypeBytes(t) \in Seq(Byte) /\ Len(TypeBytes(t)) = 2
              /\ TypeBytes(t)[1] * 256 + TypeBytes(t)[2] + 256 = t.typeId
         /\ ~isEms2(t) => TypeBytes(t) = <<>>
<1>1. CASE isEms2(t)
  <2> DEFINE hi == t.typeId \div 256 - 1
             lo == t.typeId % 256
  <2>1. hi \in Int /\ 0 <= hi /\ hi <= 255 /\ lo \in Int /\ 0 <= lo /\ lo <= 255
    BY <1>1, MessageTypes, WordsAre DEF isEms2
  <2>2. hi * 256 + lo + 256 = t.typeId
    BY MessageTypes, WordsAre
  <2>3. TypeBytes(t) = <<hi, lo>>
    BY <1>1 DEF TypeBytes
  <2>4. hi \in Byte /\ lo \in Byte
    BY <2>1, BytesAre
  <2> HIDE DEF hi, lo
  <2>5. QED
    BY <1>1, <2>2, <2>3, <2>4
<1>2. CASE ~isEms2(t)
  BY <1>2 DEF TypeBytes
<1>3. QED
  BY <1>1, <1>2

LEMMA RestTyped ==
  ASSUME NEW t \in Message
  PROVE  Rest(t) \in Seq(Byte)
<1>1. TypeBytes(t) \in Seq(Byte)
  <2>1. <<>> \in Seq(Byte)
    OBVIOUS
  <2>2. QED
    BY <2>1, TypeBytesTyped, Zenon
<1>2. t.data \in Seq(Byte)
  BY MessageTypes
<1>3. Requested(t) \in Seq(Byte)
  <2>1. CASE t.data = <<>>
    BY <2>1, BytesAre DEF Requested
  <2>2. CASE t.data # <<>>
    BY <1>2, <2>2 DEF Requested
  <2>3. QED
    BY <2>1, <2>2
<1>4. QED
  BY <1>1, <1>2, <1>3 DEF Rest

LEMMA Joins ==
  ASSUME NEW s \in Seq(Byte), NEW r \in Seq(Byte)
  PROVE  /\ s \o r \in Seq(Byte) /\ Len(s \o r) = Len(s) + Len(r)
         /\ \A i \in 1 .. Len(s) : (s \o r)[i] = s[i]
         /\ \A i \in 1 .. Len(r) : (s \o r)[Len(s) + i] = r[i]
OBVIOUS

\* A header of four bytes, a body and a check sum: what is where in the frame.
LEMMA FrameParts ==
  ASSUME NEW h \in Seq(Byte), Len(h) = 4, NEW rest \in Seq(Byte), NEW c \in Byte
  PROVE  LET raw == Append(h \o rest, c)
         IN  /\ raw \in Seq(Byte) /\ Len(raw) = 5 + Len(rest)
             /\ \A i \in 1 .. 4 : raw[i] = h[i]
             /\ \A i \in 1 .. Len(rest) : raw[4 + i] = rest[i]
             /\ SubSeq(raw, 5, Len(raw) - 1) = rest
             /\ Front(raw) = h \o rest /\ Last(raw) = c
<1> DEFINE both == h \o rest
           raw == Append(both, c)
<1>0. Len(rest) \in Nat
  OBVIOUS
<1>5. /\ both \in Seq(Byte) /\ Len(both) = Len(h) + Len(rest)
      /\ \A i \in 1 .. Len(h) : both[i] = h[i]
      /\ \A i \in 1 .. Len(rest) : both[Len(h) + i] = rest[i]
  BY Joins, Zenon
<1> HIDE DEF both
<1>6. /\ both \in Seq(Byte) /\ Len(both) = 4 + Len(rest)
      /\ \A i \in 1 .. 4 : both[i] = h[i]
      /\ \A i \in 1 .. Len(rest) : both[4 + i] = rest[i]
  BY <1>0, <1>5
<1>1. raw \in Seq(Byte) /\ Len(raw) = 5 + Len(rest) /\ Len(rest) \in Nat
  BY <1>0, <1>6
<1>7. \A i \in 1 .. 4 + Len(rest) : raw[i] = both[i]
  BY <1>6
<1>2. \A i \in 1 .. 4 : raw[i] = h[i]
  BY <1>0, <1>6, <1>7
<1>3. \A i \in 1 .. Len(rest) : raw[4 + i] = rest[i]
  BY <1>0, <1>6, <1>7
<1>4. raw[5 + Len(rest)] = c
  BY <1>6
<1> HIDE DEF raw
<1>8. SubSeq(raw, 5, Len(raw) - 1) = rest
  <2> DEFINE part == SubSeq(raw, 5, Len(raw) - 1)
  <2>1. part \in Seq(Byte) /\ Len(part) = Len(rest)
    BY <1>1
  <2>2. \A i \in 1 .. Len(rest) : part[i] = raw[4 + i]
    BY <1>1
  <2> HIDE DEF part
  <2>3. part = rest
    BY <1>3, <2>1, <2>2
  <2>4. QED
    BY <2>3 DEF part
<1>9. Front(raw) = h \o rest
  <2> DEFINE part == Front(raw)
  <2>1. part \in Seq(Byte) /\ Len(part) = 4 + Len(rest)
    BY <1>1 DEF Front
  <2>2. \A i \in 1 .. 4 + Len(rest) : part[i] = raw[i]
    BY <1>1 DEF Front
  <2>3. both \in Seq(Byte) /\ Len(both) = 4 + Len(rest)
    BY <1>6
  <2>4. \A i \in 1 .. 4 + Len(rest) : part[i] = both[i]
    BY <1>7, <2>2
  <2> HIDE DEF part
  <2>5. part = both
    BY <1>1, <2>1, <2>3, <2>4
  <2>6. QED
    BY <2>5 DEF part, both
<1>10. Last(raw) = c
  BY <1>1, <1>4 DEF Last
<1>11. QED
  BY <1>1, <1>2, <1>3, <1>8, <1>9, <1>10, Zenon DEF raw, both

\* A sequence of one.
LEMMA Single ==
  ASSUME NEW s \in Seq(Byte), Len(s) = 1
  PROVE  s # <<>> /\ s[1] \in Byte /\ Head(s) = s[1] /\ <<Head(s)>> = s
<1>1. s # <<>>
  OBVIOUS
<1>2. Head(s) = s[1]
  OBVIOUS
<1>3. s[1] \in Byte
  OBVIOUS
<1>4. <<Head(s)>> = s
  BY <1>2
<1>5. QED
  BY <1>1, <1>2, <1>3, <1>4

\* What a request asks for is its data.
LEMMA RequestedIs ==
  ASSUME NEW t \in Message, t.operation = "READ"
  PROVE  /\ Requested(t) = t.data /\ Requested(t) \in Seq(Byte)
         /\ Len(Requested(t)) = 1 /\ t.data = <<t.data[1]>>
<1>1. t.data \in Seq(Byte) /\ Len(t.data) = 1
  BY MessageTypes, Zenon
<1>2. t.data # <<>> /\ Head(t.data) = t.data[1] /\ <<Head(t.data)>> = t.data
  BY <1>1, Single, Zenon
<1>3. Requested(t) = <<Head(t.data)>>
  BY <1>2, Zenon DEF Requested
<1>4. QED
  BY <1>1, <1>2, <1>3, Zenon

\* What encodeToRawDataWithCRC writes: header, body and a check sum that fits.
LEMMA Encoded ==
  ASSUME NEW t \in Message
  PROVE  LET raw == encodeToRawDataWithCRC(t)
         IN  /\ raw \in Seq(Byte) /\ Len(raw) = 5 + Len(Rest(t))
             /\ \A i \in 1 .. 4 : raw[i] = Header(t)[i]
             /\ \A i \in 1 .. Len(Rest(t)) : raw[4 + i] = Rest(t)[i]
             /\ SubSeq(raw, 5, Len(raw) - 1) = Rest(t)
             /\ Undamaged(raw)
<1> DEFINE body == Header(t) \o Rest(t)
           raw == Append(body, calculateCRC(body))
<1>1. /\ Header(t) \in Seq(Byte) /\ Len(Header(t)) = 4 /\ Rest(t) \in Seq(Byte)
  BY HeaderTyped, RestTyped, Zenon
<1>2. body \in Seq(Byte)
  BY <1>1, Joins, Zenon
<1>3. calculateCRC(body) \in Byte
  <2> HIDE DEF body
  <2>1. PICK crc \in [0 .. Len(body) -> Byte] : calculateCRC(body) = crc[Len(body)]
    BY <1>2, CrcOf, Zenon
  <2>2. Len(body) \in 0 .. Len(body)
    BY <1>2
  <2>3. QED
    BY <2>1, <2>2
<1>4. encodeToRawDataWithCRC(t) = raw
  BY Zenon DEF encodeToRawDataWithCRC, Rest
<1>5. /\ raw \in Seq(Byte) /\ Len(raw) = 5 + Len(Rest(t))
      /\ \A i \in 1 .. 4 : raw[i] = Header(t)[i]
      /\ \A i \in 1 .. Len(Rest(t)) : raw[4 + i] = Rest(t)[i]
      /\ SubSeq(raw, 5, Len(raw) - 1) = Rest(t)
      /\ Front(raw) = body /\ Last(raw) = calculateCRC(body)
  BY <1>1, <1>3, FrameParts, Zenon
<1> HIDE DEF raw, body
<1>6. Undamaged(raw)
  BY <1>5, Zenon DEF Undamaged
<1>7. QED
  BY <1>4, <1>5, <1>6, Zenon

\* The header tells what kind of telegram it is.
LEMMA HeaderTells ==
  ASSUME NEW t \in Message
  PROVE  LET raw == encodeToRawDataWithCRC(t)
         IN  /\ raw[2] = 0 <=> t.operation = "BROADCAST"
             /\ raw[2] >= 128 <=> t.operation = "READ"
             /\ raw[3] # 255 \/ Len(raw) < 6 <=> ~isEms2(t)
             /\ raw[3] # 255 => raw[3] = t.typeId
             /\ raw[1] = Marked(t.source) /\ raw[4] = t.offset
             /\ raw[2] = IF t.operation = "READ" THEN Marked(t.destination)
                                                 ELSE t.destination
<1> DEFINE raw == encodeToRawDataWithCRC(t)
<1>1. /\ Len(raw) = 5 + Len(Rest(t))
      /\ raw[1] = Header(t)[1] /\ raw[2] = Header(t)[2]
      /\ raw[3] = Header(t)[3] /\ raw[4] = Header(t)[4]
  BY Encoded
<1> HIDE DEF raw
<1>2. /\ raw[1] = Marked(t.source) /\ raw[4] = t.offset
      /\ raw[2] = IF t.operation = "READ" THEN Marked(t.destination)
                                          ELSE t.destination
      /\ raw[3] = IF isEms2(t) THEN 255 ELSE t.typeId
  BY <1>1, HeaderTyped
<1>3. Len(Rest(t)) \in Nat
  BY RestTyped
<1>4. raw[2] = 0 <=> t.operation = "BROADCAST"
  BY <1>2, MessageTypes, MarkAdds
<1>5. raw[2] >= 128 <=> t.operation = "READ"
  BY <1>2, MessageTypes, MarkAdds
<1>6. isEms2(t) => Len(Rest(t)) >= 2
  <2>1. SUFFICES ASSUME isEms2(t) PROVE Len(Rest(t)) >= 2
    OBVIOUS
  <2>2. TypeBytes(t) \in Seq(Byte) /\ Len(TypeBytes(t)) = 2
    BY <2>1, TypeBytesTyped
  <2>3. t.data \in Seq(Byte)
    BY MessageTypes
  <2>4. CASE t.operation = "READ"
    <3>2. Requested(t) \in Seq(Byte) /\ Len(Requested(t)) = 1
      BY <2>4, RequestedIs, Zenon
    <3>3. Len(Rest(t)) = Len(Requested(t)) + Len(TypeBytes(t))
      BY <2>2, <2>4, <3>2, Joins, Zenon DEF Rest
    <3>4. QED
      BY <2>2, <3>2, <3>3
  <2>5. CASE t.operation # "READ"
    <3>1. Len(Rest(t)) = Len(TypeBytes(t)) + Len(t.data)
      BY <2>2, <2>3, <2>5, Joins, Zenon DEF Rest
    <3>2. Len(t.data) \in Nat
      BY <2>3
    <3>3. QED
      BY <2>2, <3>1, <3>2
  <2>6. QED
    BY <2>4, <2>5
<1>7. raw[3] # 255 \/ Len(raw) < 6 <=> ~isEms2(t)
  BY <1>1, <1>2, <1>3, <1>6, MessageTypes
<1>8. raw[3] # 255 => raw[3] = t.typeId
  BY <1>2
<1>9. QED
  BY <1>2, <1>4, <1>5, <1>7, <1>8, Zenon DEF raw

\* The fields that depend on the operation and on the kind of type.
LEMMA RestTells ==
  ASSUME NEW t \in Message
  PROVE  LET raw == encodeToRawDataWithCRC(t)
         IN  /\ ~isEms2(t) => SubSeq(raw, 5, Len(raw) - 1) = t.data
             /\ isEms2(t) /\ t.operation = "READ" =>
                  <<raw[5]>> = t.data /\ raw[6] * 256 + raw[7] + 256 = t.typeId
             /\ isEms2(t) /\ t.operation # "READ" =>
                  /\ SubSeq(raw, 7, Len(raw) - 1) = t.data
                  /\ raw[5] * 256 + raw[6] + 256 = t.typeId
<1> DEFINE raw == encodeToRawDataWithCRC(t)
           rest == Rest(t)
           type == TypeBytes(t)
<1>1. /\ raw \in Seq(Byte) /\ Len(raw) = 5 + Len(rest)
      /\ \A i \in 1 .. Len(rest) : raw[4 + i] = rest[i]
      /\ SubSeq(raw, 5, Len(raw) - 1) = rest
  BY Encoded
<1>2. t.data \in Seq(Byte) /\ rest \in Seq(Byte)
  BY MessageTypes, RestTyped, Zenon
<1>3. isEms2(t) => /\ type \in Seq(Byte) /\ Len(type) = 2
                   /\ type[1] * 256 + type[2] + 256 = t.typeId
  BY TypeBytesTyped
<1>4. ASSUME ~isEms2(t)
      PROVE  rest = t.data
  <2>1. type = <<>>
    BY <1>4, TypeBytesTyped
  <2>2. CASE t.operation = "READ"
    <3>1. rest = t.data \o <<>>
      BY <2>1, <2>2, RequestedIs, Zenon DEF Rest
    <3>2. QED
      BY <1>2, <3>1
  <2>3. CASE t.operation # "READ"
    <3>1. rest = <<>> \o t.data
      BY <2>1, <2>3, Zenon DEF Rest
    <3>2. QED
      BY <1>2, <3>1
  <2>4. QED
    BY <2>2, <2>3
<1>5. ASSUME isEms2(t), t.operation = "READ"
      PROVE  <<raw[5]>> = t.data /\ raw[6] * 256 + raw[7] + 256 = t.typeId
  <2>1. rest = t.data \o type
    BY <1>5, RequestedIs, Zenon DEF Rest
  <2>2. Len(t.data) = 1 /\ t.data = <<t.data[1]>>
    BY <1>5, RequestedIs, MessageTypes, Zenon
  <2>3. /\ Len(rest) = 3 /\ rest[1] = t.data[1]
        /\ rest[2] = type[1] /\ rest[3] = type[2]
    <3> HIDE DEF raw, rest, type
    <3> DEFINE data == t.data
               both == data \o type
    <3>1. type \in Seq(Byte) /\ Len(type) = 2
      BY <1>3, <1>5
    <3>2. /\ Len(both) = Len(data) + Len(type)
          /\ \A i \in 1 .. Len(data) : both[i] = data[i]
          /\ \A i \in 1 .. Len(type) : both[Len(data) + i] = type[i]
      BY <1>2, <3>1, Joins, Zenon
    <3>3. rest = both
      BY <2>1
    <3>4. Len(data) = 1
      BY <2>2
    <3> HIDE DEF both, data
    <3>5. /\ Len(both) = 3 /\ both[1] = data[1]
          /\ both[2] = type[1] /\ both[3] = type[2]
      BY <3>1, <3>2, <3>4
    <3>6. QED
      BY <3>3, <3>5 DEF data
  <2> HIDE DEF raw, rest, type
  <2>5. raw[5] = t.data[1] /\ raw[6] = type[1] /\ raw[7] = type[2]
    BY <1>1, <2>3
  <2>6. QED
    BY <1>3, <1>5, <2>2, <2>5
<1>6. ASSUME isEms2(t), t.operation # "READ"
      PROVE  /\ SubSeq(raw, 7, Len(raw) - 1) = t.data
             /\ raw[5] * 256 + raw[6] + 256 = t.typeId
  <2>1. rest = type \o t.data
    BY <1>6, Zenon DEF Rest
  <2>2. /\ Len(rest) = Len(type) + Len(t.data)
        /\ \A i \in 1 .. Len(type) : rest[i] = type[i]
        /\ \A i \in 1 .. Len(t.data) : rest[Len(type) + i] = t.data[i]
    <3> HIDE DEF raw, rest, type
    <3> DEFINE both == type \o t.data
    <3>1. type \in Seq(Byte)
      BY <1>3, <1>6
    <3>2. /\ Len(both) = Len(type) + Len(t.data)
          /\ \A i \in 1 .. Len(type) : both[i] = type[i]
          /\ \A i \in 1 .. Len(t.data) : both[Len(type) + i] = t.data[i]
      BY <1>2, <3>1, Joins, Zenon
    <3>3. rest = both
      BY <2>1
    <3> HIDE DEF both
    <3>4. QED
      BY <3>2, <3>3
  <2> DEFINE size == Len(t.data)
  <2>3. size \in Nat /\ Len(type) = 2
    BY <1>2, <1>3, <1>6
  <2> HIDE DEF raw, rest, type
  <2>4. /\ Len(rest) = 2 + size /\ rest[1] = type[1] /\ rest[2] = type[2]
        /\ \A i \in 1 .. size : rest[2 + i] = t.data[i]
    BY <2>2, <2>3
  <2>5. raw[5] = type[1] /\ raw[6] = type[2]
    <3> HIDE DEF size
    <3>1. 1 \in 1 .. Len(rest) /\ 2 \in 1 .. Len(rest)
      BY <2>3, <2>4
    <3>2. QED
      BY <1>1, <2>4, <3>1
  <2>6. \A i \in 1 .. size : raw[6 + i] = t.data[i]
    <3> HIDE DEF size
    <3>1. ASSUME NEW i \in 1 .. size
          PROVE  raw[6 + i] = t.data[i]
      <4>1. 2 + i \in 1 .. Len(rest) /\ 4 + (2 + i) = 6 + i
        BY <2>3, <2>4
      <4>2. raw[4 + (2 + i)] = rest[2 + i]
        BY <1>1, <4>1
      <4>3. QED
        BY <2>4, <4>1, <4>2
    <3>2. QED
      BY <3>1
  <2>7. SubSeq(raw, 7, Len(raw) - 1) = t.data
    <3> DEFINE part == SubSeq(raw, 7, Len(raw) - 1)
    <3>1. Len(raw) = 7 + size
      BY <1>1, <2>3, <2>4
    <3>2. raw \in Seq(Byte)
      BY <1>1
    <3> HIDE DEF size
    <3>3. part \in Seq(Byte) /\ Len(part) = size
      BY <2>3, <3>1, <3>2
    <3>4. \A i \in 1 .. size : part[i] = raw[6 + i]
      BY <2>3, <3>1, <3>2
    <3> HIDE DEF part
    <3>5. part = t.data
      BY <1>2, <2>6, <3>3, <3>4 DEF size
    <3>6. QED
      BY <3>5 DEF part
  <2>8. QED
    BY <1>3, <1>6, <2>5, <2>7
<1>7. QED
  BY <1>1, <1>4, <1>5, <1>6, Zenon DEF raw

\* encodeToRawDataWithCRC and getFromRawData: an addressee reads what was sent.
LEMMA RoundTrip ==
  ASSUME NEW t \in Message
  PROVE  getFromRawData(encodeToRawDataWithCRC(t)) = AsRead(t)
<1> DEFINE raw == encodeToRawDataWithCRC(t)
           got == getFromRawData(raw)
<1>1. /\ raw[2] = 0 <=> t.operation = "BROADCAST"
      /\ raw[2] >= 128 <=> t.operation = "READ"
      /\ raw[3] # 255 \/ Len(raw) < 6 <=> ~isEms2(t)
      /\ raw[3] # 255 => raw[3] = t.typeId
      /\ raw[1] = Marked(t.source) /\ raw[4] = t.offset
      /\ raw[2] = IF t.operation = "READ" THEN Marked(t.destination)
                                          ELSE t.destination
  BY HeaderTells
<1>2. /\ ~isEms2(t) => SubSeq(raw, 5, Len(raw) - 1) = t.data
      /\ isEms2(t) /\ t.operation = "READ" =>
           <<raw[5]>> = t.data /\ raw[6] * 256 + raw[7] + 256 = t.typeId
      /\ isEms2(t) /\ t.operation # "READ" =>
           /\ SubSeq(raw, 7, Len(raw) - 1) = t.data
           /\ raw[5] * 256 + raw[6] + 256 = t.typeId
  BY RestTells
<1>3. ~isEms2(t) => raw[3] # 255
  <2>1. ~isEms2(t) => raw[3] = t.typeId
    <3>1. raw[3] = Header(t)[3]
      BY Encoded
    <3>2. QED
      BY <3>1, HeaderTyped
  <2>2. QED
    BY <2>1, MessageTypes
<1>4. t.operation \in {"READ", "WRITE", "BROADCAST"}
  BY MessageTypes DEF Operations
<1> HIDE DEF raw
<1>5. got.operation = t.operation
  BY <1>1, <1>4 DEF getFromRawData
<1>6. /\ got.source = Marked(t.source) /\ got.destination = raw[2]
      /\ got.offset = t.offset
  BY <1>1 DEF getFromRawData
<1>7. got.typeId = t.typeId
  BY <1>1, <1>2, <1>3 DEF getFromRawData
<1>8. got.data = t.data
  <2>1. CASE ~isEms2(t)
    <3>1. got.data = SubSeq(raw, 5, Len(raw) - 1)
      BY <1>1, <2>1 DEF getFromRawData
    <3>2. QED
      BY <1>2, <2>1, <3>1, Zenon
  <2>2. CASE isEms2(t) /\ t.operation = "READ"
    <3>1. got.data = <<raw[5]>>
      BY <1>1, <2>2 DEF getFromRawData
    <3>2. QED
      BY <1>2, <2>2, <3>1, Zenon
  <2>3. CASE isEms2(t) /\ t.operation # "READ"
    <3>1. got.data = SubSeq(raw, 7, Len(raw) - 1)
      BY <1>1, <2>3 DEF getFromRawData
    <3>2. QED
      BY <1>2, <2>3, <3>1, Zenon
  <2>4. QED
    BY <2>1, <2>2, <2>3, Zenon
<1>9. got = [operation |-> got.operation, source |-> got.source,
             destination |-> got.destination, offset |-> got.offset,
             typeId |-> got.typeId, data |-> got.data]
  BY DEF getFromRawData
<1>10. AsRead(t) = [operation |-> t.operation, source |-> Marked(t.source),
                    destination |-> raw[2], offset |-> t.offset,
                    typeId |-> t.typeId, data |-> t.data]
  <2>1. t \in [operation : Operations, source : Id, destination : Id,
               offset : Byte, typeId : Word, data : Seq(Byte)]
    BY Zenon DEF Message
  <2> DEFINE read == AsRead(t)
  <2>2. read = [t EXCEPT !.source = Marked(t.source), !.destination = raw[2]]
    BY <1>1, Zenon DEF AsRead
  <2>3. QED
    BY <2>1, <2>2
<1> HIDE DEF got
<1>11. QED
  BY <1>5, <1>6, <1>7, <1>8, <1>9, <1>10 DEF raw, got

-----------------------------------------------------------------------------
(* Every telegram of the controller *)

\* The numbers of the controller's telegrams.
LEMMA Literals ==
  /\ {0, 1, 2, 4, 8, 24, 25, 27, 30, 65, 99, 100, 127, 128, 255} \subseteq Byte
  /\ {0, 8, 24, 25} \subseteq Id
  /\ {2, 4, 209, 228, 230, 231, 233, 234, 239, 256, 736, 767, 65535}
       \subseteq Word \ {255}
<1>1. {0, 1, 2, 4, 8, 24, 25, 27, 30, 65, 99, 100, 127, 128, 255} \subseteq Byte
  BY BytesAre
<1>2. {0, 8, 24, 25} \subseteq Id
  BY DEF Id
<1>3. {2, 4, 209, 228, 230, 231, 233, 234, 239, 256, 736, 767, 65535}
        \subseteq Word \ {255}
  BY DEF Word
<1>4. QED
  BY <1>1, <1>2, <1>3

LEMMA ControllerMakes ==
  ASSUME NEW operation \in {"READ", "WRITE"}, NEW destination \in Id \ {0},
         NEW offset \in Byte, NEW type \in Word \ {255}, NEW data \in Seq(Byte),
         operation = "READ" => Len(data) = 1
  PROVE  EmsTelegram(operation, destination, offset, type, data) \in Message
<1> DEFINE t == EmsTelegram(operation, destination, offset, type, data)
<1>1. DeviceId \in Id
  BY Literals DEF DeviceId
<1>2. operation \in Operations
  BY DEF Operations
<1>3. t \in [operation : Operations, source : Id, destination : Id,
             offset : Byte, typeId : Word, data : Seq(Byte)]
  BY <1>1, <1>2 DEF EmsTelegram
<1>4. /\ t.operation = operation /\ t.destination = destination
      /\ t.typeId = type /\ t.data = data
  BY DEF EmsTelegram
<1> HIDE DEF t
<1>5. /\ t.typeId # 255
      /\ t.operation = "BROADCAST" <=> t.destination = 0
      /\ t.operation = "READ" => Len(t.data) = 1
  BY <1>4
<1>6. QED
  BY <1>3, <1>5, Zenon DEF Message, t

LEMMA ReadMakes ==
  ASSUME NEW destination \in Id \ {0}, NEW offset \in Byte,
         NEW type \in Word \ {255}, NEW b \in Byte
  PROVE  EmsTelegram("READ", destination, offset, type, <<b>>) \in Message
<1> DEFINE data == <<b>>
<1>1. data \in Seq(Byte) /\ Len(data) = 1
  OBVIOUS
<1>2. "READ" \in {"READ", "WRITE"}
  OBVIOUS
<1> HIDE DEF data
<1>3. EmsTelegram("READ", destination, offset, type, data) \in Message
  BY <1>1, <1>2, ControllerMakes, ZenonT(30)
<1>4. QED
  BY <1>3, Zenon DEF data

LEMMA WriteMakes ==
  ASSUME NEW destination \in Id \ {0}, NEW offset \in Byte,
         NEW type \in Word \ {255}, NEW data \in Seq(Byte)
  PROVE  EmsTelegram("WRITE", destination, offset, type, data) \in Message
<1>1. "WRITE" \in {"READ", "WRITE"} /\ "WRITE" # "READ"
  OBVIOUS
<1>2. QED
  BY <1>1, ControllerMakes, Zenon

\* The controller sends nothing that cannot be read back.
LEMMA SentAreMessages == Sent \subseteq Message
<1>1. /\ BoilerId \in Id \ {0} /\ 24 \in Id \ {0}
      /\ 0 \in Byte /\ maxEmsDataLength \in Byte
  BY Literals DEF BoilerId, maxEmsDataLength
<1>2. Requests \subseteq Message
  <2> DEFINE Types == {234, 230, 2, 239, 4}
             most == maxEmsDataLength
  <2>1. /\ \A type \in Types : type \in Word \ {255}
        /\ BoilerId \in Id \ {0} /\ 0 \in Byte /\ most \in Byte
    BY <1>1, Literals
  <2>2. 209 \in Word \ {255} /\ 2 \in Byte
    BY Literals
  <2> HIDE DEF Types, most
  <2>3. \A type \in Types :
          EmsTelegram("READ", BoilerId, 0, type, <<most>>) \in Message
    BY <2>1, ReadMakes, Zenon
  <2>4. EmsTelegram("READ", BoilerId, 0, 209, <<2>>) \in Message
    <3> DEFINE outdoor == 209
               two == 2
    <3>1. /\ BoilerId \in Id \ {0} /\ 0 \in Byte
          /\ outdoor \in Word \ {255} /\ two \in Byte
      BY <1>1, <2>2
    <3> HIDE DEF outdoor, two
    <3>2. EmsTelegram("READ", BoilerId, 0, outdoor, <<two>>) \in Message
      BY <3>1, ReadMakes, Zenon
    <3>3. QED
      BY <3>2 DEF outdoor, two
  <2>5. QED
    BY <2>3, <2>4 DEF Requests, Types, most
<1>3. HeatCommands \subseteq Message
  <2>1. /\ 0 \in Byte /\ 1 \in Byte /\ 100 \in Byte
        /\ \A temperature \in {0, 30, 65, 127, 128, 255} : temperature \in Byte
    BY Literals
  <2>2. \A a, b, c, d, e \in Byte : <<a, b, c, d, e>> \in Seq(Byte)
    OBVIOUS
  <2>3. \A type \in Word \ {255} : \A a, b, c, d, e \in Byte :
          EmsTelegram("WRITE", BoilerId, 0, type, <<a, b, c, d, e>>) \in Message
    BY <1>1, <2>2, WriteMakes, Zenon
  <2> DEFINE setFlow == 736
  <2>4. setFlow \in Word \ {255}
    BY Literals
  <2> HIDE DEF setFlow
  <2>5. \A a, b, c, d, e \in Byte :
          EmsTelegram("WRITE", BoilerId, 0, setFlow, <<a, b, c, d, e>>) \in Message
    BY <2>3, <2>4, Zenon
  <2>6. QED
    BY <2>1, <2>5 DEF HeatCommands, setFlow
<1>4. Settings \subseteq Message
  <2>1. /\ 0 \in Byte /\ 1 \in Byte /\ 2 \in Byte
        /\ 230 \in Word \ {255} /\ 231 \in Word \ {255}
        /\ \A temperature \in {0, 65, 255} : temperature \in Byte
    BY Literals
  <2>2. \A b \in Byte : <<b>> \in Seq(Byte)
    OBVIOUS
  <2>3. \A temperature \in {0, 65, 255} :
          EmsTelegram("WRITE", BoilerId, 1, 230, <<temperature>>) \in Message
    <3> TAKE temperature \in {0, 65, 255}
    <3>1. temperature \in Byte
      BY <2>1
    <3>2. <<temperature>> \in Seq(Byte)
      BY <2>2, <3>1
    <3> DEFINE one == 1
               parameters == 230
    <3>3. /\ BoilerId \in Id \ {0} /\ one \in Byte
          /\ parameters \in Word \ {255}
      BY <1>1, <2>1
    <3> HIDE DEF one, parameters
    <3>4. EmsTelegram("WRITE", BoilerId, one, parameters, <<temperature>>)
            \in Message
      BY <3>2, <3>3, WriteMakes, Zenon
    <3>5. QED
      BY <3>4 DEF one, parameters
  <2>4. <<0, 2, 0>> \in Seq(Byte)
    BY <2>1
  <2>5. EmsTelegram("WRITE", BoilerId, 0, 231, <<0, 2, 0>>) \in Message
    <3> DEFINE external == 231
               data == <<0, 2, 0>>
    <3>1. /\ BoilerId \in Id \ {0} /\ 0 \in Byte
          /\ external \in Word \ {255} /\ data \in Seq(Byte)
      BY <1>1, <2>1, <2>4
    <3> HIDE DEF external, data
    <3>2. EmsTelegram("WRITE", BoilerId, 0, external, data) \in Message
      BY <3>1, WriteMakes, Zenon
    <3>3. QED
      BY <3>2 DEF external, data
  <2>6. QED
    BY <2>3, <2>5 DEF Settings
<1>5. Answers \subseteq Message
  <2>1. /\ 0 \in Byte /\ 1 \in Byte /\ 99 \in Byte /\ 2 \in Word \ {255}
        /\ \A type \in {230, 256, 736, 767, 65535} : type \in Word \ {255}
    BY Literals
  <2>2. /\ <<99, 1, 1, 0, 0, 0, 0, 0, 0, 99>> \in Seq(Byte)
        /\ <<>> \in Seq(Byte)
    BY <2>1
  <2> DEFINE Version == <<99, 1, 1, 0, 0, 0, 0, 0, 0, 99>>
             Types == {230, 256, 736, 767, 65535}
             Askers == {BoilerId, 24}
  <2>3. Version \in Seq(Byte) /\ \A type \in Types : type \in Word \ {255}
    BY <2>1, <2>2
  <2>4. \A asker \in Askers : asker \in Id \ {0}
    BY <1>1
  <2>5. Answers =
          {EmsTelegram("WRITE", asker, 0, 2, Version) : asker \in Askers}
          \cup {EmsTelegram("WRITE", asker, 0, type, <<>>) :
                  asker \in Askers, type \in Types}
    BY DEF Answers
  <2> HIDE DEF Version, Types, Askers
  <2>6. \A asker \in Askers :
          EmsTelegram("WRITE", asker, 0, 2, Version) \in Message
    <3> TAKE asker \in Askers
    <3>1. 0 \in Byte /\ 2 \in Word \ {255}
      BY <2>1
    <3>2. Version \in Seq(Byte) /\ asker \in Id \ {0}
      BY <2>3, <2>4
    <3>3. QED
      BY <3>1, <3>2, WriteMakes, Zenon
  <2>7. \A asker \in Askers, type \in Types :
          EmsTelegram("WRITE", asker, 0, type, <<>>) \in Message
    BY <1>1, <2>2, <2>3, <2>4, WriteMakes, Zenon
  <2>8. QED
    BY <2>5, <2>6, <2>7
<1>6. QED
  BY <1>2, <1>3, <1>4, <1>5, Zenon DEF Sent

-----------------------------------------------------------------------------
(* Every telegram of the boiler *)

Moment == {Moments[d] : d \in DOMAIN Moments}

\* What the boiler's memory of a type holds, and the type's number.
Memory(s) ==
  CASE s.type = "fastPlus" -> FastPlus(s.m)
    [] s.type = "wwPlus" -> WWPlus(s.m.flow)
    [] s.type = "factory" -> Factory
    [] s.type = "outdoor" -> Outdoor(s.m.outdoor)

TypeId(s) ==
  CASE s.type = "fastPlus" -> 228
    [] s.type = "wwPlus" -> 233
    [] s.type = "factory" -> 4
    [] s.type = "outdoor" -> 209

\* What the boiler says: a window of the memory of one of four types.
LEMMA BodyIs ==
  ASSUME NEW s \in Bodies
  PROVE  \/ /\ s.type = "fastPlus" /\ s.m \in Moment
            /\ \/ s.offset = 0 /\ s.size = 12
               \/ s.offset = 0 /\ s.size = 8
               \/ s.offset = 8 /\ s.size = 4
               \/ s.offset = 11 /\ s.size = 1
         \/ /\ s.type = "wwPlus" /\ s.m.flow \in Flows
            /\ s.offset = 0 /\ (s.size = 11 \/ s.size = 12)
         \/ /\ s.type = "factory"
            /\ s.offset = 0 /\ (s.size = 4 \/ s.size = 5)
         \/ /\ s.type = "outdoor" /\ (s.m.outdoor = -5 \/ s.m.outdoor = 32767)
            /\ s.offset = 0 /\ (s.size = 1 \/ s.size = 2)
<1> DEFINE FastPluses == {Said("fastPlus", Moments[d], c[1], c[2]) :
                            d \in DOMAIN Moments, c \in Cuts}
           WWPluses == {Said("wwPlus", [flow |-> f], 0, n) :
                          f \in Flows, n \in {11, 12}}
           Factories == {Said("factory", [nominal |-> Nominal], 0, n) :
                           n \in {4, 5}}
           Outdoors == {Said("outdoor", [outdoor |-> t], 0, n) :
                          t \in OutdoorTemps, n \in {1, 2}}
<1>0. Bodies = FastPluses \cup WWPluses \cup Factories \cup Outdoors
  BY SMT DEF Bodies
<1>1. CASE s \in FastPluses
  <2>1. PICK d \in DOMAIN Moments, c \in Cuts :
          s = Said("fastPlus", Moments[d], c[1], c[2])
    BY <1>1
  <2>2. Moments[d] \in Moment
    BY Zenon DEF Moment
  <2>3. s.type = "fastPlus" /\ s.m = Moments[d] /\ s.offset = c[1] /\ s.size = c[2]
    BY <2>1 DEF Said
  <2>4. \/ c = <<0, 12>> \/ c = <<0, 8>> \/ c = <<8, 4>> \/ c = <<11, 1>>
    BY DEF Cuts
  <2>5. QED
    BY <2>2, <2>3, <2>4
<1>2. CASE s \in WWPluses
  BY <1>2 DEF Said
<1>3. CASE s \in Factories
  BY <1>3 DEF Said
<1>4. CASE s \in Outdoors
  BY <1>4 DEF Said, OutdoorTemps
<1> HIDE DEF FastPluses, WWPluses, Factories, Outdoors
<1>5. s \in FastPluses \/ s \in WWPluses \/ s \in Factories \/ s \in Outdoors
  BY <1>0
<1>6. QED
  BY <1>1, <1>2, <1>3, <1>4, <1>5

LEMMA ToTelegramIs ==
  ASSUME NEW s \in Bodies, NEW d
  PROVE  ToTelegram(s, d) = Window(d, TypeId(s), Memory(s), s.offset, s.size)
<1>1. \/ s.type = "fastPlus" \/ s.type = "wwPlus" \/ s.type = "factory"
      \/ s.type = "outdoor"
  BY BodyIs
<1>2. QED
  BY <1>1 DEF ToTelegram, Memory, TypeId

LEMMA MomentIs ==
  ASSUME NEW m \in Moment
  PROVE  /\ m.power \in {0, 1}
         /\ m.gas \in BOOLEAN /\ m.pump \in BOOLEAN /\ m.valve \in BOOLEAN
         /\ m.flowTemp = 255 \/ m.flowTemp = 512
<1>1. PICK d \in DOMAIN Moments : m = Moments[d]
  BY Zenon DEF Moment
<1>2. d \in {"idle", "heating", "water"}
  BY DEF Moments
<1>3. /\ m.power \in {0, 1}
      /\ m.gas = TRUE \/ m.gas = FALSE
      /\ m.pump = TRUE \/ m.pump = FALSE
      /\ m.valve = TRUE \/ m.valve = FALSE
      /\ m.flowTemp = 255 \/ m.flowTemp = 512
  BY <1>1, <1>2 DEF Moments
<1>4. QED
  BY <1>3

\* Three flags in one byte can be told apart.
LEMMA FlagsAre ==
  ASSUME NEW gas \in BOOLEAN, NEW pump \in BOOLEAN, NEW valve \in BOOLEAN
  PROVE  LET f == Bit(gas, 0) + Bit(pump, 1) + Bit(valve, 2)
         IN  /\ f \in Byte
             /\ HasBit(f, 0) <=> gas
             /\ HasBit(f, 1) <=> pump
             /\ HasBit(f, 2) <=> valve
<1>1. /\ Bit(gas, 0) = IF gas THEN 1 ELSE 0
      /\ Bit(pump, 1) = IF pump THEN 2 ELSE 0
      /\ Bit(valve, 2) = IF valve THEN 4 ELSE 0
  BY Weights DEF Bit
<1> DEFINE f == Bit(gas, 0) + Bit(pump, 1) + Bit(valve, 2)
<1>2. f = (IF gas THEN 1 ELSE 0) + (IF pump THEN 2 ELSE 0)
            + (IF valve THEN 4 ELSE 0)
  BY <1>1
<1> HIDE DEF f
<1>3. f \in Byte
  BY <1>2, BytesAre
<1>4. HasBit(f, 0) <=> gas
  BY <1>2, Weights DEF HasBit
<1>5. HasBit(f, 1) <=> pump
  BY <1>2, Weights DEF HasBit
<1>6. HasBit(f, 2) <=> valve
  BY <1>2, Weights DEF HasBit
<1>7. QED
  BY <1>3, <1>4, <1>5, <1>6 DEF f

\* Where the fields of UBAMonitorFastPlus lie.
LEMMA FastPlusIs ==
  ASSUME NEW m \in Moment
  PROVE  LET memory == FastPlus(m)
         IN  /\ memory \in Seq(Byte) /\ Len(memory) = 12
             /\ 256 * memory[8] + memory[9] = m.flowTemp
             /\ memory[11] = m.power
             /\ HasBit(memory[12], 0) <=> m.gas
             /\ HasBit(memory[12], 1) <=> m.pump
             /\ HasBit(memory[12], 2) <=> m.valve
<1> DEFINE high == m.flowTemp \div 256
           low == m.flowTemp % 256
           flags == Bit(m.gas, 0) + Bit(m.pump, 1) + Bit(m.valve, 2)
           front == <<0, 45, 72, 0, 0, 200, 65>>
           memory == front \o <<high, low>> \o <<0, m.power, flags>>
<1>1. high \in Byte /\ low \in Byte /\ 256 * high + low = m.flowTemp
  BY MomentIs, BytesAre
<1>2. /\ m.power \in Byte /\ flags \in Byte
      /\ HasBit(flags, 0) <=> m.gas
      /\ HasBit(flags, 1) <=> m.pump
      /\ HasBit(flags, 2) <=> m.valve
  BY MomentIs, FlagsAre, BytesAre
<1>3. front \in Seq(Byte) /\ 0 \in Byte
  BY BytesAre
<1>4. FastPlus(m) = memory
  BY DEF FastPlus, Wide
<1> HIDE DEF high, low, flags
<1>5. <<high, low>> \in Seq(Byte) /\ <<0, m.power, flags>> \in Seq(Byte)
  BY <1>1, <1>2, <1>3
<1>6. memory \in Seq(Byte)
  BY <1>3, <1>5, Joins, Zenon
<1>7. /\ Len(memory) = 12 /\ memory[8] = high /\ memory[9] = low
      /\ memory[11] = m.power /\ memory[12] = flags
  OBVIOUS
<1> HIDE DEF memory
<1>8. QED
  BY <1>1, <1>2, <1>4, <1>6, <1>7

LEMMA WWPlusIs ==
  ASSUME NEW f \in Flows
  PROVE  /\ WWPlus(f) \in Seq(Byte) /\ Len(WWPlus(f)) = 12 /\ WWPlus(f)[12] = f
<1>1. f \in Byte /\ 0 \in Byte
  BY MonitoringAssumption, BytesAre
<1>2. QED
  BY <1>1 DEF WWPlus

LEMMA FactoryIs ==
  /\ Factory \in Seq(Byte) /\ Len(Factory) = 5 /\ Factory[5] = Nominal
<1>1. Nominal \in Byte /\ 0 \in Byte
  BY MonitoringAssumption, BytesAre
<1>2. QED
  BY <1>1 DEF Factory

\* A negative temperature comes back from two bytes.
LEMMA OutdoorIs ==
  ASSUME NEW t \in {-5, 32767}
  PROVE  LET memory == Outdoor(t)
             v == 256 * memory[1] + memory[2]
         IN  /\ memory \in Seq(Byte) /\ Len(memory) = 2 /\ v \in Int
             /\ t = IF v < 32768 THEN v ELSE v - 65536
<1>1. t % 65536 = IF t = -5 THEN 65531 ELSE 32767
  OBVIOUS
<1> DEFINE high == (t % 65536) \div 256
           low == (t % 65536) % 256
<1>2. high \in Byte /\ low \in Byte /\ 256 * high + low = t % 65536
  BY <1>1, BytesAre
<1>3. Outdoor(t) = <<high, low>>
  BY DEF Outdoor, Wide
<1> HIDE DEF high, low
<1>4. QED
  BY <1>1, <1>2, <1>3

\* Every window lies in its memory.
LEMMA MemoryIs ==
  ASSUME NEW s \in Bodies
  PROVE  /\ Memory(s) \in Seq(Byte) /\ TypeId(s) \in Word \ {255}
         /\ s.offset \in Nat /\ s.size \in Nat /\ s.offset \in Byte
         /\ s.offset + s.size <= Len(Memory(s))
<1>1. CASE s.type = "fastPlus" /\ s.m \in Moment
  <2>1. /\ Memory(s) = FastPlus(s.m) /\ TypeId(s) = 228
    BY <1>1 DEF Memory, TypeId
  <2>2. Memory(s) \in Seq(Byte) /\ Len(Memory(s)) = 12
    BY <1>1, <2>1, FastPlusIs
  <2>3. /\ s.offset \in Nat /\ s.size \in Nat /\ s.offset \in Byte
        /\ s.offset + s.size <= 12
    BY <1>1, BodyIs, BytesAre
  <2>4. TypeId(s) \in Word \ {255}
    BY <2>1 DEF Word
  <2>5. QED
    BY <2>2, <2>3, <2>4
<1>2. CASE s.type = "wwPlus" /\ s.m.flow \in Flows
  <2>1. /\ Memory(s) = WWPlus(s.m.flow) /\ TypeId(s) = 233
    BY <1>2 DEF Memory, TypeId
  <2>2. Memory(s) \in Seq(Byte) /\ Len(Memory(s)) = 12
    BY <1>2, <2>1, WWPlusIs
  <2>3. /\ s.offset \in Nat /\ s.size \in Nat /\ s.offset \in Byte
        /\ s.offset + s.size <= 12
    BY <1>2, BodyIs, BytesAre
  <2>4. TypeId(s) \in Word \ {255}
    BY <2>1 DEF Word
  <2>5. QED
    BY <2>2, <2>3, <2>4
<1>3. CASE s.type = "factory"
  <2>1. /\ Memory(s) = Factory /\ TypeId(s) = 4
    BY <1>3 DEF Memory, TypeId
  <2>2. Memory(s) \in Seq(Byte) /\ Len(Memory(s)) = 5
    BY <2>1, FactoryIs
  <2>3. /\ s.offset \in Nat /\ s.size \in Nat /\ s.offset \in Byte
        /\ s.offset + s.size <= 5
    BY <1>3, BodyIs, BytesAre
  <2>4. TypeId(s) \in Word \ {255}
    BY <2>1 DEF Word
  <2>5. QED
    BY <2>2, <2>3, <2>4
<1>4. CASE s.type = "outdoor" /\ s.m.outdoor \in {-5, 32767}
  <2>1. /\ Memory(s) = Outdoor(s.m.outdoor) /\ TypeId(s) = 209
    BY <1>4 DEF Memory, TypeId
  <2>2. Memory(s) \in Seq(Byte) /\ Len(Memory(s)) = 2
    BY <1>4, <2>1, OutdoorIs
  <2>3. /\ s.offset \in Nat /\ s.size \in Nat /\ s.offset \in Byte
        /\ s.offset + s.size <= 2
    BY <1>4, BodyIs, BytesAre
  <2>4. TypeId(s) \in Word \ {255}
    BY <2>1 DEF Word
  <2>5. QED
    BY <2>2, <2>3, <2>4
<1>5. QED
  BY <1>1, <1>2, <1>3, <1>4, BodyIs

\* A part of a memory.
LEMMA PartOf ==
  ASSUME NEW memory \in Seq(Byte), NEW first \in Nat, NEW size \in Nat,
         first + size <= Len(memory)
  PROVE  LET part == SubSeq(memory, first + 1, first + size)
         IN  /\ part \in Seq(Byte) /\ Len(part) = size
             /\ \A i \in 1 .. size : part[i] = memory[first + i]
OBVIOUS

\* The boiler's telegrams are of those that are read back.
LEMMA ToTelegramTyped ==
  ASSUME NEW s \in Bodies, NEW d \in Destinations
  PROVE  LET t == ToTelegram(s, d)
         IN  /\ t \in Message /\ t.operation # "READ"
             /\ t.typeId = TypeId(s) /\ t.offset = s.offset
             /\ t.data = SubSeq(Memory(s), s.offset + 1, s.offset + s.size)
<1> DEFINE data == SubSeq(Memory(s), s.offset + 1, s.offset + s.size)
           operation == IF d = 0 THEN "BROADCAST" ELSE "WRITE"
           t == Window(d, TypeId(s), Memory(s), s.offset, s.size)
<1>1. data \in Seq(Byte)
  BY MemoryIs, PartOf
<1>2. d \in Id
  BY Literals DEF Destinations, DeviceId, Id
<1>3. BoilerId \in Id
  BY Literals DEF BoilerId
<1>4. /\ operation \in Operations /\ operation # "READ"
      /\ operation = "BROADCAST" <=> d = 0
  BY DEF Operations
<1>5. t = [operation |-> operation, source |-> BoilerId, destination |-> d,
           offset |-> s.offset, typeId |-> TypeId(s), data |-> data]
  BY DEF Window
<1>6. ToTelegram(s, d) = t
  BY ToTelegramIs, Zenon
<1> HIDE DEF t, data, operation
<1>7. /\ t.operation = operation /\ t.destination = d /\ t.typeId = TypeId(s)
      /\ t.offset = s.offset /\ t.data = data
  BY <1>5
<1>8. t \in [operation : Operations, source : Id, destination : Id,
             offset : Byte, typeId : Word, data : Seq(Byte)]
  BY <1>1, <1>2, <1>3, <1>4, <1>5, MemoryIs
<1>9. t.typeId # 255
  BY <1>7, MemoryIs
<1>10. t \in Message
  BY <1>4, <1>7, <1>8, <1>9, Zenon DEF Message
<1>11. QED
  BY <1>4, <1>6, <1>7, <1>10, Zenon DEF data

\* A window keeps its type, place and bytes on the way to the processors.
LEMMA ReadAsSaid ==
  ASSUME NEW s \in Bodies, NEW d \in Destinations
  PROVE  LET t == AsRead(ToTelegram(s, d))
         IN  /\ t.typeId = TypeId(s) /\ t.offset = s.offset
             /\ t.data = SubSeq(Memory(s), s.offset + 1, s.offset + s.size)
<1> DEFINE t == ToTelegram(s, d)
<1>0. /\ t \in Message /\ t.typeId = TypeId(s) /\ t.offset = s.offset
      /\ t.data = SubSeq(Memory(s), s.offset + 1, s.offset + s.size)
  BY ToTelegramTyped, Zenon
<1> HIDE DEF t
<1>1. t \in [operation : Operations, source : Id, destination : Id,
             offset : Byte, typeId : Word, data : Seq(Byte)]
  BY <1>0, Zenon DEF Message
<1>2. /\ AsRead(t).typeId = t.typeId /\ AsRead(t).offset = t.offset
      /\ AsRead(t).data = t.data
  BY <1>1 DEF AsRead
<1>3. QED
  BY <1>0, <1>2, Zenon DEF t

\* What waits is a window of the boiler's, as it was said.
LEMMA QueueableIs ==
  ASSUME NEW entry \in Queueable
  PROVE  /\ entry.said \in Bodies
         /\ \E d \in Destinations :
              entry.telegram = AsRead(ToTelegram(entry.said, d))
<1>1. PICK p \in Telegrams :
        entry = [said |-> p[1], telegram |-> getFromRawData(p[2])]
  BY DEF Queueable
<1>2. PICK s \in Bodies, d \in Destinations : p = <<s, OnTheBus(s, d)>>
  BY DEF Telegrams
<1>3. entry.said = s /\ entry.telegram = getFromRawData(OnTheBus(s, d))
  BY <1>1, <1>2
<1>4. ToTelegram(s, d) \in Message
  BY ToTelegramTyped, Zenon
<1>5. getFromRawData(OnTheBus(s, d)) = AsRead(ToTelegram(s, d))
  BY <1>4, RoundTrip, Zenon DEF OnTheBus
<1>6. QED
  BY <1>3, <1>5, Zenon

-----------------------------------------------------------------------------
(* The wire *)

LEMMA EverySentIsRead == SentIsRead
<1> SUFFICES ASSUME NEW t \in Sent
             PROVE  LET raw == encodeToRawDataWithCRC(t)
                    IN  Undamaged(raw) /\ getFromRawData(raw) = AsRead(t)
  BY Zenon DEF SentIsRead
<1>1. t \in Message
  BY SentAreMessages
<1>2. QED
  BY <1>1, Encoded, RoundTrip, Zenon

LEMMA EveryDamageIsSeen == DamageIsSeen
<1> SUFFICES ASSUME NEW raw \in {OnTheBus(s, 0) : s \in Bodies}
                       \cup {encodeToRawDataWithCRC(t) : t \in HeatCommands},
                    NEW bad \in Damaged(raw)
             PROVE  ~Undamaged(bad)
  BY Zenon DEF DamageIsSeen
<1>1. PICK t \in Message : raw = encodeToRawDataWithCRC(t)
  <2>1. CASE raw \in {OnTheBus(s, 0) : s \in Bodies}
    <3>1. PICK s \in Bodies : raw = OnTheBus(s, 0)
      BY <2>1
    <3>2. 0 \in Destinations
      BY DEF Destinations
    <3>3. QED
      BY <3>1, <3>2, ToTelegramTyped, Zenon DEF OnTheBus
  <2>2. CASE raw \in {encodeToRawDataWithCRC(t) : t \in HeatCommands}
    <3>1. HeatCommands \subseteq Message
      BY SentAreMessages DEF Sent
    <3>2. QED
      BY <2>2, <3>1
  <2>3. QED
    BY <2>1, <2>2
<1>2. raw \in Seq(Byte) /\ Undamaged(raw)
  BY <1>1, Encoded, Zenon
<1>3. QED
  BY <1>2, DamageNoticed, Zenon

Inbox == inbox \in Seq(Queueable)

\* telegramsToProcess_ holds decoded telegrams only.
LEMMA InboxKept == Inbox /\ [MonitorNext]_monitorVars => Inbox'
<1> SUFFICES ASSUME inbox \in Seq(Queueable), [MonitorNext]_monitorVars
             PROVE  inbox' \in Seq(Queueable)
  BY Zenon DEF Inbox
<1>1. CASE ReceiveTelegram
  <2>1. PICK entry \in Queueable : inbox' = Append(inbox, entry)
    BY <1>1, Zenon DEF ReceiveTelegram
  <2>2. QED
    BY <2>1
<1>2. CASE ProcessTelegram
  <2>1. inbox # <<>> /\ inbox' = Tail(inbox)
    BY <1>2, Zenon DEF ProcessTelegram
  <2>2. QED
    BY <2>1
<1>3. CASE Publication
  BY <1>3, Zenon DEF Publication
<1>4. CASE Restart
  <2>1. inbox' = <<>>
    BY <1>4, Zenon DEF Restart
  <2>2. QED
    BY <2>1
<1>5. CASE PassTime
  BY <1>5, Zenon DEF PassTime
<1>6. CASE UNCHANGED monitorVars
  BY <1>6, Zenon DEF monitorVars
<1>7. QED
  BY <1>1, <1>2, <1>3, <1>4, <1>5, <1>6, Zenon DEF MonitorNext

\* EmsTelegram and processTelegram: every telegram the controller sends and every
\* one of the boiler that waits is read as it was sent, and no frame passes the
\* check sum with one byte damaged.
THEOREM WireTrusted == MonitorSpec => []WireIsTrusted
<1>1. MonitorInit => Inbox
  BY DEF MonitorInit, Inbox
<1>2. Inbox /\ [MonitorNext]_monitorVars => Inbox'
  BY InboxKept
<1>3. Inbox => WireIsTrusted
  <2> SUFFICES ASSUME inbox \in Seq(Queueable)
               PROVE  WireIsTrusted
    BY Zenon DEF Inbox
  <2>1. \A i \in DOMAIN inbox : inbox[i] \in Queueable
    OBVIOUS
  <2>2. \A i \in DOMAIN inbox :
          \E d \in Destinations :
            inbox[i].telegram = AsRead(ToTelegram(inbox[i].said, d))
    BY <2>1, QueueableIs, Zenon
  <2>3. QED
    BY <2>2, EverySentIsRead, EveryDamageIsSeen, Zenon DEF WireIsTrusted
<1>4. QED
  BY <1>1, <1>2, <1>3, PTL DEF MonitorSpec

-----------------------------------------------------------------------------
(* What the processors find in a window *)

\* The window has all of the n bytes from start on.
Covers(s, start, n) == s.offset <= start /\ start + n <= s.offset + s.size

\* A telegram that carries the window s.
Bears(t, s) ==
  /\ t.typeId = TypeId(s) /\ t.offset = s.offset
  /\ t.data = SubSeq(Memory(s), s.offset + 1, s.offset + s.size)

LEMMA EntryBears ==
  ASSUME NEW entry \in Queueable
  PROVE  entry.said \in Bodies /\ Bears(entry.telegram, entry.said)
<1> DEFINE s == entry.said
           t == entry.telegram
<1>1. PICK d \in Destinations : t = AsRead(ToTelegram(s, d))
  BY QueueableIs, Zenon
<1>2. s \in Bodies
  BY QueueableIs, Zenon
<1> HIDE DEF s, t
<1>3. Bears(t, s)
  BY <1>1, <1>2, ReadAsSaid, Zenon DEF Bears
<1>4. QED
  BY <1>2, <1>3, Zenon DEF s, t

\* getValue finds a field that lies in the window as the boiler has it, and no
\* other.
LEMMA ValueRead ==
  ASSUME NEW s \in Bodies, NEW t, Bears(t, s), NEW start \in Nat, NEW n \in {1, 2}
  PROVE  getValue(t, start, n) =
           IF Covers(s, start, n) THEN {Number(Memory(s), start + 1, n)} ELSE {}
<1> DEFINE memory == Memory(s)
           off == s.offset
           size == s.size
           data == SubSeq(memory, off + 1, off + size)
<1>1. /\ memory \in Seq(Byte) /\ off \in Nat /\ size \in Nat
      /\ off + size <= Len(memory)
  BY MemoryIs
<1> HIDE DEF memory, off, size
<1>2. /\ data \in Seq(Byte) /\ Len(data) = size
      /\ \A i \in 1 .. size : data[i] = memory[off + i]
  BY <1>1, PartOf, Zenon
<1>3. t.offset = off /\ t.data = data
  BY Zenon DEF Bears, off, size, memory
<1> HIDE DEF data
<1>4. Carries(t, start, n) <=> Covers(s, start, n)
  BY <1>1, <1>2, <1>3 DEF Carries, Covers, off, size
<1>5. ASSUME Covers(s, start, n)
      PROVE  Number(data, start - off + 1, n) = Number(memory, start + 1, n)
  <2>1. off <= start /\ start + n <= off + size
    BY <1>5 DEF Covers, off, size
  <2>2. data[start - off + 1] = memory[start + 1]
    <3>1. start - off + 1 \in 1 .. size /\ off + (start - off + 1) = start + 1
      BY <1>1, <2>1
    <3>2. QED
      BY <1>2, <3>1
  <2>3. n = 2 => data[start - off + 1 + 1] = memory[start + 1 + 1]
    <3>1. n = 2 => /\ start - off + 1 + 1 \in 1 .. size
                   /\ off + (start - off + 1 + 1) = start + 1 + 1
      BY <1>1, <2>1
    <3>2. QED
      BY <1>2, <3>1
  <2>4. QED
    BY <2>2, <2>3 DEF Number
<1>6. QED
  BY <1>3, <1>4, <1>5 DEF getValue, memory

LEMMA Inside ==
  ASSUME NEW start \in Nat, NEW n \in {1, 2}, NEW off \in Nat, NEW size \in Nat
  PROVE  (\A i \in 0 .. n - 1 : start + i \in off .. off + size - 1)
           <=> off <= start /\ start + n <= off + size
<1>1. ASSUME \A i \in 0 .. n - 1 : start + i \in off .. off + size - 1
      PROVE  off <= start /\ start + n <= off + size
  <2>1. 0 \in 0 .. n - 1 /\ n - 1 \in 0 .. n - 1
    OBVIOUS
  <2>2. /\ start + 0 \in off .. off + size - 1
        /\ start + (n - 1) \in off .. off + size - 1
    BY <1>1, <2>1
  <2>3. QED
    BY <2>2
<1>2. ASSUME off <= start, start + n <= off + size, NEW i \in 0 .. n - 1
      PROVE  start + i \in off .. off + size - 1
  BY <1>2
<1>3. QED
  BY <1>1, <1>2

Fields == {"flowTemp", "gas", "pump", "heating", "warmWater", "flow", "outdoor"}

LEMMA FieldsAre == DOMAIN Nothing = Fields
BY DEF Nothing, Fields

\* Which fields a window has in full.
LEMMA HoldsIs ==
  ASSUME NEW s \in Bodies
  PROVE  /\ Holds(s, "flowTemp") <=> s.type = "fastPlus" /\ Covers(s, 7, 2)
         /\ \A field \in {"gas", "pump", "heating", "warmWater"} :
              Holds(s, field) <=> s.type = "fastPlus" /\ Covers(s, 11, 1)
         /\ Holds(s, "flow") <=> s.type = "wwPlus" /\ Covers(s, 11, 1)
         /\ Holds(s, "outdoor") <=> s.type = "outdoor" /\ Covers(s, 0, 2)
<1>1. s.offset \in Nat /\ s.size \in Nat
  BY MemoryIs
<1>2. \A field : Holds(s, field) <=>
        /\ Place[field][1] = s.type
        /\ \A i \in 0 .. Place[field][3] - 1 :
             Place[field][2] + i \in s.offset .. s.offset + s.size - 1
  BY Zenon DEF Holds
<1>3. \A start \in Nat, n \in {1, 2} :
        (\A i \in 0 .. n - 1 : start + i \in s.offset .. s.offset + s.size - 1)
          <=> Covers(s, start, n)
  BY <1>1, Inside, Zenon DEF Covers
<1>4. ASSUME NEW field, NEW type, NEW start \in Nat, NEW n \in {1, 2},
             Place[field] = <<type, start, n>>
      PROVE  Holds(s, field) <=> s.type = type /\ Covers(s, start, n)
  <2>1. Place[field][1] = type /\ Place[field][2] = start /\ Place[field][3] = n
    BY <1>4
  <2>2. QED
    BY <1>2, <1>3, <2>1, Zenon
<1>5. /\ Place["flowTemp"] = <<"fastPlus", 7, 2>>
      /\ \A field \in {"gas", "pump", "heating", "warmWater"} :
           Place[field] = <<"fastPlus", 11, 1>>
      /\ Place["flow"] = <<"wwPlus", 11, 1>>
      /\ Place["outdoor"] = <<"outdoor", 0, 2>>
  BY DEF Place
<1>6. QED
  BY <1>4, <1>5

ShownTyped == DOMAIN shown = Fields

\* What a telegram that carries s makes of what is shown.
Whole(s) ==
  \A field \in DOMAIN Nothing :
    shown'[field] =
      CASE Holds(s, field) -> Meant(s, field)
        [] ~Holds(s, field) /\ field = "outdoor" /\ s.type = "outdoor" -> {}
        [] OTHER -> shown[field]

\* The fields one by one: named for the readings of a telegram of each type.
LEMMA WholeIf ==
  ASSUME NEW s,
         \A field \in Fields :
           /\ Holds(s, field) => shown'[field] = Meant(s, field)
           /\ ~Holds(s, field) /\ field = "outdoor" /\ s.type = "outdoor" =>
                shown'[field] = {}
           /\ ~Holds(s, field) /\ ~(field = "outdoor" /\ s.type = "outdoor") =>
                shown'[field] = shown[field]
  PROVE  Whole(s)
<1>1. SUFFICES ASSUME NEW field \in Fields
               PROVE  shown'[field] =
                        CASE Holds(s, field) -> Meant(s, field)
                          [] /\ ~Holds(s, field) /\ field = "outdoor"
                             /\ s.type = "outdoor" -> {}
                          [] OTHER -> shown[field]
  BY FieldsAre, Zenon DEF Whole
<1>2. CASE Holds(s, field)
  BY <1>2
<1>3. CASE ~Holds(s, field) /\ field = "outdoor" /\ s.type = "outdoor"
  BY <1>3
<1>4. CASE ~Holds(s, field) /\ ~(field = "outdoor" /\ s.type = "outdoor")
  BY <1>4
<1>5. QED
  BY <1>2, <1>3, <1>4

\* UBAMonitorFastPlus: the flow temperature, the power and the flags.
LEMMA FastPlusRead ==
  ASSUME NEW s \in Bodies, s.type = "fastPlus", NEW t, Bears(t, s)
  PROVE  /\ getValue(t, 7, 2) = IF Covers(s, 7, 2) THEN {s.m.flowTemp} ELSE {}
         /\ getValue(t, 10, 1) = IF Covers(s, 10, 1) THEN {s.m.power} ELSE {}
         /\ getBit(t, 11, 0) = IF Covers(s, 11, 1) THEN {s.m.gas} ELSE {}
         /\ getBit(t, 11, 1) = IF Covers(s, 11, 1) THEN {s.m.pump} ELSE {}
         /\ getBit(t, 11, 2) = IF Covers(s, 11, 1) THEN {s.m.valve} ELSE {}
<1> DEFINE memory == Memory(s)
<1>1. s.m \in Moment
  BY BodyIs
<1>2. memory = FastPlus(s.m)
  BY DEF Memory
<1>3. /\ 256 * memory[8] + memory[9] = s.m.flowTemp
      /\ memory[11] = s.m.power
      /\ HasBit(memory[12], 0) <=> s.m.gas
      /\ HasBit(memory[12], 1) <=> s.m.pump
      /\ HasBit(memory[12], 2) <=> s.m.valve
  BY <1>1, <1>2, FastPlusIs
<1> HIDE DEF memory
<1>4. /\ Number(memory, 7 + 1, 2) = s.m.flowTemp
      /\ Number(memory, 10 + 1, 1) = s.m.power
      /\ Number(memory, 11 + 1, 1) = memory[12]
  BY <1>3 DEF Number
<1>5. \A start \in Nat, n \in {1, 2} :
        getValue(t, start, n) =
          IF Covers(s, start, n) THEN {Number(memory, start + 1, n)} ELSE {}
  BY ValueRead, Zenon DEF memory
<1>6. /\ getValue(t, 7, 2) = IF Covers(s, 7, 2) THEN {s.m.flowTemp} ELSE {}
      /\ getValue(t, 10, 1) = IF Covers(s, 10, 1) THEN {s.m.power} ELSE {}
      /\ getValue(t, 11, 1) = IF Covers(s, 11, 1) THEN {memory[12]} ELSE {}
  BY <1>4, <1>5
<1>7. /\ s.m.gas \in BOOLEAN /\ s.m.pump \in BOOLEAN /\ s.m.valve \in BOOLEAN
  BY <1>1, MomentIs
<1>8. ASSUME NEW bit \in {0, 1, 2}, NEW b \in BOOLEAN, HasBit(memory[12], bit) <=> b
      PROVE  getBit(t, 11, bit) = IF Covers(s, 11, 1) THEN {b} ELSE {}
  <2>1. HasBit(memory[12], bit) = b
    BY <1>8 DEF HasBit
  <2>2. getBit(t, 11, bit) = {HasBit(v, bit) : v \in getValue(t, 11, 1)}
    BY Zenon DEF getBit
  <2>3. CASE Covers(s, 11, 1)
    <3>1. getValue(t, 11, 1) = {memory[12]}
      BY <1>6, <2>3, Zenon
    <3>2. getBit(t, 11, bit) = {HasBit(memory[12], bit)}
      BY <2>2, <3>1, Zenon
    <3>3. QED
      BY <2>1, <2>3, <3>2, Zenon
  <2>4. CASE ~Covers(s, 11, 1)
    BY <1>6, <2>2, <2>4
  <2>5. QED
    BY <2>3, <2>4
<1>9. QED
  BY <1>3, <1>6, <1>7, <1>8

\* One lemma for each processor: the readings it sets and the step of Metering
\* it takes.
LEMMA FastPlusProcessed ==
  ASSUME ShownTyped, NEW s \in Bodies, s.type = "fastPlus",
         NEW t, Bears(t, s), FastPlusTelegram(t)
  PROVE  Whole(s) /\ ShownTyped' /\ BoilerReading
<1> DEFINE m == s.m
<1>1. s.m \in Moment
  BY BodyIs
<1>2. /\ m.power \in {0, 1}
      /\ m.gas \in BOOLEAN /\ m.pump \in BOOLEAN /\ m.valve \in BOOLEAN
  BY <1>1, MomentIs
<1>3. /\ getValue(t, 7, 2) = IF Covers(s, 7, 2) THEN {m.flowTemp} ELSE {}
      /\ getValue(t, 10, 1) = IF Covers(s, 10, 1) THEN {m.power} ELSE {}
      /\ getBit(t, 11, 0) = IF Covers(s, 11, 1) THEN {m.gas} ELSE {}
      /\ getBit(t, 11, 1) = IF Covers(s, 11, 1) THEN {m.pump} ELSE {}
      /\ getBit(t, 11, 2) = IF Covers(s, 11, 1) THEN {m.valve} ELSE {}
  BY FastPlusRead
<1> HIDE DEF m
<1>4. /\ HeatingActive(t) = IF Covers(s, 11, 1) THEN {~m.valve /\ m.pump} ELSE {}
      /\ WarmWaterActive(t) = IF Covers(s, 11, 1) THEN {m.gas /\ m.valve} ELSE {}
  <2>1. CASE Covers(s, 11, 1)
    <3>1. getBit(t, 11, 0) = {m.gas} /\ getBit(t, 11, 1) = {m.pump}
          /\ getBit(t, 11, 2) = {m.valve}
      BY <1>3, <2>1, Zenon
    <3>2. /\ HeatingActive(t) = {~m.valve /\ m.pump}
          /\ WarmWaterActive(t) = {m.gas /\ m.valve}
      <4> DEFINE g == m.gas
                 p == m.pump
                 v == m.valve
      <4>1. /\ getBit(t, 11, 0) = {g} /\ getBit(t, 11, 1) = {p}
            /\ getBit(t, 11, 2) = {v}
        BY <3>1, Zenon
      <4> HIDE DEF g, p, v
      <4>2. HeatingActive(t) = {~v /\ p}
        <5>1. \A x : x \in HeatingActive(t) <=>
                \E a \in getBit(t, 11, 2), b \in getBit(t, 11, 1) : x = (~a /\ b)
          BY SMT DEF HeatingActive
        <5>2. \A x : x \in HeatingActive(t) <=> x = (~v /\ p)
          BY <4>1, <5>1
        <5>3. QED
          BY <5>2, Zenon
      <4>3. WarmWaterActive(t) = {g /\ v}
        <5>1. \A x : x \in WarmWaterActive(t) <=>
                \E a \in getBit(t, 11, 0), b \in getBit(t, 11, 2) : x = (a /\ b)
          BY SMT DEF WarmWaterActive
        <5>2. \A x : x \in WarmWaterActive(t) <=> x = (g /\ v)
          BY <4>1, <5>1
        <5>3. QED
          BY <5>2, Zenon
      <4>4. QED
        BY <4>2, <4>3, Zenon DEF g, p, v
    <3>3. QED
      BY <2>1, <3>2, Zenon
  <2>2. CASE ~Covers(s, 11, 1)
    <3>1. getBit(t, 11, 0) = {} /\ getBit(t, 11, 1) = {} /\ getBit(t, 11, 2) = {}
      BY <1>3, <2>2, Zenon
    <3>2. HeatingActive(t) = {} /\ WarmWaterActive(t) = {}
      BY <3>1 DEF HeatingActive, WarmWaterActive
    <3>3. QED
      BY <2>2, <3>2, Zenon
  <2>3. QED
    BY <2>1, <2>2, Zenon
<1>5. shown' = [shown EXCEPT
         !.flowTemp  = UpdateIfSet(shown.flowTemp, getValue(t, 7, 2)),
         !.gas       = UpdateIfSet(shown.gas, getBit(t, 11, 0)),
         !.pump      = UpdateIfSet(shown.pump, getBit(t, 11, 1)),
         !.heating   = UpdateIfSet(shown.heating, HeatingActive(t)),
         !.warmWater = UpdateIfSet(shown.warmWater, WarmWaterActive(t))]
  BY Zenon DEF FastPlusTelegram
<1>6. /\ shown'["flowTemp"] = UpdateIfSet(shown["flowTemp"], getValue(t, 7, 2))
      /\ shown'["gas"] = UpdateIfSet(shown["gas"], getBit(t, 11, 0))
      /\ shown'["pump"] = UpdateIfSet(shown["pump"], getBit(t, 11, 1))
      /\ shown'["heating"] = UpdateIfSet(shown["heating"], HeatingActive(t))
      /\ shown'["warmWater"] = UpdateIfSet(shown["warmWater"], WarmWaterActive(t))
      /\ shown'["flow"] = shown["flow"] /\ shown'["outdoor"] = shown["outdoor"]
      /\ DOMAIN shown' = Fields
  BY <1>5 DEF ShownTyped, Fields
<1>7. \A old, v : UpdateIfSet(old, {v}) = {v} /\ UpdateIfSet(old, {}) = old
  BY DEF UpdateIfSet
<1>8. Whole(s)
  <2>1. /\ Holds(s, "flowTemp") <=> Covers(s, 7, 2)
        /\ \A field \in {"gas", "pump", "heating", "warmWater"} :
             Holds(s, field) <=> Covers(s, 11, 1)
        /\ ~Holds(s, "flow") /\ ~Holds(s, "outdoor")
    BY HoldsIs
  <2>2. Meant(s, "flowTemp") = {m.flowTemp}
    BY DEF Meant, m
  <2>3. Meant(s, "gas") = {m.gas}
    BY DEF Meant, m
  <2>4. Meant(s, "pump") = {m.pump}
    BY DEF Meant, m
  <2>5. Meant(s, "heating") = {~m.valve /\ m.pump}
    <3>1. Meant(s, "heating") = {m.pump /\ ~m.valve}
      BY DEF Meant, m
    <3>2. (m.pump /\ ~m.valve) = (~m.valve /\ m.pump)
      BY Zenon
    <3>3. QED
      BY <3>1, <3>2, Zenon
  <2>6. Meant(s, "warmWater") = {m.gas /\ m.valve}
    BY DEF Meant, m
  <2>7. ASSUME NEW field, NEW got, NEW v, Meant(s, field) = {v},
               shown'[field] = UpdateIfSet(shown[field], got),
               Holds(s, field) => got = {v}, ~Holds(s, field) => got = {}
        PROVE  /\ Holds(s, field) => shown'[field] = Meant(s, field)
               /\ ~Holds(s, field) => shown'[field] = shown[field]
    BY <1>7, <2>7, Zenon
  <2> DEFINE Right(field) ==
               /\ Holds(s, field) => shown'[field] = Meant(s, field)
               /\ ~Holds(s, field) => shown'[field] = shown[field]
  <2>8. Right("flowTemp")
    <3>1. /\ Holds(s, "flowTemp") => getValue(t, 7, 2) = {m.flowTemp}
          /\ ~Holds(s, "flowTemp") => getValue(t, 7, 2) = {}
      BY <1>3, <2>1, Zenon
    <3>2. QED
      BY <1>6, <2>2, <2>7, <3>1, Zenon
  <2>9. Right("gas")
    <3>1. /\ Holds(s, "gas") => getBit(t, 11, 0) = {m.gas}
          /\ ~Holds(s, "gas") => getBit(t, 11, 0) = {}
      BY <1>3, <2>1
    <3>2. QED
      BY <1>6, <2>3, <2>7, <3>1, Zenon
  <2>10. Right("pump")
    <3>1. /\ Holds(s, "pump") => getBit(t, 11, 1) = {m.pump}
          /\ ~Holds(s, "pump") => getBit(t, 11, 1) = {}
      BY <1>3, <2>1
    <3>2. QED
      BY <1>6, <2>4, <2>7, <3>1, Zenon
  <2>11. Right("heating")
    <3>1. /\ Holds(s, "heating") => HeatingActive(t) = {~m.valve /\ m.pump}
          /\ ~Holds(s, "heating") => HeatingActive(t) = {}
      <4>1. Holds(s, "heating") <=> Covers(s, 11, 1)
        BY <2>1
      <4>2. QED
        BY <1>4, <4>1, Zenon
    <3>2. QED
      BY <1>6, <2>5, <2>7, <3>1, Zenon
  <2>12. Right("warmWater")
    <3>1. /\ Holds(s, "warmWater") => WarmWaterActive(t) = {m.gas /\ m.valve}
          /\ ~Holds(s, "warmWater") => WarmWaterActive(t) = {}
      <4>1. Holds(s, "warmWater") <=> Covers(s, 11, 1)
        BY <2>1
      <4>2. QED
        BY <1>4, <4>1, Zenon
    <3>2. QED
      BY <1>6, <2>6, <2>7, <3>1, Zenon
  <2>13. Right("flow") /\ Right("outdoor")
    BY <1>6, <2>1, Zenon
  <2> HIDE DEF Right
  <2>14. \A field \in Fields : Right(field)
    BY <2>8, <2>9, <2>10, <2>11, <2>12, <2>13 DEF Fields
  <2>15. QED
    BY <2>14, WholeIf DEF Right
<1>9. BoilerReading
  <2>1. \/ \E p \in Powers : calculatePowerUsage(p)
        \/ UNCHANGED <<power, powerFor, energy, missed>>
    <3>1. CASE Covers(s, 10, 1)
      <4>1. calculatePowerUsage(m.power)
        <5>1. getValue(t, 10, 1) = {m.power}
          BY <1>3, <3>1, Zenon
        <5>2. \A p \in getValue(t, 10, 1) : p = m.power
          BY <5>1
        <5>3. getValue(t, 10, 1) # {}
          BY <5>1
        <5>4. QED
          BY <5>2, <5>3, Zenon DEF FastPlusTelegram
      <4>2. m.power \in Powers
        BY <1>2, MonitoringAssumption
      <4>3. QED
        BY <4>1, <4>2, Zenon
    <3>2. CASE ~Covers(s, 10, 1)
      <4>1. \A p : p \notin getValue(t, 10, 1)
        BY <1>3, <3>2
      <4>2. QED
        BY <4>1, Zenon DEF FastPlusTelegram
    <3>3. QED
      BY <3>1, <3>2, Zenon
  <2>2. \/ \E gas, pump, valve \in BOOLEAN : SetActive(gas, pump, valve)
        \/ UNCHANGED <<heating, warmWater>>
    <3>1. CASE Covers(s, 11, 1)
      <4>1. \A h \in HeatingActive(t) : h = (~m.valve /\ m.pump)
        BY <1>4, <3>1, Zenon
      <4>2. \A w \in WarmWaterActive(t) : w = (m.gas /\ m.valve)
        BY <1>4, <3>1, Zenon
      <4>3. HeatingActive(t) # {}
        BY <1>4, <3>1
      <4>4. /\ \E h \in HeatingActive(t) : heating' = h
            /\ \E w \in WarmWaterActive(t) : warmWater' = w
        BY <4>3, Zenon DEF FastPlusTelegram
      <4>5. SetActive(m.gas, m.pump, m.valve)
        BY <4>1, <4>2, <4>4, Zenon DEF SetActive
      <4>6. QED
        BY <1>2, <4>5, Zenon
    <3>2. CASE ~Covers(s, 11, 1)
      <4>1. \A h : h \notin HeatingActive(t)
        BY <1>4, <3>2
      <4>2. QED
        BY <4>1, Zenon DEF FastPlusTelegram
    <3>3. QED
      BY <3>1, <3>2, Zenon
  <2>3. UNCHANGED <<nominal, flow, flowFor, water, stream, burned, drawn>>
    BY Zenon DEF FastPlusTelegram
  <2>4. QED
    BY <2>1, <2>2, <2>3, Zenon DEF BoilerReading
<1>10. QED
  BY <1>6, <1>8, <1>9, Zenon DEF ShownTyped

LEMMA WWPlusProcessed ==
  ASSUME ShownTyped, NEW s \in Bodies, s.type = "wwPlus",
         NEW t, Bears(t, s), WWPlusTelegram(t)
  PROVE  /\ Whole(s) /\ ShownTyped'
         /\ (\E f \in Flows : WaterReading(f)) \/ UNCHANGED meterVars
<1> DEFINE f == s.m.flow
           got == getValue(t, 11, 1)
<1>1. f \in Flows
  BY BodyIs
<1>2. Memory(s) = WWPlus(f)
  BY DEF Memory
<1>3. Number(Memory(s), 11 + 1, 1) = f
  BY <1>1, <1>2, WWPlusIs DEF Number
<1>4. got = IF Covers(s, 11, 1) THEN {f} ELSE {}
  BY <1>3, ValueRead
<1>5. shown' = [shown EXCEPT !.flow = UpdateIfSet(shown.flow, got)]
  BY Zenon DEF WWPlusTelegram
<1> HIDE DEF got
<1>6. /\ shown'["flow"] = UpdateIfSet(shown["flow"], got)
      /\ \A field \in Fields : field # "flow" => shown'[field] = shown[field]
      /\ DOMAIN shown' = Fields
  BY <1>5 DEF ShownTyped, Fields
<1>7. Whole(s)
  <2>1. /\ Holds(s, "flow") <=> Covers(s, 11, 1)
        /\ \A field \in Fields : field # "flow" => ~Holds(s, field)
    BY HoldsIs DEF Fields
  <2>2. Meant(s, "flow") = {f}
    BY DEF Meant
  <2>3. IF Holds(s, "flow") THEN shown'["flow"] = Meant(s, "flow")
                            ELSE shown'["flow"] = shown["flow"]
    BY <1>4, <1>6, <2>1, <2>2 DEF UpdateIfSet
  <2>4. \A field \in Fields :
          /\ Holds(s, field) => shown'[field] = Meant(s, field)
          /\ ~(field = "outdoor" /\ s.type = "outdoor")
          /\ ~Holds(s, field) => shown'[field] = shown[field]
    BY <1>6, <2>1, <2>3
  <2>5. QED
    BY <2>4, WholeIf
<1>8. (\E g \in Flows : WaterReading(g)) \/ UNCHANGED meterVars
  <2>1. \A g \in got : g \in Flows
    BY <1>1, <1>4
  <2>2. (\E g \in got : WaterReading(g)) \/ UNCHANGED meterVars
    BY Zenon DEF WWPlusTelegram, got
  <2>3. QED
    BY <2>1, <2>2, Zenon
<1>9. QED
  BY <1>6, <1>7, <1>8, Zenon DEF ShownTyped

LEMMA FactoryProcessed ==
  ASSUME ShownTyped, NEW s \in Bodies, s.type = "factory",
         NEW t, Bears(t, s), FactoryTelegram(t)
  PROVE  /\ Whole(s) /\ ShownTyped'
         /\ \E n \in {0, Nominal} : FactoryReading(n)
<1> DEFINE got == getValue(t, 4, 1)
<1>1. Memory(s) = Factory
  BY DEF Memory
<1>2. Number(Memory(s), 4 + 1, 1) = Nominal
  BY <1>1, FactoryIs DEF Number
<1>3. got = IF Covers(s, 4, 1) THEN {Nominal} ELSE {}
  BY <1>2, ValueRead
<1>4. (\E n \in got : FactoryReading(n)) \/ FactoryReading(0)
  BY Zenon DEF FactoryTelegram
<1> HIDE DEF got
<1>5. \A n \in got : n \in {0, Nominal}
  BY <1>3
<1>6. \E n \in {0, Nominal} : FactoryReading(n)
  <2>1. 0 \in {0, Nominal}
    OBVIOUS
  <2>2. QED
    BY <1>4, <1>5, <2>1, Zenon
<1>7. shown' = shown
  BY Zenon DEF FactoryTelegram
<1>8. \A field \in Fields : ~Holds(s, field)
  BY HoldsIs DEF Fields
<1>9. Whole(s)
  <2>1. ~(s.type = "outdoor")
    OBVIOUS
  <2>2. QED
    BY <1>7, <1>8, <2>1, WholeIf, Zenon
<1>10. QED
  BY <1>6, <1>7, <1>9, Zenon DEF ShownTyped

LEMMA OutdoorProcessed ==
  ASSUME ShownTyped, NEW s \in Bodies, s.type = "outdoor",
         NEW t, Bears(t, s), OutdoorTelegram(t)
  PROVE  Whole(s) /\ ShownTyped' /\ UNCHANGED meterVars
<1> DEFINE temp == s.m.outdoor
           v == Number(Memory(s), 0 + 1, 2)
           got == getSigned(t, 0)
<1>1. temp \in {-5, 32767}
  BY BodyIs
<1>2. Memory(s) = Outdoor(temp)
  BY DEF Memory
<1>3. v \in Int /\ temp = IF v < 32768 THEN v ELSE v - 65536
  <2>1. v = 256 * Memory(s)[1] + Memory(s)[2]
    BY DEF Number
  <2>2. QED
    BY <1>1, <1>2, <2>1, OutdoorIs
<1>4. got = IF Covers(s, 0, 2) THEN {temp} ELSE {}
  <2>1. getValue(t, 0, 2) = IF Covers(s, 0, 2) THEN {v} ELSE {}
    BY ValueRead
  <2> HIDE DEF v, temp
  <2>2. CASE Covers(s, 0, 2)
    BY <1>3, <2>1, <2>2 DEF getSigned
  <2>3. CASE ~Covers(s, 0, 2)
    BY <2>1, <2>3 DEF getSigned
  <2>4. QED
    BY <2>2, <2>3
<1>5. shown' = [shown EXCEPT !.outdoor = {10 * x : x \in got \ {32767, -32768}}]
  BY SMT DEF OutdoorTelegram
<1> HIDE DEF got, v
<1>6. /\ shown'["outdoor"] = {10 * x : x \in got \ {32767, -32768}}
      /\ \A field \in Fields : field # "outdoor" => shown'[field] = shown[field]
      /\ DOMAIN shown' = Fields
  BY <1>5 DEF ShownTyped, Fields
<1>7. Whole(s)
  <2>1. /\ Holds(s, "outdoor") <=> Covers(s, 0, 2)
        /\ \A field \in Fields : field # "outdoor" => ~Holds(s, field)
    BY HoldsIs DEF Fields
  <2>2. Meant(s, "outdoor") = IF temp = 32767 THEN {} ELSE {10 * temp}
    BY DEF Meant
  <2> HIDE DEF temp
  <2>3. Holds(s, "outdoor") => shown'["outdoor"] = Meant(s, "outdoor")
    BY <1>1, <1>4, <1>6, <2>1, <2>2
  <2>4. ~Holds(s, "outdoor") => shown'["outdoor"] = {}
    BY <1>4, <1>6, <2>1
  <2>5. \A field \in Fields :
          /\ Holds(s, field) => shown'[field] = Meant(s, field)
          /\ ~Holds(s, field) /\ field = "outdoor" => shown'[field] = {}
          /\ ~Holds(s, field) /\ field # "outdoor" => shown'[field] = shown[field]
    BY <1>6, <2>1, <2>3, <2>4
  <2>6. QED
    BY <2>5, WholeIf
<1>8. UNCHANGED meterVars
  BY SMT DEF OutdoorTelegram
<1>9. DOMAIN shown' = Fields
  BY <1>6
<1>10. QED
  BY <1>7, <1>8, <1>9, Zenon DEF ShownTyped

\* What the loop does with a telegram that waits.
LEMMA Processed ==
  ASSUME Inbox, ShownTyped, ProcessTelegram
  PROVE  Whole(Head(inbox).said) /\ ShownTyped' /\ [Next]_meterVars
<1> DEFINE s == Head(inbox).said
           t == Head(inbox).telegram
<1>1. Head(inbox) \in Queueable
  <2>1. inbox \in Seq(Queueable)
    BY Zenon DEF Inbox
  <2>2. inbox # <<>>
    BY Zenon DEF ProcessTelegram
  <2>3. QED
    BY <2>1, <2>2
<1>2. s \in Bodies /\ Bears(t, s)
  BY <1>1, EntryBears, Zenon
<1>3. \/ t.typeId = 228 /\ FastPlusTelegram(t)
      \/ t.typeId = 233 /\ WWPlusTelegram(t)
      \/ t.typeId = 4 /\ FactoryTelegram(t)
      \/ t.typeId = 209 /\ OutdoorTelegram(t)
  BY Zenon DEF ProcessTelegram
<1> HIDE DEF s, t
<1>4. t.typeId = TypeId(s)
  BY <1>2, Zenon DEF Bears
<1>5. /\ t.typeId = 228 => s.type = "fastPlus"
      /\ t.typeId = 233 => s.type = "wwPlus"
      /\ t.typeId = 4 => s.type = "factory"
      /\ t.typeId = 209 => s.type = "outdoor"
  <2>1. \/ s.type = "fastPlus" \/ s.type = "wwPlus" \/ s.type = "factory"
        \/ s.type = "outdoor"
    BY <1>2, BodyIs
  <2>2. QED
    BY <1>4, <2>1 DEF TypeId
<1>6. CASE t.typeId = 228 /\ FastPlusTelegram(t)
  <2>1. s.type = "fastPlus" /\ FastPlusTelegram(t)
    BY <1>5, <1>6
  <2>2. Whole(s) /\ ShownTyped' /\ BoilerReading
    BY <1>2, <2>1, FastPlusProcessed, Zenon
  <2>3. QED
    BY <2>2, Zenon DEF Next, s
<1>7. CASE t.typeId = 233 /\ WWPlusTelegram(t)
  <2>1. s.type = "wwPlus" /\ WWPlusTelegram(t)
    BY <1>5, <1>7
  <2>2. /\ Whole(s) /\ ShownTyped'
        /\ (\E f \in Flows : WaterReading(f)) \/ UNCHANGED meterVars
    BY <1>2, <2>1, WWPlusProcessed, Zenon
  <2>3. QED
    BY <2>2, Zenon DEF Next, s
<1>8. CASE t.typeId = 4 /\ FactoryTelegram(t)
  <2>1. s.type = "factory" /\ FactoryTelegram(t)
    BY <1>5, <1>8
  <2>2. /\ Whole(s) /\ ShownTyped'
        /\ \E n \in {0, Nominal} : FactoryReading(n)
    BY <1>2, <2>1, FactoryProcessed, Zenon
  <2>3. QED
    BY <2>2, Zenon DEF Next, s
<1>9. CASE t.typeId = 209 /\ OutdoorTelegram(t)
  <2>1. s.type = "outdoor" /\ OutdoorTelegram(t)
    BY <1>5, <1>9
  <2>2. Whole(s) /\ ShownTyped' /\ UNCHANGED meterVars
    BY <1>2, <2>1, OutdoorProcessed, Zenon
  <2>3. QED
    BY <2>2, Zenon DEF s
<1>10. QED
  <2>1. Whole(s) /\ ShownTyped' /\ [Next]_meterVars
    BY <1>3, <1>6, <1>7, <1>8, <1>9, Zenon DEF s
  <2>2. QED
    BY <2>1, Zenon DEF s

RInv == Inbox /\ ShownTyped

LEMMA RInvKept == RInv /\ [MonitorNext]_monitorVars => RInv'
<1> SUFFICES ASSUME Inbox, ShownTyped, [MonitorNext]_monitorVars
             PROVE  ShownTyped'
  BY InboxKept, Zenon DEF RInv
<1>1. CASE ProcessTelegram
  BY <1>1, Processed, Zenon
<1>2. CASE Restart
  BY <1>2, FieldsAre, Zenon DEF Restart, ShownTyped
<1>3. ASSUME UNCHANGED shown PROVE ShownTyped'
  BY <1>3, Zenon DEF ShownTyped
<1>4. CASE ReceiveTelegram
  BY <1>3, <1>4, Zenon DEF ReceiveTelegram
<1>5. CASE Publication
  BY <1>3, <1>5, Zenon DEF Publication
<1>6. CASE PassTime
  BY <1>3, <1>6, Zenon DEF PassTime
<1>7. CASE UNCHANGED monitorVars
  BY <1>3, <1>7, Zenon DEF monitorVars
<1>8. QED
  BY <1>1, <1>2, <1>4, <1>5, <1>6, <1>7, Zenon DEF MonitorNext

LEMMA MonitorInitRInv == MonitorInit => RInv
<1>1. MonitorInit => inbox = <<>> /\ shown = Nothing
  BY Zenon DEF MonitorInit
<1>2. <<>> \in Seq(Queueable)
  OBVIOUS
<1>3. QED
  BY <1>1, <1>2, FieldsAre, Zenon DEF RInv, Inbox, ShownTyped

\* The processors of EmsController.cpp and EmsTelegram::getValue: a telegram sets
\* the readings it carries in full, to what the boiler means, and no other.
THEOREM EveryReadingIsWhole == MonitorSpec => ReadingsAreWhole
<1>1. MonitorInit => RInv
  BY MonitorInitRInv
<1>2. RInv /\ [MonitorNext]_monitorVars => RInv'
  BY RInvKept
<1>3. RInv => (ProcessTelegram => Whole(Head(inbox).said))
  BY Processed, Zenon DEF RInv
<1> DEFINE Step == ProcessTelegram =>
                     LET s == Head(inbox).said
                     IN  \A field \in DOMAIN Nothing :
                           shown'[field] =
                             CASE Holds(s, field) -> Meant(s, field)
                               [] ~Holds(s, field) /\ field = "outdoor" /\ s.type = "outdoor" -> {}
                               [] OTHER -> shown[field]
<1>4. RInv /\ [MonitorNext]_monitorVars => [Step]_monitorVars
  BY <1>3, Zenon DEF Whole
<1>5. QED
  BY <1>1, <1>2, <1>4, PTL DEF MonitorSpec, ReadingsAreWhole

\* Every step of the processors on telegrams of bytes is a step of Metering or
\* changes nothing there: whatever is proved of EmsMetrics holds of what comes
\* over the wire.
THEOREM ImplementsMetering == MonitorSpec => Spec
<1>1. MonitorInit => RInv /\ Init
  BY MonitorInitRInv, Zenon DEF MonitorInit
<1>2. RInv /\ [MonitorNext]_monitorVars => RInv'
  BY RInvKept
<1>3. RInv /\ [MonitorNext]_monitorVars => [Next]_meterVars
  <2> SUFFICES ASSUME RInv, [MonitorNext]_monitorVars
               PROVE  [Next]_meterVars
    OBVIOUS
  <2>1. CASE ReceiveTelegram
    BY <2>1, Zenon DEF ReceiveTelegram
  <2>2. CASE ProcessTelegram
    BY <2>2, Processed, Zenon DEF RInv
  <2>3. CASE Publication
    BY <2>3, Zenon DEF Publication, Next
  <2>4. CASE Restart
    BY <2>4, Zenon DEF Restart, Next
  <2>5. CASE PassTime
    BY <2>5, Zenon DEF PassTime, Next
  <2>6. CASE UNCHANGED monitorVars
    BY <2>6, Zenon DEF monitorVars
  <2>7. QED
    BY <2>1, <2>2, <2>3, <2>4, <2>5, <2>6, Zenon DEF MonitorNext
<1>4. QED
  BY <1>1, <1>2, <1>3, PTL DEF MonitorSpec, Spec

-----------------------------------------------------------------------------
(* Metering: what is burned and drawn is counted once *)

Open == Nominal * power * powerFor

FullyMetered ==
  /\ energy.total + Open <= burned
  /\ ~missed => energy.total + Open = burned

Apart == ~(heating /\ warmWater)

MInv == TypeOK /\ FullyMetered /\ WaterMetered /\ PartsWithinTotal /\ Apart

USE DEF readings, sums, link, stream, actual, meterVars

-----------------------------------------------------------------------------
(* Arithmetic *)

\* A tick adds the factor once.
LEMMA OneMore ==
  ASSUME NEW a \in Nat, NEW f \in Nat
  PROVE  a * (f + 1) = a * f + a
BY SMT

LEMMA Product ==
  ASSUME NEW a \in Nat, NEW b \in Nat
  PROVE  a * b \in Nat
BY SMT

\* What the proofs need of the constants.
LEMMA Constants ==
  /\ Powers \subseteq Nat /\ 0 \in Powers
  /\ Flows \subseteq Nat /\ 0 \in Flows
  /\ Nominal \in Nat \ {0} /\ PublishEvery \in Nat \ {0}
  /\ MaxBurned \in Nat /\ MaxDrawn \in Nat
BY MeteringAssumption

\* The numbers of a state, without their bounds.
LEMMA Numbers ==
  ASSUME TypeOK
  PROVE  /\ Nominal \in Nat /\ nominal \in Nat /\ power \in Nat /\ flow \in Nat
         /\ powerFor \in Nat /\ flowFor \in Nat
         /\ energy.total \in Nat /\ energy.heating \in Nat
         /\ energy.warmWater \in Nat /\ water \in Nat
         /\ burned \in Nat /\ drawn \in Nat
         /\ Nominal * power \in Nat
         /\ Open \in Nat /\ Used \in Nat /\ flow * flowFor \in Nat
         /\ nominal = 0 => Used = 0
         /\ nominal = Nominal => Used = Open
<1>1. /\ Nominal \in Nat /\ nominal \in Nat /\ power \in Nat /\ flow \in Nat
      /\ powerFor \in Nat /\ flowFor \in Nat
  BY Constants, SMT DEF TypeOK
<1>2. /\ energy.total \in Nat /\ energy.heating \in Nat
      /\ energy.warmWater \in Nat /\ water \in Nat
      /\ burned \in Nat /\ drawn \in Nat
  BY Constants, SMT DEF TypeOK
<1>3. Nominal * power \in Nat /\ nominal * power \in Nat
  BY <1>1, Product
<1>4. Open \in Nat /\ Used \in Nat /\ flow * flowFor \in Nat
  BY <1>1, <1>3, Product DEF Open, Used
<1>5. nominal = 0 => Used = 0
  BY <1>1, SMT DEF Used
<1>6. nominal = Nominal => Used = Open
  BY DEF Used, Open
<1>7. QED
  BY <1>1, <1>2, <1>3, <1>4, <1>5, <1>6

\* Sums that were just taken have their type.
LEMMA NoEnergyType ==
  NoEnergy \in [total : 0 .. MaxBurned, heating : 0 .. MaxBurned,
                warmWater : 0 .. MaxBurned]
BY Constants, SMT DEF NoEnergy

-----------------------------------------------------------------------------
(* Steps *)

\* Everything is zero at the start.
LEMMA InitMInv == Init => MInv
<1> SUFFICES ASSUME Init PROVE MInv
  OBVIOUS
<1>1. TypeOK
  <2>1. /\ heating \in BOOLEAN /\ warmWater \in BOOLEAN
        /\ missed \in BOOLEAN
        /\ connected \in BOOLEAN /\ aligned \in BOOLEAN /\ short \in BOOLEAN
    BY Zenon DEF Init
  <2>2. /\ water \in 0 .. MaxDrawn /\ waiting \in 0 .. PublishEvery
        /\ burned \in 0 .. MaxBurned /\ drawn \in 0 .. MaxDrawn
        /\ powerFor \in Nat /\ flowFor \in Nat
    BY Constants DEF Init
  <2>3. QED
    BY <2>1, <2>2, Constants, NoEnergyType, Zenon DEF Init, TypeOK
<1>2. /\ energy.total = 0 /\ energy.heating = 0 /\ energy.warmWater = 0
      /\ burned = 0 /\ water = 0 /\ drawn = 0
  BY DEF Init, NoEnergy
<1>3. Open = 0 /\ flow * flowFor = 0
  BY <1>1, Numbers, SMT DEF Init, Open
<1>4. FullyMetered /\ WaterMetered /\ PartsWithinTotal /\ Apart
  BY <1>2, <1>3 DEF Init, FullyMetered, WaterMetered, PartsWithinTotal, Apart
<1>5. QED
  BY <1>1, <1>4 DEF MInv

\* Summing up bills what is open, once, or notes that it is missed.
LEMMA SummedUp ==
  ASSUME MInv, NEW next \in Powers, calculatePowerUsage(next),
         UNCHANGED <<nominal, burned>>
  PROVE  /\ energy' \in [total : 0 .. MaxBurned, heating : 0 .. MaxBurned,
                         warmWater : 0 .. MaxBurned]
         /\ power' \in Powers /\ powerFor' \in Nat /\ missed' \in BOOLEAN
         /\ FullyMetered' /\ PartsWithinTotal'
<1>1. energy' = Plus(energy, Used) /\ power' = next /\ powerFor' = 0
  BY DEF calculatePowerUsage
<1>2. /\ energy'.total = energy.total + Used
      /\ energy'.heating \in {energy.heating, energy.heating + Used}
      /\ energy'.warmWater \in {energy.warmWater, energy.warmWater + Used}
      /\ energy'.heating + energy'.warmWater
           <= energy.heating + energy.warmWater + Used
  BY <1>1, Numbers, SMT DEF MInv, Plus, Apart
<1>3. Used = Open \/ Used = 0
  BY Numbers DEF MInv, TypeOK
<1>4. missed' \in BOOLEAN /\ (~missed' => ~missed /\ Used = Open)
  <2>1. missed \in BOOLEAN
    BY Zenon DEF MInv, TypeOK
  <2>2. missed' \in BOOLEAN
    BY Zenon DEF calculatePowerUsage
  <2>3. ~missed' => ~missed /\ ~(nominal = 0 /\ power * powerFor > 0)
    BY Zenon DEF calculatePowerUsage
  <2>4. CASE nominal = Nominal
    BY <2>2, <2>3, <2>4, Numbers DEF MInv
  <2>5. CASE nominal = 0
    <3>1. ~missed' => power * powerFor = 0
      BY <2>3, <2>5, Numbers, Product, SMT DEF MInv
    <3>2. power * powerFor = 0 => Open = 0
      BY Numbers, SMT DEF MInv, Open
    <3>3. Used = 0
      BY <2>5, Numbers DEF MInv
    <3>4. QED
      BY <2>2, <2>3, <3>1, <3>2, <3>3
  <2>6. QED
    BY <2>4, <2>5, Zenon DEF MInv, TypeOK
<1>5. Open' = 0
  BY <1>1, Constants, SMT DEF Open
<1>6. energy'.total <= burned /\ (~missed' => energy'.total = burned)
  BY <1>2, <1>3, <1>4, Numbers, SMT DEF MInv, FullyMetered
<1>7. energy'.heating + energy'.warmWater <= energy'.total
  BY <1>2, <1>3, Numbers, SMT DEF MInv, PartsWithinTotal
<1>8. energy' \in [total : 0 .. MaxBurned, heating : 0 .. MaxBurned,
                   warmWater : 0 .. MaxBurned]
  <2>1. /\ energy'.total \in 0 .. MaxBurned
        /\ energy'.heating \in 0 .. MaxBurned
        /\ energy'.warmWater \in 0 .. MaxBurned
    BY <1>2, <1>3, <1>6, <1>7, Numbers, Constants, SMT DEF MInv, TypeOK
  <2>2. energy' = [total |-> energy'.total, heating |-> energy'.heating,
                   warmWater |-> energy'.warmWater]
    BY <1>1 DEF Plus
  <2>3. QED
    BY <2>1, <2>2
<1>9. QED
  <2>1. FullyMetered'
    BY <1>2, <1>5, <1>6, Numbers, SMT DEF MInv, FullyMetered
  <2>2. QED
    BY <1>1, <1>4, <1>7, <1>8, <2>1 DEF PartsWithinTotal

\* Either byte of the reading may be missing; the flags exclude each other.
LEMMA BoilerReadingKeeps == MInv /\ BoilerReading => MInv'
<1> SUFFICES ASSUME MInv, BoilerReading PROVE MInv'
  OBVIOUS
<1>1. UNCHANGED <<nominal, flow, flowFor, water, stream, burned, drawn>>
  BY DEF BoilerReading
<1>2. /\ energy' \in [total : 0 .. MaxBurned, heating : 0 .. MaxBurned,
                      warmWater : 0 .. MaxBurned]
      /\ power' \in Powers /\ powerFor' \in Nat /\ missed' \in BOOLEAN
      /\ FullyMetered' /\ PartsWithinTotal'
  <2>1. CASE \E p \in Powers : calculatePowerUsage(p)
    BY <1>1, <2>1, SummedUp
  <2>2. CASE UNCHANGED <<power, powerFor, energy, missed>>
    BY <1>1, <2>2 DEF MInv, TypeOK, FullyMetered, PartsWithinTotal, Open
  <2>3. QED
    BY <2>1, <2>2 DEF BoilerReading
<1>3. heating' \in BOOLEAN /\ warmWater' \in BOOLEAN /\ Apart'
  <2>1. CASE \E gas, pump, valve \in BOOLEAN : SetActive(gas, pump, valve)
    BY <2>1, Zenon DEF SetActive, Apart
  <2>2. CASE UNCHANGED <<heating, warmWater>>
    BY <2>2, Zenon DEF MInv, TypeOK, Apart
  <2>3. QED
    BY <2>1, <2>2 DEF BoilerReading
<1>4. TypeOK'
  BY <1>1, <1>2, <1>3 DEF MInv, TypeOK
<1>5. WaterMetered'
  BY <1>1 DEF MInv, WaterMetered
<1>6. QED
  BY <1>2, <1>3, <1>4, <1>5 DEF MInv

\* A reading of the flow counts the water since the last one.
LEMMA WaterReadingKeeps ==
  ASSUME MInv, NEW f \in Flows, WaterReading(f)
  PROVE  MInv'
<1>1. /\ UNCHANGED <<readings, energy, stream, actual>>
      /\ flow' = f /\ flowFor' = 0
  BY DEF WaterReading
<1>2. water' = drawn
  BY DEF MInv, WaterMetered, WaterReading
<1>3. flow' * flowFor' = 0
  BY <1>1, Constants, SMT
<1>4. WaterMetered'
  BY <1>1, <1>2, <1>3, Numbers, SMT DEF MInv, WaterMetered
<1>5. water' \in 0 .. MaxDrawn
  BY <1>2, Numbers, SMT DEF MInv, TypeOK
<1>6. TypeOK'
  BY <1>1, <1>5 DEF MInv, TypeOK
<1>7. QED
  BY <1>1, <1>4, <1>6
     DEF MInv, FullyMetered, PartsWithinTotal, Apart, Open

\* The nominal power, known or not, changes nothing that was burned.
LEMMA FactoryReadingKeeps ==
  ASSUME MInv, NEW n \in {0, Nominal}, FactoryReading(n)
  PROVE  MInv'
BY DEF FactoryReading, MInv, TypeOK, FullyMetered, WaterMetered,
       PartsWithinTotal, Apart, Open

-----------------------------------------------------------------------------
(* Publication *)

\* Publishing touches the connection only.
LEMMA PublishType ==
  ASSUME TypeOK, NEW size \in Sizes, Publish(size)
  PROVE  connected' \in BOOLEAN /\ aligned' \in BOOLEAN /\ short' \in BOOLEAN
BY Zenon DEF Publish, Break, TypeOK

LEMMA PublishOtherKeeps == MInv /\ PublishOther => MInv'
<1> SUFFICES ASSUME MInv, PublishOther PROVE MInv'
  OBVIOUS
<1>1. connected' \in BOOLEAN /\ aligned' \in BOOLEAN /\ short' \in BOOLEAN
  BY PublishType DEF MInv, PublishOther
<1>2. UNCHANGED <<readings, flow, flowFor, sums, waiting, actual>>
  BY DEF PublishOther
<1>3. TypeOK'
  BY <1>1, <1>2 DEF MInv, TypeOK
<1>4. QED
  BY <1>2, <1>3
     DEF MInv, FullyMetered, WaterMetered, PartsWithinTotal, Apart, Open

\* Taking the sums leaves nothing burned that was not taken, and of the water
\* what was drawn since the last reading.
LEMMA PublishMetricsKeeps == MInv /\ PublishMetrics => MInv'
<1> SUFFICES ASSUME MInv, PublishMetrics PROVE MInv'
  OBVIOUS
<1>1. connected' \in BOOLEAN /\ aligned' \in BOOLEAN /\ short' \in BOOLEAN
  BY PublishType DEF MInv, PublishMetrics
<1>2. /\ energy' = NoEnergy /\ water' = 0 /\ powerFor' = 0 /\ missed' = FALSE
      /\ burned' = (IF missed \/ nominal = 0 THEN 0
                    ELSE burned - Plus(energy, Used).total)
      /\ drawn' = drawn - water
      /\ UNCHANGED <<power, nominal, heating, warmWater, flow, flowFor>>
  BY DEF PublishMetrics, getMetrics
<1>3. waiting' \in 0 .. PublishEvery
  BY Constants, SMT DEF PublishMetrics
<1>4. burned' = 0
  <2>1. CASE missed \/ nominal = 0
    BY <1>2, <2>1
  <2>2. CASE ~missed /\ nominal = Nominal
    <3>1. Plus(energy, Used).total = energy.total + Used
      BY DEF Plus
    <3>2. energy.total + Used = burned
      BY <2>2, Numbers DEF MInv, FullyMetered
    <3>3. QED
      BY <1>2, <2>2, <3>1, <3>2, Numbers, Constants, SMT DEF MInv
  <2>3. QED
    BY <2>1, <2>2, Zenon DEF MInv, TypeOK
<1>5. Open' = 0
  BY <1>2, Numbers, SMT DEF MInv, Open
<1>6. FullyMetered' /\ PartsWithinTotal' /\ Apart'
  BY <1>2, <1>4, <1>5 DEF MInv, FullyMetered, PartsWithinTotal, Apart, NoEnergy
<1>7. drawn' = flow * flowFor
  BY <1>2, Numbers, SMT DEF MInv, WaterMetered
<1>8. WaterMetered'
  BY <1>2, <1>7, Numbers, SMT DEF MInv, WaterMetered
<1>9. TypeOK'
  <2>1. drawn' \in 0 .. MaxDrawn
    BY <1>2, <1>7, Numbers, Constants, SMT DEF MInv, TypeOK
  <2>2. /\ energy' \in [total : 0 .. MaxBurned, heating : 0 .. MaxBurned,
                        warmWater : 0 .. MaxBurned]
        /\ water' \in 0 .. MaxDrawn /\ burned' \in 0 .. MaxBurned
    BY <1>2, <1>4, Constants, SMT DEF NoEnergy
  <2>3. QED
    BY <1>1, <1>2, <1>3, <2>1, <2>2 DEF MInv, TypeOK
<1>10. QED
  BY <1>6, <1>8, <1>9 DEF MInv

LEMMA ConnectionKeeps == MInv /\ (Connect \/ Disconnect) => MInv'
<1> SUFFICES ASSUME MInv, Connect \/ Disconnect PROVE MInv'
  OBVIOUS
<1>1. connected' \in BOOLEAN /\ aligned' \in BOOLEAN /\ short' \in BOOLEAN
  BY Zenon DEF Connect, Disconnect, Break, MInv, TypeOK
<1>2. UNCHANGED <<readings, flow, flowFor, sums, waiting, actual>>
  BY DEF Connect, Disconnect
<1>3. TypeOK'
  BY <1>1, <1>2 DEF MInv, TypeOK
<1>4. QED
  BY <1>2, <1>3
     DEF MInv, FullyMetered, WaterMetered, PartsWithinTotal, Apart, Open

-----------------------------------------------------------------------------
(* Restarts and time *)

\* A restart forgets what was burned with the sums.
LEMMA RebootKeeps == MInv /\ Reboot => MInv'
<1> SUFFICES ASSUME MInv, Reboot PROVE MInv'
  OBVIOUS
<1>1. TypeOK'
  <2>1. /\ heating' \in BOOLEAN /\ warmWater' \in BOOLEAN
        /\ missed' \in BOOLEAN
        /\ connected' \in BOOLEAN /\ aligned' \in BOOLEAN /\ short' \in BOOLEAN
    BY Zenon DEF Reboot, Break
  <2>2. /\ water' \in 0 .. MaxDrawn /\ waiting' \in 0 .. PublishEvery
        /\ burned' \in 0 .. MaxBurned /\ drawn' \in 0 .. MaxDrawn
        /\ powerFor' \in Nat /\ flowFor' \in Nat
    BY Constants DEF Reboot
  <2>3. QED
    BY <2>1, <2>2, Constants, NoEnergyType, Zenon DEF Reboot, TypeOK
<1>2. Open' = 0 /\ flow' * flowFor' = 0
  BY Constants, SMT DEF Reboot, Open
<1>3. FullyMetered' /\ WaterMetered' /\ PartsWithinTotal' /\ Apart'
  BY <1>2
     DEF Reboot, NoEnergy, FullyMetered, WaterMetered, PartsWithinTotal, Apart
<1>4. QED
  BY <1>1, <1>3 DEF MInv

\* A tick at the same power and flow adds to what is open as much as is used.
LEMMA TickKeeps == MInv /\ Tick => MInv'
<1> SUFFICES ASSUME MInv, Tick PROVE MInv'
  OBVIOUS
<1>1. /\ UNCHANGED <<power, nominal, heating, warmWater, flow, sums, link,
                     missed>>
      /\ burned' = burned + Nominal * power /\ drawn' = drawn + flow
      /\ burned' <= MaxBurned /\ drawn' <= MaxDrawn
  BY DEF Tick
<1>2. powerFor' \in Nat /\ flowFor' \in Nat /\ waiting' \in 0 .. PublishEvery
  BY Numbers, Constants, SMT DEF Tick, MInv, TypeOK
<1>3. Open' = Open + Nominal * power
  <2>1. CASE power = 0
    BY <1>1, <1>2, <2>1, Numbers, SMT DEF MInv, Open
  <2>2. CASE power # 0
    <3>1. powerFor' = powerFor + 1
      BY <2>2 DEF Tick
    <3>2. (Nominal * power) * (powerFor + 1)
            = (Nominal * power) * powerFor + Nominal * power
      BY OneMore, Numbers DEF MInv
    <3>3. QED
      BY <1>1, <3>1, <3>2 DEF Open
  <2>3. QED
    BY <2>1, <2>2
<1>4. flow' * flowFor' = flow * flowFor + flow
  <2>1. CASE flow = 0
    BY <1>1, <1>2, <2>1, Numbers, SMT DEF MInv
  <2>2. CASE flow # 0
    BY <1>1, <2>2, OneMore, Numbers DEF MInv, Tick
  <2>3. QED
    BY <2>1, <2>2
<1>5. FullyMetered'
  BY <1>1, <1>3, Numbers, SMT DEF MInv, FullyMetered
<1>6. WaterMetered'
  BY <1>1, <1>4, Numbers, SMT DEF MInv, WaterMetered
<1>7. burned' \in 0 .. MaxBurned /\ drawn' \in 0 .. MaxDrawn
  BY <1>1, Numbers, Constants, SMT DEF MInv
<1>8. TypeOK'
  BY <1>1, <1>2, <1>7 DEF MInv, TypeOK
<1>9. QED
  BY <1>1, <1>5, <1>6, <1>8 DEF MInv, PartsWithinTotal, Apart

-----------------------------------------------------------------------------
(* Results *)

\* Every step keeps the invariant.
LEMMA NextMInv == MInv /\ [Next]_meterVars => MInv'
<1> SUFFICES ASSUME MInv, [Next]_meterVars PROVE MInv'
  OBVIOUS
<1>1. CASE BoilerReading
  BY <1>1, BoilerReadingKeeps
<1>2. CASE \E f \in Flows : WaterReading(f)
  BY <1>2, WaterReadingKeeps
<1>3. CASE \E n \in {0, Nominal} : FactoryReading(n)
  BY <1>3, FactoryReadingKeeps
<1>4. CASE PublishOther
  BY <1>4, PublishOtherKeeps
<1>5. CASE PublishMetrics
  BY <1>5, PublishMetricsKeeps
<1>6. CASE Connect \/ Disconnect
  BY <1>6, ConnectionKeeps
<1>7. CASE Reboot
  BY <1>7, RebootKeeps
<1>8. CASE Tick
  BY <1>8, TickKeeps
<1>9. CASE UNCHANGED meterVars
  BY <1>9 DEF MInv, TypeOK, FullyMetered, WaterMetered, PartsWithinTotal,
              Apart, Open
<1>10. QED
  BY <1>1, <1>2, <1>3, <1>4, <1>5, <1>6, <1>7, <1>8, <1>9 DEF Next

\* The inductive invariant holds in every reachable state.
THEOREM Invariant == Spec => []MInv
BY InitMInv, NextMInv, PTL DEF Spec

\* Word correctness of the metering of energy and water, whatever the boiler
\* reports, in whatever order.
THEOREM MeteringTypeCorrect == Spec => []TypeOK
<1>1. MInv => TypeOK
  BY DEF MInv
<1>2. QED
  BY <1>1, Invariant, PTL

\* EmsMetrics counts what was burned and drawn once, for all powers, flows and
\* any order of readings, publications and restarts.
THEOREM NothingMeteredTwice == Spec => []MeteredOnce
<1>1. MInv => MeteredOnce
  <2> SUFFICES ASSUME MInv PROVE MeteredOnce
    OBVIOUS
  <2>1. Used <= Open
    BY Numbers, SMT DEF MInv, TypeOK
  <2>2. energy.total + Used <= burned
    BY <2>1, Numbers, SMT DEF MInv, FullyMetered
  <2>3. ~missed /\ nominal = Nominal => energy.total + Used = burned
    BY Numbers DEF MInv, FullyMetered
  <2>4. QED
    BY <2>2, <2>3 DEF MInv, MeteredOnce, EnergyMetered
<1>2. QED
  BY <1>1, Invariant, PTL

\* The energy published for heating and for hot water never exceeds the total.
THEOREM PartsStayWithinTotal == Spec => []PartsWithinTotal
<1>1. MInv => PartsWithinTotal
  BY DEF MInv
<1>2. QED
  BY <1>1, Invariant, PTL

\* What is published can be billed: both at once.
THEOREM PublishedSumsAreTrue == Spec => []SumsAreTrue
<1>1. MeteredOnce /\ PartsWithinTotal => SumsAreTrue
  BY DEF SumsAreTrue
<1>2. QED
  BY <1>1, NothingMeteredTwice, PartsStayWithinTotal, PTL

-----------------------------------------------------------------------------
(* The packets of MQTT: where the broker looks for the next one *)

\* The least of a set of numbers.
LEMMA MinIs ==
  ASSUME NEW S, NEW m, m \in S, \A k \in S : k \in Int /\ m <= k
  PROVE  Min(S) = m
<1> DEFINE least == CHOOSE x \in S : \A y \in S : x <= y
<1>1. least \in S /\ \A y \in S : least <= y
  BY Zenon
<1>2. Min(S) = least
  BY Zenon DEF Min
<1> HIDE DEF least
<1>3. least <= m /\ m <= least /\ least \in Int /\ m \in Int
  BY <1>1
<1>4. QED
  BY <1>2, <1>3

LEMMA Powers128 ==
  /\ 128 ^ 0 = 1 /\ 128 ^ 1 = 128 /\ 128 ^ 2 = 16384 /\ 128 ^ 3 = 2097152
  /\ 128 ^ 4 = 268435456
OBVIOUS

\* How many digits a size takes.
Length(size) == IF size < 128 THEN 1 ELSE IF size < 16384 THEN 2 ELSE 3

LEMMA LengthIs ==
  ASSUME NEW size \in Word
  PROVE  /\ Length(size) \in 1 .. 3
         /\ BytesNeeded(size) = Length(size)
         /\ Min({k \in 1 .. 3 : size < 128 ^ k}) = Length(size)
<1>1. Length(size) \in 1 .. 3 /\ size < 128 ^ Length(size)
  <2>1. size < 128 => size < 128 ^ 1
    BY Powers128 DEF Word
  <2>2. size < 16384 => size < 128 ^ 2
    BY Powers128 DEF Word
  <2>3. size < 128 ^ 3
    BY Powers128 DEF Word
  <2>4. QED
    BY <2>1, <2>2, <2>3 DEF Length
<1>2. ASSUME NEW k \in 1 .. 4, size < 128 ^ k
      PROVE  Length(size) <= k
  <2>1. k = 1 => size < 128
    BY <1>2, Powers128 DEF Word
  <2>2. k = 2 => size < 16384
    BY <1>2, Powers128 DEF Word
  <2>3. QED
    BY <2>1, <2>2 DEF Length
<1>3. ASSUME NEW most \in {3, 4}
      PROVE  Min({k \in 1 .. most : size < 128 ^ k}) = Length(size)
  <2> DEFINE S == {k \in 1 .. most : size < 128 ^ k}
             least == Length(size)
  <2>1. least \in S
    BY <1>1
  <2>2. ASSUME NEW k \in S PROVE k \in Int /\ least <= k
    <3>1. k \in 1 .. 4 /\ size < 128 ^ k
      OBVIOUS
    <3> HIDE DEF S, least
    <3>2. least <= k
      BY <1>2, <3>1, Zenon DEF least
    <3>3. QED
      BY <3>1, <3>2
  <2> HIDE DEF S, least
  <2>3. Min(S) = least
    BY <2>1, <2>2, MinIs
  <2>4. QED
    BY <2>3 DEF S, least
<1>4. QED
  BY <1>1, <1>3 DEF BytesNeeded

LEMMA DigitsAre ==
  ASSUME NEW size \in Word
  PROVE  Digits(size) =
           [i \in 1 .. Length(size) |->
              ((size \div 128 ^ (i - 1)) % 128)
                + IF i < Length(size) THEN 128 ELSE 0]
<1>1. size % 65536 = size
  BY DEF Word
<1> DEFINE last == Min({k \in 1 .. 3 : size % 65536 < 128 ^ k})
<1>2. last = Length(size)
  <2>1. last = Min({k \in 1 .. 3 : size < 128 ^ k})
    BY <1>1
  <2>2. QED
    BY <2>1, LengthIs
<1>3. Digits(size) =
        [i \in 1 .. last |->
           (((size % 65536) \div 128 ^ (i - 1)) % 128)
             + IF i < last THEN 128 ELSE 0]
  BY DEF Digits
<1> HIDE DEF last
<1>4. QED
  BY <1>1, <1>2, <1>3

\* A number in base 128.
LEMMA Base128 ==
  ASSUME NEW size \in Word
  PROVE  size = (size % 128) + ((size \div 128) % 128) * 128
                  + ((size \div 16384) % 128) * 16384
BY DEF Word

\* The digits as numbers.
LEMMA DigitValues ==
  ASSUME NEW size \in Word
  PROVE  LET n == Length(size)
             d == Digits(size)
         IN  /\ DOMAIN d = 1 .. n
             /\ \A i \in 1 .. n : d[i] \in Nat /\ (d[i] < 128 <=> i = n)
             /\ n = 1 => d[1] % 128 = size
             /\ n = 2 => (d[1] % 128) + (d[2] % 128) * 128 = size
             /\ n = 3 => (d[1] % 128) + (d[2] % 128) * 128
                           + (d[3] % 128) * 16384 = size
<1> DEFINE n == Length(size)
           d == Digits(size)
           a == size % 128
           b == (size \div 128) % 128
           c == (size \div 16384) % 128
<1>1. n \in 1 .. 3
  BY DEF Length
<1>2. d = [i \in 1 .. n |-> ((size \div 128 ^ (i - 1)) % 128)
                               + IF i < n THEN 128 ELSE 0]
  BY DigitsAre
<1>3. a \in 0 .. 127 /\ b \in 0 .. 127 /\ c \in 0 .. 127
  BY DEF Word
<1>4. /\ size = a + b * 128 + c * 16384
      /\ size < 16384 => c = 0
      /\ size < 128 => b = 0
  BY Base128 DEF Word
<1>5. n = 1 => size < 128
  BY DEF Length
<1>6. n = 2 => size < 16384
  BY DEF Length
<1>7. /\ size \div 128 ^ (1 - 1) = size
      /\ size \div 128 ^ (2 - 1) = size \div 128
      /\ size \div 128 ^ (3 - 1) = size \div 16384
  BY Powers128 DEF Word
<1> HIDE DEF n, d
<1>8. DOMAIN d = 1 .. n
  BY <1>2
<1>9. d[1] = ((size \div 128 ^ (1 - 1)) % 128) + IF 1 < n THEN 128 ELSE 0
  BY <1>1, <1>2
<1>10. n >= 2 =>
         d[2] = ((size \div 128 ^ (2 - 1)) % 128) + IF 2 < n THEN 128 ELSE 0
  BY <1>1, <1>2
<1>11. n = 3 =>
         d[3] = ((size \div 128 ^ (3 - 1)) % 128) + IF 3 < n THEN 128 ELSE 0
  BY <1>1, <1>2
<1>12. d[1] = a + IF 1 < n THEN 128 ELSE 0
  BY <1>7, <1>9
<1>13. n >= 2 => d[2] = b + IF 2 < n THEN 128 ELSE 0
  BY <1>7, <1>10
<1>14. n = 3 => d[3] = c + IF 3 < n THEN 128 ELSE 0
  BY <1>7, <1>11
<1> HIDE DEF a, b, c
<1>15. \A i \in 1 .. n : d[i] \in Nat /\ (d[i] < 128 <=> i = n)
  <2>1. CASE n = 1
    BY <1>3, <1>12, <2>1
  <2>2. CASE n = 2
    BY <1>3, <1>12, <1>13, <2>2
  <2>3. CASE n = 3
    BY <1>3, <1>12, <1>13, <1>14, <2>3
  <2>4. QED
    BY <1>1, <2>1, <2>2, <2>3
<1>16. CASE n = 1
  <2>1. d[1] = a /\ b = 0 /\ c = 0
    BY <1>3, <1>4, <1>5, <1>12, <1>16
  <2>2. d[1] % 128 = size
    BY <1>3, <1>4, <2>1
  <2>3. QED
    BY <1>8, <1>15, <1>16, <2>2 DEF n, d
<1>17. CASE n = 2
  <2>1. d[1] = a + 128 /\ d[2] = b /\ c = 0
    BY <1>3, <1>4, <1>6, <1>12, <1>13, <1>17
  <2>2. d[1] % 128 = a /\ d[2] % 128 = b
    BY <1>3, <2>1
  <2>3. (d[1] % 128) + (d[2] % 128) * 128 = size
    BY <1>3, <1>4, <2>1, <2>2
  <2>4. QED
    BY <1>8, <1>15, <1>17, <2>3 DEF n, d
<1>18. CASE n = 3
  <2>1. d[1] = a + 128 /\ d[2] = b + 128 /\ d[3] = c
    BY <1>3, <1>12, <1>13, <1>14, <1>18
  <2>2. d[1] % 128 = a /\ d[2] % 128 = b /\ d[3] % 128 = c
    BY <1>3, <2>1
  <2>3. (d[1] % 128) + (d[2] % 128) * 128 + (d[3] % 128) * 16384 = size
    BY <1>3, <1>4, <2>2
  <2>4. QED
    BY <1>8, <1>15, <1>18, <2>3 DEF n, d
<1>19. QED
  BY <1>1, <1>16, <1>17, <1>18

\* What the broker makes of the first digits.
Worth(d, i) == (d[i] % 128) * 128 ^ (i - 1)

Added(d, last, value) ==
  [i \in 0 .. last |-> IF i = 0 THEN 0 ELSE value[i - 1] + Worth(d, i)]

LEMMA SumOfDigits ==
  ASSUME NEW d, NEW last \in 1 .. 3, \A i \in 1 .. last : Worth(d, i) \in Nat
  PROVE  (CHOOSE value : value = Added(d, last, value))[last] =
           Worth(d, 1) + (IF last >= 2 THEN Worth(d, 2) ELSE 0)
                       + (IF last >= 3 THEN Worth(d, 3) ELSE 0)
<1> DEFINE sum == [i \in 0 .. last |->
                     IF i = 0 THEN 0
                     ELSE IF i = 1 THEN Worth(d, 1)
                     ELSE IF i = 2 THEN Worth(d, 1) + Worth(d, 2)
                     ELSE Worth(d, 1) + Worth(d, 2) + Worth(d, 3)]
           value == CHOOSE f : f = Added(d, last, f)
<1>1. ASSUME NEW i \in 0 .. last
      PROVE  sum[i] = IF i = 0 THEN 0 ELSE sum[i - 1] + Worth(d, i)
  <2>1. i = 0 \/ i = 1 \/ i = 2 \/ i = 3
    OBVIOUS
  <2>2. i > 0 => i - 1 \in 0 .. last
    OBVIOUS
  <2>3. QED
    BY <2>1, <2>2
<1>2. sum = Added(d, last, sum)
  BY <1>1 DEF Added
<1> HIDE DEF sum
<1>3. value = Added(d, last, value)
  BY <1>2, Zenon
<1> HIDE DEF value
<1>4. \A i \in 0 .. last :
        value[i] = IF i = 0 THEN 0 ELSE value[i - 1] + Worth(d, i)
  BY <1>3 DEF Added
<1>5. value[0] = 0 /\ value[1] = value[0] + Worth(d, 1)
  BY <1>4
<1>6. last >= 2 => value[2] = value[1] + Worth(d, 2)
  BY <1>4
<1>7. last >= 3 => value[3] = value[2] + Worth(d, 3)
  BY <1>4
<1>8. value[last] = Worth(d, 1) + (IF last >= 2 THEN Worth(d, 2) ELSE 0)
                                + (IF last >= 3 THEN Worth(d, 3) ELSE 0)
  <2>1. last = 1 \/ last = 2 \/ last = 3
    OBVIOUS
  <2>2. QED
    BY <1>5, <1>6, <1>7, <2>1
<1>9. QED
  BY <1>8 DEF value

\* MQTT.h, the header of a packet: the broker finds where the packet ends.
LEMMA HeaderUnderstood ==
  ASSUME NEW size \in Word
  PROVE  Understood(size)
<1> DEFINE n == Length(size)
           d == Digits(size)
           last == Min({i \in DOMAIN d : d[i] < 128})
           value == CHOOSE f : f = Added(d, last, f)
<1>1. n \in 1 .. 3
  BY DEF Length
<1>2. n = BytesNeeded(size)
  BY LengthIs, Zenon
<1>3. /\ DOMAIN d = 1 .. n
      /\ \A i \in 1 .. n : d[i] \in Nat /\ (d[i] < 128 <=> i = n)
      /\ n = 1 => d[1] % 128 = size
      /\ n = 2 => (d[1] % 128) + (d[2] % 128) * 128 = size
      /\ n = 3 => (d[1] % 128) + (d[2] % 128) * 128
                    + (d[3] % 128) * 16384 = size
  BY DigitValues
<1>4. Understood(size) <=> last = BytesNeeded(size) /\ value[last] = size
  BY Zenon DEF Understood, Added, Worth
<1> HIDE DEF n, d, value
<1>5. last = n
  <2> DEFINE S == {i \in DOMAIN d : d[i] < 128}
  <2>1. n \in S /\ \A k \in S : k \in Int /\ n <= k
    BY <1>1, <1>3
  <2> HIDE DEF S
  <2>2. Min(S) = n
    BY <2>1, MinIs
  <2>3. QED
    BY <2>2 DEF S
<1> HIDE DEF last
<1>6. \A i \in 1 .. n : /\ Worth(d, i) \in Nat
                        /\ i = 1 => Worth(d, i) = d[1] % 128
                        /\ i = 2 => Worth(d, i) = (d[2] % 128) * 128
                        /\ i = 3 => Worth(d, i) = (d[3] % 128) * 16384
  <2> SUFFICES ASSUME NEW i \in 1 .. n
               PROVE  /\ Worth(d, i) \in Nat
                      /\ i = 1 => Worth(d, i) = d[1] % 128
                      /\ i = 2 => Worth(d, i) = (d[2] % 128) * 128
                      /\ i = 3 => Worth(d, i) = (d[3] % 128) * 16384
    OBVIOUS
  <2>1. d[i] % 128 \in Nat /\ (i = 1 \/ i = 2 \/ i = 3)
    BY <1>1, <1>3
  <2>2. CASE i = 1
    BY <2>1, <2>2, Powers128 DEF Worth
  <2>3. CASE i = 2
    BY <2>1, <2>3, Powers128 DEF Worth
  <2>4. CASE i = 3
    BY <2>1, <2>4, Powers128 DEF Worth
  <2>5. QED
    BY <2>1, <2>2, <2>3, <2>4
<1>7. \A i \in 1 .. last : Worth(d, i) \in Nat
  BY <1>5, <1>6
<1>8. value[last] = Worth(d, 1) + (IF last >= 2 THEN Worth(d, 2) ELSE 0)
                                + (IF last >= 3 THEN Worth(d, 3) ELSE 0)
  <2>1. last \in 1 .. 3
    BY <1>1, <1>5
  <2>2. QED
    BY <1>7, <2>1, SumOfDigits, Zenon DEF value
<1>9. value[last] = size
  <2>1. CASE n = 1
    <3>1. value[last] = (d[1] % 128) + 0 + 0 /\ d[1] % 128 \in Nat
      BY <1>3, <1>5, <1>6, <1>8, <2>1
    <3>2. QED
      BY <1>3, <2>1, <3>1
  <2>2. CASE n = 2
    <3>1. value[last] = (d[1] % 128) + (d[2] % 128) * 128 + 0
      BY <1>5, <1>6, <1>8, <2>2
    <3>2. d[1] % 128 \in Nat /\ d[2] % 128 \in Nat
      BY <1>3, <2>2
    <3>3. QED
      BY <1>3, <2>2, <3>1, <3>2
  <2>3. CASE n = 3
    <3>1. value[last] = (d[1] % 128) + (d[2] % 128) * 128
                          + (d[3] % 128) * 16384
      BY <1>5, <1>6, <1>8, <2>3
    <3>2. QED
      BY <1>3, <2>3, <3>1
  <2>4. QED
    BY <1>1, <2>1, <2>2, <2>3
<1>10. QED
  BY <1>2, <1>4, <1>5, <1>9

\* MQTT::publish: through any sequence of packets shorter than 65536 bytes, on
\* any sequence of connections, the broker knows where each packet ends, until
\* one goes out in part on a connection that lasts.
THEOREM BrokerFollows == Spec => []BrokerKeepsInStep
<1> DEFINE InStep == aligned \/ short
<1>1. Init => InStep
  BY DEF Init
<1>2. InStep /\ [Next]_meterVars => InStep'
  <2> SUFFICES ASSUME aligned \/ short, [Next]_meterVars
               PROVE  aligned' \/ short'
    OBVIOUS
  <2>1. Break => aligned'
    BY Zenon DEF Break
  <2>2. ASSUME NEW size \in Sizes, Publish(size)
        PROVE  aligned' \/ short'
    <3>1. size \in Word
      BY MeteringAssumption DEF Word
    <3>2. Understood(size)
      BY <3>1, HeaderUnderstood, Zenon
    <3>3. CASE aligned' = (aligned /\ Understood(size)) /\ UNCHANGED short
      BY <3>2, <3>3, Zenon
    <3>4. CASE UNCHANGED link
      BY <3>4, Zenon DEF link
    <3>5. CASE short' = TRUE
      BY <3>5, Zenon
    <3>6. QED
      BY <2>1, <2>2, <3>3, <3>4, <3>5, Zenon DEF Publish
  <2>3. ASSUME UNCHANGED link
        PROVE  aligned' \/ short'
    BY <2>3, Zenon DEF link
  <2>4. CASE UNCHANGED meterVars
    BY <2>3, <2>4, Zenon DEF meterVars, stream
  <2>5. CASE BoilerReading
    BY <2>3, <2>5, Zenon DEF BoilerReading, stream
  <2>6. CASE \E f \in Flows : WaterReading(f)
    BY <2>3, <2>6, Zenon DEF WaterReading, stream
  <2>7. CASE \E n \in {0, Nominal} : FactoryReading(n)
    BY <2>3, <2>7, Zenon DEF FactoryReading, stream
  <2>8. CASE PublishOther
    BY <2>2, <2>8, Zenon DEF PublishOther
  <2>9. CASE PublishMetrics
    BY <2>2, <2>9, Zenon DEF PublishMetrics
  <2>10. CASE Connect
    BY <2>10, Zenon DEF Connect
  <2>11. CASE Disconnect
    BY <2>1, <2>11, Zenon DEF Disconnect
  <2>12. CASE Reboot
    BY <2>1, <2>12, Zenon DEF Reboot
  <2>13. CASE Tick
    BY <2>3, <2>13, Zenon DEF Tick
  <2>14. QED
    BY <2>4, <2>5, <2>6, <2>7, <2>8, <2>9, <2>10, <2>11, <2>12, <2>13, Zenon
       DEF Next
<1>3. InStep => BrokerKeepsInStep
  BY DEF BrokerKeepsInStep
<1> HIDE DEF InStep
<1>4. QED
  BY <1>1, <1>2, <1>3, PTL DEF Spec

\* What EmsMetrics publishes of the telegrams that came over the wire can be
\* billed.
THEOREM WireIsBilledOnce == MonitorSpec => []SumsAreTrue
BY ImplementsMetering, PublishedSumsAreTrue, PTL
=============================================================================
