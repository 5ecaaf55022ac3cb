---------------------------- MODULE PortsProofs ----------------------------
(***************************************************************************)
(* Proofs about Ports.tla, for any ports, expanders, pins and wirings, and    *)
(* about Wiring.tla, which implements it for any settings.                    *)
(*                                                                         *)
(* RelaysFollow speaks of the expanders' outputs and is not inductive: what   *)
(* the next transmission will put out is in the shadow.  The invariant says    *)
(* that a bit of the shadow is LOW exactly where a port was told to be on, and  *)
(* that only a lost transmission keeps the outputs from the shadow.  The first  *)
(* of these needs that no two ports have one place.                            *)
(*                                                                         *)
(* NamesMeanTheirCircuits follows from what the ports and the map were built  *)
(* of, the file as it was at the start; that rows which are not used move the *)
(* others up is proved over the rows, one at a time.                          *)
(***************************************************************************)
EXTENDS Wiring, WellFoundedInduction, TLAPS

ShadowIsTold ==
  \A d \in Device, pin \in Pin : shadow[d][pin] = ~ToldOn(<<d, pin>>)

OutputsAreShadow ==
  \A p \in Port :
    wiring[p] \in OnDevice /\ wiring[p][1] \notin lost
      => latch[wiring[p][1]] = shadow[wiring[p][1]]

LevelIsTold ==
  \A p \in Port : wiring[p] \in Builtin => level[wiring[p]] = (told[p] = "on")

\* Where no port is told to be on no built-in pin is HIGH.
LevelNeedsPort ==
  \A b \in Builtin : level[b] => ToldOn(b)

PInv ==
  /\ PortsTypeOK
  /\ Apart(wiring)
  /\ ShadowIsTold
  /\ OutputsAreShadow
  /\ LevelIsTold
  /\ LevelNeedsPort

USE DEF OnDevice

-----------------------------------------------------------------------------
(* Lemmas *)

\* Kinds of place exclude each other.
LEMMA Kinds ==
  /\ \A place \in OnDevice : place \notin Builtin /\ place # Nowhere
  /\ Nowhere \notin Builtin
BY PortsAssumption

\* A place on an expander is the pair of its parts.
LEMMA Parts ==
  ASSUME NEW place \in OnDevice
  PROVE  /\ place[1] \in Device /\ place[2] \in Pin
         /\ place = <<place[1], place[2]>>
OBVIOUS

\* With every port at a place of its own, a port's place is told on exactly if
\* the port is.
LEMMA OwnPlace ==
  ASSUME Apart(wiring), NEW p \in Port, wiring[p] # Nowhere
  PROVE  ToldOn(wiring[p]) <=> told[p] = "on"
BY DEF Apart, ToldOn

\* A write leaves what is told of every other place.
LEMMA OtherPlaces ==
  ASSUME Apart(wiring), PortsTypeOK, NEW p \in Port, NEW on \in BOOLEAN,
         Write(p, on), NEW place, place # Nowhere, place # wiring[p]
  PROVE  ToldOn(place)' <=> ToldOn(place)
BY DEF Write, ToldOn, PortsTypeOK

\* And its own place is told what the port is.
LEMMA WrittenPlace ==
  ASSUME Apart(wiring), PortsTypeOK, NEW p \in Port, NEW on \in BOOLEAN,
         Write(p, on), wiring[p] # Nowhere
  PROVE  ToldOn(wiring[p])' <=> on
<1>1. told'[p] = "on" <=> on
  BY DEF Write, PortsTypeOK
<1>2. wiring' = wiring
  BY DEF Write
<1>3. QED
  BY <1>1, <1>2 DEF ToldOn, Apart

-----------------------------------------------------------------------------
(* The invariant *)

LEMMA InitPInv == PortsInit => PInv
<1> SUFFICES ASSUME PortsInit PROVE PInv
  OBVIOUS
<1>1. PortsTypeOK
  BY DEF PortsInit, PortsTypeOK, Place, AllHigh
<1>2. Apart(wiring) /\ OutputsAreShadow /\ LevelIsTold /\ LevelNeedsPort
  BY Kinds DEF PortsInit, Apart, OutputsAreShadow, LevelIsTold, LevelNeedsPort
<1>3. ShadowIsTold
  BY DEF PortsInit, ShadowIsTold, ToldOn, AllHigh
<1>4. QED
  BY <1>1, <1>2, <1>3 DEF PInv

LEMMA FlushTypes ==
  ASSUME PortsTypeOK, NEW d \in Device, NEW bits \in [Pin -> BOOLEAN],
         Flush(d, bits)
  PROVE  /\ latch' \in [Device -> [Pin -> BOOLEAN]]
         /\ lost' \in SUBSET Device
BY DEF Flush, PortsTypeOK

LEMMA WritePInv ==
  ASSUME PInv, NEW p \in Port, NEW on \in BOOLEAN, Write(p, on)
  PROVE  PInv'
<1> USE DEF PInv
<1>1. wiring' = wiring /\ told' = [told EXCEPT ![p] = IF on THEN "on" ELSE "off"]
  BY DEF Write
<1>2. Apart(wiring)'
  BY <1>1 DEF Apart
<1>3. told' \in [Port -> {"none", "on", "off"}]
  BY <1>1 DEF PortsTypeOK
<1>a. CASE wiring[p] \in OnDevice
  <2> DEFINE d == wiring[p][1]
             pin == wiring[p][2]
  <2>1. d \in Device /\ pin \in Pin /\ wiring[p] = <<d, pin>>
    BY <1>a, Parts
  <2>2. /\ shadow' = [shadow EXCEPT ![d][pin] = ~on]
        /\ Flush(d, shadow'[d])
        /\ UNCHANGED level
    BY <1>a, Kinds DEF Write, WritePin
  <2>3. shadow' \in [Device -> [Pin -> BOOLEAN]]
    BY <2>1, <2>2 DEF PortsTypeOK
  <2>4. PortsTypeOK'
    <3>1. shadow'[d] \in [Pin -> BOOLEAN]
      BY <2>1, <2>3
    <3>2. QED
      BY <1>1, <1>3, <2>1, <2>2, <2>3, <3>1, FlushTypes DEF PortsTypeOK
  <2>5. ShadowIsTold'
    <3> SUFFICES ASSUME NEW e \in Device, NEW q \in Pin
                 PROVE  shadow'[e][q] = ~ToldOn(<<e, q>>)'
      BY DEF ShadowIsTold
    <3>1. CASE <<e, q>> = wiring[p]
      <4>1. e = d /\ q = pin
        BY <3>1, <2>1
      <4>2. shadow'[e][q] = ~on
        BY <4>1, <2>1, <2>2 DEF PortsTypeOK
      <4>3. ToldOn(wiring[p])' <=> on
        BY <1>a, Kinds, WrittenPlace
      <4>4. ToldOn(<<e, q>>)' <=> on
        BY <4>3, <3>1, <1>1 DEF ToldOn
      <4>5. shadow'[e][q] \in BOOLEAN
        BY <2>3
      <4>6. QED
        BY <4>2, <4>4, <4>5 DEF ToldOn
    <3>2. CASE <<e, q>> # wiring[p]
      <4>1. ~(e = d /\ q = pin)
        BY <3>2, <2>1
      <4>2. shadow'[e][q] = shadow[e][q]
        BY <4>1, <2>1, <2>2 DEF PortsTypeOK
      <4>3. <<e, q>> # Nowhere
        BY Kinds
      <4>4. ToldOn(<<e, q>>)' <=> ToldOn(<<e, q>>)
        BY <3>2, <4>3, OtherPlaces
      <4>5. QED
        BY <4>2, <4>4 DEF ShadowIsTold, ToldOn
    <3>3. QED
      BY <3>1, <3>2
  <2>6. OutputsAreShadow'
    <3> SUFFICES ASSUME NEW q \in Port, wiring[q] \in OnDevice,
                        wiring[q][1] \notin lost'
                 PROVE  latch'[wiring[q][1]] = shadow'[wiring[q][1]]
      BY <1>1 DEF OutputsAreShadow
    <3>1. wiring[q][1] \in Device
      BY Parts
    <3>2. CASE wiring[q][1] = d
      <4>1. latch' = [latch EXCEPT ![d] = shadow'[d]]
        BY <2>2, <3>2 DEF Flush
      <4>2. QED
        BY <4>1, <3>2, <2>1 DEF PortsTypeOK
    <3>3. CASE wiring[q][1] # d
      <4>1. wiring[q][1] \notin lost
        BY <2>2, <3>3 DEF Flush
      <4>2. latch'[wiring[q][1]] = latch[wiring[q][1]]
        BY <2>2, <3>1, <3>3, <2>1 DEF Flush, PortsTypeOK
      <4>3. shadow'[wiring[q][1]] = shadow[wiring[q][1]]
        BY <2>2, <3>1, <3>3, <2>1 DEF PortsTypeOK
      <4>4. QED
        BY <4>1, <4>2, <4>3 DEF OutputsAreShadow
    <3>4. QED
      BY <3>2, <3>3
  <2>7. LevelIsTold'
    <3> SUFFICES ASSUME NEW q \in Port, wiring[q] \in Builtin
                 PROVE  level'[wiring[q]] = (told'[q] = "on")
      BY <1>1 DEF LevelIsTold
    <3>1. q # p
      BY <1>a, Kinds
    <3>2. QED
      BY <3>1, <1>1, <2>2 DEF LevelIsTold, PortsTypeOK
  <2>8. LevelNeedsPort'
    <3> SUFFICES ASSUME NEW b \in Builtin, level'[b]
                 PROVE  ToldOn(b)'
      BY DEF LevelNeedsPort
    <3>1. b # wiring[p] /\ b # Nowhere
      BY <1>a, Kinds
    <3>2. ToldOn(b)
      BY <2>2 DEF LevelNeedsPort
    <3>3. QED
      BY <3>1, <3>2, OtherPlaces
  <2>9. QED
    BY <1>2, <2>4, <2>5, <2>6, <2>7, <2>8
<1>b. CASE wiring[p] \in Builtin
  <2>1. /\ level' = [level EXCEPT ![wiring[p]] = on]
        /\ UNCHANGED <<shadow, latch, lost>>
    BY <1>b, Kinds DEF Write
  <2>2. PortsTypeOK'
    BY <1>1, <1>3, <2>1 DEF PortsTypeOK
  <2>3. ShadowIsTold'
    <3> SUFFICES ASSUME NEW e \in Device, NEW q \in Pin
                 PROVE  shadow'[e][q] = ~ToldOn(<<e, q>>)'
      BY DEF ShadowIsTold
    <3>1. <<e, q>> # wiring[p] /\ <<e, q>> # Nowhere
      BY <1>b, Kinds
    <3>2. ToldOn(<<e, q>>)' <=> ToldOn(<<e, q>>)
      BY <3>1, OtherPlaces
    <3>3. QED
      BY <3>2, <2>1 DEF ShadowIsTold, ToldOn
  <2>4. OutputsAreShadow'
    BY <1>1, <2>1 DEF OutputsAreShadow
  <2>5. LevelIsTold'
    <3> SUFFICES ASSUME NEW q \in Port, wiring[q] \in Builtin
                 PROVE  level'[wiring[q]] = (told'[q] = "on")
      BY <1>1 DEF LevelIsTold
    <3>1. CASE q = p
      BY <3>1, <1>1, <1>b, <2>1 DEF PortsTypeOK
    <3>2. CASE q # p
      <4>1. wiring[q] # wiring[p]
        BY <3>2, <1>b, Kinds DEF Apart
      <4>2. QED
        BY <4>1, <3>2, <1>1, <2>1 DEF LevelIsTold, PortsTypeOK
    <3>3. QED
      BY <3>1, <3>2
  <2>6. LevelNeedsPort'
    <3> SUFFICES ASSUME NEW b \in Builtin, level'[b]
                 PROVE  ToldOn(b)'
      BY DEF LevelNeedsPort
    <3>1. CASE b = wiring[p]
      <4>1. on
        BY <3>1, <2>1 DEF PortsTypeOK
      <4>2. told'[p] = "on" /\ wiring'[p] = b
        BY <4>1, <3>1, <1>1 DEF PortsTypeOK
      <4>3. QED
        BY <4>2 DEF ToldOn
    <3>2. CASE b # wiring[p]
      <4>1. ToldOn(b) /\ b # Nowhere
        BY <3>2, <2>1, Kinds DEF LevelNeedsPort, PortsTypeOK
      <4>2. QED
        BY <3>2, <4>1, OtherPlaces
    <3>3. QED
      BY <3>1, <3>2
  <2>7. QED
    BY <1>2, <2>2, <2>3, <2>4, <2>5, <2>6
<1>c. CASE wiring[p] = Nowhere
  <2>1. UNCHANGED <<level, shadow, latch, lost>>
    BY <1>c, Kinds DEF Write
  <2>2. PortsTypeOK'
    BY <1>1, <1>3, <2>1 DEF PortsTypeOK
  <2>3. ShadowIsTold'
    <3> SUFFICES ASSUME NEW e \in Device, NEW q \in Pin
                 PROVE  shadow'[e][q] = ~ToldOn(<<e, q>>)'
      BY DEF ShadowIsTold
    <3>1. <<e, q>> # Nowhere
      BY Kinds
    <3>2. ToldOn(<<e, q>>)' <=> ToldOn(<<e, q>>)
      BY <3>1, <1>c, OtherPlaces
    <3>3. QED
      BY <3>2, <2>1 DEF ShadowIsTold, ToldOn
  <2>4. OutputsAreShadow'
    BY <1>1, <2>1 DEF OutputsAreShadow
  <2>5. LevelIsTold'
    <3> SUFFICES ASSUME NEW q \in Port, wiring[q] \in Builtin
                 PROVE  level'[wiring[q]] = (told'[q] = "on")
      BY <1>1 DEF LevelIsTold
    <3>1. q # p
      BY <1>c, Kinds
    <3>2. QED
      BY <3>1, <1>1, <2>1 DEF LevelIsTold, PortsTypeOK
  <2>6. LevelNeedsPort'
    <3> SUFFICES ASSUME NEW b \in Builtin, level'[b]
                 PROVE  ToldOn(b)'
      BY DEF LevelNeedsPort
    <3>1. ToldOn(b) /\ b # Nowhere
      BY <2>1, Kinds DEF LevelNeedsPort
    <3>2. QED
      BY <3>1, <1>c, OtherPlaces
  <2>7. QED
    BY <1>2, <2>2, <2>3, <2>4, <2>5, <2>6
<1>4. wiring[p] \in Place
  BY DEF PortsTypeOK
<1>5. QED
  BY <1>4, <1>a, <1>b, <1>c DEF Place

\* A start, from whatever the expanders put out before.
LEMMA ConstructPInv ==
  ASSUME NEW w \in [Port -> Place], NEW configured \in SUBSET Device,
         NEW outputs \in [Device -> [Pin -> BOOLEAN]],
         Configured(w, configured), Construct(w, configured, outputs)
  PROVE  PInv'
<1>1. PICK arrived \in SUBSET configured, missed \in SUBSET configured :
        /\ configured \ arrived \subseteq missed
        /\ lost' = missed
        /\ latch' = [d \in Device |-> IF d \in arrived THEN AllHigh ELSE outputs[d]]
  BY DEF Construct
<1>2. /\ wiring' = w
      /\ shadow' = [d \in Device |-> AllHigh]
      /\ told' = [p \in Port |-> "none"]
      /\ level' = [b \in Builtin |-> FALSE]
  BY DEF Construct
<1>3. AllHigh \in [Pin -> BOOLEAN]
  BY DEF AllHigh
<1>4. PortsTypeOK'
  BY <1>1, <1>2, <1>3 DEF PortsTypeOK
<1>5. Apart(wiring)'
  BY <1>2 DEF Configured, Apart
<1>6. ShadowIsTold'
  BY <1>2 DEF ShadowIsTold, ToldOn, AllHigh
<1>7. OutputsAreShadow'
  <2> SUFFICES ASSUME NEW p \in Port, w[p] \in OnDevice, w[p][1] \notin missed
               PROVE  latch'[w[p][1]] = shadow'[w[p][1]]
    BY <1>1, <1>2 DEF OutputsAreShadow
  <2>1. w[p][1] \in Device /\ w[p][1] \in arrived
    BY <1>1, Parts DEF Configured
  <2>2. QED
    BY <2>1, <1>1, <1>2
<1>8. LevelIsTold' /\ LevelNeedsPort'
  BY <1>2 DEF LevelIsTold, LevelNeedsPort
<1>9. QED
  BY <1>4, <1>5, <1>6, <1>7, <1>8 DEF PInv

LEMMA NextPInv == PInv /\ [PortsNext]_portVars => PInv'
<1> SUFFICES ASSUME PInv, [PortsNext]_portVars PROVE PInv'
  OBVIOUS
<1>1. ASSUME NEW p \in Port, NEW on \in BOOLEAN, Write(p, on) PROVE PInv'
  BY <1>1, WritePInv
<1>2. ASSUME NEW w \in [Port -> Place], NEW configured \in SUBSET Device,
             RestartPorts(w, configured)
      PROVE  PInv'
  BY <1>2, ConstructPInv DEF RestartPorts, PInv, PortsTypeOK
<1>3. ASSUME NEW w \in [Port -> Place], NEW configured \in SUBSET Device,
             PowerUpPorts(w, configured)
      PROVE  PInv'
  <2>1. [d \in Device |-> AllHigh] \in [Device -> [Pin -> BOOLEAN]]
    BY DEF AllHigh
  <2>2. QED
    BY <1>3, <2>1, ConstructPInv DEF PowerUpPorts
<1>4. CASE UNCHANGED portVars
  <2>1. /\ wiring' = wiring /\ shadow' = shadow /\ latch' = latch
        /\ level' = level /\ told' = told /\ lost' = lost
    BY <1>4 DEF portVars
  <2>2. PortsTypeOK' /\ Apart(wiring)'
    BY <2>1 DEF PInv, PortsTypeOK, Apart
  <2>3. ASSUME NEW place PROVE ToldOn(place)' = ToldOn(place)
    BY <2>1 DEF ToldOn
  <2>4. ShadowIsTold'
    BY <2>1, <2>3 DEF PInv, ShadowIsTold
  <2>5. OutputsAreShadow' /\ LevelIsTold'
    BY <2>1 DEF PInv, OutputsAreShadow, LevelIsTold
  <2>6. LevelNeedsPort'
    BY <2>1, <2>3 DEF PInv, LevelNeedsPort
  <2>7. QED
    BY <2>2, <2>4, <2>5, <2>6 DEF PInv
<1>5. QED
  BY <1>1, <1>2, <1>3, <1>4 DEF PortsNext

-----------------------------------------------------------------------------
(* Results *)

\* The inductive invariant holds in every reachable state.
THEOREM PortsInvariant == PortsSpec => []PInv
BY InitPInv, NextPInv, PTL DEF PortsSpec

\* Type correctness of the ports.
THEOREM PortsTypeCorrect == PortsSpec => []PortsTypeOK
<1>1. PInv => PortsTypeOK
  BY DEF PInv
<1>2. QED
  BY <1>1, PortsInvariant, PTL

\* PcfGpioPort and BuiltinGpioPort: every relay is where its port was told to
\* be, but for an expander that missed the last transmission, for any number of
\* ports that share expanders in any way.
THEOREM RelaysAreWhereTold == PortsSpec => []RelaysFollow
<1>1. PInv => RelaysFollow
  <2> SUFFICES ASSUME PInv, NEW p \in Port, wiring[p] # Nowhere,
                      ~(wiring[p] \in OnDevice /\ wiring[p][1] \in lost)
               PROVE  Coil(wiring[p]) = (told[p] = "on")
    BY DEF RelaysFollow
  <2> USE DEF PInv
  <2>1. CASE wiring[p] \in OnDevice
    <3>1. /\ wiring[p][1] \in Device /\ wiring[p][2] \in Pin
          /\ wiring[p] = <<wiring[p][1], wiring[p][2]>>
      BY <2>1, Parts
    <3>2. latch[wiring[p][1]][wiring[p][2]] = ~ToldOn(wiring[p])
      BY <2>1, <3>1 DEF OutputsAreShadow, ShadowIsTold
    <3>3. Coil(wiring[p]) <=> ToldOn(wiring[p])
      BY <2>1, <3>2, Kinds DEF Coil
    <3>4. QED
      BY <3>3, OwnPlace DEF Coil
  <2>2. CASE wiring[p] \in Builtin
    BY <2>2, Kinds DEF Coil, LevelIsTold
  <2>3. QED
    BY <2>1, <2>2 DEF PortsTypeOK, Place
<1>2. QED
  BY <1>1, PortsInvariant, PTL

\* A write moves a relay only to where it is told to be.
LEMMA WriteMovesAsTold ==
  ASSUME PInv, PInv', NEW p \in Port, NEW on \in BOOLEAN, Write(p, on),
         NEW place \in Place, Coil(place)' # Coil(place)
  PROVE  Coil(place)' = ToldOn(place)'
<1> USE DEF PInv
<1>1. CASE place \in OnDevice
  <2>1. /\ place[1] \in Device /\ place[2] \in Pin
        /\ place = <<place[1], place[2]>>
    BY <1>1, Parts
  <2>2. latch'[place[1]][place[2]] # latch[place[1]][place[2]]
    BY <1>1, Kinds DEF Coil
  <2>3. latch'[place[1]] = shadow'[place[1]]
    BY <2>1, <2>2 DEF Write, WritePin, Flush, PortsTypeOK
  <2>4. shadow'[place[1]][place[2]] = ~ToldOn(place)'
    BY <2>1 DEF ShadowIsTold, ToldOn
  <2>5. Coil(place)' <=> ~latch'[place[1]][place[2]]
    BY <1>1, Kinds DEF Coil
  <2>6. Coil(place)' <=> ToldOn(place)'
    BY <2>3, <2>4, <2>5 DEF ToldOn
  <2>7. QED
    BY <2>6 DEF Coil, ToldOn
<1>2. CASE place \in Builtin
  <2>1. level'[place] # level[place]
    BY <1>2, Kinds DEF Coil
  <2>2. wiring[p] = place /\ level'[place] = on
    BY <1>2, <2>1, Kinds DEF Write, PortsTypeOK
  <2>3. Coil(place)' <=> on
    BY <1>2, <2>2, Kinds DEF Coil
  <2>4. ToldOn(place)' <=> on
    <3>1. ToldOn(wiring[p])' <=> on
      BY <1>2, <2>2, Kinds, WrittenPlace
    <3>2. wiring' = wiring
      BY DEF Write
    <3>3. QED
      BY <3>1, <3>2, <2>2 DEF ToldOn
  <2>5. QED
    BY <2>3, <2>4 DEF Coil, ToldOn
<1>3. CASE place = Nowhere
  BY <1>3, Kinds DEF Coil
<1>4. QED
  BY <1>1, <1>2, <1>3 DEF Place

\* A start moves relays to off only, and no port is told to be on.
LEMMA StartMovesAsTold ==
  ASSUME NEW w \in [Port -> Place], NEW configured \in SUBSET Device,
         NEW outputs \in [Device -> [Pin -> BOOLEAN]],
         Construct(w, configured, outputs),
         \A d \in Device : outputs[d] \in {latch[d], AllHigh},
         NEW place \in Place, Coil(place)' # Coil(place)
  PROVE  Coil(place)' = ToldOn(place)'
<1>1. PICK arrived \in SUBSET configured :
        latch' = [d \in Device |-> IF d \in arrived THEN AllHigh ELSE outputs[d]]
  BY DEF Construct
<1>2. ~ToldOn(place)'
  BY DEF Construct, ToldOn
<1>3. ~Coil(place)'
  <2>1. CASE place \in OnDevice
    <3>1. place[1] \in Device /\ place[2] \in Pin
      BY <2>1, Parts
    <3>2. latch'[place[1]][place[2]] # latch[place[1]][place[2]]
      BY <2>1, Kinds DEF Coil
    <3>3. latch'[place[1]] = AllHigh
      BY <1>1, <3>1, <3>2
    <3>4. latch'[place[1]][place[2]]
      BY <3>1, <3>3 DEF AllHigh
    <3>5. QED
      BY <2>1, <3>4, Kinds DEF Coil
  <2>2. CASE place \in Builtin
    BY <2>2, Kinds DEF Coil, Construct
  <2>3. CASE place = Nowhere
    BY <2>3, Kinds DEF Coil
  <2>4. QED
    BY <2>1, <2>2, <2>3 DEF Place
<1>4. QED
  BY <1>2, <1>3 DEF Coil, ToldOn

\* PcfDevice::flush: whoever causes a transmission, and whatever was lost
\* before, no relay ever moves against what its port was told.
THEOREM NoRelayMovesUntold == PortsSpec => RelaysMoveAsTold
<1>1. ASSUME PInv, PInv', [PortsNext]_portVars
      PROVE  [\A place \in Place :
                Coil(place)' # Coil(place) => Coil(place)' = ToldOn(place)']_portVars
  <2> SUFFICES ASSUME PortsNext, NEW place \in Place,
                      Coil(place)' # Coil(place)
               PROVE  Coil(place)' = ToldOn(place)'
    BY <1>1
  <2>1. ASSUME NEW p \in Port, NEW on \in BOOLEAN, Write(p, on)
        PROVE  Coil(place)' = ToldOn(place)'
    BY <1>1, <2>1, WriteMovesAsTold
  <2>2. ASSUME NEW w \in [Port -> Place], NEW configured \in SUBSET Device,
               RestartPorts(w, configured)
        PROVE  Coil(place)' = ToldOn(place)'
    BY <1>1, <2>2, StartMovesAsTold DEF RestartPorts, PInv, PortsTypeOK
  <2>3. ASSUME NEW w \in [Port -> Place], NEW configured \in SUBSET Device,
               PowerUpPorts(w, configured)
        PROVE  Coil(place)' = ToldOn(place)'
    <3> DEFINE outputs == [d \in Device |-> AllHigh]
    <3>1. outputs \in [Device -> [Pin -> BOOLEAN]]
      BY DEF AllHigh
    <3>2. \A d \in Device : outputs[d] = AllHigh
      OBVIOUS
    <3>3. Construct(w, configured, outputs)
      BY <2>3 DEF PowerUpPorts
    <3> HIDE DEF outputs
    <3>4. QED
      BY <3>1, <3>2, <3>3, StartMovesAsTold
  <2>4. QED
    BY <2>1, <2>2, <2>3 DEF PortsNext
<1>2. QED
  BY <1>1, PortsInvariant, PTL DEF PortsSpec, RelaysMoveAsTold

-----------------------------------------------------------------------------
(* Wiring implements Ports *)

\* Whatever is saved, loaded, written and restarted, the ports built from the
\* settings (createBoilerPort, createValvePorts, handleValve) behave as Ports.
THEOREM WiringImplementsPorts == WiringSpec => PortsSpec
<1>1. WiringInit => PortsInit
  BY DEF WiringInit
<1>2. [WiringNext]_wiringVars => [PortsNext]_portVars
  <2> SUFFICES ASSUME [WiringNext]_wiringVars PROVE [PortsNext]_portVars
    OBVIOUS
  <2>1. CASE SaveHardware
    BY <2>1 DEF SaveHardware
  <2>2. CASE ReloadConfiguration
    BY <2>2 DEF ReloadConfiguration
  <2>3. CASE WritePort
    BY <2>3 DEF WritePort, PortsNext
  <2>4. CASE Restart
    <3> DEFINE w == CreatePorts(stored)
               configured == Contents(stored).extenders
    <3>1. RestartPorts(w, configured)
      BY <2>4 DEF Restart
    <3>2. w \in [Port -> Place] /\ configured \in SUBSET Device
      BY <3>1 DEF RestartPorts, Configured
    <3> HIDE DEF w, configured
    <3>3. QED
      BY <3>1, <3>2 DEF PortsNext
  <2>5. CASE PowerUp
    <3> DEFINE w == CreatePorts(stored)
               configured == Contents(stored).extenders
    <3>1. PowerUpPorts(w, configured)
      BY <2>5 DEF PowerUp
    <3>2. w \in [Port -> Place] /\ configured \in SUBSET Device
      BY <3>1 DEF PowerUpPorts, Configured
    <3> HIDE DEF w, configured
    <3>3. QED
      BY <3>1, <3>2 DEF PortsNext
  <2>6. CASE UNCHANGED wiringVars
    BY <2>6 DEF wiringVars
  <2>7. QED
    BY <2>1, <2>2, <2>3, <2>4, <2>5, <2>6 DEF WiringNext
<1>3. QED
  BY <1>1, <1>2, PTL DEF WiringSpec, PortsSpec

\* So with any settings, whenever they are saved and used, the relays are where
\* their ports were told to be, and none moves otherwise.
THEOREM WiredRelaysFollow == WiringSpec => []RelaysFollow /\ RelaysMoveAsTold
BY WiringImplementsPorts, RelaysAreWhereTold, NoRelayMovesUntold, PTL

-----------------------------------------------------------------------------
(* The rows of the settings *)

\* The form of induction used below, without an operator: a set that has 0 and
\* with each number the next one has them all.
LEMMA UpTo ==
  ASSUME NEW n \in Nat, NEW T, 0 \in T, \A k \in 1 .. n : k - 1 \in T => k \in T
  PROVE  0 .. n \subseteq T
<1> DEFINE Missing == {k \in 0 .. n : k \notin T}
<1>1. SUFFICES ASSUME Missing # {} PROVE FALSE
  OBVIOUS
<1>2. PICK m \in Missing : \A k \in Missing : ~(k < m)
  <2>1. PICK m \in Missing : \A k \in Missing : <<k, m>> \notin OpToRel(<, Nat)
    <3>1. Missing \subseteq Nat
      OBVIOUS
    <3> HIDE DEF Missing
    <3>2. QED
      BY <1>1, <3>1, NatLessThanWellFounded, WFMin
  <2>2. \A k \in Missing : k \in Nat
    OBVIOUS
  <2> HIDE DEF Missing
  <2>3. QED
    BY <2>1, <2>2 DEF OpToRel
<1>3. m \in 1 .. n /\ m - 1 \in 0 .. n /\ m - 1 < m
  BY <1>2
<1>4. QED
  BY <1>2, <1>3

Entry == [place : Place, label : Label \cup {Unnamed}]

\* The pins of the first n rows, given those of fewer.
PinsAfter(rows, pins, n) ==
  IF n = 0 THEN <<>>
  ELSE IF rows[n] = NotUsed THEN pins[n - 1]
  ELSE Append(pins[n - 1], rows[n])

ArePins(rows, pins) ==
  pins = [n \in 0 .. Len(rows) |-> PinsAfter(rows, pins, n)]

LEMMA PinsChosen ==
  ASSUME NEW file
  PROVE  ValvePins(file) =
           (CHOOSE pins : ArePins(Contents(file).valves, pins))
             [Len(Contents(file).valves)]
BY Zenon DEF ValvePins, ArePins, PinsAfter

LEMMA PinsExist ==
  ASSUME NEW rows \in Seq(Entry)
  PROVE  \E pins : ArePins(rows, pins)
<1> DEFINE PinsTo(n, pins) == /\ pins \in [0 .. n -> Seq(Entry)]
                              /\ \A k \in 0 .. n : pins[k] = PinsAfter(rows, pins, k)
           There == {n \in 0 .. Len(rows) : \E pins : PinsTo(n, pins)}
<1>1. Len(rows) \in Nat /\ \A i \in 1 .. Len(rows) : rows[i] \in Entry
  OBVIOUS
<1>2. 0 \in There
  <2> DEFINE pins == [k \in 0 .. 0 |-> <<>>]
  <2>1. pins \in [0 .. 0 -> Seq(Entry)]
    OBVIOUS
  <2>2. \A k \in 0 .. 0 : pins[k] = PinsAfter(rows, pins, k)
    BY DEF PinsAfter
  <2>3. PinsTo(0, pins)
    BY <2>1, <2>2
  <2>4. 0 \in 0 .. Len(rows)
    BY <1>1
  <2> HIDE DEF PinsTo, pins
  <2>5. QED
    BY <2>3, <2>4
<1>3. ASSUME NEW n \in 1 .. Len(rows), n - 1 \in There
      PROVE  n \in There
  <2>1. PICK pins : PinsTo(n - 1, pins)
    BY <1>3
  <2> DEFINE more == [k \in 0 .. n |->
                        IF k = n THEN PinsAfter(rows, pins, n) ELSE pins[k]]
  <2>2. n - 1 \in 0 .. n - 1 /\ pins[n - 1] \in Seq(Entry)
    BY <1>1, <2>1
  <2>3. PinsAfter(rows, pins, n) \in Seq(Entry)
    BY <1>1, <2>2 DEF PinsAfter
  <2>4. more \in [0 .. n -> Seq(Entry)]
    <3>1. ASSUME NEW k \in 0 .. n PROVE k = n \/ k \in 0 .. n - 1
      BY <1>1
    <3>2. QED
      BY <2>1, <2>3, <3>1
  <2>5. ASSUME NEW k \in 0 .. n
        PROVE  more[k] = PinsAfter(rows, more, k)
    <3>1. k = n \/ k \in 0 .. n - 1
      BY <1>1
    <3>2. k # 0 => k - 1 \in 0 .. n - 1 /\ k - 1 \in 0 .. n /\ k - 1 # n
      BY <1>1
    <3>3. PinsAfter(rows, more, k) = PinsAfter(rows, pins, k)
      BY <3>2 DEF PinsAfter
    <3>4. QED
      BY <2>1, <3>1, <3>3
  <2>6. PinsTo(n, more)
    BY <2>4, <2>5
  <2>7. n \in 0 .. Len(rows)
    BY <1>1
  <2> HIDE DEF PinsTo
  <2>8. QED
    BY <2>6, <2>7
<1>4. 0 .. Len(rows) \subseteq There
  <2> HIDE DEF There
  <2>1. QED
    BY <1>1, <1>2, <1>3, UpTo
<1>5. Len(rows) \in There
  BY <1>1, <1>4
<1>6. PICK pins : PinsTo(Len(rows), pins)
  <2> HIDE DEF PinsTo
  <2>1. QED
    BY <1>5
<1>7. ArePins(rows, pins)
  BY <1>6 DEF ArePins
<1>8. QED
  BY <1>7

\* Of the first n elements of s, p is the last one with this label.
IsLast(s, n, label, p) ==
  /\ p \in 1 .. n /\ s[p].label = label
  /\ \A q \in 1 .. n : s[q].label = label => q <= p

\* The pins of n rows have the labels of the rows, and the last pin with a
\* label is the last row with it.
Agree(rows, n, pins, label) ==
  /\ pins \in Seq(Entry) /\ Len(pins) <= n
  /\ (\E r \in 1 .. n : rows[r].label = label)
       <=> (\E p \in 1 .. Len(pins) : pins[p].label = label)
  /\ \A p : IsLast(pins, Len(pins), label, p)
              => \E r : IsLast(rows, n, label, r) /\ pins[p] = rows[r]

LEMMA AgreeNext ==
  ASSUME NEW rows \in Seq(Entry), NEW n \in 1 .. Len(rows), NEW label \in Label,
         NEW pins, Agree(rows, n - 1, pins, label)
  PROVE  /\ rows[n] = NotUsed => Agree(rows, n, pins, label)
         /\ rows[n] # NotUsed => Agree(rows, n, Append(pins, rows[n]), label)
<1> DEFINE m == Len(pins)
           more == Append(pins, rows[n])
<1>1. /\ n \in Nat /\ rows[n] \in Entry /\ m \in Nat /\ m <= n - 1
      /\ pins \in Seq(Entry)
  BY DEF Agree
<1>2. /\ more \in Seq(Entry) /\ Len(more) = m + 1
      /\ more[m + 1] = rows[n] /\ \A p \in 1 .. m : more[p] = pins[p]
  BY <1>1
<1>3. \A k \in 1 .. n : k = n \/ k \in 1 .. n - 1
  BY <1>1
<1>4. \A k \in 1 .. m + 1 : k = m + 1 \/ k \in 1 .. m
  BY <1>1
<1>5. \A k \in 1 .. n - 1 : k \in 1 .. n /\ k <= n /\ k # n
  BY <1>1
<1>6. \A k \in 1 .. m : k \in 1 .. m + 1 /\ k <= m + 1 /\ k # m + 1
  BY <1>1
<1>7. n \in 1 .. n /\ m + 1 \in 1 .. m + 1 /\ m + 1 <= n /\ n <= n /\ m + 1 <= m + 1
  BY <1>1
<1>8. CASE rows[n].label # label
  <2>1. (\E r \in 1 .. n : rows[r].label = label)
          <=> (\E r \in 1 .. n - 1 : rows[r].label = label)
    BY <1>3, <1>5, <1>8
  <2>2. ASSUME NEW r, IsLast(rows, n - 1, label, r)
        PROVE  IsLast(rows, n, label, r)
    BY <1>3, <1>5, <1>8, <2>2 DEF IsLast
  <2>3. CASE rows[n] = NotUsed
    BY <1>1, <2>1, <2>2, <2>3 DEF Agree
  <2>4. CASE rows[n] # NotUsed
    <3>1. (\E p \in 1 .. Len(more) : more[p].label = label)
            <=> (\E p \in 1 .. m : pins[p].label = label)
      BY <1>2, <1>4, <1>6, <1>8
    <3>2. ASSUME NEW p, IsLast(more, Len(more), label, p)
          PROVE  IsLast(pins, m, label, p) /\ more[p] = pins[p]
      <4>1. p \in 1 .. m
        BY <1>2, <1>4, <1>8, <3>2 DEF IsLast
      <4>2. QED
        BY <1>2, <1>6, <3>2, <4>1 DEF IsLast
    <3>3. \A p : IsLast(more, Len(more), label, p)
                   => \E r : IsLast(rows, n, label, r) /\ more[p] = rows[r]
      BY <2>2, <3>2 DEF Agree
    <3>4. Agree(rows, n, more, label)
      BY <1>1, <1>2, <1>7, <2>1, <3>1, <3>3 DEF Agree
    <3>5. QED
      BY <2>4, <3>4
  <2>5. QED
    BY <2>3, <2>4
<1>9. CASE rows[n].label = label
  <2>1. rows[n] # NotUsed
    BY <1>9, WiringAssumption DEF NotUsed
  <2>2. IsLast(rows, n, label, n)
    BY <1>1, <1>7, <1>9 DEF IsLast
  <2>3. ASSUME NEW p, IsLast(more, Len(more), label, p)
        PROVE  p = m + 1
    BY <1>1, <1>2, <1>6, <1>7, <1>9, <2>3 DEF IsLast
  <2>4. Agree(rows, n, more, label)
    <3>1. more[m + 1].label = label
      BY <1>2, <1>9
    <3>2. \A p : IsLast(more, Len(more), label, p)
                   => \E r : IsLast(rows, n, label, r) /\ more[p] = rows[r]
      BY <1>2, <2>2, <2>3
    <3> HIDE DEF more
    <3>3. QED
      BY <1>2, <1>7, <1>9, <3>1, <3>2 DEF Agree
  <2>5. QED
    BY <2>1, <2>4
<1>10. QED
  BY <1>8, <1>9

LEMMA PinsAgree ==
  ASSUME NEW file, Contents(file).valves \in Seq(Entry), NEW label \in Label
  PROVE  Agree(Contents(file).valves, Len(Contents(file).valves),
               ValvePins(file), label)
<1> DEFINE rows == Contents(file).valves
           pins == CHOOSE f : ArePins(rows, f)
           T == {k \in 0 .. Len(rows) : Agree(rows, k, pins[k], label)}
<1>1. rows \in Seq(Entry) /\ Len(rows) \in Nat
  OBVIOUS
<1>2. ArePins(rows, pins)
  <2> HIDE DEF rows
  <2>1. QED
    BY <1>1, PinsExist
<1>3. ValvePins(file) = pins[Len(rows)]
  BY PinsChosen, Zenon
<1> HIDE DEF rows, pins
<1>4. \A k \in 0 .. Len(rows) : pins[k] = PinsAfter(rows, pins, k)
  BY <1>1, <1>2 DEF ArePins
<1>5. 0 \in T
  <2>1. pins[0] = <<>>
    BY <1>1, <1>4 DEF PinsAfter
  <2>2. Agree(rows, 0, <<>>, label)
    BY DEF Agree, IsLast
  <2>3. QED
    BY <1>1, <2>1, <2>2
<1>6. ASSUME NEW k \in 1 .. Len(rows), k - 1 \in T
      PROVE  k \in T
  <2>1. k \in 0 .. Len(rows) /\ k # 0
    BY <1>1
  <2>2. pins[k] = IF rows[k] = NotUsed THEN pins[k - 1]
                  ELSE Append(pins[k - 1], rows[k])
    BY <1>4, <2>1 DEF PinsAfter
  <2>3. Agree(rows, k, pins[k], label)
    BY <1>1, <1>6, <2>2, AgreeNext
  <2>4. QED
    BY <2>1, <2>3
<1>7. 0 .. Len(rows) \subseteq T
  <2> HIDE DEF T
  <2>1. QED
    BY <1>1, <1>5, <1>6, UpTo
<1>8. Agree(rows, Len(rows), pins[Len(rows)], label)
  BY <1>1, <1>7
<1>9. QED
  BY <1>3, <1>8 DEF rows

\* What the controller built its ports and its map from.
WInv ==
  /\ stored \in Settings \cup {Broken}
  /\ booted \in Settings \cup {Broken}
  /\ wiring = CreatePorts(booted)
  /\ valveLabelMap = BuildValveLabelMap(booted)

LEMMA RowsOf ==
  ASSUME NEW file \in Settings \cup {Broken}
  PROVE  LET rows == Contents(file).valves
         IN  rows \in Seq(Entry) /\ Len(rows) <= MaxValves
<1>1. CASE file = Broken
  BY <1>1, WiringAssumption DEF Contents, NoSettings
<1>2. CASE file # Broken
  BY <1>2, WiringAssumption DEF Contents, Entry
<1>3. QED
  BY <1>1, <1>2

\* How the port of a circuit was created.
LEMMA PortOf ==
  ASSUME NEW file \in Settings \cup {Broken},
         NEW p \in 1 .. Len(ValvePins(file)), p <= MaxValves
  PROVE  CreatePorts(file)[p] = CreateGpioPort(file, ValvePins(file)[p].place)
<1>1. p \in Port /\ p # 0
  BY WiringAssumption
<1>2. QED
  BY <1>1 DEF CreatePorts

\* A set of numbers up to a bound has a greatest one.
LEMMA Greatest ==
  ASSUME NEW n \in Nat, NEW S, S \subseteq 1 .. n, S # {}
  PROVE  \E p \in S : \A q \in S : q <= p
<1> DEFINE T == {k \in 0 .. n : \/ \A q \in S : q > k
                                \/ \E p \in S : \A q \in S : q <= k => q <= p}
<1>1. 0 \in T
  OBVIOUS
<1>2. ASSUME NEW k \in 1 .. n, k - 1 \in T
      PROVE  k \in T
  <2>1. CASE k \in S
    BY <2>1
  <2>2. CASE k \notin S
    <3>1. \A q \in S : q <= k => q <= k - 1
      BY <2>2
    <3>2. QED
      BY <1>2, <3>1
  <2>3. QED
    BY <2>1, <2>2
<1>3. n \in T
  <2> HIDE DEF T
  <2>1. 0 .. n \subseteq T
    BY <1>1, <1>2, UpTo
  <2>2. QED
    BY <2>1
<1>4. \A q \in S : q <= n /\ ~(q > n)
  OBVIOUS
<1>5. QED
  BY <1>3, <1>4

LEMMA NamesOfSettings ==
  ASSUME WInv
  PROVE  NamesMeanTheirCircuits
<1> SUFFICES ASSUME wanted \in Label PROVE NamesMeanTheirCircuits
  BY DEF NamesMeanTheirCircuits
<1> DEFINE rows == Contents(booted).valves
           pins == ValvePins(booted)
           R == {i \in DOMAIN rows : rows[i] # NotUsed /\ rows[i].label = wanted}
           L == {p \in DOMAIN pins : pins[p].label = wanted}
           circuit == {p \in L : \A q \in L : q <= p}
<1>1. rows \in Seq(Entry) /\ Len(rows) <= MaxValves /\ Len(rows) \in Nat
  BY RowsOf DEF WInv
<1>2. Agree(rows, Len(rows), pins, wanted)
  BY <1>1, PinsAgree
<1>3. pins \in Seq(Entry) /\ Len(pins) \in Nat /\ Len(pins) <= MaxValves
  BY <1>1, <1>2, WiringAssumption DEF Agree
<1>4. valveLabelMap[wanted] = circuit
  BY DEF WInv, BuildValveLabelMap, Name, Labelled
<1>5. \A p \in 1 .. Len(pins) :
        wiring[p] = IF /\ pins[p].place \in OnDevice
                       /\ pins[p].place[1] \notin Contents(booted).extenders
                    THEN Nowhere ELSE pins[p].place
  <2> SUFFICES ASSUME NEW p \in 1 .. Len(pins)
               PROVE  wiring[p] = CreateGpioPort(booted, pins[p].place)
    BY DEF CreateGpioPort
  <2>1. p <= MaxValves
    BY <1>3, WiringAssumption
  <2>2. QED
    BY <2>1, PortOf DEF WInv
<1>6. /\ DOMAIN rows = 1 .. Len(rows) /\ DOMAIN pins = 1 .. Len(pins)
  BY <1>1, <1>3
<1> HIDE DEF rows, pins
<1>7. R = {i \in 1 .. Len(rows) : rows[i].label = wanted}
  BY <1>6, WiringAssumption DEF NotUsed
<1>8. (R = {}) <=> (L = {})
  BY <1>2, <1>6, <1>7 DEF Agree
<1>9. (circuit = {}) <=> (L = {})
  <2>1. L \subseteq 1 .. Len(pins)
    BY <1>6
  <2> HIDE DEF L
  <2>2. QED
    BY <1>3, <2>1, Greatest
<1>10. ASSUME NEW p \in circuit
       PROVE  \E r \in R : /\ \A i \in R : i <= r
                           /\ p \in 1 .. Len(pins) /\ pins[p] = rows[r]
  <2>1. IsLast(pins, Len(pins), wanted, p)
    BY <1>6 DEF IsLast
  <2>2. PICK r : IsLast(rows, Len(rows), wanted, r) /\ pins[p] = rows[r]
    BY <1>2, <2>1 DEF Agree
  <2>3. QED
    BY <1>7, <2>1, <2>2 DEF IsLast
<1>11. (valveLabelMap[wanted] = {}) = (R = {})
  <2> HIDE DEF R, L, circuit
  <2>1. QED
    BY <1>4, <1>8, <1>9
<1>12. ASSUME NEW p \in valveLabelMap[wanted]
       PROVE  \E r \in R :
                /\ \A i \in R : i <= r
                /\ wiring[p] = IF /\ rows[r].place \in OnDevice
                                  /\ rows[r].place[1] \notin Contents(booted).extenders
                               THEN Nowhere ELSE rows[r].place
  <2>1. PICK r \in R : /\ \A i \in R : i <= r
                       /\ p \in 1 .. Len(pins) /\ pins[p] = rows[r]
    BY <1>4, <1>10, <1>12
  <2> HIDE DEF R, L, circuit
  <2>2. QED
    BY <1>5, <2>1
<1>13. QED
  BY <1>11, <1>12 DEF NamesMeanTheirCircuits, rows

LEMMA InitWInv == WiringInit => WInv
<1> SUFFICES ASSUME WiringInit PROVE WInv
  OBVIOUS
<1>1. ValvePins(Broken) = <<>>
  <2> DEFINE rows == Contents(Broken).valves
             pins == CHOOSE f : ArePins(rows, f)
  <2>1. rows = <<>> /\ rows \in Seq(Entry) /\ Len(rows) = 0
    BY DEF Contents, NoSettings
  <2>2. ValvePins(Broken) = pins[Len(rows)]
    BY PinsChosen, Zenon
  <2> HIDE DEF rows
  <2>3. ArePins(rows, pins)
    BY <2>1, PinsExist
  <2> HIDE DEF pins
  <2>4. pins[0] = <<>>
    BY <2>1, <2>3 DEF ArePins, PinsAfter
  <2>5. QED
    BY <2>1, <2>2, <2>4
<1>2. \A p \in Port : CreatePorts(Broken)[p] = Nowhere
  BY <1>1 DEF CreatePorts, CreateGpioPort, Contents, NoSettings, NotUsed
<1>3. wiring = CreatePorts(Broken)
  BY <1>2 DEF WiringInit, PortsInit, CreatePorts
<1>4. QED
  BY <1>3 DEF WiringInit, WInv

LEMMA NextWInv == WInv /\ [WiringNext]_wiringVars => WInv'
<1> SUFFICES ASSUME WInv, [WiringNext]_wiringVars PROVE WInv'
  OBVIOUS
<1>1. CASE SaveHardware
  BY <1>1 DEF SaveHardware, WInv, portVars
<1>2. CASE ReloadConfiguration
  BY <1>2 DEF ReloadConfiguration, WInv, portVars
<1>3. CASE WritePort
  BY <1>3 DEF WritePort, Write, WInv
<1>4. ASSUME wiring' = CreatePorts(stored), Construction
      PROVE  WInv'
  BY <1>4 DEF Construction, WInv
<1>5. CASE Restart
  BY <1>4, <1>5 DEF Restart, RestartPorts, Construct
<1>6. CASE PowerUp
  BY <1>4, <1>6 DEF PowerUp, PowerUpPorts, Construct
<1>7. CASE UNCHANGED wiringVars
  BY <1>7 DEF wiringVars, portVars, WInv
<1>8. QED
  BY <1>1, <1>2, <1>3, <1>5, <1>6, <1>7 DEF WiringNext

\* buildValveLabelMap, createValvePorts: for any settings, however often they
\* are saved, a room's name moves the relay of the last row that carries it.
THEOREM NamesAreTheirRows == WiringSpec => []NamesMeanTheirCircuits
BY InitWInv, NextWInv, NamesOfSettings, PTL DEF WiringSpec
=============================================================================
