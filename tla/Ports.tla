------------------------------- MODULE Ports -------------------------------
(***************************************************************************)
(* The ports of the boiler's relay and of the valves (src/src/GpioPort.h,    *)
(* BuiltinGpioPort.h, PcfGpioPort.h): pins of the ESP32 and pins of I2C port   *)
(* expanders.  An expander takes all of its pins in one transmission, so the  *)
(* ports on it share a shadow of its register; whether a transmission         *)
(* arrived, nobody looks.  An expander keeps its outputs when the ESP32 alone *)
(* restarts.                                                                  *)
(*                                                                         *)
(* Boiler takes a port for the level last written to it; this module says     *)
(* when the relay is there too.                                               *)
(***************************************************************************)

CONSTANTS
  Port,      \* the ports that may be constructed
  Device,    \* port expanders on the I2C bus
  Pin,       \* pins of an expander
  Builtin,   \* pins of the ESP32
  Nowhere    \* NullGpioPort

OnDevice == Device \X Pin
Place    == OnDevice \cup Builtin \cup {Nowhere}

ASSUME PortsAssumption ==
  /\ Builtin \cap OnDevice = {}
  /\ Nowhere \notin Builtin \cup OnDevice

VARIABLES
  wiring,   \* the place of each port constructed, Nowhere for the others
  shadow,   \* PcfDevice::shadow, TRUE where a bit is HIGH
  latch,    \* the outputs of the expanders, TRUE where HIGH
  level,    \* the output pins of the ESP32, TRUE where HIGH
  told,     \* the last write() to each port since the start
  lost      \* expanders that did not receive the last transmission to them

portVars == <<wiring, shadow, latch, level, told, lost>>

AllHigh == [pin \in Pin |-> TRUE]

\* A coil on an expander is on at LOW, one on a built-in pin at HIGH.
Coil(place) ==
  \/ place \in OnDevice /\ ~latch[place[1]][place[2]]
  \/ place \in Builtin /\ level[place]

ToldOn(place) == \E p \in Port : wiring[p] = place /\ told[p] = "on"

-----------------------------------------------------------------------------
\* The result of Wire.endTransmission is not looked at.
Flush(d, bits) ==
  \/ /\ latch' = [latch EXCEPT ![d] = bits]
     /\ lost' = lost \ {d}
  \/ /\ UNCHANGED latch
     /\ lost' = lost \cup {d}

MutWritePin(d, pin, high) ==
  /\ shadow' = [shadow EXCEPT ![d] = [AllHigh EXCEPT ![pin] = high]]
  /\ Flush(d, shadow'[d])

WritePin(d, pin, high) ==
  /\ shadow' = [shadow EXCEPT ![d][pin] = high]
  /\ Flush(d, shadow'[d])

\* GpioPort::write of the three kinds of port
Write(p, on) ==
  /\ told' = [told EXCEPT ![p] = IF on THEN "on" ELSE "off"]
  /\ \/ /\ wiring[p] \in OnDevice
        /\ WritePin(wiring[p][1], wiring[p][2], ~on)
        /\ UNCHANGED level
     \/ /\ wiring[p] \in Builtin
        /\ level' = [level EXCEPT ![wiring[p]] = on]
        /\ UNCHANGED <<shadow, latch, lost>>
     \/ /\ wiring[p] = Nowhere
        /\ UNCHANGED <<level, shadow, latch, lost>>
  /\ UNCHANGED wiring

\* The configuration puts each port at a place of its own.
Apart(w) ==
  \A p, q \in Port : w[p] = w[q] /\ w[p] # Nowhere => p = q

MutConstruct(w, configured, outputs) ==
  /\ wiring' = w
  /\ shadow' = [d \in Device |-> AllHigh]
  /\ told' = [p \in Port |-> "none"]
  /\ level' = [b \in Builtin |-> FALSE]
  /\ lost' = {} /\ latch' = outputs

\* buildPcfDeviceMap sends an expander all HIGH, and initOutput of each port on
\* it does so again; none, some or all of it arrives.  outputs: what the
\* expanders put out before.
Construct(w, configured, outputs) ==
  /\ wiring' = w
  /\ shadow' = [d \in Device |-> AllHigh]
  /\ told' = [p \in Port |-> "none"]
  /\ level' = [b \in Builtin |-> FALSE]
  /\ \E arrived, missed \in SUBSET configured :
       /\ configured \ arrived \subseteq missed
       /\ lost' = missed
       /\ latch' = [d \in Device |-> IF d \in arrived THEN AllHigh ELSE outputs[d]]

\* A configuration: ports at places of their own, on expanders that it lists.
Configured(w, configured) ==
  /\ w \in [Port -> Place] /\ configured \subseteq Device
  /\ Apart(w)
  /\ \A p \in Port : w[p] \in OnDevice => w[p][1] \in configured

RestartPorts(w, configured) ==
  Configured(w, configured) /\ Construct(w, configured, latch)

\* Without power the expanders forget too.
PowerUpPorts(w, configured) ==
  Configured(w, configured) /\ Construct(w, configured, [d \in Device |-> AllHigh])

PortsInit ==
  /\ wiring = [p \in Port |-> Nowhere]
  /\ shadow = [d \in Device |-> AllHigh]
  /\ latch = [d \in Device |-> AllHigh]
  /\ level = [b \in Builtin |-> FALSE]
  /\ told = [p \in Port |-> "none"]
  /\ lost = {}

PortsNext ==
  \/ \E p \in Port, on \in BOOLEAN : Write(p, on)
  \/ \E w \in [Port -> Place], configured \in SUBSET Device :
       RestartPorts(w, configured) \/ PowerUpPorts(w, configured)

PortsSpec == PortsInit /\ [][PortsNext]_portVars

-----------------------------------------------------------------------------
(* Properties *)

\* Every field keeps its type.
PortsTypeOK ==
  /\ wiring \in [Port -> Place]
  /\ shadow \in [Device -> [Pin -> BOOLEAN]]
  /\ latch \in [Device -> [Pin -> BOOLEAN]]
  /\ level \in [Builtin -> BOOLEAN]
  /\ told \in [Port -> {"none", "on", "off"}]
  /\ lost \in SUBSET Device

\* A relay is where its port was told to be, off before it was told anything,
\* although the ports of an expander write its register for each other.  Only
\* a transmission that was lost, and only until the next one to the same
\* expander arrives, leaves it elsewhere.
RelaysFollow ==
  \A p \in Port :
    \/ wiring[p] = Nowhere
    \/ wiring[p] \in OnDevice /\ wiring[p][1] \in lost
    \/ Coil(wiring[p]) = (told[p] = "on")

\* No relay moves unless to where it was told to be, on whatever occasion: the
\* write of another port, a lost transmission made good, a restart, which tells
\* all of them to be off.
RelaysMoveAsTold ==
  [][\A place \in Place :
       Coil(place)' # Coil(place) => Coil(place)' = ToldOn(place)']_portVars
=============================================================================
