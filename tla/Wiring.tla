------------------------------- MODULE Wiring -------------------------------
(***************************************************************************)
(* From the hardware settings to the relays: /cfg/cfgpins.json               *)
(* (src/src/config.cpp) is saved at any time by a request (src/src/REST.h)    *)
(* and read at the start only, by whoever builds the ports, the expanders      *)
(* and the map from names to circuits (src/src/HeatingController.h); a        *)
(* program is loaded at once and names its circuits.                          *)
(*                                                                         *)
(* The ports themselves are those of Ports, whose specification this one      *)
(* implements.  Which circuits are closed in which order is left to Boiler.   *)
(***************************************************************************)
EXTENDS Ports, Naturals, Sequences

CONSTANTS
  MaxValves,  \* bound of the model: rows of a configuration
  Label,      \* names an owner gives to circuits; none is a numeral
  Unnamed,    \* no label
  Unknown,    \* a name no row carries
  Settings,   \* hardware settings an owner may save
  Broken      \* a file that is absent, or cut short

\* Port 0 is the boiler's, valve i of the code has port i + 1.
ASSUME WiringAssumption ==
  /\ Port = 0 .. MaxValves
  /\ Unnamed \notin Label /\ Unknown \notin Label
  /\ Broken \notin Settings /\ MaxValves \in Nat
  /\ \A f \in Settings :
       /\ DOMAIN f = {"extenders", "boiler", "valves"}
       /\ f.extenders \subseteq Device
       /\ f.valves \in Seq([place : Place, label : Label \cup {Unnamed}])
       /\ Len(f.valves) <= MaxValves

\* A row that says null.
NotUsed == [place |-> Nowhere, label |-> Unnamed]

\* Nothing can be read of a broken file.
NoSettings == [extenders |-> {}, boiler |-> NotUsed, valves |-> <<>>]

Contents(file) == IF file = Broken THEN NoSettings ELSE file

VARIABLES
  stored,     \* the file
  booted,     \* the file as it was at the start
  valveLabelMap,
  wanted      \* the name a room of the running program has for its circuit

wiringVars == <<portVars, stored, booted, valveLabelMap, wanted>>

-----------------------------------------------------------------------------
(* Reading the settings *)

\* getValvePins: rows that are not used are skipped, the others move up.
ValvePins(file) ==
  LET rows == Contents(file).valves
      pins[n \in 0 .. Len(rows)] ==   \* of the first n rows
        IF n = 0 THEN <<>>
        ELSE IF rows[n] = NotUsed THEN pins[n - 1]
        ELSE Append(pins[n - 1], rows[n])
  IN  pins[Len(rows)]

\* createGpioPort: an expander that is not listed gives a port to nowhere.
CreateGpioPort(file, place) ==
  IF place \in OnDevice /\ place[1] \notin Contents(file).extenders
  THEN Nowhere ELSE place

\* createBoilerPort, createValvePorts
CreatePorts(file) ==
  [p \in Port |->
     CASE p = 0 -> CreateGpioPort(file, Contents(file).boiler.place)
       [] p \in DOMAIN ValvePins(file) ->
            CreateGpioPort(file, ValvePins(file)[p].place)
       [] OTHER -> Nowhere]

\* Labels, and the numbers of the circuits from 0 as older programs have them.
Name == Label \cup {Unknown} \cup 0 .. MaxValves - 1

Labelled(file, name) ==
  {i \in DOMAIN ValvePins(file) : ValvePins(file)[i].label = name}

\* buildValveLabelMap: of several rows with one label the last counts.  The
\* result is a set with the port, empty for a name that is not there.
BuildValveLabelMap(file) ==
  [name \in Name |->
     IF name \in Label
     THEN {i \in Labelled(file, name) : \A j \in Labelled(file, name) : j <= i}
     ELSE {i \in DOMAIN ValvePins(file) : name # Unknown /\ i = name + 1}]

-----------------------------------------------------------------------------
(* Actions *)

\* configHardware, POST: neither what is sent nor the write is checked.
SaveHardware ==
  /\ \E f \in Settings : stored' \in {f, Broken}
  /\ UNCHANGED <<portVars, booted, valveLabelMap, wanted>>

MutReloadConfiguration ==
  /\ wanted' \in Name
  /\ valveLabelMap' = BuildValveLabelMap(stored)
  /\ UNCHANGED <<portVars, stored, booted>>

\* configPrograms, configProgramCurrent and reloadConfiguration: the rooms are
\* built anew, from a program that may name any circuit.
ReloadConfiguration ==
  /\ wanted' \in Name
  /\ UNCHANGED <<portVars, stored, booted, valveLabelMap>>

\* handleValve, and the boiler's port in changeBoilerState or a manual test
WritePort ==
  /\ \E p \in Port, on \in BOOLEAN :
       p <= Len(ValvePins(booted)) /\ Write(p, on)
  /\ UNCHANGED <<stored, booted, valveLabelMap, wanted>>

\* HeatingController::HeatingController reads what is stored.
Construction ==
  /\ booted' = stored
  /\ valveLabelMap' = BuildValveLabelMap(stored)
  /\ wanted' \in Name
  /\ UNCHANGED stored

Restart ==
  /\ RestartPorts(CreatePorts(stored), Contents(stored).extenders)
  /\ Construction

PowerUp ==
  /\ PowerUpPorts(CreatePorts(stored), Contents(stored).extenders)
  /\ Construction

WiringInit ==
  /\ PortsInit
  /\ stored \in Settings \cup {Broken}
  /\ booted = Broken
  /\ valveLabelMap = BuildValveLabelMap(Broken)
  /\ wanted = Unknown

WiringNext ==
  \/ SaveHardware
  \/ ReloadConfiguration
  \/ WritePort
  \/ Restart
  \/ PowerUp

WiringSpec == WiringInit /\ [][WiringNext]_wiringVars

-----------------------------------------------------------------------------
(* Properties *)

\* A name means the row that carries it: closing the circuit of a room moves
\* the relay at the place that the settings had beside this label when the
\* controller started, whatever was saved since, however rows that are not used
\* lie between, and a circuit that has a label is found.  Without an entry for
\* its expander it is nowhere; of two rows with one label the last counts.
NamesMeanTheirCircuits ==
  wanted \in Label =>
    LET rows == Contents(booted).valves
        R    == {i \in DOMAIN rows : rows[i] # NotUsed /\ rows[i].label = wanted}
    IN  /\ (valveLabelMap[wanted] = {}) = (R = {})
        /\ \A p \in valveLabelMap[wanted] :
             \E r \in R :
               /\ \A i \in R : i <= r
               /\ wiring[p] = IF rows[r].place \in OnDevice
                                 /\ rows[r].place[1] \notin Contents(booted).extenders
                              THEN Nowhere ELSE rows[r].place
=============================================================================
