------------------------------- MODULE Access -------------------------------
(***************************************************************************)
(* How the web server is reached: the choice between access point and      *)
(* network in setup(), the WiFi events that start the server, and the loop    *)
(* that renews a connection and handles requests (src/src/main.cpp).         *)
(* Service.tla composes it with the requests.                                *)
(***************************************************************************)
EXTENDS Integers

CONSTANTS
  JoinTime,   \* ticks an attempt to join the network takes while it is there
  CycleTime   \* the ten seconds of loop(), in ticks

\* Each cycle begins a new attempt: it must leave the last one enough time.
ASSUME AccessAssumption ==
  /\ {JoinTime, CycleTime} \subseteq Nat \ {0}
  /\ JoinTime < CycleTime

\* "none": no name of a network, or no file that parses
WiFiFile == {"named", "none"}

\* "broken": absent, or nothing that parses
DeviceFile == {"good", "broken"}

VARIABLES
  wifi,        \* /cfg/cfgwifi.json
  device,      \* /cfg/cfgnetwork.json
  network,     \* the WiFiConfig of setup()
  port,        \* the port of server_ is one that was configured
  joining,     \* for how long WiFi has tried to join, -1: it does not
  joined,      \* WiFi.isConnected()
  event,       \* WiFiGotIP is to be called
  listening,   \* server_.begin() has been called
  wifiAPMode,
  sinceCycle,  \* now - lastMillis in loop()
  present      \* the network named is there, and the password is right

settings   == <<wifi, device>>
link       == <<joining, joined, event, listening, wifiAPMode>>
accessVars == <<settings, network, port, link, sinceCycle, present>>

-----------------------------------------------------------------------------
startAP == network = "none"

\* The loop handles requests, and the owner knows where.
Reachable == listening /\ (wifiAPMode \/ joined) /\ port

\* setup: without a network to join there is the access point, which has
\* settings of its own.
SetUp(w, d) ==
  /\ network' = w
  /\ port' = (w = "none" \/ d = "good")
  /\ joining' = IF w = "none" THEN -1 ELSE 0
  /\ joined' = FALSE /\ event' = FALSE
  /\ listening' = FALSE /\ wifiAPMode' = FALSE
  /\ sinceCycle' = 0
  /\ UNCHANGED present

MutAccessPointStarts ==
  /\ startAP /\ ~wifiAPMode
  /\ listening' = TRUE
  /\ UNCHANGED wifiAPMode
  /\ UNCHANGED <<settings, network, port, joining, joined, event, sinceCycle,
                 present>>

\* The handler of ARDUINO_EVENT_WIFI_AP_START.
AccessPointStarts ==
  /\ startAP /\ ~wifiAPMode
  /\ listening' = TRUE
  /\ wifiAPMode' = TRUE
  /\ UNCHANGED <<settings, network, port, joining, joined, event, sinceCycle,
                 present>>

Join ==
  /\ joining >= 0 /\ present
  /\ joining' = -1
  /\ joined' = TRUE
  /\ event' = TRUE
  /\ UNCHANGED <<settings, network, port, listening, wifiAPMode, sinceCycle,
                 present>>

\* WiFiGotIP, on the task of the events; the connection may be gone again.
WiFiGotIP ==
  /\ event
  /\ event' = FALSE
  /\ listening' = (listening \/ joined)
  /\ UNCHANGED <<settings, network, port, joining, joined, wifiAPMode,
                 sinceCycle, present>>

\* The network comes and goes, which ends an attempt to join it; the platform may
\* try again at once (setAutoReconnect), or leave that to the next cycle.
NetworkChanges ==
  /\ present' = ~present
  /\ joined' = FALSE
  /\ joining' \in IF startAP THEN {-1} ELSE {-1, 0}
  /\ UNCHANGED <<settings, network, port, event, listening, wifiAPMode,
                 sinceCycle>>

CycleDue == sinceCycle = CycleTime

\* What loop() does every ten seconds: WiFi.reconnect() drops an attempt that is
\* under way; of an access point it asks nothing.
Cycle ==
  /\ CycleDue
  /\ sinceCycle' = 0
  /\ joining' = IF joined \/ startAP THEN joining ELSE 0
  /\ UNCHANGED <<settings, network, port, joined, event, listening, wifiAPMode,
                 present>>

\* A request that is being received holds up the loop, but not the time.
PassTime(held) ==
  /\ CycleDue => held
  /\ ~(joining = JoinTime /\ present)
  /\ sinceCycle' = IF CycleDue THEN sinceCycle ELSE sinceCycle + 1
  /\ joining' = IF joining >= 0 /\ present THEN joining + 1 ELSE joining
  /\ UNCHANGED <<settings, network, port, joined, event, listening, wifiAPMode,
                 present>>

AccessInit ==
  /\ wifi \in WiFiFile /\ device \in DeviceFile
  /\ network = wifi
  /\ port = (wifi = "none" \/ device = "good")
  /\ joining = (IF wifi = "none" THEN -1 ELSE 0)
  /\ joined = FALSE /\ event = FALSE
  /\ listening = FALSE /\ wifiAPMode = FALSE
  /\ sinceCycle = 0
  /\ present \in BOOLEAN
=============================================================================
