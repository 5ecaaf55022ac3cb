------------------------------ MODULE MCWiring ------------------------------
(***************************************************************************)
(* Two expanders of two pins, two built-in pins, and settings with rows that  *)
(* are not used, rows without a label or with a label twice, the legacy form,   *)
(* an expander that is not listed, and the boiler beside the valves.          *)
(***************************************************************************)
EXTENDS Wiring

CONSTANTS d1, d2, b1, b2, hall, bath

MCPort == 0 .. MaxValves

Row(place, label) == [place |-> place, label |-> label]

MCSettings ==
  { \* all on one expander, with a gap
    [extenders |-> {d1}, boiler |-> Row(<<d1, 0>>, Unnamed),
     valves |-> <<NotUsed, Row(<<d1, 1>>, hall)>>],
    \* two expanders; the rows have changed places
    [extenders |-> {d1, d2}, boiler |-> Row(b1, Unnamed),
     valves |-> <<Row(<<d1, 1>>, bath), Row(<<d2, 0>>, hall)>>],
    \* an expander that is not listed, and a boiler on the EMS bus
    [extenders |-> {d1}, boiler |-> NotUsed,
     valves |-> <<Row(<<d2, 1>>, hall), Row(<<d1, 0>>, hall)>>],
    \* built-in pins without labels
    [extenders |-> {}, boiler |-> Row(b1, Unnamed),
     valves |-> <<NotUsed, Row(b2, Unnamed)>>] }
=============================================================================
