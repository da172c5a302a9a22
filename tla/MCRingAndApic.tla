--------------------------- MODULE MCRingAndApic ---------------------------
(* Two vectors of one byte of the register and one of a higher class; task *)
(* priorities below, among and above them; interprocessor interrupts are   *)
(* fixed or STARTUP, the pin also sends INIT.                              *)
EXTENDS RingAndApic

MCVectors    == {49, 50, 81}
MCLvtVectors == {50}
MCPriorities == {49, 240}
MCModes      == {0, 6}

(* A pin that is closed, one that interrupts and one that sends an INIT.   *)
MCLowHalves ==
  {[masked |-> TRUE, vector |-> 81, mode |-> 0],
   [masked |-> FALSE, vector |-> 81, mode |-> 0],
   [masked |-> FALSE, vector |-> 49, mode |-> 5]}

ASSUME PartsAssumption == K!RingAssumption
=============================================================================
