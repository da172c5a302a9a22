----------------------------- MODULE MCKbc8042 -----------------------------
(* A small keyboard controller for TLC: under guests that exercise the     *)
(* ring, the gates and the remaining commands, chosen by "part" for a      *)
(* whole behaviour.                                                        *)
EXTENDS Kbc8042

VARIABLE part

(* The ring: a make and a break code, self test, "write command byte",     *)
(* interface off and on; data bytes that enable the interrupt and that     *)
(* clear the buffer.                                                       *)
RingKeys     == {30, 158}
RingCommands == {170, 96, 173, 174}
RingData     == {1, 244}

(* The gates: read and write the output port, loop back, auxiliary device, *)
(* pulsed reset; data bytes for settings of the reset line and A20, and    *)
(* one that waits for another.                                             *)
GateCommands == {208, 209, 210, 212, 254}
GateData     == {0, 3, 240}
GatePort92   == {1, 2}

(* The remaining commands: security and auxiliary device; "identify", the  *)
(* scan code set.                                                          *)
RestCommands == {212, 166, 167}
RestData     == {0, 240, 242}

AllCommands == RingCommands \cup GateCommands \cup RestCommands
AllData     == RingData \cup GateData \cup RestData

MCInit == part \in {"ring", "gates", "rest"} /\ Init

MCNext ==
  /\ UNCHANGED part
  /\ \/ ReadPort60 \/ ReadPort64 \/ ResetButton
     \/ /\ part = "ring"
        /\ \/ \E k \in Keys : KeyHit(k)
           \/ \E c \in RingCommands : WritePort64(c)
           \/ \E b \in RingData : WritePort60(b)
     \/ /\ part = "gates"
        /\ \/ \E c \in GateCommands : WritePort64(c)
           \/ \E b \in GateData : WritePort60(b)
           \/ \E b \in GateBytes : WritePort92(b)
     \/ /\ part = "rest"
        /\ \/ \E c \in RestCommands : WritePort64(c)
           \/ \E b \in RestData : WritePort60(b)

MCSpec == MCInit /\ [][MCNext]_<<part, vars>>
=============================================================================
