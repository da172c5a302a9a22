---------------------------- MODULE MCInterrupts ----------------------------
(* Two controllers of two pins; small programs, registers and days.        *)
EXTENDS Interrupts

(* ICW1 with a further ICW4 (0x11), ICW1 of a single controller without    *)
(* one (0x12), the non-specific EOI (0x20) and OCW3 "read IRR" (0x0a).     *)
MCCmdBytes == {18, 32, 10}

(* A mask that closes no pin and one that closes both.                     *)
MCDataBytes == {0, 3}

(* Gates for the kernel and for everyone, with an error code, of 16 bits   *)
(* and of 32, and one to a conforming segment; of the first kind two, one  *)
(* of which a V86 program has redirected.                                  *)
G(s, r, d, w, e) == [seg |-> s, rpl |-> r, dpl |-> d, wide |-> w, err |-> e]
MCGates ==
  {G("kernel", 0, 0, TRUE, TRUE), G("kernel", 0, 3, TRUE, FALSE),
   G("kernel", 0, 3, FALSE, FALSE), G("kernel", 0, 0, TRUE, FALSE),
   G("shared", 3, 3, TRUE, FALSE)}
MCRedirected == {G("kernel", 0, 3, TRUE, FALSE)}

(* PAM0 and PAM1, with the segment CC000h..CFFFFh of neither and F0000h of *)
(* the first; one-sided, opposite and full values.                         *)
MCPamValues == {{}, {5}, {0, 1, 4}}
MCSmramValues == {{"open"}, {"open", "cls"}, {"en"}, {"en", "open", "lock"}}

(* Two causes with a register of their own, and two that share one.        *)
MCEnables1 == {"timer", "pm"}
MCEnables2 == {"tco", "periodic"}

(* Three seconds shown in a minute and two hours in a day: coprime, as the *)
(* 59 and 23 of the code are, so that every time comes round.              *)
Time(h, m, s) == [hour |-> h, minute |-> m, second |-> s]
MCLimit   == Time(3, 3, 4)
MCAlarms  == {Time(1, 2, 3), Time(2, 1, 1)}
MCTimes   == {Time(2, 2, 1), Time(1, 1, 3)}
MCEnables == {{}, {"alarm"}}

ASSUME PartsAssumption ==
  /\ T!TransferAssumption /\ B!HostBridgeAssumption
  /\ W1!PowerAssumption /\ W2!PowerAssumption /\ R!RtcAssumption

(* A program in real mode that does nothing, and one state of the others.  *)
TransferRests == T!Init /\ ~pe /\ fl.iopl = 0
PowerRests    == W1!Init /\ watched = "pm"
RtcRests      == R!Init /\ shown = Time(2, 2, 1) /\ alarm = Time(2, 1, 1)

MCInit ==
  /\ Init /\ B!Init
  /\ \/ part \in {"pic", "bridge"} /\ TransferRests /\ PowerRests /\ RtcRests
     \/ part = "transfer" /\ T!Init /\ PowerRests /\ RtcRests
     \/ part = "power1" /\ W1!Init /\ TransferRests /\ RtcRests
     \/ part = "power2" /\ W2!Init /\ TransferRests /\ RtcRests
     \/ part = "rtc" /\ R!Init /\ TransferRests /\ PowerRests

(* Bound: OCW3 to the master only.                                         *)
MCNext == PartsNext /\ ocw3'[1] = 0

MCSpec ==
  MCInit /\ [][MCNext]_<<part, vars, transferVars, bridgeVars, powerVars, rtcVars>>
=============================================================================
