----------------------------- MODULE Interrupts -----------------------------
(***************************************************************************)
(* Interrupts from a pin to the handler and back: the two 8259, and the    *)
(* transfers of control of a processor; and the chipset around them, with  *)
(* the clock, the sources of SMIs and the memory that their handler is in. *)
(* They share no state here: each behaviour exercises one of them, "part", *)
(* while the others rest.                                                  *)
(***************************************************************************)
EXTENDS Pic8259, Sequences

CONSTANTS
  Gates, Redirected, Length, Nest,                          (* Transfer     *)
  Pams, PamValues, SmramValues, Tracked,                    (* HostBridge   *)
  Enables1, Enables2,                                       (* Power, twice *)
  Limit, Alarms, Times, Enables, Writes                     (* Rtc          *)

VARIABLES
  part,
  pe, vm, cs, cpl, eip, ss, ds, fl, stk, due,               (* Transfer     *)
  pam, smramc, frozen, rd, wr, smOpen, smEn, smiact, ram, smram, behind,
                                                            (* HostBridge   *)
  en, sts, pend, glb, eos, needEos, sci, carryEn, pin, smm, sleep, at, got, watched, owed,
                                                            (* Power        *)
  digits, shown, alarm, flags, enabled, halted, rs, irq8, writes
                                                            (* Rtc          *)

T == INSTANCE Transfer
B == INSTANCE HostBridge
W1 == INSTANCE Power WITH Enables <- Enables1
W2 == INSTANCE Power WITH Enables <- Enables2
R == INSTANCE Rtc

transferVars == <<pe, vm, cs, cpl, eip, ss, ds, fl, stk, due>>
bridgeVars   == <<pam, smramc, frozen, rd, wr, smOpen, smEn, smiact, ram, smram, behind>>
powerVars    == <<en, sts, pend, glb, eos, needEos, sci, carryEn, pin, smm, sleep, at, got,
                  watched, owed>>
rtcVars      == <<digits, shown, alarm, flags, enabled, halted, rs, irq8, writes>>

(* What moves in the behaviours that exercise a part.                      *)
PartsNext ==
  /\ UNCHANGED part
  /\ \/ part = "pic" /\ Next
        /\ UNCHANGED <<transferVars, bridgeVars, powerVars, rtcVars>>
     \/ part = "transfer" /\ T!Next /\ UNCHANGED <<vars, bridgeVars, powerVars, rtcVars>>
     \/ part = "bridge" /\ B!Next
        /\ UNCHANGED <<vars, transferVars, powerVars, rtcVars>>
     \/ part = "power1" /\ W1!Next /\ UNCHANGED <<vars, transferVars, bridgeVars, rtcVars>>
     \/ part = "power2" /\ W2!Next /\ UNCHANGED <<vars, transferVars, bridgeVars, rtcVars>>
     \/ part = "rtc" /\ R!Next /\ UNCHANGED <<vars, transferVars, bridgeVars, powerVars>>

(* The fairness of each part is the premise of that part's liveness: TLC   *)
(* would otherwise look at all of it for each of them.                     *)
PicFairness ==
  /\ WF_vars(part = "pic" /\ Inta)
  /\ \A c \in Controllers :
       /\ WF_vars(part = "pic" /\ isr[c] # {} /\ Eoi(c))
       /\ WF_vars(part = "pic" /\ state[c] # 3 /\ \E dat \in DataBytes : WriteData(c, dat))
       /\ WF_vars(part = "pic" /\ stale /\ \E dat \in DataBytes : WriteMask(c, dat))
PowerFairness ==
  /\ WF_powerVars(part = "power1" /\ W1!Round)
  /\ WF_powerVars(part = "power2" /\ W2!Round)
  /\ WF_powerVars(part \in {"power1", "power2"} /\ W1!Enter)
  /\ WF_powerVars(part \in {"power1", "power2"} /\ W1!Handler)
  /\ WF_powerVars(part \in {"power1", "power2"} /\ W1!Wake)
RtcFairness == WF_rtcVars(part = "rtc" /\ \E period \in BOOLEAN : R!Tick(TRUE, period))
-----------------------------------------------------------------------------
(* The parts' properties, stated in their modules.                         *)

(* Level, selector, stack and segments agree whatever transfers led there. *)
LevelsAgree == part = "transfer" => T!TypeOK /\ T!LevelsAgree

(* Every return puts the program back where it was interrupted or called.  *)
ReturnsExact == [][part = "transfer" => T!ReturnRestores]_transferVars

(* Both codings of the routing agree, a closed segment keeps what is read  *)
(* in it, and a locked SMRAM is written by SMM only.                       *)
BridgeRight ==
  /\ [](part = "bridge" => B!TypeOK /\ B!RoutesAgree)
  /\ [][part = "bridge" => B!ShadowHolds /\ B!LockHolds]_bridgeVars

(* A request of the timer is acknowledged by a guest that ends its         *)
(* interrupts and opens its mask.                                          *)
TimerTaken == PicFairness => TimerServed

(* A recorded cause of an SMI is seen by a handler.                        *)
CausesServed ==
  /\ []((part = "power1" => W1!TypeOK) /\ (part = "power2" => W2!TypeOK))
  /\ PowerFairness => W1!CausesServed

(* The alarm rings again after every read of register C.                   *)
AlarmRings == [](part = "rtc" => R!TypeOK) /\ (RtcFairness /\ part = "rtc" => R!AlarmRings)
=============================================================================
