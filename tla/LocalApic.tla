----------------------------- MODULE LocalApic -----------------------------
(***************************************************************************)
(* The local APIC of the one processor, the I/O APIC and the bus between   *)
(* them (sys/apic.cpp, sys/include/apic.h).  A message is received in the  *)
(* call that sends it, so a pin or an interprocessor interrupt and its     *)
(* effect on the local APIC are one step.                                  *)
(*                                                                         *)
(* Left out: who a message is addressed to (it reaches the node or changes *)
(* nothing, and a pin that misses the node is as good as masked), the      *)
(* timer's count (whether a clock expires it is a choice), registers that  *)
(* are only stored and read back, the processor's side of SMI and STARTUP, *)
(* writes to read-only registers.  reset() leaves the APICs as they are.   *)
(***************************************************************************)
EXTENDS Integers

CONSTANTS
  Vectors,     (* vectors the guest sends to itself                        *)
  LvtVectors,  (* vectors it writes to the local vector table              *)
  LowHalves,   (* low halves of redirection entries it writes              *)
  Priorities,  (* values of the task priority register it uses             *)
  Pins,        (* pins of the I/O APIC                                     *)
  Modes        (* delivery modes of what it sends                          *)

Vector == 0 .. 255

LowHalf == [masked : BOOLEAN, vector : Vector, mode : 0 .. 7]

ASSUME ApicAssumption ==
  /\ Vectors \subseteq Vector /\ LvtVectors \subseteq Vector
  /\ LowHalves \subseteq LowHalf
  /\ Priorities \subseteq Vector
  /\ Modes \subseteq 0 .. 7

VARIABLES
  irr,         (* interrupt request register                               *)
  isrv,        (* the vector in service, 0 if none                         *)
  irrv,        (* the request refresh_int found                            *)
  waiting,     (* int_waiting: it found one                                *)
  tpr,         (* task priority register                                   *)
  svr,         (* spurious vector register: [enabled, vector]              *)
  timer,       (* timer LVT: [masked, vector]                              *)
  lint0,       (* LINT0 LVT: its vector (the mask makes no difference)     *)
  running,     (* the timer's divide configuration is not 0                *)
  sipi,        (* state # wait_for_SIPI: a STARTUP was received            *)
  redir        (* redirection table: [masked, vector, mode]                *)

lvt  == <<svr, timer, lint0, running>>
vars == <<irr, isrv, irrv, waiting, tpr, lvt, sipi, redir>>

Lvt == [masked : BOOLEAN, vector : Vector]

TypeOK ==
  /\ irr \in SUBSET Vector
  /\ isrv \in Vector /\ irrv \in Vector
  /\ waiting \in BOOLEAN
  /\ tpr \in Vector
  /\ svr \in [enabled : BOOLEAN, vector : Vector]
  /\ timer \in Lvt
  /\ lint0 \in Vector
  /\ running \in BOOLEAN /\ sipi \in BOOLEAN
  /\ redir \in [Pins -> LowHalf]

(* CLocalAPIC::init and CIoAPIC::init.                                      *)
Init ==
  /\ irr = {} /\ isrv = 0 /\ irrv = 0 /\ waiting = FALSE /\ tpr = 0
  /\ svr = [enabled |-> FALSE, vector |-> 255]
  /\ timer = [masked |-> TRUE, vector |-> 0]
  /\ lint0 = 0 /\ running = FALSE /\ sipi = FALSE
  /\ redir = [p \in Pins |-> [masked |-> TRUE, vector |-> 0, mode |-> 0]]

-----------------------------------------------------------------------------
(* The vector that refresh_int and get_bit find: bytes of the register are *)
(* searched from the top, bits of a byte from the bottom.                  *)
Before(v, w) == v \div 8 > w \div 8 \/ (v \div 8 = w \div 8 /\ v <= w)

Selected(S) == CHOOSE v \in S : \A w \in S : Before(v, w)

(* irr becomes S; refresh_int.                                             *)
Refresh(S) ==
  /\ irr' = S
  /\ waiting' = (S # {})
  /\ irrv' = IF S # {} THEN Selected(S) ELSE irrv

(* Slip: the request is recorded and not looked at.                        *)
MarkQuietly(v) == irr' = irr \cup {v} /\ UNCHANGED <<waiting, irrv>>

(* mark_vector, unmark_vector.                                             *)
Mark(v)   == Refresh(irr \cup {v})
Unmark(v) == Refresh(irr \ {v})

(* INIT: registers from number 3 on are cleared, but not isrv.             *)
InitNode ==
  /\ irr' = {} /\ irrv' = 0 /\ waiting' = FALSE /\ tpr' = 0
  /\ svr' = [enabled |-> FALSE, vector |-> 255]
  /\ timer' = [masked |-> TRUE, vector |-> 0]
  /\ lint0' = 0 /\ running' = FALSE /\ sipi' = FALSE
  /\ UNCHANGED isrv

(* do_recv: fixed, lowest priority and external interrupts are requests;   *)
(* SMI and NMI do nothing here.                                            *)
Receive(mode, v) ==
  \/ /\ mode \in {0, 1, 7}
     /\ Mark(v)
     /\ UNCHANGED <<isrv, tpr, lvt, sipi>>
  \/ /\ mode = 5
     /\ InitNode
  \/ /\ mode = 6
     /\ sipi' = TRUE
     /\ UNCHANGED <<irr, isrv, irrv, waiting, tpr, lvt>>

(* do_icr, for a message that reaches the node.                            *)
SendIpi(mode, v) == Receive(mode, v) /\ UNCHANGED redir

(* set_pin_status: the same message whether the pin is asserted or not.    *)
PinChanges(p) ==
  /\ ~redir[p].masked
  /\ redir[p].vector \in 16 .. 254
  /\ Receive(redir[p].mode, redir[p].vector)
  /\ UNCHANGED redir

(* The low half of a redirection entry; the high one holds the address.    *)
WriteRedir(p, e) ==
  /\ redir' = [redir EXCEPT ![p] = e]
  /\ UNCHANGED <<irr, isrv, irrv, waiting, tpr, lvt, sipi>>

(* The 8259's INTR while the IMCR selects APIC mode.                       *)
AssertLint0   == Mark(lint0)   /\ UNCHANGED <<isrv, tpr, lvt, sipi, redir>>
DeassertLint0 == Unmark(lint0) /\ UNCHANGED <<isrv, tpr, lvt, sipi, redir>>

(* do_clock expires the timer; masked it requests the spurious vector.     *)
TimerExpires ==
  /\ running
  /\ Mark(IF timer.masked THEN svr.vector ELSE timer.vector)
  /\ UNCHANGED <<isrv, tpr, lvt, sipi, redir>>

-----------------------------------------------------------------------------
(* The guest's register writes. *)

(* Slip: the end of interrupt without a search for the next request.       *)
EoiNoRefresh ==
  /\ irr' = irr \ {isrv}
  /\ isrv' = 0
  /\ UNCHANGED <<irrv, waiting, tpr, lvt, sipi, redir>>

(* Slip: the cached request is cleared, not the vector in service.         *)
EoiOfCached ==
  /\ Unmark(irrv)
  /\ isrv' = 0
  /\ UNCHANGED <<tpr, lvt, sipi, redir>>

(* The request of the vector in service is cleared (it also goes to both   *)
(* 8259).                                                                  *)
Eoi ==
  /\ Unmark(isrv)
  /\ isrv' = 0
  /\ UNCHANGED <<tpr, lvt, sipi, redir>>

WriteTpr(t) ==
  /\ tpr' = t
  /\ Refresh(irr)
  /\ UNCHANGED <<isrv, lvt, sipi, redir>>

(* Bits 0 to 3 of the spurious vector are ones.                            *)
WriteSvr(e, v) ==
  /\ svr' = [enabled |-> e, vector |-> (v \div 16) * 16 + 15]
  /\ UNCHANGED <<irr, isrv, irrv, waiting, tpr, timer, lint0, running, sipi, redir>>

WriteTimer(m, v) ==
  /\ timer' = [masked |-> m, vector |-> v]
  /\ UNCHANGED <<irr, isrv, irrv, waiting, tpr, svr, lint0, running, sipi, redir>>

WriteLint0(v) ==
  /\ lint0' = v
  /\ UNCHANGED <<irr, isrv, irrv, waiting, tpr, svr, timer, running, sipi, redir>>

WriteDivide(r) ==
  /\ running' = r
  /\ UNCHANGED <<irr, isrv, irrv, waiting, tpr, svr, timer, lint0, sipi, redir>>

-----------------------------------------------------------------------------
(* The processor. *)

(* Slip: priority classes instead of vectors.                              *)
IntPendingByClass == waiting /\ svr.enabled /\ irrv \div 16 >= tpr \div 16

(* int_pending.                                                            *)
IntPending == waiting /\ svr.enabled /\ tpr \div 16 # 15 /\ irrv > tpr

(* CCPU::step finds no INTR, asks int_pending and takes get_int's vector.  *)
(* (get_bit invents the spurious vector if nothing is requested.)          *)
Accept ==
  /\ IntPending
  /\ waiting' = FALSE
  /\ IF irr = {}
     THEN UNCHANGED <<irr, isrv>>
     ELSE irr' = irr \ {Selected(irr)} /\ isrv' = Selected(irr)
  /\ UNCHANGED <<irrv, tpr, lvt, sipi, redir>>

-----------------------------------------------------------------------------
Device ==
  \/ \E p \in Pins : PinChanges(p)
  \/ AssertLint0 \/ DeassertLint0 \/ TimerExpires

Guest ==
  \/ \E mode \in Modes, v \in Vectors : SendIpi(mode, v)
  \/ \E p \in Pins, e \in LowHalves : WriteRedir(p, e)
  \/ Eoi
  \/ \E t \in Priorities : WriteTpr(t)
  \/ \E e \in BOOLEAN, v \in LvtVectors : WriteSvr(e, v)
  \/ \E m \in BOOLEAN, v \in LvtVectors : WriteTimer(m, v)
  \/ \E v \in LvtVectors : WriteLint0(v)
  \/ \E r \in BOOLEAN : WriteDivide(r)

Next == Device \/ Guest \/ Accept

Spec == Init /\ [][Next]_vars

(* Interrupts are taken when interrupts are on, and handlers end.          *)
FairSpec == Spec /\ WF_vars(Accept) /\ WF_vars(isrv # 0 /\ Eoi)

-----------------------------------------------------------------------------
(* Properties. *)

(* What int_pending compares with the task priority is the request that    *)
(* get_int will take: the cached vector is never older than the register.  *)
CacheFresh == waiting => irr # {} /\ irrv = Selected(irr)

(* A request that is not announced to the processor has a vector in        *)
(* service, whose end of interrupt will look for it.                       *)
RequestNotForgotten == irr # {} /\ ~waiting => isrv # 0

(* The processor is interrupted only by a request of a higher vector than  *)
(* the task priority, never by the spurious vector.                        *)
PriorityHonoured == [][Accept => isrv' \in irr /\ isrv' > tpr]_vars

(* A request disappears only when the processor takes it, at the end of    *)
(* interrupt of the same vector, with LINT0 or at an INIT.                 *)
RequestEnds ==
  [][\A v \in irr \ irr' :
       \/ Accept /\ isrv' = v
       \/ Eoi /\ isrv = v
       \/ DeassertLint0 /\ lint0 = v
       \/ InitNode]_vars

(* A request that waits behind a handler comes back into view.             *)
RequestResurfaces == (irr # {}) ~> (waiting \/ irr = {})
=============================================================================
