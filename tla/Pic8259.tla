------------------------------ MODULE Pic8259 ------------------------------
(***************************************************************************)
(* The pair of 8259 interrupt controllers of the simulated PC              *)
(* (sys/8259.cpp) together with the INTR input of the boot processor they  *)
(* drive while the interrupt mode register selects PIC mode (imcr = 0 in   *)
(* sys/irq-wire.cpp).  Controller 0 is the master, controller 1 the slave. *)
(*                                                                         *)
(* Registers that the program writes and never reads (icw[2], icw[3], the  *)
(* OCW2 byte) are left out.  Bytes are numbers; irr and isr are the sets   *)
(* of pins whose bit is one.  The code has NPins = 8.                      *)
(***************************************************************************)
EXTENDS Integers, FiniteSets

CONSTANTS
  NPins,       (* interrupt inputs per controller                          *)
  CmdBytes,    (* bytes the guest writes at a0 = 0                         *)
  DataBytes    (* bytes the guest writes at a0 = 1                         *)

Byte == 0 .. 255

ASSUME PicAssumption ==
  /\ NPins \in 1 .. 8
  /\ CmdBytes \subseteq Byte
  /\ DataBytes \subseteq Byte

VARIABLES
  icw1,        (* reg_8259[c].icw[0]                                       *)
  base,        (* reg_8259[c].reg.icw2.t3_7                                *)
  state,       (* next initialisation byte expected; 3: initialised        *)
  ocw1,        (* interrupt mask register                                  *)
  ocw3,        (* selects what a read at a0 = 0 returns                    *)
  irr, isr,    (* requested / in-service pins                              *)
  intr,        (* cpu[0].intr                                              *)
  stale        (* history: an initialisation byte changed irr or ocw1 and  *)
               (* fresh_int has not run since                              *)

regs == <<icw1, base, state, ocw1, ocw3>>
vars == <<icw1, base, state, ocw1, ocw3, irr, isr, intr, stale>>

Controllers == {0, 1}
Pins        == 0 .. NPins - 1

(* Bit n of byte b, and the pins whose bit is one in b. *)
Bit(b, n) == (b \div 2^n) % 2 = 1
Bits(b)   == {p \in Pins : Bit(b, p)}

TypeOK ==
  /\ icw1 \in [Controllers -> Byte]
  /\ base \in [Controllers -> 0 .. 15]
  /\ state \in [Controllers -> 0 .. 3]
  /\ ocw1 \in [Controllers -> Byte]
  /\ ocw3 \in [Controllers -> Byte]
  /\ irr \in [Controllers -> SUBSET Pins]
  /\ isr \in [Controllers -> SUBSET Pins]
  /\ intr \in BOOLEAN
  /\ stale \in BOOLEAN

(* reg_8259 is a zero-initialised global: unmasked, nothing initialised. *)
Init ==
  /\ icw1  = [c \in Controllers |-> 0]
  /\ base  = [c \in Controllers |-> 0]
  /\ state = [c \in Controllers |-> 0]
  /\ ocw1  = [c \in Controllers |-> 0]
  /\ ocw3  = [c \in Controllers |-> 0]
  /\ irr   = [c \in Controllers |-> {}]
  /\ isr   = [c \in Controllers |-> {}]
  /\ intr  = FALSE
  /\ stale = FALSE

(* The unmasked requests of controller c under requests r and masks m. *)
Unmasked(r, m, c) == r[c] \ Bits(m[c])
Pending(r, m)     == \E c \in Controllers : Unmasked(r, m, c) # {}

(* fresh_int: recompute INTR from the new request and mask registers.      *)
FreshInt ==
  /\ intr'  = Pending(irr', ocw1')
  /\ stale' = FALSE

-----------------------------------------------------------------------------
(* Guest writes at a0 = 0. *)

WriteIcw1(c, dat) ==
  /\ Bit(dat, 4)
  /\ icw1'  = [icw1 EXCEPT ![c] = dat]
  /\ state' = [state EXCEPT ![c] = 0]
  /\ irr'   = [irr EXCEPT ![c] = {}]
  /\ isr'   = [isr EXCEPT ![c] = {}]
  /\ stale' = TRUE
  /\ UNCHANGED <<base, ocw1, ocw3, intr>>

(* Slip: the EOI retires the level and does not call fresh_int.            *)
EoiNoRefresh(c) ==
  /\ irr' = [irr EXCEPT ![c] = @ \ isr[c]]
  /\ isr' = [isr EXCEPT ![c] = {}]
  /\ UNCHANGED <<regs, intr, stale>>

(* Slip: the EOI does not retire the request, as 8042.cpp:201 believes.    *)
EoiKeepsRequest(c) ==
  /\ isr' = [isr EXCEPT ![c] = {}]
  /\ UNCHANGED <<regs, irr>>
  /\ FreshInt

(* eoi_8259: whatever the OCW2 command is, the in-service level and its    *)
(* request are both retired.                                               *)
Eoi(c) ==
  /\ irr' = [irr EXCEPT ![c] = @ \ isr[c]]
  /\ isr' = [isr EXCEPT ![c] = {}]
  /\ UNCHANGED regs
  /\ FreshInt

WriteOcw2(c, dat) ==
  /\ ~Bit(dat, 4)
  /\ ~Bit(dat, 3)
  /\ Eoi(c)

WriteOcw3(c, dat) ==
  /\ ~Bit(dat, 4)
  /\ Bit(dat, 3)
  /\ ocw3' = [ocw3 EXCEPT ![c] = dat]
  /\ UNCHANGED <<icw1, base, state, ocw1, irr, isr, intr, stale>>

-----------------------------------------------------------------------------
(* Guest writes at a0 = 1: the mask once initialised, before that the next *)
(* initialisation byte.                                                    *)

WriteMask(c, dat) ==
  /\ state[c] = 3
  /\ ocw1' = [ocw1 EXCEPT ![c] = dat]
  /\ UNCHANGED <<icw1, base, state, ocw3, irr, isr>>
  /\ FreshInt

(* icw[1]: the vector base keeps bits 3 to 6 of the byte only.             *)
WriteIcw2(c, dat) ==
  /\ state[c] = 0
  /\ base'  = [base EXCEPT ![c] = (dat \div 8) % 16]
  /\ state' = [state EXCEPT ![c] = IF Bit(icw1[c], 1) THEN 1 ELSE 2]
  /\ UNCHANGED <<icw1, ocw1, ocw3, irr, isr, intr, stale>>

WriteIcw3(c, dat) ==
  /\ state[c] = 1
  /\ state' = [state EXCEPT ![c] = 2]
  /\ UNCHANGED <<icw1, base, ocw1, ocw3, irr, isr, intr, stale>>

(* The last byte is ICW4 when ICW1 announced one, and the mask otherwise.  *)
WriteIcw4(c, dat) ==
  /\ state[c] = 2
  /\ state' = [state EXCEPT ![c] = 3]
  /\ IF Bit(icw1[c], 0)
     THEN UNCHANGED <<ocw1, stale>>
     ELSE /\ ocw1' = [ocw1 EXCEPT ![c] = dat]
          /\ stale' = TRUE
  /\ UNCHANGED <<icw1, base, ocw3, irr, isr, intr>>

WriteCommand(c, dat) == WriteIcw1(c, dat) \/ WriteOcw2(c, dat) \/ WriteOcw3(c, dat)

WriteData(c, dat) ==
  \/ WriteMask(c, dat)
  \/ WriteIcw2(c, dat)
  \/ WriteIcw3(c, dat)
  \/ WriteIcw4(c, dat)

(* read_8259_reg: what a guest read of controller c returns at a0.  Reads  *)
(* change nothing, the poll command included.                              *)
ReadSource(c, a0) ==
  CASE a0 = 1                                     -> "mask"
    [] a0 = 0 /\ Bit(ocw3[c], 2)                  -> "poll"
    [] a0 = 0 /\ ~Bit(ocw3[c], 2) /\ Bit(ocw3[c], 1) ->
         IF Bit(ocw3[c], 0) THEN "isr" ELSE "irr"
    [] OTHER                                      -> "none"

-----------------------------------------------------------------------------
(* Device side. *)

(* Slip: the request is latched and INTR is left as it was.                *)
AssertIrqNoRefresh(c, p) ==
  /\ irr' = [irr EXCEPT ![c] = @ \cup {p}]
  /\ UNCHANGED <<regs, isr, intr, stale>>

(* Slip: the request bit is stored and not or-ed into the register.        *)
AssertIrqOverwrites(c, p) ==
  /\ irr' = [irr EXCEPT ![c] = {p}]
  /\ UNCHANGED <<regs, isr>>
  /\ FreshInt

AssertIrq(c, p) ==
  /\ irr' = [irr EXCEPT ![c] = @ \cup {p}]
  /\ UNCHANGED <<regs, isr>>
  /\ FreshInt

(* Slip: the request is withdrawn and INTR is left as it was.              *)
DeassertIrqNoRefresh(c, p) ==
  /\ irr' = [irr EXCEPT ![c] = @ \ {p}]
  /\ UNCHANGED <<regs, isr, intr, stale>>

DeassertIrq(c, p) ==
  /\ irr' = [irr EXCEPT ![c] = @ \ {p}]
  /\ UNCHANGED <<regs, isr>>
  /\ FreshInt

-----------------------------------------------------------------------------
(* Processor side. *)

Highest(S) == CHOOSE p \in S : \A q \in S : p <= q

(* Slip: the slave's pins searched before the master's.                    *)
SelectedSlaveFirst ==
  CASE Unmasked(irr, ocw1, 1) # {} -> <<1, Highest(Unmasked(irr, ocw1, 1))>>
    [] /\ Unmasked(irr, ocw1, 1) = {}
       /\ Unmasked(irr, ocw1, 0) # {} -> <<0, Highest(Unmasked(irr, ocw1, 0))>>
    [] OTHER -> <<0, NPins - 1>>

(* The level an acknowledge selects: master pins before slave pins, the    *)
(* lowest number first, and the master's last pin when nothing is left.    *)
Selected ==
  CASE Unmasked(irr, ocw1, 0) # {} -> <<0, Highest(Unmasked(irr, ocw1, 0))>>
    [] /\ Unmasked(irr, ocw1, 0) = {}
       /\ Unmasked(irr, ocw1, 1) # {} -> <<1, Highest(Unmasked(irr, ocw1, 1))>>
    [] OTHER -> <<0, NPins - 1>>

(* The vector inta_8259 returns. *)
Vector == base[Selected[1]] * 8 + Selected[2]

(* inta_8259, called by CCPU::step when it sees INTR with interrupts on.   *)
(* The in-service register is overwritten.  The comment above it says that *)
(* the request bit is reset; the line that would is commented out.         *)
Inta ==
  /\ intr
  /\ isr'  = [isr EXCEPT ![Selected[1]] = {Selected[2]}]
  /\ intr' = FALSE
  /\ UNCHANGED <<regs, irr, stale>>

(* System reset: reset_8259, then CCPU::reset drops the pin.               *)
Reset ==
  /\ ocw1' = [c \in Controllers |-> 255]
  /\ ocw3' = [ocw3 EXCEPT ![0] = 10]
  /\ irr'  = [c \in Controllers |-> {}]
  /\ isr'  = [c \in Controllers |-> {}]
  /\ intr' = FALSE
  /\ stale' = FALSE
  /\ UNCHANGED <<icw1, base, state>>

-----------------------------------------------------------------------------
Next ==
  \/ \E c \in Controllers, dat \in CmdBytes : WriteCommand(c, dat)
  \/ \E c \in Controllers, dat \in DataBytes : WriteData(c, dat)
  \/ \E c \in Controllers, p \in Pins : AssertIrq(c, p)
  \/ \E c \in Controllers, p \in Pins : DeassertIrq(c, p)
  \/ Inta
  \/ Reset

Spec == Init /\ [][Next]_vars

(* A guest that keeps going: interrupts are taken (CCPU::step polls INTR    *)
(* before every instruction while IF = 1), a handler ends with an EOI to a *)
(* controller that has a level in service, an initialisation sequence is   *)
(* completed and followed by a mask write.                                 *)
Fairness ==
  /\ WF_vars(Inta)
  /\ \A c \in Controllers :
       /\ WF_vars(isr[c] # {} /\ Eoi(c))
       /\ WF_vars(state[c] # 3 /\ \E dat \in DataBytes : WriteData(c, dat))
       /\ WF_vars(stale /\ \E dat \in DataBytes : WriteMask(c, dat))

FairSpec == Spec /\ Fairness

-----------------------------------------------------------------------------
(* Properties that hold. *)

(* INTR never drops a request on the floor: when an unmasked request is    *)
(* pending and INTR is low, some level is in service, so that the EOI of   *)
(* its handler will raise INTR again (fresh_int in eoi_8259).  Initialis-  *)
(* ation bytes change the registers without fresh_int; the property then   *)
(* only resumes with the next fresh_int.                                   *)
NoForgottenRequest ==
  Pending(irr, ocw1) /\ ~intr /\ ~stale => \E c \in Controllers : isr[c] # {}

(* INTR is never high without an unmasked request to answer it with, so    *)
(* that inta_8259 never has to invent its level-7 vector, except between   *)
(* an initialisation and the next fresh_int.                               *)
NoPhantomIntr == intr /\ ~stale => Pending(irr, ocw1)

(* A request bit disappears only when its own level is taken into service  *)
(* or retired by an EOI, when its device withdraws it, or when the         *)
(* controller is initialised or reset: a new request, a mask, or serving   *)
(* another level keeps it.  Which of the two ends a served request is left *)
(* open, for 8259.cpp:157 says the acknowledge and the code waits for the  *)
(* EOI.                                                                    *)
RequestSurvives ==
  [][\A c \in Controllers : \A p \in irr[c] \ irr'[c] :
       \/ p \in isr[c] /\ Eoi(c)
       \/ isr'[c] = {p} /\ Inta
       \/ DeassertIrq(c, p)
       \/ Reset
       \/ \E dat \in CmdBytes : WriteIcw1(c, dat)]_vars

(* An acknowledge while nothing was left stale hands the processor a level *)
(* that is requested and unmasked, and no unmasked request of a higher     *)
(* priority exists on either controller.                                   *)
AcknowledgesHighest ==
  [][Inta /\ ~stale =>
       \E c \in Controllers, p \in Pins :
         /\ isr'[c] = {p}
         /\ p \in Unmasked(irr, ocw1, c)
         /\ \A d \in Controllers : \A q \in Unmasked(irr, ocw1, d) :
              c < d \/ (c = d /\ p <= q)]_vars

(* The timer's request (pin 0 of the master) cannot starve: it is taken    *)
(* into service, or withdrawn, masked or wiped by a reset.                 *)
TimerServed ==
  0 \in Unmasked(irr, ocw1, 0) ~> (0 \in isr[0] \/ 0 \notin Unmasked(irr, ocw1, 0))
=============================================================================
