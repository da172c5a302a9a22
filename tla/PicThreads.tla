---------------------------- MODULE PicThreads ----------------------------
(***************************************************************************)
(* The master 8259 (sys/8259.cpp) and cpu[0].intr, shared without a lock   *)
(* by two threads.  The clock thread runs the devices and the guest: it    *)
(* asserts timer requests, acknowledges, retires and masks levels.  The    *)
(* window thread asserts the keyboard's request (key_hit) and resets the   *)
(* system (menu).  The request register is read, changed and written back; *)
(* fresh_int reads the mask, then the requests, and drives INTR afterwards;*)
(* the processor sees INTR first and acknowledges later.  Each of these is *)
(* an action.  What is taken together: the three stores of reset_8259, and *)
(* what inta_8259 and eoi_8259 read with what they store last.             *)
(***************************************************************************)
EXTENDS Integers

CONSTANTS
  NPins,
  ClockPins,     (* requests asserted and withdrawn by the clock thread    *)
  WindowPins,    (* requests asserted by the window thread                 *)
  Masks          (* values the guest writes to the mask                    *)

Pins == 0 .. NPins - 1

ThreadsAssumption ==
  /\ NPins \in 1 .. 8
  /\ ClockPins \subseteq Pins /\ WindowPins \subseteq Pins
  /\ Masks \subseteq SUBSET Pins

VARIABLES
  irr, isr, ocw1, intr,
  pc,            (* thread -> what it does next                            *)
  op,            (* thread -> the operation it is in                       *)
  old,           (* thread -> the register it read                         *)
  verdict,       (* thread -> what its fresh_int will drive                *)
  alone,         (* thread -> history: no other thread ran since it sensed *)
  mixed          (* history: since the last fresh_int that ran alone, a    *)
                 (* thread ran while another was inside an operation       *)

vars == <<irr, isr, ocw1, intr, pc, op, old, verdict, alone, mixed>>

Threads  == {"clock", "window"}
Other(t) == IF t = "clock" THEN "window" ELSE "clock"

Ops == {[name |-> "assert", pins |-> {p}] : p \in Pins}
         \cup {[name |-> "deassert", pins |-> {p}] : p \in Pins}
         \cup {[name |-> "mask", pins |-> m] : m \in SUBSET Pins}
         \cup {[name |-> n, pins |-> {}] : n \in {"none", "eoi", "inta", "reset"}}

Op(n, s) == [name |-> n, pins |-> s]

TypeOK ==
  /\ irr \subseteq Pins /\ isr \subseteq Pins /\ ocw1 \subseteq Pins
  /\ intr \in BOOLEAN
  /\ pc \in [Threads -> {"idle", "store", "mask", "sense", "drive", "inta", "lower"}]
  /\ op \in [Threads -> Ops]
  /\ old \in [Threads -> SUBSET Pins]
  /\ verdict \in [Threads -> BOOLEAN]
  /\ alone \in [Threads -> BOOLEAN]
  /\ mixed \in BOOLEAN

Init ==
  /\ irr = {} /\ isr = {} /\ ocw1 = {} /\ intr = FALSE
  /\ pc = [t \in Threads |-> "idle"]
  /\ op = [t \in Threads |-> Op("none", {})]
  /\ old = [t \in Threads |-> {}]
  /\ verdict = [t \in Threads |-> FALSE]
  /\ alone = [t \in Threads |-> FALSE]
  /\ mixed = FALSE

Unmasked == irr \ ocw1

(* Bookkeeping of the histories: t takes a step.                           *)
Interferes(t) == mixed' = (mixed \/ pc[Other(t)] # "idle")
NotAlone(t)   == alone' = [alone EXCEPT ![Other(t)] = FALSE]

Goto(t, l) == pc' = [pc EXCEPT ![t] = l]

-----------------------------------------------------------------------------
(* _8259_assert_irq, _8259_deassert_irq and eoi_8259 begin by reading irr. *)
Load(t, o) ==
  /\ pc[t] = "idle"
  /\ o.name \in {"assert", "deassert", "eoi"}
  /\ op' = [op EXCEPT ![t] = o]
  /\ old' = [old EXCEPT ![t] = irr]
  /\ Goto(t, "store")
  /\ Interferes(t) /\ NotAlone(t)
  /\ UNCHANGED <<irr, isr, ocw1, intr, verdict>>

(* Slip: no fresh_int after the request register has changed.              *)
StoreNoRefresh(t) ==
  /\ pc[t] = "store"
  /\ irr' = CASE op[t].name = "assert"   -> old[t] \cup op[t].pins
              [] op[t].name = "deassert" -> old[t] \ op[t].pins
              [] op[t].name = "eoi"      -> old[t] \ isr
  /\ isr' = IF op[t].name = "eoi" THEN {} ELSE isr
  /\ Goto(t, "idle")
  /\ Interferes(t) /\ NotAlone(t)
  /\ UNCHANGED <<ocw1, intr, op, old, verdict>>

Store(t) ==
  /\ pc[t] = "store"
  /\ irr' = CASE op[t].name = "assert"   -> old[t] \cup op[t].pins
              [] op[t].name = "deassert" -> old[t] \ op[t].pins
              [] op[t].name = "eoi"      -> old[t] \ isr
  /\ isr' = IF op[t].name = "eoi" THEN {} ELSE isr
  /\ Goto(t, "mask")
  /\ Interferes(t) /\ NotAlone(t)
  /\ UNCHANGED <<ocw1, intr, op, old, verdict>>

(* A mask write has nothing to read.                                       *)
WriteMask(t, m) ==
  /\ pc[t] = "idle"
  /\ op' = [op EXCEPT ![t] = Op("mask", m)]
  /\ ocw1' = m
  /\ Goto(t, "mask")
  /\ Interferes(t) /\ NotAlone(t)
  /\ UNCHANGED <<irr, isr, intr, old, verdict>>

(* fresh_int: read the mask, then the requests, then drive INTR.           *)
ReadMask(t) ==
  /\ pc[t] = "mask"
  /\ old' = [old EXCEPT ![t] = ocw1]
  /\ alone' = [x \in Threads |-> x = t /\ pc[Other(t)] = "idle"]
  /\ Goto(t, "sense")
  /\ Interferes(t)
  /\ UNCHANGED <<irr, isr, ocw1, intr, op, verdict>>

Sense(t) ==
  /\ pc[t] = "sense"
  /\ verdict' = [verdict EXCEPT ![t] = (irr \ old[t] # {})]
  /\ Goto(t, "drive")
  /\ Interferes(t) /\ NotAlone(t)
  /\ UNCHANGED <<irr, isr, ocw1, intr, op, old>>

Drive(t) ==
  /\ pc[t] = "drive"
  /\ intr' = verdict[t]
  /\ Goto(t, "idle")
  /\ mixed' = IF alone[t] THEN FALSE ELSE mixed \/ pc[Other(t)] # "idle"
  /\ NotAlone(t)
  /\ UNCHANGED <<irr, isr, ocw1, op, old, verdict>>

-----------------------------------------------------------------------------
(* The clock thread sees INTR between two instructions; inta_8259 sets the *)
(* in-service level, of what is requested by then, and lowers INTR.        *)
SeeIntr(t) ==
  /\ pc[t] = "idle" /\ intr
  /\ op' = [op EXCEPT ![t] = Op("inta", {})]
  /\ Goto(t, "inta")
  /\ Interferes(t) /\ NotAlone(t)
  /\ UNCHANGED <<irr, isr, ocw1, intr, old, verdict>>

Highest(S) == CHOOSE p \in S : \A q \in S : p <= q

Acknowledge(t) ==
  /\ pc[t] = "inta"
  /\ isr' = {IF Unmasked = {} THEN NPins - 1 ELSE Highest(Unmasked)}
  /\ Goto(t, "lower")
  /\ Interferes(t) /\ NotAlone(t)
  /\ UNCHANGED <<irr, ocw1, intr, op, old, verdict>>

(* reset(): the controller's registers, later the processor's pin.         *)
ResetPic(t) ==
  /\ pc[t] = "idle"
  /\ op' = [op EXCEPT ![t] = Op("reset", {})]
  /\ ocw1' = Pins /\ irr' = {} /\ isr' = {}
  /\ Goto(t, "lower")
  /\ Interferes(t) /\ NotAlone(t)
  /\ UNCHANGED <<intr, old, verdict>>

LowerIntr(t) ==
  /\ pc[t] = "lower"
  /\ intr' = FALSE
  /\ Goto(t, "idle")
  /\ Interferes(t) /\ NotAlone(t)
  /\ UNCHANGED <<irr, isr, ocw1, op, old, verdict>>

-----------------------------------------------------------------------------
Continue(t) ==
  Store(t) \/ ReadMask(t) \/ Sense(t) \/ Drive(t) \/ Acknowledge(t) \/ LowerIntr(t)

Tick(p) == Load("clock", Op("assert", {p}))
Retire  == isr # {} /\ Load("clock", Op("eoi", {}))

Clock ==
  \/ \E p \in ClockPins, n \in {"assert", "deassert"} : Load("clock", Op(n, {p}))
  \/ Load("clock", Op("eoi", {}))
  \/ \E m \in Masks : WriteMask("clock", m)
  \/ SeeIntr("clock")
  \/ Continue("clock")

Window ==
  \/ \E p \in WindowPins : Load("window", Op("assert", {p}))
  \/ ResetPic("window")
  \/ Continue("window")

Next == Clock \/ Window

Spec == Init /\ [][Next]_vars

(* Threads finish what they began; the timer ticks on; a guest with        *)
(* interrupts on takes and retires interrupts.                             *)
Fairness ==
  /\ \A t \in Threads : WF_vars(Continue(t))
  /\ \A p \in ClockPins : SF_vars(Tick(p))
  /\ SF_vars(SeeIntr("clock"))
  /\ SF_vars(Retire)

FairSpec == Spec /\ Fairness

-----------------------------------------------------------------------------
(* Properties. *)

(* One undisturbed fresh_int repairs whatever interleaving went before:    *)
(* since the last one that ran alone, unless threads mixed again, no       *)
(* request waits without INTR or a level in service, and no INTR is up     *)
(* without a request.                                                      *)
AgreesUnlessMixed ==
  ~mixed /\ (\A t \in Threads : pc[t] = "idle") =>
    /\ Unmasked # {} => intr \/ isr # {}
    /\ intr => Unmasked # {}

(* A request that an interleaving left without INTR is not stranded: the   *)
(* next tick of the timer raises INTR for it, or it is retired or masked.  *)
StrandedRequestHeals ==
  \A p \in Pins : p \in Unmasked ~> (intr \/ isr # {} \/ p \notin Unmasked)
=============================================================================
