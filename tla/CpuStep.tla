------------------------------ MODULE CpuStep ------------------------------
(* One processor between two of its instructions: what CCPU::step          *)
(* (cpu-simu/run.cpp) does after an instruction has retired, has faulted   *)
(* or has halted it, and system management mode (cpu-simu/smi.cpp).  A     *)
(* program of Length instructions runs round and round; interrupts,        *)
(* exceptions, single steps and SMIs divert it to handlers, whose own      *)
(* instructions are not counted.                                           *)
EXTENDS Naturals, SequencesExt

CONSTANTS Length,  (* instructions of the program                          *)
          Depth    (* bound: handlers above one another                    *)

StepAssumption == Length \in Nat \ {0, 1} /\ Depth \in Nat \ {0}

Places == 0 .. Length - 1
Codes  == {"program", "handler", "smi handler"}
SavedStates == [code : Codes, at : Places, ifl : BOOLEAN, tfl : BOOLEAN]

VARIABLES
  real,        (* real mode: no gate and no instruction is privileged      *)
  code,        (* what is being executed                                   *)
  eip, next,   (* __EIP__ and __NEXT_EIP__, as places of the program       *)
  ifl, tfl,    (* IF and TF of EFLAGS                                       *)
  halt, smm,
  smi, intr,   (* inputs: smi_pin; the 8259's INTR or lapic.int_pending()  *)
  stack,       (* frames pushed by interrupts and exceptions               *)
  save,        (* the state save area of SMM                               *)
  acked,       (* history: the last step acknowledged an interrupt         *)
  due,         (* history: the instruction the program has to retire next  *)
  left         (* history: an interrupt has ended a "jmp $"                *)

place   == <<code, eip, next, ifl, tfl>>
history == <<due, left>>
vars == <<real, place, halt, smm, smi, intr, stack, save, acked, history>>

Frame(at) == [code |-> code, at |-> at, ifl |-> ifl, tfl |-> tfl]

TypeOK ==
  /\ Frame(eip) \in SavedStates /\ next \in Places
  /\ {real, halt, smm, smi, intr, acked, left} \subseteq BOOLEAN
  /\ stack \in BoundedSeq(SavedStates, Depth)
  /\ save \in SavedStates /\ due \in Places

Goto(f) ==
  /\ code' = f.code /\ ifl' = f.ifl /\ tfl' = f.tfl
  /\ eip' = f.at /\ next' = f.at

Start(c) == Goto([code |-> c, at |-> 0, ifl |-> FALSE, tfl |-> FALSE])

Init ==
  /\ real \in BOOLEAN /\ code = "program" /\ eip = 0 /\ next = 0
  /\ ifl \in BOOLEAN /\ tfl = FALSE
  /\ halt = FALSE /\ smm = FALSE /\ smi = FALSE /\ intr = FALSE
  /\ stack = <<>> /\ save = Frame(0)
  /\ acked = FALSE /\ due = 0 /\ left = FALSE

-----------------------------------------------------------------------------
(* Control transfers, from the stack s.                                    *)

(* exception_call, ex_w_errcode: a handler, to return to the frame f.      *)
Deliver(f, s) == stack' = Append(s, f) /\ Start("handler")

(* enter_smm, to return to the frame f; INTR is dropped if it was the      *)
(* 8259's.                                                                 *)
EnterSmm(f) ==
  /\ save' = f /\ smm' = TRUE /\ intr' \in {FALSE, intr}
  /\ Start("smi handler")

(* int_call, which takes every interrupt for an INT n: a gate whose        *)
(* privilege level is 0 raises #GP, which nobody looks at, when it is      *)
(* reached from the program in protected mode.                             *)
Refused(f) == f.code = "program" /\ ~real
IntCall(f, s) == IF Refused(f) THEN Goto(f) /\ stack' = s ELSE Deliver(f, s)

(* The end of step, for the frame f that the instruction leaves: an SMI,   *)
(* else the interrupt that is pending, else, with interrupts off, a single *)
(* step if TF was set before the instruction.                              *)
AfterRetire(f, s, inSmm, pending) ==
  /\ \/ /\ smi /\ ~inSmm
        /\ EnterSmm(f) /\ smi' = FALSE
        /\ stack' = s /\ acked' = FALSE
     \/ /\ ~smi \/ inSmm
        /\ acked' = (f.ifl /\ pending)
        /\ intr' \in IF acked' THEN BOOLEAN ELSE {pending}
        /\ IF acked' \/ (tfl /\ ~f.ifl)
           THEN IntCall(f, s)
           ELSE Goto(f) /\ stack' = s
        /\ smm' = inSmm
        /\ UNCHANGED <<smi, save>>
  /\ due' = IF code = "program" THEN (next + 1) % Length ELSE due
  /\ UNCHANGED <<real, left>>

Following == Frame(IF code = "program" THEN (next + 1) % Length ELSE 0)
Privileged == code = "program" => real
Room(n) == Len(stack) + n <= Depth

-----------------------------------------------------------------------------
(* The instruction that the fetcher delivers.                              *)

Plain == ~halt /\ halt' = FALSE /\ AfterRetire(Following, stack, smm, intr)

(* STI, CLI, POPF: the new bits count at once.  (Handlers do not single-   *)
(* step themselves.)                                                       *)
Flags(i, t) ==
  /\ ~halt /\ halt' = FALSE
  /\ i = ifl \/ Privileged
  /\ i \/ t => Room(1)
  /\ t => code = "program"
  /\ AfterRetire([Following EXCEPT !.ifl = i, !.tfl = t], stack, smm, intr)

Hlt ==
  /\ ~halt /\ halt' = TRUE
  /\ Privileged
  /\ AfterRetire(Following, stack, smm, intr)

(* "jmp $" is not executed: step returns with __EIP__ in front of it and   *)
(* __NEXT_EIP__ behind it.                                                 *)
Loop ==
  /\ ~halt /\ halt' = TRUE
  /\ next' = Following.at
  /\ acked' = FALSE
  /\ UNCHANGED <<real, code, eip, ifl, tfl, smm, smi, intr, stack, save, history>>

IntN ==
  /\ ~halt /\ halt' = FALSE
  /\ Room(2)
  /\ AfterRetire([Frame(0) EXCEPT !.code = "handler", !.ifl = FALSE, !.tfl = FALSE],
                 Append(stack, Following), smm, intr)

Iret ==
  /\ ~halt /\ halt' = FALSE
  /\ code = "handler" /\ stack # <<>>
  /\ AfterRetire(Last(stack), Front(stack), smm, intr)

(* A slip for the run: smm stays set.                                      *)
RsmStays ==
  /\ ~halt /\ halt' = FALSE
  /\ code = "smi handler" /\ smm
  /\ AfterRetire(save, stack, smm, intr)

(* leave_smm, which drops INTR once more.                                  *)
Rsm ==
  /\ ~halt /\ halt' = FALSE
  /\ code = "smi handler" /\ smm
  /\ \E pending \in {FALSE, intr} : AfterRetire(save, stack, FALSE, pending)

(* A slip for the run: a fault whose bit is missing from fault_mask.       *)
FaultAsTrap ==
  /\ ~halt
  /\ Room(1) /\ Deliver(Following, stack)
  /\ acked' = FALSE
  /\ UNCHANGED <<real, halt, smm, smi, intr, save, history>>

(* A fault, whose frame is the instruction's own address: __EIP__, which a *)
(* fetch that fails has set.  An exception on the way to the handler is    *)
(* dropped, and the instruction is tried again.                            *)
Fault ==
  /\ ~halt
  /\ \E at \in {eip, next} :
       \/ Room(1) /\ Deliver(Frame(at), stack)
       \/ Goto(Frame(at)) /\ UNCHANGED stack
  /\ acked' = FALSE
  /\ UNCHANGED <<real, halt, smm, smi, intr, save, history>>

(* step while the processor is halted.                                     *)
WakeByInterrupt ==
  /\ halt /\ ifl /\ intr
  /\ halt' = FALSE /\ acked' = TRUE /\ intr' \in BOOLEAN
  /\ IF Refused(Frame(next))
     THEN UNCHANGED <<place, stack>>
     ELSE Deliver(Frame(next), stack)
  /\ left' = (left \/ eip # next)
  /\ UNCHANGED <<real, smm, smi, save, due>>

WakeBySmi ==
  /\ halt /\ ~ifl /\ smi /\ ~smm
  /\ halt' = FALSE /\ smi' = FALSE /\ acked' = FALSE
  /\ EnterSmm(Frame(eip))
  /\ UNCHANGED <<real, stack, history>>

(* Between two steps: do_smi, a device, or an SMI that comes as a message  *)
(* and does not ask whether the processor is in SMM (ipi_smi).             *)
AssertSmi ==
  /\ smi' = TRUE /\ acked' = FALSE
  /\ UNCHANGED <<real, place, halt, smm, intr, stack, save, history>>

AssertIntr ==
  /\ intr' = TRUE /\ acked' = FALSE
  /\ UNCHANGED <<real, place, halt, smm, smi, stack, save, history>>

IpiSmi ==
  /\ halt' = FALSE /\ acked' = FALSE
  /\ EnterSmm(Frame(eip))
  /\ UNCHANGED <<real, smi, stack, history>>

Next ==
  \/ Plain \/ (\E i, t \in BOOLEAN : Flags(i, t))
  \/ Hlt \/ Loop \/ IntN \/ Iret \/ Rsm \/ Fault
  \/ WakeByInterrupt \/ WakeBySmi
  \/ AssertSmi \/ AssertIntr \/ IpiSmi

(* The clock thread goes on stepping, no instruction faults for ever, and  *)
(* a handler comes to its last instruction, over whatever it was called.   *)
Fairness ==
  /\ WF_vars(WakeByInterrupt) /\ WF_vars(WakeBySmi)
  /\ SF_vars(Plain) /\ SF_vars(Rsm)
  /\ \A n \in 1 .. Depth : SF_vars(Len(stack) = n /\ Iret)

Spec == Init /\ [][Next]_vars /\ Fairness

-----------------------------------------------------------------------------
(* Nothing is executed twice, and nothing is left out: whatever faults,    *)
(* interrupts, single steps and SMIs come in between, nested as they may   *)
(* be, the program retires its instructions in their order (step,          *)
(* enter_smm, leave_smm).  Excepted is a "jmp $" that an interrupt ends.   *)
OrderKept ==
  code = "program" /\ ~left => due = next \/ (halt /\ due = eip)

(* An SMI that was asserted is served in the end, by the SMI handler that  *)
(* runs already if need be, unless the processor sleeps with interrupts    *)
(* enabled, where step does not look at the pin, or sleeps in SMM, or that *)
(* handler lets itself be interrupted.                                     *)
SmiServed == smi ~> ~smi \/ (halt /\ ifl) \/ (smm /\ (halt \/ acked))

(* "halted. detecting ext  int,and return to next insn"                    *)
(* (cpu-simu/run.cpp:44): an interrupt that was acknowledged has woken the *)
(* processor.  One that comes in front of HLT is acknowledged by the HLT   *)
(* and leaves it halted, inside the handler and with interrupts off.       *)
InterruptWakes == acked => ~halt
=============================================================================
