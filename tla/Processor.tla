----------------------------- MODULE Processor -----------------------------
(***************************************************************************)
(* What a processor does in one instruction and between two of them: the   *)
(* end of a step (CpuStep), the integer unit, instructions that are        *)
(* repeated after page faults, address translation, and the floating point *)
(* registers.  They share no state here: each behaviour exercises one of   *)
(* them, "part", while the others rest.                                    *)
(***************************************************************************)
EXTENDS CpuStep

CONSTANTS
  AluWords, AluPrograms,                                      (* Alu          *)
  ByteValues, PageBytes, Setups, Evictions,                 (* Restart      *)
  Dirs, Tabs, Ways, Frames, Contents, Pae,                  (* Paging       *)
  Prime, Registers                                          (* X87          *)

VARIABLES
  part,
  prog, pc, numbers, flags, glob, given, cut,               (* Alu          *)
  insn, pages, machine, start, mode, bad, torn, evicted,    (* Restart      *)
  large, pde, pte, tlb, owed, resized,                      (* Paging       *)
  fpu, cc, ref, refcc, spoiled                              (* X87          *)

A == INSTANCE Alu WITH Words <- AluWords, Programs <- AluPrograms, r <- numbers
Redo == INSTANCE Restart WITH B <- ByteValues, m <- machine
T == INSTANCE Paging WITH N <- Ways
X == INSTANCE X87 WITH P <- Prime, N <- Registers

(* Paging once more, with buffers of one entry, which every insertion has  *)
(* to replace.                                                             *)
T1 == INSTANCE Paging WITH N <- 1

aluVars     == <<prog, pc, numbers, flags, glob, given, cut>>
restartVars == <<insn, pages, machine, start, mode, bad, torn, evicted>>
pagingVars  == <<large, pde, pte, tlb, owed, resized>>
x87Vars     == <<fpu, cc, ref, refcc, spoiled>>

(* What moves in the behaviours that exercise a part.                      *)
PartsNext ==
  /\ UNCHANGED part
  /\ \/ part = "step" /\ Next /\ UNCHANGED <<aluVars, restartVars, pagingVars, x87Vars>>
     \/ part = "alu" /\ A!Next /\ UNCHANGED <<vars, restartVars, pagingVars, x87Vars>>
     \/ part = "restart" /\ Redo!Next /\ UNCHANGED <<vars, aluVars, pagingVars, x87Vars>>
     \/ part = "paging" /\ T!Next /\ UNCHANGED <<vars, aluVars, restartVars, x87Vars>>
     \/ part = "paging1" /\ T1!Next /\ UNCHANGED <<vars, aluVars, restartVars, x87Vars>>
     \/ part = "x87" /\ X!Next /\ UNCHANGED <<vars, aluVars, restartVars, pagingVars>>

(* The fairness of each part, for the behaviours that exercise it.         *)
PartsFairness ==
  /\ WF_restartVars(part = "restart" /\ Redo!Execute)
  /\ WF_restartVars(part = "restart" /\ Redo!Repair)
  /\ WF_vars(part = "step" /\ WakeByInterrupt)
  /\ WF_vars(part = "step" /\ WakeBySmi)
  /\ SF_vars(part = "step" /\ Plain)
  /\ SF_vars(part = "step" /\ Rsm)
  /\ \A n \in 1 .. Depth : SF_vars(part = "step" /\ Len(stack) = n /\ Iret)
-----------------------------------------------------------------------------
(* The parts' properties, stated in their modules.                         *)

(* Programs of several words and decimal ones compute what they should.    *)
ProgramsRight == part = "alu" => A!NumbersRight /\ A!OrderRight

(* The registers from TOP on hold the stack of the manual.                 *)
StackIsStack == part = "x87" => X!StackIsStack

(* An instruction that page faults stopped ends as if nothing had.         *)
Restartable == part = "restart" => Redo!Restartable

(* A translation buffer agrees with the tables for every address that was  *)
(* invalidated since its entry changed, and holds it once at most.         *)
TranslationsRight == T!TypeOK /\ T!Coherent

(* The program's instructions retire in their order and once each.         *)
ProgramInOrder == part = "step" => TypeOK /\ OrderKept

(* An instruction that faults is completed once its pages are there.       *)
Completes == Redo!Completes
=============================================================================
