---------------------------- MODULE MCProcessor ----------------------------
(* Short programs, small memories and small numbers.                       *)
EXTENDS Processor

(* The ends of the signed and unsigned ranges, and decimal 99.             *)
MCAluWords == {0, 1, 127, 128, 153, 255}
MCPrograms ==
  {"add", "sub", "neg", "shl", "shr", "sar", "rot", "rcl", "shld", "shrd",
   "xor", "mask", "scan", "high", "cmp", "daa", "das", "aas", "aam",
   "div", "idiv", "mul", "imul"}

(* Three pages of twelve bytes; words at 11 and 23 lie on two of  *)
(* them.  No setup pushes at the last address.                             *)
Regs(sp, di, cx, df) ==
  [ax |-> 9, bx |-> 26, cx |-> cx, dx |-> 33, sp |-> sp, bp |-> 14,
   si |-> 11, di |-> di, df |-> df]
Setup(i, regs) == [insn |-> i, ip |-> 3, r |-> regs]
MCSetups ==
  {Setup(i, Regs(sp, 23, 0, 1)) :
     i \in {"push", "pop", "pushm", "popm", "enter", "leave", "call", "ret", "retimm"},
     sp \in {11, 13, 26}}
  \cup {Setup("pusha", Regs(sp, 23, 0, 1)) : sp \in {12, 26}}
  \cup {Setup("popa", Regs(sp, 23, 0, 1)) : sp \in {4, 11, 26}}
  \cup {Setup(i, [Regs(26, di, 0, 1) EXCEPT !.ax = ax]) :
          i \in {"add", "xchg", "xadd", "cmpxchg"}, di \in {11, 12}, ax \in {19, 32}}
  \cup {Setup(i, Regs(26, di, 2, df)) :
          i \in {"movs", "stos", "lods", "outs", "ins", "scas", "scasn", "cmps"},
          di \in {10, 22, 23}, df \in {1, -1}}

(* Entries that are not present and that are read-only.                    *)
MCContents ==
  {[p |-> FALSE, w |-> TRUE, u |-> TRUE, f |-> 0, a |-> FALSE],
   [p |-> TRUE, w |-> FALSE, u |-> TRUE, f |-> 1, a |-> FALSE]}

ASSUME PartsAssumption ==
  /\ A!AluAssumption /\ Redo!BytesAssumption /\ Redo!SetupsAssumption
  /\ StepAssumption /\ X!X87Assumption
  /\ T!PagingAssumption /\ T1!PagingAssumption

(* The state of a part that rests.                                         *)
AluRests ==
  /\ prog = "cmp" /\ pc = 1 /\ glob = FALSE /\ cut = FALSE
  /\ numbers = [w \in {"lo", "hi", "a", "b", "n", "one", "zero"} |-> 0]
  /\ flags = [f \in {"CF", "PF", "AF", "ZF", "SF", "OF"} |-> FALSE]
  /\ given = [r |-> numbers, CF |-> FALSE]
RestartRests ==
  /\ insn = "push" /\ pages = <<>> /\ machine = <<>> /\ start = <<>>
  /\ mode = "stopped" /\ bad = Redo!NoPage /\ torn = {} /\ evicted = 0
PagingRests == T!Init /\ \A k \in T!Addresses : ~pte[k].p
StepRests   == Init /\ ~real /\ ~ifl

MCInit ==
  /\ X!Init
  /\ \/ part = "alu" /\ A!Init /\ RestartRests /\ PagingRests /\ StepRests
     \/ part = "restart" /\ Redo!Init /\ AluRests /\ PagingRests /\ StepRests
     \/ part \in {"paging", "paging1"} /\ T!Init /\ AluRests /\ RestartRests /\ StepRests
     \/ part = "step" /\ Init /\ AluRests /\ RestartRests /\ PagingRests
     \/ part = "x87" /\ AluRests /\ RestartRests /\ PagingRests /\ StepRests

MCSpec ==
  /\ MCInit /\ [][PartsNext]_<<part, vars, aluVars, restartVars, pagingVars, x87Vars>>
  /\ PartsFairness
=============================================================================
