------------------------------- MODULE Restart -------------------------------
(* Instructions that are stopped by a page fault and executed again: the      *)
(* stack, string and memory instructions of cpu-simu/stack.cpp, string.cpp,   *)
(* enter-leave.cpp, call.cpp, ret.cpp, cmpxchg.cpp, alu-exec.cpp and          *)
(* mrom-exec.cpp, in user mode with 16-bit operands and addresses.  A byte    *)
(* holds B values, so that a word addresses the whole memory.  The system     *)
(* software answers each fault, may take one other page away meanwhile, and   *)
(* returns to the instruction (scan_exception leaves EIP at a fault).         *)
EXTENDS Integers, Sequences, FiniteSets

CONSTANTS B,             \* values of a byte
          PageBytes,     \* bytes of a page
          Setups,        \* instruction and registers to begin with; no push at Size - 1
          Evictions      \* pages taken away while an instruction is repeated

BytesAssumption == B \in Nat \ {0, 1} /\ PageBytes \in 1..(B * B) /\ (B * B) % PageBytes = 0

Size == B * B
Words == 0..(Size - 1)
Pages == 0..(Size \div PageBytes - 1)
NoPage == -1
Limit == -2                          \* #GP or #SS: outside the segment limit

SetupsAssumption == \A s \in Setups : {s.r.sp, s.r.si, s.r.di} \subseteq Words

VARIABLES insn,      \* the instruction
          pages,     \* what a user program may do with each page
          m,         \* registers, memory, ports
          start,     \* m before the instruction was first tried
          mode,      \* "run", "fault", "done" or "stopped" by a limit
          bad,       \* page of CR2
          torn,      \* bytes stored by an access whose second page then faulted
          evicted

vars == <<insn, pages, m, start, mode, bad, torn, evicted>>

Plus(a, n) == (a + n) % Size
PageOf(a) == a \div PageBytes

(* One execution: the machine, its pages, whether the last access succeeded,  *)
(* the fault it leaves and the bytes it read and tore.                        *)
Begin(machine, pg) ==
  [r |-> machine.r, mem |-> machine.mem, zf |-> machine.zf, ip |-> machine.ip, in |-> machine.in,
   out |-> machine.out, pg |-> pg, ok |-> TRUE, bad |-> NoPage, v |-> 0, reads |-> {}, torn |-> {}]
Machine(x) == [r |-> x.r, mem |-> x.mem, zf |-> x.zf, ip |-> x.ip, in |-> x.in, out |-> x.out]

Fail(x, p) == [x EXCEPT !.ok = FALSE, !.bad = IF x.bad = Limit THEN Limit ELSE p]
Set(x, reg, w) == [x EXCEPT !.r[reg] = w]

(* CMMU::ld and read: a word on two pages is read page by page.               *)
Load(x, a) ==
  LET lost == {c \in {a, a + 1} : x.pg[PageOf(c)] = "absent"} IN
  IF a = Size - 1 THEN Fail(x, Limit)
  ELSE IF a \in lost THEN Fail(x, PageOf(a))
  ELSE IF a + 1 \in lost THEN [Fail(x, PageOf(a + 1)) EXCEPT !.v = x.mem[a] + B * (@ \div B)]
  ELSE [x EXCEPT !.ok = TRUE, !.v = x.mem[a] + B * x.mem[a + 1], !.reads = @ \cup {a, a + 1}]

\* A slip: CR2 is the beginning of the access, not of the piece that failed.
StoreFaultsAtStart(x, a, w) ==
  IF a < Size - 1 /\ x.pg[PageOf(a)] = "rw" /\ x.pg[PageOf(a + 1)] = "rw"
  THEN [x EXCEPT !.ok = TRUE, !.mem[a] = w % B, !.mem[a + 1] = w \div B]
  ELSE Fail(x, IF a = Size - 1 THEN Limit ELSE PageOf(a))

(* CMMU::st and write: the first page is written before the second is looked  *)
(* up.                                                                        *)
Store(x, a, w) ==
  LET lost == {c \in {a, a + 1} : x.pg[PageOf(c)] # "rw"} IN
  IF a = Size - 1 THEN Fail(x, Limit)
  ELSE IF a \in lost THEN Fail(x, PageOf(a))
  ELSE IF a + 1 \in lost
       THEN [Fail(x, PageOf(a + 1)) EXCEPT !.mem[a] = w % B, !.torn = @ \cup {a}]
  ELSE [x EXCEPT !.ok = TRUE, !.mem[a] = w % B, !.mem[a + 1] = w \div B]

(* What follows an access: nothing when it failed.                            *)
Then(x, Op(_)) == CHOOSE z \in {IF y.ok THEN Op(y) ELSE y : y \in {x}} : TRUE

\* A slip: SP moves before the access.
PushMovesFirst(x, w) == LET top == Plus(x.r.sp, -2) IN Store(Set(x, "sp", top), top, w)
(* Push and Pop move SP after the access has succeeded.                       *)
Push(x, w) ==
  LET top == Plus(x.r.sp, -2) IN Then(Store(x, top, w), LAMBDA y : Set(y, "sp", top))
Pop(x) == Then(Load(x, x.r.sp), LAMBDA y : Set(y, "sp", Plus(y.r.sp, 2)))
Popw(y) == IF y.ok THEN y.v ELSE 0   \* what Popw returns

(* Op over the members of s, from x: a fold, with each state computed once. *)
InTurn(Op(_, _), x, s) ==
  LET f[k \in 0..Len(s)] ==
        IF k = 0 THEN x ELSE CHOOSE z \in {Op(y, s[k]) : y \in {f[k - 1]}} : TRUE
  IN f[Len(s)]

(* PUSHA and POPA look at no result of the eight accesses.  check_limit lets  *)
(* PUSHA wrap below 0, POPA not beyond the end.                               *)
Pusha(x) ==
  InTurn(Push, x, <<x.r.ax, x.r.cx, x.r.dx, x.r.bx, x.r.sp, x.r.bp, x.r.si, x.r.di>>)
Popa(x) ==
  IF x.r.sp + 15 >= Size THEN Fail(x, Limit)
  ELSE InTurn(LAMBDA y, reg : IF reg = "sp" THEN Pop(y) ELSE LET z == Pop(y) IN Set(z, reg, z.v),
              x, <<"di", "si", "bp", "sp", "bx", "dx", "cx", "ax">>)

(* ENTER goes on after a push that failed: BP becomes SP either way.          *)
Enter(x) ==
  LET y == Push(x, x.r.bp)
      frame == y.r.sp IN
  Set(Set(y, "bp", frame), "sp", Plus(frame, -2))
Leave(x) == LET y == Pop(Set(x, "sp", x.r.bp)) IN Set(y, "bp", Popw(y))

Call(x) == [Push(x, x.ip) EXCEPT !.ip = x.r.bx]
Ret(x) == LET y == Pop(x) IN [y EXCEPT !.ip = Popw(y)]
\* RET imm releases the parameters although the pop failed.
RetImm(x) == LET y == Ret(x) IN Set(y, "sp", Plus(y.r.sp, 2))

PopReg(x) == Then(Pop(x), LAMBDA y : Set(y, "ax", y.v))
PopMem(x) == Then(Pop(x), LAMBDA y : Store(y, y.r.di, y.v))
PushMem(x) == Then(Load(x, x.r.si), LAMBDA y : Push(y, y.v))

(* The index registers move by a word in the direction of DF.                 *)
Moved(x, regs) ==
  [x EXCEPT !.r = [reg \in DOMAIN @ |-> IF reg \in regs THEN Plus(@[reg], 2 * x.r.df) ELSE @[reg]]]

Movs(x) == Then(Then(Load(x, x.r.si), LAMBDA y : Store(y, y.r.di, y.v)),
                LAMBDA y : Moved(y, {"si", "di"}))
Stos(x) == Then(Store(x, x.r.di, x.r.ax), LAMBDA y : Moved(y, {"di"}))
Lods(x) == Then(Load(x, x.r.si), LAMBDA y : Moved(Set(y, "ax", y.v), {"si"}))
Scas(x) == Then(Load(x, x.r.di), LAMBDA y : Moved([y EXCEPT !.zf = (y.r.ax = y.v)], {"di"}))
Cmps(x) ==
  Then(Load(x, x.r.si), LAMBDA y :
    Then(Load(y, y.r.di), LAMBDA z : Moved([z EXCEPT !.zf = (y.v = z.v)], {"si", "di"})))
\* INS takes the word from the port before it looks at the memory.
Ins(x) == Then(Store([x EXCEPT !.in = @ + 1], x.r.di, x.in % Size), LAMBDA y : Moved(y, {"di"}))
Outs(x) == Then(Load(x, x.r.si), LAMBDA y : Moved([y EXCEPT !.out = Append(@, y.v)], {"si"}))

(* The repeated forms keep the count of what is left when an access fails.    *)
Repeat(Once(_), Goes(_), x) ==
  InTurn(LAMBDA s, k : IF ~s.go THEN s
                       ELSE CHOOSE t \in {[x |-> y, go |-> y.ok /\ Goes(y)] :
                              y \in {Then(Once(s.x), LAMBDA z : Set(z, "cx", z.r.cx - 1))}} : TRUE,
         [x |-> x, go |-> TRUE], [k \in 1..x.r.cx |-> k]).x
Always(x) == TRUE
WhileEqual(x) == x.zf
WhileNot(x) == ~x.zf
Lodsr(x) == Repeat(Lods, Always, x)
Stosr(x) == Repeat(Stos, Always, x)

(* Read, compute, write: the flags and registers only after the write.        *)
Modify(x, Result(_), After(_)) ==
  Then(Load(x, x.r.di), LAMBDA y : Then(Store(y, y.r.di, Result(y)), After))
Same(x) == x
Sum(x) == Plus(x.v, x.r.bx)
ToBx(x) == Set(x, "bx", x.v)
Add(x) == Modify(x, Sum, Same)
Xadd(x) == Modify(x, Sum, ToBx)
Xchg(x) == Modify(x, LAMBDA y : y.r.bx, ToBx)
Cmpxchg(x) ==
  Then(Load(x, x.r.di), LAMBDA y :
    IF y.v = y.r.ax THEN Then(Store(y, y.r.di, y.r.bx), LAMBDA z : [z EXCEPT !.zf = TRUE])
    ELSE [Set(y, "ax", y.v) EXCEPT !.zf = FALSE])

Exec(i, x) ==
  CASE i = "push" -> Push(x, x.r.ax)   [] i = "pop" -> PopReg(x)
    [] i = "pushm" -> PushMem(x)       [] i = "popm" -> PopMem(x)
    [] i = "pusha" -> Pusha(x)         [] i = "popa" -> Popa(x)
    [] i = "enter" -> Enter(x)         [] i = "leave" -> Leave(x)
    [] i = "call" -> Call(x)           [] i = "ret" -> Ret(x)
    [] i = "retimm" -> RetImm(x)       [] i = "cmpxchg" -> Cmpxchg(x)
    [] i = "add" -> Add(x)
    [] i = "xchg" -> Xchg(x)
    [] i = "xadd" -> Xadd(x)
    [] i = "movs" -> Repeat(Movs, Always, x)     [] i = "stos" -> Stosr(x)
    [] i = "lods" -> Lodsr(x)     [] i = "outs" -> Repeat(Outs, Always, x)
    [] i = "ins" -> Repeat(Ins, Always, x)       [] i = "scas" -> Repeat(Scas, WhileEqual, x)
    [] i = "scasn" -> Repeat(Scas, WhileNot, x)  [] i = "cmps" -> Repeat(Cmps, WhileEqual, x)

Init ==
  /\ \E s \in Setups :
       /\ insn = s.insn
       /\ m = [r |-> s.r, mem |-> [a \in Words |-> (a + a \div B) % B], zf |-> FALSE, ip |-> s.ip,
               in |-> 5, out |-> <<>>]
  /\ start = m
  /\ pages \in [Pages -> {"absent", "ro", "rw"}]
  /\ mode = "run" /\ bad = NoPage /\ torn = {} /\ evicted = 0

(* CCPU::step: registers are written back even when the instruction faulted,  *)
(* EIP only when it did not.                                                  *)
Execute ==
  /\ mode = "run"
  /\ \E x \in {Exec(insn, Begin(m, pages))} :
     /\ mode' = IF x.bad = NoPage THEN "done" ELSE IF x.bad = Limit THEN "stopped" ELSE "fault"
     /\ m' = [Machine(x) EXCEPT !.ip = IF x.bad = NoPage THEN @ ELSE m.ip]
     /\ bad' = x.bad
     /\ torn' = IF x.bad = NoPage THEN torn \cap x.reads ELSE torn \cup x.torn
  /\ UNCHANGED <<insn, pages, start, evicted>>

(* The system software's page fault handler: it loads a page, read-only or    *)
(* writable, and may need another page's memory for it.                       *)
Repair ==
  /\ mode = "fault"
  /\ \E access \in {"ro", "rw"}, gone \in {{}} \cup {{p} : p \in Pages \ {bad}} :
       /\ access # pages[bad] /\ (access = "ro" => pages[bad] = "absent")
       /\ evicted + Cardinality(gone) <= Evictions
       /\ pages' = [p \in Pages |-> IF p = bad THEN access
                                    ELSE IF p \in gone THEN "absent" ELSE pages[p]]
       /\ evicted' = evicted + Cardinality(gone)
  /\ mode' = "run"
  /\ UNCHANGED <<insn, m, start, bad, torn>>

Next == Execute \/ Repair
Spec == Init /\ [][Next]_vars /\ WF_vars(Execute) /\ WF_vars(Repair)

(* The same instruction with every page there from the beginning.             *)
Undisturbed == Machine(Exec(insn, Begin(start, [p \in Pages |-> "rw"])))
NotRestartable == {"pusha", "popa", "popm", "enter", "leave", "retimm", "ins"}

(* An instruction that was stopped by any number of page faults, at any of    *)
(* its accesses and of its repetitions, ends as if all its pages had been     *)
(* there.  Excepted are the seven that change SP, BP or the device before the *)
(* access that faults, and those that read again a byte which a store across  *)
(* two pages had already replaced.                                            *)
Restartable == mode = "done" /\ insn \notin NotRestartable /\ torn = {} => m = Undisturbed

(* CR2 names a page whose repair brings the instruction further: it comes to  *)
(* its end.                                                                   *)
Completes == <>(mode \in {"done", "stopped"})
==============================================================================
