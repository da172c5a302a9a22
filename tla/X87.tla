-------------------------------- MODULE X87 --------------------------------
(* The floating point registers: cpu-simu/fpu.cpp and fpu-exec.cpp.  A      *)
(* number is an element of a field of P elements, so that operands that are *)
(* exchanged give another result; functions of one number are replaced by   *)
(* its successor.  Beside the registers runs the stack of the manual, which *)
(* the compiled program relies on.                                          *)
EXTENDS Integers, Sequences, SequencesExt

CONSTANTS P,      \* a prime
          N       \* registers

X87Assumption ==
  /\ P \in Nat \ {0, 1} /\ N \in Nat \ {0, 1}
  /\ \A a, b \in 0..P - 1 : b # 0 => \E q \in 0..P - 1 : (q * b) % P = a

VARIABLES
  fpu,        \* the registers st and TOP of the status word
  cc,         \* condition codes C0 and C3, or CF and ZF
  ref,        \* history: the stack of the manual, its top first
  refcc,      \* history: the last comparison, as the manual has it
  spoiled     \* history: an instruction that the code executes otherwise

vars == <<fpu, cc, ref, refcc, spoiled>>

Values == 0..P - 1
Free   == -1                                    \* a register the program does not use

TypeOK ==
  /\ fpu \in [st : [0..N - 1 -> Values], top : 0..N - 1] /\ ref \in [1..N -> Values \cup {Free}]
  /\ cc \in SUBSET {"less", "equal"} /\ refcc \in SUBSET {"less", "equal"} /\ spoiled \in BOOLEAN

(* The constructor's status word 38h has TOP = 0.                           *)
Init ==
  /\ fpu = [st |-> [j \in 0..N - 1 |-> 0], top |-> 0] /\ cc = {}
  /\ ref = [j \in 1..N |-> Free] /\ refcc = {} /\ spoiled = FALSE

(******************************** Registers ********************************)
ST(f, i)     == f.st[(f.top + i) % N]
Put(f, i, v) == [f EXCEPT !.st[(f.top + i) % N] = v]
push(f)      == [f EXCEPT !.top = IF f.top = 0 THEN N - 1 ELSE f.top - 1]
pop(f)       == [f EXCEPT !.top = IF f.top = N - 1 THEN 0 ELSE f.top + 1]

Add(a, b) == (a + b) % P
Sub(a, b) == (a - b + P) % P
Mul(a, b) == (a * b) % P
Div(a, b) == CHOOSE q \in Values : Mul(q, b) = a
Other(a)  == (a + 1) % P

(* The functions of the six operations.  "ST0i" leaves the result in ST(0), *)
(* "STi0" and "STi0p" in ST(i), "mem" takes b from memory.                  *)
Fadd(f, form, i, b) ==
  CASE form = "ST0i" -> Put(f, 0, Add(ST(f, i), ST(f, 0)))
    [] form = "mem"  -> Put(f, 0, Add(ST(f, 0), b))
    [] form = "STi0" -> Put(f, i, Add(ST(f, i), ST(f, 0)))
    [] OTHER         -> pop(Put(f, i, Add(ST(f, i), ST(f, 0))))
Fmul(f, form, i, b) ==
  CASE form = "ST0i" -> Put(f, 0, Mul(ST(f, 0), ST(f, i)))
    [] form = "mem"  -> Put(f, 0, Mul(ST(f, 0), b))
    [] form = "STi0" -> Put(f, i, Mul(ST(f, i), ST(f, 0)))
    [] OTHER         -> pop(Put(f, i, Mul(ST(f, i), ST(f, 0))))
Fsub(f, form, i, b) ==
  CASE form = "ST0i" -> Put(f, 0, Sub(ST(f, 0), ST(f, i)))
    [] form = "mem"  -> Put(f, 0, Sub(ST(f, 0), b))
    [] form = "STi0" -> Put(f, i, Sub(ST(f, i), ST(f, 0)))
    [] OTHER         -> pop(Put(f, i, Sub(ST(f, i), ST(f, 0))))
Fsubr(f, form, i, b) ==
  CASE form = "ST0i" -> Put(f, 0, Sub(ST(f, i), ST(f, 0)))
    [] form = "mem"  -> Put(f, 0, Sub(b, ST(f, 0)))
    [] form = "STi0" -> Put(f, i, Sub(ST(f, 0), ST(f, i)))
    [] OTHER         -> pop(Put(f, i, Sub(ST(f, 0), ST(f, i))))
Fdiv(f, form, i, b) ==
  CASE form = "ST0i" -> Put(f, 0, Div(ST(f, 0), ST(f, i)))
    [] form = "mem"  -> Put(f, 0, Div(ST(f, 0), b))
    [] form = "STi0" -> Put(f, i, Div(ST(f, i), ST(f, 0)))
    [] OTHER         -> pop(Put(f, i, Div(ST(f, i), ST(f, 0))))
Fdivr(f, form, i, b) ==
  CASE form = "ST0i" -> Put(f, 0, Div(ST(f, i), ST(f, 0)))
    [] form = "mem"  -> Put(f, 0, Div(b, ST(f, 0)))
    [] form = "STi0" -> Put(f, i, Div(ST(f, 0), ST(f, i)))
    [] OTHER         -> pop(Put(f, i, Div(ST(f, 0), ST(f, i))))

Result(op, f, form, i, b) ==
  CASE op = "add"  -> Fadd(f, form, i, b)
    [] op = "mul"  -> Fmul(f, form, i, b)
    [] op = "sub"  -> Fsub(f, form, i, b)
    [] op = "subr" -> Fsubr(f, form, i, b)
    [] op = "div"  -> Fdiv(f, form, i, b)
    [] OTHER       -> Fdivr(f, form, i, b)

\* A slip: ST(i) is read after the push.
LoadStAfter(f, i) == LET g == push(f) IN Put(g, 0, ST(g, i))
LoadSt(f, i) == Put(push(f), 0, ST(f, i))
Load(f, b)   == Put(push(f), 0, b)

(* Comparisons: those with a register set C0 or CF for "less", those with   *)
(* an integer or zero for "greater".                                        *)
Ucom(f, i)  == IF ST(f, 0) = ST(f, i) THEN {"equal"}
               ELSE IF ST(f, 0) < ST(f, i) THEN {"less"} ELSE {}
Icom(f, b)  == IF ST(f, 0) > b THEN {"less"} ELSE IF ST(f, 0) = b THEN {"equal"} ELSE {}

(************************** The stack of the manual *************************)
Used(i)     == ref[i + 1] # Free
RefPop(s)   == Append(Tail(s), Free)
RefPush(s, v) == <<v>> \o Front(s)
Relation(a, b) == IF a = b THEN {"equal"} ELSE IF a < b THEN {"less"} ELSE {}
Operation(op, d, s) ==
  CASE op = "add" -> Add(d, s) [] op = "sub" -> Sub(d, s) [] op = "subr" -> Sub(s, d)
    [] op = "mul" -> Mul(d, s) [] op = "div" -> Div(d, s) [] OTHER -> Div(s, d)

(***************************** Instructions *******************************)
Quiet == UNCHANGED <<cc, refcc, spoiled>>

(* An operation with the destination d and the source s of the manual: the  *)
(* guest divides by zero nowhere.                                           *)
Divides(op, d, s) == (op = "div" => s # 0) /\ (op = "divr" => d # 0)

ArithmeticMem(op) ==
  \E b \in Values :
    /\ Used(0) /\ Divides(op, ref[1], b)
    /\ fpu' = Result(op, fpu, "mem", 0, b) /\ ref' = [ref EXCEPT ![1] = Operation(op, @, b)]
    /\ Quiet

ArithmeticST0i(op) ==
  \E i \in 0..N - 1 :
    /\ Used(0) /\ Used(i) /\ Divides(op, ref[1], ref[i + 1])
    /\ fpu' = Result(op, fpu, "ST0i", i, 0)
    /\ ref' = [ref EXCEPT ![1] = Operation(op, @, ref[i + 1])]
    /\ Quiet

ArithmeticSTi0(op) ==
  \E i \in 0..N - 1 :
    /\ Used(0) /\ Used(i) /\ Divides(op, ref[i + 1], ref[1])
    /\ LET after == [ref EXCEPT ![i + 1] = Operation(op, @, ref[1])] IN
       \/ fpu' = Result(op, fpu, "STi0", i, 0) /\ ref' = after
       \/ i # 0 /\ fpu' = Result(op, fpu, "STi0p", i, 0) /\ ref' = RefPop(after)
    /\ Quiet

Arithmetic(op) == ArithmeticMem(op) \/ ArithmeticST0i(op) \/ ArithmeticSTi0(op)
FADD  == Arithmetic("add")
FDIV  == Arithmetic("div")
FDIVR == Arithmetic("divr")
FMUL  == Arithmetic("mul")
FSUB  == Arithmetic("sub")
FSUBR == Arithmetic("subr")

(* An operand is read before the stack moves: a load that is stopped by a   *)
(* page fault has changed nothing.                                          *)
FLD ==
  /\ ref[N] = Free
  /\ \/ \E b \in Values : fpu' = Load(fpu, b) /\ ref' = RefPush(ref, b)
     \/ \E i \in 0..N - 1 : Used(i) /\ fpu' = LoadSt(fpu, i) /\ ref' = RefPush(ref, ref[i + 1])
  /\ Quiet

(* FST and FSTP to a register.                                              *)
FST ==
  \E i \in 0..N - 1 :
    /\ Used(0)
    /\ LET after == [ref EXCEPT ![i + 1] = ref[1]] IN
       \/ fpu' = Put(fpu, i, ST(fpu, 0)) /\ ref' = after
       \/ fpu' = pop(Put(fpu, i, ST(fpu, 0))) /\ ref' = RefPop(after)
    /\ Quiet

(* FSTP, FISTP, FISTTP and FBSTP to memory: the pop comes first, so that a  *)
(* store that faults and is repeated stores and pops the next number.       *)
FSTPMem(faults) ==
  /\ Used(0) /\ fpu' = pop(fpu)
  /\ ref' = IF faults THEN ref ELSE RefPop(ref)
  /\ spoiled' = faults /\ UNCHANGED <<cc, refcc>>

FXCH ==
  \E i \in 0..N - 1 :
    /\ Used(0) /\ Used(i)
    /\ fpu' = Put(Put(fpu, 0, ST(fpu, i)), i, ST(fpu, 0))
    /\ ref' = [ref EXCEPT ![1] = ref[i + 1], ![i + 1] = ref[1]]
    /\ Quiet

(* FCMOVcc pushes the register instead of moving it.                        *)
FCMOV ==
  \E i \in 0..N - 1 :
    /\ Used(0) /\ Used(i) /\ fpu' = LoadSt(fpu, i)
    /\ ref' = [ref EXCEPT ![1] = ref[i + 1]] /\ spoiled' = TRUE /\ UNCHANGED <<cc, refcc>>

(* F2XM1, FABS, FCHS, FCOS, FPREM, FPREM1, FRNDINT, FSIN and FSQRT.         *)
Unary ==
  /\ Used(0) /\ fpu' = Put(fpu, 0, Other(ST(fpu, 0)))
  /\ ref' = [ref EXCEPT ![1] = Other(@)] /\ Quiet

(* FPTAN, FSINCOS and FXTRACT.                                              *)
TwoResults ==
  /\ Used(0) /\ ref[N] = Free
  /\ LET a == ST(fpu, 0) IN fpu' = Load(Put(fpu, 0, Other(a)), Other(Other(a)))
  /\ ref' = RefPush([ref EXCEPT ![1] = Other(@)], Other(Other(ref[1]))) /\ Quiet

FYL2X ==
  /\ Used(0) /\ Used(1)
  /\ fpu' = pop(Put(fpu, 1, Mul(ST(fpu, 1), Other(ST(fpu, 0)))))
  /\ ref' = RefPop([ref EXCEPT ![2] = Mul(@, Other(ref[1]))]) /\ Quiet

(* FPATAN leaves its result in ST(0) and pops it.                           *)
FPATAN ==
  /\ Used(0) /\ Used(1)
  /\ fpu' = pop(Put(fpu, 0, Other(ST(fpu, 1))))
  /\ ref' = RefPop([ref EXCEPT ![2] = Other(@)])
  /\ spoiled' = TRUE /\ UNCHANGED <<cc, refcc>>

FINCSTP == fpu' = pop(fpu) /\ ref' = Append(Tail(ref), Head(ref)) /\ Quiet
FDECSTP == fpu' = push(fpu) /\ ref' = <<Last(ref)>> \o Front(ref) /\ Quiet

(* FUCOM, FUCOMI, FCOMI and their popping forms; FUCOMPP pops twice.        *)
FUCOM ==
  \E i \in 0..N - 1 :
    /\ Used(0) /\ Used(i)
    /\ cc' = Ucom(fpu, i) /\ refcc' = Relation(ref[1], ref[i + 1])
    /\ \/ UNCHANGED <<fpu, ref>>
       \/ fpu' = pop(fpu) /\ ref' = RefPop(ref)
       \/ i = 1 /\ fpu' = pop(pop(fpu)) /\ ref' = RefPop(RefPop(ref))
    /\ UNCHANGED spoiled

(* FICOM, FICOMP and FTST have the order the wrong way round.               *)
FICOM ==
  \E b \in Values :
    /\ Used(0) /\ cc' = Icom(fpu, b) /\ refcc' = Relation(ref[1], b)
    /\ \/ UNCHANGED <<fpu, ref>>
       \/ fpu' = pop(fpu) /\ ref' = RefPop(ref)
    /\ spoiled' = (ref[1] # b)

FNINIT ==
  /\ fpu' = [fpu EXCEPT !.top = 0] /\ cc' = {}
  /\ ref' = [j \in 1..N |-> Free] /\ refcc' = {} /\ spoiled' = FALSE

Next ==
  \/ FNINIT
  \/ /\ ~spoiled
     /\ \/ FADD \/ FSUB \/ FSUBR \/ FMUL \/ FDIV \/ FDIVR
        \/ FLD \/ FST \/ FXCH \/ FCMOV \/ \E faults \in BOOLEAN : FSTPMem(faults)
        \/ Unary \/ TwoResults \/ FYL2X \/ FPATAN \/ FINCSTP \/ FDECSTP
        \/ FUCOM \/ FICOM

Spec == Init /\ [][Next]_vars

(******************************* Correctness *******************************)
(* Whatever a program does, the registers below TOP hold the stack of the   *)
(* manual, and the condition codes its last comparison, until it uses one   *)
(* of the instructions that the code executes otherwise.                    *)
StackIsStack ==
  /\ TypeOK
  /\ ~spoiled => /\ \A i \in 0..N - 1 : Used(i) => ST(fpu, i) = ref[i + 1]
                 /\ cc = refcc
=============================================================================
