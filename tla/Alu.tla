---------------------------------- MODULE Alu ----------------------------------
(***************************************************************************)
(* The integer unit (cpu-simu/alucore.cpp, mult-exec.cpp, the decimal      *)
(* adjustments of instr.cpp and include/condition.h) at operand size 8,    *)
(* running the short programs a compiler writes with it: arithmetic and    *)
(* shifts of two words, comparisons, products and quotients, decimal sums. *)
(* The carry flag lives twice, in EFLAGS and in the global CF of           *)
(* alucore.cpp, which no other instruction and no interrupt keeps in step. *)
(***************************************************************************)
EXTENDS Integers, Sequences, FiniteSetsExt, TLC

CONSTANTS Words,     (* operands, a set of bytes                             *)
          Programs   (* names of the programs that are run                   *)

AluAssumption == Words \subseteq 0 .. 255

Byte == 256
Bit(x, i) == (x \div 2^i) % 2
Bits(x) == {i \in 0 .. 7 : Bit(x, i) = 1}
Value(S) == MapThenSumSet(LAMBDA i : 2^i, S)
Signed(x) == IF x >= 128 THEN x - Byte ELSE x
Odd(S) == Cardinality(S) % 2 = 1

(* calc_pf, calc_sf and ZF=DEST==0, and SET_FLAG for all of them.          *)
Status(f, x) ==
  [f EXCEPT !.PF = ~Odd(Bits(x)), !.SF = Bit(x, 7) = 1, !.ZF = x = 0]

Carry(f) == IF f.CF THEN 1 ELSE 0

-----------------------------------------------------------------------------
(* Each function of alucore.cpp gives its result, cflag and the global CF. *)
Result(x, f, g) == [dest |-> x, flags |-> f, glob |-> g]

(* Slip: the carry into the sum is not part of the overflow.               *)
AdderNoCarryIn(f, a, b, c) ==
  LET sum == a + b + c
      over == (Bit(a, 7) + Bit(b, 7) + Bit(a + b, 7) + Bit(sum, 8)) % 2 = 1
  IN Result(sum % Byte,
            [Status(f, sum % Byte) EXCEPT !.CF = sum >= Byte, !.OF = over,
               !.AF = (a % 16) + (b % 16) + c >= 16],
            sum >= Byte)

(* alu_adder: overflow is the carry into bit 7 against the one out of it.  *)
Adder(f, a, b, c) ==
  LET sum == a + b + c
      over == (Bit(a, 7) + Bit(b, 7) + Bit(sum, 7) + Bit(sum, 8)) % 2 = 1
  IN Result(sum % Byte,
            [Status(f, sum % Byte) EXCEPT !.CF = sum >= Byte, !.OF = over,
               !.AF = (a % 16) + (b % 16) + c >= 16],
            sum >= Byte)

Borrow(r) == [r EXCEPT !.flags.CF = ~@, !.flags.AF = ~@]

Add(f, a, b) == Adder(f, a, b, 0)
Adc(f, a, b) == Adder(f, a, b, Carry(f))
Subb(f, a, b) == Borrow(Adder(f, a, 255 - b, 1 - Carry(f)))

(* alu_sub says overflow whenever the most negative number is subtracted.  *)
Sub(f, a, b) ==
  LET r == Borrow(Adder(f, a, 255 - b, 1))
  IN [r EXCEPT !.flags.OF = @ \/ b = 128]

KeepCarry(f, r) == [r EXCEPT !.flags.CF = f.CF, !.glob = f.CF]
Inc(f, a) == KeepCarry(f, Adder(f, a, 1, 0))
Dec(f, a) == LET r == KeepCarry(f, Adder(f, a, 255, 0)) IN [r EXCEPT !.flags.AF = ~@]

(* alu_neg leaves AF as it is.                                             *)
Neg(f, a) ==
  Result((Byte - a) % Byte,
         [Status(f, (Byte - a) % Byte) EXCEPT !.CF = a # 0, !.OF = a = 128], a # 0)

Logic(f, S) == Result(Value(S), [Status(f, Value(S)) EXCEPT !.CF = FALSE, !.OF = FALSE], FALSE)
And(f, a, b) == Logic(f, Bits(a) \cap Bits(b))
Or(f, a, b)  == Logic(f, Bits(a) \cup Bits(b))
Xor(f, a, b) == Logic(f, (Bits(a) \cup Bits(b)) \ (Bits(a) \cap Bits(b)))

(* alu_shr1 to alu_rol1: the byte, and the bit that fell out of it last.   *)
Shr1(s) == [x |-> s.x \div 2, out |-> s.x % 2]
Sar1(s) == [x |-> (s.x \div 2) + 128 * Bit(s.x, 7), out |-> s.x % 2]
Rcr1(s) == [x |-> (s.x \div 2) + 128 * s.out, out |-> s.x % 2]
Ror1(s) == [x |-> (s.x \div 2) + 128 * (s.x % 2), out |-> s.x % 2]
Shl1(s) == [x |-> (2 * s.x) % Byte, out |-> Bit(s.x, 7)]
Rcl1(s) == [x |-> ((2 * s.x) % Byte) + s.out, out |-> Bit(s.x, 7)]
Rol1(s) == [x |-> ((2 * s.x) % Byte) + Bit(s.x, 7), out |-> Bit(s.x, 7)]

Repeat(Step(_), s, n) ==
  LET at[i \in 0 .. n] == IF i = 0 THEN s ELSE Step(at[i - 1]) IN at[n]

(* The macro MOD: congruent to x, and zero only for zero.                  *)
Mod(x, m) == x - (IF x < m THEN x \div m ELSE (x + 1 - m) \div m) * m

(* The common shape of the seven functions: a count of zero changes        *)
(* nothing, CF is the last bit out, OF is set by a count of one only, the  *)
(* shifts set SF, ZF and PF and the rotates leave them.                    *)
Turned(Step(_), f, g, a, cnt, turns, in, sets, over(_)) ==
  IF cnt = 0 THEN Result(a, f, g)
  ELSE LET s == Repeat(Step, [x |-> a, out |-> in], turns)
           base == IF sets THEN Status(f, s.x) ELSE f
       IN Result(s.x, [base EXCEPT !.CF = s.out = 1,
                                   !.OF = IF cnt = 1 THEN over(s) ELSE @],
                 s.out = 1)

Shr(f, g, a, n) == Turned(Shr1, f, g, a, n % 32, n % 32, 0, TRUE, LAMBDA s : a >= 128)
Sar(f, g, a, n) == Turned(Sar1, f, g, a, n % 32, n % 32, 0, TRUE, LAMBDA s : FALSE)
Shl(f, g, a, n) ==
  Turned(Shl1, f, g, a, n % 32, n % 32, 0, TRUE, LAMBDA s : Bit(s.x, 7) # s.out)
Ror(f, g, a, n) ==
  Turned(Ror1, f, g, a, n % 32, Mod(n % 32, 8), 0, FALSE, LAMBDA s : Bit(s.x, 7) # Bit(s.x, 6))
Rol(f, g, a, n) ==
  Turned(Rol1, f, g, a, n % 32, Mod(n % 32, 8), 0, FALSE, LAMBDA s : Bit(s.x, 7) # Bit(s.x, 0))
Rcl(f, g, a, n) ==
  Turned(Rcl1, f, g, a, n % 32, Mod(n % 32, 9), Carry(f), FALSE, LAMBDA s : Bit(s.x, 7) # s.out)

(* alu_rcr turns the global CF in, whatever cflag says.                    *)
Rcr(f, g, a, n) ==
  Turned(Rcr1, f, g, a, n % 32, Mod(n % 32, 9), IF g THEN 1 ELSE 0, FALSE,
         LAMBDA s : Bit(a, 7) # Carry(f))

(* alu_shld and alu_shrd do not store CF, and set ZF by the uncut result.  *)
Shld(f, g, a, b, n) ==
  IF n % 32 \in 1 .. 7
  THEN LET m == n % 32
           wide == a * 2^m + (b \div 2^(8 - m))
       IN Result(wide % Byte, [Status(f, wide % Byte) EXCEPT !.ZF = wide = 0],
                 Bit(b, 8 - m) = 1)
  ELSE Result(a, f, g)
Shrd(f, g, a, b, n) ==
  IF n % 32 \in 1 .. 7
  THEN LET m == n % 32
           wide == b * 2^(8 - m) + (a \div 2^m)
       IN Result(wide % Byte, [Status(f, wide % Byte) EXCEPT !.ZF = wide = 0],
                 Bit(a, m - 1) = 1)
  ELSE Result(a, f, g)

-----------------------------------------------------------------------------
(* mult_insn_exec, operand size 8, on AX = 256 * hi + lo.  No flag changes *)
(* and a quotient that does not fit is cut.                                *)
Pair(v) == [lo |-> v % Byte, hi |-> (v \div Byte) % Byte]
Wide(p) == 256 * p.hi + p.lo
SignedWide(p) == IF p.hi >= 128 THEN Wide(p) - 65536 ELSE Wide(p)

Mul(p, b) == Pair(p.lo * b)
Imul(p, b) == Pair((Signed(p.lo) * Signed(b)) % 65536)
Quotient(n, d) ==                                         (* towards zero *)
  LET q == Max({n, -n}) \div Max({d, -d}) IN IF (n < 0) = (d < 0) THEN q ELSE -q
Div(p, b) == [lo |-> (Wide(p) \div b) % Byte, hi |-> Wide(p) % b]
Idiv(p, b) ==
  LET n == SignedWide(p)  d == Signed(b)  q == Quotient(n, d)
  IN [lo |-> q % Byte, hi |-> (n - q * d) % Byte]

(* daa_: the carry out of the low adjustment is lost.                      *)
Daa(f, al) ==
  LET low == al % 16 > 9 \/ f.AF
      x == IF low THEN (al + 6) % Byte ELSE al
      high == x > 159 \/ f.CF
  IN [dest |-> IF high THEN (x + 96) % Byte ELSE x,
      flags |-> [f EXCEPT !.AF = low, !.CF = high]]
Das(f, al) ==
  LET low == al % 16 > 9 \/ f.AF
      x == IF low THEN (al + 250) % Byte ELSE al
      high == x > 159 \/ f.CF
  IN [dest |-> IF high THEN (x + 160) % Byte ELSE x,
      flags |-> [f EXCEPT !.AF = low, !.CF = high]]

(* aas_, aam_ and aad_, on AL and AH and one digit each; aaa_ is never     *)
(* called.                                                                 *)
Aas(f, p) ==
  LET low == p.lo % 16 > 9 \/ f.AF
  IN [lo |-> IF low THEN (p.lo + 250) % 16 ELSE p.lo,
      hi |-> IF low THEN (p.hi + 255) % Byte ELSE p.hi,
      flags |-> [f EXCEPT !.AF = low, !.CF = low]]
Aam(p) == [lo |-> p.lo % 10, hi |-> p.lo \div 10]
Aad(p) == [lo |-> (p.lo + 10 * p.hi) % Byte, hi |-> 0]

(* eval_cond, the conditions of a comparison.                              *)
Cond(c, f) ==
  CASE c = "B"  -> f.CF         [] c = "NB" -> ~f.CF
    [] c = "E"  -> f.ZF         [] c = "NE" -> ~f.ZF
    [] c = "NA" -> f.CF \/ f.ZF [] c = "A"  -> ~f.CF /\ ~f.ZF
    [] c = "L"  -> f.SF # f.OF  [] c = "NL" -> f.SF = f.OF
    [] c = "NG" -> f.ZF \/ f.SF # f.OF
    [] c = "G"  -> ~f.ZF /\ f.SF = f.OF

(* alu_bsf, alu_bsr, alu_bts, alu_btr, alu_btc.                            *)
Scan(f, g, a, Best(_)) ==
  Result(IF a = 0 THEN 0 ELSE Best(Bits(a)), [f EXCEPT !.ZF = a = 0], g)
Bsf(f, g, a) == Scan(f, g, a, Min)
Bsr(f, g, a) == Scan(f, g, a, Max)
BitOp(f, a, n, S) == Result(Value(S), [f EXCEPT !.CF = Bit(a, n % 8) = 1], Bit(a, n % 8) = 1)

-----------------------------------------------------------------------------
(* An instruction is <<name, destination, source>>; the count of a double  *)
(* shift is register "a".                                                  *)
Code ==
  [ add   |-> << <<"add", "lo", "a">>, <<"dec", "n", "n">>, <<"adc", "hi", "b">> >>,
    sub   |-> << <<"sub", "lo", "a">>, <<"inc", "n", "n">>, <<"sbb", "hi", "b">> >>,
    neg   |-> << <<"neg", "hi", "hi">>, <<"neg", "lo", "lo">>, <<"sbb", "hi", "zero">> >>,
    shl   |-> << <<"shl", "lo", "one">>, <<"dec", "n", "n">>, <<"rcl", "hi", "one">> >>,
    shr   |-> << <<"shr", "hi", "one">>, <<"dec", "n", "n">>, <<"rcr", "lo", "one">> >>,
    sar   |-> << <<"sar", "hi", "one">>, <<"rcr", "lo", "one">> >>,
    rot   |-> << <<"rol", "lo", "a">>, <<"ror", "lo", "a">> >>,
    rcl   |-> << <<"rcl", "lo", "a">>, <<"rcr", "lo", "a">> >>,
    shld  |-> << <<"shld", "hi", "lo">>, <<"shl", "lo", "a">> >>,
    shrd  |-> << <<"shrd", "lo", "hi">>, <<"shr", "hi", "a">> >>,
    xor   |-> << <<"xor", "lo", "a">>, <<"xor", "lo", "a">> >>,
    mask  |-> << <<"and", "lo", "a">>, <<"or", "lo", "a">> >>,
    scan  |-> << <<"bsf", "hi", "lo">>, <<"btr", "lo", "hi">>, <<"bts", "lo", "hi">> >>,
    high  |-> << <<"bsr", "hi", "lo">>, <<"btc", "lo", "hi">>, <<"btc", "lo", "hi">> >>,
    cmp   |-> << <<"cmp", "lo", "a">> >>,
    daa   |-> << <<"adc", "lo", "a">>, <<"daa", "lo", "lo">> >>,
    das   |-> << <<"sbb", "lo", "a">>, <<"das", "lo", "lo">> >>,
    aas   |-> << <<"sbb", "lo", "a">>, <<"aas", "lo", "hi">> >>,
    aam   |-> << <<"aam", "lo", "hi">>, <<"aad", "lo", "hi">> >>,
    div   |-> << <<"div", "lo", "a">> >>,
    idiv  |-> << <<"idiv", "lo", "a">> >>,
    mul   |-> << <<"mul", "lo", "a">>, <<"div", "lo", "a">> >>,
    imul  |-> << <<"imul", "lo", "a">>, <<"idiv", "lo", "a">> >> ]

VARIABLES
  prog, pc,    (* the program, and its instruction to run                   *)
  r,           (* the registers                                             *)
  flags, glob, (* EFLAGS, and the global CF                                 *)
  given, cut   (* history: the registers and the carry at the start, and    *)
               (* whether an interrupt was taken in the middle              *)
vars == <<prog, pc, r, flags, glob, given, cut>>

(* The registers that a program takes its operands from; the others hold 0.*)
Operands(p) ==
  UNION {{Code[p][k][2], Code[p][k][3]} : k \in DOMAIN Code[p]}
    \cup (IF p \in {"div", "idiv"} THEN {"hi"} ELSE {})

Init ==
  /\ prog \in Programs /\ pc = 1
  /\ \E w \in [Operands(prog) \cap {"lo", "hi", "a", "b"} -> Words] :
       r = w @@ [lo |-> 0, hi |-> 0, a |-> 0, b |-> 0, n |-> 0, one |-> 1, zero |-> 0]
  /\ \E c \in BOOLEAN :
       flags = [CF |-> c, PF |-> FALSE, AF |-> FALSE, ZF |-> FALSE, SF |-> FALSE, OF |-> FALSE]
  /\ glob = FALSE /\ given = [r |-> r, CF |-> flags.CF] /\ cut = FALSE

(* alu_insn_exec, bitop_insn_exec, and mrom_insn_exec for the rest.        *)
Exec(op, f, g, d, s) ==
  CASE op = "add" -> Add(f, d, s)       [] op = "adc" -> Adc(f, d, s)
    [] op = "sub" -> Sub(f, d, s)       [] op = "sbb" -> Subb(f, d, s)
    [] op = "inc" -> Inc(f, d)          [] op = "dec" -> Dec(f, d)
    [] op = "neg" -> Neg(f, d)          [] op = "and" -> And(f, d, s)
    [] op = "or"  -> Or(f, d, s)        [] op = "xor" -> Xor(f, d, s)
    [] op = "cmp" -> [Sub(f, d, s) EXCEPT !.dest = d]
    [] op = "shl" -> Shl(f, g, d, s)    [] op = "shr" -> Shr(f, g, d, s)
    [] op = "sar" -> Sar(f, g, d, s)    [] op = "rol" -> Rol(f, g, d, s)
    [] op = "ror" -> Ror(f, g, d, s)    [] op = "rcl" -> Rcl(f, g, d, s)
    [] op = "rcr" -> Rcr(f, g, d, s)
    [] op = "shld" -> Shld(f, g, d, s, r.a)
    [] op = "shrd" -> Shrd(f, g, d, s, r.a)
    [] op = "bsf" -> Bsf(f, g, s) [] op = "bsr" -> Bsr(f, g, s)
    [] op = "bts" -> BitOp(f, d, s, Bits(d) \cup {s % 8})
    [] op = "btr" -> BitOp(f, d, s, Bits(d) \ {s % 8})
    [] op = "btc" -> BitOp(f, d, s, IF s % 8 \in Bits(d) THEN Bits(d) \ {s % 8}
                                                         ELSE Bits(d) \cup {s % 8})
    [] op = "daa" -> Result(Daa(f, d).dest, Daa(f, d).flags, g)
    [] op = "das" -> Result(Das(f, d).dest, Das(f, d).flags, g)

Running == pc <= Len(Code[prog])

Step ==
  /\ Running /\ pc' = pc + 1
  /\ LET i == Code[prog][pc] IN
     IF i[1] \in {"mul", "imul", "div", "idiv", "aas", "aam", "aad"}
     THEN LET p == [lo |-> r.lo, hi |-> r.hi]
              q == CASE i[1] = "mul"  -> Mul(p, r.a)
                     [] i[1] = "imul" -> Imul(p, r.a)
                     [] i[1] = "div"  -> Div(p, r.a)
                     [] i[1] = "idiv" -> Idiv(p, r.a)
                     [] i[1] = "aas"  -> Aas(flags, p)
                     [] i[1] = "aam"  -> Aam(p)
                     [] i[1] = "aad"  -> Aad(p)
          IN /\ i[1] \in {"div", "idiv"} => r.a # 0
             /\ r' = [r EXCEPT !.lo = q.lo, !.hi = q.hi]
             /\ flags' = IF i[1] = "aas" THEN q.flags ELSE flags
             /\ UNCHANGED glob
     ELSE LET e == Exec(i[1], flags, glob, r[i[2]], r[i[3]])
          IN r' = [r EXCEPT ![i[2]] = e.dest] /\ flags' = e.flags /\ glob' = e.glob
  /\ UNCHANGED <<prog, given, cut>>

(* An interrupt restores the flags it pushed; the global CF is whatever    *)
(* its handler's instructions leave.                                       *)
Interrupt ==
  /\ Running /\ pc > 1 /\ ~cut
  /\ glob' \in BOOLEAN /\ cut' = TRUE
  /\ UNCHANGED <<prog, pc, r, flags, given>>

Next == Step \/ Interrupt
Spec == Init /\ [][Next]_vars

-----------------------------------------------------------------------------
At(w) == given.r[w]
Wide0 == Wide([lo |-> At("lo"), hi |-> At("hi")])
WideAB == Wide([lo |-> r.a, hi |-> r.b])
WideNow == Wide([lo |-> r.lo, hi |-> r.hi])
C0 == IF given.CF THEN 1 ELSE 0
Done(p) == prog = p /\ ~Running
Places == r.a % 32                  (* a shift count                         *)

(* What the programs are run for.  Sums, differences, shifts and rotations *)
(* of two words are those of the numbers, the carry being handed from one  *)
(* instruction to the next; double shifts are shifts of two words; rotating*)
(* there and back, a double exclusive or and setting the lowest bit again  *)
(* change nothing.  RCR is excepted once an interrupt came in between:     *)
(* it takes the carry the handler left in the global CF (alucore.cpp).     *)
WideRight ==
  /\ Done("add") => WideNow + 65536 * Carry(flags) = Wide0 + WideAB
  /\ Done("sub") => WideNow - 65536 * Carry(flags) = Wide0 - WideAB
  /\ Done("neg") => WideNow = (65536 - Wide0) % 65536
  /\ Done("shl") => WideNow + 65536 * Carry(flags) = 2 * Wide0
  /\ Done("shr") /\ ~cut => 2 * WideNow + Carry(flags) = Wide0
  /\ Done("sar") /\ ~cut => 2 * SignedWide(r) + Carry(flags) = SignedWide(given.r)
  /\ Done("rot") \/ Done("xor") => r.lo = At("lo")
  /\ Done("rcl") /\ ~cut => r.lo = At("lo") /\ flags.CF = given.CF
  /\ Done("shld") /\ Places < 8 => WideNow = (Wide0 * 2^Places) % 65536
  /\ Done("shrd") /\ Places < 8 => WideNow = Wide0 \div 2^Places
  /\ Done("mask") => r.lo = r.a
  /\ Done("scan") => (r.lo = At("lo") \/ r.lo = 1) /\ r.lo % 2^r.hi = 0
  /\ Done("high") => r.lo = At("lo") /\ r.lo \div 2 < 2^r.hi

(* A product divided by its factor gives the other one back, a dividend is *)
(* its quotient times the divisor and the rest if the quotient fits, and   *)
(* digits are added and subtracted as decimal numbers if the sum of the    *)
(* bytes does not lie in FA .. FF; so are unpacked ones, with a borrow from*)
(* AH (mult_insn_exec, daa_, das_, aas_, aam_, aad_).                      *)
Digits(b) == b % 16 < 10 /\ b \div 16 < 10
Decimal(b) == 10 * (b \div 16) + (b % 16)

ProductRight ==
  /\ Done("mul") \/ Done("aam") => r.lo = At("lo") /\ r.hi = 0
  /\ Done("imul") => r.lo = At("lo") /\ r.hi = 0
  /\ Done("div") /\ Wide0 < 256 * r.a => r.a * r.lo + r.hi = Wide0 /\ r.hi < r.a
  /\ LET n == SignedWide(given.r)  d == Signed(r.a) IN
     Done("idiv") /\ Quotient(n, d) \in -128 .. 127 => Signed(r.lo) * d + Signed(r.hi) = n
DecimalRight ==
  Digits(At("lo")) /\ Digits(r.a) =>
    /\ Done("daa") /\ At("lo") + r.a + C0 \notin 250 .. 255 =>
         Decimal(r.lo) + 100 * Carry(flags) = Decimal(At("lo")) + Decimal(r.a) + C0
    /\ Done("das") =>
         Decimal(r.lo) - 100 * Carry(flags) = Decimal(At("lo")) - Decimal(r.a) - C0
    /\ Done("aas") /\ At("lo") < 10 /\ r.a < 10 =>
         LET diff == At("lo") - r.a - C0 IN
           /\ r.lo = diff % 10 /\ flags.CF = (diff < 0)
           /\ r.hi = (At("hi") + (IF diff < 0 THEN 255 ELSE 0)) % Byte

(* All of these: what arithmetic instructions are for.                     *)
NumbersRight == WideRight /\ ProductRight /\ DecimalRight

(* RCR tests the carry flag, as the table at the head of alucore.cpp and   *)
(* alutest/alu_rcr1.cpp have it: a shift of two words is right whatever    *)
(* interrupts it (alu_rcr).                                                *)
RotateTestsCarry == Done("shr") => 2 * WideNow + Carry(flags) = Wide0

(* After a comparison the conditions order its operands as numbers, with   *)
(* and without sign, and after a difference of two words the words (alu_sub*)
(* sets OF for the most negative subtrahend, which spoils the signed ones).*)
Orders(p, q, sp, sq) ==
  /\ Cond("B", flags) <=> p < q
  /\ Cond("NB", flags) <=> p >= q
  /\ Cond("L", flags) <=> sp < sq
  /\ Cond("NL", flags) <=> sp >= sq

OrderRight ==
  /\ Done("cmp") /\ r.a # 128 =>
       /\ Orders(r.lo, r.a, Signed(r.lo), Signed(r.a))
       /\ Cond("E", flags) <=> r.lo = r.a
       /\ Cond("NE", flags) <=> r.lo # r.a
       /\ Cond("NA", flags) <=> r.lo <= r.a
       /\ Cond("A", flags) <=> r.lo > r.a
       /\ Cond("NG", flags) <=> Signed(r.lo) <= Signed(r.a)
       /\ Cond("G", flags) <=> Signed(r.lo) > Signed(r.a)
  /\ Done("sub") =>
       Orders(Wide0, WideAB, SignedWide([lo |-> At("lo"), hi |-> At("hi")]),
              SignedWide([lo |-> r.a, hi |-> r.b]))
=============================================================================
