------------------------------ MODULE Transfer ------------------------------
(* Far transfers of control between segments, privilege levels and modes:  *)
(* cpu-simu/int.cpp, iret.cpp, call.cpp, ret.cpp, jump.cpp and the vector  *)
(* dispatch of exception-int.cpp.  A stack is a sequence of groups of      *)
(* words, in the order in which they are pushed, and a stack pointer is    *)
(* the number of groups below it.  Guests are balanced: a handler removes  *)
(* what it pushed and the error code, and returns as it was called.        *)
EXTENDS Naturals, Sequences, SequencesExt

CONSTANTS Gates,      (* interrupt and trap gates                          *)
          Redirected, (* those the TSS sends to protected mode from V86    *)
          Length,     (* addresses of a code segment                       *)
          Nest        (* bound: returns that are outstanding               *)

Segs   == {"user", "kernel", "shared", "8086", "bios"}   (* code segments  *)
Stacks == {"user", "kernel", "8086"}
(* The selector of a data segment register.  Accesses go by the hidden     *)
(* descriptor, which a transfer never changes: it has no part here.  The   *)
(* "8086" selector of a real or V86 program says nothing of a descriptor:  *)
(* protected mode may find a usable one there.                             *)
Data   == Stacks \cup {"null"}

(* DPL of a segment; "shared" is a conforming one.                         *)
Dpl(s) == IF s = "user" THEN 3 ELSE 0
Sel    == [seg : Segs, rpl : {0, 3}]
Gate   == [seg : {"kernel", "shared"}, rpl : {0, 3}, dpl : {0, 3},
           wide : BOOLEAN, err : BOOLEAN]

TransferAssumption ==
  /\ Gates \subseteq Gate /\ Redirected \subseteq Gates
  /\ Length \in Nat \ {0, 1} /\ Nest \in Nat \ {0}
  (* Gates name their segment with the RPL of its level, and one of them   *)
  (* with an error code serves #GP.                                        *)
  /\ \A g \in Gates : g.seg = "kernel" => g.rpl = 0
  /\ \E g \in Gates : g.err /\ g.seg = "kernel" /\ g.wide

VARIABLES
  pe, vm,      (* protected mode; virtual 8086 mode                        *)
  cs, cpl, eip,
  ss, ds,
  fl,          (* IF and IOPL of EFLAGS                                    *)
  stk,         (* the stacks                                               *)
  due          (* history: the contexts to return to; how; whether the     *)
               (* address saved is that of the INT itself; and whether the *)
               (* frame lacks the error code that the handler expects      *)

vars == <<pe, vm, cs, cpl, eip, ss, ds, fl, stk, due>>

Flags == [ifl : BOOLEAN, iopl : {0, 3}, vm : BOOLEAN]
Image == [ifl |-> fl.ifl, iopl |-> fl.iopl, vm |-> vm]
None  == [ifl |-> FALSE, iopl |-> 0, vm |-> FALSE]
Top   == stk[ss]

(* Groups of words: EFLAGS, CS and EIP; CS and EIP; SS and ESP; the data   *)
(* selectors; an error code or a parameter.                                *)
Frame(c, e, f) == [is |-> "frame", sel |-> c, num |-> e, fl |-> f]
Far(c, e)      == [is |-> "far", sel |-> c, num |-> e, fl |-> None]
Old(s, n)      == [is |-> "stack", sel |-> [seg |-> s, rpl |-> 0], num |-> n, fl |-> None]
Saved(d)       == [is |-> "data", sel |-> [seg |-> d, rpl |-> 0], num |-> 0, fl |-> None]
Word(w)        == [is |-> w, sel |-> [seg |-> "8086", rpl |-> 0], num |-> 0, fl |-> None]

Next1 == (eip + 1) % Length
ContextAt(e) == [cs |-> cs, cpl |-> cpl, vm |-> vm, eip |-> e, ss |-> ss,
                 sp |-> Len(Top), fl |-> fl]
Expect(how, c, again, short) ==
  due' = Append(due, [how |-> how, back |-> c, again |-> again, short |-> short])

TypeOK ==
  /\ {pe, vm} \subseteq BOOLEAN /\ cs \in Sel /\ cpl \in {0, 3} /\ eip \in 0..Length - 1
  /\ ss \in Stacks /\ ds \in Data /\ Image \in Flags
  /\ DOMAIN stk = Stacks /\ Len(due) <= Nest

Start(mode) ==
  CASE mode = "real"   -> [seg |-> "8086", stack |-> "8086", level |-> 0]
    [] mode = "kernel" -> [seg |-> "kernel", stack |-> "kernel", level |-> 0]
    [] mode = "user"   -> [seg |-> "user", stack |-> "user", level |-> 3]
    [] mode = "v86"    -> [seg |-> "8086", stack |-> "8086", level |-> 3]

Init ==
  /\ \E mode \in {"real", "kernel", "user", "v86"}, p \in {0, 3} :
       /\ pe = (mode # "real") /\ vm = (mode = "v86")
       /\ cs = [seg |-> Start(mode).seg, rpl |-> IF vm THEN 0 ELSE Start(mode).level]
       /\ cpl = Start(mode).level /\ ss = Start(mode).stack /\ ds = ss
       /\ fl = [ifl |-> TRUE, iopl |-> p]
  /\ eip = 0 /\ due = <<>> /\ stk = [s \in Stacks |-> <<>>]

-----------------------------------------------------------------------------
(* What the program does between transfers.                                *)
Work == eip' = Next1 /\ UNCHANGED <<pe, vm, cs, cpl, ss, ds, fl, stk, due>>

(* CLI and STI, whatever the level: the code does not ask for IOPL.        *)
SetIf(on) ==
  /\ fl' = [fl EXCEPT !.ifl = on]
  /\ UNCHANGED <<pe, vm, cs, cpl, eip, ss, ds, stk, due>>

(* load_dseg: a level can only load what it may use; a real or V86 program *)
(* loads segments of its own.                                              *)
LoadData(d) ==
  /\ IF pe /\ ~vm THEN d # "8086" /\ Dpl(d) >= cpl ELSE d = "8086"
  /\ ds' = d
  /\ UNCHANGED <<pe, vm, cs, cpl, eip, ss, fl, stk, due>>

PushParam ==
  /\ ss = "user" /\ Len(Top) < 1        \* bound: enough for one RETF 1
  /\ stk' = [stk EXCEPT ![ss] = Append(@, Word("param"))]
  /\ UNCHANGED <<pe, vm, cs, cpl, eip, ss, ds, fl, due>>

PopWord ==
  /\ Top # <<>> /\ Last(Top).is \in {"error", "param"}
  /\ stk' = [stk EXCEPT ![ss] = Front(@)]
  /\ UNCHANGED <<pe, vm, cs, cpl, eip, ss, ds, fl, due>>

-----------------------------------------------------------------------------
(* Interrupts.  "next" is __NEXT_EIP__, to which the handler is to return. *)
(* Delivery clears IF through trap gates too: INTERRUPT_GATE is true for   *)
(* both, and false for a task gate, which is refused.                      *)

(* int_real86.  The same code serves a V86 program whose vector the TSS    *)
(* does not redirect.                                                      *)
IntReal86(next) ==
  /\ stk' = [stk EXCEPT ![ss] = Append(@, Frame(cs, next, [Image EXCEPT !.vm = FALSE]))]
  /\ fl' = [fl EXCEPT !.ifl = FALSE]
  /\ cs' = [seg |-> "bios", rpl |-> 0] /\ eip' = 0
  /\ Expect("iret", ContextAt(next), FALSE, FALSE)
  /\ UNCHANGED <<pe, vm, cpl, ss, ds>>

(* What every gate of int_protected asks; "soft" is the parameter INTn,    *)
(* which int_call sets for hardware interrupts too.                        *)
Refused(g, soft) ==
  \/ soft /\ vm /\ fl.iopl < 3
  \/ soft /\ g.dpl < cpl
  \/ Dpl(g.seg) > cpl
  \/ vm /\ g.seg = "shared"

Code(g) == IF g.err THEN <<Word("error")>> ELSE <<>>

(* The new stack of the TSS: PUSH stores with supervisor rights.           *)
NewStack(words) == [stk EXCEPT !["kernel"] = words]

(* A mutation of Usual: selectors are not checked.                         *)
UsualKept(d) == {d}

(* null_invalid_sreg_selector at level 3 clears the selector, never the    *)
(* hidden descriptor.                                                      *)
Usual(d) ==
  CASE d = "kernel" -> {"null"}
    [] d = "8086"   -> {"null", "8086"}
    [] OTHER        -> {d}

(* A mutation of Inter: the old stack pointer is read after the switch.    *)
InterLate(g, next, at) ==
  /\ stk' = NewStack(<<Old(ss, 0), Frame(cs, IF g.wide THEN next ELSE at, Image)>> \o Code(g))
  /\ cs' = [seg |-> g.seg, rpl |-> Dpl(g.seg)] /\ cpl' = g.rpl
  /\ ss' = "kernel" /\ vm' = FALSE /\ UNCHANGED ds

(* int_inter_previlege: a 16-bit gate saves __EIP__, not __NEXT_EIP__.     *)
Inter(g, next, at) ==
  /\ stk' = NewStack(<<Old(ss, Len(Top)), Frame(cs, IF g.wide THEN next ELSE at, Image)>> \o Code(g))
  /\ cs' = [seg |-> g.seg, rpl |-> Dpl(g.seg)] /\ cpl' = g.rpl
  /\ ss' = "kernel" /\ vm' = FALSE /\ UNCHANGED ds

(* int_v86 pushes no error code, whatever the gate is for.                 *)
FromV86(g, next) ==
  /\ stk' = NewStack(<<Saved(ds), Old(ss, Len(Top)), Frame(cs, next, Image)>>)
  /\ cs' = [seg |-> g.seg, rpl |-> g.rpl] /\ cpl' = g.rpl
  /\ ss' = "kernel" /\ vm' = FALSE /\ ds' \in Usual(ds)

(* int_intra_privilege.                                                    *)
Intra(g, next) ==
  /\ stk' = [stk EXCEPT ![ss] = Append(@, Frame(cs, next, Image)) \o Code(g)]
  /\ cs' = [seg |-> g.seg, rpl |-> g.rpl] /\ cpl' = g.rpl
  /\ UNCHANGED <<ss, ds, vm>>

Inner(g) == g.seg # "shared" /\ Dpl(g.seg) < cpl

IntProtected(g, next, at) ==
  /\ \/ vm /\ FromV86(g, next)
     \/ ~vm /\ Inner(g) /\ Inter(g, next, at)
     \/ ~vm /\ ~Inner(g) /\ Intra(g, next)
  /\ fl' = [fl EXCEPT !.ifl = FALSE] /\ eip' = 0
  /\ Expect("iret", ContextAt(next), ~g.wide /\ Inner(g) /\ next # at, vm /\ g.err)
  /\ UNCHANGED pe

(* A refused INT n raises #GP at the instruction; the handler of a refused *)
(* hardware interrupt is never called.                                     *)
Protection == CHOOSE g \in Gates : g.err /\ g.seg = "kernel" /\ g.wide

IntCall(g, next, at) ==
  IF ~pe \/ (vm /\ g \notin Redirected) THEN IntReal86(next)
  ELSE IF ~Refused(g, TRUE) THEN IntProtected(g, next, at)
  ELSE next # at /\ IntProtected(Protection, at, at)

Room == Len(due) < Nest

(* A conforming handler runs at the level of its selector: the guest uses  *)
(* such a gate only from there.  From V86 even a 16-bit gate pushes double *)
(* words, so the guest has none for it.                                    *)
Usable(g) ==
  /\ ~g.err
  /\ pe /\ ~vm /\ g.seg = "shared" => g.rpl = cpl
  /\ pe /\ vm => g.wide

IntN(g)      == Room /\ Usable(g) /\ IntCall(g, Next1, eip)
Interrupt(g) == Room /\ Usable(g) /\ fl.ifl /\ IntCall(g, eip, eip)
Fault        == Room /\ pe /\ IntProtected(Protection, eip, eip)

-----------------------------------------------------------------------------
(* The return of what the top of due stands for.  A handler that takes the *)
(* address on its stack for the missing error code goes astray, and its    *)
(* return is left out.                                                     *)
Back == due' = Front(due)
Returning(how, is) ==
  /\ due # <<>> /\ Last(due).how = how /\ ~Last(due).short
  /\ Top # <<>> /\ Last(Top).is = is
At(n)  == Top[Len(Top) - n]
Less(n) == SubSeq(Top, 1, Len(Top) - n)

IretReal ==
  /\ cs' = At(0).sel /\ eip' = At(0).num
  /\ fl' = [ifl |-> At(0).fl.ifl, iopl |-> At(0).fl.iopl]
  /\ stk' = [stk EXCEPT ![ss] = Less(1)]
  /\ UNCHANGED <<pe, vm, cpl, ss, ds>> /\ Back

(* iret_from_v86: below IOPL 3 the instruction does nothing.               *)
IretFromV86 ==
  IF fl.iopl = 3 THEN IretReal
  ELSE eip' = Next1 /\ UNCHANGED <<pe, vm, cs, cpl, ss, ds, fl, stk, due>>

(* iret_to_v86: of the data segments it pops the selectors, and leaves the *)
(* hidden descriptors as the handler had them.                             *)
IretToV86 ==
  /\ cs' = At(0).sel /\ cpl' = 3 /\ eip' = At(0).num /\ vm' = TRUE
  /\ fl' = [ifl |-> At(0).fl.ifl, iopl |-> At(0).fl.iopl]
  /\ ss' = "8086" /\ ds' = At(2).sel.seg
  /\ stk' = [stk EXCEPT ![ss] = Less(3), !["8086"] = SubSeq(@, 1, At(1).num)]
  /\ UNCHANGED pe /\ Back

(* iret_to_outer_level: __CPL__ is the new one by the time IF is compared  *)
(* with IOPL.                                                              *)
IretOuter ==
  /\ cs' = At(0).sel /\ cpl' = cs'.rpl /\ eip' = At(0).num
  /\ fl' = [fl EXCEPT !.ifl = IF cpl' <= At(0).fl.iopl THEN At(0).fl.ifl ELSE @]
  /\ ss' = At(1).sel.seg /\ ds' \in Usual(ds)
  /\ stk' = [stk EXCEPT ![ss] = Less(2), ![ss'] = SubSeq(@, 1, At(1).num)]
  /\ UNCHANGED <<pe, vm>> /\ Back

IretSame ==
  /\ cs' = At(0).sel /\ cpl' = cs'.rpl /\ eip' = At(0).num
  /\ fl' = [ifl |-> IF cpl' <= At(0).fl.iopl THEN At(0).fl.ifl ELSE fl.ifl,
            iopl |-> IF cpl' = 0 THEN At(0).fl.iopl ELSE fl.iopl]
  /\ stk' = [stk EXCEPT ![ss] = Less(1)]
  /\ UNCHANGED <<pe, vm, ss, ds>> /\ Back

IretProtected ==
  \/ At(0).fl.vm /\ cpl = 0 /\ IretToV86
  \/ ~(At(0).fl.vm /\ cpl = 0) /\ At(0).sel.rpl > cpl /\ IretOuter
  \/ ~(At(0).fl.vm /\ cpl = 0) /\ At(0).sel.rpl = cpl /\ IretSame

Iret ==
  /\ Returning("iret", "frame")
  /\ \/ ~pe /\ IretReal
     \/ pe /\ vm /\ IretFromV86
     \/ pe /\ ~vm /\ IretProtected

-----------------------------------------------------------------------------
(* far_call, far_jump and far_ret.  A call of a conforming segment saves   *)
(* no return address (call_to_code_seg), so the guest only jumps there.    *)
FarJump(s) ==
  /\ Room            \* bound: the innermost of Nest programs does not jump
  /\ IF ~pe \/ vm THEN s \in {"8086", "bios"}
     ELSE s = "shared" \/ (s \in {"user", "kernel"} /\ Dpl(s) = cpl)
  /\ cs' = [seg |-> s, rpl |-> IF ~pe \/ vm THEN 0 ELSE cpl] /\ eip' = 0
  /\ UNCHANGED <<pe, vm, cpl, ss, ds, fl, stk, due>>

FarCall(s) ==
  /\ Room
  /\ s \in IF ~pe \/ vm THEN {"8086", "bios"} ELSE {x \in {"user", "kernel"} : Dpl(x) = cpl}
  /\ stk' = [stk EXCEPT ![ss] = Append(@, Far(cs, Next1))]
  /\ cs' = [seg |-> s, rpl |-> IF ~pe \/ vm THEN 0 ELSE cpl] /\ eip' = 0
  /\ Expect("retf", ContextAt(Next1), FALSE, FALSE)
  /\ UNCHANGED <<pe, vm, cpl, ss, ds, fl>>

(* RETF n releases n parameters, at the return to an outer level on both   *)
(* stacks.  That return has 16-bit operands: with 32 the code reads only   *)
(* half of ESP, and leaves the other undefined.                            *)
FarRet(n) ==
  /\ Returning("retf", "far") /\ Len(Top) > n
  /\ cs' = At(0).sel /\ eip' = At(0).num
  /\ \/ /\ ~pe \/ vm \/ At(0).sel.rpl = cpl
        /\ n = 0 /\ stk' = [stk EXCEPT ![ss] = Less(1)]
        /\ UNCHANGED <<cpl, ss, ds>>
     \/ /\ pe /\ ~vm /\ At(0).sel.rpl > cpl
        /\ Len(Top) = n + 2 /\ At(n + 1).num >= n
        /\ cpl' = cs'.rpl /\ ss' = At(n + 1).sel.seg /\ ds' \in Usual(ds)
        /\ stk' = [stk EXCEPT ![ss] = Less(n + 2), ![ss'] = SubSeq(@, 1, At(n + 1).num - n)]
  /\ UNCHANGED <<pe, vm, fl>> /\ Back

(* The kernel starts or resumes a program with a frame of its own making.  *)
Params(n) == [i \in 1..n |-> Word("param")]
Start86 == [seg |-> "8086", rpl |-> 0]
Dispatch(frame, c, t, n, how, p) ==
  /\ pe /\ ~vm /\ cpl = 0 /\ ss = "kernel" /\ Len(due) <= 1 /\ Len(stk[t]) >= n
  /\ stk' = [stk EXCEPT !["kernel"] = frame]
  /\ due' = <<[how |-> how, again |-> FALSE, short |-> FALSE,
               back |-> [cs |-> c, cpl |-> 3, vm |-> t = "8086", eip |-> 1, ss |-> t,
                         sp |-> Len(stk[t]) - n, fl |-> [ifl |-> TRUE, iopl |-> p]]]>>
  /\ UNCHANGED <<pe, vm, cs, cpl, eip, ss, ds, fl>>

DispatchUser ==
  LET c == [seg |-> "user", rpl |-> 3]
      old == Old("user", Len(stk["user"]))
  IN
  \/ Dispatch(<<old, Frame(c, 1, [ifl |-> TRUE, iopl |-> fl.iopl, vm |-> FALSE])>>,
              c, "user", 0, "iret", fl.iopl)
  \/ \E n \in {0, 1} :
       Dispatch(<<old>> \o Params(n) \o <<Far(c, 1)>>, c, "user", n, "retf", fl.iopl)

DispatchV86(p) ==
  Dispatch(<<Saved("8086"), Old("8086", Len(stk["8086"])),
             Frame(Start86, 1, [ifl |-> TRUE, iopl |-> p, vm |-> TRUE])>>,
           Start86, "8086", 0, "iret", p)

Next ==
  \/ Work \/ PushParam \/ PopWord
  \/ \E on \in BOOLEAN : SetIf(on)
  \/ \E d \in Stacks : LoadData(d)
  \/ \E g \in Gates : IntN(g) \/ Interrupt(g)
  \/ Fault \/ Iret
  \/ \E s \in Segs : FarJump(s) \/ FarCall(s)
  \/ \E n \in {0, 1} : FarRet(n)
  \/ DispatchUser \/ \E p \in {0, 3} : DispatchV86(p)

Spec == Init /\ [][Next]_vars

-----------------------------------------------------------------------------
(* The level the code runs at, the selector it runs under, its stack and   *)
(* its data selectors agree whatever transfers led there, and the return   *)
(* of a handler is never refused for its level.                            *)
LevelsAgree ==
  /\ pe /\ ~vm =>
       /\ cs.rpl = cpl /\ cs.seg # "shared" => Dpl(cs.seg) = cpl
       /\ ss = IF cpl = 0 THEN "kernel" ELSE "user"
       /\ cpl = 3 => ds # "kernel"
       /\ Returning("iret", "frame") => At(0).sel.rpl >= cpl
  /\ vm => pe /\ cpl = 3 /\ ss = "8086" /\ ds = "8086" /\ cs.seg \in {"8086", "bios"}

(* What a return is to restore: all of the context, the flags if they were *)
(* saved.  Two things the code does not: a 16-bit gate to an inner level   *)
(* saves the address of the INT, and IRET to a level above IOPL leaves IF  *)
(* as the handler had it.                                                  *)
Restored(d, c) ==
  /\ [cs |-> c.cs, cpl |-> c.cpl, vm |-> c.vm, ss |-> c.ss, sp |-> c.sp] =
     [cs |-> d.back.cs, cpl |-> d.back.cpl, vm |-> d.back.vm, ss |-> d.back.ss, sp |-> d.back.sp]
  /\ d.again \/ c.eip = d.back.eip
  /\ d.how = "iret" => c.fl.iopl = d.back.fl.iopl
  /\ d.how = "iret" /\ (c.vm \/ c.cpl <= c.fl.iopl) => c.fl.ifl = d.back.fl.ifl

(* However interrupts, calls and mode changes are nested, every return     *)
(* puts the program back where it was interrupted or called from: segment, *)
(* address, level, mode, stack and flags.                                  *)
ReturnRestores ==
  (Iret \/ \E n \in {0, 1} : FarRet(n)) /\ due' # due =>
    Restored(Last(due), ContextAt(eip)')
ReturnsExact == [][ReturnRestores]_vars

(* int.cpp:351-352, "40 bytes (error code pushed) OR 36 bytes (no error    *)
(* code pushed)": the handler of a fault finds its error code on top of    *)
(* the stack, from V86 too.                                                *)
CodePushed == Fault => Last(stk'[ss']).is = "error"
CodeOnTop == [][CodePushed]_vars
=============================================================================
