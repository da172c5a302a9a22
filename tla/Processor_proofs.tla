-------------------------- MODULE Processor_proofs --------------------------
(***************************************************************************)
(* Proofs about CpuStep for programs of any length and handlers nested to  *)
(* any depth.  Where the program is when it is diverted, it is in one      *)
(* place only: in the registers, in one frame of the stack or in the save  *)
(* area of SMM.  And about Paging, for tables and buffers of any size,     *)
(* about X87, for any number of registers, and about those instructions of *)
(* Restart that nothing repeats.                                           *)
(***************************************************************************)
EXTENDS Processor, SequenceTheorems, FiniteSetTheorems, TLAPS

Programs(s) == {i \in 1 .. Len(s) : s[i].code = "program"}

(* There is one program, whose instruction d is due, unless l, wherever it *)
(* is of the frame f in the registers, the stack s and, in SMM (m), the    *)
(* save area v; and there is room for the interrupt that f and v allow.    *)
Valid(f, s, m, v, d, l) ==
  /\ Len(s) <= Depth
  /\ f.ifl \/ f.tfl => Len(s) < Depth
  /\ m /\ f.code = "smi handler" /\ (v.ifl \/ v.tfl) => Len(s) < Depth
  /\ \A i, j \in Programs(s) : i = j
  /\ f.code = "program" => Programs(s) = {}
  /\ m /\ v.code = "program" => f.code # "program" /\ Programs(s) = {}
  /\ ~l => /\ f.code = "program" => f.at = d
           /\ \A i \in Programs(s) : s[i].at = d
           /\ m /\ v.code = "program" => v.at = d

Types ==
  /\ Frame(eip) \in SavedStates /\ next \in Places
  /\ real \in BOOLEAN /\ halt \in BOOLEAN /\ smm \in BOOLEAN /\ smi \in BOOLEAN
  /\ intr \in BOOLEAN /\ acked \in BOOLEAN /\ left \in BOOLEAN
  /\ stack \in Seq(SavedStates)
  /\ save \in SavedStates /\ due \in Places

IInv ==
  /\ Types
  /\ Valid(Frame(eip), stack, smm, save, due, left)
  /\ code = "program" /\ ~left /\ ~halt => next = eip

Handler == [code |-> "handler", at |-> 0, ifl |-> FALSE, tfl |-> FALSE]
SmiHandler == [code |-> "smi handler", at |-> 0, ifl |-> FALSE, tfl |-> FALSE]

(************************** The one program ********************************)
LEMMA Handlers ==
  ASSUME StepAssumption
  PROVE  Handler \in SavedStates /\ SmiHandler \in SavedStates /\ 0 \in Places
BY DEF StepAssumption, Handler, SmiHandler, SavedStates, Codes, Places

LEMMA Fields ==
  ASSUME NEW f \in SavedStates
  PROVE  /\ f.code \in Codes /\ f.at \in Places /\ f.ifl \in BOOLEAN /\ f.tfl \in BOOLEAN
         /\ f = [code |-> f.code, at |-> f.at, ifl |-> f.ifl, tfl |-> f.tfl]
BY DEF SavedStates

(* What the stack operations do to the frames.                             *)
LEMMA Pushed ==
  ASSUME NEW S, NEW s \in Seq(S), NEW f \in S
  PROVE  /\ Append(s, f) \in Seq(S)
         /\ Len(Append(s, f)) = Len(s) + 1
         /\ Append(s, f)[Len(s) + 1] = f
         /\ \A i \in 1 .. Len(s) : Append(s, f)[i] = s[i]
BY AppendProperties

LEMMA Popped ==
  ASSUME NEW S, NEW s \in Seq(S), s # <<>>
  PROVE  /\ Len(s) \in Nat \ {0}
         /\ Last(s) = s[Len(s)] /\ Last(s) \in S
         /\ Front(s) \in Seq(S)
         /\ Len(Front(s)) = Len(s) - 1
         /\ \A i \in 1 .. Len(s) - 1 : Front(s)[i] = s[i]
<1>1. Len(s) \in Nat \ {0}
  BY EmptySeq
<1> DEFINE n == Len(s) - 1
<1>2. n \in Nat /\ n + 1 = Len(s)
  BY <1>1
<1>3. Front(s) = SubSeq(s, 1, n)
  BY DEF Front
<1>4. \A i \in 1 .. n : i \in 1 .. Len(s)
  BY <1>2
<1>5. \A i \in 1 .. n : s[i] \in S
  BY <1>4, ElementOfSeq
<1>6. /\ SubSeq(s, 1, n) \in Seq(S)
      /\ Len(SubSeq(s, 1, n)) = IF 1 <= n THEN n - 1 + 1 ELSE 0
      /\ \A i \in 1 .. n - 1 + 1 : SubSeq(s, 1, n)[i] = s[1 + i - 1]
  <2>1. n \in Int /\ 1 \in Int
    BY <1>2
  <2> HIDE DEF n
  <2> QED
    BY <1>5, <2>1, SubSeqProperties
<1>7. Len(SubSeq(s, 1, n)) = n
  BY <1>2, <1>6
<1>8. \A i \in 1 .. n : SubSeq(s, 1, n)[i] = s[i]
  <2> HIDE DEF n
  <2> QED
    BY <1>2, <1>6
<1>9. Last(s) = s[Len(s)] /\ Last(s) \in S
  BY <1>1, ElementOfSeq DEF Last
<1> QED
  BY <1>1, <1>3, <1>6, <1>7, <1>8, <1>9

(* The frames of the program, when f is the frame above t.                 *)
LEMMA OnTop ==
  ASSUME NEW n \in Nat, NEW s, NEW t, NEW f, Len(t) = n, Len(s) = n + 1,
         s[n + 1] = f, \A i \in 1 .. n : s[i] = t[i]
  PROVE  /\ Programs(s) = Programs(t) \cup IF f.code = "program" THEN {n + 1} ELSE {}
         /\ n + 1 \notin Programs(t)
         /\ \A i \in Programs(t) : s[i] = t[i]
<1>1. /\ \A i \in 1 .. n + 1 : i \in 1 .. n \/ i = n + 1
      /\ \A i \in 1 .. n : i \in 1 .. n + 1
      /\ n + 1 \in 1 .. n + 1 /\ n + 1 \notin 1 .. n
  OBVIOUS
<1>2. /\ \A i : i \in Programs(t) <=> i \in 1 .. n /\ t[i].code = "program"
      /\ \A i : i \in Programs(s) <=> i \in 1 .. n + 1 /\ s[i].code = "program"
  BY DEF Programs
<1> QED
  BY <1>1, <1>2

(* A frame that is pushed takes the program along.                         *)
LEMMA PushValid ==
  ASSUME NEW f \in SavedStates, NEW s \in Seq(SavedStates), NEW m, NEW v, NEW d, NEW l,
         Depth \in Nat
  PROVE  Valid(f, s, m, v, d, l) /\ Len(s) < Depth
         => Append(s, f) \in Seq(SavedStates) /\ Valid(Handler, Append(s, f), m, v, d, l)
<1> DEFINE t == Append(s, f)
           n == Len(s)
<1>0. SUFFICES ASSUME Valid(f, s, m, v, d, l), n < Depth
               PROVE  t \in Seq(SavedStates) /\ Valid(Handler, t, m, v, d, l)
  OBVIOUS
<1>1. /\ t \in Seq(SavedStates) /\ Len(t) = n + 1
      /\ t[n + 1] = f /\ \A i \in 1 .. n : t[i] = s[i]
  BY Pushed
<1>2. Len(s) = n /\ n \in Nat
  BY LenProperties
<1> HIDE DEF t, n
<1>3. n + 1 <= Depth
  BY <1>0, <1>2
<1>4. /\ Programs(t) = Programs(s) \cup IF f.code = "program" THEN {n + 1} ELSE {}
      /\ \A i \in Programs(s) : t[i] = s[i]
  BY <1>1, <1>2, OnTop
<1>5. /\ \A i, j \in Programs(t) : i = j
      /\ m /\ v.code = "program" => Programs(t) = {}
  BY <1>0, <1>4 DEF Valid
<1>6. ~l => /\ \A i \in Programs(t) : t[i].at = d
            /\ m /\ v.code = "program" => v.at = d
  BY <1>0, <1>1, <1>4 DEF Valid
<1>7. Len(t) <= Depth
  BY <1>1, <1>3
<1>8. /\ Handler.code # "program" /\ Handler.code # "smi handler"
      /\ ~Handler.ifl /\ ~Handler.tfl
  BY DEF Handler
<1>9. Valid(Handler, t, m, v, d, l)
  BY <1>5, <1>6, <1>7, <1>8, Zenon DEF Valid
<1> QED
  BY <1>1, <1>9

(* The return to a frame brings it back.                                   *)
LEMMA PopValid ==
  ASSUME NEW f \in SavedStates, NEW s \in Seq(SavedStates), NEW m, NEW v, NEW d, NEW l,
         Depth \in Nat
  PROVE  Valid(f, s, m, v, d, l) /\ s # <<>> /\ f.code = "handler"
         => /\ Last(s) \in SavedStates /\ Front(s) \in Seq(SavedStates)
            /\ Len(Front(s)) < Depth
            /\ Valid(Last(s), Front(s), m, v, d, l)
<1> DEFINE t == Front(s)
           n == Len(s) - 1
           g == Last(s)
<1>0. SUFFICES ASSUME Valid(f, s, m, v, d, l), s # <<>>, f.code = "handler"
               PROVE  /\ g \in SavedStates /\ t \in Seq(SavedStates)
                      /\ Len(t) < Depth /\ Valid(g, t, m, v, d, l)
  OBVIOUS
<1>1. /\ n \in Nat /\ Len(s) = n + 1 /\ g = s[n + 1] /\ g \in SavedStates
      /\ t \in Seq(SavedStates) /\ Len(t) = n /\ \A i \in 1 .. n : s[i] = t[i]
  <2>1. Len(s) \in Nat \ {0}
    BY <1>0, Popped
  <2>2. n \in Nat /\ Len(s) = n + 1
    BY <2>1
  <2> QED
    BY <1>0, <2>2, Popped
<1>2. Len(s) <= Depth
  BY <1>0 DEF Valid
<1> HIDE DEF t, n, g
<1>3. n < Depth /\ n <= Depth
  BY <1>1, <1>2
<1>4. /\ Programs(s) = Programs(t) \cup IF g.code = "program" THEN {n + 1} ELSE {}
      /\ n + 1 \notin Programs(t)
      /\ \A i \in Programs(t) : s[i] = t[i]
  BY <1>1, OnTop
<1>5. /\ \A i, j \in Programs(t) : i = j
      /\ g.code = "program" => Programs(t) = {}
      /\ m /\ v.code = "program" => g.code # "program" /\ Programs(t) = {}
  BY <1>0, <1>4 DEF Valid
<1>6. ~l => /\ g.code = "program" => g.at = d
            /\ \A i \in Programs(t) : t[i].at = d
            /\ m /\ v.code = "program" => v.at = d
  BY <1>0, <1>1, <1>4 DEF Valid
<1>7. Valid(g, t, m, v, d, l)
  BY <1>1, <1>3, <1>5, <1>6 DEF Valid
<1> QED
  BY <1>1, <1>3, <1>7

(* Entering SMM saves it, instead of what the save area held.              *)
LEMMA EnterValid ==
  ASSUME NEW f, NEW s, NEW m, NEW v, NEW d, NEW l, Valid(f, s, m, v, d, l),
         NEW h, h.code = "smi handler", ~h.ifl, ~h.tfl
  PROVE  Valid(h, s, TRUE, f, d, l)
BY DEF Valid

(* Leaving it brings back what was saved.                                  *)
LEMMA LeaveValid ==
  ASSUME NEW f, NEW s, NEW v, NEW d, NEW l, Valid(f, s, TRUE, v, d, l),
         f.code = "smi handler"
  PROVE  Valid(v, s, FALSE, v, d, l)
BY DEF Valid

(* An instruction of the program moves what is due with it, and where the  *)
(* program is does not matter once an interrupt has ended a "jmp $".       *)
LEMMA MoveValid ==
  ASSUME NEW f, NEW s, NEW m, NEW v, NEW d, NEW l, Valid(f, s, m, v, d, l),
         NEW g, NEW e, NEW k, l => k,
         g.code = f.code, f.code = "program" /\ ~k => g.at = e, f.code # "program" => e = d,
         g.ifl \/ g.tfl => Len(s) < Depth
  PROVE  Valid(g, s, m, v, e, k)
BY DEF Valid

(******************************* The steps *********************************)
LEMMA Goes ==
  ASSUME StepAssumption, NEW f \in SavedStates
  PROVE  /\ Goto(f) => Frame(eip)' = f /\ next' \in Places /\ next' = eip'
         /\ Start("handler") => Frame(eip)' = Handler /\ next' \in Places /\ next' = eip'
         /\ Start("smi handler")
            => Frame(eip)' = SmiHandler /\ next' \in Places /\ next' = eip'
BY Fields, Handlers DEF Goto, Start, Frame, Handler, SmiHandler

(* What a step has to show when it ends in front of an instruction.        *)
LEMMA Settled ==
  ASSUME NEW f \in SavedStates, Frame(eip)' = f, next' \in Places, next' = eip',
         real' \in BOOLEAN, halt' \in BOOLEAN, smm' \in BOOLEAN, smi' \in BOOLEAN,
         intr' \in BOOLEAN, acked' \in BOOLEAN, left' \in BOOLEAN,
         stack' \in Seq(SavedStates), save' \in SavedStates, due' \in Places,
         Valid(f, stack', smm', save', due', left')
  PROVE  IInv'
<1>1. Valid(Frame(eip), stack, smm, save, due, left)'
  BY DEF Valid, Programs
<1>2. Types'
  BY DEF Types
<1> QED
  BY <1>1, <1>2 DEF IInv

(* The end of step keeps the one program, whatever it does first.          *)
LEMMA Retires ==
  ASSUME StepAssumption, Types, NEW f \in SavedStates, NEW s \in Seq(SavedStates),
         NEW m \in BOOLEAN, NEW p \in BOOLEAN, AfterRetire(f, s, m, p),
         Valid(f, s, m, save, due', left), tfl => Len(s) < Depth,
         halt' \in BOOLEAN
  PROVE  IInv'
<1>1. Depth \in Nat /\ Handler \in SavedStates /\ SmiHandler \in SavedStates
  BY Handlers DEF StepAssumption
<1>2. /\ real' \in BOOLEAN /\ left' \in BOOLEAN /\ left' = left
      /\ due' \in Places
  BY DEF AfterRetire, Types, StepAssumption, Places
<1>3. CASE smi /\ ~m /\ EnterSmm(f) /\ smi' = FALSE /\ stack' = s /\ acked' = FALSE
  <2>1. Frame(eip)' = SmiHandler /\ next' \in Places /\ next' = eip'
    BY <1>3, Goes DEF EnterSmm
  <2>2. /\ smm' = TRUE /\ save' = f /\ intr' \in BOOLEAN
        /\ smi' = FALSE /\ stack' = s /\ acked' = FALSE
    BY <1>3 DEF EnterSmm, Types
  <2>3. SmiHandler.code = "smi handler" /\ ~SmiHandler.ifl /\ ~SmiHandler.tfl
    BY DEF SmiHandler
  <2>4. Valid(SmiHandler, s, TRUE, f, due', left)
    BY <2>3, EnterValid
  <2> QED
    BY <1>1, <1>2, <2>1, <2>2, <2>4, Settled
<1>4. CASE /\ acked' = (f.ifl /\ p)
           /\ intr' \in IF acked' THEN BOOLEAN ELSE {p}
           /\ IF acked' \/ (tfl /\ ~f.ifl)
              THEN IntCall(f, s)
              ELSE Goto(f) /\ stack' = s
           /\ smm' = m
           /\ UNCHANGED <<smi, save>>
  <2>1. /\ acked' \in BOOLEAN /\ intr' \in BOOLEAN /\ smm' \in BOOLEAN
        /\ smi' \in BOOLEAN /\ save' \in SavedStates
        /\ smm' = m /\ save' = save
    BY <1>4, Fields DEF Types
  <2>2. CASE Goto(f) /\ stack' = s
    <3>1. Frame(eip)' = f /\ next' \in Places /\ next' = eip'
      BY <2>2, Goes
    <3> QED
      BY <1>2, <2>1, <2>2, <3>1, Settled
  <2>3. CASE Deliver(f, s) /\ (acked' \/ tfl)
    <3>1. Frame(eip)' = Handler /\ next' \in Places /\ next' = eip'
      BY <2>3, Goes DEF Deliver
    <3>2. Len(s) < Depth
      BY <1>4, <2>3 DEF Valid
    <3>3. /\ stack' = Append(s, f) /\ stack' \in Seq(SavedStates)
          /\ Valid(Handler, stack', m, save, due', left)
      BY <1>1, <2>3, <3>2, PushValid DEF Deliver
    <3> QED
      BY <1>1, <1>2, <2>1, <3>1, <3>3, Settled
  <2> QED
    BY <1>4, <2>2, <2>3 DEF IntCall
<1> QED
  BY <1>3, <1>4 DEF AfterRetire

(* The frame that follows an instruction.                                  *)
LEMMA Follows ==
  ASSUME StepAssumption, IInv,
         due' = IF code = "program" THEN (next + 1) % Length ELSE due
  PROVE  /\ Following \in SavedStates
         /\ Following.code = code /\ Following.ifl = ifl /\ Following.tfl = tfl
         /\ code = "program" => Following.at = due'
         /\ code # "program" => due' = due
         /\ Valid(Following, stack, smm, save, due', left)
<1>1. next \in Places /\ Frame(eip) \in SavedStates
  BY DEF IInv, Types
<1>2. (next + 1) % Length \in Places /\ 0 \in Places
  BY <1>1 DEF StepAssumption, Places
<1>3. /\ Following.code = code /\ Following.ifl = ifl /\ Following.tfl = tfl
      /\ Following.at = IF code = "program" THEN (next + 1) % Length ELSE 0
      /\ Frame(eip).code = code /\ Frame(eip).ifl = ifl /\ Frame(eip).tfl = tfl
  BY DEF Following, Frame
<1>4. Following \in SavedStates
  BY <1>1, <1>2 DEF Following, Frame, SavedStates
<1>5. Valid(Frame(eip), stack, smm, save, due, left)
  BY DEF IInv
<1>6. ifl \/ tfl => Len(stack) < Depth
  BY <1>3, <1>5 DEF Valid
<1>7. Valid(Following, stack, smm, save, due', left)
  BY <1>3, <1>5, <1>6, MoveValid
<1> QED
  BY <1>3, <1>4, <1>7

LEMMA Retired ==
  ASSUME NEW f, NEW s, NEW m, NEW p, AfterRetire(f, s, m, p)
  PROVE  due' = IF code = "program" THEN (next + 1) % Length ELSE due
BY DEF AfterRetire

LEMMA PlainKeeps ==
  ASSUME StepAssumption, IInv, Plain
  PROVE  IInv'
<1>1. AfterRetire(Following, stack, smm, intr) /\ halt' = FALSE
  BY DEF Plain
<1>2. /\ Following \in SavedStates /\ Following.tfl = tfl
      /\ Valid(Following, stack, smm, save, due', left)
  BY <1>1, Retired, Follows
<1>3. Types /\ stack \in Seq(SavedStates) /\ smm \in BOOLEAN /\ intr \in BOOLEAN
  BY DEF IInv, Types
<1>4. tfl => Len(stack) < Depth
  BY <1>2 DEF Valid
<1> QED
  BY <1>1, <1>2, <1>3, <1>4, Retires

LEMMA HltKeeps ==
  ASSUME StepAssumption, IInv, Hlt
  PROVE  IInv'
<1>1. AfterRetire(Following, stack, smm, intr) /\ halt' = TRUE
  BY DEF Hlt
<1>2. /\ Following \in SavedStates /\ Following.tfl = tfl
      /\ Valid(Following, stack, smm, save, due', left)
  BY <1>1, Retired, Follows
<1>3. Types /\ stack \in Seq(SavedStates) /\ smm \in BOOLEAN /\ intr \in BOOLEAN
  BY DEF IInv, Types
<1>4. tfl => Len(stack) < Depth
  BY <1>2 DEF Valid
<1> QED
  BY <1>1, <1>2, <1>3, <1>4, Retires

LEMMA FlagsKeeps ==
  ASSUME StepAssumption, IInv, NEW i \in BOOLEAN, NEW t \in BOOLEAN, Flags(i, t)
  PROVE  IInv'
<1> DEFINE g == [Following EXCEPT !.ifl = i, !.tfl = t]
<1>1. AfterRetire(g, stack, smm, intr) /\ halt' = FALSE /\ (i \/ t => Len(stack) + 1 <= Depth)
  BY DEF Flags, Room
<1>2. /\ Following \in SavedStates /\ Following.tfl = tfl
      /\ Valid(Following, stack, smm, save, due', left)
  BY <1>1, Retired, Follows
<1>3. /\ Types /\ stack \in Seq(SavedStates) /\ smm \in BOOLEAN /\ intr \in BOOLEAN
      /\ due' = due'
  BY DEF IInv, Types
<1>4. tfl => Len(stack) < Depth
  BY <1>2 DEF Valid
<1>5. /\ g \in SavedStates
      /\ g.code = Following.code /\ g.at = Following.at /\ g.ifl = i /\ g.tfl = t
  BY <1>2 DEF SavedStates
<1>6. i \/ t => Len(stack) < Depth
  <2>1. Len(stack) \in Nat /\ Depth \in Nat
    BY <1>3, LenProperties DEF StepAssumption
  <2> QED
    BY <1>1, <2>1
<1>7. ~left /\ Following.code = "program" => Following.at = due'
  BY <1>2 DEF Valid
<1> HIDE DEF g
<1>8. Valid(g, stack, smm, save, due', left)
  BY <1>2, <1>5, <1>6, <1>7, MoveValid
<1> QED
  BY <1>1, <1>3, <1>4, <1>5, <1>8, Retires

LEMMA IntNKeeps ==
  ASSUME StepAssumption, IInv, IntN
  PROVE  IInv'
<1> DEFINE s == Append(stack, Following)
<1>1. AfterRetire(Handler, s, smm, intr) /\ halt' = FALSE /\ Len(stack) + 2 <= Depth
  <2> DEFINE g == [Frame(0) EXCEPT !.code = "handler", !.ifl = FALSE, !.tfl = FALSE]
  <2>1. Frame(0) \in SavedStates /\ Frame(0).at = 0
    BY Handlers DEF IInv, Types, Frame, SavedStates
  <2>2. /\ g \in SavedStates
        /\ g.code = "handler" /\ g.at = 0 /\ g.ifl = FALSE /\ g.tfl = FALSE
    BY <2>1 DEF SavedStates, Codes
  <2>3. g = Handler
    <3> HIDE DEF g
    <3> QED
      BY <2>2, Fields DEF Handler
  <2> QED
    BY <2>3 DEF IntN, Room
<1>2. /\ Following \in SavedStates
      /\ Valid(Following, stack, smm, save, due', left)
  BY <1>1, Retired, Follows
<1>3. Types /\ stack \in Seq(SavedStates) /\ smm \in BOOLEAN /\ intr \in BOOLEAN
  BY DEF IInv, Types
<1>4. Depth \in Nat /\ Handler \in SavedStates
  BY Handlers DEF StepAssumption
<1>5. Len(stack) \in Nat /\ Len(stack) < Depth /\ Len(stack) + 1 < Depth
  BY <1>1, <1>3, <1>4, LenProperties
<1>6. /\ s \in Seq(SavedStates)
      /\ Valid(Handler, s, smm, save, due', left)
  BY <1>2, <1>3, <1>4, <1>5, PushValid
<1>7. Len(s) = Len(stack) + 1
  BY <1>2, <1>3, Pushed
<1> HIDE DEF s
<1>8. Len(s) < Depth
  BY <1>5, <1>7
<1> QED
  BY <1>1, <1>3, <1>4, <1>6, <1>8, Retires

LEMMA IretKeeps ==
  ASSUME StepAssumption, IInv, Iret
  PROVE  IInv'
<1>1. /\ AfterRetire(Last(stack), Front(stack), smm, intr) /\ halt' = FALSE
      /\ code = "handler" /\ stack # <<>>
  BY DEF Iret
<1>2. due' = due
  BY <1>1, Retired
<1>3. /\ Types /\ stack \in Seq(SavedStates) /\ smm \in BOOLEAN /\ intr \in BOOLEAN
      /\ Frame(eip) \in SavedStates /\ Depth \in Nat
      /\ Valid(Frame(eip), stack, smm, save, due, left)
  BY DEF IInv, Types, StepAssumption
<1>4. Frame(eip).code = "handler"
  BY <1>1 DEF Frame
<1>5. /\ Last(stack) \in SavedStates /\ Front(stack) \in Seq(SavedStates)
      /\ Len(Front(stack)) < Depth
      /\ Valid(Last(stack), Front(stack), smm, save, due, left)
  BY <1>1, <1>3, <1>4, PopValid
<1> QED
  BY <1>1, <1>2, <1>3, <1>5, Retires

LEMMA RsmKeeps ==
  ASSUME StepAssumption, IInv, Rsm
  PROVE  IInv'
<1>1. halt' = FALSE /\ code = "smi handler" /\ smm
  BY DEF Rsm
<1>2. PICK pending \in {FALSE, intr} : AfterRetire(save, stack, FALSE, pending)
  BY DEF Rsm
<1>3. due' = due
  BY <1>1, <1>2, Retired
<1>4. /\ Types /\ stack \in Seq(SavedStates) /\ save \in SavedStates
      /\ pending \in BOOLEAN /\ smm = TRUE
      /\ Valid(Frame(eip), stack, smm, save, due, left)
  BY <1>1 DEF IInv, Types
<1>5. Frame(eip).code = "smi handler" /\ Frame(eip).tfl = tfl
  BY <1>1 DEF Frame
<1>6. Valid(save, stack, FALSE, save, due, left)
  BY <1>4, <1>5, LeaveValid
<1>7. tfl => Len(stack) < Depth
  BY <1>4, <1>5 DEF Valid
<1> QED
  BY <1>1, <1>2, <1>3, <1>4, <1>6, <1>7, Retires

LEMMA LoopKeeps ==
  ASSUME StepAssumption, IInv, Loop
  PROVE  IInv'
<1>1. /\ halt' = TRUE /\ acked' = FALSE /\ next' = Following.at
      /\ UNCHANGED <<real, code, eip, ifl, tfl, smm, smi, intr, stack, save, due, left>>
  BY DEF Loop, history
<1>2. Following.at \in Places
  BY DEF IInv, Types, Following, Frame, StepAssumption, Places
<1>3. Types'
  BY <1>1, <1>2 DEF IInv, Types, Frame
<1>4. Valid(Frame(eip), stack, smm, save, due, left)'
  BY <1>1 DEF IInv, Valid, Frame, Programs
<1> QED
  BY <1>1, <1>3, <1>4 DEF IInv

LEMMA FaultKeeps ==
  ASSUME StepAssumption, IInv, Fault
  PROVE  IInv'
<1>1. PICK at \in {eip, next} :
        \/ Room(1) /\ Deliver(Frame(at), stack)
        \/ Goto(Frame(at)) /\ UNCHANGED stack
  BY DEF Fault
<1>2. /\ ~halt /\ acked' = FALSE
      /\ UNCHANGED <<real, halt, smm, smi, intr, save, due, left>>
  BY DEF Fault, history
<1>3. /\ stack \in Seq(SavedStates) /\ save \in SavedStates /\ due \in Places
      /\ real \in BOOLEAN /\ halt \in BOOLEAN /\ smm \in BOOLEAN /\ smi \in BOOLEAN
      /\ intr \in BOOLEAN /\ left \in BOOLEAN
      /\ Valid(Frame(eip), stack, smm, save, due, left)
      /\ Depth \in Nat
  BY DEF IInv, Types, StepAssumption
<1>4. /\ Frame(at).code = code /\ Frame(at).at = at
      /\ Frame(at).ifl = ifl /\ Frame(at).tfl = tfl
      /\ Frame(eip).code = code /\ Frame(eip).at = eip
      /\ Frame(eip).ifl = ifl /\ Frame(eip).tfl = tfl
  BY DEF Frame
<1>5. Frame(at) \in SavedStates
  BY DEF IInv, Types, Frame, SavedStates
<1>6. code = "program" /\ ~left => at = due
  BY <1>2, <1>3, <1>4 DEF IInv, Valid
<1>7. ifl \/ tfl => Len(stack) < Depth
  BY <1>3, <1>4 DEF Valid
<1>8. Valid(Frame(at), stack, smm, save, due, left)
  BY <1>3, <1>4, <1>6, <1>7, MoveValid
<1>9. CASE Room(1) /\ Deliver(Frame(at), stack)
  <2>1. Frame(eip)' = Handler /\ next' \in Places /\ next' = eip'
    BY <1>5, <1>9, Goes DEF Deliver
  <2>2. Len(stack) < Depth
    <3>1. Len(stack) + 1 <= Depth /\ Len(stack) \in Nat
      BY <1>3, <1>9, LenProperties DEF Room
    <3> QED
      BY <1>3, <3>1
  <2>3. /\ stack' = Append(stack, Frame(at)) /\ stack' \in Seq(SavedStates)
        /\ Valid(Handler, stack', smm, save, due, left)
    BY <1>3, <1>5, <1>8, <1>9, <2>2, PushValid DEF Deliver
  <2> QED
    BY <1>2, <1>3, <2>1, <2>3, Handlers, Settled
<1>10. CASE Goto(Frame(at)) /\ UNCHANGED stack
  <2>1. Frame(eip)' = Frame(at) /\ next' \in Places /\ next' = eip'
    BY <1>5, <1>10, Goes
  <2>2. stack' = stack
    BY <1>10
  <2> DEFINE g == Frame(at)
  <2>3. g \in SavedStates /\ Frame(eip)' = g /\ Valid(g, stack, smm, save, due, left)
    BY <1>5, <1>8, <2>1
  <2> HIDE DEF g
  <2> QED
    BY <1>2, <1>3, <2>1, <2>2, <2>3, Settled
<1> QED
  BY <1>1, <1>9, <1>10

LEMMA WakeByInterruptKeeps ==
  ASSUME StepAssumption, IInv, WakeByInterrupt
  PROVE  IInv'
<1>1. /\ halt' = FALSE /\ acked' = TRUE /\ intr' \in BOOLEAN /\ ifl
      /\ left' = (left \/ eip # next)
      /\ UNCHANGED <<real, smm, smi, save, due>>
      /\ \/ UNCHANGED <<code, eip, next, ifl, tfl, stack>>
         \/ Deliver(Frame(next), stack)
  BY DEF WakeByInterrupt, place
<1>2. /\ Types /\ stack \in Seq(SavedStates) /\ save \in SavedStates /\ due \in Places
      /\ real \in BOOLEAN /\ smm \in BOOLEAN /\ smi \in BOOLEAN /\ left \in BOOLEAN
      /\ next \in Places /\ Depth \in Nat
      /\ Valid(Frame(eip), stack, smm, save, due, left)
  BY DEF IInv, Types, StepAssumption
<1>3. /\ Frame(next).code = code /\ Frame(next).at = next
      /\ Frame(next).ifl = ifl /\ Frame(next).tfl = tfl
      /\ Frame(eip).code = code /\ Frame(eip).at = eip
      /\ Frame(eip).ifl = ifl /\ Frame(eip).tfl = tfl
      /\ Frame(next) \in SavedStates
  BY <1>2 DEF Types, Frame, SavedStates
<1>4. Len(stack) < Depth
  BY <1>1, <1>2, <1>3 DEF Valid
<1>5. left' \in BOOLEAN /\ (left => left') /\ (~left' => ~left /\ eip = next)
  BY <1>1, <1>2
<1>6. CASE UNCHANGED <<code, eip, next, ifl, tfl, stack>>
  <2>1. Types'
    BY <1>1, <1>2, <1>5, <1>6 DEF Types, Frame
  <2>2. Valid(Frame(eip), stack, smm, save, due, left')
    BY <1>2, <1>5 DEF Valid
  <2>3. Valid(Frame(eip), stack, smm, save, due, left)'
    BY <1>1, <1>6, <2>2 DEF Valid, Frame, Programs
  <2> QED
    BY <1>5, <1>6, <2>1, <2>3 DEF IInv
<1>7. CASE Deliver(Frame(next), stack)
  <2>1. Frame(eip)' = Handler /\ next' \in Places /\ next' = eip'
    BY <1>3, <1>7, Goes DEF Deliver
  <2>2. code = "program" /\ ~left' => next = due
    BY <1>2, <1>3, <1>5 DEF Valid
  <2>3. Valid(Frame(next), stack, smm, save, due, left')
    BY <1>2, <1>3, <1>4, <1>5, <2>2, MoveValid
  <2>4. /\ stack' = Append(stack, Frame(next)) /\ stack' \in Seq(SavedStates)
        /\ Valid(Handler, stack', smm, save, due, left')
    BY <1>2, <1>3, <1>4, <1>7, <2>3, PushValid DEF Deliver
  <2> QED
    BY <1>1, <1>2, <1>5, <2>1, <2>4, Handlers, Settled
<1> QED
  BY <1>1, <1>6, <1>7

LEMMA EnterKeeps ==
  ASSUME StepAssumption, IInv, EnterSmm(Frame(eip)), halt' = FALSE, acked' = FALSE,
         smi' \in BOOLEAN, UNCHANGED <<real, stack, history>>
  PROVE  IInv'
<1>1. /\ stack \in Seq(SavedStates) /\ save \in SavedStates /\ due \in Places
      /\ real \in BOOLEAN /\ intr \in BOOLEAN /\ left \in BOOLEAN
      /\ Frame(eip) \in SavedStates
      /\ Valid(Frame(eip), stack, smm, save, due, left)
  BY DEF IInv, Types
<1>2. Frame(eip)' = SmiHandler /\ next' \in Places /\ next' = eip'
  BY Goes, Handlers DEF EnterSmm
<1>3. /\ smm' = TRUE /\ save' = Frame(eip) /\ intr' \in BOOLEAN
      /\ stack' = stack /\ real' = real /\ due' = due /\ left' = left
  BY <1>1 DEF EnterSmm, history
<1>4. SmiHandler.code = "smi handler" /\ ~SmiHandler.ifl /\ ~SmiHandler.tfl
  BY DEF SmiHandler
<1>5. Valid(SmiHandler, stack, TRUE, Frame(eip), due, left)
  BY <1>1, <1>4, EnterValid
<1> QED
  BY <1>1, <1>2, <1>3, <1>5, Handlers, Settled

LEMMA Stays ==
  ASSUME Valid(Frame(eip), stack, smm, save, due, left),
         UNCHANGED <<code, eip, ifl, tfl, stack, smm, save, due, left>>
  PROVE  Valid(Frame(eip), stack, smm, save, due, left)'
<1>1. Frame(eip)' = Frame(eip)
  BY DEF Frame
<1>2. UNCHANGED <<stack, smm, save, due, left>>
  OBVIOUS
<1>3. PICK f : f = Frame(eip)
  OBVIOUS
<1>4. Frame(eip)' = f /\ Valid(f, stack', smm', save', due', left')
  BY <1>1, <1>2, <1>3
<1> QED
  BY <1>4 DEF Valid, Programs

LEMMA PinKeeps ==
  ASSUME IInv, acked' = FALSE, smi' \in BOOLEAN, intr' \in BOOLEAN,
         UNCHANGED <<real, place, halt, smm, stack, save, history>>
  PROVE  IInv'
<1>1. UNCHANGED <<real, code, eip, next, ifl, tfl, halt, smm, stack, save, due, left>>
  BY DEF place, history
<1>2. Types'
  BY <1>1 DEF IInv, Types, Frame
<1>3. Valid(Frame(eip), stack, smm, save, due, left)'
  BY <1>1, Stays DEF IInv
<1> QED
  BY <1>1, <1>2, <1>3 DEF IInv

LEMMA Initial ==
  ASSUME StepAssumption, Init
  PROVE  IInv
<1>1. Types
  <2>1. code \in Codes /\ eip \in Places /\ ifl \in BOOLEAN /\ tfl \in BOOLEAN
    BY Handlers DEF Init, Codes
  <2>2. Frame(eip) \in SavedStates /\ Frame(0) \in SavedStates
    BY <2>1, Handlers DEF Frame, SavedStates
  <2>3. stack \in Seq(SavedStates)
    BY DEF Init
  <2> QED
    BY <2>2, <2>3, Handlers DEF Init, Types
<1>2. Len(stack) = 0 /\ stack = <<>>
  BY DEF Init
<1>3. Programs(stack) = {}
  BY <1>2 DEF Programs
<1>4. Valid(Frame(eip), stack, smm, save, due, left)
  BY <1>2, <1>3 DEF Init, Valid, Frame, StepAssumption
<1> QED
  BY <1>1, <1>4 DEF Init, IInv

LEMMA Invariant ==
  ASSUME StepAssumption
  PROVE  Spec => []IInv
<1>1. Init => IInv
  BY Initial
<1>2. IInv /\ [Next]_vars => IInv'
  <2> SUFFICES ASSUME IInv, [Next]_vars PROVE IInv'
    OBVIOUS
  <2>1. CASE Plain
    BY <2>1, PlainKeeps
  <2>2. CASE \E i, t \in BOOLEAN : Flags(i, t)
    BY <2>2, FlagsKeeps
  <2>3. CASE Hlt
    BY <2>3, HltKeeps
  <2>4. CASE Loop
    BY <2>4, LoopKeeps
  <2>5. CASE IntN
    BY <2>5, IntNKeeps
  <2>6. CASE Iret
    BY <2>6, IretKeeps
  <2>7. CASE Rsm
    BY <2>7, RsmKeeps
  <2>8. CASE Fault
    BY <2>8, FaultKeeps
  <2>9. CASE WakeByInterrupt
    BY <2>9, WakeByInterruptKeeps
  <2>10. CASE WakeBySmi
    BY <2>10, EnterKeeps DEF WakeBySmi
  <2>11. CASE AssertSmi
    BY <2>11, PinKeeps DEF AssertSmi, IInv, Types
  <2>12. CASE AssertIntr
    BY <2>12, PinKeeps DEF AssertIntr, IInv, Types
  <2>13. CASE IpiSmi
    BY <2>13, EnterKeeps DEF IpiSmi, IInv, Types
  <2>14. CASE UNCHANGED vars
    <3>1. UNCHANGED <<real, code, eip, next, ifl, tfl, halt, smm, smi, intr, stack,
                      save, acked, due, left>>
      BY <2>14 DEF vars, place, history
    <3>2. Types'
      BY <3>1 DEF IInv, Types, Frame
    <3> QED
      BY <3>1, <3>2, Stays DEF IInv
  <2> QED
    BY <2>1, <2>2, <2>3, <2>4, <2>5, <2>6, <2>7, <2>8, <2>9, <2>10, <2>11, <2>12,
       <2>13, <2>14 DEF Next
<1> QED
  BY <1>1, <1>2, PTL DEF Spec

LEMMA Typed == StepAssumption /\ IInv => TypeOK
<1> SUFFICES ASSUME StepAssumption, IInv PROVE TypeOK
  OBVIOUS
<1>1. stack \in Seq(SavedStates) /\ Len(stack) <= Depth
  BY DEF IInv, Types, Valid
<1>2. stack \in BoundedSeq(SavedStates, Depth)
  <2>1. Len(stack) \in Nat /\ Depth \in Nat
    BY <1>1, LenProperties DEF StepAssumption
  <2>2. Len(stack) \in 0 .. Depth
    BY <1>1, <2>1
  <2>3. stack \in [1 .. Len(stack) -> SavedStates]
    BY <1>1
  <2> QED
    BY <2>2, <2>3 DEF BoundedSeq, SeqOf
<1>3. {real, halt, smm, smi, intr, acked, left} \subseteq BOOLEAN
  BY DEF IInv, Types
<1> QED
  BY <1>2, <1>3 DEF IInv, Types, TypeOK

(* Every variable of the processor keeps its type, and the handlers that   *)
(* interrupt, fault and trap one another never exceed the bound on their   *)
(* nesting (step, exception_call, enter_smm, leave_smm).                   *)
THEOREM TypeCorrect ==
  ASSUME StepAssumption
  PROVE  Spec => []TypeOK
<1>1. IInv => TypeOK
  BY Typed
<1> QED
  BY <1>1, Invariant, PTL

(* Whatever faults, interrupts, single steps and SMIs come in between, in  *)
(* a program of any length and nested to any depth, every instruction of   *)
(* the program is retired once and in its turn (step, enter_smm,           *)
(* leave_smm), until an interrupt ends a "jmp $".                          *)
THEOREM ProgramOrder ==
  ASSUME StepAssumption
  PROVE  Spec => []ProgramInOrder
<1>1. IInv => OrderKept
  BY DEF IInv, Valid, OrderKept, Frame
<1>2. IInv => ProgramInOrder
  BY <1>1, Typed DEF ProgramInOrder
<1> QED
  BY <1>2, Invariant, PTL

(************************ The translation buffers **************************)
Buffers ==
  /\ large \in [Dirs -> BOOLEAN] /\ pde \in [Dirs -> T!Pte]
  /\ pte \in [T!Addresses -> T!Pte]
  /\ tlb \in [T!Sides -> SUBSET T!Copies]
  /\ \A s \in T!Sides : IsFiniteSet(tlb[s]) /\ Cardinality(tlb[s]) <= Ways
  /\ owed \subseteq T!Addresses /\ resized \subseteq owed

(* An address whose page has kept its size has one copy at most, and that  *)
(* copy is of a page of this size.                                         *)
OneCopy ==
  \A s \in T!Sides, k \in T!Addresses \ resized :
    \A e1, e2 \in T!Matching(s, k) : e1 = e2
SizeKept ==
  \A s \in T!Sides, k \in T!Addresses \ resized :
    \A e \in T!Matching(s, k) : e.big = large[k[1]]

BuffersRight == Buffers /\ T!Fresh /\ OneCopy /\ SizeKept

LEMMA SameCardinality ==
  ASSUME NEW S
  PROVE  T!Cardinality(S) = Cardinality(S)
BY DEF T!Cardinality, Cardinality, T!IsFiniteSet, IsFiniteSet

LEMMA Indices ==
  ASSUME NEW k \in T!Addresses
  PROVE  k[1] \in Dirs /\ k[2] \in Tabs /\ k = <<k[1], k[2]>>
BY DEF T!Addresses

LEMMA Marked ==
  ASSUME T!PagingAssumption, NEW e \in T!Pte
  PROVE  T!Accessed(e) \in T!Pte /\ T!Accessed(T!Accessed(e)) = T!Accessed(e)
<1>1. Pae \in BOOLEAN
  BY DEF T!PagingAssumption
<1>2. T!Accessed(e) \in T!Pte
  BY <1>1 DEF T!Accessed, T!Pte
<1>3. /\ e.p \in BOOLEAN /\ e.w \in BOOLEAN /\ e.u \in BOOLEAN /\ e.a \in BOOLEAN
      /\ e = [p |-> e.p, w |-> e.w, u |-> e.u, f |-> e.f, a |-> e.a]
  BY DEF T!Pte
<1>4. \A x \in T!Pte : T!Accessed(x) = [p |-> x.p, w |-> x.w, u |-> x.u, f |-> x.f, a |-> ~Pae \/ x.a]
  BY DEF T!Accessed, T!Pte
<1>5. T!Accessed(e).a = (~Pae \/ e.a) /\ T!Accessed(e).p = e.p /\ T!Accessed(e).w = e.w
      /\ T!Accessed(e).u = e.u /\ T!Accessed(e).f = e.f
  BY <1>4
<1>6. (~Pae \/ T!Accessed(e).a) = (~Pae \/ e.a)
  BY <1>1, <1>3, <1>5
<1>7. T!Accessed(T!Accessed(e))
        = [p |-> e.p, w |-> e.w, u |-> e.u, f |-> e.f, a |-> ~Pae \/ T!Accessed(e).a]
  BY <1>2, <1>4, <1>5
<1> QED
  BY <1>2, <1>4, <1>6, <1>7

(* Buffers that only lose copies stay as right as they were.               *)
LEMMA Loses ==
  ASSUME Buffers, OneCopy, SizeKept,
         \A s \in T!Sides : tlb'[s] \subseteq tlb[s], resized \subseteq resized',
         \A k \in T!Addresses \ resized' : large'[k[1]] = large[k[1]]
  PROVE  OneCopy' /\ SizeKept'
<1>1. \A s \in T!Sides, k \in T!Addresses : T!Matching(s, k)' \subseteq T!Matching(s, k)
  BY DEF T!Matching, T!Covers
<1>2. \A k \in T!Addresses \ resized' : k \in T!Addresses \ resized
  OBVIOUS
<1>3. OneCopy'
  BY <1>1, <1>2 DEF OneCopy
<1>4. SizeKept'
  BY <1>1, <1>2 DEF SizeKept
<1> QED
  BY <1>3, <1>4

LEMMA LosesFresh ==
  ASSUME T!Fresh, \A s \in T!Sides : tlb'[s] \subseteq tlb[s],
         \A k \in T!Addresses \ owed' :
           \/ k \notin owed /\ T!Leaf(k)' = T!Leaf(k)
           \/ \A s \in T!Sides : T!Matching(s, k)' = {}
  PROVE  T!Fresh'
<1>1. \A s \in T!Sides, k \in T!Addresses : T!Matching(s, k)' \subseteq T!Matching(s, k)
  BY DEF T!Matching, T!Covers
<1> QED
  BY <1>1 DEF T!Fresh, T!Accessed

LEMMA LosesFinite ==
  ASSUME Buffers, T!PagingAssumption, \A s \in T!Sides : tlb'[s] \subseteq tlb[s]
  PROVE  \A s \in T!Sides : IsFiniteSet(tlb'[s]) /\ Cardinality(tlb'[s]) <= Ways
<1> SUFFICES ASSUME NEW s \in T!Sides
             PROVE  IsFiniteSet(tlb'[s]) /\ Cardinality(tlb'[s]) <= Ways
  OBVIOUS
<1>1. IsFiniteSet(tlb[s]) /\ Cardinality(tlb[s]) <= Ways /\ Ways \in Nat
  BY DEF Buffers, T!PagingAssumption
<1>2. IsFiniteSet(tlb'[s]) /\ Cardinality(tlb'[s]) <= Cardinality(tlb[s])
  BY <1>1, FS_Subset
<1>3. Cardinality(tlb'[s]) \in Nat /\ Cardinality(tlb[s]) \in Nat
  BY <1>1, <1>2, FS_CardinalityType
<1> QED
  BY <1>1, <1>2, <1>3

LEMMA AccessHitKeeps ==
  ASSUME T!PagingAssumption, BuffersRight,
         NEW s \in T!Sides, NEW k \in T!Addresses, NEW user \in BOOLEAN, NEW write \in BOOLEAN,
         T!AccessHit(s, k, user, write)
  PROVE  BuffersRight'
<1>1. UNCHANGED <<large, pde, pte, owed, resized>>
  BY DEF T!AccessHit, T!tables
<1>2. /\ tlb' \in [T!Sides -> SUBSET T!Copies]
      /\ \A x \in T!Sides : tlb'[x] \subseteq tlb[x]
  BY DEF T!AccessHit, BuffersRight, Buffers
<1>3. \A j \in T!Addresses : T!Leaf(j)' = T!Leaf(j)
  BY <1>1 DEF T!Leaf
<1>4. Buffers'
  BY <1>1, <1>2, LosesFinite DEF BuffersRight, Buffers
<1>5. OneCopy' /\ SizeKept'
  BY <1>1, <1>2, Loses DEF BuffersRight
<1>6. T!Fresh'
  BY <1>1, <1>2, <1>3, LosesFresh DEF BuffersRight
<1> QED
  BY <1>4, <1>5, <1>6 DEF BuffersRight

LEMMA FlushKeeps ==
  ASSUME T!PagingAssumption, BuffersRight, T!Flush
  PROVE  BuffersRight'
<1>1. /\ tlb' = [x \in T!Sides |-> {}] /\ owed' = {} /\ resized' = {}
      /\ UNCHANGED <<large, pde, pte>>
  BY DEF T!Flush, T!tables
<1>2. \A x \in T!Sides, j \in T!Addresses : T!Matching(x, j)' = {}
  BY <1>1 DEF T!Matching
<1>3. OneCopy' /\ SizeKept' /\ T!Fresh'
  BY <1>2 DEF OneCopy, SizeKept, T!Fresh
<1>4. \A x \in T!Sides : tlb'[x] \subseteq tlb[x]
  BY <1>1
<1>5. Buffers'
  BY <1>1, <1>4, LosesFinite DEF BuffersRight, Buffers
<1> QED
  BY <1>3, <1>5 DEF BuffersRight

LEMMA SetPteKeeps ==
  ASSUME T!PagingAssumption, BuffersRight,
         NEW k \in T!Addresses, NEW e \in Contents, T!SetPte(k, e)
  PROVE  BuffersRight'
<1>1. /\ pte' = [pte EXCEPT ![k] = e] /\ owed' = owed \cup {k}
      /\ UNCHANGED <<large, pde, tlb, resized>>
  BY DEF T!SetPte
<1>2. e \in T!Pte
  BY DEF T!PagingAssumption
<1>3. Buffers'
  BY <1>1, <1>2 DEF BuffersRight, Buffers
<1>4. OneCopy' /\ SizeKept'
  BY <1>1, Loses DEF BuffersRight
<1>5. \A j \in T!Addresses \ owed' : j \notin owed /\ T!Leaf(j)' = T!Leaf(j)
  BY <1>1 DEF T!Leaf, BuffersRight, Buffers
<1>6. T!Fresh'
  BY <1>1, <1>5, LosesFresh DEF BuffersRight
<1> QED
  BY <1>3, <1>4, <1>6 DEF BuffersRight

LEMMA SetPdeKeeps ==
  ASSUME T!PagingAssumption, BuffersRight,
         NEW d \in Dirs, NEW big \in BOOLEAN, NEW e \in Contents \cup {T!Open},
         T!SetPde(d, big, e)
  PROVE  BuffersRight'
<1> DEFINE under == {k \in T!Addresses : k[1] = d}
<1>1. /\ large' = [large EXCEPT ![d] = big] /\ pde' = [pde EXCEPT ![d] = e]
      /\ owed' = owed \cup under
      /\ resized' = IF big # large[d] THEN resized \cup under ELSE resized
      /\ UNCHANGED <<pte, tlb>>
  BY DEF T!SetPde
<1>2. e \in T!Pte
  <2>1. T!Open \in T!Pte
    BY DEF T!PagingAssumption, T!Open, T!Pte
  <2> QED
    BY <2>1 DEF T!PagingAssumption
<1>3. Buffers'
  BY <1>1, <1>2 DEF BuffersRight, Buffers
<1>4. \A j \in T!Addresses : j \notin under => large'[j[1]] = large[j[1]] /\ T!Leaf(j)' = T!Leaf(j)
  BY <1>1, Indices DEF T!Leaf, BuffersRight, Buffers
<1>5. \A j \in T!Addresses : large'[j[1]] = IF j[1] = d THEN big ELSE large[j[1]]
  BY <1>1, Indices DEF BuffersRight, Buffers
<1>6. resized \subseteq resized' /\ \A j \in T!Addresses \ resized' : large'[j[1]] = large[j[1]]
  BY <1>1, <1>5
<1>7. OneCopy' /\ SizeKept'
  BY <1>1, <1>6, Loses DEF BuffersRight
<1>8. \A j \in T!Addresses \ owed' : j \notin owed /\ T!Leaf(j)' = T!Leaf(j)
  BY <1>1, <1>4
<1>9. T!Fresh'
  BY <1>1, <1>8, LosesFresh DEF BuffersRight
<1> QED
  BY <1>3, <1>7, <1>9 DEF BuffersRight

LEMMA TaskSwitchKeeps ==
  ASSUME T!PagingAssumption, BuffersRight, T!TaskSwitch
  PROVE  BuffersRight'
<1>1. PICK d \in Dirs, big \in BOOLEAN, e \in Contents :
        /\ large' = [large EXCEPT ![d] = big]
        /\ pde' = [pde EXCEPT ![d] = IF big THEN e ELSE T!Open]
  BY DEF T!TaskSwitch
<1>2. /\ pte' \in [T!Addresses -> Contents] /\ UNCHANGED tlb
      /\ owed' = T!Addresses /\ resized' = T!Addresses
  BY DEF T!TaskSwitch
<1>3. Contents \subseteq T!Pte /\ T!Open \in T!Pte
  BY DEF T!PagingAssumption, T!Open, T!Pte
<1>4. pde' \in [Dirs -> T!Pte] /\ large' \in [Dirs -> BOOLEAN] /\ pte' \in [T!Addresses -> T!Pte]
  BY <1>1, <1>2, <1>3 DEF BuffersRight, Buffers
<1>5. Buffers'
  BY <1>2, <1>4 DEF BuffersRight, Buffers
<1>6. OneCopy' /\ SizeKept' /\ T!Fresh'
  BY <1>2 DEF OneCopy, SizeKept, T!Fresh
<1> QED
  BY <1>5, <1>6 DEF BuffersRight

(* INVLPG removes what it finds first, which is all there is.              *)
LEMMA InvlpgKeeps ==
  ASSUME T!PagingAssumption, BuffersRight, NEW k \in T!Addresses, T!Invlpg(k)
  PROVE  BuffersRight'
<1>1. /\ owed' = owed \ ({k} \ resized)
      /\ UNCHANGED <<large, pde, pte, resized>>
  BY DEF T!Invlpg, T!tables
<1>2. PICK code_ \in T!Without("code", k), data_ \in T!Without("data", k) :
        tlb' = [x \in T!Sides |-> IF x = "code" THEN code_ ELSE data_]
  BY DEF T!Invlpg
<1>3. \A x \in T!Sides : tlb'[x] \in T!Without(x, k)
  BY <1>2 DEF T!Sides
<1>4. \A x \in T!Sides : tlb'[x] \subseteq tlb[x]
  BY <1>3 DEF T!Without
<1>5. tlb' \in [T!Sides -> SUBSET T!Copies]
  <2>1. \A x \in T!Sides : tlb'[x] \in SUBSET T!Copies
    BY <1>4 DEF BuffersRight, Buffers
  <2> QED
    BY <1>2, <2>1
<1>6. Buffers'
  BY <1>1, <1>4, <1>5, LosesFinite DEF BuffersRight, Buffers
<1>7. OneCopy' /\ SizeKept'
  BY <1>1, <1>4, Loses DEF BuffersRight
<1>8. ASSUME NEW x \in T!Sides, k \notin resized PROVE T!Matching(x, k)' = {}
  <2>1. CASE T!Matching(x, k) = {}
    <3>1. tlb'[x] = tlb[x]
      BY <1>3, <2>1 DEF T!Without
    <3> QED
      BY <2>1, <3>1 DEF T!Matching, T!Covers
  <2>2. CASE T!Matching(x, k) # {}
    <3>1. PICK e \in T!Matching(x, k) : tlb'[x] = tlb[x] \ {e}
      BY <1>3, <2>2 DEF T!Without
    <3>2. \A e2 \in T!Matching(x, k) : e2 = e
      BY <1>8 DEF BuffersRight, OneCopy
    <3> QED
      BY <3>1, <3>2 DEF T!Matching, T!Covers
  <2> QED
    BY <2>1, <2>2
<1>9. \A j \in T!Addresses : T!Leaf(j)' = T!Leaf(j)
  BY <1>1 DEF T!Leaf
<1>10. T!Fresh'
  BY <1>1, <1>4, <1>8, <1>9, LosesFresh DEF BuffersRight
<1> QED
  BY <1>6, <1>7, <1>10 DEF BuffersRight

(* A buffer holds one copy more, or another in the place of one.           *)
LEMMA InsertBounded ==
  ASSUME NEW S, IsFiniteSet(S), NEW n \in Nat \ {0}, Cardinality(S) <= n, NEW e, NEW R,
         \/ Cardinality(S) < n /\ R = S \cup {e}
         \/ \E victim \in S : R = (S \ {victim}) \cup {e}
  PROVE  IsFiniteSet(R) /\ Cardinality(R) <= n /\ R \subseteq S \cup {e}
<1>1. Cardinality(S) \in Nat
  BY FS_CardinalityType
<1>2. CASE Cardinality(S) < n /\ R = S \cup {e}
  <2>1. /\ IsFiniteSet(S \cup {e})
        /\ Cardinality(S \cup {e}) = Cardinality(S) \/ Cardinality(S \cup {e}) = Cardinality(S) + 1
    BY FS_AddElement
  <2>2. Cardinality(S \cup {e}) <= n
    BY <1>1, <1>2, <2>1
  <2> QED
    BY <1>2, <2>1, <2>2
<1>3. ASSUME NEW victim \in S, R = (S \ {victim}) \cup {e}
      PROVE  IsFiniteSet(R) /\ Cardinality(R) <= n /\ R \subseteq S \cup {e}
  <2> DEFINE Q == S \ {victim}
  <2>1. IsFiniteSet(Q) /\ Cardinality(Q) = Cardinality(S) - 1
    BY FS_RemoveElement
  <2>2. /\ IsFiniteSet(Q \cup {e})
        /\ Cardinality(Q \cup {e}) = Cardinality(Q) \/ Cardinality(Q \cup {e}) = Cardinality(Q) + 1
    BY <2>1, FS_AddElement
  <2>3. Cardinality(Q \cup {e}) <= n
    BY <1>1, <2>1, <2>2
  <2> QED
    BY <1>3, <2>2, <2>3
<1> QED
  BY <1>2, <1>3

(* A miss keeps the copy that was read before the entry was marked.        *)
LEMMA AccessMissKeeps ==
  ASSUME T!PagingAssumption, BuffersRight,
         NEW s \in T!Sides, NEW k \in T!Addresses, NEW user \in BOOLEAN, NEW write \in BOOLEAN,
         T!AccessMiss(s, k, user, write)
  PROVE  BuffersRight'
<1> DEFINE d == k[1]
           c == T!Copy(k)
<1>1. Buffers /\ T!Fresh /\ OneCopy /\ SizeKept
  BY DEF BuffersRight
<1>2. /\ T!Matching(s, k) = {}
      /\ UNCHANGED <<large, owed, resized>>
      /\ pde' = pde \/ pde' = [pde EXCEPT ![d] = T!Accessed(@)]
  BY DEF T!AccessMiss
<1>3. /\ d \in Dirs /\ k[2] \in Tabs /\ k = <<d, k[2]>>
      /\ \A j \in T!Addresses : j[1] \in Dirs /\ j[2] \in Tabs /\ j = <<j[1], j[2]>>
  BY Indices
<1>4. T!Leaf(k) \in T!Pte /\ pde[d] \in T!Pte /\ pte[k] \in T!Pte
  BY <1>1, <1>3 DEF Buffers, T!Leaf
<1>5. /\ T!Accessed(pde[d]) \in T!Pte /\ T!Accessed(pte[k]) \in T!Pte
  BY <1>4, Marked
<1>6. pde' \in [Dirs -> T!Pte]
  BY <1>1, <1>2, <1>5 DEF Buffers
<1>7. /\ c = [big |-> large[d], d |-> d, t |-> IF large[d] THEN 0 ELSE k[2], pte |-> T!Leaf(k)]
      /\ c \in T!Copies
  BY <1>1, <1>3, <1>4 DEF Buffers, T!Copy, T!Copies, T!PagingAssumption
<1>8. \A j \in T!Addresses : T!Covers(c, j) <=> j[1] = d /\ (large[d] \/ j = k)
  BY <1>1, <1>3, <1>7 DEF T!Covers, Buffers
<1>9. CASE UNCHANGED <<tlb, pte>>
  <2>1. Buffers'
    BY <1>1, <1>2, <1>6, <1>9 DEF Buffers
  <2>2. OneCopy' /\ SizeKept'
    BY <1>1, <1>2, <1>9, Loses
  <2>3. \A j \in T!Addresses : T!Leaf(j)' = T!Leaf(j) \/ T!Leaf(j)' = T!Accessed(T!Leaf(j))
    BY <1>1, <1>2, <1>3, <1>9 DEF T!Leaf, Buffers
  <2>4. T!Fresh'
    <3> SUFFICES ASSUME NEW x \in T!Sides, NEW j \in T!Addresses \ owed,
                        NEW e \in T!Matching(x, j)
                 PROVE  T!Accessed(e.pte) = T!Leaf(j)'
      BY <1>2, <1>9 DEF T!Fresh, T!Matching, T!Covers, T!Accessed
    <3>1. T!Accessed(e.pte) = T!Leaf(j) /\ e.pte \in T!Pte
      BY <1>1 DEF T!Fresh, T!Matching, Buffers, T!Copies
    <3> QED
      BY <2>3, <3>1, Marked
  <2> QED
    BY <2>1, <2>2, <2>4 DEF BuffersRight
<1>10. CASE /\ pde' = [pde EXCEPT ![d] = T!Accessed(@)]
            /\ T!Insert(s, c)
            /\ pte' = IF large[d] THEN pte ELSE [pte EXCEPT ![k] = T!Accessed(@)]
  <2>1. PICK R : /\ tlb' = [tlb EXCEPT ![s] = R]
                 /\ \/ Cardinality(tlb[s]) < Ways /\ R = tlb[s] \cup {c}
                    \/ \E victim \in tlb[s] : R = (tlb[s] \ {victim}) \cup {c}
    <3>1. T!Cardinality(tlb[s]) = Cardinality(tlb[s])
      BY SameCardinality
    <3>2. CASE Cardinality(tlb[s]) < Ways
      <4>1. tlb' = [tlb EXCEPT ![s] = tlb[s] \cup {c}]
        BY <1>10, <3>1, <3>2 DEF T!Insert
      <4> QED
        BY <3>2, <4>1
    <3>3. CASE ~(Cardinality(tlb[s]) < Ways)
      <4>1. PICK victim \in tlb[s] : tlb' = [tlb EXCEPT ![s] = (tlb[s] \ {victim}) \cup {c}]
        BY <1>10, <3>1, <3>3 DEF T!Insert
      <4> QED
        BY <4>1
    <3> QED
      BY <3>2, <3>3
  <2>2. IsFiniteSet(tlb[s]) /\ Cardinality(tlb[s]) <= Ways /\ Ways \in Nat \ {0}
    BY <1>1 DEF Buffers, T!PagingAssumption
  <2>3. IsFiniteSet(R) /\ Cardinality(R) <= Ways /\ R \subseteq tlb[s] \cup {c}
    <3> HIDE DEF c, d
    <3> QED
      BY <2>1, <2>2, InsertBounded
  <2>4. /\ tlb'[s] = R /\ \A x \in T!Sides \ {s} : tlb'[x] = tlb[x]
        /\ tlb' \in [T!Sides -> SUBSET T!Copies]
    BY <1>1, <1>7, <2>1, <2>3 DEF Buffers
  <2>5. pte' \in [T!Addresses -> T!Pte]
    BY <1>1, <1>5, <1>10 DEF Buffers
  <2>6. \A x \in T!Sides : IsFiniteSet(tlb'[x]) /\ Cardinality(tlb'[x]) <= Ways
    BY <1>1, <2>3, <2>4 DEF Buffers
  <2>7. Buffers'
    BY <1>1, <1>2, <1>6, <2>4, <2>5, <2>6 DEF Buffers
  <2> HIDE DEF c, d
  <2>8. \A x \in T!Sides, j \in T!Addresses : \A e \in T!Matching(x, j)' :
          \/ e \in T!Matching(x, j)
          \/ x = s /\ e = c /\ T!Covers(c, j)
    BY <2>3, <2>4 DEF T!Matching, T!Covers
  <2>9. \A j \in T!Addresses \ resized : T!Covers(c, j) => T!Matching(s, j) = {}
    <3> SUFFICES ASSUME NEW j \in T!Addresses \ resized, T!Covers(c, j),
                        NEW e \in T!Matching(s, j)
                 PROVE  FALSE
      OBVIOUS
    <3>1. j[1] = d /\ (large[d] \/ j = k)
      BY <1>8
    <3>2. e.big = large[d]
      BY <1>1, <3>1 DEF SizeKept
    <3>3. large[d] => e \in T!Matching(s, k)
      BY <3>1, <3>2 DEF T!Matching, T!Covers, d
    <3> QED
      BY <1>2, <3>1, <3>3
  <2>10. OneCopy'
    BY <1>1, <1>2, <2>8, <2>9 DEF OneCopy
  <2>11. SizeKept'
    <3>1. c.big = large[d]
      BY <1>7
    <3> QED
      BY <1>1, <1>2, <1>8, <2>8, <3>1 DEF SizeKept
  <2>12. \A j \in T!Addresses :
           \/ T!Leaf(j)' = T!Leaf(j) /\ ~T!Covers(c, j)
           \/ T!Leaf(j)' = T!Accessed(T!Leaf(j)) /\ (T!Covers(c, j) => T!Leaf(j) = T!Leaf(k))
    BY <1>1, <1>2, <1>3, <1>8, <1>10 DEF T!Leaf, Buffers, d
  <2>13. T!Fresh'
    <3> SUFFICES ASSUME NEW x \in T!Sides, NEW j \in T!Addresses \ owed,
                        NEW e \in T!Matching(x, j)'
                 PROVE  T!Accessed(e.pte) = T!Leaf(j)'
      BY <1>2 DEF T!Fresh, T!Accessed
    <3>1. CASE e \in T!Matching(x, j)
      <4>1. T!Accessed(e.pte) = T!Leaf(j) /\ e.pte \in T!Pte
        BY <1>1, <3>1 DEF T!Fresh, T!Matching, Buffers, T!Copies
      <4> QED
        BY <2>12, <4>1, Marked
    <3>2. CASE e = c /\ T!Covers(c, j)
      <4>1. c.pte = T!Leaf(k)
        BY <1>7
      <4> QED
        BY <2>12, <3>2, <4>1
    <3> QED
      BY <2>8, <3>1, <3>2
  <2> QED
    BY <2>7, <2>10, <2>11, <2>13 DEF BuffersRight
<1> QED
  BY <1>9, <1>10 DEF T!AccessMiss

LEMMA BuffersInvariant ==
  ASSUME T!PagingAssumption
  PROVE  T!Spec => []BuffersRight
<1>1. T!Init => BuffersRight
  <2> SUFFICES ASSUME T!Init PROVE BuffersRight
    OBVIOUS
  <2>1. T!Open \in T!Pte /\ Contents \subseteq T!Pte /\ Ways \in Nat
    BY DEF T!PagingAssumption, T!Open, T!Pte
  <2>2. \A s \in T!Sides : tlb[s] = {} /\ \A k : T!Matching(s, k) = {}
    BY DEF T!Init, T!Matching
  <2>3. \A s \in T!Sides : IsFiniteSet(tlb[s]) /\ Cardinality(tlb[s]) <= Ways
    BY <2>1, <2>2, FS_EmptySet
  <2>4. Buffers
    BY <2>1, <2>3 DEF T!Init, Buffers
  <2> QED
    BY <2>2, <2>4 DEF BuffersRight, OneCopy, SizeKept, T!Fresh
<1>2. BuffersRight /\ [T!Next]_T!vars => BuffersRight'
  <2> SUFFICES ASSUME BuffersRight, [T!Next]_T!vars PROVE BuffersRight'
    OBVIOUS
  <2>1. CASE \E s \in T!Sides, k \in T!Addresses, user \in BOOLEAN, write \in BOOLEAN :
               T!AccessHit(s, k, user, write) \/ T!AccessMiss(s, k, user, write)
    BY <2>1, AccessHitKeeps, AccessMissKeeps
  <2>2. CASE \E k \in T!Addresses, e \in Contents : T!SetPte(k, e)
    BY <2>2, SetPteKeeps
  <2>3. CASE \E d \in Dirs, big \in BOOLEAN, e \in Contents \cup {T!Open} : T!SetPde(d, big, e)
    BY <2>3, SetPdeKeeps
  <2>4. CASE \E k \in T!Addresses : T!Invlpg(k)
    BY <2>4, InvlpgKeeps
  <2>5. CASE T!Flush
    BY <2>5, FlushKeeps
  <2>6. CASE T!TaskSwitch
    BY <2>6, TaskSwitchKeeps
  <2>7. CASE UNCHANGED T!vars
    <3>1. UNCHANGED <<large, pde, pte, tlb, owed, resized>>
      BY <2>7 DEF T!vars
    <3>2. Buffers'
      BY <3>1 DEF BuffersRight, Buffers
    <3>3. OneCopy' /\ SizeKept'
      BY <3>1, Loses DEF BuffersRight
    <3>4. T!Fresh'
      BY <3>1, LosesFresh DEF BuffersRight, T!Leaf
    <3> QED
      BY <3>2, <3>3, <3>4 DEF BuffersRight
  <2> QED
    BY <2>1, <2>2, <2>3, <2>4, <2>5, <2>6, <2>7 DEF T!Next
<1> QED
  BY <1>1, <1>2, PTL DEF T!Spec

(* Both translation buffers agree with the page tables, marks included,    *)
(* for every address that was invalidated since its entry was changed, and *)
(* hold one copy of it at most, so that INVLPG and a fault, which remove   *)
(* the first match only, remove it (CTLB::insert, CTLB::invalid,           *)
(* do_address_translation): for page tables and buffers of any size, and   *)
(* whichever entry an insertion replaces.                                  *)
THEOREM BuffersAgree ==
  ASSUME T!PagingAssumption
  PROVE  T!Spec => []TranslationsRight
<1>1. BuffersRight => TranslationsRight
  <2> SUFFICES ASSUME BuffersRight PROVE TranslationsRight
    OBVIOUS
  <2>1. T!TypeOK /\ T!Fresh
    BY SameCardinality DEF BuffersRight, Buffers, T!TypeOK
  <2>2. ASSUME NEW s \in T!Sides, NEW k \in T!Addresses \ resized
        PROVE  T!Cardinality(T!Matching(s, k)) <= 1
    <3>1. \A e1, e2 \in T!Matching(s, k) : e1 = e2
      BY DEF BuffersRight, OneCopy
    <3>2. T!Matching(s, k) = {} \/ \E e : T!Matching(s, k) = {e}
      BY <3>1
    <3>3. Cardinality(T!Matching(s, k)) \in {0, 1}
      BY <3>2, FS_EmptySet, FS_Singleton
    <3> QED
      BY <3>3, SameCardinality
  <2> QED
    BY <2>1, <2>2 DEF TranslationsRight, T!Coherent, T!OneMatch
<1> QED
  BY <1>1, BuffersInvariant, PTL

(********************** The floating point registers ***********************)
Fpus   == [st : [0 .. Registers - 1 -> X!Values], top : 0 .. Registers - 1]
Slots  == X!Values \cup {X!Free}
Stacks == {s \in Seq(Slots) : Len(s) = Registers}

(* The registers below TOP hold the numbers of the stack s.                *)
Holds(f, s) == \A i \in 0 .. Registers - 1 : s[i + 1] # X!Free => X!ST(f, i) = s[i + 1]

FpuInv ==
  /\ fpu \in Fpus /\ ref \in Stacks
  /\ cc \in SUBSET {"less", "equal"} /\ refcc \in SUBSET {"less", "equal"}
  /\ spoiled \in BOOLEAN
  /\ ~spoiled => Holds(fpu, ref) /\ cc = refcc

LEMMA Wraps ==
  ASSUME NEW n \in Nat \ {0}, NEW t \in 0 .. n - 1, NEW i \in 0 .. n - 1
  PROVE  /\ (t + i) % n = IF t + i < n THEN t + i ELSE t + i - n
         /\ (t + i) % n \in 0 .. n - 1
<1>1. t + i < n \/ (t + i >= n /\ t + i - n \in 0 .. n - 1)
  OBVIOUS
<1> QED
  BY <1>1

LEMMA Some == X!X87Assumption => Registers \in Nat \ {0, 1} /\ Prime \in Nat \ {0, 1}
BY DEF X!X87Assumption

(* What a register operation does to every register, counted from TOP.     *)
LEMMA PutIs ==
  ASSUME X!X87Assumption, NEW f \in Fpus, NEW i \in 0 .. Registers - 1, NEW v \in X!Values
  PROVE  /\ X!Put(f, i, v) \in Fpus
         /\ \A j \in 0 .. Registers - 1 :
              X!ST(X!Put(f, i, v), j) = IF j = i THEN v ELSE X!ST(f, j)
<1> DEFINE n == Registers
           x == (f.top + i) % n
<1>1. n \in Nat \ {0, 1} /\ f.top \in 0 .. n - 1 /\ f.st \in [0 .. n - 1 -> X!Values]
  BY Some DEF Fpus
<1>2. x \in 0 .. n - 1 /\ x = IF f.top + i < n THEN f.top + i ELSE f.top + i - n
  BY <1>1, Wraps
<1>3. X!Put(f, i, v) = [f EXCEPT !.st = [f.st EXCEPT ![x] = v]]
  BY DEF X!Put
<1>4. X!Put(f, i, v) \in Fpus
  BY <1>1, <1>2, <1>3 DEF Fpus
<1>5. X!Put(f, i, v).top = f.top /\ X!Put(f, i, v).st = [f.st EXCEPT ![x] = v]
  BY <1>3 DEF Fpus
<1>6. ASSUME NEW j \in 0 .. n - 1
      PROVE  X!ST(X!Put(f, i, v), j) = IF j = i THEN v ELSE X!ST(f, j)
  <2> DEFINE y == (f.top + j) % n
  <2>1. y \in 0 .. n - 1 /\ y = IF f.top + j < n THEN f.top + j ELSE f.top + j - n
    BY <1>1, Wraps
  <2>2. X!ST(X!Put(f, i, v), j) = [f.st EXCEPT ![x] = v][y] /\ X!ST(f, j) = f.st[y]
    BY <1>5 DEF X!ST
  <2> HIDE DEF x, y
  <2>3. x = y <=> i = j
    <3> HIDE DEF n
    <3>1. i \in 0 .. n - 1 /\ j \in 0 .. n - 1
      BY DEF n
    <3>2. CASE f.top + i < n /\ f.top + j < n
      BY <1>1, <1>2, <2>1, <3>1, <3>2, SMTT(30)
    <3>3. CASE f.top + i < n /\ ~(f.top + j < n)
      BY <1>1, <1>2, <2>1, <3>1, <3>3, SMTT(30)
    <3>4. CASE ~(f.top + i < n) /\ f.top + j < n
      BY <1>1, <1>2, <2>1, <3>1, <3>4, SMTT(30)
    <3>5. CASE ~(f.top + i < n) /\ ~(f.top + j < n)
      BY <1>1, <1>2, <2>1, <3>1, <3>5, SMTT(30)
    <3> QED
      BY <3>2, <3>3, <3>4, <3>5
  <2> QED
    BY <1>1, <1>2, <2>1, <2>2, <2>3
<1> QED
  BY <1>4, <1>6

LEMMA PopIs ==
  ASSUME X!X87Assumption, NEW f \in Fpus
  PROVE  /\ X!pop(f) \in Fpus
         /\ \A j \in 0 .. Registers - 1 :
              X!ST(X!pop(f), j) = X!ST(f, IF j = Registers - 1 THEN 0 ELSE j + 1)
<1> DEFINE n == Registers
           u == IF f.top = n - 1 THEN 0 ELSE f.top + 1
<1>1. n \in Nat \ {0, 1} /\ f.top \in 0 .. n - 1 /\ f.st \in [0 .. n - 1 -> X!Values]
  BY Some DEF Fpus
<1>2. u \in 0 .. n - 1
  BY <1>1
<1>3. X!pop(f) = [f EXCEPT !.top = u]
  BY DEF X!pop
<1>4. X!pop(f) \in Fpus /\ X!pop(f).top = u /\ X!pop(f).st = f.st
  <2> HIDE DEF u
  <2> QED
    BY <1>1, <1>2, <1>3 DEF Fpus
<1>5. ASSUME NEW j \in 0 .. n - 1
      PROVE  X!ST(X!pop(f), j) = X!ST(f, IF j = n - 1 THEN 0 ELSE j + 1)
  <2> DEFINE k == IF j = n - 1 THEN 0 ELSE j + 1
  <2>1. k \in 0 .. n - 1
    BY <1>1
  <2>2. /\ u = f.top + 1 \/ (f.top = n - 1 /\ u = 0)
        /\ k = j + 1 \/ (j = n - 1 /\ k = 0)
    BY <1>1
  <2>3. (u + j) % n = (f.top + k) % n
    <3> DEFINE t == f.top
    <3>1. n \in Nat \ {0} /\ t \in 0 .. n - 1
      BY <1>1
    <3>2. j \in 0 .. n - 1
      OBVIOUS
    <3> HIDE DEF n, u, k
    <3>3. /\ (u + j) % n = IF u + j < n THEN u + j ELSE u + j - n
          /\ (t + k) % n = IF t + k < n THEN t + k ELSE t + k - n
      BY <1>2, <2>1, <3>1, <3>2, Wraps
    <3>4. (u + j) % n = (t + k) % n
      BY <1>2, <2>1, <2>2, <3>1, <3>2, <3>3
    <3> QED
      BY <3>4
  <2>4. X!ST(X!pop(f), j) = f.st[(u + j) % n] /\ X!ST(f, k) = f.st[(f.top + k) % n]
    BY <1>4 DEF X!ST
  <2> QED
    BY <2>3, <2>4
<1> QED
  BY <1>4, <1>5

LEMMA PushIs ==
  ASSUME X!X87Assumption, NEW f \in Fpus
  PROVE  /\ X!push(f) \in Fpus
         /\ \A j \in 0 .. Registers - 1 :
              X!ST(X!push(f), j) = X!ST(f, IF j = 0 THEN Registers - 1 ELSE j - 1)
<1> DEFINE n == Registers
           u == IF f.top = 0 THEN n - 1 ELSE f.top - 1
<1>1. n \in Nat \ {0, 1} /\ f.top \in 0 .. n - 1 /\ f.st \in [0 .. n - 1 -> X!Values]
  BY Some DEF Fpus
<1>2. u \in 0 .. n - 1
  BY <1>1
<1>3. X!push(f) = [f EXCEPT !.top = u]
  BY DEF X!push
<1>4. X!push(f) \in Fpus /\ X!push(f).top = u /\ X!push(f).st = f.st
  <2> HIDE DEF u
  <2> QED
    BY <1>1, <1>2, <1>3 DEF Fpus
<1>5. ASSUME NEW j \in 0 .. n - 1
      PROVE  X!ST(X!push(f), j) = X!ST(f, IF j = 0 THEN n - 1 ELSE j - 1)
  <2> DEFINE k == IF j = 0 THEN n - 1 ELSE j - 1
  <2>1. k \in 0 .. n - 1
    BY <1>1
  <2>2. /\ f.top = u + 1 \/ (u = n - 1 /\ f.top = 0)
        /\ j = k + 1 \/ (k = n - 1 /\ j = 0)
    BY <1>1
  <2>3. (u + j) % n = (f.top + k) % n
    <3> DEFINE t == f.top
    <3>1. n \in Nat \ {0} /\ t \in 0 .. n - 1
      BY <1>1
    <3>2. j \in 0 .. n - 1
      OBVIOUS
    <3> HIDE DEF n, u, k
    <3>3. /\ (u + j) % n = IF u + j < n THEN u + j ELSE u + j - n
          /\ (t + k) % n = IF t + k < n THEN t + k ELSE t + k - n
      BY <1>2, <2>1, <3>1, <3>2, Wraps
    <3>4. (u + j) % n = (t + k) % n
      BY <1>2, <2>1, <2>2, <3>1, <3>2, <3>3
    <3> QED
      BY <3>4
  <2>4. X!ST(X!push(f), j) = f.st[(u + j) % n] /\ X!ST(f, k) = f.st[(f.top + k) % n]
    BY <1>4 DEF X!ST
  <2> QED
    BY <2>3, <2>4
<1> QED
  BY <1>4, <1>5

(* And what the manual's do to the stack.                                  *)
LEMMA StackIs ==
  ASSUME X!X87Assumption, NEW s \in Stacks
  PROVE  /\ s \in [1 .. Registers -> Slots] /\ Len(s) = Registers /\ s # <<>>
         /\ \A i \in 0 .. Registers - 1 : i + 1 \in 1 .. Registers /\ s[i + 1] \in Slots
<1>1. Registers \in Nat \ {0, 1} /\ s \in Seq(Slots) /\ Len(s) = Registers
  BY Some DEF Stacks
<1>2. s \in [1 .. Registers -> Slots]
  BY <1>1
<1>3. \A i \in 0 .. Registers - 1 : i + 1 \in 1 .. Registers
  BY <1>1
<1>4. Len(<<>>) = 0
  OBVIOUS
<1> QED
  BY <1>1, <1>2, <1>3, <1>4

LEMMA RefTail ==
  ASSUME X!X87Assumption, NEW s \in Stacks, NEW v \in Slots
  PROVE  /\ Append(Tail(s), v) \in Stacks
         /\ \A i \in 0 .. Registers - 1 :
              Append(Tail(s), v)[i + 1] = IF i = Registers - 1 THEN v ELSE s[i + 2]
<1> DEFINE t == Tail(s)
           n == Registers
<1>1. n \in Nat \ {0, 1} /\ s \in Seq(Slots) /\ Len(s) = n /\ s # <<>>
  BY Some, StackIs DEF Stacks
<1>2. t \in Seq(Slots) /\ Len(t) = n - 1 /\ \A i \in 1 .. Len(t) : t[i] = s[i + 1]
  BY <1>1, HeadTailProperties
<1> HIDE DEF t, n
<1>3. /\ Append(t, v) \in Seq(Slots) /\ Len(Append(t, v)) = Len(t) + 1
      /\ \A i \in 1 .. Len(t) : Append(t, v)[i] = t[i]
      /\ Append(t, v)[Len(t) + 1] = v
  BY <1>2, AppendProperties
<1>4. Len(t) + 1 = n
  BY <1>1, <1>2
<1>5. ASSUME NEW i \in 0 .. n - 1
      PROVE  Append(t, v)[i + 1] = IF i = n - 1 THEN v ELSE s[i + 2]
  <2>1. CASE i = n - 1
    BY <1>1, <1>3, <1>4, <2>1
  <2>2. CASE i # n - 1
    <3>1. i + 1 \in 1 .. Len(t) /\ (i + 1) + 1 = i + 2
      BY <1>1, <1>2, <2>2
    <3> QED
      BY <1>2, <1>3, <2>2, <3>1
  <2> QED
    BY <2>1, <2>2
<1> QED
  BY <1>3, <1>4, <1>5 DEF Stacks, t, n

LEMMA RefFront ==
  ASSUME X!X87Assumption, NEW s \in Stacks, NEW v \in Slots
  PROVE  /\ <<v>> \o X!Front(s) \in Stacks
         /\ \A i \in 0 .. Registers - 1 :
              (<<v>> \o X!Front(s))[i + 1] = IF i = 0 THEN v ELSE s[i]
<1> DEFINE t == X!Front(s)
           n == Registers
<1>1. n \in Nat \ {0, 1} /\ s \in Seq(Slots) /\ Len(s) = n /\ s # <<>>
  BY Some, StackIs DEF Stacks
<1>2. t \in Seq(Slots) /\ Len(t) = n - 1 /\ \A i \in 1 .. n - 1 : t[i] = s[i]
  <2>1. t = Front(s)
    BY DEF X!Front, Front
  <2> QED
    BY <1>1, <2>1, Popped
<1> HIDE DEF t, n
<1>3. <<v>> \in Seq(Slots) /\ Len(<<v>>) = 1 /\ <<v>>[1] = v
  OBVIOUS
<1>4. /\ <<v>> \o t \in Seq(Slots) /\ Len(<<v>> \o t) = 1 + Len(t)
      /\ \A i \in 1 .. 1 + Len(t) : (<<v>> \o t)[i] = IF i <= 1 THEN <<v>>[i] ELSE t[i - 1]
  <2> DEFINE w == <<v>>
  <2>1. w \in Seq(Slots) /\ Len(w) = 1
    BY <1>3
  <2> HIDE DEF w
  <2>2. /\ w \o t \in Seq(Slots) /\ Len(w \o t) = Len(w) + Len(t)
        /\ \A i \in 1 .. Len(w) + Len(t) : (w \o t)[i] = IF i <= Len(w) THEN w[i] ELSE t[i - Len(w)]
    BY <1>2, <2>1, ConcatProperties
  <2>3. /\ w \o t \in Seq(Slots) /\ Len(w \o t) = 1 + Len(t)
        /\ \A i \in 1 .. 1 + Len(t) : (w \o t)[i] = IF i <= 1 THEN w[i] ELSE t[i - 1]
    BY <2>1, <2>2
  <2> QED
    BY <2>3 DEF w
<1>5. 1 + Len(t) = n
  BY <1>1, <1>2
<1>6. ASSUME NEW i \in 0 .. n - 1
      PROVE  (<<v>> \o t)[i + 1] = IF i = 0 THEN v ELSE s[i]
  <2>1. i + 1 \in 1 .. 1 + Len(t)
    BY <1>1, <1>5
  <2>2. CASE i = 0
    BY <1>3, <1>4, <2>1, <2>2
  <2>3. CASE i # 0
    <3>1. i \in 1 .. n - 1 /\ ~(i + 1 <= 1) /\ i + 1 - 1 = i
      BY <1>1, <2>3
    <3> QED
      BY <1>2, <1>4, <2>1, <2>3, <3>1
  <2> QED
    BY <2>2, <2>3
<1> QED
  BY <1>4, <1>5, <1>6 DEF Stacks, t, n

(* Registers and stack stay together.                                      *)
LEMMA HoldsPut ==
  ASSUME X!X87Assumption, NEW f \in Fpus, NEW s \in Stacks, Holds(f, s),
         NEW i \in 0 .. Registers - 1, NEW v \in X!Values
  PROVE  /\ [s EXCEPT ![i + 1] = v] \in Stacks
         /\ Holds(X!Put(f, i, v), [s EXCEPT ![i + 1] = v])
<1> DEFINE t == [s EXCEPT ![i + 1] = v]
<1>1. /\ s \in [1 .. Registers -> Slots] /\ i + 1 \in 1 .. Registers /\ v \in Slots
      /\ Registers \in Nat
      /\ \A j \in 0 .. Registers - 1 : j + 1 \in 1 .. Registers
  BY StackIs, Some DEF Slots
<1>2. t \in [1 .. Registers -> Slots]
  BY <1>1
<1>3. t \in Stacks
  <2> HIDE DEF t
  <2>1. t \in Seq(Slots) /\ Len(t) = Registers
    BY <1>1, <1>2
  <2> QED
    BY <2>1 DEF Stacks
<1>4. \A j \in 0 .. Registers - 1 : t[j + 1] = IF j = i THEN v ELSE s[j + 1]
  BY <1>1
<1> HIDE DEF t
<1>5. \A j \in 0 .. Registers - 1 : X!ST(X!Put(f, i, v), j) = IF j = i THEN v ELSE X!ST(f, j)
  BY PutIs
<1>6. Holds(X!Put(f, i, v), t)
  BY <1>4, <1>5 DEF Holds
<1> QED
  BY <1>3, <1>6 DEF t

LEMMA HoldsPop ==
  ASSUME X!X87Assumption, NEW f \in Fpus, NEW s \in Stacks, Holds(f, s)
  PROVE  X!pop(f) \in Fpus /\ X!RefPop(s) \in Stacks /\ Holds(X!pop(f), X!RefPop(s))
<1>1. /\ X!RefPop(s) \in Stacks
      /\ \A i \in 0 .. Registers - 1 :
           X!RefPop(s)[i + 1] = IF i = Registers - 1 THEN X!Free ELSE s[i + 2]
  BY RefTail DEF X!RefPop, Slots
<1>2. /\ X!pop(f) \in Fpus
      /\ \A j \in 0 .. Registers - 1 :
           X!ST(X!pop(f), j) = X!ST(f, IF j = Registers - 1 THEN 0 ELSE j + 1)
  BY PopIs
<1>3. ASSUME NEW j \in 0 .. Registers - 1, X!RefPop(s)[j + 1] # X!Free
      PROVE  X!ST(X!pop(f), j) = X!RefPop(s)[j + 1]
  <2>1. j # Registers - 1 /\ X!RefPop(s)[j + 1] = s[j + 2] /\ X!ST(X!pop(f), j) = X!ST(f, j + 1)
    BY <1>1, <1>2, <1>3
  <2>2. j + 1 \in 0 .. Registers - 1 /\ (j + 1) + 1 = j + 2
    BY <2>1, Some
  <2> QED
    BY <1>3, <2>1, <2>2 DEF Holds
<1> QED
  BY <1>1, <1>2, <1>3 DEF Holds

LEMMA HoldsPush ==
  ASSUME X!X87Assumption, NEW f \in Fpus, NEW s \in Stacks, Holds(f, s), NEW v \in X!Values
  PROVE  /\ X!Put(X!push(f), 0, v) \in Fpus /\ X!RefPush(s, v) \in Stacks
         /\ Holds(X!Put(X!push(f), 0, v), X!RefPush(s, v))
<1> DEFINE g == X!push(f)
           t == X!RefPush(s, v)
<1>0. 0 \in 0 .. Registers - 1 /\ Registers \in Nat
  BY Some
<1>1. /\ t \in Stacks
      /\ \A i \in 0 .. Registers - 1 : t[i + 1] = IF i = 0 THEN v ELSE s[i]
  BY RefFront DEF X!RefPush, Slots
<1>2. /\ g \in Fpus
      /\ \A j \in 0 .. Registers - 1 :
           X!ST(g, j) = X!ST(f, IF j = 0 THEN Registers - 1 ELSE j - 1)
  BY PushIs
<1> HIDE DEF g, t
<1>3. /\ X!Put(g, 0, v) \in Fpus
      /\ \A j \in 0 .. Registers - 1 : X!ST(X!Put(g, 0, v), j) = IF j = 0 THEN v ELSE X!ST(g, j)
  BY <1>0, <1>2, PutIs
<1>4. ASSUME NEW j \in 0 .. Registers - 1, t[j + 1] # X!Free
      PROVE  X!ST(X!Put(g, 0, v), j) = t[j + 1]
  <2>1. CASE j = 0
    BY <1>1, <1>3, <2>1
  <2>2. CASE j # 0
    <3>1. j - 1 \in 0 .. Registers - 1 /\ (j - 1) + 1 = j
      BY <1>0, <2>2
    <3>2. t[j + 1] = s[j] /\ X!ST(X!Put(g, 0, v), j) = X!ST(f, j - 1)
      BY <1>1, <1>2, <1>3, <2>2
    <3> QED
      BY <1>4, <3>1, <3>2 DEF Holds
  <2> QED
    BY <2>1, <2>2
<1>5. Holds(X!Put(g, 0, v), t)
  BY <1>4 DEF Holds
<1> QED
  BY <1>1, <1>3, <1>5 DEF g, t

(* The arithmetic of the numbers.                                          *)
LEMMA Closed ==
  ASSUME X!X87Assumption, NEW a \in X!Values, NEW b \in X!Values
  PROVE  /\ X!Add(a, b) \in X!Values /\ X!Sub(a, b) \in X!Values /\ X!Mul(a, b) \in X!Values
         /\ X!Other(a) \in X!Values /\ (b # 0 => X!Div(a, b) \in X!Values)
         /\ X!Add(a, b) = X!Add(b, a) /\ X!Mul(a, b) = X!Mul(b, a)
         /\ a # X!Free
<1>1. Prime \in Nat \ {0, 1} /\ a \in 0 .. Prime - 1 /\ b \in 0 .. Prime - 1
  BY Some DEF X!Values
<1>2. /\ X!Add(a, b) \in X!Values /\ X!Sub(a, b) \in X!Values /\ X!Other(a) \in X!Values
      /\ a # X!Free /\ X!Add(a, b) = X!Add(b, a)
  BY <1>1 DEF X!Add, X!Sub, X!Other, X!Values, X!Free
<1>3. a * b \in Nat /\ a * b = b * a
  BY <1>1
<1>4. X!Mul(a, b) = X!Mul(b, a)
  BY <1>3 DEF X!Mul
<1>5. X!Mul(a, b) \in X!Values
  <2> DEFINE p == a * b
  <2>1. p \in Nat
    BY <1>3
  <2> HIDE DEF p
  <2>2. p % Prime \in 0 .. Prime - 1
    BY <1>1, <2>1
  <2> QED
    BY <2>2 DEF p, X!Mul, X!Values
<1>6. b # 0 => X!Div(a, b) \in X!Values
  <2>1. b # 0 => \E q \in X!Values : X!Mul(q, b) = a
    BY DEF X!X87Assumption, X!Values, X!Mul
  <2> QED
    BY <2>1 DEF X!Div
<1> QED
  BY <1>2, <1>4, <1>5, <1>6

Operations == {"add", "sub", "subr", "mul", "div", "divr"}

LEMMA Operates ==
  ASSUME X!X87Assumption, NEW op \in Operations, NEW f \in Fpus,
         NEW i \in 0 .. Registers - 1, NEW b \in X!Values
  PROVE  /\ X!ST(f, i) \in X!Values
         /\ X!Result(op, f, "mem", 0, b) = X!Put(f, 0, X!Operation(op, X!ST(f, 0), b))
         /\ X!Result(op, f, "ST0i", i, 0)
            = X!Put(f, 0, X!Operation(op, X!ST(f, 0), X!ST(f, i)))
         /\ X!Result(op, f, "STi0", i, 0)
            = X!Put(f, i, X!Operation(op, X!ST(f, i), X!ST(f, 0)))
         /\ X!Result(op, f, "STi0p", i, 0)
            = X!pop(X!Put(f, i, X!Operation(op, X!ST(f, i), X!ST(f, 0))))
<1>1. \A j \in 0 .. Registers - 1 : X!ST(f, j) \in X!Values
  <2> TAKE j \in 0 .. Registers - 1
  <2>1. (f.top + j) % Registers \in 0 .. Registers - 1
    BY Some, Wraps DEF Fpus
  <2> QED
    BY <2>1 DEF X!ST, Fpus
<1>2. 0 \in 0 .. Registers - 1
  BY Some
<1> DEFINE x == X!ST(f, 0)
           y == X!ST(f, i)
<1>3. /\ x \in X!Values /\ y \in X!Values
      /\ X!Add(x, y) = X!Add(y, x) /\ X!Mul(x, y) = X!Mul(y, x)
  BY <1>1, <1>2, Closed
<1>4. CASE op = "add"
  BY <1>3, <1>4 DEF X!Result, X!Fadd, X!Operation
<1>5. CASE op = "mul"
  BY <1>3, <1>5 DEF X!Result, X!Fmul, X!Operation
<1>6. CASE op = "sub"
  BY <1>3, <1>6 DEF X!Result, X!Fsub, X!Operation
<1>7. CASE op = "subr"
  BY <1>3, <1>7 DEF X!Result, X!Fsubr, X!Operation
<1>8. CASE op = "div"
  BY <1>3, <1>8 DEF X!Result, X!Fdiv, X!Operation
<1>9. CASE op = "divr"
  BY <1>3, <1>9 DEF X!Result, X!Fdivr, X!Operation
<1> QED
  BY <1>1, <1>4, <1>5, <1>6, <1>7, <1>8, <1>9 DEF Operations

LEMMA Computes ==
  ASSUME X!X87Assumption, NEW op \in Operations, NEW d \in X!Values, NEW s \in X!Values,
         X!Divides(op, d, s)
  PROVE  X!Operation(op, d, s) \in X!Values
<1>1. /\ X!Add(d, s) \in X!Values /\ X!Sub(d, s) \in X!Values /\ X!Mul(d, s) \in X!Values
      /\ X!Sub(s, d) \in X!Values
      /\ s # 0 => X!Div(d, s) \in X!Values
      /\ d # 0 => X!Div(s, d) \in X!Values
  BY Closed
<1> QED
  BY <1>1 DEF Operations, X!Operation, X!Divides

(* The registers f hold the stack s.                                       *)
Agree(f, s) == f \in Fpus /\ s \in Stacks /\ Holds(f, s)

LEMMA InUse ==
  ASSUME X!X87Assumption, NEW f, NEW s, Agree(f, s),
         NEW i \in 0 .. Registers - 1, s[i + 1] # X!Free
  PROVE  X!ST(f, i) = s[i + 1] /\ s[i + 1] \in X!Values
BY StackIs DEF Agree, Holds, Slots

LEMMA AgreePut ==
  ASSUME X!X87Assumption, NEW f, NEW s, Agree(f, s),
         NEW i \in 0 .. Registers - 1, NEW k, k = i + 1, NEW v \in X!Values
  PROVE  /\ Agree(X!Put(f, i, v), [s EXCEPT ![k] = v])
         /\ Agree(X!pop(X!Put(f, i, v)), X!RefPop([s EXCEPT ![k] = v]))
<1>1. Agree(X!Put(f, i, v), [s EXCEPT ![i + 1] = v])
  BY HoldsPut, PutIs DEF Agree
<1>2. Agree(X!pop(X!Put(f, i, v)), X!RefPop([s EXCEPT ![i + 1] = v]))
  BY <1>1, HoldsPop DEF Agree
<1> QED
  BY <1>1, <1>2

LEMMA AgreeTop ==
  ASSUME X!X87Assumption, NEW f, NEW s, Agree(f, s), NEW v \in X!Values
  PROVE  /\ Agree(X!Put(f, 0, v), [s EXCEPT ![1] = v])
         /\ Agree(X!pop(X!Put(f, 0, v)), X!RefPop([s EXCEPT ![1] = v]))
<1>1. 0 \in 0 .. Registers - 1 /\ 1 = 0 + 1
  BY Some
<1> QED
  BY <1>1, AgreePut

LEMMA AgreePop ==
  ASSUME X!X87Assumption, NEW f, NEW s, Agree(f, s)
  PROVE  Agree(X!pop(f), X!RefPop(s))
BY HoldsPop DEF Agree

LEMMA AgreeLoad ==
  ASSUME X!X87Assumption, NEW f, NEW s, Agree(f, s), NEW v \in X!Values
  PROVE  Agree(X!Load(f, v), X!RefPush(s, v))
BY HoldsPush DEF Agree, X!Load

LEMMA TopIs == (X!Used(0) <=> ref[1] # X!Free) /\ (X!Used(1) <=> ref[2] # X!Free)
BY 0 + 1 = 1, 1 + 1 = 2 DEF X!Used

LEMMA TopInUse ==
  ASSUME X!X87Assumption, NEW f, NEW s, Agree(f, s), s[1] # X!Free
  PROVE  X!ST(f, 0) = s[1] /\ s[1] \in X!Values
<1>1. 0 \in 0 .. Registers - 1 /\ 1 = 0 + 1
  BY Some
<1>2. s[0 + 1] # X!Free
  BY <1>1
<1> QED
  BY <1>1, <1>2, InUse

LEMMA Keeps ==
  ASSUME FpuInv, ~spoiled, Agree(fpu', ref'), X!Quiet
  PROVE  FpuInv'
BY DEF FpuInv, Agree, X!Quiet, Holds, X!ST

LEMMA NowAgree ==
  ASSUME FpuInv, ~spoiled
  PROVE  Agree(fpu, ref)
BY DEF FpuInv, Agree

LEMMA ArithmeticKeeps ==
  ASSUME X!X87Assumption, FpuInv, ~spoiled, NEW op \in Operations, X!Arithmetic(op)
  PROVE  FpuInv'
<1>1. Agree(fpu, ref) /\ fpu \in Fpus /\ 0 \in 0 .. Registers - 1 /\ 1 = 0 + 1
  BY NowAgree, Some DEF FpuInv
<1>2. X!Quiet
  BY DEF X!Arithmetic, X!ArithmeticMem, X!ArithmeticST0i, X!ArithmeticSTi0
<1>3. CASE X!ArithmeticMem(op)
  <2>1. PICK b \in X!Values :
          /\ X!Used(0) /\ X!Divides(op, ref[1], b)
          /\ fpu' = X!Result(op, fpu, "mem", 0, b)
          /\ ref' = [ref EXCEPT ![1] = X!Operation(op, @, b)]
    BY <1>3 DEF X!ArithmeticMem
  <2>2. X!ST(fpu, 0) = ref[1] /\ ref[1] \in X!Values
    BY <1>1, <2>1, TopIs, TopInUse
  <2>3. X!Operation(op, ref[1], b) \in X!Values
    BY <2>1, <2>2, Computes
  <2> DEFINE v == X!Operation(op, ref[1], b)
  <2>4. fpu' = X!Put(fpu, 0, v) /\ ref' = [ref EXCEPT ![1] = v]
    BY <1>1, <2>1, <2>2, Operates
  <2>6. v \in X!Values
    BY <2>3
  <2> HIDE DEF v
  <2>5. Agree(fpu', ref')
    BY <1>1, <2>4, <2>6, AgreeTop
  <2> QED
    BY <1>2, <2>5, Keeps
<1>4. CASE X!ArithmeticST0i(op)
  <2>1. PICK i \in 0 .. Registers - 1 :
          /\ X!Used(0) /\ X!Used(i) /\ X!Divides(op, ref[1], ref[i + 1])
          /\ fpu' = X!Result(op, fpu, "ST0i", i, 0)
          /\ ref' = [ref EXCEPT ![1] = X!Operation(op, @, ref[i + 1])]
    BY <1>4 DEF X!ArithmeticST0i
  <2>2. /\ X!ST(fpu, 0) = ref[1] /\ ref[1] \in X!Values
        /\ X!ST(fpu, i) = ref[i + 1] /\ ref[i + 1] \in X!Values
    BY <1>1, <2>1, TopIs, TopInUse, InUse DEF X!Used
  <2>3. X!Operation(op, ref[1], ref[i + 1]) \in X!Values
    BY <2>1, <2>2, Computes
  <2> DEFINE v == X!Operation(op, ref[1], ref[i + 1])
  <2>4. fpu' = X!Put(fpu, 0, v) /\ ref' = [ref EXCEPT ![1] = v]
    BY <1>1, <2>1, <2>2, Operates
  <2>6. v \in X!Values
    BY <2>3
  <2> HIDE DEF v
  <2>5. Agree(fpu', ref')
    BY <1>1, <2>4, <2>6, AgreeTop
  <2> QED
    BY <1>2, <2>5, Keeps
<1>5. CASE X!ArithmeticSTi0(op)
  <2>1. PICK i \in 0 .. Registers - 1 :
          /\ X!Used(0) /\ X!Used(i) /\ X!Divides(op, ref[i + 1], ref[1])
          /\ LET after == [ref EXCEPT ![i + 1] = X!Operation(op, @, ref[1])] IN
             \/ fpu' = X!Result(op, fpu, "STi0", i, 0) /\ ref' = after
             \/ fpu' = X!Result(op, fpu, "STi0p", i, 0) /\ ref' = X!RefPop(after)
    BY <1>5 DEF X!ArithmeticSTi0
  <2> DEFINE v == X!Operation(op, ref[i + 1], ref[1])
  <2>2. /\ X!ST(fpu, 0) = ref[1] /\ ref[1] \in X!Values
        /\ X!ST(fpu, i) = ref[i + 1] /\ ref[i + 1] \in X!Values
    BY <1>1, <2>1, TopIs, TopInUse, InUse DEF X!Used
  <2>3. v \in X!Values
    BY <2>1, <2>2, Computes
  <2>4. /\ X!Result(op, fpu, "STi0", i, 0) = X!Put(fpu, i, v)
        /\ X!Result(op, fpu, "STi0p", i, 0) = X!pop(X!Put(fpu, i, v))
    BY <1>1, <2>2, Operates
  <2>5. Agree(fpu', ref')
    BY <1>1, <2>1, <2>3, <2>4, AgreePut
  <2> QED
    BY <1>2, <2>5, Keeps
<1> QED
  BY <1>3, <1>4, <1>5 DEF X!Arithmetic

LEMMA FLDKeeps ==
  ASSUME X!X87Assumption, FpuInv, ~spoiled, X!FLD
  PROVE  FpuInv'
<1>1. Agree(fpu, ref)
  BY NowAgree
<1>4. X!Quiet
  BY DEF X!FLD
<1>2. CASE \E b \in X!Values : fpu' = X!Load(fpu, b) /\ ref' = X!RefPush(ref, b)
  <2>1. Agree(fpu', ref')
    BY <1>1, <1>2, AgreeLoad
  <2> QED
    BY <1>4, <2>1, Keeps
<1>3. CASE \E i \in 0 .. Registers - 1 :
             /\ X!Used(i) /\ fpu' = X!LoadSt(fpu, i) /\ ref' = X!RefPush(ref, ref[i + 1])
  <2>1. PICK i \in 0 .. Registers - 1 :
          /\ ref[i + 1] # X!Free /\ fpu' = X!LoadSt(fpu, i) /\ ref' = X!RefPush(ref, ref[i + 1])
    BY <1>3 DEF X!Used
  <2>2. X!ST(fpu, i) = ref[i + 1] /\ ref[i + 1] \in X!Values
    BY <1>1, <2>1, InUse
  <2>3. fpu' = X!Load(fpu, ref[i + 1])
    BY <2>1, <2>2 DEF X!LoadSt, X!Load
  <2>4. Agree(fpu', ref')
    BY <1>1, <2>1, <2>2, <2>3, AgreeLoad
  <2> QED
    BY <1>4, <2>4, Keeps
<1> QED
  BY <1>2, <1>3 DEF X!FLD

LEMMA FSTKeeps ==
  ASSUME X!X87Assumption, FpuInv, ~spoiled, X!FST
  PROVE  FpuInv'
<1>1. Agree(fpu, ref)
  BY NowAgree
<1>2. PICK i \in 0 .. Registers - 1 :
        /\ X!Used(0)
        /\ LET after == [ref EXCEPT ![i + 1] = ref[1]] IN
           \/ fpu' = X!Put(fpu, i, X!ST(fpu, 0)) /\ ref' = after
           \/ fpu' = X!pop(X!Put(fpu, i, X!ST(fpu, 0))) /\ ref' = X!RefPop(after)
        /\ X!Quiet
  BY DEF X!FST
<1> DEFINE v == ref[1]
<1>3. X!ST(fpu, 0) = v /\ v \in X!Values
  BY <1>1, <1>2, TopIs, TopInUse
<1>4. \/ fpu' = X!Put(fpu, i, v) /\ ref' = [ref EXCEPT ![i + 1] = v]
      \/ fpu' = X!pop(X!Put(fpu, i, v)) /\ ref' = X!RefPop([ref EXCEPT ![i + 1] = v])
  BY <1>2, <1>3
<1> HIDE DEF v
<1>5. Agree(fpu', ref')
  BY <1>1, <1>3, <1>4, AgreePut
<1> QED
  BY <1>2, <1>5, Keeps

(* After an instruction that the code executes otherwise, only the types   *)
(* are left.                                                               *)
LEMMA Spoils ==
  ASSUME FpuInv, fpu' \in Fpus, ref' \in Stacks, spoiled' = TRUE, UNCHANGED <<cc, refcc>>
  PROVE  FpuInv'
BY DEF FpuInv

LEMMA FSTPMemKeeps ==
  ASSUME X!X87Assumption, FpuInv, ~spoiled, NEW faults \in BOOLEAN, X!FSTPMem(faults)
  PROVE  FpuInv'
<1>1. Agree(fpu, ref)
  BY NowAgree
<1>2. Agree(X!pop(fpu), X!RefPop(ref))
  BY <1>1, AgreePop
<1>3. CASE faults = TRUE
  BY <1>1, <1>2, <1>3, Spoils DEF X!FSTPMem, Agree
<1>4. CASE faults = FALSE
  <2>1. spoiled = FALSE
    BY DEF FpuInv
  <2>2. Agree(fpu', ref') /\ X!Quiet
    BY <1>2, <1>4, <2>1 DEF X!FSTPMem, X!Quiet
  <2> QED
    BY <2>2, Keeps
<1> QED
  BY <1>3, <1>4

LEMMA FXCHKeeps ==
  ASSUME X!X87Assumption, FpuInv, ~spoiled, X!FXCH
  PROVE  FpuInv'
<1>1. Agree(fpu, ref)
  BY NowAgree
<1>2. PICK i \in 0 .. Registers - 1 :
        /\ X!Used(0) /\ X!Used(i)
        /\ fpu' = X!Put(X!Put(fpu, 0, X!ST(fpu, i)), i, X!ST(fpu, 0))
        /\ ref' = [ref EXCEPT ![1] = ref[i + 1], ![i + 1] = ref[1]]
        /\ X!Quiet
  BY DEF X!FXCH
<1> DEFINE a == ref[1]
           b == ref[i + 1]
<1>3. /\ X!ST(fpu, 0) = a /\ a \in X!Values
      /\ X!ST(fpu, i) = b /\ b \in X!Values
  BY <1>1, <1>2, TopIs, TopInUse, InUse DEF X!Used
<1>4. /\ fpu' = X!Put(X!Put(fpu, 0, b), i, a)
      /\ ref' = [[ref EXCEPT ![1] = b] EXCEPT ![i + 1] = a]
  BY <1>2, <1>3
<1> HIDE DEF a, b
<1>5. Agree(X!Put(fpu, 0, b), [ref EXCEPT ![1] = b])
  BY <1>1, <1>3, AgreeTop
<1>6. Agree(fpu', ref')
  BY <1>3, <1>4, <1>5, AgreePut
<1> QED
  BY <1>2, <1>6, Keeps

LEMMA FCMOVKeeps ==
  ASSUME X!X87Assumption, FpuInv, ~spoiled, X!FCMOV
  PROVE  FpuInv'
<1>1. Agree(fpu, ref)
  BY NowAgree
<1>2. PICK i \in 0 .. Registers - 1 :
        /\ X!Used(0) /\ X!Used(i) /\ fpu' = X!LoadSt(fpu, i)
        /\ ref' = [ref EXCEPT ![1] = ref[i + 1]] /\ spoiled' = TRUE /\ UNCHANGED <<cc, refcc>>
  BY DEF X!FCMOV
<1> DEFINE b == ref[i + 1]
<1>3. X!ST(fpu, i) = b /\ b \in X!Values
  BY <1>1, <1>2, InUse DEF X!Used
<1>4. fpu' = X!Load(fpu, b) /\ ref' = [ref EXCEPT ![1] = b]
  BY <1>2, <1>3 DEF X!LoadSt, X!Load
<1> HIDE DEF b
<1>5. fpu' \in Fpus /\ ref' \in Stacks
  BY <1>1, <1>3, <1>4, AgreeLoad, AgreeTop DEF Agree
<1> QED
  BY <1>2, <1>5, Spoils

LEMMA Others ==
  ASSUME X!X87Assumption, NEW a \in X!Values
  PROVE  X!Other(a) \in X!Values
BY Closed

LEMMA UnaryKeeps ==
  ASSUME X!X87Assumption, FpuInv, ~spoiled, X!Unary
  PROVE  FpuInv'
<1>1. Agree(fpu, ref)
  BY NowAgree
<1> DEFINE v == X!Other(ref[1])
<1>2. X!ST(fpu, 0) = ref[1] /\ v \in X!Values /\ X!Quiet
  BY <1>1, TopIs, TopInUse, Others DEF X!Unary
<1>3. fpu' = X!Put(fpu, 0, v) /\ ref' = [ref EXCEPT ![1] = v]
  BY <1>2 DEF X!Unary
<1> HIDE DEF v
<1>4. Agree(fpu', ref')
  BY <1>1, <1>2, <1>3, AgreeTop
<1> QED
  BY <1>2, <1>4, Keeps

LEMMA TwoResultsKeeps ==
  ASSUME X!X87Assumption, FpuInv, ~spoiled, X!TwoResults
  PROVE  FpuInv'
<1>1. Agree(fpu, ref)
  BY NowAgree
<1> DEFINE v == X!Other(ref[1])
           w == X!Other(v)
<1>2. X!ST(fpu, 0) = ref[1] /\ v \in X!Values /\ X!Quiet
  BY <1>1, TopIs, TopInUse, Others DEF X!TwoResults
<1>3. w \in X!Values
  BY <1>2, Others
<1>4. /\ fpu' = X!Load(X!Put(fpu, 0, v), w)
      /\ ref' = X!RefPush([ref EXCEPT ![1] = v], w)
  BY <1>2 DEF X!TwoResults
<1> HIDE DEF v, w
<1>5. Agree(X!Put(fpu, 0, v), [ref EXCEPT ![1] = v])
  BY <1>1, <1>2, AgreeTop
<1>6. Agree(fpu', ref')
  BY <1>3, <1>4, <1>5, AgreeLoad
<1> QED
  BY <1>2, <1>6, Keeps

LEMMA Second == X!X87Assumption => 1 \in 0 .. Registers - 1 /\ 2 = 1 + 1
BY Some

LEMMA FYL2XKeeps ==
  ASSUME X!X87Assumption, FpuInv, ~spoiled, X!FYL2X
  PROVE  FpuInv'
<1>1. Agree(fpu, ref) /\ X!Used(0) /\ ref[1 + 1] # X!Free /\ X!Quiet
  BY NowAgree DEF X!FYL2X, X!Used
<1>2. /\ X!ST(fpu, 0) = ref[1] /\ ref[1] \in X!Values
      /\ X!ST(fpu, 1) = ref[2] /\ ref[2] \in X!Values
  BY <1>1, TopIs, TopInUse, Second, InUse
<1> DEFINE v == X!Mul(ref[2], X!Other(ref[1]))
<1>3. v \in X!Values
  BY <1>2, Others, Closed
<1>4. fpu' = X!pop(X!Put(fpu, 1, v)) /\ ref' = X!RefPop([ref EXCEPT ![2] = v])
  BY <1>2 DEF X!FYL2X
<1> HIDE DEF v
<1>5. Agree(fpu', ref')
  BY <1>1, <1>3, <1>4, Second, AgreePut
<1> QED
  BY <1>1, <1>5, Keeps

LEMMA FPATANKeeps ==
  ASSUME X!X87Assumption, FpuInv, ~spoiled, X!FPATAN
  PROVE  FpuInv'
<1>1. Agree(fpu, ref) /\ ref[1 + 1] # X!Free
  BY NowAgree DEF X!FPATAN, X!Used
<1> DEFINE v == X!Other(ref[2])
<1>2. X!ST(fpu, 1) = ref[2] /\ v \in X!Values
  BY <1>1, Second, InUse, Others
<1>3. /\ fpu' = X!pop(X!Put(fpu, 0, v)) /\ ref' = X!RefPop([ref EXCEPT ![2] = v])
      /\ spoiled' = TRUE /\ UNCHANGED <<cc, refcc>>
  BY <1>2 DEF X!FPATAN
<1> HIDE DEF v
<1>4. Agree(X!pop(X!Put(fpu, 0, v)), X!RefPop([ref EXCEPT ![1] = v]))
  BY <1>1, <1>2, AgreeTop
<1>5. Agree(X!pop(X!Put(fpu, 1, v)), X!RefPop([ref EXCEPT ![2] = v]))
  BY <1>1, <1>2, Second, AgreePut
<1>6. fpu' \in Fpus /\ ref' \in Stacks
  BY <1>3, <1>4, <1>5 DEF Agree
<1> QED
  BY <1>3, <1>6, Spoils

(* TOP turns, and with it the stack.                                       *)
LEMMA FINCSTPKeeps ==
  ASSUME X!X87Assumption, FpuInv, ~spoiled, X!FINCSTP
  PROVE  FpuInv'
<1> DEFINE n == Registers
           v == Head(ref)
<1>1. /\ Agree(fpu, ref) /\ X!Quiet /\ n \in Nat \ {0, 1}
      /\ fpu' = X!pop(fpu) /\ ref' = Append(Tail(ref), v)
  BY NowAgree, Some DEF X!FINCSTP
<1>2. v = ref[1] /\ v \in Slots
  <2>1. ref \in Seq(Slots) /\ ref # <<>> /\ Len(ref) = n
    BY <1>1, StackIs DEF Agree, Stacks
  <2>2. ref[1] \in Slots
    BY <1>1, <2>1, ElementOfSeq
  <2> QED
    BY <2>1, <2>2, HeadTailProperties
<1> HIDE DEF v
<1>3. /\ ref' \in Stacks
      /\ \A j \in 0 .. n - 1 : ref'[j + 1] = IF j = n - 1 THEN v ELSE ref[j + 2]
  BY <1>1, <1>2, RefTail DEF Agree
<1>4. /\ fpu' \in Fpus
      /\ \A j \in 0 .. n - 1 : X!ST(fpu', j) = X!ST(fpu, IF j = n - 1 THEN 0 ELSE j + 1)
  BY <1>1, PopIs DEF Agree
<1>5. ASSUME NEW j \in 0 .. n - 1, ref'[j + 1] # X!Free
      PROVE  X!ST(fpu', j) = ref'[j + 1]
  <2>1. CASE j = n - 1
    <3>1. ref'[j + 1] = v /\ X!ST(fpu', j) = X!ST(fpu, 0)
      BY <1>3, <1>4, <2>1
    <3> QED
      BY <1>1, <1>2, <1>5, <3>1, TopInUse
  <2>2. CASE j # n - 1
    <3>1. ref'[j + 1] = ref[j + 2] /\ X!ST(fpu', j) = X!ST(fpu, j + 1)
      BY <1>3, <1>4, <2>2
    <3>2. j + 1 \in 0 .. n - 1 /\ (j + 1) + 1 = j + 2
      BY <1>1, <2>2
    <3> QED
      BY <1>1, <1>5, <3>1, <3>2 DEF Agree, Holds
  <2> QED
    BY <2>1, <2>2
<1>6. Agree(fpu', ref')
  BY <1>3, <1>4, <1>5 DEF Agree, Holds
<1> QED
  BY <1>1, <1>6, Keeps

LEMMA FDECSTPKeeps ==
  ASSUME X!X87Assumption, FpuInv, ~spoiled, X!FDECSTP
  PROVE  FpuInv'
<1> DEFINE n == Registers
           v == X!Last(ref)
<1>1. /\ Agree(fpu, ref) /\ X!Quiet /\ n \in Nat \ {0, 1}
      /\ fpu' = X!push(fpu) /\ ref' = <<v>> \o X!Front(ref)
  BY NowAgree, Some DEF X!FDECSTP
<1>2. v = ref[n] /\ v \in Slots
  <2>1. ref \in Seq(Slots) /\ ref # <<>> /\ Len(ref) = n
    BY <1>1, StackIs DEF Agree, Stacks
  <2>2. ref[n] \in Slots
    BY <1>1, <2>1, ElementOfSeq
  <2> QED
    BY <2>1, <2>2 DEF X!Last
<1> HIDE DEF v
<1>3. /\ ref' \in Stacks
      /\ \A j \in 0 .. n - 1 : ref'[j + 1] = IF j = 0 THEN v ELSE ref[j]
  BY <1>1, <1>2, RefFront DEF Agree
<1>4. /\ fpu' \in Fpus
      /\ \A j \in 0 .. n - 1 : X!ST(fpu', j) = X!ST(fpu, IF j = 0 THEN n - 1 ELSE j - 1)
  BY <1>1, PushIs DEF Agree
<1>5. ASSUME NEW j \in 0 .. n - 1, ref'[j + 1] # X!Free
      PROVE  X!ST(fpu', j) = ref'[j + 1]
  <2>1. CASE j = 0
    <3>1. ref'[j + 1] = v /\ X!ST(fpu', j) = X!ST(fpu, n - 1)
      BY <1>3, <1>4, <2>1
    <3>2. n - 1 \in 0 .. n - 1 /\ (n - 1) + 1 = n
      BY <1>1
    <3> QED
      BY <1>1, <1>2, <1>5, <3>1, <3>2 DEF Agree, Holds
  <2>2. CASE j # 0
    <3>1. ref'[j + 1] = ref[j] /\ X!ST(fpu', j) = X!ST(fpu, j - 1)
      BY <1>3, <1>4, <2>2
    <3>2. j - 1 \in 0 .. n - 1 /\ (j - 1) + 1 = j
      BY <1>1, <2>2
    <3> QED
      BY <1>1, <1>5, <3>1, <3>2 DEF Agree, Holds
  <2> QED
    BY <2>1, <2>2
<1>6. Agree(fpu', ref')
  BY <1>3, <1>4, <1>5 DEF Agree, Holds
<1> QED
  BY <1>1, <1>6, Keeps

(* Comparisons of numbers that agree agree.                                *)
LEMMA Compares ==
  ASSUME Agree(fpu', ref'), cc' \in SUBSET {"less", "equal"},
         refcc' \in SUBSET {"less", "equal"}, spoiled' \in BOOLEAN, ~spoiled' => cc' = refcc'
  PROVE  FpuInv'
BY DEF FpuInv, Agree, Holds, X!ST

LEMMA FUCOMKeeps ==
  ASSUME X!X87Assumption, FpuInv, ~spoiled, X!FUCOM
  PROVE  FpuInv'
<1>1. Agree(fpu, ref) /\ spoiled \in BOOLEAN
  BY NowAgree DEF FpuInv
<1>2. PICK i \in 0 .. Registers - 1 :
        /\ X!Used(0) /\ X!Used(i)
        /\ cc' = X!Ucom(fpu, i) /\ refcc' = X!Relation(ref[1], ref[i + 1])
        /\ \/ UNCHANGED <<fpu, ref>>
           \/ fpu' = X!pop(fpu) /\ ref' = X!RefPop(ref)
           \/ i = 1 /\ fpu' = X!pop(X!pop(fpu)) /\ ref' = X!RefPop(X!RefPop(ref))
        /\ UNCHANGED spoiled
  BY DEF X!FUCOM
<1>3. X!ST(fpu, 0) = ref[1] /\ X!ST(fpu, i) = ref[i + 1]
  BY <1>1, <1>2, TopIs, TopInUse, InUse DEF X!Used
<1>4. cc' = refcc' /\ cc' \in SUBSET {"less", "equal"}
  BY <1>2, <1>3 DEF X!Ucom, X!Relation
<1>5. Agree(X!pop(fpu), X!RefPop(ref))
  BY <1>1, AgreePop
<1>6. Agree(X!pop(X!pop(fpu)), X!RefPop(X!RefPop(ref)))
  BY <1>5, AgreePop
<1>7. Agree(fpu', ref')
  BY <1>1, <1>2, <1>5, <1>6
<1> QED
  BY <1>1, <1>2, <1>4, <1>7, Compares

LEMMA FICOMKeeps ==
  ASSUME X!X87Assumption, FpuInv, ~spoiled, X!FICOM
  PROVE  FpuInv'
<1>1. Agree(fpu, ref)
  BY NowAgree
<1>2. PICK b \in X!Values :
        /\ X!Used(0) /\ cc' = X!Icom(fpu, b) /\ refcc' = X!Relation(ref[1], b)
        /\ \/ UNCHANGED <<fpu, ref>>
           \/ fpu' = X!pop(fpu) /\ ref' = X!RefPop(ref)
        /\ spoiled' = (ref[1] # b)
  BY DEF X!FICOM
<1>3. X!ST(fpu, 0) = ref[1] /\ ref[1] \in X!Values
  BY <1>1, <1>2, TopIs, TopInUse
<1>4. /\ cc' \in SUBSET {"less", "equal"} /\ refcc' \in SUBSET {"less", "equal"}
      /\ spoiled' \in BOOLEAN
  BY <1>2, <1>3 DEF X!Icom, X!Relation
<1>5. ~spoiled' => cc' = refcc'
  <2> SUFFICES ASSUME ~spoiled' PROVE cc' = refcc'
    OBVIOUS
  <2>1. X!ST(fpu, 0) = b /\ ref[1] = b
    BY <1>2, <1>3
  <2>2. ~(b > b)
    BY Some DEF X!Values
  <2>3. X!Icom(fpu, b) = {"equal"}
    BY <2>1, <2>2 DEF X!Icom
  <2>4. X!Relation(ref[1], b) = {"equal"}
    BY <2>1 DEF X!Relation
  <2> QED
    BY <1>2, <2>3, <2>4
<1>6. Agree(X!pop(fpu), X!RefPop(ref))
  BY <1>1, AgreePop
<1>7. Agree(fpu', ref')
  BY <1>1, <1>2, <1>6
<1> QED
  BY <1>4, <1>5, <1>7, Compares

LEMMA FNINITKeeps ==
  ASSUME X!X87Assumption, FpuInv, X!FNINIT
  PROVE  FpuInv'
<1>1. Registers \in Nat \ {0, 1} /\ fpu \in Fpus
  BY Some DEF FpuInv
<1>2. fpu' \in Fpus
  <2>1. 0 \in 0 .. Registers - 1 /\ fpu' = [fpu EXCEPT !.top = 0]
    BY <1>1 DEF X!FNINIT
  <2> DEFINE u == 0 .. Registers - 1
  <2> HIDE DEF u
  <2>2. /\ fpu.st \in [u -> X!Values] /\ fpu' = [st |-> fpu.st, top |-> 0] /\ 0 \in u
    BY <1>1, <2>1 DEF Fpus, u
  <2> QED
    BY <2>2 DEF Fpus, u
<1>3. /\ ref' = [j \in 1 .. Registers |-> X!Free] /\ ref' \in Seq(Slots)
      /\ Len(ref') = Registers
  BY <1>1 DEF X!FNINIT, Slots
<1>4. \A i \in 0 .. Registers - 1 : i + 1 \in 1 .. Registers
  BY <1>1
<1>5. Agree(fpu', ref')
  BY <1>2, <1>3, <1>4 DEF Agree, Stacks, Holds
<1> QED
  BY <1>5, Compares DEF X!FNINIT

LEMMA FpuInit == X!X87Assumption /\ X!Init => FpuInv
<1> SUFFICES ASSUME X!X87Assumption, X!Init PROVE FpuInv
  OBVIOUS
<1>1. Registers \in Nat \ {0, 1} /\ 0 \in X!Values /\ 0 \in 0 .. Registers - 1
  BY Some DEF X!Values
<1>2. fpu \in Fpus
  BY <1>1 DEF X!Init, Fpus
<1>3. /\ ref = [j \in 1 .. Registers |-> X!Free] /\ ref \in Seq(Slots)
      /\ Len(ref) = Registers
  BY <1>1 DEF X!Init, Slots
<1>4. \A i \in 0 .. Registers - 1 : i + 1 \in 1 .. Registers
  BY <1>1
<1>5. Holds(fpu, ref)
  BY <1>3, <1>4 DEF Holds
<1> QED
  BY <1>2, <1>3, <1>5 DEF FpuInv, X!Init, Stacks

LEMMA FpuNext ==
  ASSUME X!X87Assumption, FpuInv, [X!Next]_(X!vars)
  PROVE  FpuInv'
<1>1. CASE X!FNINIT
  BY <1>1, FNINITKeeps
<1>2. CASE ~spoiled /\ \E op \in Operations : X!Arithmetic(op)
  BY <1>2, ArithmeticKeeps
<1>3. CASE ~spoiled /\ X!FLD
  BY <1>3, FLDKeeps
<1>4. CASE ~spoiled /\ X!FST
  BY <1>4, FSTKeeps
<1>5. CASE ~spoiled /\ X!FXCH
  BY <1>5, FXCHKeeps
<1>6. CASE ~spoiled /\ X!FCMOV
  BY <1>6, FCMOVKeeps
<1>7. CASE ~spoiled /\ \E faults \in BOOLEAN : X!FSTPMem(faults)
  BY <1>7, FSTPMemKeeps
<1>8. CASE ~spoiled /\ X!Unary
  BY <1>8, UnaryKeeps
<1>9. CASE ~spoiled /\ X!TwoResults
  BY <1>9, TwoResultsKeeps
<1>10. CASE ~spoiled /\ X!FYL2X
  BY <1>10, FYL2XKeeps
<1>11. CASE ~spoiled /\ X!FPATAN
  BY <1>11, FPATANKeeps
<1>12. CASE ~spoiled /\ X!FINCSTP
  BY <1>12, FINCSTPKeeps
<1>13. CASE ~spoiled /\ X!FDECSTP
  BY <1>13, FDECSTPKeeps
<1>14. CASE ~spoiled /\ X!FUCOM
  BY <1>14, FUCOMKeeps
<1>15. CASE ~spoiled /\ X!FICOM
  BY <1>15, FICOMKeeps
<1>16. CASE UNCHANGED X!vars
  BY <1>16 DEF X!vars, FpuInv, Holds, X!ST
<1>17. X!FADD \/ X!FSUB \/ X!FSUBR \/ X!FMUL \/ X!FDIV \/ X!FDIVR
       => \E op \in Operations : X!Arithmetic(op)
  BY DEF X!FADD, X!FSUB, X!FSUBR, X!FMUL, X!FDIV, X!FDIVR, Operations
<1> QED
  BY <1>1, <1>2, <1>3, <1>4, <1>5, <1>6, <1>7, <1>8, <1>9, <1>10, <1>11, <1>12, <1>13,
     <1>14, <1>15, <1>16, <1>17 DEF X!Next

(* Whatever a program does, the registers counted from TOP hold the stack  *)
(* of the manual, and the condition codes its last comparison, until it    *)
(* uses one of the instructions that fpu.cpp and fpu-exec.cpp execute      *)
(* otherwise (FCMOVcc, FPATAN, FICOM, FTST, a store to memory that faults  *)
(* and is repeated), and again from the next FNINIT on: for a register     *)
(* stack of any size and the numbers of any prime field.                   *)
THEOREM StackIsRight ==
  ASSUME X!X87Assumption
  PROVE  X!Spec => []StackIsStack
<1>1. FpuInv => StackIsStack
  <2> SUFFICES ASSUME FpuInv PROVE X!StackIsStack
    BY DEF StackIsStack
  <2>1. ref \in [1 .. Registers -> X!Values \cup {X!Free}]
    BY StackIs DEF FpuInv, Slots
  <2>2. X!TypeOK
    BY <2>1 DEF FpuInv, Fpus, X!TypeOK
  <2> QED
    BY <2>2 DEF FpuInv, Holds, X!StackIsStack, X!Used
<1> QED
  BY <1>1, FpuInit, FpuNext, PTL DEF X!Spec

(***************************************************************************)
(* Restart.  An instruction with one or two accesses, which any number of  *)
(* page faults may stop: as long as it is not done, the machine is what it *)
(* was but for a byte that a store across two pages has left (Unharmed).   *)
(***************************************************************************)
(* The instructions with one or two accesses that nothing repeats.         *)
Single == {"push", "pop", "pushm", "call", "ret", "add", "xchg", "xadd", "cmpxchg"}

(* What such an instruction may have torn.                                 *)
Targets(i, r) ==
  CASE i \in {"push", "pushm", "call"} -> {Redo!Plus(r.sp, -2)}
    [] i \in {"add", "xchg", "xadd", "cmpxchg"} -> {r.di}
    [] OTHER -> {}

IsMemory(f) == f = [a \in Redo!Words |-> f[a]]
MachineFields == {"r", "mem", "zf", "ip", "in", "out"}
IsMachine(k) == k = [f \in MachineFields |-> k[f]] /\ IsMemory(k.mem)

(* Until it is done, the registers are those it was started with, and so   *)
(* is the memory but for what is torn.                                     *)
Unharmed(k, t) ==
  /\ k.r = start.r /\ k.zf = start.zf /\ k.ip = start.ip /\ k.in = start.in /\ k.out = start.out
  /\ t \subseteq Targets(insn, start.r)
  /\ \A a \in Redo!Words : a \notin t => k.mem[a] = start.mem[a]

(* What holds while such an instruction is tried, and when it is done.     *)
SingleInv ==
  insn \in Single =>
    /\ mode \in {"run", "fault", "done", "stopped"}
    /\ pages \in [Redo!Pages -> {"absent", "ro", "rw"}]
    /\ IsMachine(start) /\ {start.r.sp, start.r.si, start.r.di} \subseteq Redo!Words
    /\ IsMachine(machine)
    /\ mode # "done" => Unharmed(machine, torn)
    /\ mode = "done" /\ torn = {} => machine = Redo!Undisturbed

(* An execution in progress, and what no access changes of it.             *)
Access == {"absent", "ro", "rw"}
There == [p \in Redo!Pages |-> "rw"]
RunFields == MachineFields \cup {"pg", "ok", "bad", "v", "reads", "torn"}
IsRun(x) ==
  /\ x = [f \in RunFields |-> x[f]]
  /\ x.ok \in BOOLEAN /\ x.pg \in [Redo!Pages -> Access] /\ IsMemory(x.mem)
KeepsRest(y, x) ==
  /\ y.r = x.r /\ y.zf = x.zf /\ y.ip = x.ip /\ y.in = x.in /\ y.out = x.out /\ y.pg = x.pg

(* A word that does not begin at the last address lies on pages.           *)
LEMMA OnPages ==
  ASSUME Redo!BytesAssumption
  PROVE  /\ Redo!Size \in Nat /\ Redo!Size > 1 /\ Redo!Words = 0 .. Redo!Size - 1
         /\ \A a \in Redo!Words : Redo!PageOf(a) \in Redo!Pages /\ Redo!PageOf(a) \in Nat
         /\ \A a \in Redo!Words, n \in Int : Redo!Plus(a, n) \in Redo!Words
         /\ \A a \in Redo!Words : a # Redo!Size - 1 => a + 1 \in Redo!Words /\ a + 1 # a
         /\ \A a \in Redo!Words : Redo!PageOf(a + 1) \in Nat
<1> DEFINE S == ByteValues * ByteValues
           P == PageBytes
           N == S \div P
<1>1. ByteValues \in Nat /\ ByteValues > 1 /\ P \in 1 .. S /\ S % P = 0
  BY DEF Redo!BytesAssumption
<1>2. S \in Nat /\ S > 1
  BY <1>1
<1> HIDE DEF S, P
<1>3. P \in Nat /\ P > 0
  BY <1>1, <1>2
<1>4. N \in Nat /\ S = N * P
  <2>1. N \in Int /\ S = P * N + (S % P)
    BY <1>2, <1>3
  <2>2. N >= 0
    BY <1>2, <1>3
  <2> QED
    BY <1>1, <1>3, <2>1, <2>2
<1>5. \A a \in Nat : a \div P \in Nat /\ (a < S => a \div P < N)
  <2> TAKE a \in Nat
  <2> DEFINE q == a \div P
             z == a % P
  <2>1. q \in Int /\ z \in 0 .. P - 1 /\ a = P * q + z
    BY <1>3
  <2>2. q >= 0
    BY <1>3
  <2> HIDE DEF q, z
  <2>3. ASSUME a < S PROVE q < N
    <3> SUFFICES ASSUME q >= N PROVE FALSE
      BY <1>4, <2>1
    <3> HIDE DEF N
    <3>1. P * q >= P * N
      BY <1>3, <1>4, <2>1
    <3> QED
      BY <1>3, <1>4, <2>1, <2>3, <3>1
  <2> QED
    BY <2>1, <2>2, <2>3 DEF q
<1>6. Redo!Size = S /\ Redo!Words = 0 .. S - 1 /\ Redo!Pages = 0 .. N - 1
  BY DEF Redo!Size, Redo!Words, Redo!Pages, S, P
<1> HIDE DEF N
<1>7. \A a \in Nat : Redo!PageOf(a) = a \div P
  BY DEF Redo!PageOf, P
<1>8. \A a \in Redo!Words : Redo!PageOf(a) \in Redo!Pages /\ Redo!PageOf(a) \in Nat
  <2> TAKE a \in Redo!Words
  <2>1. a \in Nat /\ a < S
    BY <1>2, <1>6
  <2>2. a \div P \in Nat /\ a \div P < N /\ Redo!PageOf(a) = a \div P
    BY <1>5, <1>7, <2>1
  <2> QED
    BY <1>4, <1>6, <2>2
<1>9. \A a \in Redo!Words, n \in Int : Redo!Plus(a, n) \in Redo!Words
  <2> TAKE a \in Redo!Words, n \in Int
  <2>1. a + n \in Int
    BY <1>6
  <2>2. (a + n) % S \in 0 .. S - 1
    BY <1>2, <2>1
  <2> QED
    BY <1>6, <2>2 DEF Redo!Plus
<1>10. \A a \in Redo!Words : a # S - 1 => a + 1 \in Redo!Words /\ a + 1 # a
  BY <1>2, <1>6
<1>11. \A a \in Redo!Words : Redo!PageOf(a + 1) \in Nat
  <2> TAKE a \in Redo!Words
  <2>1. a + 1 \in Nat
    BY <1>2, <1>6
  <2> QED
    BY <1>5, <1>7, <2>1
<1> QED
  BY <1>2, <1>6, <1>8, <1>9, <1>10, <1>11

(* What a load leaves, and when it succeeds.                               *)
LEMMA LoadIs ==
  ASSUME Redo!BytesAssumption, NEW x, IsRun(x), NEW a \in Redo!Words, NEW y, y = Redo!Load(x, a)
  PROVE  /\ IsRun(y) /\ KeepsRest(y, x) /\ y.mem = x.mem /\ y.torn = x.torn
         /\ y.ok => /\ a # Redo!Size - 1 /\ y.bad = x.bad /\ y.reads = x.reads \cup {a, a + 1}
                    /\ y.v = x.mem[a] + ByteValues * x.mem[a + 1]
         /\ ~y.ok => y.bad # Redo!NoPage
         /\ x.pg = There /\ a # Redo!Size - 1 => y.ok
<1> DEFINE S == Redo!Size
           lost == {c \in {a, a + 1} : x.pg[Redo!PageOf(c)] = "absent"}
           b == Redo!PageOf(a)
           b2 == Redo!PageOf(a + 1)
<1>1. b \in Nat /\ b2 \in Nat /\ Redo!NoPage = -1 /\ Redo!Limit = -2
  BY OnPages DEF Redo!NoPage, Redo!Limit
<1>2. x.ok \in BOOLEAN /\ x.pg \in [Redo!Pages -> Access] /\ IsMemory(x.mem)
  BY DEF IsRun
<1>3. y = IF a = S - 1 THEN Redo!Fail(x, Redo!Limit)
          ELSE IF a \in lost THEN Redo!Fail(x, b)
          ELSE IF a + 1 \in lost THEN [Redo!Fail(x, b2) EXCEPT !.v = x.mem[a] + ByteValues * (@ \div ByteValues)]
          ELSE [x EXCEPT !.ok = TRUE, !.v = x.mem[a] + ByteValues * x.mem[a + 1], !.reads = @ \cup {a, a + 1}]
  BY DEF Redo!Load
<1>4. ASSUME x.pg = There, a # S - 1 PROVE a \notin lost /\ a + 1 \notin lost
  <2>1. a + 1 \in Redo!Words
    BY <1>4, OnPages
  <2>2. b \in Redo!Pages /\ b2 \in Redo!Pages
    BY <2>1, OnPages
  <2>3. x.pg[b] = "rw" /\ x.pg[b2] = "rw"
    BY <1>4, <2>2 DEF There
  <2> QED
    BY <2>3
<1> HIDE DEF lost, b, b2, S
<1>5. ASSUME NEW p \in Int, p # -1
      PROVE  LET z == Redo!Fail(x, p) IN
             /\ IsRun(z) /\ KeepsRest(z, x) /\ z.mem = x.mem /\ z.torn = x.torn /\ ~z.ok /\ z.bad # -1
  <2> DEFINE q == IF x.bad = Redo!Limit THEN Redo!Limit ELSE p
  <2>1. q # -1 /\ Redo!Fail(x, p) = [x EXCEPT !.ok = FALSE, !.bad = q]
    BY <1>1, <1>5 DEF Redo!Fail
  <2> HIDE DEF q
  <2> QED
    BY <2>1 DEF IsRun, RunFields, MachineFields, KeepsRest
<1>6. CASE a = S - 1
  BY <1>1, <1>3, <1>5, <1>6 DEF S
<1>7. CASE a # S - 1 /\ a \in lost
  BY <1>1, <1>3, <1>4, <1>5, <1>7 DEF S
<1>8. CASE a # S - 1 /\ a \notin lost /\ a + 1 \in lost
  <2> DEFINE z == Redo!Fail(x, b2)
             w == x.mem[a] + ByteValues * (z.v \div ByteValues)
  <2>1. /\ IsRun(z) /\ KeepsRest(z, x) /\ z.mem = x.mem /\ z.torn = x.torn /\ ~z.ok /\ z.bad # -1
    BY <1>1, <1>5
  <2>2. y = [z EXCEPT !.v = w]
    BY <1>3, <1>8
  <2> HIDE DEF z, w
  <2>3. IsRun(y) /\ KeepsRest(y, x) /\ y.mem = x.mem /\ y.torn = x.torn /\ ~y.ok /\ y.bad # -1
    BY <2>1, <2>2 DEF IsRun, RunFields, MachineFields, KeepsRest
  <2> QED
    BY <1>1, <1>4, <1>8, <2>3
<1>9. CASE a # S - 1 /\ a \notin lost /\ a + 1 \notin lost
  <2> DEFINE w == x.mem[a] + ByteValues * x.mem[a + 1]
  <2>1. y = [x EXCEPT !.ok = TRUE, !.v = w, !.reads = @ \cup {a, a + 1}]
    BY <1>3, <1>9
  <2> HIDE DEF w
  <2>2. /\ IsRun(y) /\ KeepsRest(y, x) /\ y.mem = x.mem /\ y.torn = x.torn /\ y.ok /\ y.bad = x.bad
        /\ y.reads = x.reads \cup {a, a + 1} /\ y.v = w
    BY <2>1 DEF IsRun, RunFields, MachineFields, KeepsRest
  <2> QED
    BY <1>9, <2>2 DEF S, w
<1> QED
  BY <1>6, <1>7, <1>8, <1>9

(* What a store leaves: when its second page faults, its first byte.       *)
StoreResult(y, x, a, w) ==
  /\ IsRun(y) /\ KeepsRest(y, x) /\ y.reads = x.reads /\ y.v = x.v
  /\ y.ok => /\ a # Redo!Size - 1 /\ y.bad = x.bad /\ y.torn = x.torn
             /\ y.mem = [x.mem EXCEPT ![a] = w % ByteValues, ![a + 1] = w \div ByteValues]
  /\ ~y.ok => /\ y.bad # Redo!NoPage /\ y.torn \subseteq x.torn \cup {a}
              /\ \A c \in Redo!Words : c \notin y.torn => y.mem[c] = x.mem[c]
  /\ x.pg = There /\ a # Redo!Size - 1 => y.ok

LEMMA StoreIs ==
  ASSUME Redo!BytesAssumption, NEW x, IsRun(x), NEW a \in Redo!Words, NEW w,
         NEW y, y = Redo!Store(x, a, w)
  PROVE  StoreResult(y, x, a, w)
<1> DEFINE S == Redo!Size
           lost == {c \in {a, a + 1} : x.pg[Redo!PageOf(c)] # "rw"}
           b == Redo!PageOf(a)
           b2 == Redo!PageOf(a + 1)
           lo == w % ByteValues
           hi == w \div ByteValues
<1>1. b \in Nat /\ b2 \in Nat /\ Redo!NoPage = -1 /\ Redo!Limit = -2
  BY OnPages DEF Redo!NoPage, Redo!Limit
<1>2. x.ok \in BOOLEAN /\ x.pg \in [Redo!Pages -> Access] /\ IsMemory(x.mem)
  BY DEF IsRun
<1>3. y = IF a = S - 1 THEN Redo!Fail(x, Redo!Limit)
          ELSE IF a \in lost THEN Redo!Fail(x, b)
          ELSE IF a + 1 \in lost THEN [Redo!Fail(x, b2) EXCEPT !.mem[a] = lo, !.torn = @ \cup {a}]
          ELSE [x EXCEPT !.ok = TRUE, !.mem[a] = lo, !.mem[a + 1] = hi]
  BY DEF Redo!Store
<1>4. ASSUME x.pg = There, a # S - 1 PROVE a \notin lost /\ a + 1 \notin lost
  <2>1. a + 1 \in Redo!Words
    BY <1>4, OnPages
  <2>2. b \in Redo!Pages /\ b2 \in Redo!Pages
    BY <2>1, OnPages
  <2>3. x.pg[b] = "rw" /\ x.pg[b2] = "rw"
    BY <1>4, <2>2 DEF There
  <2> QED
    BY <2>3
<1> HIDE DEF lost, b, b2, S, lo, hi
<1>5. ASSUME NEW p \in Int, p # -1
      PROVE  LET z == Redo!Fail(x, p) IN
             /\ IsRun(z) /\ KeepsRest(z, x) /\ z.mem = x.mem /\ z.torn = x.torn /\ ~z.ok /\ z.bad # -1
             /\ z.reads = x.reads /\ z.v = x.v
  <2> DEFINE q == IF x.bad = Redo!Limit THEN Redo!Limit ELSE p
  <2>1. q # -1 /\ Redo!Fail(x, p) = [x EXCEPT !.ok = FALSE, !.bad = q]
    BY <1>1, <1>5 DEF Redo!Fail
  <2> HIDE DEF q
  <2> QED
    BY <2>1 DEF IsRun, RunFields, MachineFields, KeepsRest
<1>6. CASE a = S - 1
  BY <1>1, <1>3, <1>5, <1>6 DEF S, StoreResult
<1>7. CASE a # S - 1 /\ a \in lost
  BY <1>1, <1>3, <1>4, <1>5, <1>7 DEF S, StoreResult
<1>8. CASE a # S - 1 /\ a \notin lost /\ a + 1 \in lost
  <2> DEFINE z == Redo!Fail(x, b2)
             mm == [z.mem EXCEPT ![a] = lo]
  <2>1. /\ IsRun(z) /\ KeepsRest(z, x) /\ z.mem = x.mem /\ z.torn = x.torn /\ ~z.ok /\ z.bad # -1
        /\ z.reads = x.reads /\ z.v = x.v
    BY <1>1, <1>5
  <2>2. y = [z EXCEPT !.mem[a] = lo, !.torn = @ \cup {a}]
    BY <1>3, <1>8
  <2> HIDE DEF z
  <2>3. IsMemory(mm) /\ \A c \in Redo!Words : c # a => mm[c] = z.mem[c]
    BY <1>2, <2>1 DEF IsMemory
  <2>4. y.mem = mm /\ y.torn = x.torn \cup {a} /\ KeepsRest(y, x)
    BY <2>1, <2>2 DEF IsRun, RunFields, MachineFields, KeepsRest
  <2>5. y = [f \in RunFields |-> y[f]] /\ y.ok = z.ok /\ y.bad # -1
        /\ y.reads = x.reads /\ y.v = x.v
    BY <2>1, <2>2 DEF IsRun, RunFields, MachineFields
  <2> HIDE DEF mm
  <2>6. IsRun(y)
    BY <1>2, <2>1, <2>3, <2>4, <2>5 DEF IsRun, KeepsRest
  <2>7. \A c \in Redo!Words : c \notin y.torn => y.mem[c] = x.mem[c]
    BY <2>1, <2>3, <2>4
  <2> QED
    BY <1>1, <1>4, <1>8, <2>1, <2>4, <2>5, <2>6, <2>7 DEF StoreResult, S
<1>9. CASE a # S - 1 /\ a \notin lost /\ a + 1 \notin lost
  <2> DEFINE mm == [x.mem EXCEPT ![a] = lo, ![a + 1] = hi]
  <2>1. y = [x EXCEPT !.ok = TRUE, !.mem[a] = lo, !.mem[a + 1] = hi]
    BY <1>3, <1>9
  <2>2. IsMemory(mm)
    BY <1>2 DEF IsMemory
  <2>3. y.mem = mm
    BY <2>1 DEF IsRun, RunFields, MachineFields
  <2>4. /\ y = [f \in RunFields |-> y[f]] /\ KeepsRest(y, x) /\ y.reads = x.reads /\ y.v = x.v /\ y.ok
        /\ y.bad = x.bad /\ y.torn = x.torn /\ y.ok = TRUE
    BY <2>1 DEF IsRun, RunFields, MachineFields, KeepsRest
  <2> HIDE DEF mm
  <2>5. IsRun(y)
    BY <1>2, <2>2, <2>3, <2>4 DEF IsRun, KeepsRest
  <2> QED
    BY <1>9, <2>3, <2>4, <2>5 DEF S, mm, lo, hi, StoreResult
<1> QED
  BY <1>6, <1>7, <1>8, <1>9 DEF StoreResult

(* Registers and flags other than the instruction pointer are alike.       *)
Like(x, k) == x.r = k.r /\ x.zf = k.zf /\ x.in = k.in /\ x.out = k.out

(* An execution that no fault has stopped, of an instruction that tore t   *)
(* before; one that a fault has stopped; and one with all pages there.     *)
Going(x, t) ==
  /\ IsRun(x) /\ x.bad = Redo!NoPage /\ x.torn = {} /\ Like(x, start) /\ x.ip = start.ip
  /\ \A c \in Redo!Words : c \notin t => x.mem[c] = start.mem[c]
Stopped(z, t) ==
  /\ IsRun(z) /\ z.bad # Redo!NoPage /\ Like(z, start) /\ z.torn \subseteq Targets(insn, start.r)
  /\ \A c \in Redo!Words : c \notin t /\ c \notin z.torn => z.mem[c] = start.mem[c]
Whole(x) == IsRun(x) /\ x.pg = There /\ Like(x, start) /\ x.ip = start.ip /\ x.mem = start.mem

(* One with faults comes to the same as one without, or is stopped.        *)
Outcome(z, u, t) ==
  \/ Stopped(z, t)
  \/ /\ IsRun(z) /\ z.bad = Redo!NoPage
     /\ t \cap z.reads = {} => Redo!Machine(z) = Redo!Machine(u)

LEMMA GoingLoad ==
  ASSUME Redo!BytesAssumption, NEW t, NEW x, Going(x, t), NEW a \in Redo!Words,
         NEW y, y = Redo!Load(x, a)
  PROVE  /\ y.ok \in BOOLEAN
         /\ ~y.ok => Stopped(y, t)
         /\ y.ok => Going(y, t) /\ a # Redo!Size - 1 /\ y.reads = x.reads \cup {a, a + 1}
<1>1. /\ IsRun(x) /\ x.bad = Redo!NoPage /\ x.torn = {} /\ Like(x, start) /\ x.ip = start.ip
      /\ \A c \in Redo!Words : c \notin t => x.mem[c] = start.mem[c]
  BY DEF Going
<1>2. /\ IsRun(y) /\ KeepsRest(y, x) /\ y.mem = x.mem /\ y.torn = x.torn
      /\ y.ok => a # Redo!Size - 1 /\ y.bad = x.bad /\ y.reads = x.reads \cup {a, a + 1}
      /\ ~y.ok => y.bad # Redo!NoPage
  BY <1>1, LoadIs
<1>3. y.ok \in BOOLEAN
  BY <1>2 DEF IsRun
<1>4. Like(y, start) /\ y.ip = start.ip
  BY <1>1, <1>2 DEF Like, KeepsRest
<1> QED
  BY <1>1, <1>2, <1>3, <1>4 DEF Going, Stopped

LEMMA GoingStore ==
  ASSUME Redo!BytesAssumption, NEW t, NEW x, Going(x, t), NEW b \in Redo!Words,
         b \in Targets(insn, start.r), NEW w, NEW s, s = Redo!Store(x, b, w)
  PROVE  /\ s.ok \in BOOLEAN
         /\ ~s.ok => Stopped(s, t)
         /\ s.ok => /\ IsRun(s) /\ s.bad = Redo!NoPage /\ Like(s, start) /\ s.ip = start.ip
                    /\ s.reads = x.reads /\ s.v = x.v /\ b # Redo!Size - 1
<1>1. /\ IsRun(x) /\ x.bad = Redo!NoPage /\ x.torn = {} /\ Like(x, start) /\ x.ip = start.ip
      /\ \A c \in Redo!Words : c \notin t => x.mem[c] = start.mem[c]
  BY DEF Going
<1>2. /\ IsRun(s) /\ KeepsRest(s, x) /\ s.reads = x.reads /\ s.v = x.v
      /\ s.ok => b # Redo!Size - 1 /\ s.bad = x.bad
      /\ ~s.ok => /\ s.bad # Redo!NoPage /\ s.torn \subseteq x.torn \cup {b}
                  /\ \A c \in Redo!Words : c \notin s.torn => s.mem[c] = x.mem[c]
  <2>1. StoreResult(s, x, b, w)
    BY <1>1, StoreIs
  <2> QED
    BY <2>1 DEF StoreResult
<1>3. s.ok \in BOOLEAN
  BY <1>2 DEF IsRun
<1>4. Like(s, start) /\ s.ip = start.ip
  BY <1>1, <1>2 DEF Like, KeepsRest
<1>5. ASSUME ~s.ok PROVE Stopped(s, t)
  <2>1. s.torn \subseteq Targets(insn, start.r)
    BY <1>1, <1>2, <1>5
  <2>2. \A c \in Redo!Words : c \notin t /\ c \notin s.torn => s.mem[c] = start.mem[c]
    BY <1>1, <1>2, <1>5
  <2> QED
    BY <1>2, <1>4, <1>5, <2>1, <2>2 DEF Stopped
<1> QED
  BY <1>1, <1>2, <1>3, <1>4, <1>5

(* A load that succeeds finds what it would have found at first, if it     *)
(* reads nothing torn.                                                     *)
LEMMA LoadAgain ==
  ASSUME Redo!BytesAssumption, NEW t, NEW x, Going(x, t), NEW a \in Redo!Words,
         NEW y, y = Redo!Load(x, a), y.ok, t \cap {a, a + 1} = {},
         NEW x0, Whole(x0), NEW y0, y0 = Redo!Load(x0, a)
  PROVE  Whole(y0) /\ y0.ok /\ y0.v = y.v
<1>1. /\ IsRun(x) /\ \A c \in Redo!Words : c \notin t => x.mem[c] = start.mem[c]
  BY DEF Going
<1>2. a # Redo!Size - 1 /\ y.v = x.mem[a] + ByteValues * x.mem[a + 1]
  BY <1>1, LoadIs
<1>3. IsRun(x0) /\ x0.pg = There /\ Like(x0, start) /\ x0.ip = start.ip /\ x0.mem = start.mem
  BY DEF Whole
<1>4. /\ y0.ok /\ IsRun(y0) /\ KeepsRest(y0, x0) /\ y0.mem = x0.mem
      /\ y0.v = x0.mem[a] + ByteValues * x0.mem[a + 1]
  BY <1>2, <1>3, LoadIs
<1>5. a + 1 \in Redo!Words
  BY <1>2, OnPages
<1>6. x.mem[a] = x0.mem[a] /\ x.mem[a + 1] = x0.mem[a + 1]
  BY <1>1, <1>3, <1>5
<1>7. Whole(y0)
  BY <1>3, <1>4 DEF Whole, Like, KeepsRest
<1> QED
  BY <1>2, <1>4, <1>6, <1>7

(* A store that succeeds replaces what was torn.                           *)
LEMMA StoreAgain ==
  ASSUME Redo!BytesAssumption, NEW t, NEW x, Going(x, t), NEW b \in Redo!Words, t \subseteq {b},
         NEW w, NEW s, s = Redo!Store(x, b, w), s.ok,
         NEW x0, Whole(x0), NEW s0, s0 = Redo!Store(x0, b, w)
  PROVE  /\ s0.ok /\ IsRun(s0) /\ Like(s0, start) /\ s0.ip = start.ip
         /\ s0.mem = s.mem /\ s0.v = x0.v
<1>1. /\ IsRun(x) /\ \A c \in Redo!Words : c \notin t => x.mem[c] = start.mem[c]
  BY DEF Going
<1>2. /\ b # Redo!Size - 1
      /\ s.mem = [x.mem EXCEPT ![b] = w % ByteValues, ![b + 1] = w \div ByteValues]
  <2>1. StoreResult(s, x, b, w)
    BY <1>1, StoreIs
  <2> QED
    BY <2>1 DEF StoreResult
<1>3. IsRun(x0) /\ x0.pg = There /\ Like(x0, start) /\ x0.ip = start.ip /\ x0.mem = start.mem
  BY DEF Whole
<1>4. /\ s0.ok /\ IsRun(s0) /\ KeepsRest(s0, x0) /\ s0.v = x0.v
      /\ s0.mem = [x0.mem EXCEPT ![b] = w % ByteValues, ![b + 1] = w \div ByteValues]
  <2>1. StoreResult(s0, x0, b, w)
    BY <1>3, StoreIs
  <2> QED
    BY <1>2, <1>3, <2>1 DEF StoreResult
<1>5. IsMemory(x.mem) /\ IsMemory(x0.mem)
  BY <1>1, <1>3 DEF IsRun
<1>6. \A c \in Redo!Words : c # b => x.mem[c] = x0.mem[c]
  BY <1>1, <1>3
<1>7. s.mem = s0.mem
  <2> DEFINE lo == w % ByteValues
             hi == w \div ByteValues
  <2> HIDE DEF lo, hi
  <2>1. s.mem = [x.mem EXCEPT ![b] = lo, ![b + 1] = hi] /\ s0.mem = [x0.mem EXCEPT ![b] = lo, ![b + 1] = hi]
    BY <1>2, <1>4 DEF lo, hi
  <2>2. /\ s.mem = [c \in Redo!Words |-> IF c = b + 1 THEN hi ELSE IF c = b THEN lo ELSE x.mem[c]]
        /\ s0.mem = [c \in Redo!Words |-> IF c = b + 1 THEN hi ELSE IF c = b THEN lo ELSE x0.mem[c]]
    BY <1>5, <2>1 DEF IsMemory
  <2> QED
    BY <1>6, <2>2
<1>8. Like(s0, start) /\ s0.ip = start.ip
  BY <1>3, <1>4 DEF Like, KeepsRest
<1> QED
  BY <1>4, <1>7, <1>8

(* Then, for each of its uses: what follows an access that succeeded.      *)
LEMMA PushIsStore ==
  ASSUME NEW x, NEW w
  PROVE  LET s == Redo!Store(x, Redo!Plus(x.r.sp, -2), w) IN
         Redo!Push(x, w) = IF s.ok THEN Redo!Set(s, "sp", Redo!Plus(x.r.sp, -2)) ELSE s
BY DEF Redo!Push, Redo!Then

LEMMA PopIsLoad ==
  ASSUME NEW x
  PROVE  LET y == Redo!Load(x, x.r.sp) IN
         Redo!Pop(x) = IF y.ok THEN Redo!Set(y, "sp", Redo!Plus(y.r.sp, 2)) ELSE y
BY DEF Redo!Pop, Redo!Then

LEMMA PopRegIs ==
  ASSUME NEW x
  PROVE  LET y == Redo!Pop(x) IN Redo!PopReg(x) = IF y.ok THEN Redo!Set(y, "ax", y.v) ELSE y
BY DEF Redo!PopReg, Redo!Then

LEMMA PushMemIs ==
  ASSUME NEW x
  PROVE  LET y == Redo!Load(x, x.r.si) IN Redo!PushMem(x) = IF y.ok THEN Redo!Push(y, y.v) ELSE y
BY DEF Redo!PushMem, Redo!Then

LEMMA AddIs ==
  ASSUME NEW x
  PROVE  LET y == Redo!Load(x, x.r.di)
             s == Redo!Store(y, y.r.di, Redo!Sum(y))
         IN  Redo!Add(x) = IF y.ok THEN IF s.ok THEN Redo!Same(s) ELSE s ELSE y
BY DEF Redo!Add, Redo!Modify, Redo!Then
LEMMA XaddIs ==
  ASSUME NEW x
  PROVE  LET y == Redo!Load(x, x.r.di)
             s == Redo!Store(y, y.r.di, Redo!Sum(y))
         IN  Redo!Xadd(x) = IF y.ok THEN IF s.ok THEN Redo!ToBx(s) ELSE s ELSE y
BY DEF Redo!Xadd, Redo!Modify, Redo!Then
LEMMA XchgIs ==
  ASSUME NEW x
  PROVE  LET y == Redo!Load(x, x.r.di)
             s == Redo!Store(y, y.r.di, y.r.bx)
         IN  Redo!Xchg(x) = IF y.ok THEN IF s.ok THEN Redo!ToBx(s) ELSE s ELSE y
BY DEF Redo!Xchg, Redo!Modify, Redo!Then
LEMMA CmpxchgIs ==
  ASSUME NEW x
  PROVE  LET y == Redo!Load(x, x.r.di)
             s == Redo!Store(y, y.r.di, y.r.bx)
         IN  Redo!Cmpxchg(x) =
               IF ~y.ok THEN y
               ELSE IF y.v # y.r.ax THEN [Redo!Set(y, "ax", y.v) EXCEPT !.zf = FALSE]
               ELSE IF s.ok THEN [s EXCEPT !.zf = TRUE] ELSE s
<1> DEFINE Swap(y) == CHOOSE z \in {IF v.ok THEN [v EXCEPT !.zf = TRUE] ELSE v :
                                    v \in {Redo!Store(y, y.r.di, y.r.bx)}} : TRUE
           After(y) == IF y.v = y.r.ax THEN Swap(y) ELSE [Redo!Set(y, "ax", y.v) EXCEPT !.zf = FALSE]
           y0 == Redo!Load(x, x.r.di)
           s0 == Redo!Store(y0, y0.r.di, y0.r.bx)
<1>1. Redo!Cmpxchg(x) = CHOOSE z \in {IF y.ok THEN After(y) ELSE y : y \in {y0}} : TRUE
  BY DEF Redo!Cmpxchg, Redo!Then
<1>2. Swap(y0) = IF s0.ok THEN [s0 EXCEPT !.zf = TRUE] ELSE s0
  <2> DEFINE G(v) == IF v.ok THEN [v EXCEPT !.zf = TRUE] ELSE v
  <2>1. Swap(y0) = CHOOSE z \in {G(v) : v \in {s0}} : TRUE
    OBVIOUS
  <2> HIDE DEF Swap, G, y0, s0
  <2>2. {G(v) : v \in {s0}} = {G(s0)}
    OBVIOUS
  <2>3. Swap(y0) = G(s0)
    BY <2>1, <2>2
  <2> QED
    BY <2>3 DEF G
<1> HIDE DEF Swap, y0, s0
<1>3. Redo!Cmpxchg(x) = IF y0.ok THEN After(y0) ELSE y0
  <2> HIDE DEF After
  <2> QED
    BY <1>1
<1> QED
  BY <1>2, <1>3 DEF y0, s0

(* A register is set.                                                      *)
SetResult(y, x, g, w) ==
  /\ IsRun(y) /\ y.r = [x.r EXCEPT ![g] = w] /\ y.zf = x.zf /\ y.ip = x.ip /\ y.in = x.in
  /\ y.out = x.out /\ y.mem = x.mem /\ y.bad = x.bad /\ y.reads = x.reads /\ y.v = x.v
  /\ y.ok = x.ok /\ y.pg = x.pg /\ y.torn = x.torn

LEMMA SetIs ==
  ASSUME NEW x, IsRun(x), NEW g, NEW w
  PROVE  SetResult(Redo!Set(x, g, w), x, g, w)
BY DEF SetResult, Redo!Set, IsRun, RunFields, MachineFields

LEMMA BeginIs ==
  ASSUME NEW k, IsMachine(k), NEW pg \in [Redo!Pages -> Access], NEW x, x = Redo!Begin(k, pg)
  PROVE  /\ IsRun(x) /\ x.r = k.r /\ x.mem = k.mem /\ x.zf = k.zf /\ x.ip = k.ip /\ x.in = k.in
         /\ x.out = k.out /\ x.pg = pg /\ x.bad = Redo!NoPage /\ x.reads = {} /\ x.torn = {}
BY DEF Redo!Begin, IsMachine, IsRun, RunFields, MachineFields

(* Two executions leave the same.                                          *)
Alike(z, u) == Like(z, u) /\ z.ip = u.ip /\ z.mem = u.mem

LEMMA OutcomeIs ==
  ASSUME NEW z, NEW u, NEW t,
         \/ Stopped(z, t)
         \/ IsRun(z) /\ z.bad = Redo!NoPage /\ (t \cap z.reads = {} => Alike(z, u))
  PROVE  Outcome(z, u, t)
BY DEF Outcome, Alike, Like, Redo!Machine

(* A push in an execution x with faults, and in another, x0, without.      *)
AlikePushed(z, z0, x, x0, t) ==
  \/ Stopped(z, t)
  \/ /\ IsRun(z) /\ z.bad = Redo!NoPage /\ z.reads = x.reads
     /\ Whole(x0) => IsRun(z0) /\ Alike(z, z0)

LEMMA GoingPush ==
  ASSUME Redo!BytesAssumption, NEW t, NEW x, Going(x, t), NEW a, a = Redo!Plus(start.r.sp, -2),
         start.r.sp \in Redo!Words, Targets(insn, start.r) = {a}, t \subseteq {a},
         NEW w, NEW x0, NEW z, z = Redo!Push(x, w), NEW z0, z0 = Redo!Push(x0, w)
  PROVE  AlikePushed(z, z0, x, x0, t)
<1> DEFINE s == Redo!Store(x, a, w)
           s0 == Redo!Store(x0, a, w)
<1>1. a \in Redo!Words /\ a \in Targets(insn, start.r)
  BY OnPages
<1>2. x.r = start.r /\ (Whole(x0) => x0.r = start.r)
  BY DEF Going, Whole, Like
<1>3. z = IF s.ok THEN Redo!Set(s, "sp", a) ELSE s
  BY <1>2, PushIsStore
<1>4. Whole(x0) => z0 = IF s0.ok THEN Redo!Set(s0, "sp", a) ELSE s0
  BY <1>2, PushIsStore
<1>5. /\ s.ok \in BOOLEAN
      /\ ~s.ok => Stopped(s, t)
      /\ s.ok => IsRun(s) /\ s.bad = Redo!NoPage /\ Like(s, start) /\ s.ip = start.ip /\ s.reads = x.reads
  BY <1>1, GoingStore
<1>6. ASSUME s.ok, Whole(x0)
      PROVE  s0.ok /\ IsRun(s0) /\ Like(s0, start) /\ s0.ip = start.ip /\ s0.mem = s.mem
  BY <1>1, <1>6, StoreAgain
<1> HIDE DEF s, s0
<1>7. CASE ~s.ok
  BY <1>3, <1>5, <1>7 DEF AlikePushed
<1>8. CASE s.ok
  <2>1. z = Redo!Set(s, "sp", a) /\ IsRun(s)
    BY <1>3, <1>5, <1>8
  <2>2. /\ IsRun(z) /\ z.r = [s.r EXCEPT !["sp"] = a] /\ z.zf = s.zf /\ z.ip = s.ip /\ z.in = s.in
        /\ z.out = s.out /\ z.mem = s.mem /\ z.bad = s.bad /\ z.reads = s.reads
    BY <2>1, SetIs DEF SetResult
  <2>3. ASSUME Whole(x0) PROVE IsRun(z0) /\ Alike(z, z0)
    <3>1. z0 = Redo!Set(s0, "sp", a) /\ IsRun(s0)
      BY <1>4, <1>6, <1>8, <2>3
    <3>2. /\ IsRun(z0) /\ z0.r = [s0.r EXCEPT !["sp"] = a] /\ z0.zf = s0.zf /\ z0.ip = s0.ip /\ z0.in = s0.in
          /\ z0.out = s0.out /\ z0.mem = s0.mem
      BY <3>1, SetIs DEF SetResult
    <3>3. Like(s, start) /\ Like(s0, start) /\ s.ip = s0.ip /\ s.mem = s0.mem
      BY <1>5, <1>6, <1>8, <2>3
    <3>4. z.r = z0.r /\ z.zf = z0.zf /\ z.in = z0.in /\ z.out = z0.out
      BY <2>2, <3>2, <3>3 DEF Like
    <3>5. z.ip = z0.ip /\ z.mem = z0.mem
      BY <2>2, <3>2, <3>3
    <3> QED
      BY <3>2, <3>4, <3>5 DEF Alike, Like
  <2> QED
    BY <1>5, <1>8, <2>2, <2>3 DEF AlikePushed
<1> QED
  BY <1>5, <1>7, <1>8

(* How an instruction begins that tore t when it was tried before.         *)
Begun(x, x0, t) ==
  /\ Going(x, t) /\ Whole(x0) /\ x.reads = {} /\ t \subseteq Targets(insn, start.r)
  /\ {start.r.sp, start.r.si, start.r.di} \subseteq Redo!Words

LEMMA PushOutcome ==
  ASSUME Redo!BytesAssumption, NEW t, NEW x, NEW x0, Begun(x, x0, t), insn = "push"
  PROVE  Outcome(Redo!Push(x, x.r.ax), Redo!Push(x0, x0.r.ax), t)
<1> DEFINE a == Redo!Plus(start.r.sp, -2)
           z == Redo!Push(x, x.r.ax)
           z0 == Redo!Push(x0, x0.r.ax)
<1>1. Going(x, t) /\ Whole(x0) /\ start.r.sp \in Redo!Words /\ Targets(insn, start.r) = {a} /\ t \subseteq {a}
  BY DEF Begun, Targets
<1>2. x.r = start.r /\ x0.r = start.r
  BY <1>1 DEF Going, Whole, Like
<1>3. z = Redo!Push(x, start.r.ax) /\ z0 = Redo!Push(x0, start.r.ax)
  BY <1>2
<1> HIDE DEF z, z0, a
<1>4. AlikePushed(z, z0, x, x0, t)
  <2> DEFINE w == start.r.ax
  <2>1. z = Redo!Push(x, w) /\ z0 = Redo!Push(x0, w) /\ a = Redo!Plus(start.r.sp, -2)
    BY <1>3 DEF a
  <2> HIDE DEF w
  <2> QED
    BY <1>1, <2>1, GoingPush
<1>5. Outcome(z, z0, t)
  BY <1>1, <1>4, OutcomeIs DEF AlikePushed
<1> QED
  BY <1>5 DEF z, z0

LEMMA CallOutcome ==
  ASSUME Redo!BytesAssumption, NEW t, NEW x, NEW x0, Begun(x, x0, t), insn = "call"
  PROVE  Outcome(Redo!Call(x), Redo!Call(x0), t)
<1> DEFINE a == Redo!Plus(start.r.sp, -2)
           w == start.ip
           y == Redo!Push(x, w)
           y0 == Redo!Push(x0, w)
           z == Redo!Call(x)
           z0 == Redo!Call(x0)
<1>1. Going(x, t) /\ Whole(x0) /\ start.r.sp \in Redo!Words /\ Targets(insn, start.r) = {a} /\ t \subseteq {a}
  BY DEF Begun, Targets
<1>2. x.r = start.r /\ x0.r = start.r /\ x.ip = w /\ x0.ip = w
  BY <1>1 DEF Going, Whole, Like
<1>3. z = [y EXCEPT !.ip = start.r.bx] /\ z0 = [y0 EXCEPT !.ip = start.r.bx]
  BY <1>2 DEF Redo!Call
<1> HIDE DEF w, z, z0, a
<1>4. AlikePushed(y, y0, x, x0, t)
  <2>1. a = Redo!Plus(start.r.sp, -2)
    BY DEF a
  <2> QED
    BY <1>1, <2>1, GoingPush
<1> HIDE DEF y, y0
<1>5. IsRun(y)
  BY <1>4 DEF AlikePushed, Stopped
<1>6. /\ IsRun(z) /\ Like(z, y) /\ z.mem = y.mem /\ z.bad = y.bad /\ z.reads = y.reads /\ z.torn = y.torn
      /\ z.ip = start.r.bx
  BY <1>3, <1>5 DEF IsRun, RunFields, MachineFields, Like
<1>7. CASE Stopped(y, t)
  <2>1. Stopped(z, t)
    BY <1>6, <1>7 DEF Stopped, Like
  <2> QED
    BY <2>1 DEF Outcome, z, z0
<1>8. CASE ~Stopped(y, t)
  <2>1. y.bad = Redo!NoPage /\ Like(y, y0) /\ y.mem = y0.mem
    BY <1>1, <1>4, <1>8 DEF AlikePushed, Alike
  <2>2. IsRun(y0)
    BY <1>1, <1>4, <1>8 DEF AlikePushed
  <2>3. Like(z0, y0) /\ z0.mem = y0.mem /\ z0.ip = start.r.bx
    BY <1>3, <2>2 DEF IsRun, RunFields, MachineFields, Like
  <2>4. Alike(z, z0)
    BY <1>6, <2>1, <2>3 DEF Alike, Like
  <2> QED
    BY <1>6, <2>1, <2>4, OutcomeIs DEF z, z0
<1> QED
  BY <1>7, <1>8

LEMMA PopOutcome ==
  ASSUME Redo!BytesAssumption, NEW t, NEW x, NEW x0, Begun(x, x0, t), t = {},
         NEW z, z = Redo!Pop(x), NEW z0, z0 = Redo!Pop(x0)
  PROVE  /\ z.ok \in BOOLEAN
         /\ ~z.ok => Stopped(z, t)
         /\ z.ok => /\ z.bad = Redo!NoPage /\ IsRun(z) /\ IsRun(z0) /\ Alike(z, z0)
                    /\ z.v = z0.v /\ z0.ok
<1> DEFINE a == start.r.sp
           y == Redo!Load(x, a)
           y0 == Redo!Load(x0, a)
<1>1. Going(x, t) /\ Whole(x0) /\ a \in Redo!Words
  BY DEF Begun
<1>2. x.r = start.r /\ x0.r = start.r /\ IsMemory(x.mem) /\ \A c \in Redo!Words : x.mem[c] = start.mem[c]
  BY <1>1 DEF Going, Whole, Like, IsRun
<1>3. z = (IF y.ok THEN Redo!Set(y, "sp", Redo!Plus(y.r.sp, 2)) ELSE y)
      /\ z0 = (IF y0.ok THEN Redo!Set(y0, "sp", Redo!Plus(y0.r.sp, 2)) ELSE y0)
  BY <1>2, PopIsLoad
<1> HIDE DEF a
<1>4. y.ok \in BOOLEAN /\ (~y.ok => Stopped(y, t)) /\ (y.ok => Going(y, t))
  BY <1>1, GoingLoad
<1>5. ASSUME y.ok PROVE Whole(y0) /\ y0.ok /\ y0.v = y.v
  <2>1. t \cap {a, a + 1} = {}
    OBVIOUS
  <2> QED
    BY <1>1, <1>5, <2>1, LoadAgain
<1> HIDE DEF y, y0
<1>6. CASE ~y.ok
  BY <1>3, <1>4, <1>6
<1>7. CASE y.ok
  <2> DEFINE w == Redo!Plus(start.r.sp, 2)
  <2>1. /\ IsRun(y) /\ y.bad = Redo!NoPage /\ Like(y, start) /\ y.ip = start.ip
        /\ \A c \in Redo!Words : y.mem[c] = start.mem[c]
        /\ IsRun(y0) /\ Like(y0, start) /\ y0.ip = start.ip /\ y0.mem = start.mem
    BY <1>4, <1>5, <1>7 DEF Going, Whole
  <2>2. y.mem = y0.mem
    <3>1. IsMemory(y.mem) /\ IsMemory(y0.mem)
      BY <2>1 DEF IsRun
    <3> HIDE DEF IsMemory
    <3>2. y.mem = [c \in Redo!Words |-> y.mem[c]] /\ y0.mem = [c \in Redo!Words |-> y0.mem[c]]
      BY <3>1 DEF IsMemory
    <3> QED
      BY <2>1, <3>2
  <2>3. z = Redo!Set(y, "sp", w) /\ z0 = Redo!Set(y0, "sp", w)
    BY <1>3, <1>5, <1>7, <2>1 DEF Like
  <2> HIDE DEF w
  <2>4. /\ IsRun(z) /\ z.r = [y.r EXCEPT !["sp"] = w] /\ z.zf = y.zf /\ z.ip = y.ip /\ z.in = y.in
        /\ z.out = y.out /\ z.mem = y.mem /\ z.bad = y.bad /\ z.v = y.v /\ z.ok = y.ok
    BY <2>1, <2>3, SetIs DEF SetResult
  <2>5. /\ IsRun(z0) /\ z0.r = [y0.r EXCEPT !["sp"] = w] /\ z0.zf = y0.zf /\ z0.ip = y0.ip /\ z0.in = y0.in
        /\ z0.out = y0.out /\ z0.mem = y0.mem /\ z0.v = y0.v /\ z0.ok = y0.ok
    BY <2>1, <2>3, SetIs DEF SetResult
  <2>6. z.r = z0.r /\ z.zf = z0.zf /\ z.in = z0.in /\ z.out = z0.out
    BY <2>1, <2>4, <2>5 DEF Like
  <2>7. Alike(z, z0)
    BY <2>1, <2>2, <2>4, <2>5, <2>6 DEF Alike, Like
  <2> QED
    BY <1>4, <1>5, <1>7, <2>1, <2>4, <2>5, <2>7
<1> QED
  BY <1>4, <1>6, <1>7

LEMMA PopRegOutcome ==
  ASSUME Redo!BytesAssumption, NEW t, NEW x, NEW x0, Begun(x, x0, t), insn = "pop"
  PROVE  Outcome(Redo!PopReg(x), Redo!PopReg(x0), t)
<1> DEFINE y == Redo!Pop(x)
           y0 == Redo!Pop(x0)
           z == Redo!PopReg(x)
           z0 == Redo!PopReg(x0)
<1>1. t = {}
  BY DEF Begun, Targets
<1>2. z = (IF y.ok THEN Redo!Set(y, "ax", y.v) ELSE y) /\ z0 = (IF y0.ok THEN Redo!Set(y0, "ax", y0.v) ELSE y0)
  BY PopRegIs
<1> HIDE DEF z, z0
<1>3. /\ y.ok \in BOOLEAN
      /\ ~y.ok => Stopped(y, t)
      /\ y.ok => y.bad = Redo!NoPage /\ IsRun(y) /\ IsRun(y0) /\ Alike(y, y0) /\ y.v = y0.v /\ y0.ok
  BY <1>1, PopOutcome
<1> HIDE DEF y, y0
<1>4. CASE ~y.ok
  BY <1>2, <1>3, <1>4 DEF Outcome, z, z0
<1>5. CASE y.ok
  <2> DEFINE w == y.v
  <2>1. z = Redo!Set(y, "ax", w) /\ z0 = Redo!Set(y0, "ax", w)
    BY <1>2, <1>3, <1>5
  <2> HIDE DEF w
  <2>2. /\ IsRun(z) /\ z.r = [y.r EXCEPT !["ax"] = w] /\ z.zf = y.zf /\ z.ip = y.ip /\ z.in = y.in
        /\ z.out = y.out /\ z.mem = y.mem /\ z.bad = y.bad
    BY <1>3, <1>5, <2>1, SetIs DEF SetResult
  <2>3. /\ z0.r = [y0.r EXCEPT !["ax"] = w] /\ z0.zf = y0.zf /\ z0.ip = y0.ip /\ z0.in = y0.in
        /\ z0.out = y0.out /\ z0.mem = y0.mem
    BY <1>3, <1>5, <2>1, SetIs DEF SetResult
  <2>4. Alike(y, y0)
    BY <1>3, <1>5
  <2>5. Alike(z, z0)
    BY <2>2, <2>3, <2>4 DEF Alike, Like
  <2>6. Outcome(z, z0, t)
    BY <1>3, <1>5, <2>2, <2>5, OutcomeIs
  <2> QED
    BY <2>6 DEF z, z0
<1> QED
  BY <1>3, <1>4, <1>5

LEMMA RetOutcome ==
  ASSUME Redo!BytesAssumption, NEW t, NEW x, NEW x0, Begun(x, x0, t), insn = "ret"
  PROVE  Outcome(Redo!Ret(x), Redo!Ret(x0), t)
<1> DEFINE y == Redo!Pop(x)
           y0 == Redo!Pop(x0)
           z == Redo!Ret(x)
           z0 == Redo!Ret(x0)
<1>1. t = {}
  BY DEF Begun, Targets
<1>2. z = [y EXCEPT !.ip = Redo!Popw(y)] /\ z0 = [y0 EXCEPT !.ip = Redo!Popw(y0)]
  BY DEF Redo!Ret
<1> HIDE DEF z, z0
<1>3. /\ y.ok \in BOOLEAN
      /\ ~y.ok => Stopped(y, t)
      /\ y.ok => y.bad = Redo!NoPage /\ IsRun(y) /\ IsRun(y0) /\ Alike(y, y0) /\ y.v = y0.v /\ y0.ok
  BY <1>1, PopOutcome
<1> HIDE DEF y, y0
<1>4. IsRun(y)
  BY <1>3 DEF Stopped
<1>5. /\ IsRun(z) /\ Like(z, y) /\ z.mem = y.mem /\ z.bad = y.bad /\ z.torn = y.torn
      /\ z.ip = Redo!Popw(y)
  BY <1>2, <1>4 DEF IsRun, RunFields, MachineFields, Like
<1>6. CASE ~y.ok
  <2>1. Stopped(y, t)
    BY <1>3, <1>6
  <2>2. Stopped(z, t)
    BY <1>5, <2>1 DEF Stopped, Like
  <2> QED
    BY <2>2 DEF Outcome, z, z0
<1>7. CASE y.ok
  <2>1. y.bad = Redo!NoPage /\ IsRun(y0) /\ Like(y, y0) /\ y.mem = y0.mem /\ Redo!Popw(y0) = Redo!Popw(y)
    BY <1>3, <1>7 DEF Alike, Redo!Popw
  <2>2. Like(z0, y0) /\ z0.mem = y0.mem /\ z0.ip = Redo!Popw(y0)
    BY <1>2, <2>1 DEF IsRun, RunFields, MachineFields, Like
  <2>3. Alike(z, z0)
    BY <1>5, <2>1, <2>2 DEF Alike, Like
  <2>4. Outcome(z, z0, t)
    BY <1>5, <2>1, <2>3, OutcomeIs
  <2> QED
    BY <2>4 DEF z, z0
<1> QED
  BY <1>3, <1>6, <1>7

LEMMA PushMemOutcome ==
  ASSUME Redo!BytesAssumption, NEW t, NEW x, NEW x0, Begun(x, x0, t), insn = "pushm"
  PROVE  Outcome(Redo!PushMem(x), Redo!PushMem(x0), t)
<1> DEFINE a == Redo!Plus(start.r.sp, -2)
           b == start.r.si
           y == Redo!Load(x, b)
           y0 == Redo!Load(x0, b)
           w == y.v
           s == Redo!Push(y, w)
           s0 == Redo!Push(y0, w)
           z == Redo!PushMem(x)
           z0 == Redo!PushMem(x0)
<1>1. /\ Going(x, t) /\ Whole(x0) /\ start.r.sp \in Redo!Words /\ b \in Redo!Words /\ x.reads = {}
      /\ Targets(insn, start.r) = {a} /\ t \subseteq {a} /\ a = Redo!Plus(start.r.sp, -2)
  BY DEF Begun, Targets
<1>2. x.r = start.r /\ x0.r = start.r
  BY <1>1 DEF Going, Whole, Like
<1>3. z = (IF y.ok THEN s ELSE y) /\ z0 = (IF y0.ok THEN Redo!Push(y0, y0.v) ELSE y0)
  BY <1>2, PushMemIs
<1> HIDE DEF z, z0, a, b
<1>4. /\ y.ok \in BOOLEAN /\ (~y.ok => Stopped(y, t))
      /\ y.ok => Going(y, t) /\ y.reads = {b, b + 1}
  BY <1>1, GoingLoad
<1>5. ASSUME y.ok, t \cap {b, b + 1} = {} PROVE Whole(y0) /\ y0.ok /\ y0.v = w
  BY <1>1, <1>5, LoadAgain
<1> HIDE DEF y, y0, w
<1>6. CASE ~y.ok
  BY <1>3, <1>4, <1>6 DEF Outcome, z, z0
<1>7. CASE y.ok
  <2>1. Going(y, t) /\ y.reads = {b, b + 1} /\ z = s
    BY <1>3, <1>4, <1>7
  <2>2. AlikePushed(s, s0, y, y0, t)
    BY <1>1, <2>1, GoingPush
  <2>3. ASSUME t \cap {b, b + 1} = {} PROVE Whole(y0) /\ z0 = s0
    BY <1>3, <1>5, <1>7, <2>3
  <2> HIDE DEF s, s0
  <2>4. Outcome(z, z0, t)
    <3>1. CASE Stopped(s, t)
      BY <2>1, <3>1 DEF Outcome
    <3>2. CASE ~Stopped(s, t)
      <4>1. IsRun(z) /\ z.bad = Redo!NoPage /\ z.reads = {b, b + 1}
        BY <2>1, <2>2, <3>2 DEF AlikePushed
      <4>2. ASSUME t \cap {b, b + 1} = {} PROVE Alike(z, z0)
        BY <2>1, <2>2, <2>3, <3>2, <4>2 DEF AlikePushed
      <4> QED
        BY <4>1, <4>2, OutcomeIs
    <3> QED
      BY <3>1, <3>2
  <2> QED
    BY <2>4 DEF z, z0
<1> QED
  BY <1>4, <1>6, <1>7

(* The word at DI is read, and then written.                               *)
Modifying == {"add", "xchg", "xadd", "cmpxchg"}

LEMMA ReadDi ==
  ASSUME Redo!BytesAssumption, NEW t, NEW x, NEW x0, Begun(x, x0, t), insn \in Modifying,
         NEW y, y = Redo!Load(x, x.r.di), NEW y0, y0 = Redo!Load(x0, x0.r.di)
  PROVE  /\ y.ok \in BOOLEAN /\ (~y.ok => Stopped(y, t))
         /\ y.ok => Going(y, t) /\ y.reads = {start.r.di, start.r.di + 1} /\ y.r = start.r
         /\ y.ok /\ t \cap y.reads = {} => Whole(y0) /\ y0.ok /\ y0.v = y.v /\ y0.r = start.r
<1> DEFINE b == start.r.di
<1>1. Going(x, t) /\ Whole(x0) /\ b \in Redo!Words /\ x.reads = {} /\ x.r = start.r /\ x0.r = start.r
  BY DEF Begun, Going, Whole, Like
<1>2. y = Redo!Load(x, b) /\ y0 = Redo!Load(x0, b)
  BY <1>1
<1>3. /\ y.ok \in BOOLEAN /\ (~y.ok => Stopped(y, t))
      /\ y.ok => Going(y, t) /\ y.reads = {b, b + 1} /\ y.r = start.r
  <2> HIDE DEF b
  <2>1. /\ y.ok \in BOOLEAN /\ (~y.ok => Stopped(y, t))
        /\ y.ok => Going(y, t) /\ y.reads = {b, b + 1}
    BY <1>1, <1>2, GoingLoad
  <2> QED
    BY <2>1 DEF Going, Like
<1>4. ASSUME y.ok, t \cap y.reads = {} PROVE Whole(y0) /\ y0.ok /\ y0.v = y.v /\ y0.r = start.r
  <2>1. t \cap {b, b + 1} = {}
    BY <1>3, <1>4
  <2> HIDE DEF b
  <2>2. Whole(y0) /\ y0.ok /\ y0.v = y.v
    BY <1>1, <1>2, <1>4, <2>1, LoadAgain
  <2> QED
    BY <2>2 DEF Whole, Like
<1> QED
  BY <1>3, <1>4

Written(s, s0, y, y0, t) ==
  /\ s.ok \in BOOLEAN /\ (~s.ok => Stopped(s, t))
  /\ s.ok => IsRun(s) /\ s.bad = Redo!NoPage /\ s.reads = y.reads
  /\ s.ok /\ Whole(y0) /\ y0.v = y.v =>
       s0.ok /\ IsRun(s0) /\ Alike(s, s0) /\ s0.v = s.v

LEMMA WrittenDi ==
  ASSUME Redo!BytesAssumption, NEW t, NEW y, Going(y, t), start.r.di \in Redo!Words, insn \in Modifying,
         t \subseteq {start.r.di}, NEW w, NEW y0
  PROVE  Written(Redo!Store(y, start.r.di, w), Redo!Store(y0, start.r.di, w), y, y0, t)
<1> DEFINE b == start.r.di
           s == Redo!Store(y, b, w)
           s0 == Redo!Store(y0, b, w)
<1>1. b \in Targets(insn, start.r) /\ b \in Redo!Words /\ t \subseteq {b}
  BY DEF Targets, Modifying
<1> HIDE DEF b
<1>2. /\ s.ok \in BOOLEAN /\ (~s.ok => Stopped(s, t))
      /\ s.ok => /\ IsRun(s) /\ s.bad = Redo!NoPage /\ Like(s, start) /\ s.ip = start.ip
                 /\ s.reads = y.reads /\ s.v = y.v
  BY <1>1, GoingStore
<1>3. ASSUME s.ok, Whole(y0)
      PROVE  s0.ok /\ IsRun(s0) /\ Like(s0, start) /\ s0.ip = start.ip /\ s0.mem = s.mem /\ s0.v = y0.v
  BY <1>1, <1>3, StoreAgain
<1> HIDE DEF s, s0
<1>4. ASSUME s.ok, Whole(y0), y0.v = y.v
      PROVE  s0.ok /\ IsRun(s0) /\ Alike(s, s0) /\ s0.v = s.v
  BY <1>2, <1>3, <1>4 DEF Alike, Like
<1> QED
  BY <1>2, <1>4 DEF Written, b, s, s0

(* What has been read and written is left as it is, or after a further     *)
(* change to the registers: c and c0 are what follows.                     *)
Left(y, s, c) == IF y.ok THEN IF s.ok THEN c ELSE s ELSE y
Followed(s, s0, c, c0) ==
  /\ IsRun(s) => IsRun(c) /\ c.bad = s.bad /\ c.reads = s.reads
  /\ IsRun(s) /\ IsRun(s0) /\ Alike(s, s0) /\ s.v = s0.v => Alike(c, c0)
SameWord(w, w0, y, y0) == y0.r = y.r /\ y0.v = y.v => w0 = w

LEMMA ModifyOutcome ==
  ASSUME Redo!BytesAssumption, NEW t, NEW x, NEW x0, Begun(x, x0, t), insn \in Modifying,
         NEW y, y = Redo!Load(x, x.r.di), NEW y0, y0 = Redo!Load(x0, x0.r.di),
         NEW w, NEW w0, SameWord(w, w0, y, y0),
         NEW s, s = Redo!Store(y, y.r.di, w), NEW s0, s0 = Redo!Store(y0, y0.r.di, w0),
         NEW c, NEW c0, Followed(s, s0, c, c0)
  PROVE  Outcome(Left(y, s, c), Left(y0, s0, c0), t)
<1> DEFINE b == start.r.di
           z == Left(y, s, c)
           z0 == Left(y0, s0, c0)
<1>0. /\ z = IF y.ok THEN IF s.ok THEN c ELSE s ELSE y
      /\ z0 = IF y0.ok THEN IF s0.ok THEN c0 ELSE s0 ELSE y0
  BY DEF Left
<1> HIDE DEF z, z0
<1>1. b \in Redo!Words /\ t \subseteq {b}
  BY DEF Begun, Targets, Modifying
<1>2. /\ y.ok \in BOOLEAN /\ (~y.ok => Stopped(y, t))
      /\ y.ok => Going(y, t) /\ y.reads = {b, b + 1} /\ y.r = start.r
      /\ y.ok /\ t \cap y.reads = {} => Whole(y0) /\ y0.ok /\ y0.v = y.v /\ y0.r = start.r
  BY ReadDi
<1>3. CASE ~y.ok
  BY <1>0, <1>2, <1>3 DEF Outcome, z, z0
<1>4. CASE y.ok
  <2>1. Written(s, Redo!Store(y0, b, w), y, y0, t)
    BY <1>1, <1>2, <1>4, WrittenDi
  <2>2. CASE ~s.ok
    BY <1>0, <1>4, <2>1, <2>2 DEF Outcome, Written, z, z0
  <2>3. CASE s.ok
    <3>1. z = c /\ IsRun(s) /\ s.bad = Redo!NoPage /\ s.reads = y.reads
      BY <1>0, <1>4, <2>1, <2>3 DEF Written
    <3>2. IsRun(z) /\ z.bad = Redo!NoPage /\ z.reads = y.reads
      BY <3>1 DEF Followed
    <3>3. ASSUME t \cap z.reads = {} PROVE Alike(z, z0)
      <4>1. Whole(y0) /\ y0.ok /\ y0.v = y.v /\ y0.r = start.r /\ y.r = start.r
        BY <1>2, <1>4, <3>2, <3>3
      <4>2. s0 = Redo!Store(y0, b, w)
        BY <4>1 DEF SameWord
      <4>3. s0.ok /\ IsRun(s0) /\ Alike(s, s0) /\ s0.v = s.v
        BY <2>1, <2>3, <4>1, <4>2 DEF Written
      <4>4. z0 = c0
        BY <1>0, <4>1, <4>3
      <4> QED
        BY <3>1, <4>3, <4>4 DEF Followed
    <3> QED
      BY <3>2, <3>3, OutcomeIs DEF z, z0
  <2> QED
    BY <2>2, <2>3, <2>1 DEF Written
<1> QED
  BY <1>2, <1>3, <1>4

(* Nothing follows an ADD; an XADD and an XCHG set BX.                     *)
LEMMA AddOutcome ==
  ASSUME Redo!BytesAssumption, NEW t, NEW x, NEW x0, Begun(x, x0, t), insn = "add"
  PROVE  Outcome(Redo!Add(x), Redo!Add(x0), t)
<1> DEFINE y == Redo!Load(x, x.r.di)
           y0 == Redo!Load(x0, x0.r.di)
           w == Redo!Sum(y)
           w0 == Redo!Sum(y0)
           s == Redo!Store(y, y.r.di, w)
           s0 == Redo!Store(y0, y0.r.di, w0)
           z == Redo!Add(x)
           z0 == Redo!Add(x0)
<1>1. z = Left(y, s, s) /\ z0 = Left(y0, s0, s0)
  BY AddIs DEF Redo!Same, Left
<1>2. SameWord(w, w0, y, y0)
  <2> HIDE DEF y, y0
  <2> QED
    BY DEF Redo!Sum, SameWord
<1>3. insn \in Modifying
  BY DEF Modifying
<1> HIDE DEF z, z0, w, w0
<1>4. Outcome(z, z0, t)
  <2> HIDE DEF y, y0
  <2>1. y = Redo!Load(x, x.r.di) /\ y0 = Redo!Load(x0, x0.r.di)
    BY DEF y, y0
  <2> HIDE DEF s, s0
  <2>2. s = Redo!Store(y, y.r.di, w) /\ s0 = Redo!Store(y0, y0.r.di, w0)
    BY DEF s, s0
  <2>3. Followed(s, s0, s, s0)
    BY DEF Followed
  <2> QED
    BY <1>1, <1>2, <1>3, <2>1, <2>2, <2>3, ModifyOutcome
<1> QED
  BY <1>4 DEF z, z0

LEMMA SetAfter ==
  ASSUME NEW s, NEW s0, NEW c, c = Redo!Set(s, "bx", s.v), NEW c0, c0 = Redo!Set(s0, "bx", s0.v)
  PROVE  /\ IsRun(s) => IsRun(c) /\ c.bad = s.bad /\ c.reads = s.reads
         /\ IsRun(s) /\ IsRun(s0) /\ Alike(s, s0) /\ s.v = s0.v => Alike(c, c0)
<1>1. ASSUME IsRun(s)
      PROVE  /\ IsRun(c) /\ c.r = [s.r EXCEPT !["bx"] = s.v] /\ c.zf = s.zf /\ c.ip = s.ip /\ c.in = s.in
             /\ c.out = s.out /\ c.mem = s.mem /\ c.bad = s.bad /\ c.reads = s.reads
  BY <1>1, SetIs DEF SetResult
<1>2. ASSUME IsRun(s0)
      PROVE  /\ c0.r = [s0.r EXCEPT !["bx"] = s0.v] /\ c0.zf = s0.zf /\ c0.ip = s0.ip /\ c0.in = s0.in
             /\ c0.out = s0.out /\ c0.mem = s0.mem
  BY <1>2, SetIs DEF SetResult
<1>3. ASSUME IsRun(s), IsRun(s0), Alike(s, s0), s.v = s0.v PROVE Alike(c, c0)
  <2>1. s.r = s0.r /\ s.zf = s0.zf /\ s.in = s0.in /\ s.out = s0.out /\ s.ip = s0.ip /\ s.mem = s0.mem
    BY <1>3 DEF Alike, Like
  <2>2. c.r = c0.r
    BY <1>1, <1>2, <1>3, <2>1
  <2> QED
    BY <1>1, <1>2, <1>3, <2>1, <2>2 DEF Alike, Like
<1> QED
  BY <1>1, <1>3

LEMMA XaddOutcome ==
  ASSUME Redo!BytesAssumption, NEW t, NEW x, NEW x0, Begun(x, x0, t), insn = "xadd"
  PROVE  Outcome(Redo!Xadd(x), Redo!Xadd(x0), t)
<1> DEFINE y == Redo!Load(x, x.r.di)
           y0 == Redo!Load(x0, x0.r.di)
           w == Redo!Sum(y)
           w0 == Redo!Sum(y0)
           s == Redo!Store(y, y.r.di, w)
           s0 == Redo!Store(y0, y0.r.di, w0)
           c == Redo!Set(s, "bx", s.v)
           c0 == Redo!Set(s0, "bx", s0.v)
           z == Redo!Xadd(x)
           z0 == Redo!Xadd(x0)
<1>1. z = Left(y, s, c) /\ z0 = Left(y0, s0, c0)
  BY XaddIs DEF Redo!ToBx, Left
<1>2. SameWord(w, w0, y, y0)
  <2> HIDE DEF y, y0
  <2> QED
    BY DEF Redo!Sum, SameWord
<1>3. insn \in Modifying
  BY DEF Modifying
<1> HIDE DEF z, z0, w, w0
<1>4. Outcome(z, z0, t)
  <2> HIDE DEF y, y0
  <2>1. y = Redo!Load(x, x.r.di) /\ y0 = Redo!Load(x0, x0.r.di)
    BY DEF y, y0
  <2> HIDE DEF s, s0
  <2>2. s = Redo!Store(y, y.r.di, w) /\ s0 = Redo!Store(y0, y0.r.di, w0)
    BY DEF s, s0
  <2>3. Followed(s, s0, c, c0)
    BY SetAfter DEF Followed
  <2> HIDE DEF c, c0
  <2> QED
    BY <1>1, <1>2, <1>3, <2>1, <2>2, <2>3, ModifyOutcome
<1> QED
  BY <1>4 DEF z, z0

LEMMA XchgOutcome ==
  ASSUME Redo!BytesAssumption, NEW t, NEW x, NEW x0, Begun(x, x0, t), insn = "xchg"
  PROVE  Outcome(Redo!Xchg(x), Redo!Xchg(x0), t)
<1> DEFINE y == Redo!Load(x, x.r.di)
           y0 == Redo!Load(x0, x0.r.di)
           w == y.r.bx
           w0 == y0.r.bx
           s == Redo!Store(y, y.r.di, w)
           s0 == Redo!Store(y0, y0.r.di, w0)
           c == Redo!Set(s, "bx", s.v)
           c0 == Redo!Set(s0, "bx", s0.v)
           z == Redo!Xchg(x)
           z0 == Redo!Xchg(x0)
<1>1. z = Left(y, s, c) /\ z0 = Left(y0, s0, c0)
  BY XchgIs DEF Redo!ToBx, Left
<1>2. SameWord(w, w0, y, y0)
  <2> HIDE DEF y, y0
  <2> QED
    BY DEF SameWord
<1>3. insn \in Modifying
  BY DEF Modifying
<1> HIDE DEF z, z0, w, w0
<1>4. Outcome(z, z0, t)
  <2> HIDE DEF y, y0
  <2>1. y = Redo!Load(x, x.r.di) /\ y0 = Redo!Load(x0, x0.r.di)
    BY DEF y, y0
  <2> HIDE DEF s, s0
  <2>2. s = Redo!Store(y, y.r.di, w) /\ s0 = Redo!Store(y0, y0.r.di, w0)
    BY DEF s, s0
  <2>3. Followed(s, s0, c, c0)
    BY SetAfter DEF Followed
  <2> HIDE DEF c, c0
  <2> QED
    BY <1>1, <1>2, <1>3, <2>1, <2>2, <2>3, ModifyOutcome
<1> QED
  BY <1>4 DEF z, z0

(* CMPXCHG writes BX where it found AX, and puts into AX what else it      *)
(* found.                                                                  *)
LEMMA CmpxchgOutcome ==
  ASSUME Redo!BytesAssumption, NEW t, NEW x, NEW x0, Begun(x, x0, t), insn = "cmpxchg"
  PROVE  Outcome(Redo!Cmpxchg(x), Redo!Cmpxchg(x0), t)
<1> DEFINE b == start.r.di
           y == Redo!Load(x, x.r.di)
           y0 == Redo!Load(x0, x0.r.di)
           s == Redo!Store(y, y.r.di, y.r.bx)
           s0 == Redo!Store(y0, y0.r.di, y0.r.bx)
           c == [s EXCEPT !.zf = TRUE]
           c0 == [s0 EXCEPT !.zf = TRUE]
           g == Redo!Set(y, "ax", y.v)
           g0 == Redo!Set(y0, "ax", y0.v)
           n == [g EXCEPT !.zf = FALSE]
           n0 == [g0 EXCEPT !.zf = FALSE]
           z == Redo!Cmpxchg(x)
           z0 == Redo!Cmpxchg(x0)
<1>1. /\ z = IF ~y.ok THEN y ELSE IF y.v # y.r.ax THEN n ELSE IF s.ok THEN c ELSE s
      /\ z0 = IF ~y0.ok THEN y0 ELSE IF y0.v # y0.r.ax THEN n0 ELSE IF s0.ok THEN c0 ELSE s0
  BY CmpxchgIs
<1> HIDE DEF z, z0
<1>2. insn \in Modifying /\ t \subseteq {b} /\ b \in Redo!Words
  BY DEF Modifying, Begun, Targets
<1>3. /\ y.ok \in BOOLEAN /\ (~y.ok => Stopped(y, t))
      /\ y.ok => Going(y, t) /\ y.reads = {b, b + 1} /\ y.r = start.r
      /\ y.ok /\ t \cap y.reads = {} => Whole(y0) /\ y0.ok /\ y0.v = y.v /\ y0.r = start.r
  BY <1>2, ReadDi
<1> HIDE DEF y, y0
<1>4. CASE ~y.ok
  BY <1>1, <1>3, <1>4 DEF Outcome, z, z0
<1>5. CASE y.ok /\ y.v # y.r.ax
  <2>1. z = n /\ IsRun(y) /\ y.bad = Redo!NoPage
    BY <1>1, <1>3, <1>5 DEF Going
  <2>2. SetResult(g, y, "ax", y.v)
    BY <2>1, SetIs
  <2> HIDE DEF g
  <2>3. /\ IsRun(z) /\ z.r = g.r /\ z.zf = FALSE /\ z.ip = g.ip /\ z.in = g.in /\ z.out = g.out /\ z.mem = g.mem
        /\ z.bad = g.bad /\ z.reads = g.reads
    BY <2>1, <2>2 DEF SetResult, IsRun, RunFields, MachineFields
  <2>4. ASSUME t \cap z.reads = {} PROVE Alike(z, z0)
    <3>1. z.reads = y.reads /\ y.reads = {b, b + 1}
      BY <1>3, <1>5, <2>2, <2>3 DEF SetResult
    <3>2. Whole(y0) /\ y0.ok /\ y0.v = y.v /\ y0.r = start.r /\ y.r = start.r
      BY <1>3, <1>5, <2>4, <3>1
    <3>3. z0 = n0 /\ IsRun(y0)
      BY <1>1, <1>5, <3>2 DEF Whole
    <3>4. SetResult(g0, y0, "ax", y0.v)
      BY <3>3, SetIs
    <3> HIDE DEF g0
    <3>5. z0.r = g0.r /\ z0.zf = FALSE /\ z0.ip = g0.ip /\ z0.in = g0.in /\ z0.out = g0.out /\ z0.mem = g0.mem
      BY <3>3, <3>4 DEF SetResult, IsRun, RunFields, MachineFields
    <3>6. y.mem = y0.mem
      <4>1. t = {}
        BY <1>2, <2>4, <3>1
      <4>2. /\ \A k \in Redo!Words : y.mem[k] = start.mem[k]
            /\ y0.mem = start.mem /\ IsMemory(y.mem) /\ IsMemory(y0.mem)
        BY <1>3, <1>5, <3>2, <4>1 DEF Going, Whole, IsRun
      <4>3. y.mem = [k \in Redo!Words |-> y.mem[k]] /\ y0.mem = [k \in Redo!Words |-> y0.mem[k]]
        BY <4>2 DEF IsMemory
      <4> QED
        BY <4>2, <4>3
    <3>7. Like(y, start) /\ Like(y0, start) /\ y.ip = y0.ip
      BY <1>3, <1>5, <3>2 DEF Going, Whole
    <3>8. z.r = z0.r
      BY <2>2, <2>3, <3>2, <3>4, <3>5 DEF SetResult
    <3>9. z.ip = z0.ip /\ z.in = z0.in /\ z.out = z0.out /\ z.mem = z0.mem
      BY <2>2, <2>3, <3>4, <3>5, <3>6, <3>7 DEF SetResult, Like
    <3> QED
      BY <2>3, <3>5, <3>8, <3>9 DEF Alike, Like
  <2> QED
    BY <2>1, <2>2, <2>3, <2>4, OutcomeIs DEF SetResult, z, z0
<1>6. CASE y.ok /\ y.v = y.r.ax
  <2> DEFINE w == y.r.bx
             u0 == Left(y0, s0, c0)
  <2>1. z = Left(y, s, c)
    BY <1>1, <1>6 DEF Left
  <2>2. t \cap y.reads = {} => z0 = u0
    BY <1>1, <1>3, <1>6 DEF Left
  <2>3. y = Redo!Load(x, x.r.di) /\ y0 = Redo!Load(x0, x0.r.di)
    BY DEF y, y0
  <2> HIDE DEF s, s0
  <2>4. s = Redo!Store(y, y.r.di, y.r.bx) /\ s0 = Redo!Store(y0, y0.r.di, y0.r.bx)
    BY DEF s, s0
  <2>5. IsRun(s) => IsRun(c) /\ c.bad = s.bad /\ c.reads = s.reads
    BY DEF IsRun, RunFields, MachineFields
  <2>6. ASSUME IsRun(s), IsRun(s0), Alike(s, s0) PROVE Alike(c, c0)
    BY <2>6 DEF IsRun, RunFields, MachineFields, Alike, Like
  <2>10. Followed(s, s0, c, c0)
    BY <2>5, <2>6 DEF Followed
  <2> HIDE DEF c, c0, u0
  <2>7. Outcome(z, u0, t)
    <3>1. u0 = Left(y0, s0, c0)
      BY DEF u0
    <3> DEFINE w1 == y.r.bx
               w2 == y0.r.bx
    <3>2. SameWord(w1, w2, y, y0)
      BY DEF SameWord
    <3>3. s = Redo!Store(y, y.r.di, w1) /\ s0 = Redo!Store(y0, y0.r.di, w2)
      BY <2>4
    <3> HIDE DEF w1, w2
    <3> QED
      BY <1>2, <2>1, <2>3, <2>10, <3>1, <3>2, <3>3, ModifyOutcome
  <2>8. ~Stopped(z, t) => z.reads = y.reads
    <3>2. s = Redo!Store(y, b, y.r.bx)
      BY <1>3, <1>6, <2>4
    <3>3. Written(s, Redo!Store(y0, b, y.r.bx), y, y0, t)
      <4> DEFINE w3 == y.r.bx
      <4> HIDE DEF w3
      <4>1. s = Redo!Store(y, b, w3)
        BY <3>2 DEF w3
      <4>2. Written(s, Redo!Store(y0, b, w3), y, y0, t)
        BY <1>2, <1>3, <1>6, <4>1, WrittenDi
      <4> QED
        BY <4>2 DEF w3
    <3> QED
      BY <1>6, <2>1, <2>5, <3>3 DEF Written, Left
  <2> QED
    BY <2>2, <2>7, <2>8 DEF Outcome, z, z0
<1> QED
  BY <1>3, <1>4, <1>5, <1>6

(* Each of the instructions.                                               *)
LEMMA ExecOutcome ==
  ASSUME Redo!BytesAssumption, NEW t, NEW x, NEW x0, Begun(x, x0, t), insn \in Single
  PROVE  Outcome(Redo!Exec(insn, x), Redo!Exec(insn, x0), t)
<1>1. CASE insn = "push"
  BY <1>1, PushOutcome DEF Redo!Exec
<1>2. CASE insn = "pop"
  BY <1>2, PopRegOutcome DEF Redo!Exec
<1>3. CASE insn = "pushm"
  BY <1>3, PushMemOutcome DEF Redo!Exec
<1>4. CASE insn = "call"
  BY <1>4, CallOutcome DEF Redo!Exec
<1>5. CASE insn = "ret"
  BY <1>5, RetOutcome DEF Redo!Exec
<1>6. CASE insn = "add"
  BY <1>6, AddOutcome DEF Redo!Exec
<1>7. CASE insn = "xchg"
  BY <1>7, XchgOutcome DEF Redo!Exec
<1>8. CASE insn = "xadd"
  BY <1>8, XaddOutcome DEF Redo!Exec
<1>9. CASE insn = "cmpxchg"
  BY <1>9, CmpxchgOutcome DEF Redo!Exec
<1> QED
  BY <1>1, <1>2, <1>3, <1>4, <1>5, <1>6, <1>7, <1>8, <1>9 DEF Single

(* The machine is unharmed from the beginning, by every execution that a   *)
(* fault stops, and by the answer to a fault.                              *)
LEMMA SingleBegins ==
  ASSUME Redo!SetupsAssumption, Redo!Init PROVE SingleInv
<1> DEFINE rec(s) == [r |-> s.r, mem |-> [a \in Redo!Words |-> (a + a \div ByteValues) % ByteValues],
                      zf |-> FALSE, ip |-> s.ip, in |-> 5, out |-> <<>>]
<1>1. /\ start = machine /\ pages \in [Redo!Pages -> {"absent", "ro", "rw"}]
      /\ mode = "run" /\ torn = {}
      /\ \E s \in Setups : machine = rec(s)
  BY DEF Redo!Init
<1>2. PICK s \in Setups : machine = rec(s)
  BY <1>1
<1>3. IsMachine(machine) /\ machine.r = s.r
  BY <1>2 DEF IsMachine, MachineFields, IsMemory
<1>4. {start.r.sp, start.r.si, start.r.di} \subseteq Redo!Words
  BY <1>1, <1>3 DEF Redo!SetupsAssumption
<1>5. Unharmed(machine, torn)
  BY <1>1 DEF Unharmed
<1> QED
  BY <1>1, <1>3, <1>4, <1>5 DEF SingleInv

LEMMA SingleExecutes ==
  ASSUME Redo!BytesAssumption, SingleInv, Redo!Execute PROVE SingleInv'
<1> SUFFICES ASSUME insn \in Single PROVE SingleInv'
  BY DEF SingleInv, Redo!Execute
<1> DEFINE x == Redo!Begin(machine, pages)
           x0 == Redo!Begin(start, There)
           z == Redo!Exec(insn, x)
           u == Redo!Exec(insn, x0)
<1>1. /\ mode = "run" /\ pages \in [Redo!Pages -> Access]
      /\ IsMachine(start) /\ {start.r.sp, start.r.si, start.r.di} \subseteq Redo!Words
      /\ IsMachine(machine) /\ Unharmed(machine, torn)
  BY DEF SingleInv, Redo!Execute, Access
<1>2. /\ mode' = IF z.bad = Redo!NoPage THEN "done" ELSE IF z.bad = Redo!Limit THEN "stopped" ELSE "fault"
      /\ machine' = [Redo!Machine(z) EXCEPT !.ip = IF z.bad = Redo!NoPage THEN @ ELSE machine.ip]
      /\ torn' = IF z.bad = Redo!NoPage THEN torn \cap z.reads ELSE torn \cup z.torn
      /\ insn' = insn /\ pages' = pages /\ start' = start
  BY DEF Redo!Execute
<1>3. Redo!Undisturbed = Redo!Machine(u)
  BY DEF Redo!Undisturbed, There
<1>4. Begun(x, x0, torn)
  <2>1. There \in [Redo!Pages -> Access]
    BY DEF There, Access
  <2>2. /\ IsRun(x) /\ x.r = machine.r /\ x.mem = machine.mem /\ x.zf = machine.zf /\ x.ip = machine.ip
        /\ x.in = machine.in /\ x.out = machine.out /\ x.bad = Redo!NoPage /\ x.reads = {} /\ x.torn = {}
    BY <1>1, BeginIs
  <2>3. /\ IsRun(x0) /\ x0.r = start.r /\ x0.mem = start.mem /\ x0.zf = start.zf /\ x0.ip = start.ip
        /\ x0.in = start.in /\ x0.out = start.out /\ x0.pg = There
    BY <1>1, <2>1, BeginIs
  <2> HIDE DEF x, x0
  <2>4. Going(x, torn)
    BY <1>1, <2>2 DEF Going, Like, Unharmed
  <2>5. Whole(x0)
    BY <2>3 DEF Whole, Like
  <2> QED
    BY <1>1, <2>2, <2>4, <2>5 DEF Begun, Unharmed
<1>5. Outcome(z, u, torn)
  <2> HIDE DEF x, x0
  <2> QED
    BY <1>4, ExecOutcome
<1> HIDE DEF z, u
<1>6. CASE Stopped(z, torn)
  <2>1. z.bad # Redo!NoPage /\ IsRun(z) /\ Like(z, start) /\ z.torn \subseteq Targets(insn, start.r)
        /\ \A c \in Redo!Words : c \notin torn /\ c \notin z.torn => z.mem[c] = start.mem[c]
    BY <1>6 DEF Stopped
  <2>2. /\ machine' = [Redo!Machine(z) EXCEPT !.ip = machine.ip] /\ torn' = torn \cup z.torn
        /\ mode' \in {"fault", "stopped"}
    BY <1>2, <2>1
  <2>3. /\ machine'.r = z.r /\ machine'.mem = z.mem /\ machine'.zf = z.zf /\ machine'.in = z.in
        /\ machine'.out = z.out /\ machine'.ip = machine.ip
        /\ machine' = [f \in MachineFields |-> machine'[f]]
    BY <2>2 DEF Redo!Machine, MachineFields
  <2>4. IsMachine(machine')
    BY <2>1, <2>3 DEF IsMachine, IsRun
  <2>5. Unharmed(machine, torn)'
    BY <1>1, <1>2, <2>1, <2>2, <2>3 DEF Unharmed, Like, Targets
  <2> QED
    BY <1>1, <1>2, <2>2, <2>4, <2>5 DEF SingleInv, Access, IsMachine, IsMemory
<1>7. CASE ~Stopped(z, torn)
  <2>1. IsRun(z) /\ z.bad = Redo!NoPage /\ (torn \cap z.reads = {} => Redo!Machine(z) = Redo!Machine(u))
    BY <1>5, <1>7 DEF Outcome
  <2>2. machine' = Redo!Machine(z) /\ torn' = torn \cap z.reads /\ mode' = "done"
    BY <1>2, <2>1 DEF Redo!Machine
  <2>3. IsMachine(machine')
    BY <2>1, <2>2 DEF Redo!Machine, IsMachine, MachineFields, IsRun
  <2>4. Redo!Undisturbed' = Redo!Machine(u)
    <3>1. Redo!Undisturbed' = Redo!Undisturbed
      BY <1>2 DEF Redo!Undisturbed
    <3> QED
      BY <1>3, <3>1
  <2>5. torn' = {} => machine' = Redo!Undisturbed'
    BY <2>1, <2>2, <2>4
  <2> QED
    BY <1>1, <1>2, <2>2, <2>3, <2>5 DEF SingleInv, Access, IsMachine, IsMemory
<1> QED
  BY <1>6, <1>7

LEMMA SingleRepaired ==
  ASSUME SingleInv, Redo!Repair PROVE SingleInv'
<1> SUFFICES ASSUME insn \in Single PROVE SingleInv'
  BY DEF SingleInv, Redo!Repair
<1>1. /\ mode = "fault" /\ mode' = "run" /\ insn' = insn /\ machine' = machine /\ start' = start
      /\ torn' = torn
  BY DEF Redo!Repair
<1>2. pages' \in [Redo!Pages -> {"absent", "ro", "rw"}]
  <2>1. pages \in [Redo!Pages -> {"absent", "ro", "rw"}]
    BY DEF SingleInv
  <2> QED
    BY <2>1 DEF Redo!Repair
<1>3. Unharmed(machine, torn)'
  BY <1>1 DEF SingleInv, Unharmed
<1> QED
  BY <1>1, <1>2, <1>3 DEF SingleInv

LEMMA SingleRests ==
  ASSUME SingleInv, UNCHANGED Redo!vars PROVE SingleInv'
<1>1. /\ mode' = mode /\ insn' = insn /\ machine' = machine /\ start' = start /\ torn' = torn
      /\ pages' = pages
  BY DEF Redo!vars
<1>2. Redo!Undisturbed' = Redo!Undisturbed
  BY <1>1 DEF Redo!Undisturbed
<1>3. Unharmed(machine, torn)' = Unharmed(machine, torn)
  BY <1>1 DEF Unharmed
<1> QED
  BY <1>1, <1>2, <1>3 DEF SingleInv

(* PUSH, POP, CALL, RET, ADD, XCHG, XADD and CMPXCHG, stopped by any       *)
(* number of page faults in memories and pages of any size, with any pages *)
(* taken away meanwhile, end as if all their pages had been there, unless  *)
(* they read again a byte that they had replaced (CMMU::ld and st, and the *)
(* order of the access and the change of the registers in stack.cpp,       *)
(* call.cpp, ret.cpp, alu-exec.cpp and cmpxchg.cpp).                       *)
THEOREM SingleRestarts ==
  ASSUME Redo!BytesAssumption, Redo!SetupsAssumption
  PROVE  Redo!Spec => [](insn \in Single => Redo!Restartable)
<1>1. Redo!Init => SingleInv
  BY SingleBegins
<1>2. SingleInv /\ [Redo!Next]_(Redo!vars) => SingleInv'
  BY SingleExecutes, SingleRepaired, SingleRests DEF Redo!Next
<1>3. SingleInv => (insn \in Single => Redo!Restartable)
  BY DEF SingleInv, Redo!Restartable
<1> QED
  BY <1>1, <1>2, <1>3, PTL DEF Redo!Spec
=============================================================================
