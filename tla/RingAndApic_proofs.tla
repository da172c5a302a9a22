------------------------- MODULE RingAndApic_proofs -------------------------
(***************************************************************************)
(* Proofs about LocalApic for any vectors, priorities, delivery modes and  *)
(* any number of pins, and about KbcRing for a ring of any size.           *)
(*                                                                         *)
(* The inductive invariant of the APIC is                                  *)
(*   IInv == TypeOK /\ CacheFresh /\ RequestNotForgotten:                  *)
(* that get_int puts a vector other than 0 into service is known only      *)
(* because int_pending judged the very vector that get_int takes.          *)
(***************************************************************************)
EXTENDS RingAndApic, Rings_proofs, WellFoundedInduction

IInv == TypeOK /\ CacheFresh /\ RequestNotForgotten

(* A non-empty set of naturals has a least element.                        *)
LEMMA LeastNatural ==
  ASSUME NEW M, M \subseteq Nat, M # {}
  PROVE  \E m \in M : \A k \in M : m <= k
<1>1. PICK m \in M : \A k \in M : ~(<<k, m>> \in OpToRel(<, Nat))
  BY NatLessThanWellFounded, WFMin
<1>2. \A k \in M : ~(k < m)
  BY <1>1 DEF OpToRel
<1> QED
  BY <1>2

(* The search order as a number: how many bits are looked at earlier.      *)
Rank(v) == (31 - v \div 8) * 8 + (v % 8)

(* Of two vectors the search finds the one of lower rank first.            *)
LEMMA RankIsBefore ==
  ASSUME NEW v \in Vector, NEW w \in Vector
  PROVE  Rank(v) \in Nat /\ (Rank(v) <= Rank(w) => Before(v, w))
<1>1. /\ v \div 8 \in 0 .. 31 /\ v % 8 \in 0 .. 7 /\ v = 8 * (v \div 8) + (v % 8)
      /\ w \div 8 \in 0 .. 31 /\ w % 8 \in 0 .. 7 /\ w = 8 * (w \div 8) + (w % 8)
  BY DEF Vector
<1> QED
  BY <1>1 DEF Rank, Before, Vector

(* The search of a register with a bit set ends at a bit that is set.      *)
LEMMA SelectedInSet ==
  ASSUME NEW S \in SUBSET Vector, S # {}
  PROVE  Selected(S) \in S
<1> DEFINE M == {Rank(v) : v \in S}
<1>1. M \subseteq Nat /\ M # {}
  BY RankIsBefore
<1>2. PICK m \in M : \A k \in M : m <= k
  BY <1>1, LeastNatural
<1>3. PICK v \in S : m = Rank(v)
  BY <1>2
<1>4. \A w \in S : Rank(v) <= Rank(w)
  BY <1>2, <1>3
<1>5. \A w \in S : Before(v, w)
  BY <1>4, RankIsBefore
<1> QED
  BY <1>5 DEF Selected

(* refresh_int leaves a cache that tells what the register holds.          *)
LEMMA RefreshSettles ==
  ASSUME NEW S \in SUBSET Vector, irrv \in Vector, Refresh(S)
  PROVE  /\ irr' \in SUBSET Vector /\ irrv' \in Vector /\ waiting' \in BOOLEAN
         /\ CacheFresh' /\ RequestNotForgotten'
<1>1. irr' = S /\ waiting' = (S # {}) /\ irrv' = IF S # {} THEN Selected(S) ELSE irrv
  BY DEF Refresh
<1>2. S # {} => Selected(S) \in Vector
  BY SelectedInSet
<1>3. irr' \in SUBSET Vector /\ irrv' \in Vector /\ waiting' \in BOOLEAN
  BY <1>1, <1>2
<1>4. CacheFresh'
  BY <1>1 DEF CacheFresh, Selected
<1>5. RequestNotForgotten'
  BY <1>1 DEF RequestNotForgotten
<1> QED
  BY <1>3, <1>4, <1>5

(* Setting or clearing a request is a refresh of a register of vectors.    *)
LEMMA MarkSettles ==
  ASSUME irr \in SUBSET Vector, irrv \in Vector, NEW v \in Vector, Mark(v) \/ Unmark(v)
  PROVE  /\ irr' \in SUBSET Vector /\ irrv' \in Vector /\ waiting' \in BOOLEAN
         /\ CacheFresh' /\ RequestNotForgotten'
<1>1. irr \cup {v} \in SUBSET Vector /\ irr \ {v} \in SUBSET Vector
  OBVIOUS
<1>2. CASE Mark(v)
  BY <1>1, <1>2, RefreshSettles DEF Mark
<1>3. CASE Unmark(v)
  BY <1>1, <1>3, RefreshSettles DEF Unmark
<1> QED
  BY <1>2, <1>3

(* init() sets requests, cache and priorities to values of their types.    *)
LEMMA InitIInv == Init => IInv
<1> SUFFICES ASSUME Init PROVE IInv
  OBVIOUS
<1>1. 0 \in Vector /\ 255 \in Vector
  BY DEF Vector
<1>2. redir \in [Pins -> LowHalf]
  BY <1>1 DEF Init, LowHalf
<1>3. TypeOK
  BY <1>1, <1>2 DEF Init, TypeOK, Lvt
<1> QED
  BY <1>3 DEF Init, IInv, CacheFresh, RequestNotForgotten

(* A message of any mode keeps the invariant.                              *)
LEMMA ReceiveStep ==
  ASSUME IInv, NEW mode, NEW v \in Vector, Receive(mode, v), UNCHANGED redir
  PROVE  IInv'
<1>1. CASE Mark(v) /\ UNCHANGED <<isrv, tpr, lvt, sipi>>
  <2>1. /\ irr' \in SUBSET Vector /\ irrv' \in Vector /\ waiting' \in BOOLEAN
        /\ CacheFresh' /\ RequestNotForgotten'
    BY <1>1, MarkSettles DEF IInv, TypeOK
  <2> QED
    BY <1>1, <2>1 DEF IInv, TypeOK, lvt
<1>2. CASE InitNode
  <2>1. 0 \in Vector /\ 255 \in Vector
    BY DEF Vector
  <2>2. TypeOK'
    BY <1>2, <2>1 DEF InitNode, IInv, TypeOK, Lvt
  <2> QED
    BY <1>2, <2>2 DEF InitNode, IInv, CacheFresh, RequestNotForgotten
<1>3. CASE sipi' = TRUE /\ UNCHANGED <<irr, isrv, irrv, waiting, tpr, lvt>>
  BY <1>3 DEF IInv, TypeOK, lvt, CacheFresh, RequestNotForgotten, Selected
<1> QED
  BY <1>1, <1>2, <1>3 DEF Receive

(* The devices keep the invariant.                                         *)
LEMMA DeviceStep == IInv /\ Device => IInv'
<1> SUFFICES ASSUME IInv, Device PROVE IInv'
  OBVIOUS
<1>1. ASSUME NEW p \in Pins, PinChanges(p) PROVE IInv'
  <2>1. redir[p].vector \in Vector
    BY <1>1 DEF IInv, TypeOK, LowHalf
  <2> QED
    BY <1>1, <2>1, ReceiveStep DEF PinChanges
<1>2. ASSUME NEW v \in Vector, Mark(v) \/ Unmark(v), UNCHANGED <<isrv, tpr, lvt, sipi, redir>>
      PROVE  IInv'
  <2>1. /\ irr' \in SUBSET Vector /\ irrv' \in Vector /\ waiting' \in BOOLEAN
        /\ CacheFresh' /\ RequestNotForgotten'
    BY <1>2, MarkSettles DEF IInv, TypeOK
  <2> QED
    BY <1>2, <2>1 DEF IInv, TypeOK, lvt
<1>3. CASE AssertLint0 \/ DeassertLint0
  BY <1>2, <1>3 DEF AssertLint0, DeassertLint0, IInv, TypeOK
<1>4. CASE TimerExpires
  <2>1. svr.vector \in Vector /\ timer.vector \in Vector
    BY DEF IInv, TypeOK, Lvt
  <2> QED
    BY <1>2, <1>4, <2>1 DEF TimerExpires
<1> QED
  BY <1>1, <1>3, <1>4 DEF Device

(* The registers of the local vector table and the redirection entries     *)
(* are stored without a look at the requests.                              *)
LEMMA StoreStep ==
  ASSUME IInv,
         UNCHANGED <<irr, isrv, irrv, waiting, tpr>>,
         svr' \in [enabled : BOOLEAN, vector : Vector], timer' \in Lvt,
         lint0' \in Vector, running' \in BOOLEAN, sipi' \in BOOLEAN,
         redir' \in [Pins -> LowHalf]
  PROVE  IInv'
<1>1. TypeOK'
  BY DEF IInv, TypeOK
<1>2. CacheFresh' /\ RequestNotForgotten'
  BY DEF IInv, CacheFresh, RequestNotForgotten, Selected
<1> QED
  BY <1>1, <1>2 DEF IInv

(* The guest's writes keep the invariant.                                  *)
LEMMA GuestStep == IInv /\ Guest => IInv'
<1> SUFFICES ASSUME IInv, Guest PROVE IInv'
  OBVIOUS
<1> USE ApicAssumption
<1>1. ASSUME NEW mode \in Modes, NEW v \in Vectors, SendIpi(mode, v) PROVE IInv'
  BY <1>1, ReceiveStep DEF SendIpi
<1>2. ASSUME NEW p \in Pins, NEW e \in LowHalves, WriteRedir(p, e) PROVE IInv'
  <2>1. redir' \in [Pins -> LowHalf]
    BY <1>2 DEF WriteRedir, IInv, TypeOK
  <2> QED
    BY <1>2, <2>1, StoreStep DEF WriteRedir, lvt, IInv, TypeOK
<1>3. CASE Eoi
  <2>1. /\ irr' \in SUBSET Vector /\ irrv' \in Vector /\ waiting' \in BOOLEAN
        /\ CacheFresh' /\ RequestNotForgotten'
    BY <1>3, MarkSettles DEF Eoi, IInv, TypeOK
  <2>2. 0 \in Vector
    BY DEF Vector
  <2> QED
    BY <1>3, <2>1, <2>2 DEF Eoi, IInv, TypeOK, lvt
<1>4. ASSUME NEW t \in Priorities, WriteTpr(t) PROVE IInv'
  <2>1. /\ irr' \in SUBSET Vector /\ irrv' \in Vector /\ waiting' \in BOOLEAN
        /\ CacheFresh' /\ RequestNotForgotten'
    BY <1>4, RefreshSettles DEF WriteTpr, IInv, TypeOK
  <2> QED
    BY <1>4, <2>1 DEF WriteTpr, IInv, TypeOK, lvt
<1>5. ASSUME NEW e \in BOOLEAN, NEW v \in LvtVectors, WriteSvr(e, v) PROVE IInv'
  <2>1. v \div 16 \in 0 .. 15
    BY DEF Vector
  <2>2. (v \div 16) * 16 + 15 \in Vector
    BY <2>1 DEF Vector
  <2>3. svr' \in [enabled : BOOLEAN, vector : Vector]
    BY <1>5, <2>2 DEF WriteSvr
  <2> QED
    BY <1>5, <2>3, StoreStep DEF WriteSvr, IInv, TypeOK
<1>6. ASSUME NEW m \in BOOLEAN, NEW v \in LvtVectors, WriteTimer(m, v) PROVE IInv'
  <2>1. timer' \in Lvt
    BY <1>6 DEF WriteTimer, Lvt
  <2> QED
    BY <1>6, <2>1, StoreStep DEF WriteTimer, IInv, TypeOK
<1>7. ASSUME NEW v \in LvtVectors, WriteLint0(v) PROVE IInv'
  <2>1. lint0' \in Vector
    BY <1>7 DEF WriteLint0
  <2> QED
    BY <1>7, <2>1, StoreStep DEF WriteLint0, IInv, TypeOK
<1>8. ASSUME NEW r \in BOOLEAN, WriteDivide(r) PROVE IInv'
  BY <1>8, StoreStep DEF WriteDivide, IInv, TypeOK
<1> QED
  BY <1>1, <1>2, <1>3, <1>4, <1>5, <1>6, <1>7, <1>8 DEF Guest

(* The vector the processor is given is requested and above its priority.  *)
LEMMA AcceptedVector ==
  ASSUME IInv, Accept
  PROVE  isrv' \in irr /\ isrv' > tpr /\ isrv' = Selected(irr)
<1>1. irr # {} /\ irrv = Selected(irr) /\ irrv > tpr
  BY DEF Accept, IntPending, IInv, CacheFresh
<1>2. isrv' = Selected(irr)
  BY <1>1 DEF Accept
<1>3. Selected(irr) \in irr
  BY <1>1, SelectedInSet DEF IInv, TypeOK
<1> QED
  BY <1>1, <1>2, <1>3

(* Taking a vector keeps the invariant: it is above a priority, so not 0.  *)
LEMMA AcceptStep == IInv /\ Accept => IInv'
<1> SUFFICES ASSUME IInv, Accept PROVE IInv'
  OBVIOUS
<1>1. isrv' \in irr /\ isrv' > tpr
  BY AcceptedVector
<1>2. isrv' \in Vector /\ isrv' # 0
  BY <1>1 DEF IInv, TypeOK, Vector
<1>3. irr' \in SUBSET Vector /\ waiting' = FALSE
  BY DEF Accept, IInv, TypeOK
<1>4. TypeOK'
  BY <1>2, <1>3 DEF Accept, IInv, TypeOK, lvt
<1> QED
  BY <1>2, <1>3, <1>4 DEF IInv, CacheFresh, RequestNotForgotten

(* The invariant of every behaviour of the local APIC.                     *)
LEMMA Invariance == Spec => []IInv
<1>1. IInv /\ UNCHANGED vars => IInv'
  BY StoreStep DEF vars, lvt, IInv, TypeOK
<1>2. IInv /\ [Next]_vars => IInv'
  BY <1>1, DeviceStep, GuestStep, AcceptStep DEF Next
<1> QED
  BY InitIInv, <1>2, PTL DEF Spec

(* sys/apic.cpp: whatever vectors the guest, the pins and the timer use,   *)
(* every register stays within its type.                                   *)
THEOREM TypeCorrect == Spec => []TypeOK
<1>1. IInv => TypeOK
  BY DEF IInv
<1> QED
  BY Invariance, <1>1, PTL

(* int_waiting and irrv are never older than the request register: what    *)
(* int_pending judges is what get_int takes.                               *)
THEOREM CacheIsFresh == Spec => []CacheFresh
<1>1. IInv => CacheFresh
  BY DEF IInv
<1> QED
  BY Invariance, <1>1, PTL

(* A request that int_pending does not show waits behind a vector in       *)
(* service, whose end of interrupt refreshes.                              *)
THEOREM RequestsAreNotForgotten == Spec => []RequestNotForgotten
<1>1. IInv => RequestNotForgotten
  BY DEF IInv
<1> QED
  BY Invariance, <1>1, PTL

(* get_int gives the processor only a requested vector above the task      *)
(* priority, never the spurious one.                                       *)
THEOREM PriorityIsHonoured == Spec => PriorityHonoured
<1>1. IInv /\ [Next]_vars => [Accept => isrv' \in irr /\ isrv' > tpr]_vars
  BY AcceptedVector
<1> QED
  BY Invariance, <1>1, PTL DEF Spec, PriorityHonoured

(* Who may retire a request: the processor that takes it, the end of       *)
(* interrupt of its vector, LINT0's fall on its own vector, an INIT.       *)
THEOREM RequestsEndProperly == Spec => RequestEnds
<1> DEFINE Retired(v) ==
       \/ Accept /\ isrv' = v
       \/ Eoi /\ isrv = v
       \/ DeassertLint0 /\ lint0 = v
       \/ InitNode
<1>1. ASSUME IInv, Next PROVE \A v \in irr \ irr' : Retired(v)
  <2> SUFFICES ASSUME NEW v \in irr \ irr' PROVE Retired(v)
    OBVIOUS
  <2>1. ASSUME NEW mode, NEW w, Receive(mode, w) PROVE Retired(v)
    BY <2>1 DEF Receive, Mark, Refresh
  <2>2. CASE Device
    <3>1. ASSUME NEW p \in Pins, PinChanges(p) PROVE Retired(v)
      BY <2>1, <3>1 DEF PinChanges
    <3>2. CASE AssertLint0
      BY <3>2 DEF AssertLint0, Mark, Refresh
    <3>3. CASE DeassertLint0
      BY <3>3 DEF DeassertLint0, Unmark, Refresh
    <3>4. CASE TimerExpires
      BY <3>4 DEF TimerExpires, Mark, Refresh
    <3> QED
      BY <2>2, <3>1, <3>2, <3>3, <3>4 DEF Device
  <2>3. CASE Eoi
    BY <2>3 DEF Eoi, Unmark, Refresh
  <2>4. CASE Guest /\ ~Eoi
    <3>1. ASSUME NEW mode \in Modes, NEW w \in Vectors, SendIpi(mode, w) PROVE Retired(v)
      BY <2>1, <3>1 DEF SendIpi
    <3>2. CASE irr' = irr
      BY <3>2
    <3> QED
      BY <2>4, <3>1, <3>2
      DEF Guest, WriteRedir, WriteTpr, Refresh, WriteSvr, WriteTimer, WriteLint0, WriteDivide
  <2>5. CASE Accept
    <3>1. isrv' = Selected(irr) /\ irr' = irr \ {Selected(irr)}
      BY <2>5, AcceptedVector DEF Accept
    <3> QED
      BY <2>5, <3>1
  <2> QED
    BY <1>1, <2>2, <2>3, <2>4, <2>5 DEF Next
<1>2. IInv /\ [Next]_vars => [\A v \in irr \ irr' : Retired(v)]_vars
  BY <1>1
<1> QED
  BY Invariance, <1>2, PTL DEF Spec, RequestEnds

-----------------------------------------------------------------------------
(* The ring of scan codes. *)

(* Keys (not 0) waiting in w and read into g, rising, none above n.        *)
Ordered(w, g, n) ==
  /\ \A i, j \in 1 .. Len(w) : i < j /\ w[i] # 0 /\ w[j] # 0 => w[i] < w[j]
  /\ \A i \in 1 .. Len(w) : w[i] <= n
  /\ \A i \in 1 .. Len(w), k \in 1 .. Len(g) : w[i] # 0 => g[k] < w[i]
  /\ \A k \in 1 .. Len(g) : g[k] <= n
  /\ \A k \in 1 .. Len(g) - 1 : g[k] < g[k + 1]

LEMMA OrderedEmpty ==
  ASSUME NEW w \in Seq(Nat), NEW g \in Seq(Nat), NEW n \in Nat, Ordered(w, g, n)
  PROVE  Ordered(<<>>, g, n)
BY DEF Ordered

LEMMA OrderedLater ==
  ASSUME NEW w \in Seq(Nat), NEW g \in Seq(Nat), NEW n \in Nat, Ordered(w, g, n),
         NEW m \in Nat, n <= m
  PROVE  Ordered(w, g, m)
<1>1. \A i \in 1 .. Len(w) : w[i] \in Nat /\ w[i] <= n
  BY DEF Ordered
<1>2. \A k \in 1 .. Len(g) : g[k] \in Nat /\ g[k] <= n
  BY DEF Ordered
<1> QED
  BY <1>1, <1>2 DEF Ordered

(* A key later than all others, or a response, may come behind them.       *)
LEMMA OrderedAppend ==
  ASSUME NEW w \in Seq(Nat), NEW g \in Seq(Nat), NEW n \in Nat, Ordered(w, g, n),
         NEW x \in {0, n + 1}
  PROVE  Ordered(Append(w, x), g, n + 1)
<1> DEFINE a == Append(w, x)
<1>1. Len(a) = Len(w) + 1 /\ Len(w) \in Nat
  OBVIOUS
<1>2. \A i \in 1 .. Len(w) : a[i] = w[i] /\ w[i] \in Nat /\ w[i] <= n
  BY DEF Ordered
<1>3. a[Len(w) + 1] = x
  OBVIOUS
<1>4. \A k \in 1 .. Len(g) : g[k] \in Nat /\ g[k] <= n
  BY DEF Ordered
<1>5. \A i \in 1 .. Len(a) : i \in 1 .. Len(w) \/ i = Len(w) + 1
  BY <1>1
<1> HIDE DEF a
<1>6. ASSUME NEW i \in 1 .. Len(a), NEW j \in 1 .. Len(a), i < j, a[i] # 0, a[j] # 0
      PROVE  a[i] < a[j]
  <2>1. i \in 1 .. Len(w)
    BY <1>1, <1>6
  <2>2. CASE j \in 1 .. Len(w)
    BY <1>2, <1>6, <2>1, <2>2 DEF Ordered
  <2>3. CASE j = Len(w) + 1
    <3>1. a[i] \in Nat /\ a[i] <= n
      BY <1>2, <2>1
    <3>2. a[j] = n + 1
      BY <1>3, <1>6, <2>3
    <3> QED
      BY <3>1, <3>2
  <2> QED
    BY <1>5, <2>2, <2>3
<1>7. \A i \in 1 .. Len(a) : a[i] <= n + 1
  BY <1>2, <1>3, <1>5
<1>8. ASSUME NEW i \in 1 .. Len(a), NEW k \in 1 .. Len(g), a[i] # 0 PROVE g[k] < a[i]
  <2>1. CASE i \in 1 .. Len(w)
    BY <1>2, <1>8, <2>1 DEF Ordered
  <2>2. CASE i = Len(w) + 1
    BY <1>3, <1>4, <1>8, <2>2
  <2> QED
    BY <1>5, <2>1, <2>2
<1>9. \A k \in 1 .. Len(g) : g[k] <= n + 1
  BY <1>4
<1>10. \A k \in 1 .. Len(g) - 1 : g[k] < g[k + 1]
  BY DEF Ordered
<1>11. Ordered(a, g, n + 1)
  BY <1>6, <1>7, <1>8, <1>9, <1>10 DEF Ordered
<1> QED
  BY <1>11 DEF a

(* The first that waits may be read.                                       *)
LEMMA OrderedTake ==
  ASSUME NEW w \in Seq(Nat), NEW g \in Seq(Nat), NEW n \in Nat, Ordered(w, g, n), w # <<>>
  PROVE  Ordered(Tail(w), IF Head(w) = 0 THEN g ELSE Append(g, Head(w)), n)
<1> DEFINE t == Tail(w)
           x == Head(w)
           a == Append(g, x)
<1>1. /\ t \in Seq(Nat) /\ Len(t) = Len(w) - 1 /\ Len(w) \in Nat \ {0}
      /\ \A i \in 1 .. Len(t) : t[i] = w[i + 1]
  BY HeadTailProperties
<1>2. x = w[1] /\ 1 \in 1 .. Len(w) /\ x \in Nat /\ x <= n
  <2>1. 1 \in 1 .. Len(w)
    BY <1>1
  <2>2. x = w[1]
    OBVIOUS
  <2>3. w[1] \in Nat /\ w[1] <= n
    BY <2>1 DEF Ordered
  <2> QED
    BY <2>1, <2>2, <2>3
<1>3. \A i \in 1 .. Len(t) : /\ i + 1 \in 1 .. Len(w) /\ i + 1 > 1
                             /\ t[i] \in Nat /\ t[i] <= n /\ t[i] = w[i + 1]
  BY <1>1 DEF Ordered
<1>4. \A k \in 1 .. Len(g) : g[k] \in Nat /\ g[k] <= n
  BY DEF Ordered
<1>5. /\ Len(a) = Len(g) + 1 /\ Len(g) \in Nat /\ a[Len(g) + 1] = x
      /\ \A k \in 1 .. Len(g) : a[k] = g[k]
  BY <1>2
<1> HIDE DEF t, x, a
<1>6. ASSUME NEW i \in 1 .. Len(t), NEW j \in 1 .. Len(t), i < j, t[i] # 0, t[j] # 0
      PROVE  t[i] < t[j]
  <2>1. /\ i + 1 \in 1 .. Len(w) /\ t[i] = w[i + 1]
        /\ j + 1 \in 1 .. Len(w) /\ t[j] = w[j + 1]
    BY <1>3
  <2>2. i + 1 < j + 1
    BY <1>6
  <2>3. w[i + 1] < w[j + 1]
    BY <1>6, <2>1, <2>2 DEF Ordered
  <2> QED
    BY <2>1, <2>3
<1>7. \A i \in 1 .. Len(t), k \in 1 .. Len(g) : t[i] # 0 => g[k] < t[i]
  BY <1>3 DEF Ordered
<1>8. Ordered(t, g, n)
  BY <1>3, <1>6, <1>7 DEF Ordered
<1>9. CASE x = 0
  BY <1>8, <1>9 DEF t, x
<1>10. CASE x # 0
  <2>1. \A i \in 1 .. Len(t) : t[i] # 0 => x < t[i]
    BY <1>2, <1>3, <1>10 DEF Ordered
  <2>2. \A k \in 1 .. Len(g) : g[k] < x
    BY <1>2, <1>10 DEF Ordered
  <2>3. \A k \in 1 .. Len(a) : k \in 1 .. Len(g) \/ k = Len(g) + 1
    BY <1>5
  <2>4. \A i \in 1 .. Len(t), k \in 1 .. Len(a) : t[i] # 0 => a[k] < t[i]
    BY <1>5, <1>7, <2>1, <2>3
  <2>5. \A k \in 1 .. Len(a) : a[k] <= n
    BY <1>2, <1>4, <1>5, <2>3
  <2>6. ASSUME NEW k \in 1 .. Len(a) - 1 PROVE a[k] < a[k + 1]
    <3>1. k \in 1 .. Len(g)
      BY <1>5
    <3>2. CASE k + 1 \in 1 .. Len(g)
      <4>1. k \in 1 .. Len(g) - 1
        BY <1>5, <3>2
      <4> QED
        BY <1>5, <3>1, <3>2, <4>1 DEF Ordered
    <3>3. CASE k + 1 = Len(g) + 1
      BY <1>5, <2>2, <3>1, <3>3
    <3> QED
      BY <1>5, <3>1, <3>2, <3>3
  <2>7. Ordered(t, a, n)
    BY <1>3, <1>6, <2>4, <2>5, <2>6 DEF Ordered
  <2> QED
    BY <1>10, <2>7 DEF t, x, a
<1> QED
  BY <1>9, <1>10

(* A response may come before them.                                        *)
LEMMA OrderedResponse ==
  ASSUME NEW w \in Seq(Nat), NEW g \in Seq(Nat), NEW n \in Nat, Ordered(w, g, n),
         NEW v \in Seq(Nat), Len(v) = Len(w) + 1, v[1] = 0,
         \A i \in 1 .. Len(w) : v[i + 1] = w[i]
  PROVE  Ordered(v, g, n)
<1>1. \A i \in 1 .. Len(v) : i = 1 \/ (i - 1 \in 1 .. Len(w) /\ v[i] = w[i - 1])
  <2> TAKE i \in 1 .. Len(v)
  <2>1. Len(w) \in Nat
    OBVIOUS
  <2>2. i # 1 => i - 1 \in 1 .. Len(w) /\ (i - 1) + 1 = i
    BY <2>1
  <2> QED
    BY <2>2
<1>2. ASSUME NEW i \in 1 .. Len(v), NEW j \in 1 .. Len(v), i < j, v[i] # 0, v[j] # 0
      PROVE  v[i] < v[j]
  <2>1. i - 1 \in 1 .. Len(w) /\ v[i] = w[i - 1] /\ j - 1 \in 1 .. Len(w) /\ v[j] = w[j - 1]
    BY <1>1, <1>2
  <2>2. i - 1 < j - 1
    BY <1>2
  <2>3. w[i - 1] < w[j - 1]
    BY <1>2, <2>1, <2>2 DEF Ordered
  <2> QED
    BY <2>1, <2>3
<1>3. ASSUME NEW i \in 1 .. Len(v) PROVE v[i] <= n
  <2>1. CASE i = 1
    BY <2>1
  <2>2. CASE i - 1 \in 1 .. Len(w) /\ v[i] = w[i - 1]
    BY <2>2 DEF Ordered
  <2> QED
    BY <1>1, <2>1, <2>2
<1>4. \A i \in 1 .. Len(v), k \in 1 .. Len(g) : v[i] # 0 => g[k] < v[i]
  BY <1>1 DEF Ordered
<1> QED
  BY <1>2, <1>3, <1>4 DEF Ordered

(* What the clock thread is not about to overwrite with a response, and    *)
(* the newest key that key_hit is through with.                            *)
Waiting == IF clk = "place" /\ K!Held # <<>> THEN Tail(K!Held) ELSE K!Held
Coming  == ui \in {"check", "store", "inc"}
Newest  == IF Coming THEN pressed - 1 ELSE pressed

(* Before a race: wr is past the end only while it is being wrapped, the   *)
(* key is in its slot once stored unless a response overran it, the byte   *)
(* fetched is the one to be taken, and the keys are in order.              *)
InTurn ==
  /\ wr \in K!Slots \/ (wr = RingSize /\ ui \in {"test", "sub"})
  /\ ui = "sub" => wr = RingSize
  /\ ui = "inc" => slot = wr /\ ibuf[slot] \in {pressed, 0}
  /\ clk = "take" /\ rd # wr => al = ibuf[rd]
  /\ Ordered(Waiting, got, Newest)

(* Without responses and clears, in addition: there is room for the key    *)
(* being stored, and nothing but the accepted keys is read or held.        *)
Kept ==
  /\ clk # "place"
  /\ ui \in {"store", "inc"} => K!Count # RingSize - 1
  /\ ui = "inc" => ibuf[slot] = pressed
  /\ \A i \in 1 .. Len(K!Held) : K!Held[i] # 0
  /\ got \o K!Held = accepted

KeyType == K!TypeOK /\ places \in Nat /\ clears \in Nat /\ (Coming => pressed > 0)

KeyInv ==
  /\ KeyType
  /\ ~race => InTurn
  /\ ~race /\ places = 0 /\ clears = 0 => Kept

(* The ring past its end is the ring at its beginning.                     *)
Begin(R, h) == IF h = R THEN 0 ELSE h

LEMMA HeldForm ==
  ASSUME K!RingAssumption, NEW r \in K!Slots, NEW h \in 0 .. RingSize,
         NEW b \in [K!Slots -> Nat]
  PROVE  /\ Begin(RingSize, h) \in 0 .. RingSize - 1
         /\ (h - r) % RingSize = (Begin(RingSize, h) - r) % RingSize
         /\ [i \in 1 .. ((h - r) % RingSize) |-> b[(r + i - 1) % RingSize]]
              = Holds(RingSize, r, Begin(RingSize, h), b)
<1>1. /\ RingSize \in Nat /\ RingSize >= 2
      /\ Begin(RingSize, h) \in 0 .. RingSize - 1 /\ r \in 0 .. RingSize - 1
  BY DEF K!RingAssumption, K!Slots, Begin
<1>2. (h - r) % RingSize = (Begin(RingSize, h) - r) % RingSize
  BY <1>1 DEF Begin
<1> QED
  BY <1>1, <1>2 DEF Holds

LEMMA KeyRing ==
  ASSUME K!RingAssumption, KeyType, InTurn
  PROVE  /\ RingSize \in Nat /\ RingSize >= 2
         /\ rd \in 0 .. RingSize - 1 /\ wr \in 0 .. RingSize
         /\ Begin(RingSize, wr) \in 0 .. RingSize - 1
         /\ ibuf \in [0 .. RingSize - 1 -> Nat]
         /\ K!Held = Holds(RingSize, rd, Begin(RingSize, wr), ibuf)
         /\ K!Count = (Begin(RingSize, wr) - rd) % RingSize
<1>1. /\ RingSize \in Nat /\ RingSize >= 2
      /\ rd \in 0 .. RingSize - 1 /\ wr \in 0 .. RingSize
  BY DEF K!RingAssumption, KeyType, InTurn, K!TypeOK, K!Slots
<1>2. ibuf \in [0 .. RingSize - 1 -> Nat]
  BY DEF KeyType, K!TypeOK, K!Slots, K!RingAssumption
<1>3. /\ Begin(RingSize, wr) \in 0 .. RingSize - 1
      /\ K!Held = Holds(RingSize, rd, Begin(RingSize, wr), ibuf)
      /\ K!Count = (Begin(RingSize, wr) - rd) % RingSize
  BY <1>1, <1>2, HeldForm DEF K!Held, K!Count, K!Slots
<1> QED
  BY <1>1, <1>2, <1>3

LEMMA KeySequences ==
  ASSUME K!RingAssumption, KeyType, InTurn
  PROVE  /\ K!Held \in Seq(Nat) /\ Len(K!Held) = K!Count /\ K!Count \in 0 .. RingSize - 1
         /\ Waiting \in Seq(Nat) /\ got \in Seq(Nat) /\ accepted \in Seq(Nat) /\ Newest \in Nat
<1>1. K!Held \in Seq(Nat)
  BY KeyRing, HoldsType
<1>2. Len(K!Held) = K!Count
  BY KeyRing, HoldsLength
<1>3. K!Count \in 0 .. RingSize - 1
  BY KeyRing, Distance
<1>4. Waiting \in Seq(Nat)
  BY <1>1 DEF Waiting
<1>5. got \in Seq(Nat) /\ accepted \in Seq(Nat)
  BY DEF KeyType, K!TypeOK, K!RingAssumption
<1>6. Newest \in Nat
  BY DEF KeyType, K!TypeOK, K!RingAssumption, Newest, Coming
<1> QED
  BY <1>1, <1>2, <1>3, <1>4, <1>5, <1>6

-----------------------------------------------------------------------------
LEMMA KeyTypeStep ==
  ASSUME K!RingAssumption, KeyType, [K!Next]_(K!vars) PROVE KeyType'
<1>1. /\ RingSize \in 2 .. 128 /\ MaxKeys \in Nat /\ 0 \in 0 .. MaxKeys
      /\ 0 \in K!Slots /\ 0 \in 0 .. 255
      /\ \A i \in K!Slots : K!Up(i) \in K!Slots /\ K!Down(i) \in K!Slots /\ i \in 0 .. 255
                           /\ i + 1 \in 0 .. 255
  BY DEF K!RingAssumption, K!Slots, K!Up, K!Down
<1>2. CASE UNCHANGED K!vars
  BY <1>2 DEF KeyType, K!TypeOK, Coming, K!vars, K!shared, K!window, K!clock
<1>3. CASE K!Press
  BY <1>1, <1>3 DEF KeyType, K!TypeOK, Coming, K!Press, K!shared, K!clock
<1>4. CASE K!CheckFull
  BY <1>4 DEF KeyType, K!TypeOK, Coming, K!CheckFull, K!shared, K!clock
<1>5. CASE K!StoreKey
  <2>1. slot' \in K!Slots /\ ibuf' \in [K!Slots -> 0 .. MaxKeys]
    BY <1>5 DEF KeyType, K!TypeOK, K!StoreKey
  <2> QED
    BY <1>5, <2>1 DEF KeyType, K!TypeOK, Coming, K!StoreKey, K!clock
<1>6. CASE K!Advance
  <2>1. wr' \in 0 .. 255 /\ ui' \in {"test", "announce"}
    <3>1. slot \in K!Slots
      BY DEF KeyType, K!TypeOK
    <3>2. slot + 1 \in 0 .. 255 /\ K!Up(slot) \in 0 .. 255
      BY <1>1, <3>1
    <3> QED
      BY <1>6, <3>2 DEF K!Advance
  <2>2. accepted' \in Seq(1 .. MaxKeys)
    BY <1>1, <1>6 DEF KeyType, K!TypeOK, Coming, K!Advance
  <2>3. race' \in BOOLEAN
    BY <1>6 DEF K!Advance, KeyType, K!TypeOK
  <2> QED
    BY <1>6, <2>1, <2>2, <2>3 DEF KeyType, K!TypeOK, Coming, K!Advance, K!clock
<1>7. CASE K!WrapTest
  BY <1>7 DEF KeyType, K!TypeOK, Coming, K!WrapTest, K!shared, K!clock
<1>8. CASE K!WrapStore
  <2>1. wr' \in 0 .. 255
    BY <1>1, <1>8 DEF KeyType, K!TypeOK, K!WrapStore
  <2> QED
    BY <1>8, <2>1 DEF KeyType, K!TypeOK, Coming, K!WrapStore, K!clock
<1>9. CASE K!Announce
  BY <1>9 DEF KeyType, K!TypeOK, Coming, K!Announce, K!clock
<1>10. CASE K!Poll
  BY <1>10 DEF KeyType, K!TypeOK, Coming, K!Poll, K!SeesWr, K!window
<1>11. CASE K!Interrupted
  BY <1>11 DEF KeyType, K!TypeOK, Coming, K!Interrupted, K!shared, K!window
<1>12. CASE K!Fetch
  BY <1>12 DEF KeyType, K!TypeOK, Coming, K!Fetch, K!shared, K!window
<1>13. CASE K!Take
  <2>1. rd' \in K!Slots /\ clk' \in {"compare", "idle"}
    BY <1>1, <1>13 DEF KeyType, K!TypeOK, K!Take
  <2>2. got' \in Seq(1 .. MaxKeys)
    <3>1. al # 0 => al \in 1 .. MaxKeys
      BY <1>1 DEF KeyType, K!TypeOK
    <3>2. got' = got \/ (al # 0 /\ got' = Append(got, al))
      BY <1>13 DEF K!Take
    <3>3. got \in Seq(1 .. MaxKeys)
      BY DEF KeyType, K!TypeOK
    <3>4. ASSUME al # 0 PROVE Append(got, al) \in Seq(1 .. MaxKeys)
      BY <3>1, <3>3, <3>4
    <3> QED
      BY <3>2, <3>3, <3>4
  <2>3. race' \in BOOLEAN
    BY <1>13 DEF K!Take, K!SeesWr, KeyType, K!TypeOK
  <2> QED
    BY <1>13, <2>1, <2>2, <2>3 DEF KeyType, K!TypeOK, Coming, K!Take, K!window
<1>14. CASE K!Compare
  BY <1>14 DEF KeyType, K!TypeOK, Coming, K!Compare, K!SeesWr, K!shared, K!window
<1>15. CASE K!Settle
  BY <1>15 DEF KeyType, K!TypeOK, Coming, K!Settle, K!window
<1>16. CASE K!PlaceIndex
  BY <1>1, <1>16 DEF KeyType, K!TypeOK, Coming, K!PlaceIndex, K!window
<1>17. CASE K!PlaceByte
  BY <1>1, <1>17 DEF KeyType, K!TypeOK, Coming, K!PlaceByte, K!window
<1>18. CASE K!ClearBuf
  <2>1. race' \in BOOLEAN
    BY <1>18 DEF K!ClearBuf, KeyType, K!TypeOK
  <2>2. rd' \in K!Slots /\ wr' \in 0 .. 255 /\ clears' \in Nat
    BY <1>1, <1>18 DEF K!ClearBuf, KeyType
  <2> QED
    BY <1>18, <2>1, <2>2 DEF KeyType, K!TypeOK, Coming, K!ClearBuf, K!window
<1> QED
  BY <1>2, <1>3, <1>4, <1>5, <1>6, <1>7, <1>8, <1>9, <1>10, <1>11, <1>12, <1>13, <1>14,
     <1>15, <1>16, <1>17, <1>18 DEF K!Next, K!KeyHit, K!Guest

-----------------------------------------------------------------------------
(* A step that leaves the ring alone leaves what it holds.                 *)
LEMMA SameHeld ==
  ASSUME UNCHANGED <<rd, wr, ibuf>>, clk' = "place" <=> clk = "place"
  PROVE  UNCHANGED <<K!Held, K!Count, Waiting>>
BY DEF K!Held, K!Count, Waiting

(* Steps of key_hit and of the guest that leave the ring alone.            *)
LEMMA QuietStep ==
  ASSUME K!RingAssumption, KeyInv, KeyType', ~race',
         \/ K!Press \/ K!CheckFull \/ K!WrapTest \/ K!Announce
         \/ K!Poll \/ K!Interrupted \/ K!Fetch \/ K!Compare \/ K!Settle
  PROVE  InTurn' /\ (places' = 0 /\ clears' = 0 => Kept')
<1>1. /\ UNCHANGED <<rd, wr, ibuf, slot, accepted, got, places, clears>>
      /\ clk' = "place" <=> clk = "place"
      /\ ~race
      /\ clk' = "take" /\ rd # wr => al' = ibuf[rd]
  <2>1. UNCHANGED <<rd, wr, ibuf, slot, accepted, got, places, clears>> /\ ~race
    <3>1. CASE K!Press
      BY <3>1 DEF K!Press, K!shared, K!window, K!clock
    <3>2. CASE K!CheckFull
      BY <3>2 DEF K!CheckFull, K!shared, K!window, K!clock
    <3>3. CASE K!WrapTest
      BY <3>3 DEF K!WrapTest, K!shared, K!window, K!clock
    <3>4. CASE K!Announce
      BY <3>4 DEF K!Announce, K!shared, K!window, K!clock
    <3>5. CASE K!Poll
      BY <3>5 DEF K!Poll, K!shared, K!window, K!clock, K!SeesWr
    <3>6. CASE K!Interrupted
      BY <3>6 DEF K!Interrupted, K!shared, K!window, K!clock
    <3>7. CASE K!Fetch
      BY <3>7 DEF K!Fetch, K!shared, K!window, K!clock
    <3>8. CASE K!Compare
      BY <3>8 DEF K!Compare, K!shared, K!window, K!clock, K!SeesWr
    <3>9. CASE K!Settle
      BY <3>9 DEF K!Settle, K!shared, K!window, K!clock
    <3> QED
      BY <3>1, <3>2, <3>3, <3>4, <3>5, <3>6, <3>7, <3>8, <3>9
  <2>2. clk' = "place" <=> clk = "place"
    BY DEF K!Press, K!CheckFull, K!WrapTest, K!Announce, K!Poll, K!Interrupted, K!Fetch,
         K!Compare, K!Settle, K!SeesWr, K!shared, K!window, K!clock
  <2>3. clk' = "take" => (clk = "take" /\ al' = al) \/ al' = ibuf[rd]
    BY DEF K!Press, K!CheckFull, K!WrapTest, K!Announce, K!Poll, K!Interrupted, K!Fetch,
         K!Compare, K!Settle, K!SeesWr, K!shared, K!window, K!clock
  <2>4. clk = "take" /\ rd # wr => al = ibuf[rd]
    BY <2>1 DEF KeyInv, InTurn
  <2> QED
    BY <2>1, <2>2, <2>3, <2>4
<1>2. UNCHANGED <<K!Held, K!Count, Waiting>>
  BY <1>1, SameHeld
<1>3. /\ InTurn /\ KeyType
      /\ wr \in K!Slots \/ (wr = RingSize /\ ui' \in {"test", "sub"})
      /\ ui' = "sub" => wr = RingSize
      /\ ui' = "inc" => ui = "inc" /\ pressed' = pressed
      /\ ui' = "store" => ui = "store" \/ (ui = "check" /\ wr # K!Down(rd))
  <2>1. InTurn /\ KeyType
    BY <1>1 DEF KeyInv
  <2>2. ui = "test" /\ wr \in K!Slots => ~(wr > RingSize - 1)
    BY DEF K!Slots, K!RingAssumption
  <2>3. wr = RingSize => wr > RingSize - 1
    BY DEF K!RingAssumption
  <2> QED
    BY <2>1, <2>2, <2>3
       DEF InTurn, K!Press, K!CheckFull, K!WrapTest, K!Announce, K!Poll, K!Interrupted,
           K!Fetch, K!Compare, K!Settle, K!shared, K!window, K!clock
<1>4. Ordered(Waiting, got, Newest')
  <2>1. Newest' \in Nat /\ Newest <= Newest'
    <3>1. pressed \in Nat /\ pressed' \in Nat
      BY DEF KeyInv, KeyType, K!TypeOK, K!RingAssumption
    <3>2. \/ K!Press
          \/ pressed' = pressed /\ (Coming' => Coming)
      BY DEF Coming, K!Press, K!CheckFull, K!WrapTest, K!Announce, K!Poll, K!Interrupted,
         K!Fetch, K!Compare, K!Settle, K!shared, K!window, K!clock
    <3>3. (Coming => pressed > 0) /\ (Coming' => pressed' > 0)
      BY DEF KeyInv, KeyType
    <3>4. CASE K!Press
      BY <3>1, <3>4 DEF K!Press, Newest, Coming
    <3>5. CASE pressed' = pressed /\ (Coming' => Coming)
      BY <3>1, <3>3, <3>5 DEF Newest
    <3> QED
      BY <3>2, <3>4, <3>5
  <2> QED
    BY <1>3, <2>1, KeySequences, OrderedLater DEF InTurn
<1>5. InTurn'
  BY <1>1, <1>2, <1>3, <1>4 DEF InTurn
<1>6. ASSUME places' = 0, clears' = 0 PROVE Kept'
  <2>1. Kept
    BY <1>1, <1>6 DEF KeyInv
  <2>2. ui = "check" /\ wr # K!Down(rd) => K!Count # RingSize - 1
    <3> SUFFICES ASSUME ui = "check", wr # K!Down(rd) PROVE K!Count # RingSize - 1
      OBVIOUS
    <3>1. wr \in 0 .. RingSize - 1
      BY <1>3 DEF InTurn, K!Slots
    <3>2. RingSize \in Nat /\ RingSize >= 2 /\ rd \in 0 .. RingSize - 1
      BY <1>3, KeyRing
    <3>3. K!Count = IF wr >= rd THEN wr - rd ELSE wr - rd + RingSize
      BY <3>1, <3>2, Distance DEF K!Count
    <3> QED
      BY <3>1, <3>2, <3>3 DEF K!Down
  <2> QED
    BY <1>1, <1>2, <1>3, <2>1, <2>2 DEF Kept
<1> QED
  BY <1>5, <1>6

(* The key goes into a slot that holds nothing.                            *)
LEMMA StoreKeyStep ==
  ASSUME K!RingAssumption, KeyInv, KeyType', ~race', K!StoreKey
  PROVE  InTurn' /\ (places' = 0 /\ clears' = 0 => Kept')
<1>1. InTurn /\ KeyType /\ ~race
  BY DEF KeyInv, K!StoreKey
<1>2. /\ RingSize \in Nat /\ RingSize >= 2 /\ rd \in 0 .. RingSize - 1
      /\ wr \in 0 .. RingSize - 1 /\ ibuf \in [0 .. RingSize - 1 -> Nat]
  BY <1>1, KeyRing DEF InTurn, K!StoreKey, K!Slots
<1>3. slot' = wr /\ ibuf' = [ibuf EXCEPT ![wr] = pressed] /\ ibuf'[wr] = pressed
  BY <1>2 DEF K!StoreKey, K!Slots
<1>4. K!Count' = K!Count
  BY DEF K!StoreKey, K!Count, K!clock
<1>5. K!Held' = K!Held
  <2>1. ASSUME NEW i \in 1 .. K!Count
        PROVE  ibuf'[(rd + i - 1) % RingSize] = ibuf[(rd + i - 1) % RingSize]
    <3>1. /\ (rd + i - 1) % RingSize \in 0 .. RingSize - 1
          /\ (rd + i - 1) % RingSize # wr
      BY <1>2, HeldSlot DEF K!Count
    <3> QED
      BY <1>2, <1>3, <3>1
  <2> QED
    BY <1>4, <2>1 DEF K!Held, K!StoreKey, K!clock
<1>6. Waiting' = Waiting /\ Newest' = Newest /\ got' = got
  BY <1>5 DEF Waiting, Newest, Coming, K!StoreKey, K!clock
<1>7. clk' = "take" /\ rd' # wr' => al' = ibuf'[rd']
  BY <1>1, <1>2, <1>3 DEF InTurn, K!StoreKey, K!clock
<1>8. InTurn'
  BY <1>1, <1>2, <1>3, <1>6, <1>7 DEF InTurn, K!StoreKey, K!Slots
<1>9. ASSUME places' = 0, clears' = 0 PROVE Kept'
  <2>1. Kept
    BY <1>1, <1>9 DEF KeyInv, K!StoreKey, K!clock
  <2> QED
    BY <1>3, <1>4, <1>5, <2>1 DEF Kept, K!StoreKey, K!clock
<1> QED
  BY <1>8, <1>9

(* The new index shows the key behind all others, or, in a ring that a     *)
(* response has overrun, an empty ring.                                    *)
LEMMA AdvanceKeyStep ==
  ASSUME K!RingAssumption, KeyInv, KeyType', ~race', K!Advance
  PROVE  InTurn' /\ (places' = 0 /\ clears' = 0 => Kept')
<1> DEFINE R == RingSize
           x == ibuf[wr]
<1>1. InTurn /\ KeyType /\ ~race /\ ~(clk = "take" /\ rd = wr)
  BY DEF KeyInv, K!Advance
<1>2. /\ R \in Nat /\ R >= 2 /\ rd \in 0 .. R - 1
      /\ ibuf \in [0 .. R - 1 -> Nat] /\ slot = wr /\ x \in {pressed, 0}
  BY <1>1, KeyRing DEF InTurn, K!Advance
<1>3. wr \in 0 .. R - 1
  BY <1>1, <1>2 DEF KeyType, K!TypeOK, K!Slots
<1>4. /\ Begin(R, wr) = wr /\ Begin(R, wr') = Beyond(R, wr) /\ Beyond(R, wr) \in 0 .. R - 1
      /\ wr' \in 0 .. R /\ (wr' = R => ui' = "test") /\ ui' \in {"test", "announce"}
  <2>1. Begin(R, wr) = wr /\ Beyond(R, wr) \in 0 .. R - 1
    BY <1>2, <1>3 DEF Begin, Beyond
  <2>2. CASE wr' = slot + 1 /\ ui' = "test"
    BY <1>2, <1>3, <2>1, <2>2 DEF Begin, Beyond
  <2>3. CASE wr' = K!Up(slot) /\ ui' = "announce"
    <3>1. wr' = Beyond(R, wr)
      BY <1>2, <2>3 DEF K!Up, Beyond
    <3> QED
      BY <1>2, <2>1, <2>3, <3>1 DEF Begin
  <2> QED
    BY <2>1, <2>2, <2>3 DEF K!Advance
<1>5. UNCHANGED <<rd, ibuf, slot, pressed, clk, al, got, places, clears>>
  BY DEF K!Advance, K!clock
<1>6. /\ K!Held = Holds(R, rd, wr, ibuf) /\ K!Count = (wr - rd) % R
      /\ K!Held \in Seq(Nat) /\ Waiting \in Seq(Nat) /\ got \in Seq(Nat) /\ Newest \in Nat
      /\ accepted \in Seq(Nat)
  BY <1>1, <1>4, KeyRing, KeySequences
<1>7. /\ K!Held' = Holds(R, rd, Beyond(R, wr), ibuf)
      /\ K!Count' = (Beyond(R, wr) - rd) % R
  <2>1. rd \in K!Slots /\ ibuf \in [K!Slots -> Nat]
    BY <1>2 DEF K!Slots
  <2> QED
    BY <1>4, <1>5, <2>1, HeldForm DEF K!Held, K!Count
<1>8. Newest' = Newest + 1 /\ Newest = pressed - 1 /\ pressed \in Nat
  BY <1>4, <1>5 DEF Newest, Coming, K!Advance, KeyInv, KeyType, K!TypeOK, K!RingAssumption
<1>9. x \in {0, Newest + 1} /\ x \in Nat
  BY <1>2, <1>3, <1>8
<1> HIDE DEF x
<1>10. Ordered(Waiting', got', Newest')
  <2>1. CASE K!Count = R - 1
    <3>1. Beyond(R, wr) = rd
      <4>1. K!Count = IF wr >= rd THEN wr - rd ELSE wr - rd + R
        BY <1>2, <1>3, <1>6, Distance
      <4> QED
        BY <1>2, <1>3, <2>1, <4>1 DEF Beyond
    <3>2. K!Held' = <<>>
      BY <1>2, <1>7, <3>1, HoldsNothing
    <3>3. Waiting' = <<>>
      BY <3>2 DEF Waiting
    <3>4. Ordered(Waiting, got, Newest')
      BY <1>1, <1>6, <1>8, OrderedLater DEF InTurn
    <3> QED
      BY <1>5, <1>6, <1>8, <3>3, <3>4, OrderedEmpty
  <2>2. CASE K!Count # R - 1
    <3>1. K!Held' = Append(K!Held, x)
      BY <1>2, <1>3, <1>6, <1>7, <2>2, HoldsAppend DEF x
    <3>2. CASE clk # "place"
      <4>1. Waiting' = Append(Waiting, x)
        BY <1>5, <3>1, <3>2 DEF Waiting
      <4> QED
        BY <1>1, <1>5, <1>6, <1>8, <1>9, <4>1, OrderedAppend DEF InTurn
    <3>3. CASE clk = "place" /\ K!Held # <<>>
      <4>1. K!Held' # <<>> /\ Tail(Append(K!Held, x)) = Append(Tail(K!Held), x)
        <5>1. Append(K!Held, x) # <<>>
          BY <1>6, <1>9
        <5>2. Tail(Append(K!Held, x)) = Append(Tail(K!Held), x)
          BY <1>6, <3>3, HeadTailAppend
        <5> QED
          BY <3>1, <5>1, <5>2
      <4>2. Waiting' = Append(Waiting, x)
        BY <1>5, <3>1, <3>3, <4>1 DEF Waiting
      <4> QED
        BY <1>1, <1>5, <1>6, <1>8, <1>9, <4>2, OrderedAppend DEF InTurn
    <3>4. CASE clk = "place" /\ K!Held = <<>>
      <4>1. K!Held' # <<>> /\ Tail(K!Held') = <<>>
        BY <1>6, <1>9, <3>1, <3>4
      <4>2. Waiting' = <<>> /\ Waiting = <<>>
        BY <1>5, <3>4, <4>1 DEF Waiting
      <4>3. Ordered(Waiting, got, Newest')
        BY <1>1, <1>6, <1>8, OrderedLater DEF InTurn
      <4> QED
        BY <1>5, <4>2, <4>3
    <3> QED
      BY <3>2, <3>3, <3>4
  <2> QED
    BY <2>1, <2>2
<1>11. InTurn'
  <2>1. wr' \in K!Slots \/ (wr' = R /\ ui' \in {"test", "sub"})
    BY <1>2, <1>4 DEF K!Slots
  <2>2. clk = "take" => al = ibuf[rd]
    BY <1>1 DEF InTurn
  <2> QED
    BY <1>4, <1>5, <1>10, <2>1, <2>2 DEF InTurn
<1>12. ASSUME places' = 0, clears' = 0 PROVE Kept'
  <2>1. Kept
    BY <1>1, <1>5, <1>12 DEF KeyInv
  <2>2. x = pressed /\ K!Count # R - 1 /\ pressed # 0
    BY <1>2, <2>1 DEF Kept, K!Advance, x, KeyInv, KeyType, Coming
  <2>3. K!Held' = Append(K!Held, pressed)
    BY <1>2, <1>3, <1>6, <1>7, <2>2, HoldsAppend DEF x
  <2>4. \A i \in 1 .. Len(K!Held') : K!Held'[i] # 0
    <3>1. \A i \in 1 .. Len(Append(K!Held, pressed)) : Append(K!Held, pressed)[i] # 0
      <4> TAKE i \in 1 .. Len(Append(K!Held, pressed))
      <4>1. CASE i = Len(K!Held) + 1
        BY <1>6, <1>8, <2>2, <4>1
      <4>2. CASE i \in 1 .. Len(K!Held)
        BY <1>6, <1>8, <2>1, <4>2 DEF Kept
      <4> QED
        BY <1>6, <1>8, <4>1, <4>2
    <3> QED
      BY <2>3, <3>1
  <2>5. got \o Append(K!Held, pressed) = Append(got \o K!Held, pressed)
    BY <1>6, <1>8
  <2>6. got' \o K!Held' = accepted'
    BY <1>5, <2>1, <2>3, <2>5 DEF Kept, K!Advance
  <2> QED
    BY <1>4, <1>5, <2>1, <2>4, <2>6 DEF Kept
<1> QED
  BY <1>11, <1>12

(* Wrapping the index changes nothing of what is held.                     *)
LEMMA WrapStoreStep ==
  ASSUME K!RingAssumption, KeyInv, KeyType', ~race', K!WrapStore
  PROVE  InTurn' /\ (places' = 0 /\ clears' = 0 => Kept')
<1>1. InTurn /\ KeyType /\ ~race /\ wr = RingSize
  BY DEF KeyInv, InTurn, K!WrapStore
<1>2. /\ RingSize \in Nat /\ RingSize >= 2 /\ rd \in 0 .. RingSize - 1
      /\ ibuf \in [0 .. RingSize - 1 -> Nat]
  BY <1>1, KeyRing
<1>3. wr' = 0 /\ wr' \in 0 .. RingSize - 1 /\ Begin(RingSize, wr) = 0
  BY <1>1, <1>2 DEF K!WrapStore, Begin
<1>4. /\ UNCHANGED <<rd, ibuf, slot, pressed, accepted, clk, al, got, places, clears>>
      /\ ui' = "announce" /\ ui = "sub"
  BY DEF K!WrapStore, K!clock
<1>5. K!Count' = K!Count
  BY <1>1, <1>3, <1>4, KeyRing DEF K!Count
<1>6. K!Held' = K!Held
  BY <1>4, <1>5 DEF K!Held
<1>7. Waiting' = Waiting /\ Newest' = Newest
  BY <1>4, <1>6 DEF Waiting, Newest, Coming
<1>8. InTurn'
  <2>1. clk = "take" /\ rd # wr' => al = ibuf[rd]
    BY <1>1, <1>2 DEF InTurn
  <2>2. wr' \in K!Slots
    BY <1>3 DEF K!Slots
  <2> QED
    BY <1>1, <1>4, <1>7, <2>1, <2>2 DEF InTurn
<1>9. ASSUME places' = 0, clears' = 0 PROVE Kept'
  <2>1. Kept
    BY <1>1, <1>4, <1>9 DEF KeyInv
  <2> QED
    BY <1>4, <1>6, <2>1 DEF Kept
<1> QED
  BY <1>8, <1>9

(* A read takes the first byte held; a byte that is a key is the next one. *)
LEMMA TakeStep ==
  ASSUME K!RingAssumption, KeyInv, KeyType', ~race', K!Take
  PROVE  InTurn' /\ (places' = 0 /\ clears' = 0 => Kept')
<1> DEFINE R == RingSize
<1>1. InTurn /\ KeyType /\ ~race /\ wr \in K!Slots /\ clk = "take"
  BY DEF KeyInv, K!Take, K!SeesWr
<1>2. /\ R \in Nat /\ R >= 2 /\ rd \in 0 .. R - 1 /\ wr \in 0 .. R - 1
      /\ ibuf \in [0 .. R - 1 -> Nat]
  BY <1>1, KeyRing DEF K!Slots
<1>3. UNCHANGED <<wr, ibuf, ui, slot, pressed, accepted, places, clears>> /\ Newest' = Newest
  BY DEF K!Take, K!window, Newest, Coming
<1>4. CASE rd = wr
  <2>1. UNCHANGED <<rd, got>> /\ clk' = "idle"
    BY <1>4 DEF K!Take
  <2>2. UNCHANGED <<K!Held, K!Count, Waiting>>
    BY <1>1, <1>3, <2>1, SameHeld
  <2>3. InTurn'
    BY <1>1, <1>3, <2>1, <2>2 DEF InTurn
  <2>4. ASSUME places' = 0, clears' = 0 PROVE Kept'
    BY <1>1, <1>3, <2>1, <2>2, <2>4 DEF KeyInv, Kept
  <2> QED
    BY <2>3, <2>4
<1>5. CASE rd # wr
  <2>1. /\ rd' = Beyond(R, rd) /\ clk' = "compare"
        /\ got' = IF al = 0 THEN got ELSE Append(got, al)
    BY <1>1, <1>5 DEF K!Take, K!Up, Beyond
  <2>2. Beyond(R, rd) \in 0 .. R - 1 /\ al = ibuf[rd]
    BY <1>1, <1>2, <1>5 DEF Beyond, InTurn
  <2>3. /\ K!Held = Holds(R, rd, wr, ibuf) /\ K!Held' = Holds(R, Beyond(R, rd), wr, ibuf)
        /\ K!Count = (wr - rd) % R /\ K!Count' = (wr - Beyond(R, rd)) % R
    BY <1>3, <2>1 DEF K!Held, K!Count, Holds
  <2>4. K!Held # <<>> /\ Head(K!Held) = al /\ K!Held' = Tail(K!Held)
    <3>1. /\ Holds(R, rd, wr, ibuf) # <<>>
          /\ Head(Holds(R, rd, wr, ibuf)) = ibuf[rd]
      BY <1>2, <1>5, HoldsTail
    <3>2. Holds(R, Beyond(R, rd), wr, ibuf) = Tail(Holds(R, rd, wr, ibuf))
      BY <1>2, <1>5, HoldsTail
    <3> QED
      BY <2>2, <2>3, <3>1, <3>2
  <2>5. Waiting = K!Held /\ Waiting' = Tail(Waiting)
    BY <1>1, <2>1, <2>4 DEF Waiting
  <2>6. /\ Waiting \in Seq(Nat) /\ got \in Seq(Nat) /\ Newest \in Nat /\ accepted \in Seq(Nat)
    BY <1>1, KeySequences
  <2>7. Ordered(Waiting', got', Newest')
    BY <1>1, <1>3, <2>1, <2>4, <2>5, <2>6, OrderedTake DEF InTurn
  <2>8. InTurn'
    BY <1>1, <1>3, <2>1, <2>7 DEF InTurn
  <2>9. ASSUME places' = 0, clears' = 0 PROVE Kept'
    <3>1. Kept
      BY <1>1, <1>3, <2>9 DEF KeyInv
    <3>2. /\ Len(K!Held) \in Nat \ {0} /\ Len(K!Held') = Len(K!Held) - 1
          /\ K!Held' \in Seq(Nat)
          /\ \A i \in 1 .. Len(K!Held') : K!Held'[i] = K!Held[i + 1]
      BY <2>4, <2>5, <2>6, HeadTailProperties
    <3>3. al # 0 /\ al \in Nat
      <4>1. Head(K!Held) = K!Held[1] /\ 1 \in 1 .. Len(K!Held)
        BY <2>5, <2>6, <3>2
      <4> QED
        BY <1>2, <2>2, <2>4, <3>1, <4>1 DEF Kept
    <3>4. \A i \in 1 .. Len(K!Held') : K!Held'[i] # 0
      <4>1. \A i \in 1 .. Len(K!Held') : i + 1 \in 1 .. Len(K!Held)
        BY <3>2
      <4> QED
        BY <3>1, <3>2, <4>1 DEF Kept
    <3>5. got' \o K!Held' = got \o K!Held
      <4>1. got' = Append(got, Head(K!Held))
        BY <2>1, <2>4, <3>3
      <4>2. Append(got, Head(K!Held)) \o Tail(K!Held) = got \o K!Held
        BY <2>4, <2>5, <2>6, <3>3
      <4> QED
        BY <2>4, <4>1, <4>2
    <3>6. K!Count' # R - 1
      <4>1. /\ K!Count = IF wr >= rd THEN wr - rd ELSE wr - rd + R
            /\ K!Count' = IF wr >= Beyond(R, rd) THEN wr - Beyond(R, rd)
                          ELSE wr - Beyond(R, rd) + R
        BY <1>2, <2>2, <2>3, Distance
      <4> QED
        BY <1>2, <1>5, <2>2, <4>1 DEF Beyond
    <3> QED
      BY <1>3, <2>1, <3>1, <3>4, <3>5, <3>6 DEF Kept
  <2> QED
    BY <2>8, <2>9
<1> QED
  BY <1>4, <1>5

(* A response is put before what is held, or overruns the whole ring.      *)
LEMMA PlaceIndexStep ==
  ASSUME K!RingAssumption, KeyInv, KeyType', ~race', K!PlaceIndex
  PROVE  InTurn' /\ (places' = 0 /\ clears' = 0 => Kept')
<1> DEFINE R == RingSize
           h == Begin(R, wr)
           d == K!Down(rd)
<1>1. InTurn /\ KeyType /\ ~race /\ clk = "idle"
  BY DEF KeyInv, K!PlaceIndex
<1>2. /\ R \in Nat /\ R >= 2 /\ rd \in 0 .. R - 1 /\ h \in 0 .. R - 1 /\ wr \in 0 .. R
      /\ ibuf \in [0 .. R - 1 -> Nat]
  BY <1>1, KeyRing
<1>3. d \in 0 .. R - 1 /\ Beyond(R, d) = rd
  BY <1>2 DEF K!Down, Beyond
<1>4. /\ UNCHANGED <<wr, ibuf, ui, slot, pressed, accepted, got, clears>>
      /\ rd' = d /\ clk' = "place" /\ Newest' = Newest
      /\ places' # 0
  BY <1>1 DEF K!PlaceIndex, K!window, Newest, Coming, KeyType
<1>5. K!Held = Holds(R, rd, h, ibuf)
  BY <1>1, KeyRing
<1>6. K!Held' = Holds(R, d, h, ibuf)
  <2>1. d \in K!Slots /\ ibuf \in [K!Slots -> Nat]
    BY <1>2, <1>3 DEF K!Slots
  <2>2. K!Held' = [i \in 1 .. ((wr - d) % R) |-> ibuf[(d + i - 1) % R]]
    BY <1>4 DEF K!Held, K!Count
  <2>3. [i \in 1 .. ((wr - d) % R) |-> ibuf[(d + i - 1) % R]] = Holds(R, d, h, ibuf)
    BY <1>2, <2>1, HeldForm
  <2> QED
    BY <2>2, <2>3
<1>7. Waiting = K!Held
  BY <1>1 DEF Waiting
<1>8. Ordered(Waiting', got', Newest')
  <2>1. CASE d = h
    <3>1. K!Held' = <<>>
      BY <1>2, <1>6, <2>1, HoldsNothing
    <3>2. Waiting' = <<>>
      BY <3>1 DEF Waiting
    <3> QED
      BY <1>1, <1>4, <3>2, KeySequences, OrderedEmpty DEF InTurn
  <2>2. CASE d # h
    <3>1. Holds(R, d, h, ibuf) # <<>> /\ Holds(R, Beyond(R, d), h, ibuf) = Tail(Holds(R, d, h, ibuf))
      BY <1>2, <1>3, <2>2, HoldsTail
    <3>2. Waiting' = K!Held
      BY <1>3, <1>4, <1>5, <1>6, <3>1 DEF Waiting
    <3> QED
      BY <1>1, <1>4, <1>7, <3>2 DEF InTurn
  <2> QED
    BY <2>1, <2>2
<1>9. InTurn'
  BY <1>1, <1>4, <1>8 DEF InTurn
<1> QED
  BY <1>4, <1>9

(* The response itself is no key.                                          *)
LEMMA PlaceByteStep ==
  ASSUME K!RingAssumption, KeyInv, KeyType', ~race', K!PlaceByte
  PROVE  InTurn' /\ (places' = 0 /\ clears' = 0 => Kept')
<1> DEFINE R == RingSize
<1>1. InTurn /\ KeyType /\ ~race /\ clk = "place"
  BY DEF KeyInv, K!PlaceByte
<1>2. /\ R \in Nat /\ R >= 2 /\ rd \in 0 .. R - 1 /\ wr \in 0 .. R
      /\ ibuf \in [0 .. R - 1 -> Nat]
  BY <1>1, KeyRing
<1>3. /\ UNCHANGED <<rd, wr, ui, slot, pressed, accepted, got, places, clears>>
      /\ clk' = "idle" /\ ibuf' = [ibuf EXCEPT ![rd] = 0] /\ Newest' = Newest
  BY DEF K!PlaceByte, K!window, Newest, Coming
<1>4. /\ K!Held \in Seq(Nat) /\ Len(K!Held) = K!Count /\ K!Count \in 0 .. R - 1
      /\ Waiting \in Seq(Nat) /\ got \in Seq(Nat) /\ Newest \in Nat
  BY <1>1, KeySequences
<1>5. K!Count' = K!Count
  BY <1>3 DEF K!Count
<1>6. /\ ibuf' \in [0 .. R - 1 -> Nat] /\ ibuf'[rd] = 0
      /\ \A s \in 0 .. R - 1 : s # rd => ibuf'[s] = ibuf[s]
  BY <1>2, <1>3
<1>7. ASSUME NEW i \in 1 .. K!Count
      PROVE  K!Held'[i] = IF i = 1 THEN 0 ELSE K!Held[i]
  <2>1. i \in 1 .. R - 1
    BY <1>2, <1>4
  <2>2. /\ (rd + i - 1) % R = IF rd + i - 1 < R THEN rd + i - 1 ELSE rd + i - 1 - R
        /\ (rd + i - 1) % R \in 0 .. R - 1
    BY <1>2, <2>1, SlotAfter
  <2>3. (rd + i - 1) % R = rd <=> i = 1
    <3> DEFINE s == (rd + i - 1) % R
    <3>1. s = IF rd + i - 1 < R THEN rd + i - 1 ELSE rd + i - 1 - R
      BY <2>2
    <3> HIDE DEF s
    <3>2. s = rd <=> i = 1
      BY <1>2, <2>1, <3>1
    <3> QED
      BY <3>2 DEF s
  <2>4. K!Held[i] = ibuf[(rd + i - 1) % R] /\ K!Held'[i] = ibuf'[(rd + i - 1) % R]
    BY <1>3, <1>5 DEF K!Held
  <2> QED
    BY <1>6, <2>2, <2>3, <2>4
<1>8. K!Held' \in Seq(Nat) /\ Len(K!Held') = K!Count
  <2>1. K!Held' = [i \in 1 .. K!Count |-> ibuf'[(rd + i - 1) % R]]
    BY <1>3, <1>5 DEF K!Held
  <2>2. \A i \in 1 .. K!Count : ibuf'[(rd + i - 1) % R] \in Nat
    <3> TAKE i \in 1 .. K!Count
    <3>1. i \in 1 .. R - 1
      BY <1>2, <1>4
    <3>2. (rd + i - 1) % R \in 0 .. R - 1
      BY <1>2, <3>1, SlotAfter
    <3> QED
      BY <1>6, <3>2
  <2> QED
    BY <1>4, <2>1, <2>2
<1>9. Waiting' = K!Held'
  BY <1>3 DEF Waiting
<1>10. Ordered(Waiting', got', Newest')
  <2>1. CASE K!Held = <<>>
    <3>1. K!Held' = <<>> /\ Waiting = <<>>
      BY <1>4, <1>8, <2>1 DEF Waiting
    <3> QED
      BY <1>1, <1>3, <1>9, <3>1 DEF InTurn
  <2>2. CASE K!Held # <<>>
    <3>1. Waiting = Tail(K!Held)
      BY <1>1, <2>2 DEF Waiting
    <3>2. /\ Len(Waiting) = Len(K!Held) - 1 /\ Len(K!Held) \in Nat \ {0}
          /\ \A i \in 1 .. Len(Waiting) : Waiting[i] = K!Held[i + 1]
      BY <1>4, <2>2, <3>1, HeadTailProperties
    <3>3. /\ Len(K!Held') = Len(Waiting) + 1 /\ K!Held'[1] = 0
          /\ \A i \in 1 .. Len(Waiting) : K!Held'[i + 1] = Waiting[i]
      <4>1. 1 \in 1 .. K!Count /\ Len(K!Held') = Len(Waiting) + 1
        BY <1>4, <1>8, <3>2
      <4>2. ASSUME NEW i \in 1 .. Len(Waiting) PROVE K!Held'[i + 1] = Waiting[i]
        <5>1. i + 1 \in 1 .. K!Count /\ i + 1 # 1
          BY <1>4, <3>2
        <5>2. K!Held'[i + 1] = K!Held[i + 1]
          BY <1>7, <5>1
        <5> QED
          BY <3>2, <5>2
      <4> QED
        BY <1>7, <4>1, <4>2
    <3>4. Ordered(K!Held', got, Newest)
      BY <1>1, <1>4, <1>8, <3>3, OrderedResponse DEF InTurn
    <3> QED
      BY <1>3, <1>9, <3>4
  <2> QED
    BY <2>1, <2>2
<1>11. InTurn'
  <2>1. ui = "inc" => slot = wr /\ ibuf'[slot] \in {pressed, 0}
    <3> SUFFICES ASSUME ui = "inc" PROVE slot = wr /\ ibuf'[slot] \in {pressed, 0}
      OBVIOUS
    <3>1. slot = wr /\ ibuf[slot] \in {pressed, 0} /\ slot \in 0 .. R - 1
      BY <1>1 DEF InTurn, KeyType, K!TypeOK, K!Slots
    <3> QED
      BY <1>6, <3>1
  <2> QED
    BY <1>1, <1>3, <1>10, <2>1 DEF InTurn
<1>12. ~(places' = 0 /\ clears' = 0)
  BY <1>1, <1>3 DEF KeyInv, Kept
<1> QED
  BY <1>11, <1>12

(* Clearing the ring leaves nothing that could be out of order.            *)
LEMMA ClearBufStep ==
  ASSUME K!RingAssumption, KeyInv, KeyType', ~race', K!ClearBuf
  PROVE  InTurn' /\ (places' = 0 /\ clears' = 0 => Kept')
<1>1. /\ InTurn /\ KeyType /\ ~race /\ clk = "idle" /\ ui \notin {"inc", "sub"}
      /\ UNCHANGED <<ibuf, ui, slot, pressed, accepted, clk, al, got, places>>
      /\ rd' = 0 /\ wr' = 0
  BY DEF KeyInv, K!ClearBuf, K!window
<1>2. 0 \in K!Slots /\ RingSize \in Nat /\ RingSize >= 2
  BY DEF K!RingAssumption, K!Slots
<1>3. K!Count' = 0
  BY <1>1, <1>2 DEF K!Count
<1>4. K!Held' = <<>>
  BY <1>3 DEF K!Held
<1>5. Waiting' = <<>> /\ Newest' = Newest
  BY <1>1, <1>4 DEF Waiting, Newest, Coming
<1>6. Ordered(Waiting', got', Newest')
  BY <1>1, <1>5, KeySequences, OrderedEmpty DEF InTurn
<1>7. InTurn'
  BY <1>1, <1>2, <1>6 DEF InTurn
<1>8. clears' # 0
  BY <1>1 DEF KeyType, K!ClearBuf
<1> QED
  BY <1>7, <1>8

LEMMA InitKeyInv == ASSUME K!RingAssumption, K!Init PROVE KeyInv
<1>1. 0 \in K!Slots /\ RingSize \in Nat /\ RingSize >= 2 /\ MaxKeys \in Nat
      /\ 0 \in 0 .. 255 /\ 0 \in 0 .. MaxKeys
  BY DEF K!RingAssumption, K!Slots
<1>2. KeyType
  <2>1. ibuf \in [K!Slots -> 0 .. MaxKeys]
    BY <1>1 DEF K!Init
  <2>2. accepted \in Seq(1 .. MaxKeys) /\ got \in Seq(1 .. MaxKeys)
    BY DEF K!Init
  <2> QED
    BY <1>1, <2>1, <2>2 DEF K!Init, KeyType, K!TypeOK, Coming
<1>3. K!Count = 0
  BY <1>1 DEF K!Init, K!Count
<1>4. K!Held = <<>> /\ Waiting = <<>> /\ got = <<>> /\ accepted = <<>>
  BY <1>3 DEF K!Init, K!Held, Waiting
<1>5. Ordered(<<>>, <<>>, Newest)
  BY DEF Ordered
<1>6. InTurn
  BY <1>1, <1>4, <1>5 DEF K!Init, InTurn
<1>7. Kept
  BY <1>4 DEF K!Init, Kept
<1> QED
  BY <1>2, <1>6, <1>7 DEF KeyInv

LEMMA KeyStep == ASSUME K!RingAssumption, KeyInv, [K!Next]_(K!vars) PROVE KeyInv'
<1>1. KeyType'
  BY KeyTypeStep DEF KeyInv
<1>2. ASSUME ~race', UNCHANGED K!vars
      PROVE  InTurn' /\ (places' = 0 /\ clears' = 0 => Kept')
  <2>1. UNCHANGED <<rd, wr, ibuf, ui, slot, pressed, accepted, clk, al, got, places, clears, race>>
    BY <1>2 DEF K!vars, K!shared, K!window, K!clock
  <2>2. UNCHANGED <<K!Held, K!Count, Waiting, Newest>>
    BY <2>1, SameHeld DEF Newest, Coming
  <2> QED
    BY <1>2, <2>1, <2>2 DEF KeyInv, InTurn, Kept
<1>3. ASSUME ~race' PROVE InTurn' /\ (places' = 0 /\ clears' = 0 => Kept')
  BY <1>1, <1>2, <1>3, QuietStep, StoreKeyStep, AdvanceKeyStep, WrapStoreStep, TakeStep,
     PlaceIndexStep, PlaceByteStep, ClearBufStep DEF K!Next, K!KeyHit, K!Guest
<1> QED
  BY <1>1, <1>3 DEF KeyInv

LEMMA KeyInvariance == ASSUME K!RingAssumption PROVE K!Spec => []KeyInv
<1>1. K!Init => KeyInv
  BY InitKeyInv
<1>2. KeyInv /\ [K!Next]_(K!vars) => KeyInv'
  BY KeyStep
<1> QED
  BY <1>1, <1>2, PTL DEF K!Spec

(* The ring of scan codes, its indices and what the two threads hold keep  *)
(* their types, the index of key_hit past the end included.                *)
THEOREM KeyRingTypes == ASSUME K!RingAssumption PROVE K!Spec => []K!TypeOK
<1>1. KeyInv => K!TypeOK
  BY DEF KeyInv, KeyType
<1> QED
  BY <1>1, KeyInvariance, PTL

(* Whatever the order of the accesses of key_hit, read_port_60h,           *)
(* place_to_ibuf and clear_buf to the lock-free ring, the guest reads keys *)
(* in the order they were pressed and none twice, before one of the three  *)
(* windows is hit.                                                         *)
THEOREM KeysInOrder == ASSUME K!RingAssumption PROVE K!Spec => []KeysNeverReplayed
<1>1. KeyInv => KeysNeverReplayed
  BY DEF KeyInv, InTurn, Ordered, KeysNeverReplayed, K!KeysNeverReplayed
<1> QED
  BY <1>1, KeyInvariance, PTL

(* Under the same condition key_hit never stores outside of the ring, and  *)
(* without responses and clears every key it accepted was read or is held. *)
THEOREM NoKeyLost == ASSUME K!RingAssumption PROVE K!Spec => []NothingLost
<1>1. KeyInv => NothingLost
  BY DEF KeyInv, KeyType, InTurn, Kept, NothingLost, K!NothingLost
<1> QED
  BY <1>1, KeyInvariance, PTL
=============================================================================
