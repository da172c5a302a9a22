------------------------- MODULE Interrupts_proofs -------------------------
(***************************************************************************)
(* Proofs about Pic8259 for any number of pins and any bytes written;      *)
(* about HostBridge for every choice of the PAM registers that are         *)
(* written, of the values written to them and of the segments followed;    *)
(* and about Transfer for any gates, any length of a program and any       *)
(* nesting of what interrupts and calls it.                                *)
(*                                                                         *)
(* The inductive invariant of the 8259 is                                  *)
(*   IInv == TypeOK /\ NoForgottenRequest /\ NoPhantomIntr:                *)
(* the two directions of "INTR reflects the registers" carry each other    *)
(* through an acknowledge.  That of the bridge adds to RoutesAgree that a  *)
(* register that nobody writes is blank, and that a lock is never without  *)
(* its two effects: the register is read-only and SMRAM is closed.  That   *)
(* of the transfers, TransferInv, is a chain: each program that waits for  *)
(* a return has, on the stack of the one that runs after it, a group of    *)
(* words that leads back to it, with nothing above but words that are not  *)
(* addresses; at most one link crosses from another level to the kernel.   *)
(***************************************************************************)
EXTENDS Interrupts, SequenceTheorems, TLAPS

IInv == TypeOK /\ NoForgottenRequest /\ NoPhantomIntr

(* The initial registers are typed, request nothing and leave INTR low.    *)
LEMMA InitIInv == Init => IInv
<1> SUFFICES ASSUME Init PROVE IInv
  OBVIOUS
<1>1. TypeOK
  <2>1. 0 \in Byte /\ 0 \in 0 .. 15 /\ 0 \in 0 .. 3
    BY DEF Byte
  <2> QED
    BY <2>1 DEF Init, TypeOK
<1>2. ~Pending(irr, ocw1)
  BY DEF Init, Pending, Unmasked
<1> QED
  BY <1>1, <1>2 DEF Init, IInv, NoForgottenRequest, NoPhantomIntr

(* Priority resolution always yields an existing level: a non-empty set of *)
(* pins has a lowest one.                                                  *)
LEMMA HighestInSet ==
  ASSUME NEW S \in SUBSET Pins, S # {}
  PROVE  Highest(S) \in S /\ \A q \in S : Highest(S) <= q
<1>1. \A p \in S : p \in 0 .. 7
  BY PicAssumption DEF Pins
<1>2. \E p \in S : \A q \in S : p <= q
  BY <1>1
<1> QED
  BY <1>2 DEF Highest

(* The level an acknowledge selects is a pin of one of the controllers;    *)
(* when INTR answers to a pending request it is a requested, unmasked one. *)
LEMMA SelectedLevel ==
  ASSUME TypeOK
  PROVE  /\ Selected[1] \in Controllers
         /\ Selected[2] \in Pins
         /\ Pending(irr, ocw1) => Selected[2] \in Unmasked(irr, ocw1, Selected[1])
         /\ \A d \in Controllers : \A q \in Unmasked(irr, ocw1, d) :
              Selected[1] < d \/ (Selected[1] = d /\ Selected[2] <= q)
<1> DEFINE U(c) == Unmasked(irr, ocw1, c)
<1>1. \A c \in Controllers : U(c) \in SUBSET Pins
  BY DEF TypeOK, Unmasked
<1>2. NPins - 1 \in Pins
  BY PicAssumption DEF Pins
<1>3. CASE U(0) # {}
  <2>1. Selected = <<0, Highest(U(0))>>
    BY <1>3 DEF Selected
  <2>2. Highest(U(0)) \in U(0) /\ \A q \in U(0) : Highest(U(0)) <= q
    BY <1>1, <1>3, HighestInSet DEF Controllers
  <2> HIDE DEF U
  <2> QED
    BY <1>1, <2>1, <2>2 DEF Controllers, U
<1>4. CASE U(0) = {} /\ U(1) # {}
  <2>1. Selected = <<1, Highest(U(1))>>
    BY <1>4 DEF Selected
  <2>2. Highest(U(1)) \in U(1) /\ \A q \in U(1) : Highest(U(1)) <= q
    BY <1>1, <1>4, HighestInSet DEF Controllers
  <2> QED
    BY <1>1, <1>4, <2>1, <2>2 DEF Controllers
<1>5. CASE U(0) = {} /\ U(1) = {}
  <2>1. Selected = <<0, NPins - 1>>
    BY <1>5 DEF Selected
  <2>2. ~Pending(irr, ocw1)
    BY <1>5 DEF Pending, Controllers
  <2> QED
    BY <1>2, <1>5, <2>1, <2>2 DEF Controllers
<1> QED
  BY <1>3, <1>4, <1>5

(* fresh_int leaves INTR telling exactly whether a request is pending.     *)
LEMMA FreshIntSettles ==
  ASSUME FreshInt
  PROVE  /\ NoForgottenRequest' /\ NoPhantomIntr'
         /\ intr' \in BOOLEAN /\ stale' \in BOOLEAN
<1>1. stale' = FALSE /\ intr' = Pending(irr', ocw1')
  BY DEF FreshInt
<1>2. intr' \in BOOLEAN
  BY <1>1 DEF Pending
<1>3. NoForgottenRequest' /\ NoPhantomIntr'
  BY <1>1 DEF NoForgottenRequest, NoPhantomIntr, Pending, Unmasked
<1> QED
  BY <1>1, <1>2, <1>3

(* Every step keeps every register in its type.                            *)
LEMMA StepTypeOK == TypeOK /\ [Next]_vars => TypeOK'
<1> SUFFICES ASSUME TypeOK, [Next]_vars PROVE TypeOK'
  OBVIOUS
<1> USE PicAssumption DEF TypeOK, regs
<1>1. ASSUME NEW c \in Controllers, NEW dat \in CmdBytes, WriteIcw1(c, dat)
      PROVE  TypeOK'
  BY <1>1 DEF WriteIcw1
<1>2. ASSUME NEW c \in Controllers, NEW dat \in CmdBytes, WriteOcw2(c, dat)
      PROVE  TypeOK'
  BY <1>2, FreshIntSettles DEF WriteOcw2, Eoi
<1>3. ASSUME NEW c \in Controllers, NEW dat \in CmdBytes, WriteOcw3(c, dat)
      PROVE  TypeOK'
  BY <1>3 DEF WriteOcw3
<1>4. ASSUME NEW c \in Controllers, NEW dat \in DataBytes, WriteMask(c, dat)
      PROVE  TypeOK'
  BY <1>4, FreshIntSettles DEF WriteMask
<1>5. ASSUME NEW c \in Controllers, NEW dat \in DataBytes, WriteIcw2(c, dat)
      PROVE  TypeOK'
  <2>1. (dat \div 8) % 16 \in 0 .. 15
    BY DEF Byte
  <2>2. (IF Bit(icw1[c], 1) THEN 1 ELSE 2) \in 0 .. 3
    OBVIOUS
  <2> QED
    BY <1>5, <2>1, <2>2 DEF WriteIcw2
<1>6. ASSUME NEW c \in Controllers, NEW dat \in DataBytes, WriteIcw3(c, dat)
      PROVE  TypeOK'
  BY <1>6 DEF WriteIcw3
<1>7. ASSUME NEW c \in Controllers, NEW dat \in DataBytes, WriteIcw4(c, dat)
      PROVE  TypeOK'
  <2>1. CASE Bit(icw1[c], 0)
    BY <1>7, <2>1 DEF WriteIcw4
  <2>2. CASE ~Bit(icw1[c], 0)
    BY <1>7, <2>2 DEF WriteIcw4
  <2> QED
    BY <2>1, <2>2
<1>8. ASSUME NEW c \in Controllers, NEW p \in Pins, AssertIrq(c, p)
      PROVE  TypeOK'
  BY <1>8, FreshIntSettles DEF AssertIrq
<1>9. ASSUME NEW c \in Controllers, NEW p \in Pins, DeassertIrq(c, p)
      PROVE  TypeOK'
  BY <1>9, FreshIntSettles DEF DeassertIrq
<1>10. ASSUME Inta PROVE TypeOK'
  <2>1. {Selected[2]} \in SUBSET Pins
    BY SelectedLevel
  <2> QED
    BY <1>10, <2>1 DEF Inta
<1>11. ASSUME Reset PROVE TypeOK'
  <2>1. 255 \in Byte /\ 10 \in Byte
    BY DEF Byte
  <2> QED
    BY <1>11, <2>1 DEF Reset
<1>12. ASSUME UNCHANGED vars PROVE TypeOK'
  BY <1>12 DEF vars
<1> QED
  BY <1>1, <1>2, <1>3, <1>4, <1>5, <1>6, <1>7, <1>8, <1>9, <1>10, <1>11, <1>12
     DEF Next, WriteCommand, WriteData

(* Every step keeps INTR and the registers in agreement.  A step either    *)
(* ends in fresh_int, or marks the registers as stale, or leaves requests  *)
(* and masks alone; an acknowledge lowers INTR and puts a level in service.*)
LEMMA StepAgreement == IInv /\ [Next]_vars => NoForgottenRequest' /\ NoPhantomIntr'
<1> DEFINE Agree == NoForgottenRequest /\ NoPhantomIntr
<1> SUFFICES ASSUME IInv, [Next]_vars PROVE Agree'
  OBVIOUS
<1>a. TypeOK /\ NoForgottenRequest /\ NoPhantomIntr
  BY DEF IInv
<1>b. ASSUME UNCHANGED <<irr, isr, ocw1, intr, stale>> PROVE Agree'
  BY <1>a, <1>b DEF NoForgottenRequest, NoPhantomIntr, Pending, Unmasked
<1>c. ASSUME stale' = TRUE PROVE Agree'
  BY <1>c DEF NoForgottenRequest, NoPhantomIntr
<1>1. ASSUME NEW c \in Controllers, NEW dat \in CmdBytes, WriteCommand(c, dat)
      PROVE  Agree'
  <2>1. CASE WriteIcw1(c, dat)
    BY <1>c, <2>1 DEF WriteIcw1
  <2>2. CASE WriteOcw2(c, dat)
    BY <2>2, FreshIntSettles DEF WriteOcw2, Eoi
  <2>3. CASE WriteOcw3(c, dat)
    BY <1>b, <2>3 DEF WriteOcw3
  <2> QED
    BY <1>1, <2>1, <2>2, <2>3 DEF WriteCommand
<1>2. ASSUME NEW c \in Controllers, NEW dat \in DataBytes, WriteData(c, dat)
      PROVE  Agree'
  <2>1. CASE WriteMask(c, dat)
    BY <2>1, FreshIntSettles DEF WriteMask
  <2>2. CASE WriteIcw2(c, dat) \/ WriteIcw3(c, dat)
    BY <1>b, <2>2 DEF WriteIcw2, WriteIcw3
  <2>3. CASE WriteIcw4(c, dat)
    BY <1>b, <1>c, <2>3 DEF WriteIcw4
  <2> QED
    BY <1>2, <2>1, <2>2, <2>3 DEF WriteData
<1>3. ASSUME NEW c \in Controllers, NEW p \in Pins, AssertIrq(c, p) \/ DeassertIrq(c, p)
      PROVE  Agree'
  BY <1>3, FreshIntSettles DEF AssertIrq, DeassertIrq
<1>4. ASSUME Inta PROVE Agree'
  <2>1. Selected[1] \in Controllers
    BY <1>a, SelectedLevel
  <2>2. isr'[Selected[1]] = {Selected[2]}
    BY <1>4, <1>a, <2>1 DEF Inta, TypeOK
  <2>3. NoForgottenRequest'
    BY <2>1, <2>2 DEF NoForgottenRequest
  <2>4. NoPhantomIntr'
    BY <1>4 DEF Inta, NoPhantomIntr
  <2> QED
    BY <2>3, <2>4
<1>5. ASSUME Reset PROVE Agree'
  <2>1. ~Pending(irr', ocw1')
    BY <1>5 DEF Reset, Pending, Unmasked
  <2> QED
    BY <1>5, <2>1 DEF Reset, NoForgottenRequest, NoPhantomIntr, Pending, Unmasked
<1>6. ASSUME UNCHANGED vars PROVE Agree'
  BY <1>b, <1>6 DEF vars, regs
<1> QED
  BY <1>1, <1>2, <1>3, <1>4, <1>5, <1>6 DEF Next

LEMMA StepIInv == IInv /\ [Next]_vars => IInv'
  BY StepTypeOK, StepAgreement DEF IInv

(* The registers stay in their types, for any number of pins.              *)
THEOREM TypeCorrect == Spec => []TypeOK
<1>1. IInv => TypeOK
  BY DEF IInv
<1> QED
  BY <1>1, InitIInv, StepIInv, PTL DEF Spec

(* A pending request either holds INTR high or waits for the EOI of a      *)
(* level in service (fresh_int in eoi_8259), for any number of pins.       *)
THEOREM RequestsAreNotForgotten == Spec => []NoForgottenRequest
<1>1. IInv => NoForgottenRequest
  BY DEF IInv
<1> QED
  BY <1>1, InitIInv, StepIInv, PTL DEF Spec

(* INTR high means that inta_8259 has a request to answer it with.         *)
THEOREM IntrIsNotPhantom == Spec => []NoPhantomIntr
<1>1. IInv => NoPhantomIntr
  BY DEF IInv
<1> QED
  BY <1>1, InitIInv, StepIInv, PTL DEF Spec

(* An acknowledge takes the highest unmasked request of both controllers   *)
(* into service.                                                           *)
LEMMA IntaTakesHighest ==
  ASSUME IInv, Inta, ~stale
  PROVE  \E c \in Controllers, p \in Pins :
           /\ isr'[c] = {p}
           /\ p \in Unmasked(irr, ocw1, c)
           /\ \A d \in Controllers : \A q \in Unmasked(irr, ocw1, d) :
                c < d \/ (c = d /\ p <= q)
<1>1. TypeOK /\ Pending(irr, ocw1)
  BY DEF IInv, NoPhantomIntr, Inta
<1>2. Selected[1] \in Controllers /\ Selected[2] \in Pins
  BY <1>1, SelectedLevel
<1>3. isr'[Selected[1]] = {Selected[2]}
  BY <1>1, <1>2 DEF Inta, TypeOK
<1> QED
  BY <1>1, <1>2, <1>3, SelectedLevel

(* AcknowledgesHighest as a theorem: every acknowledge of a settled pair   *)
(* of controllers returns the level of highest priority.                   *)
THEOREM AcknowledgeIsHighest == Spec => AcknowledgesHighest
<1>1. IInv /\ [Next]_vars =>
        [Inta /\ ~stale =>
           \E c \in Controllers, p \in Pins :
             /\ isr'[c] = {p}
             /\ p \in Unmasked(irr, ocw1, c)
             /\ \A d \in Controllers : \A q \in Unmasked(irr, ocw1, d) :
                  c < d \/ (c = d /\ p <= q)]_vars
  BY IntaTakesHighest
<1> QED
  BY <1>1, InitIInv, StepIInv, PTL DEF Spec, AcknowledgesHighest

(* A request bit that disappears was served, withdrawn or wiped: no other  *)
(* step of the guest, the devices or the processor takes a request away.   *)
LEMMA StepRequestSurvives ==
  ASSUME TypeOK, [Next]_vars,
         NEW c \in Controllers, NEW p \in irr[c] \ irr'[c]
  PROVE  \/ p \in isr[c] /\ Eoi(c)
         \/ isr'[c] = {p} /\ Inta
         \/ DeassertIrq(c, p)
         \/ Reset
         \/ \E dat \in CmdBytes : WriteIcw1(c, dat)
<1>1. irr' # irr
  OBVIOUS
<1>2. ASSUME NEW d \in Controllers, NEW dat \in CmdBytes, WriteIcw1(d, dat)
      PROVE  c = d
  BY <1>2 DEF WriteIcw1, TypeOK
<1>3. ASSUME NEW d \in Controllers, NEW dat \in CmdBytes, WriteOcw2(d, dat)
      PROVE  p \in isr[c] /\ Eoi(c)
  BY <1>3 DEF WriteOcw2, Eoi, TypeOK
<1>4. ASSUME NEW d \in Controllers, NEW q \in Pins, AssertIrq(d, q)
      PROVE  FALSE
  BY <1>4 DEF AssertIrq, TypeOK
<1>5. ASSUME NEW d \in Controllers, NEW q \in Pins, DeassertIrq(d, q)
      PROVE  DeassertIrq(c, p)
  BY <1>5 DEF DeassertIrq, TypeOK
<1>6. ~ \E d \in Controllers, dat \in CmdBytes : WriteOcw3(d, dat)
  BY <1>1 DEF WriteOcw3
<1>7. ~ \E d \in Controllers, dat \in DataBytes : WriteData(d, dat)
  BY <1>1 DEF WriteData, WriteMask, WriteIcw2, WriteIcw3, WriteIcw4
<1>8. ~Inta /\ ~UNCHANGED vars
  BY <1>1 DEF Inta, vars
<1> QED
  BY <1>2, <1>3, <1>4, <1>5, <1>6, <1>7, <1>8 DEF Next, WriteCommand

(* RequestSurvives for any number of pins and any guest.                   *)
THEOREM RequestsSurvive == Spec => RequestSurvives
<1>1. TypeOK /\ [Next]_vars =>
        [\A c \in Controllers : \A p \in irr[c] \ irr'[c] :
           \/ p \in isr[c] /\ Eoi(c)
           \/ isr'[c] = {p} /\ Inta
           \/ DeassertIrq(c, p)
           \/ Reset
           \/ \E dat \in CmdBytes : WriteIcw1(c, dat)]_vars
  BY StepRequestSurvives
<1> QED
  BY <1>1, TypeCorrect, PTL DEF Spec, RequestSurvives

-----------------------------------------------------------------------------
(* The host bridge. *)

Untouched == \A r \in (0..6) \ Pams : pam[r] = {}

LockedIsClosed == "lock" \in smramc => frozen /\ ~smOpen

BridgeInv == B!TypeOK /\ B!RoutesAgree /\ Untouched /\ LockedIsClosed

(* The two codings of the routing agree, whatever the registers hold.      *)
LEMMA CodingsAgree ==
  ASSUME NEW a \in 0..B!OtherRam
  PROVE  B!ReadRoute(a) = B!ReadStringRoute(a) /\ B!WriteRoute(a) = B!WriteStringRoute(a)
<1>1. /\ B!Segments = 0..15 /\ B!Vram = 16 /\ B!IoApic = 17 /\ B!Device = 18 /\ B!OtherRam = 19
      /\ B!Bios = 12..15 /\ B!VgaBios = 0..1
  BY DEF B!Segments, B!Vram, B!IoApic, B!Device, B!OtherRam, B!Bios, B!VgaBios
<1>2. CASE a \in B!Segments
  <2>1. a # B!Vram /\ a # B!IoApic /\ a # B!Device
    BY <1>1, <1>2
  <2>2. CASE a \in B!VgaBios
    BY <1>1, <2>1, <2>2 DEF B!ReadRoute, B!ReadStringRoute, B!WriteRoute, B!WriteStringRoute
  <2>3. CASE a \in 2..11
    BY <1>1, <2>1, <2>3 DEF B!ReadRoute, B!ReadStringRoute, B!WriteRoute, B!WriteStringRoute
  <2>4. CASE a \in B!Bios
    BY <1>1, <2>1, <2>4 DEF B!ReadRoute, B!ReadStringRoute, B!WriteRoute, B!WriteStringRoute
  <2> QED
    BY <1>1, <1>2, <2>2, <2>3, <2>4
<1>3. CASE a \notin B!Segments
  BY <1>1, <1>3 DEF B!ReadRoute, B!ReadStringRoute, B!WriteRoute, B!WriteStringRoute
<1> QED
  BY <1>2, <1>3

(* Every segment has a PAM register, and is one of its segments.           *)
LEMMA SegmentHasRegister ==
  ASSUME NEW s \in B!Segments
  PROVE  /\ B!PamOf(s) \in 0..6
         /\ \A r : s \in B!SegmentsOf(r) <=> B!PamOf(s) = r
BY DEF B!PamOf, B!SegmentsOf, B!Segments, B!Bios

(* The segments of the BIOS share the read bit of PAM0.                    *)
LEMMA BiosSharesBit ==
  ASSUME NEW s \in B!Bios
  PROVE  s \in B!Segments /\ B!PamOf(s) = 0 /\ B!ReadBit(s) = 4
BY DEF B!PamOf, B!ReadBit, B!High, B!Bios, B!Segments

(* What a segment's routing says of its register.                          *)
Follows(s) ==
  /\ s \in rd <=> B!ReadBit(s) \in pam[B!PamOf(s)]
  /\ s \in wr <=> B!WriteBit(s) \in pam[B!PamOf(s)]

SegmentsFollow == \A s \in B!Segments : B!PamOf(s) \notin behind => Follows(s)

(* It is enough to look at the segments: the first half of RoutesAgree     *)
(* does not depend on the state, so it holds before and after a step.      *)
LEMMA RoutesByRegister ==
  (B!RoutesAgree <=> SegmentsFollow) /\ (B!RoutesAgree' <=> SegmentsFollow')
<1>1. B!RoutesAgree <=> SegmentsFollow
  BY CodingsAgree DEF B!RoutesAgree, SegmentsFollow, Follows
<1> QED
  BY <1>1, PTL

LEMMA InitBridgeInv == B!HostBridgeAssumption /\ B!Init => BridgeInv
<1> SUFFICES ASSUME B!Init PROVE BridgeInv
  OBVIOUS
<1>1. B!TypeOK
  BY DEF B!Init, B!TypeOK
<1>2. \A s \in B!Segments : Follows(s)
  BY SegmentHasRegister DEF B!Init, Follows
<1> QED
  BY <1>1, <1>2, RoutesByRegister DEF B!Init, BridgeInv, SegmentsFollow, Untouched, LockedIsClosed

(* Rerouting a register's segments changes no other's, and makes its own   *)
(* follow the bits.                                                        *)
LEMMA RerouteFollows ==
  ASSUME NEW r, NEW bits, NEW s \in B!Segments, B!Reroute(r, bits)
  PROVE  /\ B!PamOf(s) = r => (s \in rd' <=> B!ReadBit(s) \in bits) /\ (s \in wr' <=> B!WriteBit(s) \in bits)
         /\ B!PamOf(s) # r => (s \in rd' <=> s \in rd) /\ (s \in wr' <=> s \in wr)
<1>1. s \in B!SegmentsOf(r) <=> B!PamOf(s) = r
  BY SegmentHasRegister
<1> QED
  BY <1>1 DEF B!Reroute

(* A write to several PAM registers leaves behind all but the first.       *)
LEMMA WritePamStep ==
  ASSUME B!HostBridgeAssumption, BridgeInv, NEW r \in Pams, NEW n \in {1, 2, 4},
         NEW v \in [(r..r + n - 1) \cap Pams -> PamValues], B!WritePam(r, n, v)
  PROVE  BridgeInv'
<1> DEFINE covered == (r..r + n - 1) \cap Pams
<1>1. /\ r \in 0..6 /\ r \in covered /\ covered \subseteq 0..6
      /\ \A q \in covered : v[q] \in SUBSET {0, 1, 4, 5}
  <2>1. r \in 0..6 /\ Pams \subseteq 0..6 /\ PamValues \subseteq SUBSET {0, 1, 4, 5}
    BY DEF B!HostBridgeAssumption
  <2>2. r \in r..r + n - 1
    BY <2>1
  <2>3. \A q \in covered : v[q] \in PamValues
    OBVIOUS
  <2> QED
    BY <2>1, <2>2, <2>3
<1>2. /\ pam' = [q \in 0..6 |-> IF q \in covered THEN v[q] ELSE pam[q]]
      /\ B!Reroute(r, pam'[r])
      /\ behind' = (behind \cup covered) \ {r}
      /\ UNCHANGED <<smramc, frozen, smOpen, smEn, smiact, ram, smram>>
  BY DEF B!WritePam
<1> HIDE DEF covered
<1>3. B!TypeOK'
  <2>1. pam' \in [0..6 -> SUBSET {0, 1, 4, 5}]
    BY <1>1, <1>2 DEF BridgeInv, B!TypeOK
  <2>2. rd' \cup wr' \subseteq B!Segments
    BY <1>2 DEF BridgeInv, B!TypeOK, B!Reroute, B!SegmentsOf
  <2>3. behind' \subseteq 0..6
    BY <1>1, <1>2 DEF BridgeInv, B!TypeOK
  <2> QED
    BY <1>2, <2>1, <2>2, <2>3 DEF BridgeInv, B!TypeOK
<1>4. SegmentsFollow'
  <2> SUFFICES ASSUME NEW s \in B!Segments, B!PamOf(s) \notin behind'
               PROVE  Follows(s)'
    BY DEF SegmentsFollow, B!Segments
  <2>1. B!PamOf(s) \in 0..6
    BY SegmentHasRegister
  <2>2. CASE B!PamOf(s) = r
    BY <1>2, <2>2, RerouteFollows DEF Follows
  <2>3. CASE B!PamOf(s) # r
    <3>1. B!PamOf(s) \notin behind /\ B!PamOf(s) \notin covered
      BY <1>2, <2>3
    <3>2. Follows(s)
      BY <3>1, RoutesByRegister DEF BridgeInv, SegmentsFollow
    <3>3. pam'[B!PamOf(s)] = pam[B!PamOf(s)]
      BY <1>2, <2>1, <3>1
    <3> QED
      BY <1>2, <2>3, <3>2, <3>3, RerouteFollows DEF Follows
  <2> QED
    BY <2>2, <2>3
<1>5. B!RoutesAgree'
  BY <1>4, RoutesByRegister
<1>6. Untouched'
  BY <1>1, <1>2 DEF BridgeInv, Untouched, covered
<1> QED
  BY <1>2, <1>3, <1>5, <1>6 DEF BridgeInv, LockedIsClosed

(* What leaves the PAM registers and the routing alone leaves their        *)
(* agreement alone.                                                        *)
LEMMA RoutingKept ==
  ASSUME BridgeInv, UNCHANGED <<pam, rd, wr, behind>>
  PROVE  B!RoutesAgree' /\ Untouched'
<1>1. SegmentsFollow'
  BY RoutesByRegister DEF BridgeInv, SegmentsFollow, Follows
<1> QED
  BY <1>1, RoutesByRegister DEF BridgeInv, Untouched

(* The SMRAM register: a lock closes SMRAM, and stays.                     *)
LEMMA WriteSmramcStep ==
  ASSUME B!HostBridgeAssumption, BridgeInv, NEW v \in SmramValues, B!WriteSmramc(v)
  PROVE  BridgeInv'
<1>1. v \in SUBSET {"open", "cls", "lock", "en"}
  BY DEF B!HostBridgeAssumption
<1>2. B!TypeOK'
  BY <1>1 DEF BridgeInv, B!TypeOK, B!WriteSmramc
<1>3. LockedIsClosed'
  <2> SUFFICES ASSUME "lock" \in smramc' PROVE frozen' /\ ~smOpen'
    BY DEF LockedIsClosed
  <2>1. "lock" \in smramc' \cap {"open", "cls", "lock"} /\ "lock" \notin {"open"}
    OBVIOUS
  <2> QED
    BY <2>1 DEF B!WriteSmramc
<1> QED
  BY <1>2, <1>3, RoutingKept DEF BridgeInv, B!WriteSmramc

(* Entering and leaving SMM.                                               *)
LEMMA AssertSmiactStep ==
  ASSUME BridgeInv, NEW a \in BOOLEAN, B!AssertSmiact(a)
  PROVE  BridgeInv'
BY RoutingKept DEF BridgeInv, B!TypeOK, LockedIsClosed, B!AssertSmiact

(* A reset closes every segment; the registers written before it are       *)
(* behind, and the others are blank.                                       *)
LEMMA ResetStep == B!HostBridgeAssumption /\ BridgeInv /\ B!Reset => BridgeInv'
<1> SUFFICES ASSUME B!HostBridgeAssumption, BridgeInv, B!Reset PROVE BridgeInv'
  OBVIOUS
<1>1. B!TypeOK'
  BY DEF BridgeInv, B!TypeOK, B!Reset, B!HostBridgeAssumption
<1>2. SegmentsFollow'
  BY SegmentHasRegister DEF BridgeInv, Untouched, SegmentsFollow, Follows, B!Reset
<1>3. Untouched' /\ LockedIsClosed'
  BY DEF BridgeInv, Untouched, LockedIsClosed, B!Reset
<1> QED
  BY <1>1, <1>2, <1>3, RoutesByRegister DEF BridgeInv

(* A store reaches RAM, SMRAM or nothing.                                  *)
LEMMA StoreStep ==
  ASSUME B!HostBridgeAssumption, BridgeInv, NEW s \in Tracked,
         NEW v \in {"blank", "rom", "guest"}, NEW route, B!Store(s, v, route)
  PROVE  BridgeInv'
<1>1. B!TypeOK'
  BY DEF BridgeInv, B!TypeOK, B!Store
<1> QED
  BY <1>1, RoutingKept DEF BridgeInv, LockedIsClosed, B!Store

LEMMA StoreVramStep ==
  ASSUME BridgeInv, NEW v \in {"smm", "guest"}, NEW route, B!StoreVram(v, route)
  PROVE  BridgeInv'
<1>1. B!TypeOK'
  BY DEF BridgeInv, B!TypeOK, B!StoreVram
<1> QED
  BY <1>1, RoutingKept DEF BridgeInv, LockedIsClosed, B!StoreVram

(* What is read in a segment is one of the values of its contents.         *)
LEMMA ContentsType ==
  ASSUME B!TypeOK, NEW s \in Tracked
  PROVE  B!Contents(s) \in {"blank", "rom", "guest", "none"}
BY DEF B!TypeOK, B!Contents

(* Whatever the bridge does, its routing keeps agreeing with its registers.*)
LEMMA BridgeStep == B!HostBridgeAssumption /\ BridgeInv /\ [B!Next]_(B!vars) => BridgeInv'
<1> SUFFICES ASSUME B!HostBridgeAssumption, BridgeInv, [B!Next]_(B!vars) PROVE BridgeInv'
  OBVIOUS
<1>1. CASE \E r \in Pams, n \in {1, 2, 4} :
             \E v \in [(r..r + n - 1) \cap Pams -> PamValues] : B!WritePam(r, n, v)
  BY <1>1, WritePamStep
<1>2. CASE \E v \in SmramValues : B!WriteSmramc(v)
  BY <1>2, WriteSmramcStep
<1>3. CASE \E a \in BOOLEAN : B!AssertSmiact(a)
  BY <1>3, AssertSmiactStep
<1>4. CASE B!Reset
  BY <1>4, ResetStep
<1>5. ASSUME NEW s \in Tracked, B!Shadow(s) PROVE BridgeInv'
  <2>1. B!Contents(s) \in {"blank", "rom", "guest"}
    BY <1>5, ContentsType DEF BridgeInv, B!Shadow
  <2> QED
    BY <1>5, <2>1, StoreStep DEF B!Shadow
<1>6. ASSUME NEW s \in Tracked, B!Write(s) PROVE BridgeInv'
  BY <1>6, StoreStep DEF B!Write
<1>7. CASE B!WriteVram
  BY <1>7, StoreVramStep DEF B!WriteVram
<1>8. CASE UNCHANGED B!vars
  <2>1. B!TypeOK' /\ LockedIsClosed'
    BY <1>8 DEF BridgeInv, B!TypeOK, LockedIsClosed, B!vars
  <2> QED
    BY <1>8, <2>1, RoutingKept DEF BridgeInv, B!vars
<1> QED
  BY <1>1, <1>2, <1>3, <1>4, <1>5, <1>6, <1>7, <1>8 DEF B!Next, B!Configure

(* The bridge has its invariant.                                           *)
LEMMA BridgeInvariance == ASSUME B!HostBridgeAssumption PROVE B!Spec => []BridgeInv
BY InitBridgeInv, BridgeStep, PTL DEF B!Spec

(* Type correctness of the registers, the routing and the memory.          *)
THEOREM BridgeTypes == ASSUME B!HostBridgeAssumption PROVE B!Spec => []B!TypeOK
<1>1. BridgeInv => B!TypeOK
  BY DEF BridgeInv
<1> QED
  BY <1>1, BridgeInvariance, PTL

(* How a segment is read when it follows its register.                     *)
RouteOf(s) ==
  IF B!ReadBit(s) \in pam[B!PamOf(s)] THEN "ram"
  ELSE IF s \in B!VgaBios THEN "vgabios" ELSE IF s \in B!Bios THEN "bios" ELSE "none"

RoutesKnown == \A s \in B!Segments : B!PamOf(s) \notin behind => B!ReadRoute(s) = RouteOf(s)

LEMMA RouteOfSegment ==
  ASSUME SegmentsFollow, NEW s \in B!Segments, B!PamOf(s) \notin behind
  PROVE  B!ReadRoute(s) = RouteOf(s)
<1>1. s \in 0..15 /\ s # B!Vram /\ s # B!IoApic /\ s # B!Device
  BY DEF B!Segments, B!Vram, B!IoApic, B!Device
<1>2. s \in rd <=> B!ReadBit(s) \in pam[B!PamOf(s)]
  BY DEF SegmentsFollow, Follows
<1>3. CASE s \in B!Bios
  <2>1. \A b \in B!Bios : b \in rd <=> 4 \in pam[0]
    BY <1>3, BiosSharesBit DEF SegmentsFollow, Follows
  <2>2. B!Bios \cap rd = {} <=> B!ReadBit(s) \notin pam[B!PamOf(s)]
    BY <1>3, <2>1, BiosSharesBit
  <2>3. s \notin B!VgaBios
    BY <1>3 DEF B!Bios, B!VgaBios
  <2> QED
    BY <1>1, <1>3, <2>2, <2>3 DEF B!ReadRoute, RouteOf
<1>4. CASE s \in B!VgaBios
  <2>1. s \notin B!Bios
    BY <1>4 DEF B!Bios, B!VgaBios
  <2> QED
    BY <1>1, <1>2, <1>4, <2>1 DEF B!ReadRoute, RouteOf
<1>5. CASE s \notin B!Bios /\ s \notin B!VgaBios
  BY <1>1, <1>2, <1>5 DEF B!ReadRoute, RouteOf
<1> QED
  BY <1>3, <1>4, <1>5

LEMMA RoutesAreKnown == (BridgeInv => RoutesKnown) /\ (BridgeInv' => RoutesKnown')
<1>1. BridgeInv => RoutesKnown
  BY RouteOfSegment, RoutesByRegister DEF BridgeInv, RoutesKnown
<1> QED
  BY <1>1, PTL

(* A segment whose register does not open it for writes is not written, by *)
(* either of the two codings.                                              *)
LEMMA ClosedIsNotWritten ==
  ASSUME BridgeInv, NEW s \in B!Segments, B!PamOf(s) \notin behind, B!WriteBit(s) \notin pam[B!PamOf(s)]
  PROVE  B!WriteRoute(s) = "none" /\ B!WriteStringRoute(s) = "none"
<1>1. s # B!Vram /\ s # B!IoApic /\ s # B!Device
  BY DEF B!Segments, B!Vram, B!IoApic, B!Device
<1>2. s \notin wr
  BY RoutesByRegister DEF BridgeInv, SegmentsFollow, Follows
<1> QED
  BY <1>1, <1>2 DEF B!WriteRoute, B!WriteStringRoute

(* No step changes what is read in a segment that its register closes.     *)
LEMMA ShadowStep ==
  ASSUME B!HostBridgeAssumption, BridgeInv, BridgeInv', [B!Next]_(B!vars)
  PROVE  B!ShadowHolds
<1> SUFFICES ASSUME NEW s \in Tracked,
                    B!PamOf(s) \notin behind \cup behind', pam[B!PamOf(s)] = pam'[B!PamOf(s)],
                    B!WriteBit(s) \notin pam[B!PamOf(s)]
             PROVE  B!Contents(s)' = B!Contents(s)
  BY DEF B!ShadowHolds
<1>1. s \in B!Segments
  BY DEF B!HostBridgeAssumption, B!Segments
<1>2. RouteOf(s)' = RouteOf(s)
  BY DEF RouteOf
<1>3. B!ReadRoute(s)' = B!ReadRoute(s)
  BY <1>1, <1>2, RoutesAreKnown DEF RoutesKnown, B!Segments
<1>4. B!WriteRoute(s) = "none" /\ B!WriteStringRoute(s) = "none"
  BY <1>1, ClosedIsNotWritten
<1>5. ram'[s] = ram[s]
  <2>1. ASSUME NEW t \in Tracked, NEW v, NEW route \in {B!WriteRoute(t), B!WriteStringRoute(t)},
               B!Store(t, v, route)
        PROVE  ram'[s] = ram[s]
    BY <1>4, <2>1 DEF B!Store, BridgeInv, B!TypeOK
  <2>2. ASSUME NEW t \in Tracked, B!Shadow(t) \/ B!Write(t) PROVE ram'[s] = ram[s]
    BY <2>1, <2>2 DEF B!Shadow, B!Write
  <2>3. ASSUME UNCHANGED ram PROVE ram'[s] = ram[s]
    BY <2>3
  <2> QED
    BY <2>2, <2>3 DEF B!Next, B!Configure, B!WritePam, B!WriteSmramc, B!AssertSmiact, B!Reset,
         B!WriteVram, B!StoreVram, B!vars
<1> QED
  BY <1>3, <1>5 DEF B!Contents

(* No step opens a lock, and only SMM writes behind it.                    *)
LEMMA LockStep == ASSUME BridgeInv, [B!Next]_(B!vars) PROVE B!LockHolds
<1> SUFFICES ASSUME "lock" \in smramc
             PROVE  smramc' = smramc /\ (~smiact => smram' = smram)
  BY DEF B!LockHolds
<1>1. frozen /\ ~smOpen
  BY DEF BridgeInv, LockedIsClosed
<1>2. smramc' = smramc
  BY <1>1 DEF B!Next, B!Configure, B!WritePam, B!WriteSmramc, B!AssertSmiact, B!Reset, B!Shadow, B!Write,
       B!Store, B!WriteVram, B!StoreVram, B!vars
<1>3. ASSUME ~smiact PROVE smram' = smram
  <2>1. B!Vram \notin B!Segments /\ B!Vram # B!IoApic /\ B!Vram # B!Device
    BY DEF B!Segments, B!Vram, B!IoApic, B!Device
  <2>2. B!WriteRoute(B!Vram) = "vram" /\ B!WriteStringRoute(B!Vram) = "vram"
    BY <1>1, <1>3, <2>1 DEF B!WriteRoute, B!WriteStringRoute, B!SmramDecode
  <2> QED
    BY <2>2 DEF B!Next, B!Configure, B!WritePam, B!WriteSmramc, B!AssertSmiact, B!Reset, B!Shadow, B!Write,
         B!Store, B!WriteVram, B!StoreVram, B!vars
<1> QED
  BY <1>2, <1>3

(* Whatever is configured, locked, reset and stored in whatever order: the *)
(* two codings of the routing agree, a segment goes where its register     *)
(* says, a closed segment keeps what is read in it, and a locked SMRAM is  *)
(* written by SMM alone (write_config_reg, pam_callback, smram_callback,   *)
(* mch.cpp).                                                               *)
THEOREM BridgeIsRight == ASSUME B!HostBridgeAssumption PROVE B!Spec => BridgeRight
<1>1. BridgeInv => (part = "bridge" => B!TypeOK /\ B!RoutesAgree)
  BY DEF BridgeInv
<1>2. BridgeInv /\ BridgeInv' /\ [B!Next]_(B!vars)
        => [part = "bridge" => B!ShadowHolds /\ B!LockHolds]_bridgeVars
  <2>1. B!vars = bridgeVars
    BY DEF B!vars, bridgeVars
  <2> SUFFICES ASSUME BridgeInv, BridgeInv', [B!Next]_(B!vars), bridgeVars' # bridgeVars
               PROVE  B!ShadowHolds /\ B!LockHolds
    OBVIOUS
  <2> QED
    BY <2>1, ShadowStep, LockStep
<1> QED
  BY <1>1, <1>2, BridgeInvariance, PTL DEF B!Spec, BridgeRight

(* What is remembered of a program, and the words that stand on a stack.   *)
ContextFlags == [ifl : BOOLEAN, iopl : {0, 3}]
Context == [cs : T!Sel, cpl : {0, 3}, vm : BOOLEAN, eip : 0 .. Length - 1, ss : T!Stacks, sp : Nat,
            fl : ContextFlags]
Entry == [how : {"iret", "retf"}, back : Context, again : BOOLEAN, short : BOOLEAN]
Group == [is : {"frame", "far", "stack", "data", "error", "param"},
          sel : [seg : T!Segs \cup T!Stacks \cup T!Data, rpl : {0, 3}], num : Nat, fl : T!Flags]

TransferTypes ==
  /\ T!TypeOK /\ fl \in ContextFlags
  /\ stk \in [T!Stacks -> Seq(Group)] /\ due \in Seq(Entry)

(* The programs that wait for a return, the outermost first, and the one   *)
(* that runs: of outstanding returns u and a context x.                    *)
Program(u, x, k) == IF k <= Len(u) THEN u[k].back ELSE x

(* Groups a to b of stack t hold no address of a return.                   *)
Plain(t, a, b) == \A i \in a .. b : t[i].is \in {"error", "param"}

(* The lower b groups of two stacks are the same.                          *)
Agree(t, t2, b) == \A i \in 1 .. b : t2[i] = t[i]

(* Level, selector and stack of a context agree; p is PE.                  *)
Right(p, c) ==
  /\ ~p => ~c.vm /\ c.cpl = 0 /\ c.ss = "8086"
  /\ c.vm => p /\ c.cpl = 3 /\ c.ss = "8086" /\ c.cs.seg \in {"8086", "bios"}
  /\ p /\ ~c.vm => /\ c.cs.rpl = c.cpl /\ (c.cs.seg # "shared" => T!Dpl(c.cs.seg) = c.cpl)
                   /\ c.ss = IF c.cpl = 0 THEN "kernel" ELSE "user"

(* Group g leads back to where entry d is to return.                       *)
Leads(g, d) ==
  /\ g.is = (IF d.how = "iret" THEN "frame" ELSE "far")
  /\ g.sel = d.back.cs /\ g.num \in 0 .. Length - 1
  /\ d.again \/ g.num = d.back.eip
  /\ d.how = "iret" => g.fl.ifl = d.back.fl.ifl /\ g.fl.iopl = d.back.fl.iopl

(* The return d of program n, on stacks s: on the same stack, or on that   *)
(* of the kernel, which n has entered; there at group q, with what leads   *)
(* back to the other stack below it, and the data selector of a V86        *)
(* program below that.                                                     *)
OnSameStack(s, d, n) ==
  LET c == d.back
      g == s[c.ss][c.sp + 1] IN
  /\ n.ss = c.ss /\ n.cpl = c.cpl /\ n.vm = c.vm /\ n.sp > c.sp
  /\ Leads(g, d) /\ ~g.fl.vm
  /\ Plain(s[c.ss], c.sp + 2, n.sp)

Crossed(p, s, d, n) ==
  LET c == d.back IN
  /\ p /\ c.cpl = 3 /\ n.cpl = 0 /\ ~n.vm
  /\ Plain(s[c.ss], c.sp + 1, Len(s[c.ss]))

AtGroup(s, d, n, q) ==
  LET c == d.back
      t == s["kernel"] IN
  /\ q <= n.sp /\ Leads(t[q], d) /\ t[q].fl.vm = c.vm /\ Plain(t, q + 1, n.sp)
  /\ d.how = "iret" => /\ t[q - 1].sel.seg = c.ss /\ t[q - 1].num = c.sp
                       /\ c.vm => q = 3 /\ t[1].sel.seg = "8086"
  /\ d.how = "retf" => /\ ~c.vm /\ t[1].sel.seg = c.ss /\ t[1].num = c.sp + (q - 2)
                       /\ c.sp + (q - 2) <= Len(s[c.ss])

Link(p, s, d, n) ==
  /\ d.back.vm \/ d.back.fl.iopl = n.fl.iopl
  /\ \/ OnSameStack(s, d, n)
     \/ Crossed(p, s, d, n) /\ \E q \in {2, 3} : AtGroup(s, d, n, q)

Fits(p, s, c) == Right(p, c) /\ c.sp <= Len(s[c.ss])

(* An earlier program is not further inside, and lower on the same stack.  *)
Below(c, n) == c.cpl >= n.cpl /\ (c.ss = n.ss => c.sp < n.sp)

(* The programs on stacks s that wait for the returns u, below context x.  *)
Chain(p, s, u, x) ==
  /\ x.sp = Len(s[x.ss])
  /\ \A k \in 1 .. Len(u) + 1 : Fits(p, s, Program(u, x, k))
  /\ \A i, k \in 1 .. Len(u) + 1 : i < k => Below(Program(u, x, i), Program(u, x, k))
  /\ \A k \in 1 .. Len(u) : Link(p, s, u[k], Program(u, x, k + 1))
  /\ Plain(s[Program(u, x, 1).ss], 1, Program(u, x, 1).sp)
  /\ \A t \in {"user", "8086"} :
       (\A k \in 1 .. Len(u) + 1 : Program(u, x, k).ss # t) => Plain(s[t], 1, Len(s[t]))

Segments == (pe /\ ~vm /\ cpl = 3 => ds # "kernel") /\ (vm => ds = "8086")

TransferInv == TransferTypes /\ Segments /\ Chain(pe, stk, due, T!ContextAt(eip))

LEMMA PlainExtends ==
  ASSUME NEW t, NEW t2, NEW a \in Nat \ {0}, NEW b \in Nat, NEW c \in Nat, b <= c,
         Agree(t, t2, b), Plain(t, a, b), Plain(t2, b + 1, c)
  PROVE  Plain(t2, a, c)
<1> SUFFICES ASSUME NEW i \in a .. c PROVE t2[i].is \in {"error", "param"}
  BY DEF Plain
<1>1. CASE i <= b
  BY <1>1 DEF Plain, Agree
<1>2. CASE i > b
  BY <1>2 DEF Plain
<1> QED
  BY <1>1, <1>2

LEMMA PlainShrinks ==
  ASSUME NEW t, NEW t2, NEW a \in Nat \ {0}, NEW b \in Nat, NEW c \in Nat, c <= b,
         Agree(t, t2, c), Plain(t, a, b)
  PROVE  Plain(t2, a, c)
BY DEF Plain, Agree

LEMMA AgreesLower ==
  ASSUME NEW t, NEW t2, NEW b \in Nat, NEW c \in Nat, c <= b, Agree(t, t2, b)
  PROVE  Agree(t, t2, c)
BY DEF Agree

(* A group at height a + 1 and the tops b and c of a stack before and      *)
(* after a step.                                                           *)
LEMMA Heights ==
  ASSUME NEW a \in Nat, NEW b \in Nat, NEW c \in Nat
  PROVE  /\ a + 2 \in Nat \ {0}
         /\ c >= b /\ b > a => c > a
         /\ c = b - 1 => c <= b
         /\ c = b - 1 /\ b > a /\ b # a + 1 => c > a
OBVIOUS

(* A return stays linked to its program while that only gains plain words, *)
(* or loses one.                                                           *)
LEMMA LinkExtends ==
  ASSUME NEW p \in BOOLEAN, NEW s \in [T!Stacks -> Seq(Group)], NEW s2 \in [T!Stacks -> Seq(Group)],
         NEW d \in Entry, NEW n \in Context, NEW n2 \in Context,
         Link(p, s, d, n), Right(p, n),
         n2.cpl = n.cpl, n2.vm = n.vm, n2.ss = n.ss,
         n.vm \/ n2.fl.iopl = n.fl.iopl,
         Crossed(p, s, d, n) => s2[d.back.ss] = s[d.back.ss],
         n2.sp >= n.sp,
         Agree(s[n.ss], s2[n.ss], n.sp),
         Plain(s2[n.ss], n.sp + 1, n2.sp)
  PROVE  Link(p, s2, d, n2)
<1>1. /\ d.back \in Context /\ d.back.sp \in Nat /\ n.sp \in Nat /\ n2.sp \in Nat
      /\ d.how \in {"iret", "retf"}
  BY DEF Entry, Context
<1>2. ASSUME OnSameStack(s, d, n) PROVE OnSameStack(s2, d, n2)
  <2>0. /\ n.ss = d.back.ss /\ n.cpl = d.back.cpl /\ n.vm = d.back.vm /\ n.sp > d.back.sp
        /\ Leads(s[n.ss][d.back.sp + 1], d) /\ ~s[n.ss][d.back.sp + 1].fl.vm
        /\ Plain(s[n.ss], d.back.sp + 2, n.sp)
    BY <1>2, Zenon DEF OnSameStack
  <2>1. n.sp > d.back.sp /\ d.back.sp + 2 \in Nat \ {0} /\ n.ss = d.back.ss /\ n2.sp > d.back.sp
    BY <1>1, <2>0, Heights, Zenon
  <2>2. Plain(s2[n.ss], d.back.sp + 2, n2.sp)
    BY <1>1, <2>0, <2>1, PlainExtends
  <2>3. s2[n.ss][d.back.sp + 1] = s[n.ss][d.back.sp + 1]
    <3>1. d.back.sp + 1 \in 1 .. n.sp
      BY <1>1, <2>1
    <3> QED
      BY <3>1 DEF Agree
  <2> QED
    BY <2>0, <2>1, <2>2, <2>3, Zenon DEF OnSameStack
<1>3. ASSUME Crossed(p, s, d, n) PROVE Crossed(p, s2, d, n2) /\ n.ss = "kernel"
  BY <1>1, <1>3 DEF Crossed, Right
<1>4. d.back.vm \/ d.back.fl.iopl = n2.fl.iopl
  <2>1. n.vm => d.back.vm
    BY DEF Link, OnSameStack, Crossed
  <2> QED
    BY <2>1 DEF Link
<1>5. ASSUME Crossed(p, s, d, n), NEW q \in {2, 3}, AtGroup(s, d, n, q) PROVE AtGroup(s2, d, n2, q)
  <2>1. n.ss = "kernel" /\ s2[d.back.ss] = s[d.back.ss]
    BY <1>3, <1>5
  <2>4. q <= n.sp /\ q + 1 \in Nat \ {0} /\ Plain(s["kernel"], q + 1, n.sp)
    BY <1>5 DEF AtGroup
  <2>2. q <= n.sp /\ q <= n2.sp /\ Plain(s2["kernel"], q + 1, n2.sp)
    BY <1>1, <2>1, <2>4, PlainExtends
  <2>3. s2["kernel"][q] = s["kernel"][q] /\ s2["kernel"][q - 1] = s["kernel"][q - 1]
        /\ s2["kernel"][1] = s["kernel"][1]
    <3>1. q \in 1 .. n.sp /\ q - 1 \in 1 .. n.sp /\ 1 \in 1 .. n.sp
      BY <1>1, <2>2
    <3> QED
      BY <2>1, <3>1 DEF Agree
  <2> QED
    BY <1>5, <2>1, <2>2, <2>3 DEF AtGroup
<1> QED
  BY <1>2, <1>3, <1>4, <1>5 DEF Link

LEMMA LinkStays ==
  ASSUME NEW p \in BOOLEAN, NEW s \in [T!Stacks -> Seq(Group)], NEW s2 \in [T!Stacks -> Seq(Group)],
         NEW d \in Entry, NEW n \in Context, Link(p, s, d, n), Right(p, n),
         Crossed(p, s, d, n) => s2[d.back.ss] = s[d.back.ss],
         Agree(s[n.ss], s2[n.ss], n.sp)
  PROVE  Link(p, s2, d, n)
<1>1. n.sp \in Nat /\ n.sp >= n.sp /\ Plain(s2[n.ss], n.sp + 1, n.sp)
  BY DEF Context, Plain
<1> QED
  BY <1>1, LinkExtends

LEMMA LinkShrinks ==
  ASSUME NEW p \in BOOLEAN, NEW s \in [T!Stacks -> Seq(Group)], NEW s2 \in [T!Stacks -> Seq(Group)],
         NEW d \in Entry, NEW n \in Context, NEW n2 \in Context,
         Link(p, s, d, n), Right(p, n),
         n2.cpl = n.cpl, n2.vm = n.vm, n2.ss = n.ss, n2.fl.iopl = n.fl.iopl,
         Crossed(p, s, d, n) => s2[d.back.ss] = s[d.back.ss],
         n2.sp = n.sp - 1,
         Agree(s[n.ss], s2[n.ss], n2.sp),
         s[n.ss][n.sp].is \in {"error", "param"}
  PROVE  Link(p, s2, d, n2)
<1>1. /\ d.back \in Context /\ d.back.sp \in Nat /\ n.sp \in Nat /\ n2.sp \in Nat
      /\ d.how \in {"iret", "retf"}
  BY DEF Entry, Context
<1>2. ASSUME OnSameStack(s, d, n) PROVE OnSameStack(s2, d, n2)
  <2>1. s[n.ss][d.back.sp + 1].is \in {"frame", "far"} /\ n.sp > d.back.sp
    BY <1>1, <1>2 DEF OnSameStack, Leads
  <2>2. n2.sp > d.back.sp
    <3>1. n.sp # d.back.sp + 1
      BY <2>1
    <3> QED
      BY <1>1, <2>1, <3>1, Heights, Zenon
  <2>3. Plain(s2[n.ss], d.back.sp + 2, n2.sp)
    <3>1. Plain(s[n.ss], d.back.sp + 2, n.sp)
      BY <1>2, Zenon DEF OnSameStack
    <3>2. d.back.sp + 2 \in Nat \ {0} /\ n2.sp <= n.sp
      BY <1>1, Heights, Zenon
    <3> QED
      BY <1>1, <3>1, <3>2, PlainShrinks
  <2>4. s2[n.ss][d.back.sp + 1] = s[n.ss][d.back.sp + 1]
    <3>1. d.back.sp + 1 \in 1 .. n2.sp
      BY <1>1, <2>2
    <3> QED
      BY <3>1 DEF Agree
  <2> QED
    BY <1>1, <1>2, <2>2, <2>3, <2>4 DEF OnSameStack
<1>3. ASSUME Crossed(p, s, d, n) PROVE Crossed(p, s2, d, n2) /\ n.ss = "kernel"
  BY <1>1, <1>3 DEF Crossed, Right
<1>4. ASSUME Crossed(p, s, d, n), NEW q \in {2, 3}, AtGroup(s, d, n, q) PROVE AtGroup(s2, d, n2, q)
  <2>1. n.ss = "kernel" /\ s2[d.back.ss] = s[d.back.ss]
    BY <1>3, <1>4
  <2>2. s["kernel"][q].is \in {"frame", "far"} /\ q <= n.sp
    BY <1>4 DEF AtGroup, Leads
  <2>3. q <= n2.sp /\ Plain(s2["kernel"], q + 1, n2.sp)
    <3>1. q # n.sp
      BY <2>1, <2>2
    <3>2. n2.sp = n.sp - 1
      OBVIOUS
    <3>3. q \in Nat /\ q <= n2.sp /\ n2.sp <= n.sp /\ q + 1 \in Nat \ {0}
      <4> HIDE DEF Link, Agree, Right
      <4> QED
        BY <1>1, <2>2, <3>1, <3>2
    <3>4. Plain(s["kernel"], q + 1, n.sp)
      BY <1>4 DEF AtGroup
    <3>5. Agree(s["kernel"], s2["kernel"], n2.sp)
      BY <2>1
    <3> QED
      BY <1>1, <3>3, <3>4, <3>5, PlainShrinks
  <2>4. s2["kernel"][q] = s["kernel"][q] /\ s2["kernel"][q - 1] = s["kernel"][q - 1]
        /\ s2["kernel"][1] = s["kernel"][1]
    <3>1. q \in 1 .. n2.sp /\ q - 1 \in 1 .. n2.sp /\ 1 \in 1 .. n2.sp
      <4> HIDE DEF Link, Agree, Right
      <4> QED
        BY <1>1, <2>3, SMTT(30)
    <3> QED
      BY <2>1, <3>1 DEF Agree
  <2> QED
    BY <1>4, <2>1, <2>3, <2>4 DEF AtGroup
<1> QED
  BY <1>2, <1>3, <1>4 DEF Link

(* What the members of a chain are.                                        *)
LEMMA Programs ==
  ASSUME NEW u \in Seq(Entry), NEW x \in Context, NEW k \in 1 .. Len(u) + 1
  PROVE  /\ Len(u) \in Nat /\ k \in Nat
         /\ Program(u, x, k) \in Context /\ Program(u, x, Len(u) + 1) = x
         /\ k <= Len(u) => u[k] \in Entry /\ Program(u, x, k) = u[k].back
<1>1. Len(u) \in Nat /\ k \in Nat
  OBVIOUS
<1>2. k <= Len(u) => u[k] \in Entry
  BY <1>1
<1>3. \A e \in Entry : e.back \in Context
  BY DEF Entry
<1>4. Program(u, x, Len(u) + 1) = x
  BY <1>1 DEF Program
<1>5. k <= Len(u) => Program(u, x, k) = u[k].back
  BY DEF Program
<1>6. ~(k <= Len(u)) => Program(u, x, k) = x
  BY DEF Program
<1> QED
  BY <1>1, <1>2, <1>3, <1>4, <1>5, <1>6

(* Past the crossing of a return all programs are in the kernel.           *)
LEMMA CrossedInKernel ==
  ASSUME NEW p \in BOOLEAN, NEW s \in [T!Stacks -> Seq(Group)], NEW u \in Seq(Entry), NEW x \in Context,
         Chain(p, s, u, x), NEW k \in 1 .. Len(u), Crossed(p, s, u[k], Program(u, x, k + 1))
  PROVE  x.cpl = 0 /\ x.ss = "kernel" /\ u[k].back.ss # "kernel"
<1>1. /\ Len(u) \in Nat /\ k \in 1 .. Len(u) + 1 /\ k + 1 \in 1 .. Len(u) + 1
      /\ Len(u) + 1 \in 1 .. Len(u) + 1
  OBVIOUS
<1>2. /\ Program(u, x, Len(u) + 1) = x /\ Program(u, x, k) = u[k].back
      /\ Program(u, x, k) \in Context /\ Program(u, x, k + 1) \in Context
  BY <1>1, Programs
<1>3. Right(p, x) /\ Right(p, u[k].back) /\ p /\ u[k].back.cpl = 3 /\ Program(u, x, k + 1).cpl = 0
  BY <1>1, <1>2 DEF Chain, Fits, Crossed
<1>4. x.cpl = 0
  <2>1. CASE k = Len(u)
    BY <1>2, <1>3, <2>1
  <2>2. CASE k # Len(u)
    <3>1. k + 1 < Len(u) + 1
      BY <1>1, <2>2
    <3>2. Below(Program(u, x, k + 1), x)
      BY <1>1, <1>2, <3>1 DEF Chain
    <3> QED
      BY <1>3, <3>2 DEF Below, Context
  <2> QED
    BY <2>1, <2>2
<1> QED
  BY <1>3, <1>4 DEF Right

(* Where a program on the stack in use is to be returned to.               *)
LEMMA ReturnOnTop ==
  ASSUME NEW p \in BOOLEAN, NEW s \in [T!Stacks -> Seq(Group)], NEW u \in Seq(Entry), NEW x \in Context,
         Chain(p, s, u, x), NEW k \in 1 .. Len(u), u[k].back.ss = x.ss
  PROVE  /\ u[k].back.sp < x.sp
         /\ s[x.ss][u[k].back.sp + 1].is \in {"frame", "far"}
<1>1. /\ Len(u) \in Nat /\ k \in 1 .. Len(u) + 1 /\ Len(u) + 1 \in 1 .. Len(u) + 1 /\ k < Len(u) + 1
  OBVIOUS
<1>2. Program(u, x, Len(u) + 1) = x /\ Program(u, x, k) = u[k].back
  BY <1>1, Programs
<1>3. u[k].back.sp < x.sp
  <2>1. Below(Program(u, x, k), Program(u, x, Len(u) + 1))
    BY <1>1 DEF Chain
  <2> QED
    BY <1>2, <2>1 DEF Below
<1>4. ~Crossed(p, s, u[k], Program(u, x, k + 1))
  BY CrossedInKernel
<1>5. OnSameStack(s, u[k], Program(u, x, k + 1))
  BY <1>1, <1>4 DEF Chain, Link
<1> QED
  BY <1>3, <1>5 DEF OnSameStack, Leads

(* The running program goes on: it moves to another address or a segment   *)
(* of its level, or pushes or pops a plain word.                           *)
LEMMA ChainGoesOn ==
  ASSUME NEW p \in BOOLEAN, NEW s \in [T!Stacks -> Seq(Group)], NEW s2 \in [T!Stacks -> Seq(Group)],
         NEW u \in Seq(Entry), NEW x \in Context, NEW x2 \in Context,
         Chain(p, s, u, x), Right(p, x2),
         x2.cpl = x.cpl, x2.vm = x.vm, x2.ss = x.ss, x2.fl.iopl = x.fl.iopl,
         x2.sp = Len(s2[x.ss]),
         \A t \in T!Stacks : t # x.ss => s2[t] = s[t],
         \/ x2.sp >= x.sp /\ Agree(s[x.ss], s2[x.ss], x.sp) /\ Plain(s2[x.ss], x.sp + 1, x2.sp)
         \/ x2.sp = x.sp - 1 /\ Agree(s[x.ss], s2[x.ss], x2.sp)
              /\ s[x.ss][x.sp].is \in {"error", "param"}
  PROVE  Chain(p, s2, u, x2)
<1> DEFINE K == 1 .. Len(u) + 1
<1>1. /\ Len(u) \in Nat /\ x.sp \in Nat /\ x2.sp \in Nat /\ x.ss \in T!Stacks
      /\ x.sp = Len(s[x.ss])
  BY DEF Context, Chain
<1>2. /\ Program(u, x, Len(u) + 1) = x /\ Program(u, x2, Len(u) + 1) = x2
      /\ \A k \in K : Program(u, x, k) \in Context
      /\ \A k \in 1 .. Len(u) : k \in K /\ k + 1 \in K /\ Program(u, x2, k) = Program(u, x, k)
                                /\ u[k] \in Entry /\ Program(u, x, k) = u[k].back
  BY <1>1, Programs DEF Program
<1>3. \A k \in K : Fits(p, s, Program(u, x, k))
  BY DEF Chain
<1>4. \A i, k \in K : i < k => Below(Program(u, x, i), Program(u, x, k))
  BY DEF Chain
<1>5. ASSUME NEW k \in 1 .. Len(u) PROVE Link(p, s, u[k], Program(u, x, k + 1))
  BY <1>5 DEF Chain
<1>6. ASSUME NEW k \in 1 .. Len(u), u[k].back.ss = x.ss PROVE u[k].back.sp < x2.sp
  <2>1. /\ u[k].back.sp < x.sp /\ u[k].back.sp \in Nat
        /\ s[x.ss][u[k].back.sp + 1].is \in {"frame", "far"}
    BY <1>2, <1>6, ReturnOnTop DEF Entry, Context
  <2>2. CASE x2.sp >= x.sp
    BY <1>1, <2>1, <2>2
  <2>3. CASE x2.sp = x.sp - 1 /\ s[x.ss][x.sp].is \in {"error", "param"}
    <3>1. x.sp # u[k].back.sp + 1
      BY <2>1, <2>3
    <3> QED
      BY <1>1, <2>1, <2>3, <3>1
  <2> QED
    BY <2>2, <2>3
<1>7. ASSUME NEW k \in 1 .. Len(u)
      PROVE  LET c == Program(u, x, k)
             IN  c.sp <= Len(s2[c.ss]) /\ Agree(s[c.ss], s2[c.ss], c.sp)
  <2> DEFINE c == Program(u, x, k)
  <2>1. c \in Context /\ c = u[k].back /\ c.ss \in T!Stacks /\ c.sp \in Nat /\ c.sp <= Len(s[c.ss])
    BY <1>2, <1>3 DEF Context, Fits
  <2>2. CASE c.ss = x.ss
    <3>1. c.sp < x2.sp /\ c.sp < x.sp
      <4>1. u[k].back.ss = x.ss
        BY <2>1, <2>2
      <4>2. u[k].back.sp < x2.sp
        BY <1>6, <4>1
      <4>3. u[k].back.sp < x.sp
        BY <4>1, ReturnOnTop
      <4> QED
        BY <2>1, <4>2, <4>3
    <3>2. Agree(s[x.ss], s2[x.ss], c.sp)
      <4>1. c.sp \in Nat /\ c.sp <= x.sp /\ c.sp <= x2.sp
        BY <1>1, <2>1, <3>1
      <4>2. Agree(s[x.ss], s2[x.ss], x.sp) \/ Agree(s[x.ss], s2[x.ss], x2.sp)
        OBVIOUS
      <4> QED
        BY <1>1, <4>1, <4>2, AgreesLower
    <3> QED
      BY <1>1, <2>1, <2>2, <3>1, <3>2
  <2>3. CASE c.ss # x.ss
    BY <2>1, <2>3 DEF Agree
  <2> QED
    BY <2>2, <2>3
<1>8. ASSUME NEW k \in K PROVE Fits(p, s2, Program(u, x2, k))
  <2>1. CASE k = Len(u) + 1
    BY <1>1, <1>2, <2>1 DEF Fits
  <2>2. CASE k # Len(u) + 1
    <3>1. k \in 1 .. Len(u)
      BY <1>1, <2>2
    <3> QED
      BY <1>2, <1>3, <1>7, <3>1 DEF Fits
  <2> QED
    BY <2>1, <2>2
<1>9. ASSUME NEW i \in K, NEW k \in K, i < k PROVE Below(Program(u, x2, i), Program(u, x2, k))
  <2>1. i \in 1 .. Len(u) /\ Below(Program(u, x, i), Program(u, x, k))
    BY <1>1, <1>4, <1>9
  <2>2. CASE k = Len(u) + 1
    BY <1>2, <1>6, <2>1, <2>2 DEF Below
  <2>3. CASE k # Len(u) + 1
    <3>1. k \in 1 .. Len(u)
      BY <1>1, <2>3
    <3> QED
      BY <1>2, <2>1, <3>1
  <2> QED
    BY <2>2, <2>3
<1>10. ASSUME NEW k \in 1 .. Len(u) PROVE Link(p, s2, u[k], Program(u, x2, k + 1))
  <2> DEFINE n == Program(u, x, k + 1)
  <2>1. /\ u[k] \in Entry /\ n \in Context /\ Right(p, n) /\ Link(p, s, u[k], n)
        /\ k \in Nat /\ n.sp \in Nat
    BY <1>2, <1>3, <1>5, SMTT(30) DEF Fits, Context
  <2>2. Crossed(p, s, u[k], n) => s2[u[k].back.ss] = s[u[k].back.ss]
    <3> SUFFICES ASSUME Crossed(p, s, u[k], n) PROVE s2[u[k].back.ss] = s[u[k].back.ss]
      OBVIOUS
    <3>1. u[k].back.ss \in T!Stacks
      BY <2>1 DEF Entry, Context
    <3>2. x.ss = "kernel" /\ u[k].back.ss # "kernel"
      BY CrossedInKernel
    <3> QED
      BY <3>1, <3>2
  <2>3. CASE k = Len(u)
    <3>1. n = x /\ Program(u, x2, k + 1) = x2
      BY <1>2, <2>3
    <3>2. Link(p, s, u[k], x) /\ Right(p, x) /\ (x.vm \/ x2.fl.iopl = x.fl.iopl)
          /\ (Crossed(p, s, u[k], x) => s2[u[k].back.ss] = s[u[k].back.ss])
          /\ u[k] \in Entry /\ k \in Nat
      BY <2>1, <2>2, <3>1
    <3>3. CASE x2.sp >= x.sp /\ Agree(s[x.ss], s2[x.ss], x.sp) /\ Plain(s2[x.ss], x.sp + 1, x2.sp)
      <4>1. Link(p, s2, u[k], x2)
        BY <3>2, <3>3, LinkExtends
      <4> QED
        BY <3>1, <4>1
    <3>4. CASE /\ x2.sp = x.sp - 1 /\ Agree(s[x.ss], s2[x.ss], x2.sp)
               /\ s[x.ss][x.sp].is \in {"error", "param"}
      <4>1. Link(p, s2, u[k], x2)
        BY <3>2, <3>4, LinkShrinks
      <4> QED
        BY <3>1, <4>1
    <3> QED
      BY <3>3, <3>4
  <2>4. CASE k # Len(u)
    <3>1. k + 1 \in 1 .. Len(u)
      BY <1>1, <2>4
    <3>2. Program(u, x2, k + 1) = n /\ Agree(s[n.ss], s2[n.ss], n.sp)
      BY <1>2, <1>7, <3>1
    <3>3. Link(p, s2, u[k], n)
      BY <2>1, <2>2, <3>2, LinkStays, ZenonT(40)
    <3> QED
      BY <3>2, <3>3
  <2> QED
    BY <2>3, <2>4
<1>11. Plain(s2[Program(u, x2, 1).ss], 1, Program(u, x2, 1).sp)
  <2>1. Plain(s[Program(u, x, 1).ss], 1, Program(u, x, 1).sp) /\ 1 \in K /\ 1 \in Nat \ {0}
    BY <1>1 DEF Chain
  <2>2. CASE Len(u) = 0
    <3>1. Program(u, x, 1) = x /\ Program(u, x2, 1) = x2
      BY <1>2, <2>2
    <3> QED
      BY <1>1, <2>1, <3>1, PlainExtends, PlainShrinks
  <2>3. CASE Len(u) # 0
    <3>1. 1 \in 1 .. Len(u)
      BY <1>1, <2>3
    <3> DEFINE c == Program(u, x, 1)
    <3>2. Program(u, x2, 1) = c /\ Agree(s[c.ss], s2[c.ss], c.sp) /\ c.sp \in Nat /\ c.sp <= c.sp
      BY <1>2, <1>7, <3>1 DEF Context
    <3> QED
      BY <2>1, <3>2, PlainShrinks
  <2> QED
    BY <2>2, <2>3
<1>12. ASSUME NEW t \in {"user", "8086"}, \A k \in K : Program(u, x2, k).ss # t
       PROVE  Plain(s2[t], 1, Len(s2[t]))
  <2>1. \A k \in K : Program(u, x, k).ss = Program(u, x2, k).ss
    <3> TAKE k \in K
    <3>1. CASE k = Len(u) + 1
      BY <1>2, <3>1
    <3>2. CASE k # Len(u) + 1
      <4>1. k \in 1 .. Len(u)
        BY <1>1, <3>2
      <4> QED
        BY <1>2, <4>1
    <3> QED
      BY <3>1, <3>2
  <2>2. Len(u) + 1 \in K
    BY <1>1
  <2>3. t # x.ss /\ t \in T!Stacks
    BY <1>2, <1>12, <2>2 DEF T!Stacks
  <2>4. \A k \in 1 .. Len(u) + 1 : Program(u, x, k).ss # t
    BY <1>12, <2>1
  <2>5. Plain(s[t], 1, Len(s[t]))
    BY <2>4 DEF Chain
  <2> QED
    BY <2>3, <2>5
<1> HIDE DEF K
<1>13. x2.sp = Len(s2[x2.ss])
  OBVIOUS
<1> QED
  BY <1>8, <1>9, <1>10, <1>11, <1>12, <1>13 DEF Chain, K

(* The running program is called or interrupted: context d.back waits for  *)
(* the return d, and x2 runs, on the same stack or in the kernel.          *)
LEMMA ChainGrows ==
  ASSUME NEW p \in BOOLEAN, NEW s \in [T!Stacks -> Seq(Group)], NEW s2 \in [T!Stacks -> Seq(Group)],
         NEW u \in Seq(Entry), NEW d \in Entry, NEW x2 \in Context,
         Chain(p, s, u, d.back), Right(p, x2), Link(p, s2, d, x2), Below(d.back, x2),
         x2.sp = Len(s2[x2.ss]),
         \A t \in T!Stacks : t # x2.ss => s2[t] = s[t],
         \/ x2.ss = d.back.ss /\ Agree(s[x2.ss], s2[x2.ss], d.back.sp)
         \/ x2.ss = "kernel" /\ d.back.cpl = 3 /\ p
  PROVE  Chain(p, s2, Append(u, d), x2)
<1> DEFINE c == d.back
           w == Append(u, d)
           N == Len(u) + 1
<1>1. /\ Len(u) \in Nat /\ N \in Nat /\ c \in Context /\ c.sp \in Nat /\ c.ss \in T!Stacks /\ x2.sp \in Nat
      /\ w \in Seq(Entry) /\ Len(w) = N /\ w[N] = d /\ \A k \in 1 .. Len(u) : w[k] = u[k]
  BY DEF Entry, Context
<1>2. /\ Program(u, c, N) = c /\ Program(w, x2, N + 1) = x2
      /\ \A k \in 1 .. N : Program(u, c, k) \in Context
      /\ \A k \in 1 .. Len(u) : u[k] \in Entry /\ Program(u, c, k) = u[k].back
  BY <1>1, Programs DEF Program
<1>3. \A k \in 1 .. N : Program(w, x2, k) = Program(u, c, k)
  <2> TAKE k \in 1 .. N
  <2>1. CASE k = N
    BY <1>1, <1>2, <2>1 DEF Program
  <2>2. CASE k # N
    <3>1. k \in 1 .. Len(u) /\ k <= Len(w)
      BY <1>1, <2>2
    <3> QED
      BY <1>1, <3>1 DEF Program
  <2> QED
    BY <2>1, <2>2
<1>4. /\ \A k \in 1 .. N : Fits(p, s, Program(u, c, k))
      /\ \A i, k \in 1 .. N : i < k => Below(Program(u, c, i), Program(u, c, k))
  BY DEF Chain
<1>5. \A k \in 1 .. Len(u) : Link(p, s, u[k], Program(u, c, k + 1))
  BY DEF Chain
<1> HIDE DEF N, w
<1>6. ASSUME NEW k \in 1 .. N
      PROVE  /\ Program(u, c, k).cpl >= c.cpl
             /\ Program(u, c, k).ss = c.ss => Program(u, c, k).sp <= c.sp
  <2>1. CASE k = N
    BY <1>1, <1>2, <2>1, SMTT(30) DEF Context
  <2>2. CASE k # N
    <3>1. k < N /\ N \in 1 .. N
      BY <1>1, <2>2
    <3>2. Below(Program(u, c, k), c)
      BY <1>2, <1>4, <3>1
    <3>3. Program(u, c, k).sp \in Nat
      BY <1>2 DEF Context
    <3> QED
      BY <1>1, <3>2, <3>3 DEF Below
  <2> QED
    BY <2>1, <2>2
<1>7. c.ss = x2.ss => c.sp < x2.sp
  BY DEF Below
<1>8. ASSUME NEW k \in 1 .. N
      PROVE  LET b == Program(u, c, k)
             IN  /\ b.ss = x2.ss => b.ss = c.ss
                 /\ b.sp <= Len(s2[b.ss]) /\ Agree(s[b.ss], s2[b.ss], b.sp)
  <2> DEFINE b == Program(u, c, k)
  <2>1. b \in Context /\ b.ss \in T!Stacks /\ b.sp \in Nat /\ b.sp <= Len(s[b.ss]) /\ Right(p, b)
    BY <1>2, <1>4 DEF Fits, Context
  <2> HIDE DEF b
  <2>2. CASE x2.ss = c.ss /\ Agree(s[x2.ss], s2[x2.ss], c.sp)
    <3>1. CASE b.ss = c.ss
      <4>1. b.sp <= c.sp /\ c.sp < x2.sp
        BY <1>6, <1>7, <2>2, <3>1 DEF b
      <4>2. Agree(s[c.ss], s2[c.ss], b.sp)
        BY <1>1, <2>1, <2>2, <4>1, AgreesLower
      <4>3. b.sp <= Len(s2[c.ss])
        BY <1>1, <2>1, <2>2, <4>1
      <4> QED
        BY <3>1, <4>2, <4>3 DEF b
    <3>2. CASE b.ss # c.ss
      <4>1. s2[b.ss] = s[b.ss]
        BY <2>1, <2>2, <3>2
      <4> QED
        BY <2>1, <2>2, <3>2, <4>1 DEF Agree, b
    <3> QED
      BY <3>1, <3>2
  <2>3. CASE x2.ss = "kernel" /\ c.cpl = 3 /\ p
    <3>1. b.cpl = 3
      BY <1>6, <2>1, <2>3 DEF b, Context
    <3>2. b.ss # "kernel"
      BY <2>1, <2>3, <3>1 DEF Right
    <3>3. s2[b.ss] = s[b.ss]
      BY <2>1, <2>3, <3>2
    <3> QED
      BY <2>1, <2>3, <3>2, <3>3 DEF Agree, b
  <2> QED
    BY <2>2, <2>3
<1>9. ASSUME NEW k \in 1 .. N + 1 PROVE Fits(p, s2, Program(w, x2, k))
  <2>1. CASE k = N + 1
    BY <1>1, <1>2, <2>1 DEF Fits
  <2>2. CASE k # N + 1
    <3>1. k \in 1 .. N
      BY <1>1, <2>2
    <3> QED
      BY <1>3, <1>4, <1>8, <3>1 DEF Fits
  <2> QED
    BY <2>1, <2>2
<1>10. ASSUME NEW i \in 1 .. N + 1, NEW k \in 1 .. N + 1, i < k
       PROVE  Below(Program(w, x2, i), Program(w, x2, k))
  <2>1. i \in 1 .. N
    BY <1>1, <1>10
  <2>2. CASE k = N + 1
    <3> DEFINE b == Program(u, c, i)
    <3>1. b.cpl >= c.cpl /\ (b.ss = c.ss => b.sp <= c.sp) /\ (b.ss = x2.ss => b.ss = c.ss)
      BY <1>6, <1>8, <2>1
    <3>2. b \in Context
      BY <1>2, <2>1
    <3>3. Program(w, x2, i) = b /\ Program(w, x2, k) = x2
      BY <1>2, <1>3, <2>1, <2>2
    <3> HIDE DEF b
    <3>4. b.cpl >= x2.cpl
      <4>1. c.cpl >= x2.cpl
        BY DEF Below
      <4>2. b.cpl \in {0, 3} /\ c.cpl \in {0, 3} /\ x2.cpl \in {0, 3}
        BY <1>1, <3>2 DEF Context
      <4> QED
        BY <3>1, <4>1, <4>2
    <3>5. b.ss = x2.ss => b.sp < x2.sp
      BY <1>1, <1>7, <3>1, <3>2 DEF Context
    <3> QED
      BY <3>3, <3>4, <3>5 DEF Below
  <2>3. CASE k # N + 1
    <3>1. k \in 1 .. N
      BY <1>1, <2>3
    <3> QED
      BY <1>3, <1>4, <1>10, <2>1, <3>1
  <2> QED
    BY <2>2, <2>3
<1>11. ASSUME NEW k \in 1 .. N PROVE Link(p, s2, w[k], Program(w, x2, k + 1))
  <2>1. CASE k = N
    BY <1>1, <1>2, <2>1 DEF N
  <2>2. CASE k # N
    <3>1. k \in 1 .. Len(u) /\ k + 1 \in 1 .. N /\ k \in Nat
      BY <1>1, <2>2 DEF N
    <3> DEFINE n == Program(u, c, k + 1)
    <3>2. Program(w, x2, k + 1) = n /\ w[k] = u[k]
      BY <1>1, <1>3, <3>1
    <3>3. n \in Context /\ Right(p, n) /\ u[k] \in Entry /\ Link(p, s, u[k], n)
          /\ Agree(s[n.ss], s2[n.ss], n.sp)
      BY <1>2, <1>4, <1>5, <1>8, <3>1 DEF Fits
    <3>4. Crossed(p, s, u[k], n) => s2[u[k].back.ss] = s[u[k].back.ss]
      <4> SUFFICES ASSUME Crossed(p, s, u[k], n) PROVE s2[u[k].back.ss] = s[u[k].back.ss]
        OBVIOUS
      <4>1. c.cpl = 0 /\ c.ss = "kernel" /\ u[k].back.ss # "kernel"
        <5>1. c \in Context /\ k \in 1 .. Len(u)
          BY <1>1, <3>1
        <5> QED
          BY <5>1, CrossedInKernel
      <4>2. u[k].back.ss \in T!Stacks
        BY <3>3 DEF Entry, Context
      <4> QED
        BY <4>1, <4>2
    <3>5. Link(p, s2, u[k], n)
      BY <3>1, <3>3, <3>4, LinkStays
    <3> QED
      BY <3>2, <3>5
  <2> QED
    BY <2>1, <2>2
<1>12. Plain(s2[Program(w, x2, 1).ss], 1, Program(w, x2, 1).sp)
  <2>1. 1 \in 1 .. N /\ 1 \in Nat \ {0}
    BY <1>1 DEF N
  <2> DEFINE b == Program(u, c, 1)
  <2>2. Plain(s[b.ss], 1, b.sp) /\ Agree(s[b.ss], s2[b.ss], b.sp) /\ b.sp \in Nat /\ b.sp <= b.sp
    <3>1. Plain(s[b.ss], 1, b.sp)
      BY Zenon DEF Chain
    <3>2. b \in Context /\ Agree(s[b.ss], s2[b.ss], b.sp)
      BY <1>2, <1>8, <2>1, Zenon
    <3>3. b.sp \in Nat
      BY <3>2 DEF Context
    <3> QED
      BY <3>1, <3>2, <3>3
  <2>3. Program(w, x2, 1) = b
    BY <1>3, <2>1
  <2> QED
    BY <2>1, <2>2, <2>3, PlainShrinks
<1>13. ASSUME NEW t \in {"user", "8086"}, \A k \in 1 .. N + 1 : Program(w, x2, k).ss # t
       PROVE  Plain(s2[t], 1, Len(s2[t]))
  <2>1. \A k \in 1 .. N : Program(u, c, k).ss # t
    BY <1>1, <1>3, <1>13
  <2>2. N + 1 \in 1 .. N + 1
    BY <1>1
  <2>3. t # x2.ss /\ t \in T!Stacks
    BY <1>2, <1>13, <2>2 DEF T!Stacks
  <2>4. Plain(s[t], 1, Len(s[t]))
    BY <2>1 DEF Chain, N
  <2> QED
    BY <2>3, <2>4
<1>14. Len(w) = N
  BY <1>1
<1>15. Chain(p, s2, w, x2)
  BY <1>9, <1>10, <1>11, <1>12, <1>13, <1>14 DEF Chain
<1> QED
  BY <1>15 DEF w

LastOf(u, v, d) == Len(u) = Len(v) + 1 /\ u[Len(u)] = d /\ \A k \in 1 .. Len(v) : v[k] = u[k]

SameBut(s, s2, a, b) == \A t \in T!Stacks : t # a /\ t # b => s2[t] = s[t]

(* The running program returns, by d, to the one that waits for it.        *)
LEMMA ChainReturns ==
  ASSUME NEW p \in BOOLEAN, NEW s \in [T!Stacks -> Seq(Group)], NEW s2 \in [T!Stacks -> Seq(Group)],
         NEW u \in Seq(Entry), NEW v \in Seq(Entry), NEW x \in Context, NEW x2 \in Context, NEW d \in Entry,
         LastOf(u, v, d),
         Chain(p, s, u, x), Right(p, x2),
         x2.cpl = d.back.cpl, x2.vm = d.back.vm, x2.ss = d.back.ss,
         d.back.vm \/ x2.fl.iopl = d.back.fl.iopl,
         x2.sp = Len(s2[x2.ss]), x2.sp = d.back.sp,
         Agree(s[x2.ss], s2[x2.ss], x2.sp),
         SameBut(s, s2, x.ss, x2.ss)
  PROVE  Chain(p, s2, v, x2)
<1> DEFINE c == d.back
           N == Len(u)
<1> USE DEF LastOf, SameBut
<1>1. /\ Len(v) \in Nat /\ N \in Nat \ {0} /\ Len(v) = N - 1 /\ c \in Context /\ c.sp \in Nat
      /\ c.ss \in T!Stacks /\ x2.sp \in Nat
  <2>1. Len(v) \in Nat /\ Len(u) \in Nat
    OBVIOUS
  <2>2. c \in Context
    BY DEF Entry
  <2>3. c.sp \in Nat /\ c.ss \in T!Stacks /\ x2.sp \in Nat
    BY <2>2 DEF Context
  <2> HIDE DEF c
  <2> QED
    BY <2>1, <2>2, <2>3
<1>2. /\ Program(v, x2, N) = x2 /\ Program(u, x, N) = c
      /\ \A k \in 1 .. N : /\ u[k] \in Entry /\ Program(u, x, k) = u[k].back
                           /\ Program(u, x, k) \in Context /\ Program(u, x, k + 1) \in Context
      /\ \A k \in 1 .. Len(v) : Program(v, x2, k) = Program(u, x, k) /\ v[k] = u[k]
  <2>1. \A k \in 1 .. N : k \in 1 .. N + 1 /\ k + 1 \in 1 .. N + 1
    BY <1>1
  <2>2. \A k \in 1 .. N : u[k] \in Entry /\ Program(u, x, k) = u[k].back
    BY DEF Program
  <2>3. \A k \in 1 .. N : Program(u, x, k) \in Context /\ Program(u, x, k + 1) \in Context
    BY <2>1, Programs
  <2>4. Program(v, x2, N) = x2 /\ Program(u, x, N) = c
    BY <1>1 DEF Program
  <2>5. \A k \in 1 .. Len(v) : Program(v, x2, k) = Program(u, x, k) /\ v[k] = u[k]
    BY <1>1 DEF Program
  <2> QED
    BY <2>2, <2>3, <2>4, <2>5
<1>3. /\ \A k \in 1 .. N + 1 : Fits(p, s, Program(u, x, k))
      /\ \A i, k \in 1 .. N + 1 : i < k => Below(Program(u, x, i), Program(u, x, k))
      /\ \A k \in 1 .. N : Link(p, s, u[k], Program(u, x, k + 1))
  BY DEF Chain
<1>4. Program(u, x, N + 1) = x
  BY <1>1 DEF Program
<1> HIDE DEF N
(* Other stacks than that of c are only left at a crossing.                *)
<1>5. ASSUME x.ss # c.ss PROVE Crossed(p, s, d, x) /\ x.ss = "kernel" /\ c.ss # "kernel" /\ c.cpl = 3 /\ p
  <2>1. N \in 1 .. N
    BY <1>1
  <2>2. Link(p, s, d, x)
    BY <1>3, <1>4, <2>1 DEF N
  <2>3. Crossed(p, s, d, x)
    BY <1>5, <2>2 DEF Link, OnSameStack
  <2>4. x.ss = "kernel" /\ c.ss # "kernel"
    BY <1>4, <2>1, <2>3, CrossedInKernel, ZenonT(40) DEF N
  <2> QED
    BY <2>3, <2>4 DEF Crossed
<1>6. ASSUME NEW k \in 1 .. Len(v) PROVE Below(Program(u, x, k), c) /\ N > 1 /\ x2.sp = c.sp
  <2>1. k \in 1 .. N + 1 /\ N \in 1 .. N + 1 /\ k < N
    BY <1>1
  <2> QED
    BY <1>1, <1>2, <1>3, <2>1 DEF N
<1>7. ASSUME NEW t \in T!Stacks, t # x2.ss, t # x.ss \/ t # "kernel" PROVE s2[t] = s[t]
  <2>1. CASE x.ss = c.ss
    BY <1>7, <2>1
  <2>2. CASE x.ss # c.ss
    BY <1>5, <1>7, <2>2
  <2> QED
    BY <2>1, <2>2
<1>8. ASSUME NEW k \in 1 .. Len(v)
      PROVE  LET b == Program(u, x, k)
             IN  b.sp <= Len(s2[b.ss]) /\ Agree(s[b.ss], s2[b.ss], b.sp)
  <2> DEFINE b == Program(u, x, k)
  <2>1. k \in 1 .. N /\ k \in 1 .. N + 1
    BY <1>1
  <2>2. b \in Context /\ b.ss \in T!Stacks /\ b.sp \in Nat /\ b.sp <= Len(s[b.ss]) /\ Right(p, b)
    BY <1>2, <1>3, <2>1 DEF Fits, Context
  <2>3. Below(b, c) /\ x2.sp = c.sp
    BY <1>6
  <2> HIDE DEF b
  <2>4. CASE b.ss = c.ss
    <3>1. b.sp <= x2.sp
      BY <1>1, <2>2, <2>3, <2>4 DEF Below
    <3>2. Agree(s[b.ss], s2[b.ss], b.sp)
      BY <1>1, <2>2, <2>4, <3>1, AgreesLower
    <3> QED
      BY <2>4, <3>1, <3>2 DEF b
  <2>5. CASE b.ss # c.ss
    <3>1. s2[b.ss] = s[b.ss]
      <4>1. CASE x.ss = c.ss
        BY <1>7, <2>2, <2>5, <4>1
      <4>2. CASE x.ss # c.ss
        <5>1. b.cpl = 3
          BY <1>5, <2>2, <2>3, <4>2, SMTT(30) DEF Below, Context
        <5>2. b.ss # "kernel"
          BY <1>5, <2>2, <4>2, <5>1 DEF Right
        <5> QED
          BY <1>7, <2>2, <2>5, <5>2
      <4> QED
        BY <4>1, <4>2
    <3> QED
      BY <2>2, <3>1 DEF Agree, b
  <2> QED
    BY <2>4, <2>5
<1>9. ASSUME NEW k \in 1 .. Len(v) + 1 PROVE Fits(p, s2, Program(v, x2, k))
  <2>1. CASE k = N
    <3>1. Program(v, x2, k) = x2
      BY <1>2, <2>1
    <3>2. Right(p, x2) /\ x2.sp <= Len(s2[x2.ss])
      BY <1>1
    <3> QED
      BY <3>1, <3>2 DEF Fits
  <2>2. CASE k # N
    <3>1. k \in 1 .. Len(v) /\ k \in 1 .. N + 1
      BY <1>1, <2>2
    <3> QED
      BY <1>2, <1>3, <1>8, <3>1 DEF Fits
  <2> QED
    BY <2>1, <2>2
<1>10. ASSUME NEW i \in 1 .. Len(v) + 1, NEW k \in 1 .. Len(v) + 1, i < k
       PROVE  Below(Program(v, x2, i), Program(v, x2, k))
  <2>1. i \in 1 .. Len(v) /\ i \in 1 .. N + 1
    BY <1>1, <1>10
  <2>2. CASE k = N
    BY <1>2, <1>6, <2>1, <2>2 DEF Below
  <2>3. CASE k # N
    <3>1. k \in 1 .. Len(v) /\ k \in 1 .. N + 1
      BY <1>1, <2>3
    <3> QED
      BY <1>2, <1>3, <1>10, <2>1, <3>1
  <2> QED
    BY <2>2, <2>3
<1>11. ASSUME NEW k \in 1 .. Len(v) PROVE Link(p, s2, v[k], Program(v, x2, k + 1))
  <2>1. k \in 1 .. N /\ k + 1 \in 1 .. N /\ k + 1 \in 1 .. N + 1 /\ k \in Nat /\ k + 1 < N + 1
    BY <1>1
  <2> DEFINE n == Program(u, x, k + 1)
  <2>2. n \in Context /\ Right(p, n) /\ u[k] \in Entry /\ Link(p, s, u[k], n) /\ v[k] = u[k]
    BY <1>2, <1>3, <2>1 DEF Fits
  <2>3. Crossed(p, s, u[k], n) => s2[u[k].back.ss] = s[u[k].back.ss]
    <3> SUFFICES ASSUME Crossed(p, s, u[k], n) PROVE s2[u[k].back.ss] = s[u[k].back.ss]
      OBVIOUS
    <3>1. x.ss = "kernel" /\ u[k].back.ss # "kernel"
      BY <2>1, CrossedInKernel, ZenonT(40) DEF N
    <3>2. c.cpl # 3
      <4>1. n.cpl = 0
        BY DEF Crossed
      <4>2. CASE k + 1 = N
        BY <1>2, <4>1, <4>2
      <4>3. CASE k + 1 # N
        <5>1. k + 1 \in 1 .. Len(v)
          BY <1>1, <2>1, <4>3
        <5>2. Below(n, c)
          BY <1>6, <5>1
        <5> QED
          BY <1>1, <4>1, <5>2, SMTT(30) DEF Below, Context
      <4> QED
        BY <4>2, <4>3
    <3>3. x.ss = c.ss
      BY <1>5, <3>2
    <3>4. u[k].back.ss \in T!Stacks
      BY <2>2 DEF Entry, Context
    <3> QED
      BY <1>7, <3>1, <3>3, <3>4
  <2>4. CASE k + 1 = N
    <3>1. n = c /\ Program(v, x2, k + 1) = x2 /\ x2.sp = c.sp
      BY <1>2, <1>6, <2>4
    <3>2. Link(p, s, u[k], c) /\ Right(p, c) /\ (c.vm \/ x2.fl.iopl = c.fl.iopl)
          /\ (Crossed(p, s, u[k], c) => s2[u[k].back.ss] = s[u[k].back.ss]) /\ u[k] \in Entry /\ k \in Nat
      BY <2>1, <2>2, <2>3, <3>1
    <3>3. Agree(s[c.ss], s2[c.ss], c.sp) /\ Plain(s2[c.ss], c.sp + 1, x2.sp) /\ x2.sp >= c.sp
      BY <1>1, <3>1 DEF Plain
    <3>4. Link(p, s2, u[k], x2)
      BY <1>1, <3>2, <3>3, LinkExtends
    <3> QED
      BY <2>2, <3>1, <3>4
  <2>5. CASE k + 1 # N
    <3>1. k + 1 \in 1 .. Len(v)
      BY <1>1, <2>1, <2>5
    <3>2. Program(v, x2, k + 1) = n /\ Agree(s[n.ss], s2[n.ss], n.sp)
      BY <1>2, <1>8, <3>1
    <3>3. Link(p, s2, u[k], n)
      BY <2>1, <2>2, <2>3, <3>2, LinkStays, ZenonT(40)
    <3> QED
      BY <2>2, <3>2, <3>3
  <2> QED
    BY <2>4, <2>5
<1>12. Plain(s2[Program(v, x2, 1).ss], 1, Program(v, x2, 1).sp)
  <2> DEFINE b == Program(u, x, 1)
  <2>1. 1 \in 1 .. N /\ 1 \in Nat \ {0} /\ b \in Context /\ b.sp \in Nat /\ Plain(s[b.ss], 1, b.sp)
    <3>1. 1 \in 1 .. N /\ 1 \in Nat \ {0}
      BY <1>1
    <3>2. b \in Context
      BY <1>2, <3>1
    <3>3. b.sp \in Nat
      BY <3>2 DEF Context
    <3>4. Plain(s[b.ss], 1, b.sp)
      BY DEF Chain
    <3> QED
      BY <3>1, <3>2, <3>3, <3>4
  <2>2. CASE N = 1
    <3>1. b = c /\ Program(v, x2, 1) = x2
      BY <1>2, <2>2
    <3> QED
      BY <1>1, <2>1, <2>2, <3>1, PlainShrinks
  <2>3. CASE N # 1
    <3>1. 1 \in 1 .. Len(v)
      BY <1>1, <2>3
    <3>2. Program(v, x2, 1) = b /\ Agree(s[b.ss], s2[b.ss], b.sp) /\ b.sp <= b.sp
      BY <1>2, <1>8, <2>1, <3>1
    <3> QED
      BY <2>1, <3>2, PlainShrinks
  <2> QED
    BY <2>2, <2>3
<1>13. ASSUME NEW t \in {"user", "8086"}, \A k \in 1 .. Len(v) + 1 : Program(v, x2, k).ss # t
       PROVE  Plain(s2[t], 1, Len(s2[t]))
  <2>1. t # x2.ss /\ t \in T!Stacks /\ t # "kernel"
    BY <1>1, <1>2, <1>13 DEF T!Stacks
  <2>2. s2[t] = s[t]
    BY <1>7, <2>1
  <2>3. ASSUME NEW k \in 1 .. N + 1 PROVE Program(u, x, k).ss # t
    <3>1. CASE k \in 1 .. Len(v)
      BY <1>1, <1>2, <1>13, <3>1
    <3>2. CASE k = N
      BY <1>2, <2>1, <3>2
    <3>3. CASE k = N + 1
      BY <1>4, <1>5, <2>1, <3>3
    <3> QED
      BY <1>1, <3>1, <3>2, <3>3
  <2>4. Plain(s[t], 1, Len(s[t]))
    BY <2>3 DEF Chain, N
  <2> QED
    BY <2>2, <2>4
<1> QED
  BY <1>9, <1>10, <1>11, <1>12, <1>13 DEF Chain

(* The group of the return d is the last one of the stack in use.          *)
TopHere(s, d, x) ==
  OnSameStack(s, d, x) /\ x.sp = d.back.sp + 1 /\ ~s[x.ss][x.sp].fl.vm

TopOutside(p, s, d, x) ==
  /\ Crossed(p, s, d, x) /\ x.ss = "kernel" /\ x.cpl = 0 /\ d.back.ss # "kernel"
  /\ x.sp \in {2, 3} /\ AtGroup(s, d, x, x.sp)

(* What a return finds on top of the stack in use is its own group.        *)
LEMMA TopIsReturn ==
  ASSUME NEW p \in BOOLEAN, NEW s \in [T!Stacks -> Seq(Group)], NEW u \in Seq(Entry), NEW x \in Context,
         NEW d \in Entry, Chain(p, s, u, x), Len(u) # 0, u[Len(u)] = d,
         s[x.ss][x.sp].is \in {"frame", "far"}, x.sp # 0
  PROVE  /\ Leads(s[x.ss][x.sp], d) /\ Right(p, d.back) /\ Right(p, x) /\ d.back.sp <= Len(s[d.back.ss])
         /\ d.back.vm \/ d.back.fl.iopl = x.fl.iopl
         /\ TopHere(s, d, x) \/ TopOutside(p, s, d, x)
<1>1. /\ Len(u) \in 1 .. Len(u) /\ Len(u) \in 1 .. Len(u) + 1 /\ Len(u) + 1 \in 1 .. Len(u) + 1
      /\ d.back \in Context /\ d.back.sp \in Nat /\ x.sp \in Nat
  BY DEF Entry, Context
<1>2. Program(u, x, Len(u) + 1) = x /\ Program(u, x, Len(u)) = d.back
  BY <1>1 DEF Program
<1>3. Link(p, s, d, x) /\ Fits(p, s, d.back) /\ Fits(p, s, x)
  BY <1>1, <1>2 DEF Chain
<1>4. CASE OnSameStack(s, d, x)
  <2>1. x.sp > d.back.sp /\ Plain(s[x.ss], d.back.sp + 2, x.sp) /\ Leads(s[x.ss][d.back.sp + 1], d)
        /\ ~s[x.ss][d.back.sp + 1].fl.vm
    BY <1>4 DEF OnSameStack
  <2>2. x.sp \notin (d.back.sp + 2) .. x.sp
    BY <2>1 DEF Plain
  <2>3. x.sp = d.back.sp + 1
    BY <1>1, <2>1, <2>2
  <2> QED
    BY <1>3, <1>4, <2>1, <2>3 DEF Link, Fits, TopHere
<1>5. CASE Crossed(p, s, d, x)
  <2>1. x.ss = "kernel" /\ x.cpl = 0 /\ d.back.ss # "kernel"
    BY <1>1, <1>2, <1>5, CrossedInKernel
  <2>2. ASSUME NEW q \in {2, 3}, AtGroup(s, d, x, q) PROVE q = x.sp
    <3>1. q <= x.sp /\ Plain(s[x.ss], q + 1, x.sp)
      BY <2>1, <2>2 DEF AtGroup
    <3>2. x.sp \notin (q + 1) .. x.sp
      BY <3>1 DEF Plain
    <3> QED
      BY <1>1, <3>1, <3>2
  <2>3. ~OnSameStack(s, d, x)
    BY <2>1 DEF OnSameStack
  <2>4. x.sp \in {2, 3} /\ AtGroup(s, d, x, x.sp)
    BY <1>3, <2>2, <2>3 DEF Link
  <2>5. Leads(s[x.ss][x.sp], d)
    BY <2>1, <2>4 DEF AtGroup
  <2> QED
    BY <1>3, <1>5, <2>1, <2>4, <2>5 DEF Link, Fits, TopOutside
<1> QED
  BY <1>3, <1>4, <1>5 DEF Link

(* Words pushed by a transfer.                                             *)
LEMMA Pushed ==
  ASSUME NEW t \in Seq(Group), NEW g \in Group
  PROVE  /\ Append(t, g) \in Seq(Group) /\ Len(Append(t, g)) = Len(t) + 1
         /\ Agree(t, Append(t, g), Len(t)) /\ Append(t, g)[Len(t) + 1] = g
BY DEF Agree

LEMMA Codes ==
  ASSUME NEW g \in T!Gate
  PROVE  /\ T!Code(g) \in Seq(Group) /\ Len(T!Code(g)) \in {0, 1}
         /\ Plain(T!Code(g), 1, Len(T!Code(g)))
<1>1. T!Word("error") \in Group /\ T!Word("error").is = "error"
  BY DEF T!Word, Group, T!Segs, T!None, T!Flags
<1> HIDE DEF T!Word
<1>2. CASE g.err
  <2>1. T!Code(g) = <<T!Word("error")>>
    BY <1>2 DEF T!Code
  <2>2. Len(T!Code(g)) = 1 /\ T!Code(g)[1] = T!Word("error") /\ T!Code(g) \in Seq(Group)
    BY <1>1, <2>1
  <2> QED
    BY <1>1, <2>2 DEF Plain
<1>3. CASE ~g.err
  <2>1. T!Code(g) = <<>>
    BY <1>3 DEF T!Code
  <2>2. Len(T!Code(g)) = 0 /\ T!Code(g) \in Seq(Group)
    BY <2>1
  <2> QED
    BY <2>2 DEF Plain
<1> QED
  BY <1>2, <1>3

LEMMA WithCode ==
  ASSUME NEW t \in Seq(Group), NEW w \in Seq(Group), Plain(w, 1, Len(w))
  PROVE  /\ t \o w \in Seq(Group) /\ Len(t \o w) = Len(t) + Len(w)
         /\ \A i \in 1 .. Len(t) : (t \o w)[i] = t[i]
         /\ Agree(t, t \o w, Len(t)) /\ Plain(t \o w, Len(t) + 1, Len(t \o w))
<1>1. Len(t) \in Nat /\ Len(w) \in Nat
  OBVIOUS
<1>2. /\ t \o w \in Seq(Group) /\ Len(t \o w) = Len(t) + Len(w)
      /\ \A i \in 1 .. Len(t) + Len(w) : (t \o w)[i] = IF i <= Len(t) THEN t[i] ELSE w[i - Len(t)]
  BY ConcatProperties
<1>3. \A i \in 1 .. Len(t) : (t \o w)[i] = t[i]
  BY <1>1, <1>2
<1>4. ASSUME NEW i \in Len(t) + 1 .. Len(t) + Len(w) PROVE (t \o w)[i].is \in {"error", "param"}
  <2>1. (t \o w)[i] = w[i - Len(t)] /\ i - Len(t) \in 1 .. Len(w)
    BY <1>1, <1>2, <1>4
  <2> QED
    BY <2>1 DEF Plain
<1> QED
  BY <1>2, <1>3, <1>4 DEF Agree, Plain

(* The same for words that are pushed together, q of them.                 *)
WithCodeOnTop(w, v, q) ==
  /\ w \o v \in Seq(Group) /\ Len(w \o v) = q + Len(v)
  /\ \A i \in 1 .. q : (w \o v)[i] = w[i]
  /\ Plain(w \o v, q + 1, Len(w \o v)) /\ Len(v) \in Nat

LEMMA FrameAndCode ==
  ASSUME NEW w \in Seq(Group), NEW v \in Seq(Group), NEW q \in Nat, Len(w) = q, Plain(v, 1, Len(v))
  PROVE  WithCodeOnTop(w, v, q)
<1>1. Len(v) \in Nat
  OBVIOUS
<1> QED
  BY <1>1, WithCode DEF WithCodeOnTop

LEMMA Cut ==
  ASSUME NEW t \in Seq(Group), NEW b \in Nat, b <= Len(t)
  PROVE  /\ SubSeq(t, 1, b) \in Seq(Group) /\ Len(SubSeq(t, 1, b)) = b /\ Agree(t, SubSeq(t, 1, b), b)
<1>1. Len(t) \in Nat /\ 1 \in 1 .. Len(t) + 1 /\ b \in 0 .. Len(t)
  OBVIOUS
<1>2. \A i \in 1 .. b : t[i] \in Group
  BY <1>1
<1>3. SubSeq(t, 1, b) \in Seq(Group) /\ Len(SubSeq(t, 1, b)) = b
  BY <1>1, SubSeqProperties
<1>4. \A i \in 1 .. b : SubSeq(t, 1, b)[i] = t[i]
  BY <1>1
<1> QED
  BY <1>3, <1>4 DEF Agree

LEMMA FrontOfDue ==
  ASSUME NEW u \in Seq(Entry), u # <<>>
  PROVE  /\ Len(u) \in Nat \ {0} /\ u[Len(u)] \in Entry /\ T!Last(u) = u[Len(u)]
         /\ T!Front(u) \in Seq(Entry) /\ Len(u) = Len(T!Front(u)) + 1
         /\ \A k \in 1 .. Len(T!Front(u)) : T!Front(u)[k] = u[k]
<1>1. Len(u) \in Nat \ {0}
  BY EmptySeq
<1>2. u[Len(u)] \in Entry
  BY <1>1
<1>3. T!Front(u) = SubSeq(u, 1, Len(u) - 1) /\ T!Last(u) = u[Len(u)]
  BY DEF T!Front, T!Last
<1>4. T!Front(u) \in Seq(Entry) /\ Len(T!Front(u)) = Len(u) - 1
  <2>1. /\ 1 \in Int /\ Len(u) - 1 \in Int /\ Len(u) - 1 - 1 + 1 = Len(u) - 1
        /\ \A i \in 1 .. Len(u) - 1 : u[i] \in Entry
    BY <1>1
  <2>2. SubSeq(u, 1, Len(u) - 1) \in Seq(Entry)
    BY <2>1, SubSeqProperties
  <2>3. Len(SubSeq(u, 1, Len(u) - 1)) = IF 1 <= Len(u) - 1 THEN Len(u) - 1 - 1 + 1 ELSE 0
    BY <2>1, SubSeqProperties
  <2> QED
    BY <1>1, <1>3, <2>1, <2>2, <2>3
<1>5. \A k \in 1 .. Len(u) - 1 : T!Front(u)[k] = u[k]
  BY <1>1, <1>3
<1> QED
  BY <1>1, <1>2, <1>3, <1>4, <1>5

Running == T!ContextAt(eip)

LEMMA Now ==
  ASSUME T!TransferAssumption, TransferInv
  PROVE  /\ {pe, vm} \subseteq BOOLEAN /\ cs \in T!Sel /\ cpl \in {0, 3} /\ eip \in 0 .. Length - 1
         /\ ss \in T!Stacks /\ ds \in T!Data /\ fl \in ContextFlags /\ stk \in [T!Stacks -> Seq(Group)]
         /\ due \in Seq(Entry) /\ Len(due) \in Nat /\ T!Top \in Seq(Group) /\ Len(T!Top) \in Nat
         /\ Length \in Nat \ {0, 1} /\ T!Next1 \in 0 .. Length - 1
         /\ Right(pe, Running) /\ Running \in Context /\ Running.sp = Len(T!Top)
         /\ Chain(pe, stk, due, Running)
<1>1. /\ {pe, vm} \subseteq BOOLEAN /\ cs \in T!Sel /\ cpl \in {0, 3} /\ eip \in 0 .. Length - 1
      /\ ss \in T!Stacks /\ ds \in T!Data /\ fl \in ContextFlags /\ stk \in [T!Stacks -> Seq(Group)]
      /\ due \in Seq(Entry) /\ Chain(pe, stk, due, Running) /\ Length \in Nat \ {0, 1}
  BY DEF TransferInv, TransferTypes, T!TypeOK, Running, T!TransferAssumption
<1>2. Len(due) \in Nat /\ T!Top \in Seq(Group) /\ Len(T!Top) \in Nat
  BY <1>1 DEF T!Top
<1>3. T!Next1 \in 0 .. Length - 1
  BY <1>1 DEF T!Next1
<1>4. Running \in Context /\ Running.sp = Len(T!Top)
  BY <1>1, <1>2 DEF Running, T!ContextAt, Context
<1>5. Right(pe, Running)
  <2>1. Len(due) + 1 \in 1 .. Len(due) + 1 /\ Program(due, Running, Len(due) + 1) = Running
    BY <1>2 DEF Program
  <2> QED
    BY <1>1, <2>1 DEF Chain, Fits
<1> QED
  BY <1>1, <1>2, <1>3, <1>4, <1>5

(* The fields of a context of the processor.                               *)
LEMMA Fields ==
  ASSUME NEW e
  PROVE  /\ T!ContextAt(e).cs = cs /\ T!ContextAt(e).cpl = cpl /\ T!ContextAt(e).vm = vm
         /\ T!ContextAt(e).eip = e /\ T!ContextAt(e).ss = ss /\ T!ContextAt(e).sp = Len(stk[ss])
         /\ T!ContextAt(e).fl = fl
BY DEF T!ContextAt, T!Top

LEMMA FieldsNext ==
  /\ Running'.cs = cs' /\ Running'.cpl = cpl' /\ Running'.vm = vm'
  /\ Running'.eip = eip' /\ Running'.ss = ss' /\ Running'.sp = Len(stk'[ss'])
  /\ Running'.fl = fl'
BY DEF Running, T!ContextAt, T!Top

(* The state after a step is typed when its parts are.                     *)
TypedNext ==
  /\ {pe', vm'} \subseteq BOOLEAN /\ cs' \in T!Sel /\ cpl' \in {0, 3} /\ eip' \in 0 .. Length - 1
  /\ ss' \in T!Stacks /\ ds' \in T!Data /\ fl' \in ContextFlags /\ stk' \in [T!Stacks -> Seq(Group)]
  /\ due' \in Seq(Entry) /\ Len(due') <= Nest

LEMMA Assembled ==
  ASSUME TypedNext, Segments', Chain(pe', stk', due', Running')
  PROVE  TransferInv' /\ Running' \in Context
<1>1. T!TypeOK'
  <2>1. fl'.ifl \in BOOLEAN /\ fl'.iopl \in {0, 3}
    BY DEF TypedNext, ContextFlags
  <2>2. T!Image' \in T!Flags
    BY <2>1 DEF TypedNext, T!Image, T!Flags
  <2> QED
    BY <2>2 DEF TypedNext, T!TypeOK
<1>2. TransferTypes'
  BY <1>1 DEF TypedNext, TransferTypes
<1>3. Len(stk'[ss']) \in Nat
  BY DEF TypedNext
<1>4. Running' \in Context
  BY <1>3, Zenon DEF TypedNext, Running, T!ContextAt, Context, T!Top
<1> QED
  BY <1>2, <1>4 DEF TransferInv, Running

LEMMA TypedContext == ASSUME TypedNext PROVE Running' \in Context
<1>1. Len(stk'[ss']) \in Nat
  BY DEF TypedNext
<1> QED
  BY <1>1 DEF TypedNext, Running, T!ContextAt, Context, T!Top

(* The program runs on, within its level and on its stack.                 *)
LEMMA RunsOn ==
  ASSUME T!TransferAssumption, TransferInv, TypedNext, Segments', Right(pe, Running'),
         pe' = pe, vm' = vm, cpl' = cpl, ss' = ss, due' = due, fl'.iopl = fl.iopl,
         \A t \in T!Stacks : t # ss => stk'[t] = stk[t],
         \/ stk'[ss] = stk[ss]
         \/ \E g \in Group : g.is = "param" /\ stk'[ss] = Append(stk[ss], g)
         \/ /\ stk[ss] # <<>> /\ stk[ss][Len(stk[ss])].is \in {"error", "param"}
            /\ stk'[ss] = T!Front(stk[ss])
  PROVE  TransferInv'
<1>1. /\ pe \in BOOLEAN /\ stk \in [T!Stacks -> Seq(Group)] /\ stk' \in [T!Stacks -> Seq(Group)]
      /\ due \in Seq(Entry) /\ Running \in Context /\ Running' \in Context
      /\ Chain(pe, stk, due, Running) /\ ss \in T!Stacks
  BY Now, TypedContext DEF TypedNext
<1>2. /\ Running'.cpl = Running.cpl /\ Running'.vm = Running.vm /\ Running'.ss = Running.ss
      /\ Running'.fl.iopl = Running.fl.iopl /\ Running.ss = ss
      /\ Running.sp = Len(stk[ss]) /\ Running'.sp = Len(stk'[Running.ss])
  BY Fields, FieldsNext DEF Running
<1> DEFINE x == Running
           x2 == Running'
<1>3. stk[ss] \in Seq(Group) /\ Len(stk[ss]) \in Nat
  BY <1>1
<1>4. \/ /\ x2.sp >= x.sp /\ Agree(stk[x.ss], stk'[x.ss], x.sp)
         /\ Plain(stk'[x.ss], x.sp + 1, x2.sp)
      \/ x2.sp = x.sp - 1 /\ Agree(stk[x.ss], stk'[x.ss], x2.sp)
         /\ stk[x.ss][x.sp].is \in {"error", "param"}
  <2>1. CASE stk'[ss] = stk[ss]
    BY <1>2, <1>3, <2>1 DEF Agree, Plain
  <2>2. ASSUME NEW g \in Group, g.is = "param", stk'[ss] = Append(stk[ss], g)
        PROVE  x2.sp >= x.sp /\ Agree(stk[x.ss], stk'[x.ss], x.sp) /\ Plain(stk'[x.ss], x.sp + 1, x2.sp)
    <3>1. /\ Len(stk'[ss]) = Len(stk[ss]) + 1 /\ Agree(stk[ss], stk'[ss], Len(stk[ss]))
          /\ stk'[ss][Len(stk[ss]) + 1] = g
      BY <1>3, <2>2, Pushed
    <3>2. Plain(stk'[ss], Len(stk[ss]) + 1, Len(stk'[ss]))
      BY <1>3, <2>2, <3>1 DEF Plain
    <3> QED
      BY <1>2, <1>3, <3>1, <3>2
  <2>3. CASE /\ stk[ss] # <<>> /\ stk[ss][Len(stk[ss])].is \in {"error", "param"}
             /\ stk'[ss] = T!Front(stk[ss])
    <3>1. Len(stk[ss]) \in Nat \ {0}
      BY <1>3, <2>3, EmptySeq
    <3>2. stk'[ss] = SubSeq(stk[ss], 1, Len(stk[ss]) - 1)
      BY <2>3 DEF T!Front
    <3>3. Len(stk'[ss]) = Len(stk[ss]) - 1 /\ Agree(stk[ss], stk'[ss], Len(stk[ss]) - 1)
      <4>1. Len(stk[ss]) - 1 \in Nat /\ Len(stk[ss]) - 1 <= Len(stk[ss])
        BY <3>1
      <4> QED
        BY <1>3, <3>2, <4>1, Cut
    <3> QED
      BY <1>2, <2>3, <3>3
  <2> QED
    BY <2>1, <2>2, <2>3
<1>5. Chain(pe, stk', due, x2)
  <2> HIDE DEF x, x2
  <2>1. /\ x \in Context /\ x2 \in Context /\ Chain(pe, stk, due, x) /\ Right(pe, x2)
        /\ x2.cpl = x.cpl /\ x2.vm = x.vm /\ x2.ss = x.ss /\ x2.fl.iopl = x.fl.iopl
        /\ x2.sp = Len(stk'[x.ss]) /\ \A t \in T!Stacks : t # x.ss => stk'[t] = stk[t]
    BY <1>1, <1>2 DEF x, x2
  <2> QED
    BY <1>1, <1>4, <2>1, ChainGoesOn, ZenonT(40)
<1> QED
  BY <1>5, Assembled

(* What the program does between transfers.                                *)
LEMMA WorkStep == ASSUME T!TransferAssumption, TransferInv, T!Work PROVE TransferInv'
<1>1. TypedNext
  BY Now DEF T!Work, TypedNext, TransferInv, TransferTypes, T!TypeOK
<1>2. Segments'
  BY DEF TransferInv, Segments, T!Work
<1>3. Right(pe, Running')
  BY Now, Fields, FieldsNext DEF Right, Running, T!Work
<1> QED
  BY <1>1, <1>2, <1>3, RunsOn DEF T!Work

LEMMA SetIfStep ==
  ASSUME T!TransferAssumption, TransferInv, NEW on \in BOOLEAN, T!SetIf(on)
  PROVE  TransferInv'
<1>1. fl' \in ContextFlags /\ fl'.iopl = fl.iopl
  BY Now DEF T!SetIf, ContextFlags
<1>2. TypedNext
  BY <1>1, Now DEF T!SetIf, TypedNext, TransferInv, TransferTypes, T!TypeOK
<1>3. Segments'
  BY DEF TransferInv, Segments, T!SetIf
<1>4. Right(pe, Running')
  BY Now, Fields, FieldsNext DEF Right, Running, T!SetIf
<1> QED
  BY <1>1, <1>2, <1>3, <1>4, RunsOn DEF T!SetIf

LEMMA LoadDataStep ==
  ASSUME T!TransferAssumption, TransferInv, NEW d \in T!Stacks, T!LoadData(d)
  PROVE  TransferInv'
<1>1. TypedNext
  BY Now DEF T!LoadData, TypedNext, TransferInv, TransferTypes, T!TypeOK, T!Data
<1>2. Segments'
  BY DEF TransferInv, Segments, T!LoadData, T!Dpl
<1>3. Right(pe, Running')
  BY Now, Fields, FieldsNext DEF Right, Running, T!LoadData
<1> QED
  BY <1>1, <1>2, <1>3, RunsOn DEF T!LoadData

LEMMA ParamIsGroup == T!Word("param") \in Group /\ T!Word("param").is = "param"
BY DEF T!Word, Group, T!Segs, T!None, T!Flags

LEMMA PushParamStep ==
  ASSUME T!TransferAssumption, TransferInv, T!PushParam
  PROVE  TransferInv'
<1> HIDE DEF T!Word
<1>1. /\ stk' \in [T!Stacks -> Seq(Group)] /\ stk'[ss] = Append(stk[ss], T!Word("param"))
      /\ \A t \in T!Stacks : t # ss => stk'[t] = stk[t]
  BY Now, ParamIsGroup DEF T!PushParam
<1>2. TypedNext
  BY <1>1, Now DEF T!PushParam, TypedNext, TransferInv, TransferTypes, T!TypeOK
<1>3. Segments'
  BY DEF TransferInv, Segments, T!PushParam
<1>4. Right(pe, Running')
  BY Now, Fields, FieldsNext DEF Right, Running, T!PushParam
<1> QED
  BY <1>1, <1>2, <1>3, <1>4, ParamIsGroup, RunsOn DEF T!PushParam

LEMMA PopWordStep ==
  ASSUME T!TransferAssumption, TransferInv, T!PopWord
  PROVE  TransferInv'
<1>1. T!Top # <<>> /\ T!Top = stk[ss] /\ stk[ss] \in Seq(Group) /\ Len(stk[ss]) \in Nat \ {0}
  BY Now, EmptySeq DEF T!PopWord, T!Top
<1>2. stk[ss][Len(stk[ss])].is \in {"error", "param"}
  BY <1>1 DEF T!PopWord, T!Last
<1>3. T!Front(stk[ss]) \in Seq(Group)
  BY <1>1, Cut DEF T!Front
<1>4. /\ stk' \in [T!Stacks -> Seq(Group)] /\ stk'[ss] = T!Front(stk[ss])
      /\ \A t \in T!Stacks : t # ss => stk'[t] = stk[t]
  BY <1>3, Now DEF T!PopWord
<1>5. TypedNext
  BY <1>4, Now DEF T!PopWord, TypedNext, TransferInv, TransferTypes, T!TypeOK
<1>6. Segments'
  BY DEF TransferInv, Segments, T!PopWord
<1>7. Right(pe, Running')
  BY Now, Fields, FieldsNext DEF Right, Running, T!PopWord
<1> QED
  BY <1>1, <1>2, <1>4, <1>5, <1>6, <1>7, RunsOn DEF T!PopWord

LEMMA FarJumpStep ==
  ASSUME T!TransferAssumption, TransferInv, NEW g \in T!Segs, T!FarJump(g) PROVE TransferInv'
<1>1. [seg |-> g, rpl |-> IF ~pe \/ vm THEN 0 ELSE cpl] \in T!Sel
  BY Now DEF T!Sel
<1>2. TypedNext
  BY <1>1, Now DEF T!FarJump, TypedNext, TransferInv, TransferTypes, T!TypeOK
<1>3. Segments'
  BY DEF TransferInv, Segments, T!FarJump
<1>4. Right(pe, Running')
  <2>1. cs'.seg = g /\ cs'.rpl = IF ~pe \/ vm THEN 0 ELSE cpl
    BY DEF T!FarJump
  <2>2. pe \in BOOLEAN /\ vm \in BOOLEAN /\ cpl \in {0, 3}
    BY Now
  <2> QED
    BY <2>1, <2>2, Now, Fields, FieldsNext DEF Right, Running, T!FarJump
<1> QED
  BY <1>1, <1>2, <1>3, <1>4, RunsOn DEF T!FarJump

(* Entry d waits for the return to address e of the one that runs.         *)
WaitsFor(d, how, e, again) ==
  /\ d.how = how /\ d.back = T!ContextAt(e) /\ d.again = again
  /\ due' = Append(due, d) /\ due' \in Seq(Entry) /\ Len(due') <= Nest
  /\ Right(pe, d.back) /\ Chain(pe, stk, due, d.back) /\ T!ContextAt(e) \in Context

(* A program waits at address e for a return.                              *)
LEMMA Waiting ==
  ASSUME T!TransferAssumption, TransferInv, NEW e \in 0 .. Length - 1, NEW how \in {"iret", "retf"},
         NEW again \in BOOLEAN, NEW short \in BOOLEAN, T!Expect(how, T!ContextAt(e), again, short),
         T!Room
  PROVE  \E d \in Entry : WaitsFor(d, how, e, again)
<1>1. T!ContextAt(e) \in Context
  BY Now DEF T!ContextAt, Context
<1> DEFINE d == [how |-> how, back |-> T!ContextAt(e), again |-> again, short |-> short]
<1>2. d \in Entry /\ d.how = how /\ d.back = T!ContextAt(e) /\ d.again = again
  BY <1>1 DEF Entry
<1>3. due' = Append(due, d)
  BY DEF T!Expect
<1>4. due' \in Seq(Entry) /\ Len(due') <= Nest
  <2>1. due \in Seq(Entry) /\ Len(due) < Nest /\ Len(due) \in Nat /\ Nest \in Nat
    BY Now DEF T!Room, T!TransferAssumption
  <2> HIDE DEF d
  <2>2. Append(due, d) \in Seq(Entry) /\ Len(Append(due, d)) = Len(due) + 1
    BY <1>2, <2>1
  <2> QED
    BY <1>3, <2>1, <2>2
<1>5. Right(pe, T!ContextAt(e))
  BY Now, Fields DEF Right, Running
<1>6. Chain(pe, stk, due, T!ContextAt(e))
  <2> DEFINE x == Running
             x2 == T!ContextAt(e)
  <2>1. /\ x \in Context /\ x2 \in Context /\ Chain(pe, stk, due, x) /\ Right(pe, x2) /\ pe \in BOOLEAN
        /\ stk \in [T!Stacks -> Seq(Group)] /\ due \in Seq(Entry)
    BY <1>1, <1>5, Now
  <2>2. /\ x2.cpl = x.cpl /\ x2.vm = x.vm /\ x2.ss = x.ss /\ x2.fl.iopl = x.fl.iopl
        /\ x2.sp = Len(stk[x.ss]) /\ x.sp = x2.sp /\ x.sp \in Nat
    BY Fields, <2>1 DEF Running, Context
  <2> HIDE DEF x, x2
  <2>3. x2.sp >= x.sp /\ Agree(stk[x.ss], stk[x.ss], x.sp) /\ Plain(stk[x.ss], x.sp + 1, x2.sp)
    BY <2>2 DEF Agree, Plain
  <2>4. Chain(pe, stk, due, x2)
    BY <2>1, <2>2, <2>3, ChainGoesOn
  <2> QED
    BY <2>4 DEF x2
<1> HIDE DEF d
<1>7. WaitsFor(d, how, e, again)
  BY <1>1, <1>2, <1>3, <1>4, <1>5, <1>6 DEF WaitsFor
<1> QED
  BY <1>2, <1>7

(* A call or an interrupt that stays on the stack: group g and plain words *)
(* w are pushed.                                                           *)
LEMMA CalledHere ==
  ASSUME T!TransferAssumption, TransferInv, NEW e \in 0 .. Length - 1, NEW how \in {"iret", "retf"},
         NEW again \in BOOLEAN, NEW short \in BOOLEAN, T!Expect(how, T!ContextAt(e), again, short),
         T!Room,
         NEW g \in Group, NEW w \in Seq(Group), Plain(w, 1, Len(w)),
         stk' \in [T!Stacks -> Seq(Group)], stk'[ss] = Append(stk[ss], g) \o w,
         \A t \in T!Stacks : t # ss => stk'[t] = stk[t],
         g.is = (IF how = "iret" THEN "frame" ELSE "far"), g.sel = cs,
         g.num \in 0 .. Length - 1, again \/ g.num = e, ~g.fl.vm,
         how = "iret" => g.fl.ifl = fl.ifl /\ g.fl.iopl = fl.iopl,
         pe' = pe, vm' = vm, cpl' = cpl, ss' = ss, fl' \in ContextFlags, fl'.iopl = fl.iopl,
         cs' \in T!Sel, eip' \in 0 .. Length - 1, ds' \in T!Data, Segments', Right(pe, Running')
  PROVE  TransferInv'
<1>1. PICK d \in Entry : /\ d.how = how /\ d.back = T!ContextAt(e) /\ d.again = again
                         /\ due' = Append(due, d) /\ due' \in Seq(Entry) /\ Len(due') <= Nest
                         /\ Right(pe, d.back) /\ Chain(pe, stk, due, d.back) /\ T!ContextAt(e) \in Context
  <2>1. how \in {"iret", "retf"}
    OBVIOUS
  <2>2. \E d \in Entry : WaitsFor(d, how, e, again)
    BY <2>1, Waiting
  <2> QED
    BY <2>2 DEF WaitsFor
<1>2. TypedNext
  BY <1>1, Now DEF TypedNext
<1>3. Running' \in Context
  BY <1>2, TypedContext
<1>4. /\ stk[ss] \in Seq(Group) /\ Len(stk[ss]) \in Nat /\ pe \in BOOLEAN /\ ss \in T!Stacks
      /\ stk \in [T!Stacks -> Seq(Group)] /\ due \in Seq(Entry) /\ Len(due) \in Nat
  BY Now DEF T!Top
<1>5. /\ Append(stk[ss], g) \in Seq(Group) /\ Len(Append(stk[ss], g)) = Len(stk[ss]) + 1
      /\ Agree(stk[ss], Append(stk[ss], g), Len(stk[ss])) /\ Append(stk[ss], g)[Len(stk[ss]) + 1] = g
  BY <1>4, Pushed
<1> DEFINE t == stk'[ss]
           L == Len(stk[ss])
<1>6. /\ t \in Seq(Group) /\ Len(t) = L + 1 + Len(w) /\ t[L + 1] = g
      /\ Plain(t, L + 2, Len(t)) /\ Agree(stk[ss], t, L) /\ Len(w) \in Nat
  <2> DEFINE v == Append(stk[ss], g)
  <2>1. v \in Seq(Group) /\ Len(v) = L + 1 /\ Agree(stk[ss], v, L) /\ v[L + 1] = g /\ L \in Nat
        /\ t = v \o w
    BY <1>4, <1>5
  <2> HIDE DEF v, t, L
  <2>2. /\ v \o w \in Seq(Group) /\ Len(v \o w) = Len(v) + Len(w)
        /\ \A i \in 1 .. Len(v) : (v \o w)[i] = v[i]
        /\ Plain(v \o w, Len(v) + 1, Len(v \o w))
    BY <2>1, WithCode
  <2>3. L + 1 + 1 = L + 2 /\ Len(w) \in Nat /\ L + 1 \in 1 .. L + 1
    BY <2>1
  <2>4. /\ t \in Seq(Group) /\ Len(t) = L + 1 + Len(w) /\ Plain(t, L + 2, Len(t))
        /\ \A i \in 1 .. L + 1 : t[i] = v[i]
    BY <2>1, <2>2, <2>3
  <2>5. Agree(stk[ss], t, L)
    <3>1. \A i \in 1 .. L : i \in 1 .. L + 1
      BY <2>1
    <3> QED
      BY <2>1, <2>4, <3>1 DEF Agree
  <2>6. t[L + 1] = g
    BY <2>1, <2>3, <2>4
  <2> QED
    BY <2>3, <2>4, <2>5, <2>6
<1>7. /\ Running'.cpl = cpl /\ Running'.vm = vm /\ Running'.ss = ss /\ Running'.sp = Len(t)
      /\ Running'.fl.iopl = fl.iopl
      /\ d.back.cpl = cpl /\ d.back.vm = vm /\ d.back.ss = ss /\ d.back.sp = L
      /\ d.back.fl = fl /\ d.back.cs = cs /\ d.back.eip = e
  BY <1>1, Fields, FieldsNext
<1> HIDE DEF t, L
<1>8. L \in Nat /\ Len(t) \in Nat /\ Len(t) > L
  BY <1>4, <1>6, SMTT(30) DEF L
<1>9. Below(d.back, Running')
  <2>1. cpl >= cpl
    BY Now
  <2> QED
    BY <1>7, <1>8, <2>1 DEF Below
<1>10. OnSameStack(stk', d, Running')
  <2>1. Leads(g, d)
    BY <1>1, <1>7 DEF Leads
  <2> QED
    BY <1>6, <1>7, <1>8, <2>1 DEF OnSameStack, t
<1>11. Link(pe, stk', d, Running')
  BY <1>7, <1>10 DEF Link
<1>12. Chain(pe, stk', Append(due, d), Running')
  <2>1. Running'.ss = d.back.ss /\ Agree(stk[Running'.ss], stk'[Running'.ss], d.back.sp)
    BY <1>6, <1>7 DEF t, L
  <2>2. Running'.sp = Len(stk'[Running'.ss]) /\ \A r \in T!Stacks : r # Running'.ss => stk'[r] = stk[r]
    BY <1>7 DEF t
  <2> QED
    BY <1>1, <1>3, <1>4, <1>9, <1>11, <2>1, <2>2, ChainGrows
<1> QED
  BY <1>1, <1>2, <1>12, Assembled

LEMMA FrameIsGroup ==
  ASSUME T!TransferAssumption, NEW c \in T!Sel, NEW e \in 0 .. Length - 1, NEW f \in T!Flags
  PROVE  /\ T!Frame(c, e, f) \in Group /\ T!Frame(c, e, f).is = "frame" /\ T!Frame(c, e, f).sel = c
         /\ T!Frame(c, e, f).num = e /\ T!Frame(c, e, f).fl = f
<1>1. c.seg \in T!Segs /\ c.rpl \in {0, 3} /\ c = [seg |-> c.seg, rpl |-> c.rpl]
  BY DEF T!Sel
<1>2. c \in [seg : T!Segs \cup T!Stacks \cup T!Data, rpl : {0, 3}]
  BY <1>1
<1>3. e \in Nat
  BY DEF T!TransferAssumption
<1> QED
  BY <1>2, <1>3 DEF T!Frame, Group

LEMMA FarIsGroup ==
  ASSUME T!TransferAssumption, NEW c \in T!Sel, NEW e \in 0 .. Length - 1
  PROVE  /\ T!Far(c, e) \in Group /\ T!Far(c, e).is = "far" /\ T!Far(c, e).sel = c
         /\ T!Far(c, e).num = e /\ ~T!Far(c, e).fl.vm
<1>1. c.seg \in T!Segs /\ c.rpl \in {0, 3} /\ c = [seg |-> c.seg, rpl |-> c.rpl]
  BY DEF T!Sel
<1>2. c \in [seg : T!Segs \cup T!Stacks \cup T!Data, rpl : {0, 3}]
  BY <1>1
<1>3. e \in Nat
  BY DEF T!TransferAssumption
<1> QED
  BY <1>2, <1>3 DEF T!Far, Group, T!None, T!Flags

LEMMA OldIsGroup ==
  ASSUME NEW s \in T!Stacks, NEW n \in Nat
  PROVE  /\ T!Old(s, n) \in Group /\ T!Old(s, n).is = "stack" /\ T!Old(s, n).sel.seg = s /\ T!Old(s, n).num = n
BY DEF T!Old, Group, T!None, T!Flags

LEMMA SavedIsGroup == ASSUME NEW d \in T!Data PROVE T!Saved(d) \in Group
BY DEF T!Saved, Group, T!None, T!Flags

LEMMA ImageIsFlags ==
  ASSUME T!TransferAssumption, TransferInv
  PROVE  /\ T!Image \in T!Flags /\ T!Image.ifl = fl.ifl /\ T!Image.iopl = fl.iopl /\ T!Image.vm = vm
         /\ [T!Image EXCEPT !.vm = FALSE] \in T!Flags
         /\ [T!Image EXCEPT !.vm = FALSE].ifl = fl.ifl /\ [T!Image EXCEPT !.vm = FALSE].iopl = fl.iopl
         /\ [T!Image EXCEPT !.vm = FALSE].vm = FALSE
         /\ [fl EXCEPT !.ifl = FALSE] \in ContextFlags /\ [fl EXCEPT !.ifl = FALSE].iopl = fl.iopl
<1>1. fl \in ContextFlags /\ vm \in BOOLEAN
  BY Now
<1> QED
  BY <1>1 DEF T!Image, T!Flags, ContextFlags

LEMMA NoWords ==
  ASSUME NEW t \in Seq(Group)
  PROVE  t \o <<>> = t /\ <<>> \in Seq(Group) /\ Plain(<<>>, 1, Len(<<>>))
<1>1. t \o <<>> = t
  BY ConcatEmptySeq
<1> QED
  BY <1>1 DEF Plain

(* int_real86 pushes a frame on the stack in use.                          *)
LEMMA IntReal86Step ==
  ASSUME T!TransferAssumption, TransferInv, T!Room, NEW e \in 0 .. Length - 1, ~pe \/ vm, T!IntReal86(e)
  PROVE  TransferInv'
<1> DEFINE f == [T!Image EXCEPT !.vm = FALSE]
           g == T!Frame(cs, e, f)
<1>1. g \in Group /\ g.is = "frame" /\ g.sel = cs /\ g.num = e /\ ~g.fl.vm
      /\ g.fl.ifl = fl.ifl /\ g.fl.iopl = fl.iopl
  <2>1. cs \in T!Sel /\ f \in T!Flags /\ f.ifl = fl.ifl /\ f.iopl = fl.iopl /\ f.vm = FALSE
    BY Now, ImageIsFlags
  <2> HIDE DEF f
  <2> QED
    BY <2>1, FrameIsGroup
<1>2. /\ pe' = pe /\ vm' = vm /\ cpl' = cpl /\ ss' = ss /\ ds' = ds /\ eip' = 0
      /\ cs' = [seg |-> "bios", rpl |-> 0] /\ T!Expect("iret", T!ContextAt(e), FALSE, FALSE)
      /\ fl' = [fl EXCEPT !.ifl = FALSE] /\ stk' = [stk EXCEPT ![ss] = Append(@, g)]
  BY DEF T!IntReal86
<1>3. fl' \in ContextFlags /\ fl'.iopl = fl.iopl
  BY <1>2, ImageIsFlags
<1>4. cs' \in T!Sel /\ cs'.seg = "bios" /\ eip' \in 0 .. Length - 1 /\ ds' \in T!Data
  BY <1>2, Now DEF T!Sel, T!Segs, T!TransferAssumption
<1>5. Segments'
  BY <1>2 DEF TransferInv, Segments
<1>6. Right(pe, Running')
  <2>1. Right(pe, Running)
    BY Now
  <2> QED
    BY <1>2, <1>4, <2>1, Fields, FieldsNext DEF Right, Running
<1> HIDE DEF g
<1>7. Append(stk[ss], g) \in Seq(Group) /\ stk[ss] \in Seq(Group)
  BY <1>1, Now, Pushed DEF T!Top
<1>8. /\ stk' \in [T!Stacks -> Seq(Group)] /\ stk'[ss] = Append(stk[ss], g) \o <<>>
      /\ \A t \in T!Stacks : t # ss => stk'[t] = stk[t]
  BY <1>2, <1>7, Now, NoWords
<1>9. <<>> \in Seq(Group) /\ Plain(<<>>, 1, Len(<<>>))
  BY <1>7, NoWords
<1> QED
  BY <1>1, <1>2, <1>3, <1>4, <1>5, <1>6, <1>8, <1>9, CalledHere

(* far_call pushes the address after it.                                   *)
LEMMA FarCallStep ==
  ASSUME T!TransferAssumption, TransferInv, NEW r \in T!Segs, T!FarCall(r)
  PROVE  TransferInv'
<1> DEFINE g == T!Far(cs, T!Next1)
<1>1. g \in Group /\ g.is = "far" /\ g.sel = cs /\ g.num = T!Next1 /\ ~g.fl.vm
      /\ T!Next1 \in 0 .. Length - 1
  <2>1. cs \in T!Sel /\ T!Next1 \in 0 .. Length - 1
    BY Now
  <2> QED
    BY <2>1, FarIsGroup
<1>2. /\ pe' = pe /\ vm' = vm /\ cpl' = cpl /\ ss' = ss /\ ds' = ds /\ eip' = 0 /\ fl' = fl /\ T!Room
      /\ r \in IF ~pe \/ vm THEN {"8086", "bios"} ELSE {x \in {"user", "kernel"} : T!Dpl(x) = cpl}
      /\ cs' = [seg |-> r, rpl |-> IF ~pe \/ vm THEN 0 ELSE cpl]
      /\ T!Expect("retf", T!ContextAt(T!Next1), FALSE, FALSE)
      /\ stk' = [stk EXCEPT ![ss] = Append(@, g)]
  BY DEF T!FarCall
<1>4. cs' \in T!Sel /\ cs'.seg = r /\ cs'.rpl = (IF ~pe \/ vm THEN 0 ELSE cpl)
      /\ eip' \in 0 .. Length - 1 /\ ds' \in T!Data /\ fl' \in ContextFlags
  BY <1>2, Now DEF T!Sel, T!TransferAssumption
<1>5. Segments'
  BY <1>2 DEF TransferInv, Segments
<1>6. Right(pe, Running')
  <2>1. Right(pe, Running) /\ pe \in BOOLEAN /\ vm \in BOOLEAN /\ cpl \in {0, 3}
    BY Now
  <2> QED
    BY <1>2, <1>4, <2>1, Fields, FieldsNext DEF Right, Running
<1> HIDE DEF g
<1>7. Append(stk[ss], g) \in Seq(Group) /\ stk[ss] \in Seq(Group)
  BY <1>1, Now, Pushed DEF T!Top
<1>8. /\ stk' \in [T!Stacks -> Seq(Group)] /\ stk'[ss] = Append(stk[ss], g) \o <<>>
      /\ \A t \in T!Stacks : t # ss => stk'[t] = stk[t]
  BY <1>2, <1>7, Now, NoWords
<1>9. <<>> \in Seq(Group) /\ Plain(<<>>, 1, Len(<<>>))
  BY <1>7, NoWords
<1> QED
  BY <1>1, <1>2, <1>4, <1>5, <1>6, <1>8, <1>9, CalledHere

(* int_intra_privilege: a gate of the kernel from there, or a conforming   *)
(* one whose selector has the level in use.                                *)
LEMMA IntraStep ==
  ASSUME T!TransferAssumption, TransferInv, T!Room, NEW e \in 0 .. Length - 1, NEW h \in Gates,
         pe, ~vm, h.seg = "shared" => h.rpl = cpl, ~T!Inner(h), T!Intra(h, e),
         NEW again \in BOOLEAN, NEW short \in BOOLEAN, T!Expect("iret", T!ContextAt(e), again, short),
         fl' = [fl EXCEPT !.ifl = FALSE], eip' = 0, pe' = pe
  PROVE  TransferInv'
<1> DEFINE g == T!Frame(cs, e, T!Image)
<1>1. g \in Group /\ g.is = "frame" /\ g.sel = cs /\ g.num = e /\ ~g.fl.vm
      /\ g.fl.ifl = fl.ifl /\ g.fl.iopl = fl.iopl
  BY Now, ImageIsFlags, FrameIsGroup
<1>2. /\ vm' = vm /\ cpl' = h.rpl /\ ss' = ss /\ ds' = ds
      /\ cs' = [seg |-> h.seg, rpl |-> h.rpl]
      /\ stk' = [stk EXCEPT ![ss] = Append(@, g) \o T!Code(h)]
  BY DEF T!Intra
<1>3. h \in T!Gate /\ h.seg \in {"kernel", "shared"} /\ h.rpl \in {0, 3} /\ (h.seg = "kernel" => h.rpl = 0)
  <2>1. h \in T!Gate
    BY DEF T!TransferAssumption
  <2> QED
    BY <2>1 DEF T!TransferAssumption, T!Gate
<1>4. h.rpl = cpl
  BY <1>3, Now DEF T!Inner, T!Dpl
<1>5. fl' \in ContextFlags /\ fl'.iopl = fl.iopl
  BY ImageIsFlags
<1>6. cs' \in T!Sel /\ cs'.seg = h.seg /\ cs'.rpl = cpl /\ eip' \in 0 .. Length - 1 /\ ds' \in T!Data
  <2>1. [seg |-> h.seg, rpl |-> h.rpl] \in T!Sel
    BY <1>3 DEF T!Sel, T!Segs
  <2>2. cs' \in T!Sel /\ cs'.seg = h.seg /\ cs'.rpl = cpl
    BY <1>2, <1>4, <2>1
  <2>3. eip' \in 0 .. Length - 1 /\ ds' \in T!Data
    BY <1>2, Now
  <2> QED
    BY <2>2, <2>3
<1>7. Segments'
  BY <1>2, <1>4 DEF TransferInv, Segments
<1>8. Right(pe, Running')
  <2>1. Right(pe, Running)
    BY Now
  <2>2. h.seg # "shared" => T!Dpl(h.seg) = cpl
    BY <1>3, <1>4 DEF T!Dpl
  <2> QED
    BY <1>2, <1>4, <1>6, <2>1, <2>2, Fields, FieldsNext DEF Right, Running
<1> HIDE DEF g
<1>9. Append(stk[ss], g) \o T!Code(h) \in Seq(Group) /\ T!Code(h) \in Seq(Group) /\ Plain(T!Code(h), 1, Len(T!Code(h)))
  BY <1>1, <1>3, Now, Pushed, Codes, WithCode DEF T!Top
<1>10. /\ stk' \in [T!Stacks -> Seq(Group)] /\ stk'[ss] = Append(stk[ss], g) \o T!Code(h)
       /\ \A t \in T!Stacks : t # ss => stk'[t] = stk[t]
  BY <1>2, <1>9, Now
<1> QED
  BY <1>1, <1>2, <1>4, <1>5, <1>6, <1>7, <1>8, <1>9, <1>10, CalledHere, ZenonT(40)

(* An interrupt that enters the kernel: words w, a frame last, and plain   *)
(* words v are pushed on the kernel's stack; from V86 the data selector    *)
(* is the first of them.                                                   *)
EntersKernel(w, q, v, n) ==
  /\ pe /\ cpl = 3 /\ Len(w) = q /\ Plain(v, 1, Len(v))
  /\ w[q] = T!Frame(cs, n, T!Image) /\ w[q - 1] = T!Old(ss, Len(T!Top))
  /\ vm => q = 3 /\ w[1].sel.seg = "8086"
  /\ stk' = T!NewStack(w \o v)
  /\ cs' = [seg |-> "kernel", rpl |-> 0] /\ cpl' = 0 /\ ss' = "kernel" /\ vm' = FALSE /\ pe' = pe
  /\ ds' \in T!Data /\ eip' = 0 /\ fl' = [fl EXCEPT !.ifl = FALSE]

LEMMA CalledKernel ==
  ASSUME T!TransferAssumption, TransferInv, T!Room, NEW e \in 0 .. Length - 1, NEW q \in {2, 3},
         NEW again \in BOOLEAN, NEW short \in BOOLEAN, T!Expect("iret", T!ContextAt(e), again, short),
         NEW w \in Seq(Group), NEW v \in Seq(Group), NEW n \in 0 .. Length - 1, again \/ n = e,
         EntersKernel(w, q, v, n)
  PROVE  TransferInv'
<1> SUFFICES
      ASSUME pe, cpl = 3, Len(w) = q, Plain(v, 1, Len(v)), w[q] = T!Frame(cs, n, T!Image),
             w[q - 1] = T!Old(ss, Len(T!Top)), vm => q = 3 /\ w[1].sel.seg = "8086",
             stk' = T!NewStack(w \o v), cs' = [seg |-> "kernel", rpl |-> 0], cpl' = 0, ss' = "kernel",
             vm' = FALSE, pe' = pe, ds' \in T!Data, eip' = 0, fl' = [fl EXCEPT !.ifl = FALSE]
      PROVE  TransferInv'
  BY DEF EntersKernel
<1> DEFINE g == T!Frame(cs, n, T!Image)
           o == T!Old(ss, Len(T!Top))
           t == stk'["kernel"]
           x2 == Running'
<1>1. g \in Group /\ g.is = "frame" /\ g.sel = cs /\ g.num = n /\ g.fl.vm = vm
      /\ g.fl.ifl = fl.ifl /\ g.fl.iopl = fl.iopl
  <2>1. cs \in T!Sel /\ T!Image \in T!Flags /\ T!Image.ifl = fl.ifl /\ T!Image.iopl = fl.iopl /\ T!Image.vm = vm
    BY Now, ImageIsFlags
  <2> QED
    BY <2>1, FrameIsGroup
<1>2. o.sel.seg = ss /\ o.num = Len(T!Top)
  BY DEF T!Old
<1> HIDE DEF g, o
<1>3. PICK d \in Entry : /\ d.how = "iret" /\ d.back = T!ContextAt(e) /\ d.again = again
                         /\ due' = Append(due, d) /\ due' \in Seq(Entry) /\ Len(due') <= Nest
                         /\ Right(pe, d.back) /\ Chain(pe, stk, due, d.back) /\ T!ContextAt(e) \in Context
  <2>1. "iret" \in {"iret", "retf"}
    OBVIOUS
  <2>2. \E d \in Entry : WaitsFor(d, "iret", e, again)
    BY <2>1, Waiting
  <2> QED
    BY <2>2 DEF WaitsFor
<1>4. /\ stk \in [T!Stacks -> Seq(Group)] /\ pe \in BOOLEAN /\ due \in Seq(Entry)
      /\ Len(T!Top) \in Nat /\ ss \in T!Stacks /\ ss # "kernel" /\ "kernel" \in T!Stacks
  <2>1. Right(pe, Running) /\ Running.ss = ss /\ Running.cpl = cpl /\ Running.vm = vm
    BY Now, Fields DEF Running
  <2>2. ss # "kernel"
    BY <2>1 DEF Right
  <2> QED
    BY <2>2, Now DEF T!TransferAssumption, T!Stacks
<1>5. /\ w \o v \in Seq(Group) /\ Len(w \o v) = q + Len(v)
      /\ \A i \in 1 .. q : (w \o v)[i] = w[i]
      /\ Plain(w \o v, q + 1, Len(w \o v)) /\ Len(v) \in Nat
  <2>1. q \in Nat
    OBVIOUS
  <2>2. WithCodeOnTop(w, v, q)
    BY <2>1, FrameAndCode
  <2> QED
    BY <2>2 DEF WithCodeOnTop
<1>6. /\ t = w \o v
      /\ stk' \in [T!Stacks -> Seq(Group)] /\ \A r \in T!Stacks : r # "kernel" => stk'[r] = stk[r]
  BY <1>4, <1>5 DEF T!NewStack
<1>7. /\ cs' \in T!Sel /\ cs'.seg = "kernel" /\ cs'.rpl = 0 /\ eip' \in 0 .. Length - 1
      /\ fl' \in ContextFlags /\ fl'.iopl = fl.iopl /\ "kernel" \in T!Stacks
  BY ImageIsFlags DEF T!Sel, T!Segs, T!Stacks, T!TransferAssumption
<1>8. TypedNext
  BY <1>3, <1>4, <1>6, <1>7 DEF TypedNext
<1>9. x2 \in Context /\ x2.cs = cs' /\ x2.cpl = 0 /\ x2.vm = FALSE /\ x2.ss = "kernel"
      /\ x2.sp = Len(t) /\ x2.fl.iopl = fl.iopl
  BY <1>7, <1>8, TypedContext, FieldsNext
<1>10. /\ d.back.cpl = 3 /\ d.back.vm = vm /\ d.back.ss = ss /\ d.back.sp = Len(T!Top)
       /\ d.back.fl = fl /\ d.back.cs = cs /\ d.back.eip = e
  BY <1>3, Fields DEF T!Top
<1>11. Segments'
  BY DEF Segments
<1> HIDE DEF x2, t
<1>12. Right(pe, x2)
  BY <1>7, <1>9 DEF Right, T!Dpl
<1>13. Below(d.back, x2)
  BY <1>4, <1>9, <1>10 DEF Below
<1>14. Crossed(pe, stk', d, x2)
  <2>1. stk'[ss] = T!Top
    BY <1>4, <1>6 DEF T!Top
  <2>2. Plain(stk'[ss], Len(T!Top) + 1, Len(stk'[ss]))
    BY <1>4, <2>1 DEF Plain
  <2> QED
    BY <1>9, <1>10, <2>2 DEF Crossed
<1>15. AtGroup(stk', d, x2, q)
  <2>1. q - 1 \in 1 .. q /\ q \in 1 .. q /\ 1 \in 1 .. q
    OBVIOUS
  <2>2. t[q] = w[q] /\ t[q - 1] = w[q - 1] /\ t[1] = w[1]
    BY <1>5, <1>6, <2>1
  <2>3. x2.sp = q + Len(v) /\ Plain(t, q + 1, x2.sp)
    BY <1>5, <1>6, <1>9
  <2>4. t[q] = g /\ t[q - 1] = o /\ q <= x2.sp /\ (vm => q = 3 /\ t[1].sel.seg = "8086")
    BY <1>5, <2>2, <2>3 DEF g, o
  <2>5. Leads(g, d)
    BY <1>1, <1>3, <1>10 DEF Leads
  <2> QED
    BY <1>1, <1>2, <1>3, <1>10, <2>3, <2>4, <2>5 DEF AtGroup, t
<1>16. Link(pe, stk', d, x2)
  BY <1>9, <1>10, <1>14, <1>15 DEF Link
<1>17. Chain(pe, stk', Append(due, d), x2)
  <2>1. x2.sp = Len(stk'[x2.ss]) /\ (\A r \in T!Stacks : r # x2.ss => stk'[r] = stk[r])
        /\ x2.ss = "kernel" /\ d.back.cpl = 3
    BY <1>6, <1>9, <1>10 DEF t
  <2> QED
    BY <1>3, <1>4, <1>6, <1>9, <1>12, <1>13, <1>16, <2>1, ChainGrows
<1> QED
  BY <1>3, <1>8, <1>11, <1>17, Assembled DEF x2

(* int_inter_previlege.                                                    *)
LEMMA InterStep ==
  ASSUME T!TransferAssumption, TransferInv, T!Room, NEW e \in 0 .. Length - 1, NEW here \in 0 .. Length - 1,
         NEW h \in Gates, pe, ~vm, T!Inner(h), T!Inter(h, e, here),
         NEW again \in BOOLEAN, NEW short \in BOOLEAN, T!Expect("iret", T!ContextAt(e), again, short), again = (~h.wide /\ e # here),
         fl' = [fl EXCEPT !.ifl = FALSE], eip' = 0, pe' = pe
  PROVE  TransferInv'
<1> DEFINE n == IF h.wide THEN e ELSE here
           o == T!Old(ss, Len(T!Top))
           g == T!Frame(cs, n, T!Image)
           w == <<o, g>>
<1>1. n \in 0 .. Length - 1 /\ (again \/ n = e)
  OBVIOUS
<1>2. h \in T!Gate /\ h.seg = "kernel" /\ h.rpl = 0 /\ cpl = 3
  <2>1. h \in T!Gate /\ (h.seg = "kernel" => h.rpl = 0)
    BY DEF T!TransferAssumption
  <2> QED
    BY <2>1, Now DEF T!Gate, T!Inner, T!Dpl
<1> HIDE DEF n
<1>3. g \in Group
  BY <1>1, Now, ImageIsFlags, FrameIsGroup
<1>4. o \in Group
  BY Now, OldIsGroup
<1>5. stk' = T!NewStack(w \o T!Code(h)) /\ cs' = [seg |-> "kernel", rpl |-> 0] /\ cpl' = 0
      /\ ss' = "kernel" /\ vm' = FALSE /\ ds' \in T!Data
  BY <1>2, Now DEF T!Inter, T!Dpl, n
<1> HIDE DEF o, g
<1>6. w \in Seq(Group) /\ Len(w) = 2 /\ w[2] = g /\ w[2 - 1] = o
  BY <1>3, <1>4
<1>7. T!Code(h) \in Seq(Group) /\ Plain(T!Code(h), 1, Len(T!Code(h)))
  BY <1>2, Codes
<1>8. w[2] = T!Frame(cs, n, T!Image) /\ w[2 - 1] = T!Old(ss, Len(T!Top)) /\ 2 \in {2, 3}
  BY <1>6 DEF o, g
<1> HIDE DEF w
<1>9. EntersKernel(w, 2, T!Code(h), n)
  BY <1>2, <1>5, <1>6, <1>7, <1>8, Zenon DEF EntersKernel
<1> QED
  BY <1>1, <1>6, <1>7, <1>8, <1>9, CalledKernel, Zenon

(* What is left of a data selector is one.                                 *)
LEMMA UsualIsData ==
  ASSUME NEW d \in T!Data, NEW r \in T!Usual(d)
  PROVE  r \in T!Data /\ r # "kernel"
BY DEF T!Usual, T!Data, T!Stacks

(* int_v86.                                                                *)
LEMMA FromV86Step ==
  ASSUME T!TransferAssumption, TransferInv, T!Room, NEW e \in 0 .. Length - 1,
         NEW h \in Gates, pe, vm, h.seg # "shared", T!FromV86(h, e),
         NEW again \in BOOLEAN, NEW short \in BOOLEAN, T!Expect("iret", T!ContextAt(e), again, short),
         fl' = [fl EXCEPT !.ifl = FALSE], eip' = 0, pe' = pe
  PROVE  TransferInv'
<1> DEFINE o == T!Old(ss, Len(T!Top))
           g == T!Frame(cs, e, T!Image)
           w == <<T!Saved(ds), o, g>>
<1>1. h \in T!Gate /\ h.seg = "kernel" /\ h.rpl = 0 /\ cpl = 3
  <2>1. h \in T!Gate /\ (h.seg = "kernel" => h.rpl = 0)
    BY DEF T!TransferAssumption
  <2>2. cpl = 3
    BY Now, Fields DEF Right, Running
  <2> QED
    BY <2>1, <2>2 DEF T!Gate
<1>2. g \in Group
  BY Now, ImageIsFlags, FrameIsGroup
<1>3. o \in Group /\ T!Saved(ds) \in Group
  BY Now, OldIsGroup, SavedIsGroup
<1>4. stk' = T!NewStack(w) /\ cs' = [seg |-> "kernel", rpl |-> 0] /\ cpl' = 0
      /\ ss' = "kernel" /\ vm' = FALSE /\ ds' \in T!Data
  BY <1>1, Now, UsualIsData DEF T!FromV86
<1>5. w[1].sel.seg = "8086"
  BY DEF TransferInv, Segments, T!Saved
<1> HIDE DEF o, g
<1>6. w \in Seq(Group) /\ Len(w) = 3 /\ w[3] = g /\ w[3 - 1] = o /\ w \o <<>> = w
      /\ <<>> \in Seq(Group) /\ Plain(<<>>, 1, Len(<<>>))
  <2>1. w \in Seq(Group) /\ Len(w) = 3 /\ w[3] = g /\ w[3 - 1] = o
    BY <1>2, <1>3
  <2> HIDE DEF w
  <2> QED
    BY <2>1, NoWords
<1>7. w[3] = T!Frame(cs, e, T!Image) /\ w[3 - 1] = T!Old(ss, Len(T!Top)) /\ 3 \in {2, 3}
  BY <1>6 DEF o, g
<1> HIDE DEF w
<1>8. EntersKernel(w, 3, <<>>, e)
  <2>1. w \o <<>> = w /\ Plain(<<>>, 1, Len(<<>>))
    BY <1>6
  <2>2. stk' = T!NewStack(w \o <<>>)
    BY <1>4, <2>1, Zenon
  <2> QED
    BY <1>1, <1>4, <1>5, <1>6, <1>7, <2>1, <2>2, Zenon DEF EntersKernel
<1> QED
  BY <1>6, <1>7, <1>8, CalledKernel, Zenon

LEMMA IntProtectedStep ==
  ASSUME T!TransferAssumption, TransferInv, T!Room, NEW e \in 0 .. Length - 1, NEW here \in 0 .. Length - 1,
         NEW h \in Gates, pe, vm => h.seg # "shared", ~vm /\ h.seg = "shared" => h.rpl = cpl,
         T!IntProtected(h, e, here)
  PROVE  TransferInv'
<1> DEFINE again == ~h.wide /\ T!Inner(h) /\ e # here
           short == vm /\ h.err
<1>1. h \in T!Gate /\ h.wide \in BOOLEAN /\ h.err \in BOOLEAN
  <2>1. h \in T!Gate
    BY DEF T!TransferAssumption
  <2> QED
    BY <2>1 DEF T!Gate
<1>2. again \in BOOLEAN /\ short \in BOOLEAN /\ T!Expect("iret", T!ContextAt(e), again, short)
      /\ fl' = [fl EXCEPT !.ifl = FALSE] /\ eip' = 0 /\ pe' = pe
  BY <1>1 DEF T!IntProtected
<1>3. \/ vm /\ T!FromV86(h, e)
      \/ ~vm /\ T!Inner(h) /\ T!Inter(h, e, here)
      \/ ~vm /\ ~T!Inner(h) /\ T!Intra(h, e)
  BY DEF T!IntProtected
<1>4. T!Inner(h) => again = (~h.wide /\ e # here)
  BY <1>1
<1> HIDE DEF again, short
<1>5. CASE vm /\ T!FromV86(h, e)
  BY <1>2, <1>5, FromV86Step
<1>6. CASE ~vm /\ T!Inner(h) /\ T!Inter(h, e, here)
  BY <1>2, <1>4, <1>6, InterStep
<1>7. CASE ~vm /\ ~T!Inner(h) /\ T!Intra(h, e)
  BY <1>2, <1>7, IntraStep
<1> QED
  BY <1>3, <1>5, <1>6, <1>7

LEMMA ProtectionGate ==
  ASSUME T!TransferAssumption
  PROVE  T!Protection \in Gates /\ T!Protection.seg = "kernel"
BY DEF T!TransferAssumption, T!Protection

(* What every gate does, of an INT n and of the hardware.                  *)
LEMMA IntCallStep ==
  ASSUME T!TransferAssumption, TransferInv, T!Room, NEW e \in 0 .. Length - 1, NEW here \in 0 .. Length - 1,
         NEW h \in Gates, T!Usable(h), T!IntCall(h, e, here)
  PROVE  TransferInv'
<1>1. pe \in BOOLEAN /\ vm \in BOOLEAN
  BY Now
<1>2. CASE ~pe \/ (vm /\ h \notin Redirected)
  <2>1. T!IntReal86(e) /\ (~pe \/ vm)
    BY <1>2 DEF T!IntCall
  <2> QED
    BY <2>1, IntReal86Step
<1>3. CASE ~(~pe \/ (vm /\ h \notin Redirected)) /\ ~T!Refused(h, TRUE)
  <2>1. pe /\ T!IntProtected(h, e, here) /\ (vm => h.seg # "shared")
    BY <1>3 DEF T!IntCall, T!Refused
  <2>2. ~vm /\ h.seg = "shared" => h.rpl = cpl
    BY <2>1 DEF T!Usable
  <2> QED
    BY <2>1, <2>2, IntProtectedStep
<1>4. CASE ~(~pe \/ (vm /\ h \notin Redirected)) /\ T!Refused(h, TRUE)
  <2>1. pe /\ T!IntProtected(T!Protection, here, here)
    BY <1>4 DEF T!IntCall
  <2>2. T!Protection \in Gates /\ T!Protection.seg = "kernel"
    BY ProtectionGate
  <2> HIDE DEF T!Protection
  <2> QED
    BY <2>1, <2>2, IntProtectedStep
<1> QED
  BY <1>2, <1>3, <1>4

LEMMA InterruptSteps ==
  ASSUME T!TransferAssumption, TransferInv, NEW h \in Gates, T!IntN(h) \/ T!Interrupt(h)
  PROVE  TransferInv'
<1>1. T!Next1 \in 0 .. Length - 1 /\ eip \in 0 .. Length - 1
  BY Now
<1>2. CASE T!IntN(h)
  BY <1>1, <1>2, IntCallStep DEF T!IntN
<1>3. CASE T!Interrupt(h)
  BY <1>1, <1>3, IntCallStep DEF T!Interrupt
<1> QED
  BY <1>2, <1>3

LEMMA FaultStep == ASSUME T!TransferAssumption, TransferInv, T!Fault PROVE TransferInv'
<1>1. T!Protection \in Gates /\ T!Protection.seg = "kernel" /\ eip \in 0 .. Length - 1
  BY Now, ProtectionGate
<1>2. T!Room /\ pe /\ T!IntProtected(T!Protection, eip, eip)
  BY DEF T!Fault
<1> HIDE DEF T!Protection
<1> QED
  BY <1>1, <1>2, IntProtectedStep

(* The return d, the last one that is outstanding, finds its group on top. *)
Matched(d) ==
  /\ d \in Entry /\ d.back \in Context /\ d.back.sp \in Nat /\ d.back.ss \in T!Stacks
  /\ Leads(T!At(0), d) /\ Right(pe, d.back) /\ d.back.sp <= Len(stk[d.back.ss])
  /\ d.back.vm \/ d.back.fl.iopl = fl.iopl

MatchedHere(d) ==
  /\ d.back.ss = ss /\ d.back.cpl = cpl /\ d.back.vm = vm /\ Len(T!Top) = d.back.sp + 1
  /\ ~T!At(0).fl.vm

MatchedOutside(d) ==
  /\ pe /\ ~vm /\ cpl = 0 /\ ss = "kernel" /\ d.back.cpl = 3 /\ d.back.ss # "kernel"
  /\ Len(T!Top) \in {2, 3} /\ T!At(0).fl.vm = d.back.vm
  /\ d.how = "iret" => /\ T!At(1).sel.seg = d.back.ss /\ T!At(1).num = d.back.sp
                       /\ d.back.vm => T!At(2).sel.seg = "8086"
  /\ d.how = "retf" => /\ ~d.back.vm /\ T!Top[1].sel.seg = d.back.ss
                       /\ T!Top[1].num = d.back.sp + (Len(T!Top) - 2)

LEMMA ReturnIsMatched ==
  ASSUME T!TransferAssumption, TransferInv, NEW how \in {"iret", "retf"},
         T!Returning(how, IF how = "iret" THEN "frame" ELSE "far")
  PROVE  /\ T!Last(due).how = how /\ Matched(T!Last(due)) /\ (MatchedHere(T!Last(due)) \/ MatchedOutside(T!Last(due)))
         /\ Len(T!Top) \in Nat \ {0} /\ T!At(0) \in Group /\ T!At(0) = T!Top[Len(T!Top)]
<1> DEFINE d == T!Last(due)
<1>1. due # <<>> /\ d.how = how /\ T!Top # <<>> /\ T!Last(T!Top).is \in {"frame", "far"}
  BY DEF T!Returning
<1>2. /\ due \in Seq(Entry) /\ Chain(pe, stk, due, Running) /\ Running \in Context /\ pe \in BOOLEAN
      /\ stk \in [T!Stacks -> Seq(Group)] /\ T!Top \in Seq(Group)
  BY Now
<1>3. d \in Entry /\ Len(due) # 0 /\ due[Len(due)] = d
  BY <1>1, <1>2, FrontOfDue
<1>4. Len(T!Top) \in Nat \ {0} /\ T!Last(T!Top) = T!Top[Len(T!Top)]
  BY <1>1, <1>2, EmptySeq DEF T!Last
<1>5. T!At(0) = T!Top[Len(T!Top)] /\ T!At(0) \in Group
  BY <1>2, <1>4 DEF T!At
<1> HIDE DEF d
<1>6. /\ Running.cs = cs /\ Running.cpl = cpl /\ Running.vm = vm /\ Running.ss = ss
      /\ Running.sp = Len(T!Top) /\ Running.fl = fl /\ stk[ss] = T!Top
  BY Fields DEF Running, T!Top
<1>7. /\ Leads(T!At(0), d) /\ Right(pe, d.back) /\ d.back.sp <= Len(stk[d.back.ss])
      /\ d.back.vm \/ d.back.fl.iopl = fl.iopl
      /\ \/ OnSameStack(stk, d, Running) /\ Len(T!Top) = d.back.sp + 1 /\ ~T!At(0).fl.vm
         \/ /\ Crossed(pe, stk, d, Running) /\ ss = "kernel" /\ cpl = 0 /\ d.back.ss # "kernel"
            /\ Len(T!Top) \in {2, 3} /\ AtGroup(stk, d, Running, Len(T!Top))
  <2>1. stk[Running.ss][Running.sp].is \in {"frame", "far"} /\ Running.sp # 0
    BY <1>1, <1>4, <1>6
  <2>2. stk[Running.ss][Running.sp] = T!At(0)
    BY <1>5, <1>6
  <2> DEFINE x == Running
  <2>3. x \in Context /\ Chain(pe, stk, due, x) /\ Right(pe, x) /\ x.cpl = cpl /\ x.ss = ss
        /\ x.sp = Len(T!Top) /\ x.fl = fl /\ stk[x.ss][x.sp] = T!At(0)
        /\ stk[x.ss][x.sp].is \in {"frame", "far"} /\ x.sp # 0
    BY <1>2, <1>6, <2>1, <2>2, Now
  <2> HIDE DEF x
  <2>4. /\ Leads(stk[x.ss][x.sp], d) /\ Right(pe, d.back) /\ d.back.sp <= Len(stk[d.back.ss])
        /\ d.back.vm \/ d.back.fl.iopl = x.fl.iopl
        /\ TopHere(stk, d, x) \/ TopOutside(pe, stk, d, x)
    BY <1>2, <1>3, <2>3, TopIsReturn, SMTT(30)
  <2> QED
    BY <2>3, <2>4 DEF x, TopHere, TopOutside
<1>8. d.back \in Context /\ d.back.sp \in Nat /\ d.back.ss \in T!Stacks
  BY <1>3 DEF Entry, Context
<1>9. Matched(d)
  BY <1>3, <1>7, <1>8 DEF Matched
<1>10. CASE OnSameStack(stk, d, Running) /\ Len(T!Top) = d.back.sp + 1 /\ ~T!At(0).fl.vm
  <2>1. MatchedHere(d)
    BY <1>6, <1>10 DEF OnSameStack, MatchedHere
  <2> QED
    BY <1>1, <1>4, <1>5, <1>9, <2>1 DEF d
<1>11. CASE /\ Crossed(pe, stk, d, Running) /\ ss = "kernel" /\ cpl = 0 /\ d.back.ss # "kernel"
            /\ Len(T!Top) \in {2, 3} /\ AtGroup(stk, d, Running, Len(T!Top))
  <2>1. pe /\ d.back.cpl = 3 /\ ~vm
    BY <1>6, <1>11 DEF Crossed
  <2>2. stk["kernel"] = T!Top /\ T!At(1) = T!Top[Len(T!Top) - 1]
    BY <1>6, <1>11 DEF T!At
  <2>3. /\ T!At(0).fl.vm = d.back.vm
        /\ d.how = "iret" => T!At(1).sel.seg = d.back.ss /\ T!At(1).num = d.back.sp
        /\ d.how = "iret" /\ d.back.vm => Len(T!Top) = 3 /\ T!Top[1].sel.seg = "8086"
        /\ d.how = "retf" => /\ ~d.back.vm /\ T!Top[1].sel.seg = d.back.ss
                             /\ T!Top[1].num = d.back.sp + (Len(T!Top) - 2)
    BY <1>5, <1>11, <2>2 DEF AtGroup
  <2>4. d.how = "iret" /\ d.back.vm => T!At(2).sel.seg = "8086"
    <3>1. 3 - 2 = 1
      OBVIOUS
    <3> QED
      BY <2>3, <3>1 DEF T!At
  <2>5. MatchedOutside(d)
    BY <1>11, <2>1, <2>3, <2>4 DEF MatchedOutside
  <2> QED
    BY <1>1, <1>4, <1>5, <1>9, <2>5 DEF d
<1> QED
  BY <1>7, <1>10, <1>11

(* What a return does to the processor.                                    *)
Restoring(d) ==
  /\ cs' = d.back.cs /\ cpl' = d.back.cpl /\ vm' = d.back.vm /\ ss' = d.back.ss /\ pe' = pe
  /\ eip' \in 0 .. Length - 1 /\ (d.again \/ eip' = d.back.eip)
  /\ ds' \in T!Data /\ Segments'
  /\ fl' \in ContextFlags /\ (d.back.vm \/ fl'.iopl = d.back.fl.iopl)
  /\ d.how = "iret" => /\ fl'.iopl = d.back.fl.iopl
                       /\ vm' \/ cpl' <= fl'.iopl => fl'.ifl = d.back.fl.ifl
  /\ stk' \in [T!Stacks -> Seq(Group)] /\ \A t \in T!Stacks : t # ss /\ t # ss' => stk'[t] = stk[t]
  /\ Agree(stk[ss'], stk'[ss'], Len(stk'[ss']))
  /\ Len(stk'[ss']) = d.back.sp
  /\ due' = T!Front(due)

LEMMA RestoringStep ==
  ASSUME T!TransferAssumption, TransferInv, due # <<>>, Matched(T!Last(due)), Restoring(T!Last(due))
  PROVE  TransferInv'
<1> DEFINE d == T!Last(due)
           v == T!Front(due)
<1>1. /\ due \in Seq(Entry) /\ Chain(pe, stk, due, Running) /\ Running \in Context /\ pe \in BOOLEAN
      /\ stk \in [T!Stacks -> Seq(Group)] /\ Len(due) <= Nest /\ Len(due) \in Nat /\ Nest \in Nat
  BY Now DEF TransferInv, TransferTypes, T!TypeOK, T!TransferAssumption
<1>2. /\ d \in Entry /\ due[Len(due)] = d /\ v \in Seq(Entry) /\ Len(due) = Len(v) + 1
      /\ \A k \in 1 .. Len(v) : v[k] = due[k]
  BY <1>1, FrontOfDue
<1>3. Len(v) \in Nat /\ Len(v) <= Nest
  BY <1>1, <1>2
<1> HIDE DEF d, v
<1>4. /\ cs' = d.back.cs /\ cpl' = d.back.cpl /\ vm' = d.back.vm /\ ss' = d.back.ss /\ pe' = pe
      /\ d.back \in Context /\ Right(pe, d.back)
      /\ due' = v /\ stk' \in [T!Stacks -> Seq(Group)] /\ eip' \in 0 .. Length - 1 /\ ds' \in T!Data
      /\ fl' \in ContextFlags /\ Segments' /\ (d.back.vm \/ fl'.iopl = d.back.fl.iopl)
  BY DEF Restoring, Matched, d, v
<1>5. TypedNext
  BY <1>1, <1>2, <1>3, <1>4 DEF TypedNext, Context
<1>6. Running' \in Context
  BY <1>5, TypedContext
<1>7. /\ Running'.cs = cs' /\ Running'.cpl = cpl' /\ Running'.vm = vm' /\ Running'.ss = ss'
      /\ Running'.sp = Len(stk'[ss']) /\ Running'.fl = fl' /\ Running.ss = ss
  BY Fields, FieldsNext DEF Running
<1> DEFINE x2 == Running'
<1> HIDE DEF x2
<1>8. Right(pe, x2)
  BY <1>4, <1>7 DEF Right, x2
<1>9. /\ x2 \in Context /\ x2.cpl = d.back.cpl /\ x2.vm = d.back.vm /\ x2.ss = d.back.ss
      /\ d.back.vm \/ x2.fl.iopl = d.back.fl.iopl
      /\ x2.sp = Len(stk'[x2.ss])
      /\ x2.sp = d.back.sp
      /\ Agree(stk[x2.ss], stk'[x2.ss], x2.sp)
      /\ SameBut(stk, stk', Running.ss, x2.ss)
  BY <1>4, <1>6, <1>7 DEF Restoring, SameBut, x2, d
<1>10. Chain(pe, stk', v, x2)
  <2>1. stk' \in [T!Stacks -> Seq(Group)]
    BY <1>4
  <2> DEFINE s2 == stk'
             x == Running
             p == pe
             s == stk
             u == due
  <2>2. /\ p \in BOOLEAN /\ s \in [T!Stacks -> Seq(Group)] /\ s2 \in [T!Stacks -> Seq(Group)]
        /\ u \in Seq(Entry) /\ v \in Seq(Entry) /\ x \in Context /\ x2 \in Context /\ d \in Entry
        /\ LastOf(u, v, d)
    BY <1>1, <1>2, <1>9, <2>1 DEF LastOf
  <2>3. /\ Chain(p, s, u, x) /\ Right(p, x2)
        /\ x2.cpl = d.back.cpl /\ x2.vm = d.back.vm /\ x2.ss = d.back.ss
        /\ d.back.vm \/ x2.fl.iopl = d.back.fl.iopl
        /\ x2.sp = Len(s2[x2.ss]) /\ x2.sp = d.back.sp
        /\ Agree(s[x2.ss], s2[x2.ss], x2.sp)
        /\ SameBut(s, s2, x.ss, x2.ss)
    BY <1>1, <1>8, <1>9
  <2> HIDE DEF s2, x, p, s, u
  <2>4. Chain(p, s2, v, x2)
    BY <2>2, <2>3, ChainReturns
  <2> QED
    BY <2>4 DEF p, s2
<1> QED
  BY <1>4, <1>5, <1>10, Assembled DEF x2

LEMMA RestoringRestores ==
  ASSUME T!TransferAssumption, Restoring(T!Last(due))
  PROVE  T!Restored(T!Last(due), T!ContextAt(eip)')
<1>1. /\ Running'.cs = cs' /\ Running'.cpl = cpl' /\ Running'.vm = vm' /\ Running'.ss = ss'
      /\ Running'.sp = Len(stk'[ss']) /\ Running'.fl = fl' /\ Running'.eip = eip'
  BY FieldsNext
<1> QED
  BY <1>1 DEF Restoring, T!Restored, Running

(* What is left of a stack is a stack.                                     *)
LEMMA LessIsStack ==
  ASSUME NEW t \in Seq(Group), NEW b \in Int, b <= Len(t)
  PROVE  SubSeq(t, 1, b) \in Seq(Group)
<1>1. 1 \in Int /\ \A i \in 1 .. b : t[i] \in Group
  OBVIOUS
<1> QED
  BY <1>1, SubSeqProperties

(* The flags and the address in the group of a return.                     *)
LEMMA GroupFields ==
  ASSUME T!TransferAssumption, NEW g \in Group, NEW d \in Entry, Leads(g, d)
  PROVE  /\ g.sel = d.back.cs /\ g.num \in 0 .. Length - 1 /\ (d.again \/ g.num = d.back.eip)
         /\ g.fl.ifl \in BOOLEAN /\ g.fl.iopl \in {0, 3} /\ g.fl.vm \in BOOLEAN
         /\ d.how = "iret" => g.fl.ifl = d.back.fl.ifl /\ g.fl.iopl = d.back.fl.iopl
BY DEF Leads, Group, T!Flags

LEMMA FlagsTyped ==
  ASSUME NEW i \in BOOLEAN, NEW p \in {0, 3}
  PROVE  /\ [ifl |-> i, iopl |-> p] \in ContextFlags
         /\ [ifl |-> i, iopl |-> p].ifl = i /\ [ifl |-> i, iopl |-> p].iopl = p
BY DEF ContextFlags

(* A return on the same stack: the group is removed, and what is below it  *)
(* is as it was.                                                           *)
LEMMA RemoveTop ==
  ASSUME T!TransferAssumption, TransferInv, NEW d \in Entry, Matched(d), MatchedHere(d),
         stk' = [stk EXCEPT ![ss] = T!Less(1)], ss' = ss
  PROVE  /\ stk' \in [T!Stacks -> Seq(Group)] /\ \A t \in T!Stacks : t # ss /\ t # ss' => stk'[t] = stk[t]
         /\ Agree(stk[ss'], stk'[ss'], Len(stk'[ss'])) /\ Len(stk'[ss']) = d.back.sp
<1>1. /\ T!Top \in Seq(Group) /\ Len(T!Top) = d.back.sp + 1 /\ d.back.sp \in Nat
      /\ stk \in [T!Stacks -> Seq(Group)] /\ ss \in T!Stacks /\ stk[ss] = T!Top
  BY Now DEF Matched, MatchedHere, T!Top
<1>2. T!Less(1) = SubSeq(T!Top, 1, d.back.sp)
  BY <1>1 DEF T!Less
<1>3. T!Less(1) \in Seq(Group) /\ Len(T!Less(1)) = d.back.sp /\ Agree(T!Top, T!Less(1), d.back.sp)
  <2>1. d.back.sp <= Len(T!Top)
    BY <1>1
  <2> QED
    BY <1>1, <1>2, <2>1, Cut
<1> HIDE DEF T!Less
<1>4. stk'[ss] = T!Less(1) /\ stk' \in [T!Stacks -> Seq(Group)] /\ \A t \in T!Stacks : t # ss => stk'[t] = stk[t]
  BY <1>1, <1>3
<1> QED
  BY <1>1, <1>3, <1>4

LEMMA SegmentsKept ==
  ASSUME TransferInv, pe' = pe, vm' = vm, cpl' = cpl, ds' = ds PROVE Segments'
BY DEF TransferInv, Segments

LEMMA IretRealRestores ==
  ASSUME T!TransferAssumption, TransferInv, T!Returning("iret", "frame"), ~pe \/ vm, T!IretReal
  PROVE  Matched(T!Last(due)) /\ Restoring(T!Last(due))
<1> DEFINE d == T!Last(due)
           g == T!At(0)
<1>1. d.how = "iret" /\ Matched(d) /\ (MatchedHere(d) \/ MatchedOutside(d)) /\ g \in Group
  BY ReturnIsMatched
<1>2. /\ cs' = g.sel /\ eip' = g.num /\ fl' = [ifl |-> g.fl.ifl, iopl |-> g.fl.iopl]
      /\ stk' = [stk EXCEPT ![ss] = T!Less(1)]
      /\ pe' = pe /\ vm' = vm /\ cpl' = cpl /\ ss' = ss /\ ds' = ds /\ due' = T!Front(due)
  BY DEF T!IretReal, T!Back
<1> HIDE DEF d, g
<1>3. MatchedHere(d)
  BY <1>1 DEF MatchedOutside
<1>4. d \in Entry /\ Leads(g, d)
  BY <1>1 DEF Matched, g
<1>5. /\ g.sel = d.back.cs /\ g.num \in 0 .. Length - 1 /\ (d.again \/ g.num = d.back.eip)
      /\ g.fl.ifl \in BOOLEAN /\ g.fl.iopl \in {0, 3}
      /\ g.fl.ifl = d.back.fl.ifl /\ g.fl.iopl = d.back.fl.iopl
  BY <1>1, <1>4, GroupFields
<1>6. fl' \in ContextFlags /\ fl'.ifl = d.back.fl.ifl /\ fl'.iopl = d.back.fl.iopl
  BY <1>2, <1>5, FlagsTyped
<1>7. /\ stk' \in [T!Stacks -> Seq(Group)] /\ \A t \in T!Stacks : t # ss /\ t # ss' => stk'[t] = stk[t]
      /\ Agree(stk[ss'], stk'[ss'], Len(stk'[ss'])) /\ Len(stk'[ss']) = d.back.sp
  BY <1>1, <1>2, <1>3, <1>4, RemoveTop
<1>8. Segments' /\ ds' \in T!Data
  BY <1>2, SegmentsKept, Now
<1>9. d.back.ss = ss /\ d.back.cpl = cpl /\ d.back.vm = vm
  BY <1>3 DEF MatchedHere
<1>10. Restoring(d)
  BY <1>2, <1>5, <1>6, <1>7, <1>8, <1>9 DEF Restoring
<1> QED
  BY <1>1, <1>10 DEF d

LEMMA IretSameRestores ==
  ASSUME T!TransferAssumption, TransferInv, T!Returning("iret", "frame"), pe, ~vm,
         ~(T!At(0).fl.vm /\ cpl = 0), T!At(0).sel.rpl = cpl, T!IretSame
  PROVE  Matched(T!Last(due)) /\ Restoring(T!Last(due))
<1> DEFINE d == T!Last(due)
           g == T!At(0)
<1>1. d.how = "iret" /\ Matched(d) /\ (MatchedHere(d) \/ MatchedOutside(d)) /\ g \in Group
  BY ReturnIsMatched
<1>2. /\ cs' = g.sel /\ eip' = g.num /\ cpl' = g.sel.rpl
      /\ fl' = [ifl |-> IF cpl' <= g.fl.iopl THEN g.fl.ifl ELSE fl.ifl,
                iopl |-> IF cpl' = 0 THEN g.fl.iopl ELSE fl.iopl]
      /\ stk' = [stk EXCEPT ![ss] = T!Less(1)]
      /\ pe' = pe /\ vm' = vm /\ ss' = ss /\ ds' = ds /\ due' = T!Front(due)
      /\ g.sel.rpl = cpl /\ ~(g.fl.vm /\ cpl = 0)
  BY DEF T!IretSame, T!Back
<1>3. d \in Entry /\ Leads(g, d) /\ Right(pe, d.back) /\ (d.back.vm \/ d.back.fl.iopl = fl.iopl)
  BY <1>1 DEF Matched
<1>4. MatchedOutside(d) => cpl = 0 /\ d.back.cpl = 3 /\ g.fl.vm = d.back.vm
  BY DEF MatchedOutside
<1> HIDE DEF d, g
<1>5. /\ g.sel = d.back.cs /\ g.num \in 0 .. Length - 1 /\ (d.again \/ g.num = d.back.eip)
      /\ g.fl.ifl \in BOOLEAN /\ g.fl.iopl \in {0, 3}
      /\ g.fl.ifl = d.back.fl.ifl /\ g.fl.iopl = d.back.fl.iopl
  BY <1>1, <1>3, GroupFields
<1>6. ~MatchedOutside(d)
  BY <1>2, <1>3, <1>4, <1>5 DEF Right
<1>7. MatchedHere(d)
  BY <1>1, <1>6
<1>8. d.back.ss = ss /\ d.back.cpl = cpl /\ d.back.vm = vm /\ d.back.fl.iopl = fl.iopl
  BY <1>3, <1>7 DEF MatchedHere
<1>9. fl \in ContextFlags /\ fl.ifl \in BOOLEAN /\ fl.iopl \in {0, 3}
  BY Now DEF ContextFlags
<1>10. /\ fl' \in ContextFlags /\ fl'.iopl = d.back.fl.iopl
       /\ cpl' <= fl'.iopl => fl'.ifl = d.back.fl.ifl
  <2> DEFINE i == IF cpl' <= g.fl.iopl THEN g.fl.ifl ELSE fl.ifl
             p == IF cpl' = 0 THEN g.fl.iopl ELSE fl.iopl
  <2>1. fl' = [ifl |-> i, iopl |-> p] /\ i \in BOOLEAN /\ p \in {0, 3} /\ p = d.back.fl.iopl
    BY <1>2, <1>5, <1>8, <1>9
  <2>2. cpl' <= p => i = d.back.fl.ifl
    BY <1>5, <2>1
  <2> HIDE DEF i, p
  <2> QED
    BY <2>1, <2>2, FlagsTyped
<1>11. /\ stk' \in [T!Stacks -> Seq(Group)] /\ \A t \in T!Stacks : t # ss /\ t # ss' => stk'[t] = stk[t]
       /\ Agree(stk[ss'], stk'[ss'], Len(stk'[ss'])) /\ Len(stk'[ss']) = d.back.sp
  BY <1>1, <1>2, <1>3, <1>7, RemoveTop
<1>12. Segments' /\ ds' \in T!Data
  BY <1>2, SegmentsKept, Now
<1>13. Restoring(d)
  BY <1>2, <1>5, <1>8, <1>10, <1>11, <1>12 DEF Restoring
<1> QED
  BY <1>1, <1>13 DEF d

(* A return to a program outside the kernel: its stack is cut at b.        *)
LEMMA CutOutside ==
  ASSUME T!TransferAssumption, TransferInv, NEW d \in Entry, Matched(d), MatchedOutside(d),
         NEW b \in Nat, b <= d.back.sp, ss' = d.back.ss, NEW m \in {2, 3},
         stk' = [stk EXCEPT ![ss] = T!Less(m), ![ss'] = SubSeq(@, 1, b)]
  PROVE  /\ stk' \in [T!Stacks -> Seq(Group)] /\ \A t \in T!Stacks : t # ss /\ t # ss' => stk'[t] = stk[t]
         /\ Agree(stk[ss'], stk'[ss'], Len(stk'[ss'])) /\ Len(stk'[ss']) = b
<1>1. /\ T!Top \in Seq(Group) /\ Len(T!Top) \in {2, 3} /\ d.back.sp \in Nat /\ d.back.ss \in T!Stacks
      /\ stk \in [T!Stacks -> Seq(Group)] /\ ss \in T!Stacks /\ stk[ss] = T!Top
      /\ d.back.ss # ss /\ d.back.sp <= Len(stk[d.back.ss])
  BY Now DEF Matched, MatchedOutside, T!Top
<1> DEFINE r == d.back.ss
           v == SubSeq(stk[r], 1, b)
<1>2. stk[r] \in Seq(Group) /\ Len(stk[r]) \in Nat /\ b <= Len(stk[r])
  <2>1. stk[r] \in Seq(Group)
    BY <1>1
  <2> HIDE DEF r
  <2> QED
    BY <1>1, <2>1 DEF r
<1>3. v \in Seq(Group) /\ Len(v) = b /\ Agree(stk[r], v, b)
  BY <1>2, Cut
<1>4. T!Less(m) \in Seq(Group)
  <2>1. Len(T!Top) - m \in Int /\ Len(T!Top) - m <= Len(T!Top)
    BY <1>1
  <2> QED
    BY <1>1, <2>1, LessIsStack DEF T!Less
<1>5. stk' = [stk EXCEPT ![ss] = T!Less(m), ![r] = v]
  BY <1>1
<1> HIDE DEF v, r, T!Less
<1>6. r \in T!Stacks /\ r # ss /\ ss' = r
  BY <1>1 DEF r
<1>7. stk'[r] = v /\ stk' \in [T!Stacks -> Seq(Group)] /\ \A t \in T!Stacks : t # ss /\ t # r => stk'[t] = stk[t]
  BY <1>1, <1>3, <1>4, <1>5, <1>6, ZenonT(40)
<1> QED
  BY <1>3, <1>6, <1>7

LEMMA IretOuterRestores ==
  ASSUME T!TransferAssumption, TransferInv, T!Returning("iret", "frame"), pe, ~vm,
         ~(T!At(0).fl.vm /\ cpl = 0), T!At(0).sel.rpl > cpl, T!IretOuter
  PROVE  Matched(T!Last(due)) /\ Restoring(T!Last(due))
<1> DEFINE d == T!Last(due)
           g == T!At(0)
           o == T!At(1)
<1>1. d.how = "iret" /\ Matched(d) /\ (MatchedHere(d) \/ MatchedOutside(d)) /\ g \in Group
  BY ReturnIsMatched
<1>2. /\ cs' = g.sel /\ eip' = g.num /\ cpl' = cs'.rpl
      /\ fl' = [fl EXCEPT !.ifl = IF cpl' <= g.fl.iopl THEN g.fl.ifl ELSE @]
      /\ ss' = o.sel.seg /\ ds' \in T!Usual(ds)
      /\ stk' = [stk EXCEPT ![ss] = T!Less(2), ![ss'] = SubSeq(@, 1, o.num)]
      /\ pe' = pe /\ vm' = vm /\ due' = T!Front(due)
      /\ g.sel.rpl > cpl /\ ~(g.fl.vm /\ cpl = 0)
  BY DEF T!IretOuter, T!Back
<1>3. d \in Entry /\ Leads(g, d) /\ Right(pe, d.back) /\ (d.back.vm \/ d.back.fl.iopl = fl.iopl)
      /\ d.back.sp \in Nat
  BY <1>1 DEF Matched
<1>4. MatchedOutside(d) => cpl = 0 /\ d.back.cpl = 3 /\ g.fl.vm = d.back.vm
                           /\ o.sel.seg = d.back.ss /\ o.num = d.back.sp
  BY <1>1 DEF MatchedOutside
<1>5. MatchedHere(d) => d.back.cpl = cpl /\ d.back.vm = vm
  BY DEF MatchedHere
<1> HIDE DEF d, g, o
<1>6. /\ g.sel = d.back.cs /\ g.num \in 0 .. Length - 1 /\ (d.again \/ g.num = d.back.eip)
      /\ g.fl.ifl \in BOOLEAN /\ g.fl.iopl \in {0, 3}
      /\ g.fl.ifl = d.back.fl.ifl /\ g.fl.iopl = d.back.fl.iopl
  BY <1>1, <1>3, GroupFields
<1>7. cpl \in {0, 3} /\ ds \in T!Data /\ fl \in ContextFlags
  BY Now
<1>8. ~MatchedHere(d)
  BY <1>2, <1>3, <1>5, <1>6, <1>7 DEF Right
<1>9. MatchedOutside(d)
  BY <1>1, <1>8
<1>10. /\ d.back.vm = FALSE /\ d.back.cpl = 3 /\ d.back.cs.rpl = 3 /\ ss' = d.back.ss
       /\ cpl' = 3 /\ vm' = FALSE /\ d.back.fl.iopl = fl.iopl /\ o.num = d.back.sp
  <2>1. d.back.vm = FALSE
    <3>1. d.back.vm \in BOOLEAN
      BY <1>3 DEF Entry, Context
    <3> QED
      BY <1>2, <1>4, <1>9, <3>1
  <2>2. d.back.cs.rpl = 3
    BY <1>3, <1>4, <1>9, <2>1 DEF Right
  <2>3. vm \in BOOLEAN
    BY Now
  <2> QED
    BY <1>2, <1>3, <1>4, <1>6, <1>9, <2>1, <2>2, <2>3
<1>11. /\ fl' \in ContextFlags /\ fl'.iopl = d.back.fl.iopl
       /\ cpl' <= fl'.iopl => fl'.ifl = d.back.fl.ifl
  <2> DEFINE i == IF cpl' <= g.fl.iopl THEN g.fl.ifl ELSE fl.ifl
  <2>1. fl.ifl \in BOOLEAN /\ fl' = [fl EXCEPT !.ifl = i]
    BY <1>2, <1>7 DEF ContextFlags
  <2>2. i \in BOOLEAN /\ (cpl' <= fl.iopl => i = d.back.fl.ifl)
    BY <1>6, <1>10, <2>1
  <2> HIDE DEF i
  <2>3. fl' \in ContextFlags /\ fl'.iopl = fl.iopl /\ fl'.ifl = i
    BY <1>7, <2>1, <2>2 DEF ContextFlags
  <2> QED
    BY <1>10, <2>2, <2>3
<1>12. /\ stk' \in [T!Stacks -> Seq(Group)] /\ \A t \in T!Stacks : t # ss /\ t # ss' => stk'[t] = stk[t]
       /\ Agree(stk[ss'], stk'[ss'], Len(stk'[ss'])) /\ Len(stk'[ss']) = d.back.sp
  <2>1. d.back.sp <= d.back.sp /\ stk' = [stk EXCEPT ![ss] = T!Less(2), ![ss'] = SubSeq(@, 1, d.back.sp)]
    BY <1>2, <1>3, <1>10
  <2> QED
    BY <1>1, <1>3, <1>9, <1>10, <2>1, CutOutside
<1>13. Segments' /\ ds' \in T!Data
  BY <1>2, <1>7, <1>10, UsualIsData DEF Segments
<1>14. Restoring(d)
  BY <1>2, <1>6, <1>10, <1>11, <1>12, <1>13 DEF Restoring
<1> QED
  BY <1>1, <1>14 DEF d

LEMMA IretToV86Restores ==
  ASSUME T!TransferAssumption, TransferInv, T!Returning("iret", "frame"), pe, ~vm,
         T!At(0).fl.vm /\ cpl = 0, T!IretToV86
  PROVE  Matched(T!Last(due)) /\ Restoring(T!Last(due))
<1> DEFINE d == T!Last(due)
           g == T!At(0)
           o == T!At(1)
           z == T!At(2)
<1>1. d.how = "iret" /\ Matched(d) /\ (MatchedHere(d) \/ MatchedOutside(d)) /\ g \in Group
  BY ReturnIsMatched
<1>2. /\ cs' = g.sel /\ eip' = g.num /\ cpl' = 3 /\ vm' = TRUE /\ ss' = "8086" /\ ds' = z.sel.seg
      /\ fl' = [ifl |-> g.fl.ifl, iopl |-> g.fl.iopl]
      /\ stk' = [stk EXCEPT ![ss] = T!Less(3), !["8086"] = SubSeq(@, 1, o.num)]
      /\ pe' = pe /\ due' = T!Front(due) /\ g.fl.vm
  BY DEF T!IretToV86, T!Back
<1>3. d \in Entry /\ Leads(g, d) /\ Right(pe, d.back) /\ d.back.sp \in Nat
  BY <1>1 DEF Matched
<1>4. MatchedOutside(d) => d.back.cpl = 3 /\ g.fl.vm = d.back.vm
                           /\ o.num = d.back.sp /\ (d.back.vm => z.sel.seg = "8086")
  BY <1>1 DEF MatchedOutside
<1>5. MatchedOutside(d)
  BY <1>1, <1>2 DEF MatchedHere
<1> HIDE DEF d, g, o, z
<1>6. /\ g.sel = d.back.cs /\ g.num \in 0 .. Length - 1 /\ (d.again \/ g.num = d.back.eip)
      /\ g.fl.ifl \in BOOLEAN /\ g.fl.iopl \in {0, 3}
      /\ g.fl.ifl = d.back.fl.ifl /\ g.fl.iopl = d.back.fl.iopl
  BY <1>1, <1>3, GroupFields
<1>7. d.back.vm = TRUE /\ d.back.cpl = 3 /\ d.back.ss = "8086" /\ ss' = d.back.ss
  <2>1. d.back.vm = TRUE
    <3>1. d.back.vm \in BOOLEAN
      BY <1>3 DEF Entry, Context
    <3> QED
      BY <1>2, <1>4, <1>5, <3>1
  <2> QED
    BY <1>2, <1>3, <1>4, <1>5, <2>1 DEF Right
<1>8. fl' \in ContextFlags /\ fl'.ifl = d.back.fl.ifl /\ fl'.iopl = d.back.fl.iopl
  BY <1>2, <1>6, FlagsTyped
<1>9. /\ stk' \in [T!Stacks -> Seq(Group)] /\ \A t \in T!Stacks : t # ss /\ t # ss' => stk'[t] = stk[t]
      /\ Agree(stk[ss'], stk'[ss'], Len(stk'[ss'])) /\ Len(stk'[ss']) = d.back.sp
  <2>1. d.back.sp <= d.back.sp
    BY <1>3
  <2>2. o.num = d.back.sp /\ ss' = "8086"
    BY <1>2, <1>4, <1>5
  <2>3. stk' = [stk EXCEPT ![ss] = T!Less(3), ![ss'] = SubSeq(@, 1, d.back.sp)]
    BY <1>2, <2>2, Zenon
  <2> QED
    BY <1>1, <1>3, <1>5, <1>7, <2>1, <2>3, CutOutside
<1>10. Segments' /\ ds' \in T!Data
  BY <1>2, <1>4, <1>5, <1>7 DEF Segments, T!Data, T!Stacks
<1>11. Restoring(d)
  BY <1>2, <1>6, <1>7, <1>8, <1>9, <1>10 DEF Restoring
<1> QED
  BY <1>1, <1>11 DEF d

LEMMA FarRetRestores ==
  ASSUME T!TransferAssumption, TransferInv, NEW n \in {0, 1}, T!FarRet(n)
  PROVE  due # <<>> /\ Matched(T!Last(due)) /\ Restoring(T!Last(due))
<1> DEFINE d == T!Last(due)
           g == T!At(0)
           o == T!At(n + 1)
<1>0. T!Returning("retf", "far") /\ due # <<>>
  BY DEF T!FarRet, T!Returning
<1>1. d.how = "retf" /\ Matched(d) /\ (MatchedHere(d) \/ MatchedOutside(d)) /\ g \in Group
      /\ Len(T!Top) \in Nat \ {0}
  BY <1>0, ReturnIsMatched
<1>2. /\ cs' = g.sel /\ eip' = g.num /\ pe' = pe /\ vm' = vm /\ fl' = fl /\ due' = T!Front(due)
      /\ \/ /\ ~pe \/ vm \/ g.sel.rpl = cpl
            /\ stk' = [stk EXCEPT ![ss] = T!Less(1)] /\ cpl' = cpl /\ ss' = ss /\ ds' = ds
         \/ /\ pe /\ ~vm /\ g.sel.rpl > cpl /\ Len(T!Top) = n + 2 /\ cpl' = cs'.rpl
            /\ ss' = o.sel.seg /\ ds' \in T!Usual(ds)
            /\ stk' = [stk EXCEPT ![ss] = T!Less(n + 2), ![ss'] = SubSeq(@, 1, o.num - n)]
  BY DEF T!FarRet, T!Back
<1>3. d \in Entry /\ Leads(g, d) /\ Right(pe, d.back) /\ (d.back.vm \/ d.back.fl.iopl = fl.iopl)
      /\ d.back.sp \in Nat
  BY <1>1 DEF Matched
<1>4. /\ MatchedOutside(d) => pe /\ ~vm /\ cpl = 0 /\ d.back.cpl = 3 /\ ~d.back.vm
                              /\ T!Top[1].sel.seg = d.back.ss /\ T!Top[1].num = d.back.sp + (Len(T!Top) - 2)
      /\ MatchedHere(d) => d.back.cpl = cpl /\ d.back.vm = vm /\ d.back.ss = ss
  BY <1>1 DEF MatchedOutside, MatchedHere
<1>5. Len(T!Top) = n + 2 => o = T!Top[1]
  <2>1. n + 2 - (n + 1) = 1
    OBVIOUS
  <2> QED
    BY <2>1 DEF T!At
<1> HIDE DEF d, g, o
<1>6. g.sel = d.back.cs /\ g.num \in 0 .. Length - 1 /\ (d.again \/ g.num = d.back.eip)
  BY <1>1, <1>3, GroupFields
<1>7. cpl \in {0, 3} /\ ds \in T!Data /\ fl \in ContextFlags /\ vm \in BOOLEAN /\ pe \in BOOLEAN
      /\ d.back.vm \in BOOLEAN
  BY <1>3, Now DEF Entry, Context
<1>8. CASE MatchedHere(d)
  <2>1. ~(pe /\ ~vm /\ g.sel.rpl > cpl)
    BY <1>3, <1>4, <1>6, <1>7, <1>8 DEF Right
  <2>2. stk' = [stk EXCEPT ![ss] = T!Less(1)] /\ cpl' = cpl /\ ss' = ss /\ ds' = ds
    BY <1>2, <2>1
  <2>3. /\ stk' \in [T!Stacks -> Seq(Group)] /\ \A t \in T!Stacks : t # ss /\ t # ss' => stk'[t] = stk[t]
        /\ Agree(stk[ss'], stk'[ss'], Len(stk'[ss'])) /\ Len(stk'[ss']) = d.back.sp
    BY <1>1, <1>3, <1>8, <2>2, RemoveTop
  <2>4. Segments' /\ ds' \in T!Data
    BY <1>2, <1>7, <2>2, SegmentsKept
  <2>5. d.how # "iret"
    BY <1>1
  <2>6. Restoring(d)
    BY <1>2, <1>3, <1>4, <1>6, <1>7, <1>8, <2>2, <2>3, <2>4, <2>5 DEF Restoring
  <2> QED
    BY <1>0, <1>1, <2>6 DEF d
<1>9. CASE MatchedOutside(d)
  <2>1. d.back.cs.rpl = 3 /\ d.back.vm = FALSE
    BY <1>3, <1>4, <1>7, <1>9 DEF Right
  <2>2. /\ Len(T!Top) = n + 2 /\ cpl' = 3 /\ ss' = o.sel.seg /\ ds' \in T!Usual(ds) /\ vm' = FALSE
        /\ stk' = [stk EXCEPT ![ss] = T!Less(n + 2), ![ss'] = SubSeq(@, 1, o.num - n)]
    BY <1>2, <1>4, <1>6, <1>7, <1>9, <2>1
  <2>3. ss' = d.back.ss /\ o.num - n = d.back.sp /\ n + 2 \in {2, 3} /\ d.back.sp <= d.back.sp
    <3>1. o.num = d.back.sp + (n + 2 - 2)
      BY <1>4, <1>5, <1>9, <2>2
    <3>2. o.num - n = d.back.sp /\ n + 2 \in {2, 3} /\ d.back.sp <= d.back.sp
      BY <1>3, <3>1
    <3> QED
      BY <1>4, <1>5, <1>9, <2>2, <3>2
  <2>4. /\ stk' \in [T!Stacks -> Seq(Group)] /\ \A t \in T!Stacks : t # ss /\ t # ss' => stk'[t] = stk[t]
        /\ Agree(stk[ss'], stk'[ss'], Len(stk'[ss'])) /\ Len(stk'[ss']) = d.back.sp
    <3>1. stk' = [stk EXCEPT ![ss] = T!Less(n + 2), ![ss'] = SubSeq(@, 1, d.back.sp)]
      BY <2>2, <2>3
    <3> QED
      BY <1>1, <1>3, <1>9, <2>3, <3>1, CutOutside
  <2>5. Segments' /\ ds' \in T!Data
    BY <1>7, <2>2, UsualIsData DEF Segments
  <2>6. d.how # "iret"
    BY <1>1
  <2>7. Restoring(d)
    BY <1>2, <1>3, <1>4, <1>6, <1>7, <1>9, <2>1, <2>2, <2>3, <2>4, <2>5, <2>6 DEF Restoring
  <2> QED
    BY <1>0, <1>1, <2>7 DEF d
<1> QED
  BY <1>1, <1>8, <1>9

LEMMA IretStep ==
  ASSUME T!TransferAssumption, TransferInv, T!Iret
  PROVE  T!Work \/ (due # <<>> /\ Matched(T!Last(due)) /\ Restoring(T!Last(due)))
<1>1. T!Returning("iret", "frame") /\ due # <<>>
  BY DEF T!Iret, T!Returning
<1>2. CASE ~pe /\ T!IretReal
  BY <1>1, <1>2, IretRealRestores
<1>3. CASE pe /\ vm /\ T!IretFromV86
  <2>1. CASE fl.iopl = 3
    BY <1>1, <1>3, <2>1, IretRealRestores DEF T!IretFromV86
  <2>2. CASE fl.iopl # 3
    BY <1>3, <2>2 DEF T!IretFromV86, T!Work
  <2> QED
    BY <2>1, <2>2
<1>4. CASE pe /\ ~vm /\ T!IretProtected
  BY <1>1, <1>4, IretToV86Restores, IretOuterRestores, IretSameRestores DEF T!IretProtected
<1> QED
  BY <1>2, <1>3, <1>4 DEF T!Iret

(* While the kernel waits for at most one return, no return finds its      *)
(* address on the stacks of the programs.                                  *)
LEMMA OutsideIsPlain ==
  ASSUME T!TransferAssumption, TransferInv, pe, ~vm, cpl = 0, ss = "kernel", Len(due) <= 1,
         NEW t \in {"user", "8086"}
  PROVE  Plain(stk[t], 1, Len(stk[t]))
<1>1. /\ due \in Seq(Entry) /\ Len(due) \in Nat /\ Running \in Context /\ Chain(pe, stk, due, Running)
      /\ stk \in [T!Stacks -> Seq(Group)] /\ pe \in BOOLEAN /\ Running.ss = "kernel"
  BY Now, Fields DEF Running
<1> DEFINE x == Running
<1> HIDE DEF x
<1>2. ASSUME \A k \in 1 .. Len(due) + 1 : Program(due, x, k).ss # t PROVE Plain(stk[t], 1, Len(stk[t]))
  BY <1>1, <1>2 DEF Chain, x
<1>3. CASE Len(due) = 0
  <2>1. \A k \in 1 .. Len(due) + 1 : k = 1 /\ ~(k <= Len(due))
    BY <1>3
  <2>2. \A k \in 1 .. Len(due) + 1 : Program(due, x, k) = x
    BY <2>1 DEF Program
  <2> QED
    BY <1>1, <1>2, <2>2 DEF x
<1>4. CASE Len(due) = 1
  <2> DEFINE d == due[1]
  <2>1. d \in Entry /\ 1 \in 1 .. Len(due) /\ Program(due, x, 1) = d.back /\ Program(due, x, 2) = x
    <3>1. 1 \in 1 .. Len(due) /\ 1 <= Len(due) /\ ~(2 <= Len(due))
      BY <1>4
    <3>2. d \in Entry
      BY <1>1, <3>1
    <3> QED
      BY <3>1, <3>2 DEF Program
  <2>2. d.back \in Context /\ d.back.sp \in Nat /\ d.back.ss \in T!Stacks
    <3>1. d.back \in Context
      BY <2>1 DEF Entry
    <3> QED
      BY <3>1 DEF Context
  <2> HIDE DEF d
  <2>3. CASE d.back.ss = t
    <3>1. Link(pe, stk, d, x)
      <4>1. Link(pe, stk, due[1], Program(due, x, 1 + 1))
        BY <1>1, <2>1 DEF Chain, x
      <4>2. 1 + 1 = 2 /\ due[1] = d
        BY DEF d
      <4> QED
        BY <2>1, <4>1, <4>2
    <3>2. Plain(stk[t], d.back.sp + 1, Len(stk[t]))
      <4>1. ~OnSameStack(stk, d, x)
        BY <1>1, <2>3 DEF OnSameStack, x
      <4> QED
        BY <2>3, <3>1, <4>1 DEF Link, Crossed
    <3>3. Plain(stk[t], 1, d.back.sp)
      BY <1>1, <2>1, <2>3 DEF Chain, x
    <3> QED
      BY <2>2, <3>2, <3>3 DEF Plain
  <2>4. CASE d.back.ss # t
    <3>1. \A k \in 1 .. Len(due) + 1 : k = 1 \/ k = 2
      BY <1>4
    <3>2. \A k \in 1 .. Len(due) + 1 : Program(due, x, k).ss # t
      BY <1>1, <2>1, <2>4, <3>1 DEF x
    <3> QED
      BY <1>2, <3>2
  <2> QED
    BY <2>3, <2>4
<1>5. Len(due) = 0 \/ Len(due) = 1
  <2>1. Len(due) \in Nat /\ Len(due) <= 1
    BY <1>1
  <2> DEFINE l == Len(due)
  <2> HIDE DEF l
  <2>2. l \in Nat /\ l <= 1
    BY <2>1 DEF l
  <2>3. l = 0 \/ l = 1
    BY ONLY <2>2
  <2> QED
    BY <2>3 DEF l
<1> QED
  BY <1>3, <1>4, <1>5

(* What the kernel writes to start a program at c on stack t.              *)
Written(f, c, t, n, how, p, q) ==
  /\ f \in Seq(Group) /\ c \in T!Sel /\ t \in {"user", "8086"} /\ n \in {0, 1}
  /\ how \in {"iret", "retf"} /\ p \in {0, 3} /\ q \in {2, 3} /\ Len(f) = q
  /\ t = "user" => c = [seg |-> "user", rpl |-> 3] /\ p = fl.iopl
  /\ t = "8086" => c = T!Start86 /\ q = 3 /\ f[1].sel.seg = "8086"
  /\ f[q].is = (IF how = "iret" THEN "frame" ELSE "far") /\ f[q].sel = c /\ f[q].num = 1
  /\ f[q].fl.vm = (t = "8086")
  /\ how = "iret" => /\ f[q].fl.ifl = TRUE /\ f[q].fl.iopl = p
                     /\ n = 0 /\ f[q - 1] = T!Old(t, Len(stk[t]))
  /\ how = "retf" => t = "user" /\ q = n + 2 /\ f[1] = T!Old(t, Len(stk[t]))

(* The kernel starts a program with a frame of its own making.             *)
LEMMA DispatchStep ==
  ASSUME T!TransferAssumption, TransferInv, NEW f, NEW c, NEW t, NEW n, NEW how, NEW p, NEW q,
         T!Dispatch(f, c, t, n, how, p), Written(f, c, t, n, how, p, q)
  PROVE  TransferInv'
<1>a. /\ f \in Seq(Group) /\ c \in T!Sel /\ t \in {"user", "8086"} /\ n \in {0, 1}
      /\ how \in {"iret", "retf"} /\ p \in {0, 3} /\ q \in {2, 3} /\ Len(f) = q
  BY DEF Written
<1>b. /\ t = "user" => c = [seg |-> "user", rpl |-> 3] /\ p = fl.iopl
      /\ t = "8086" => c = T!Start86 /\ q = 3 /\ f[1].sel.seg = "8086"
      /\ f[q].is = (IF how = "iret" THEN "frame" ELSE "far") /\ f[q].sel = c /\ f[q].num = 1
      /\ f[q].fl.vm = (t = "8086")
  BY DEF Written
<1>c. /\ how = "iret" => f[q].fl.ifl = TRUE /\ f[q].fl.iopl = p
      /\ how = "iret" => n = 0 /\ f[q - 1] = T!Old(t, Len(stk[t]))
      /\ how = "retf" => t = "user" /\ q = n + 2 /\ f[1] = T!Old(t, Len(stk[t]))
  BY DEF Written
<1> USE <1>a, <1>b, <1>c
<1> DEFINE b == [cs |-> c, cpl |-> 3, vm |-> t = "8086", eip |-> 1, ss |-> t,
                 sp |-> Len(stk[t]) - n, fl |-> [ifl |-> TRUE, iopl |-> p]]
           d == [how |-> how, again |-> FALSE, short |-> FALSE, back |-> b]
           x == Running'
<1>1. /\ pe /\ ~vm /\ cpl = 0 /\ ss = "kernel" /\ Len(due) <= 1 /\ Len(stk[t]) >= n
      /\ stk' = [stk EXCEPT !["kernel"] = f] /\ due' = <<d>>
      /\ pe' = pe /\ vm' = vm /\ cs' = cs /\ cpl' = cpl /\ eip' = eip /\ ss' = ss /\ ds' = ds /\ fl' = fl
  BY DEF T!Dispatch
<1>2. /\ stk \in [T!Stacks -> Seq(Group)] /\ t \in T!Stacks /\ t # "kernel" /\ "kernel" \in T!Stacks
      /\ pe \in BOOLEAN /\ 1 \in 0 .. Length - 1 /\ Nest \in Nat \ {0} /\ Right(pe, Running)
      /\ fl \in ContextFlags
  BY Now DEF T!Stacks, T!TransferAssumption
<1>3. stk[t] \in Seq(Group) /\ Len(stk[t]) \in Nat /\ Len(stk[t]) - n \in Nat
  <2>1. stk[t] \in Seq(Group)
    BY <1>2
  <2> QED
    BY <1>1, <2>1
<1>4. b \in Context
  <2>1. [ifl |-> TRUE, iopl |-> p] \in ContextFlags
    BY DEF ContextFlags
  <2> QED
    BY <1>2, <1>3, <2>1 DEF Context
<1>5. /\ b.cs = c /\ b.cpl = 3 /\ b.vm = (t = "8086") /\ b.eip = 1 /\ b.ss = t
      /\ (t = "8086" => b.vm = TRUE) /\ (t = "user" => b.vm = FALSE)
      /\ b.sp = Len(stk[t]) - n /\ b.fl.ifl = TRUE /\ b.fl.iopl = p
  OBVIOUS
<1> HIDE DEF b
<1>6. d \in Entry /\ d.how = how /\ d.back = b /\ d.again = FALSE
  BY <1>4 DEF Entry
<1> HIDE DEF d
<1>7. due' \in Seq(Entry) /\ Len(due') = 1 /\ due'[1] = d
  BY <1>1, <1>6
<1>8. stk' \in [T!Stacks -> Seq(Group)] /\ stk'["kernel"] = f
      /\ \A r \in T!Stacks : r # "kernel" => stk'[r] = stk[r]
  BY <1>1, <1>2
<1>9. TypedNext
  BY <1>1, <1>2, <1>7, <1>8, Now DEF TypedNext
<1>10. Segments'
  BY <1>1, SegmentsKept
<1>11. x \in Context /\ x.cs = cs /\ x.cpl = 0 /\ x.vm = vm /\ x.ss = "kernel" /\ x.sp = q /\ x.fl = fl
  BY <1>1, <1>8, <1>9, TypedContext, FieldsNext
<1> HIDE DEF x
<1>12. Right(pe, x)
  <2>1. Running.cs = cs /\ Running.cpl = cpl /\ Running.vm = vm /\ Running.ss = ss
    BY Fields DEF Running
  <2> QED
    BY <1>1, <1>2, <1>11, <2>1 DEF Right
<1>13. Right(pe, b)
  <2>1. CASE t = "user"
    <3>1. ~b.vm /\ b.cs.seg = "user" /\ b.cs.rpl = 3
      BY <1>5, <2>1
    <3> QED
      BY <1>1, <1>5, <2>1, <3>1 DEF Right, T!Dpl
  <2>2. CASE t = "8086"
    <3>1. b.vm /\ b.cs.seg = "8086"
      BY <1>5, <2>2 DEF T!Start86
    <3> QED
      BY <1>1, <1>5, <2>2, <3>1 DEF Right
  <2> QED
    BY <2>1, <2>2
<1>14. \A r \in {"user", "8086"} : Plain(stk[r], 1, Len(stk[r])) /\ stk'[r] = stk[r]
  BY <1>1, <1>8, OutsideIsPlain DEF T!Stacks
<1>15. b.sp <= Len(stk[t]) /\ Plain(stk[t], 1, b.sp) /\ Plain(stk[t], b.sp + 1, Len(stk[t]))
  <2>1. b.sp <= Len(stk[t]) /\ b.sp \in Nat
    BY <1>3, <1>5
  <2>2. Plain(stk[t], 1, Len(stk[t]))
    BY <1>14
  <2> QED
    BY <1>3, <2>1, <2>2 DEF Plain
<1>16. Crossed(pe, stk', d, x)
  BY <1>1, <1>5, <1>6, <1>11, <1>14, <1>15 DEF Crossed
<1>17. AtGroup(stk', d, x, q)
  <2>1. Leads(f[q], d)
    BY <1>2, <1>5, <1>6 DEF Leads
  <2>2. Plain(f, q + 1, q)
    BY DEF Plain
  <2>3. /\ how = "iret" => f[q - 1].sel.seg = t /\ f[q - 1].num = b.sp
        /\ b.vm => q = 3 /\ f[1].sel.seg = "8086"
    BY <1>3, <1>5 DEF T!Old
  <2>4. how = "retf" => /\ ~b.vm /\ f[1].sel.seg = t /\ f[1].num = b.sp + (q - 2)
                        /\ b.sp + (q - 2) <= Len(stk[t])
    <3> SUFFICES ASSUME how = "retf"
                 PROVE  /\ ~b.vm /\ f[1].sel.seg = t /\ f[1].num = b.sp + (q - 2)
                        /\ b.sp + (q - 2) <= Len(stk[t])
      OBVIOUS
    <3>1. t = "user" /\ q - 2 = n /\ f[1] = T!Old(t, Len(stk[t]))
      OBVIOUS
    <3>2. b.sp + n = Len(stk[t]) /\ ~b.vm
      BY <1>3, <1>5, <3>1
    <3>3. f[1].sel.seg = t /\ f[1].num = Len(stk[t])
      BY <3>1 DEF T!Old
    <3> QED
      BY <1>3, <3>1, <3>2, <3>3
  <2>5. stk'[t] = stk[t]
    BY <1>14
  <2> QED
    BY <1>5, <1>6, <1>8, <1>11, <2>1, <2>2, <2>3, <2>4, <2>5, SMTT(30) DEF AtGroup
<1>18. Link(pe, stk', d, x)
  <2>1. d.back.vm \/ d.back.fl.iopl = x.fl.iopl
    BY <1>5, <1>6, <1>11
  <2> QED
    BY <1>16, <1>17, <2>1 DEF Link
<1>19. Program(due', x, 1) = b /\ Program(due', x, 2) = x
  BY <1>6, <1>7 DEF Program
<1>20. Below(b, x)
  BY <1>5, <1>11, <1>2 DEF Below
<1>21. Chain(pe, stk', due', x)
  <2>1. x.sp = Len(stk'[x.ss])
    BY <1>8, <1>11
  <2>2. \A k \in 1 .. Len(due') + 1 : k = 1 \/ k = 2
    BY <1>7
  <2>3. Fits(pe, stk', b) /\ Fits(pe, stk', x)
    BY <1>5, <1>11, <1>12, <1>13, <1>14, <1>15, <2>1 DEF Fits
  <2>4. \A k \in 1 .. Len(due') + 1 : Fits(pe, stk', Program(due', x, k))
    BY <1>19, <2>2, <2>3
  <2>5. \A i, k \in 1 .. Len(due') + 1 : i < k => Below(Program(due', x, i), Program(due', x, k))
    <3>1. \A i, k \in 1 .. Len(due') + 1 : i < k => i = 1 /\ k = 2
      BY <1>7
    <3> QED
      BY <1>19, <1>20, <3>1
  <2>6. \A k \in 1 .. Len(due') : Link(pe, stk', due'[k], Program(due', x, k + 1))
    <3>1. \A k \in 1 .. Len(due') : k = 1 /\ k + 1 = 2
      BY <1>7
    <3> QED
      BY <1>7, <1>18, <1>19, <3>1
  <2>7. Plain(stk'[Program(due', x, 1).ss], 1, Program(due', x, 1).sp)
    BY <1>5, <1>14, <1>15, <1>19
  <2>8. \A r \in {"user", "8086"} : Plain(stk'[r], 1, Len(stk'[r]))
    BY <1>14
  <2> QED
    BY <2>1, <2>4, <2>5, <2>6, <2>7, <2>8 DEF Chain
<1> QED
  BY <1>1, <1>9, <1>10, <1>21, Assembled DEF x

LEMMA DispatchUserStep ==
  ASSUME T!TransferAssumption, TransferInv, T!DispatchUser
  PROVE  TransferInv'
<1> DEFINE c == [seg |-> "user", rpl |-> 3]
           o == T!Old("user", Len(stk["user"]))
           h == [ifl |-> TRUE, iopl |-> fl.iopl, vm |-> FALSE]
           g == T!Frame(c, 1, h)
           r == T!Far(c, 1)
<1>1. /\ stk["user"] \in Seq(Group) /\ Len(stk["user"]) \in Nat /\ fl.iopl \in {0, 3}
      /\ 1 \in 0 .. Length - 1
  <2>1. stk \in [T!Stacks -> Seq(Group)] /\ "user" \in T!Stacks /\ fl \in ContextFlags
    BY Now DEF T!Stacks
  <2>2. stk["user"] \in Seq(Group)
    BY <2>1
  <2> QED
    BY <2>1, <2>2 DEF ContextFlags, T!TransferAssumption
<1>2. c \in T!Sel /\ c = [seg |-> "user", rpl |-> 3]
  BY DEF T!Sel, T!Segs
<1>3. h \in T!Flags /\ h.ifl = TRUE /\ h.iopl = fl.iopl /\ h.vm = FALSE
  BY <1>1 DEF T!Flags
<1> HIDE DEF c, h
<1>4. o \in Group
  BY <1>1, OldIsGroup DEF T!Stacks
<1>5. g \in Group /\ g.is = "frame" /\ g.sel = c /\ g.num = 1 /\ g.fl = h
  BY <1>1, <1>2, <1>3, FrameIsGroup
<1>6. r \in Group /\ r.is = "far" /\ r.sel = c /\ r.num = 1 /\ ~r.fl.vm
  <2> DEFINE e == 1
  <2>1. c \in T!Sel /\ e \in 0 .. Length - 1 /\ e = 1
    BY <1>1, <1>2
  <2> HIDE DEF r, e
  <2>2. T!Far(c, e) \in Group /\ T!Far(c, e).is = "far" /\ T!Far(c, e).sel = c
        /\ T!Far(c, e).num = e /\ ~T!Far(c, e).fl.vm
    BY <2>1, FarIsGroup
  <2> QED
    BY <2>1, <2>2 DEF r
<1>7. \/ T!Dispatch(<<o, g>>, c, "user", 0, "iret", fl.iopl)
      \/ \E n \in {0, 1} : T!Dispatch(<<o>> \o T!Params(n) \o <<r>>, c, "user", n, "retf", fl.iopl)
  BY DEF T!DispatchUser, c, h
<1>8. o = T!Old("user", Len(stk["user"]))
  OBVIOUS
<1> HIDE DEF o, g, r
<1>9. CASE T!Dispatch(<<o, g>>, c, "user", 0, "iret", fl.iopl)
  <2> DEFINE f == <<o, g>>
  <2>1. f \in Seq(Group) /\ Len(f) = 2 /\ f[2] = g /\ f[2 - 1] = o
    BY <1>4, <1>5
  <2>2. T!Dispatch(f, c, "user", 0, "iret", fl.iopl)
    BY <1>9
  <2> HIDE DEF f
  <2> QED
    <3>1. Written(f, c, "user", 0, "iret", fl.iopl, 2)
      BY <1>1, <1>2, <1>3, <1>5, <1>8, <2>1 DEF Written
    <3> QED
      BY <2>2, <3>1, DispatchStep
<1>10. ASSUME NEW n \in {0, 1}, T!Dispatch(<<o>> \o T!Params(n) \o <<r>>, c, "user", n, "retf", fl.iopl)
       PROVE  TransferInv'
  <2> DEFINE f == <<o>> \o T!Params(n) \o <<r>>
  <2>1. T!Params(n) \in Seq(Group) /\ Len(T!Params(n)) = n
    <3> HIDE DEF T!Word
    <3>1. CASE n = 0
      <4>1. T!Params(n) = <<>>
        BY <3>1 DEF T!Params
      <4>2. <<>> \in Seq(Group) /\ Len(<<>>) = 0
        OBVIOUS
      <4> QED
        BY <3>1, <4>1, <4>2, Zenon
    <3>2. CASE n = 1
      <4>1. T!Params(n) = [i \in 1 .. 1 |-> T!Word("param")] /\ [i \in 1 .. 1 |-> T!Word("param")] = <<T!Word("param")>>
        BY <3>2 DEF T!Params
      <4>2. <<T!Word("param")>> \in Seq(Group) /\ Len(<<T!Word("param")>>) = 1
        BY ParamIsGroup
      <4>3. T!Params(n) = <<T!Word("param")>>
        BY <4>1, Zenon
      <4> QED
        BY <3>2, <4>2, <4>3, Zenon
    <3> QED
      BY <3>1, <3>2
  <2> DEFINE w == <<o>> \o T!Params(n)
  <2>2. <<o>> \in Seq(Group) /\ Len(<<o>>) = 1 /\ <<o>>[1] = o
    BY <1>4
  <2>3. w \in Seq(Group) /\ Len(w) = n + 1 /\ w[1] = o
    <3>1. /\ w \in Seq(Group) /\ Len(w) = Len(<<o>>) + Len(T!Params(n))
          /\ \A i \in 1 .. Len(<<o>>) + Len(T!Params(n)) :
               w[i] = IF i <= Len(<<o>>) THEN <<o>>[i] ELSE T!Params(n)[i - Len(<<o>>)]
      BY <2>1, <2>2, ConcatProperties
    <3>2. Len(w) = n + 1
      BY <2>1, <2>2, <3>1
    <3>3. 1 \in 1 .. Len(<<o>>) + Len(T!Params(n)) /\ 1 <= Len(<<o>>)
      BY <2>1, <2>2
    <3> QED
      BY <2>2, <3>1, <3>2, <3>3
  <2> HIDE DEF w
  <2>4. f = Append(w, r)
    BY <1>6, <2>3 DEF w
  <2>5. /\ f \in Seq(Group) /\ Len(f) = n + 2 /\ f[n + 2] = r /\ f[1] = o
    <3>1. Append(w, r) \in Seq(Group) /\ Len(Append(w, r)) = Len(w) + 1
          /\ Agree(w, Append(w, r), Len(w)) /\ Append(w, r)[Len(w) + 1] = r
      BY <1>6, <2>3, Pushed
    <3>2. 1 \in 1 .. Len(w) /\ Len(w) + 1 = n + 2
      BY <2>3
    <3>3. Append(w, r)[1] = o
      BY <2>3, <3>1, <3>2 DEF Agree
    <3> QED
      BY <2>4, <3>1, <3>2, <3>3
  <2>6. T!Dispatch(f, c, "user", n, "retf", fl.iopl)
    BY <1>10
  <2> HIDE DEF f
  <2> DEFINE q == n + 2
  <2>7. q \in {2, 3} /\ Len(f) = q /\ f[q] = r /\ q = n + 2
    BY <2>5
  <2>8. f[q].fl.vm = ("user" = "8086")
    <3>1. r.fl.vm \in BOOLEAN
      BY <1>6 DEF Group, T!Flags
    <3> QED
      BY <1>6, <2>7, <3>1
  <2> HIDE DEF q
  <2>9. Written(f, c, "user", n, "retf", fl.iopl, q)
    BY <1>1, <1>2, <1>6, <1>8, <2>5, <2>7, <2>8 DEF Written
  <2> QED
    BY <2>6, <2>9, DispatchStep
<1> QED
  BY <1>7, <1>9, <1>10

LEMMA DispatchV86Step ==
  ASSUME T!TransferAssumption, TransferInv, NEW p \in {0, 3}, T!DispatchV86(p) PROVE TransferInv'
<1> DEFINE s == T!Saved("8086")
           o == T!Old("8086", Len(stk["8086"]))
           h == [ifl |-> TRUE, iopl |-> p, vm |-> TRUE]
           g == T!Frame(T!Start86, 1, h)
           f == <<s, o, g>>
<1>1. /\ stk["8086"] \in Seq(Group) /\ Len(stk["8086"]) \in Nat /\ 1 \in 0 .. Length - 1
  <2>1. stk \in [T!Stacks -> Seq(Group)] /\ "8086" \in T!Stacks
    BY Now DEF T!Stacks
  <2>2. stk["8086"] \in Seq(Group)
    BY <2>1
  <2> QED
    BY <2>2 DEF T!TransferAssumption
<1>2. T!Start86 \in T!Sel
  BY DEF T!Start86, T!Sel, T!Segs
<1>3. h \in T!Flags /\ h.ifl = TRUE /\ h.iopl = p /\ h.vm = TRUE
  BY DEF T!Flags
<1> HIDE DEF h
<1>4. o \in Group /\ s \in Group /\ s.sel.seg = "8086"
  BY <1>1, OldIsGroup, SavedIsGroup DEF T!Stacks, T!Data, T!Saved
<1>5. g \in Group /\ g.is = "frame" /\ g.sel = T!Start86 /\ g.num = 1 /\ g.fl = h
  BY <1>1, <1>2, <1>3, FrameIsGroup
<1>6. T!Dispatch(f, T!Start86, "8086", 0, "iret", p) /\ o = T!Old("8086", Len(stk["8086"]))
  BY DEF T!DispatchV86, h
<1> HIDE DEF s, o, g
<1>7. f \in Seq(Group) /\ Len(f) = 3 /\ f[3] = g /\ f[3 - 1] = o /\ f[1].sel.seg = "8086"
  BY <1>4, <1>5
<1> HIDE DEF f
<1>8. /\ f[3].is = "frame" /\ f[3].sel = T!Start86 /\ f[3].num = 1 /\ f[3].fl.vm = ("8086" = "8086")
      /\ f[3].fl.ifl = TRUE /\ f[3].fl.iopl = p /\ f[3 - 1] = T!Old("8086", Len(stk["8086"]))
  BY <1>3, <1>5, <1>6, <1>7
<1>9. Written(f, T!Start86, "8086", 0, "iret", p, 3)
  BY <1>2, <1>7, <1>8 DEF Written
<1> QED
  BY <1>6, <1>9, DispatchStep

LEMMA TransferStep == ASSUME T!TransferAssumption, TransferInv, T!Next PROVE TransferInv'
<1>1. CASE T!Work BY <1>1, WorkStep
<1>2. CASE T!PushParam BY <1>2, PushParamStep
<1>3. CASE T!PopWord BY <1>3, PopWordStep
<1>4. ASSUME NEW on \in BOOLEAN, T!SetIf(on) PROVE TransferInv'
  BY <1>4, SetIfStep
<1>5. ASSUME NEW d \in T!Stacks, T!LoadData(d) PROVE TransferInv'
  BY <1>5, LoadDataStep
<1>6. ASSUME NEW g \in Gates, T!IntN(g) \/ T!Interrupt(g) PROVE TransferInv'
  BY <1>6, InterruptSteps
<1>7. CASE T!Fault BY <1>7, FaultStep
<1>8. CASE T!Iret BY <1>8, IretStep, WorkStep, RestoringStep
<1>9. ASSUME NEW r \in T!Segs, T!FarJump(r) \/ T!FarCall(r) PROVE TransferInv'
  BY <1>9, FarJumpStep, FarCallStep
<1>10. ASSUME NEW n \in {0, 1}, T!FarRet(n) PROVE TransferInv'
  BY <1>10, FarRetRestores, RestoringStep
<1>11. CASE T!DispatchUser BY <1>11, DispatchUserStep
<1>12. ASSUME NEW p \in {0, 3}, T!DispatchV86(p) PROVE TransferInv'
  BY <1>12, DispatchV86Step
<1> QED
  BY <1>1, <1>2, <1>3, <1>4, <1>5, <1>6, <1>7, <1>8, <1>9, <1>10, <1>11, <1>12 DEF T!Next

LEMMA TransferStays == ASSUME TransferInv, UNCHANGED T!vars PROVE TransferInv'
<1>1. /\ pe' = pe /\ vm' = vm /\ cs' = cs /\ cpl' = cpl /\ eip' = eip /\ ss' = ss /\ ds' = ds
      /\ fl' = fl /\ stk' = stk /\ due' = due
  BY DEF T!vars
<1>2. T!ContextAt(eip)' = T!ContextAt(eip)
  BY <1>1 DEF T!ContextAt, T!Top
<1>3. T!TypeOK'
  BY <1>1 DEF TransferInv, TransferTypes, T!TypeOK, T!Image
<1>4. TransferTypes' /\ Segments'
  BY <1>1, <1>3 DEF TransferInv, TransferTypes, Segments
<1>5. Chain(pe', stk', due', T!ContextAt(eip)')
  BY <1>1, <1>2 DEF TransferInv
<1> QED
  BY <1>4, <1>5 DEF TransferInv

LEMMA TransferStarts == ASSUME T!TransferAssumption, T!Init PROVE TransferInv
<1>1. /\ eip = 0 /\ due = <<>> /\ stk = [s \in T!Stacks |-> <<>>] /\ ss \in T!Stacks /\ ds = ss
      /\ pe \in BOOLEAN /\ vm \in BOOLEAN /\ cpl \in {0, 3} /\ cs \in T!Sel /\ fl \in ContextFlags
      /\ ~pe => ~vm /\ cpl = 0 /\ ss = "8086"
      /\ vm => pe /\ cpl = 3 /\ ss = "8086" /\ cs.seg \in {"8086", "bios"}
      /\ pe /\ ~vm => /\ cs.rpl = cpl /\ (cs.seg # "shared" => T!Dpl(cs.seg) = cpl)
                      /\ ss = IF cpl = 0 THEN "kernel" ELSE "user"
  <2>1. eip = 0 /\ due = <<>> /\ stk = [s \in T!Stacks |-> <<>>]
    BY DEF T!Init
  <2>2. PICK mode \in {"real", "kernel", "user", "v86"}, p \in {0, 3} :
          /\ pe = (mode # "real") /\ vm = (mode = "v86")
          /\ cs = [seg |-> T!Start(mode).seg, rpl |-> IF vm THEN 0 ELSE T!Start(mode).level]
          /\ cpl = T!Start(mode).level /\ ss = T!Start(mode).stack /\ ds = ss
          /\ fl = [ifl |-> TRUE, iopl |-> p]
    BY DEF T!Init
  <2>3. fl \in ContextFlags
    BY <2>2 DEF ContextFlags
  <2>4. CASE mode = "real"
    <3>1. T!Start(mode).seg = "8086" /\ T!Start(mode).stack = "8086" /\ T!Start(mode).level = 0
      BY <2>4 DEF T!Start
    <3>2. ~pe /\ ~vm /\ pe \in BOOLEAN /\ vm \in BOOLEAN
      BY <2>2, <2>4
    <3>3. cs = [seg |-> "8086", rpl |-> 0] /\ cpl = 0 /\ ss = "8086" /\ ds = ss
      BY <2>2, <3>1, <3>2
    <3>4. cs \in T!Sel /\ cs.seg = "8086" /\ cs.rpl = 0
      BY <3>3 DEF T!Sel, T!Segs
    <3> QED
      BY <2>1, <2>3, <3>2, <3>3, <3>4 DEF T!Stacks, T!Dpl
  <2>5. CASE mode = "kernel"
    <3>1. T!Start(mode).seg = "kernel" /\ T!Start(mode).stack = "kernel" /\ T!Start(mode).level = 0
      BY <2>5 DEF T!Start
    <3>2. pe /\ ~vm /\ pe \in BOOLEAN /\ vm \in BOOLEAN
      BY <2>2, <2>5
    <3>3. cs = [seg |-> "kernel", rpl |-> 0] /\ cpl = 0 /\ ss = "kernel" /\ ds = ss
      BY <2>2, <3>1, <3>2
    <3>4. cs \in T!Sel /\ cs.seg = "kernel" /\ cs.rpl = 0
      BY <3>3 DEF T!Sel, T!Segs
    <3> QED
      BY <2>1, <2>3, <3>2, <3>3, <3>4 DEF T!Stacks, T!Dpl
  <2>6. CASE mode = "user"
    <3>1. T!Start(mode).seg = "user" /\ T!Start(mode).stack = "user" /\ T!Start(mode).level = 3
      BY <2>6 DEF T!Start
    <3>2. pe /\ ~vm /\ pe \in BOOLEAN /\ vm \in BOOLEAN
      BY <2>2, <2>6
    <3>3. cs = [seg |-> "user", rpl |-> 3] /\ cpl = 3 /\ ss = "user" /\ ds = ss
      BY <2>2, <3>1, <3>2
    <3>4. cs \in T!Sel /\ cs.seg = "user" /\ cs.rpl = 3
      BY <3>3 DEF T!Sel, T!Segs
    <3> QED
      BY <2>1, <2>3, <3>2, <3>3, <3>4 DEF T!Stacks, T!Dpl
  <2>7. CASE mode = "v86"
    <3>1. T!Start(mode).seg = "8086" /\ T!Start(mode).stack = "8086" /\ T!Start(mode).level = 3
      BY <2>7 DEF T!Start
    <3>2. pe /\ vm /\ pe \in BOOLEAN /\ vm \in BOOLEAN
      BY <2>2, <2>7
    <3>3. cs = [seg |-> "8086", rpl |-> 0] /\ cpl = 3 /\ ss = "8086" /\ ds = ss
      BY <2>2, <3>1, <3>2
    <3>4. cs \in T!Sel /\ cs.seg = "8086" /\ cs.rpl = 0
      BY <3>3 DEF T!Sel, T!Segs
    <3> QED
      BY <2>1, <2>3, <3>2, <3>3, <3>4 DEF T!Stacks, T!Dpl
  <2> QED
    BY <2>2, <2>4, <2>5, <2>6, <2>7
<1> DEFINE x == Running
<1>2. /\ \A t \in T!Stacks : stk[t] = <<>> /\ Len(stk[t]) = 0
      /\ stk \in [T!Stacks -> Seq(Group)] /\ due \in Seq(Entry) /\ Len(due) = 0
  BY <1>1
<1>3. /\ x.cs = cs /\ x.cpl = cpl /\ x.vm = vm /\ x.ss = ss /\ x.sp = 0 /\ x.eip = 0 /\ x.fl = fl
  BY <1>1, <1>2, Fields DEF Running
<1> HIDE DEF x
<1>4. Right(pe, x)
  BY <1>1, <1>3 DEF Right
<1>5. TransferTypes
  <2>1. T!Image \in T!Flags /\ 0 \in 0 .. Length - 1
    BY <1>1 DEF T!Image, T!Flags, ContextFlags, T!TransferAssumption
  <2>2. ds \in T!Data
    BY <1>1 DEF T!Data, T!Stacks
  <2>3. Nest \in Nat
    BY DEF T!TransferAssumption
  <2> QED
    BY <1>1, <1>2, <2>1, <2>2, <2>3 DEF TransferTypes, T!TypeOK
<1>6. Segments
  BY <1>1 DEF Segments
<1>7. Chain(pe, stk, due, x)
  <2>1. \A k \in 1 .. Len(due) + 1 : k = 1 /\ ~(k <= Len(due))
    BY <1>2
  <2>2. Program(due, x, 1) = x /\ \A k \in 1 .. Len(due) + 1 : Program(due, x, k) = x
    BY <1>2, <2>1 DEF Program
  <2>3. Fits(pe, stk, x) /\ x.sp = Len(stk[x.ss])
    BY <1>1, <1>2, <1>3, <1>4 DEF Fits
  <2>4. \A i, k \in 1 .. Len(due) + 1 : ~(i < k)
    BY <2>1
  <2>5. \A k \in 1 .. Len(due) : FALSE
    BY <1>2
  <2>6. Plain(stk[x.ss], 1, x.sp) /\ \A t \in {"user", "8086"} : Plain(stk[t], 1, Len(stk[t]))
    BY <1>1, <1>2, <1>3 DEF Plain, T!Stacks
  <2> QED
    BY <2>2, <2>3, <2>4, <2>5, <2>6 DEF Chain
<1> QED
  BY <1>1, <1>5, <1>6, <1>7 DEF TransferInv, x, Running

LEMMA LevelsFollow == ASSUME T!TransferAssumption, TransferInv PROVE T!LevelsAgree
<1>1. /\ Right(pe, Running) /\ cpl \in {0, 3} /\ cs \in T!Sel /\ vm \in BOOLEAN
      /\ Running.cs = cs /\ Running.cpl = cpl /\ Running.vm = vm /\ Running.ss = ss
  BY Now, Fields DEF Running
<1>2. Segments
  BY DEF TransferInv
<1>3. ASSUME pe, ~vm, T!Returning("iret", "frame") PROVE T!At(0).sel.rpl >= cpl
  <2> DEFINE d == T!Last(due)
  <2>1. Matched(d) /\ (MatchedHere(d) \/ MatchedOutside(d))
    BY <1>3, ReturnIsMatched
  <2> HIDE DEF d
  <2>2. T!At(0).sel = d.back.cs /\ Right(pe, d.back) /\ d.back.cs \in T!Sel
    BY <2>1 DEF Matched, Leads, Context
  <2>3. CASE MatchedHere(d)
    <3>1. d.back.vm = vm /\ d.back.cpl = cpl
      BY <2>3 DEF MatchedHere
    <3> QED
      BY <1>1, <1>3, <2>2, <3>1 DEF Right
  <2>4. CASE MatchedOutside(d)
    BY <2>2, <2>4 DEF MatchedOutside, T!Sel
  <2> QED
    BY <2>1, <2>3, <2>4
<1> QED
  BY <1>1, <1>2, <1>3 DEF T!LevelsAgree, Right, Segments

LEMMA ReturnFollows ==
  ASSUME T!TransferAssumption, TransferInv
  PROVE  T!ReturnRestores
<1> SUFFICES ASSUME T!Iret \/ (\E n \in {0, 1} : T!FarRet(n)), due' # due
             PROVE  T!Restored(T!Last(due), T!ContextAt(eip)')
  BY DEF T!ReturnRestores
<1>1. ~T!Work
  BY DEF T!Work
<1>2. Restoring(T!Last(due))
  BY <1>1, IretStep, FarRetRestores
<1> QED
  BY <1>2, RestoringRestores

(* The chain of waiting programs holds always, for any gates and any depth *)
(* of nesting (int.cpp, iret.cpp, call.cpp, ret.cpp, jump.cpp).            *)
THEOREM TransferIsSafe == ASSUME T!TransferAssumption PROVE T!Spec => []TransferInv
<1>1. T!Init => TransferInv
  BY TransferStarts
<1>2. TransferInv /\ [T!Next]_(T!vars) => TransferInv'
  BY TransferStep, TransferStays
<1> QED
  BY <1>1, <1>2, PTL DEF T!Spec

LEMMA TransferVars == T!vars = transferVars
BY DEF T!vars, transferVars

(* Through any sequence of interrupts, faults, calls, jumps, returns and   *)
(* dispatches, with any gates: the level, the selector it runs under, its  *)
(* stack and its data selectors agree, and the frame an IRET finds never   *)
(* asks for a level further inside (int.cpp, iret.cpp, call.cpp, ret.cpp). *)
THEOREM LevelsAlwaysAgree == ASSUME T!TransferAssumption PROVE T!Spec => []LevelsAgree
<1>1. TransferInv => LevelsAgree
  BY LevelsFollow DEF LevelsAgree, TransferInv, TransferTypes
<1> QED
  BY <1>1, TransferIsSafe, PTL

(* Every IRET and far RET that removes a return leads to the place that is *)
(* to be returned to: its segment, address, level, mode, stack pointer and *)
(* flags, however interrupts, faults, calls and dispatches are nested      *)
(* (int.cpp, iret.cpp, call.cpp, ret.cpp).                                 *)
THEOREM ReturnsAreExact == ASSUME T!TransferAssumption PROVE T!Spec => ReturnsExact
<1>1. TransferInv /\ [T!Next]_(T!vars) => [part = "transfer" => T!ReturnRestores]_transferVars
  <2> SUFFICES ASSUME TransferInv PROVE T!ReturnRestores
    OBVIOUS
  <2> QED
    BY ReturnFollows
<1> QED
  BY <1>1, TransferIsSafe, PTL DEF T!Spec, ReturnsExact
=============================================================================
