--------------------------- MODULE Kbc8042_proofs ---------------------------
(***************************************************************************)
(* Proofs about Kbc8042 for a ring of any size and any sets of keys,       *)
(* commands and data bytes: buffered bytes are announced, the front of the *)
(* buffer interrupts, A20 follows its gates, and the ring of indices       *)
(* implements the abstract buffer of KbdBuffer.                            *)
(***************************************************************************)
EXTENDS Kbc8042, SequenceTheorems, TLAPS

IInv == TypeOK /\ DataAnnounced

(***************************** Bits and bytes ******************************)
(* Setting and clearing a bit of a byte gives a byte; bit 5 is not bit 4.  *)
LEMMA BitsOfByte ==
  ASSUME NEW b \in Byte
  PROVE  /\ SetBit(b, 4) \in Byte /\ ClrBit(b, 4) \in Byte
         /\ SetBit(b, 5) \in Byte /\ ClrBit(b, 5) \in Byte
         /\ KbdDisabled(SetBit(b, 4))
         /\ KbdDisabled(SetBit(b, 5)) <=> KbdDisabled(b)
         /\ KbdDisabled(ClrBit(b, 5)) <=> KbdDisabled(b)
<1>1. 2^4 = 16 /\ 2^5 = 32 /\ b \in 0 .. 255
  BY DEF Byte
<1>2. CASE Bit(b, 4)
  BY <1>1, <1>2 DEF Byte, Bit, SetBit, ClrBit, KbdDisabled
<1>3. CASE ~Bit(b, 4)
  BY <1>1, <1>3 DEF Byte, Bit, SetBit, ClrBit, KbdDisabled
<1> QED
  BY <1>2, <1>3

(* Moving an index keeps it inside the ring.                               *)
LEMMA IndexStays ==
  ASSUME NEW i \in Slots
  PROVE  Up(i) \in Slots /\ Down(i) \in Slots
BY KbcAssumption DEF Slots, Up, Down

(* What the controller answers is a byte.                                  *)
LEMMA AnswerIsByte == ASSUME TypeOK, NEW c \in Commands PROVE Answer(c) \in Byte
BY DEF TypeOK, Answer, Byte

(******************************** The ring *********************************)
(* The ring's three variables after an operation on them.                  *)
RingType == rd \in Slots /\ wr \in Slots /\ ibuf \in [Slots -> Byte]

LEMMA PlaceType ==
  ASSUME RingType, NEW b \in Byte, Place(b)
  PROVE  RingType' /\ obf' = TRUE /\ irq' \in BOOLEAN
BY IndexStays DEF RingType, Place, IntEnabled, Bit

LEMMA PlaceTwiceType ==
  ASSUME RingType, NEW b \in Byte, NEW c \in Byte, PlaceTwice(b, c)
  PROVE  RingType' /\ obf' = TRUE /\ irq' \in BOOLEAN
<1>1. Down(rd) \in Slots /\ Down(Down(rd)) \in Slots
  BY IndexStays DEF RingType
<1> QED
  BY <1>1 DEF RingType, PlaceTwice, IntEnabled, Bit

LEMMA ClearThenPlaceType ==
  ASSUME RingType, NEW b \in Byte, ClearThenPlace(b)
  PROVE  RingType' /\ obf' = TRUE /\ irq' \in BOOLEAN
<1>1. RingSize - 1 \in Slots /\ 0 \in Slots
  BY KbcAssumption DEF Slots
<1> QED
  BY <1>1 DEF RingType, ClearThenPlace, IntEnabled, Bit

LEMMA ResetType ==
  ASSUME RingType, NEW out, ResetWith(out)
  PROVE  /\ RingType' /\ rd' = wr' /\ obf' = FALSE /\ sysFlag' = FALSE
         /\ cmd' \in Byte /\ irq' = FALSE /\ lastByte' = lastByte
<1>1. 0 \in Slots /\ 0 \in Byte
  BY KbcAssumption DEF Slots, Byte
<1> QED
  BY <1>1 DEF RingType, ResetWith

(************************* Types and announcements *************************)
LEMMA InitIInv == Init => IInv
<1> SUFFICES ASSUME Init PROVE IInv
  OBVIOUS
<1>1. 0 \in Slots /\ 0 \in Byte /\ 1 \in Byte
  BY KbcAssumption DEF Slots, Byte
<1> QED
  BY <1>1 DEF Init, IInv, TypeOK, DataAnnounced

LEMMA KeyHitStep == ASSUME IInv, NEW k \in Keys, KeyHit(k) PROVE IInv'
<1>1. k \in Byte /\ 0 \in Byte
  BY KbcAssumption DEF Byte
<1>2. RingType'
  BY <1>1, IndexStays DEF IInv, TypeOK, RingType, KeyHit, ring
<1>3. obf' = TRUE /\ irq' \in BOOLEAN /\ data' = 0
  BY DEF KeyHit, IntEnabled, Bit
<1> QED
  BY <1>1, <1>2, <1>3 DEF IInv, TypeOK, RingType, DataAnnounced, KeyHit, gate

LEMMA ReadPort60Step == ASSUME IInv, ReadPort60 PROVE IInv'
<1>1. RingType' /\ data' \in Byte
  BY IndexStays DEF IInv, TypeOK, RingType, ReadPort60
<1>2. obf' \in BOOLEAN /\ irq' \in BOOLEAN
  BY DEF IInv, TypeOK, ReadPort60, IntEnabled, Bit
<1>3. DataAnnounced'
  BY DEF IInv, DataAnnounced, ReadPort60
<1> QED
  BY <1>1, <1>2, <1>3 DEF IInv, TypeOK, RingType, ReadPort60, gate

LEMMA ReadPort64Step == ASSUME IInv, ReadPort64 PROVE IInv'
<1>1. 0 \in Byte
  BY DEF Byte
<1> QED
  BY <1>1 DEF IInv, TypeOK, DataAnnounced, ReadPort64, ring, gate

LEMMA ResetButtonStep == ASSUME IInv, ResetButton PROVE IInv'
<1>1. RingType' /\ rd' = wr' /\ obf' \in BOOLEAN /\ sysFlag' \in BOOLEAN /\ cmd' \in Byte
      /\ irq' \in BOOLEAN /\ lastByte' = lastByte
  BY ResetType DEF IInv, TypeOK, RingType, ResetButton
<1>2. 0 \in Byte
  BY DEF Byte
<1> QED
  BY <1>1, <1>2 DEF IInv, TypeOK, RingType, DataAnnounced, ResetButton, A20Open, Bit

LEMMA WritePort92Step == ASSUME IInv, NEW b \in GateBytes, WritePort92(b) PROVE IInv'
<1>1. 0 \in Byte /\ b \in Byte
  BY KbcAssumption DEF Byte
<1>2. CASE Bit(b, 0)
  <2>1. ResetWith(outPort)
    BY <1>2 DEF WritePort92
  <2>2. RingType' /\ rd' = wr' /\ obf' \in BOOLEAN /\ sysFlag' \in BOOLEAN /\ cmd' \in Byte
        /\ irq' \in BOOLEAN /\ lastByte' = lastByte
    BY <2>1, ResetType DEF IInv, TypeOK, RingType
  <2> QED
    BY <1>1, <2>2 DEF IInv, TypeOK, RingType, DataAnnounced, WritePort92, A20Open, Bit
<1>3. CASE ~Bit(b, 0)
  BY <1>1, <1>3 DEF IInv, TypeOK, DataAnnounced, WritePort92, A20Open, Bit, ring
<1> QED
  BY <1>2, <1>3

LEMMA WritePort64Step == ASSUME IInv, NEW c \in Commands, WritePort64(c) PROVE IInv'
<1>1. 0 \in Byte /\ c \in Byte /\ cmd \in Byte /\ lastCmd' = c /\ data' = 0
  BY KbcAssumption DEF IInv, TypeOK, WritePort64, Byte
<1>2. ASSUME AnswerCommand(c) PROVE IInv'
  <2>1. RingType' /\ obf' = TRUE /\ irq' \in BOOLEAN
    BY <1>2, AnswerIsByte, PlaceType DEF IInv, TypeOK, RingType, AnswerCommand
  <2> QED
    BY <1>1, <1>2, <2>1 DEF IInv, TypeOK, RingType, DataAnnounced, AnswerCommand, gate
<1>3. ASSUME AuxCommand(c) PROVE IInv'
  <2>1. cmd' \in Byte /\ (KbdDisabled(cmd') <=> KbdDisabled(cmd))
    BY <1>1, <1>3, BitsOfByte DEF AuxCommand
  <2> QED
    BY <1>1, <1>3, <2>1 DEF IInv, TypeOK, DataAnnounced, AuxCommand, ring, gate
<1>4. ASSUME KbdInterface(c) PROVE IInv'
  <2>1. cmd' \in Byte /\ (c = 173 => KbdDisabled(cmd'))
    BY <1>1, <1>4, BitsOfByte DEF KbdInterface
  <2>2. c = 173 \/ obf' = (rd # wr)
    BY <1>4 DEF KbdInterface
  <2>3. obf' \in BOOLEAN
    BY <1>4 DEF KbdInterface
  <2> QED
    BY <1>1, <1>4, <2>1, <2>2, <2>3 DEF IInv, TypeOK, DataAnnounced, KbdInterface, ring, gate
<1>5. ASSUME PulseReset(c) PROVE IInv'
  <2>1. RingType' /\ rd' = wr' /\ obf' \in BOOLEAN /\ sysFlag' \in BOOLEAN /\ cmd' \in Byte
        /\ irq' \in BOOLEAN /\ lastByte' = lastByte
    BY <1>5, ResetType DEF IInv, TypeOK, RingType, PulseReset
  <2> QED
    BY <1>1, <1>5, <2>1 DEF IInv, TypeOK, RingType, DataAnnounced, PulseReset, A20Open, Bit
<1>6. ASSUME RememberCommand(c) PROVE IInv'
  BY <1>1, <1>6 DEF IInv, TypeOK, DataAnnounced, RememberCommand, ring, gate
<1> QED
  BY <1>2, <1>3, <1>4, <1>5, <1>6 DEF WritePort64

LEMMA WritePort60Step == ASSUME IInv, NEW b \in DataBytes, WritePort60(b) PROVE IInv'
<1>1. /\ b \in Byte /\ cmd \in Byte /\ lastCmd' = 0 /\ data' = 0 /\ RingType
      /\ {0, 2, 85, 131, 170, 171, 238, 254, Ack} \subseteq Byte
  BY KbcAssumption DEF IInv, TypeOK, RingType, WritePort60, Byte, Ack
<1>2. ASSUME WriteCommandByte(b) PROVE IInv'
  <2>1. RingType' /\ obf' = TRUE /\ irq' \in BOOLEAN
    BY <1>1, <1>2, PlaceType DEF WriteCommandByte
  <2> QED
    BY <1>1, <1>2, <2>1 DEF IInv, TypeOK, RingType, DataAnnounced, WriteCommandByte, gate
<1>3. ASSUME WriteOutputPort(b) PROVE IInv'
  <2>1. outPort' \in Byte /\ port92' \in Byte /\ a20' \in BOOLEAN
    BY <1>1, <1>3 DEF IInv, TypeOK, WriteOutputPort, A20Open, Bit
  <2>2. CASE Bit(b, 0)
    <3>1. irq' = FALSE /\ UNCHANGED <<rd, wr, ibuf, obf, sysFlag, cmd, lastByte>>
      BY <1>3, <2>2 DEF WriteOutputPort, ring
    <3> QED
      BY <1>1, <2>1, <3>1 DEF IInv, TypeOK, DataAnnounced
  <2>3. CASE ~Bit(b, 0)
    <3>1. ResetWith(b)
      BY <1>3, <2>3 DEF WriteOutputPort
    <3>2. RingType' /\ rd' = wr' /\ obf' \in BOOLEAN /\ sysFlag' \in BOOLEAN /\ cmd' \in Byte
          /\ irq' \in BOOLEAN /\ lastByte' = lastByte
      BY <1>1, <3>1, ResetType
    <3> QED
      BY <1>1, <2>1, <3>2 DEF IInv, TypeOK, RingType, DataAnnounced
  <2> QED
    BY <2>2, <2>3
<1>4. ASSUME LoopBack(b) PROVE IInv'
  <2>1. RingType' /\ obf' = TRUE /\ irq' \in BOOLEAN
    <3>1. PICK r \in Byte : Place(r)
      BY <1>1, <1>4 DEF LoopBack
    <3> QED
      BY <1>1, <3>1, PlaceType
  <2> QED
    BY <1>1, <1>4, <2>1 DEF IInv, TypeOK, RingType, DataAnnounced, LoopBack, gate
<1>5. ASSUME SecurityByte(b) PROVE IInv'
  BY <1>1, <1>5 DEF IInv, TypeOK, DataAnnounced, SecurityByte, ring, gate
<1>6. ASSUME KbdCommand(b) PROVE IInv'
  <2>1. RingType' /\ obf' = TRUE /\ irq' \in BOOLEAN
    <3>1. \/ \E r \in Byte : Place(r)
          \/ PlaceTwice(171, 131)
          \/ ClearThenPlace(Ack)
      BY <1>1, <1>6 DEF KbdCommand
    <3> QED
      BY <1>1, <3>1, PlaceType, PlaceTwiceType, ClearThenPlaceType
  <2>2. sysFlag' \in BOOLEAN /\ lastByte' = b
    BY <1>6 DEF IInv, TypeOK, KbdCommand
  <2> QED
    BY <1>1, <1>6, <2>1, <2>2 DEF IInv, TypeOK, RingType, DataAnnounced, KbdCommand, gate
<1>7. ASSUME KbdOption(b) PROVE IInv'
  <2>1. RingType' /\ obf' = TRUE /\ irq' \in BOOLEAN
    <3>1. PICK r \in Byte : Place(r)
      BY <1>1, <1>7 DEF KbdOption
    <3> QED
      BY <1>1, <3>1, PlaceType
  <2> QED
    BY <1>1, <1>7, <2>1 DEF IInv, TypeOK, RingType, DataAnnounced, KbdOption, gate
<1> QED
  BY <1>2, <1>3, <1>4, <1>5, <1>6, <1>7 DEF WritePort60

LEMMA NextIInv == IInv /\ [Next]_vars => IInv'
<1> SUFFICES ASSUME IInv, [Next]_vars PROVE IInv'
  OBVIOUS
<1>1. CASE UNCHANGED vars
  BY <1>1 DEF IInv, TypeOK, DataAnnounced, vars, ring, gate
<1> QED
  BY <1>1, KeyHitStep, ReadPort60Step, ReadPort64Step, WritePort64Step, WritePort60Step,
     WritePort92Step, ResetButtonStep DEF Next

LEMMA Invariance == Spec => []IInv
BY InitIInv, NextIInv, PTL DEF Spec

(* The registers of the controller, its ring and its gates keep their      *)
(* types, whatever is pressed, read and written.                           *)
THEOREM TypeCorrect == Spec => []TypeOK
<1>1. IInv => TypeOK
  BY DEF IInv
<1> QED
  BY <1>1, Invariance, PTL

(* A polling guest is never kept from a buffered byte, except while it has *)
(* the keyboard interface disabled (place_to_ibuf, key_hit, read_port_60h, *)
(* do_8042_command).                                                       *)
THEOREM DataIsAnnounced == Spec => []DataAnnounced
<1>1. IInv => DataAnnounced
  BY DEF IInv
<1> QED
  BY <1>1, Invariance, PTL

(* The two gates of A20 never move without it (a20_sync).                  *)
THEOREM GatesMoveA20 == Spec => A20FollowsGates
<1>1. [Next]_vars => [gate' # gate => a20' = A20Open(port92', outPort')]_vars
  <2> SUFFICES ASSUME Next, gate' # gate PROVE a20' = A20Open(port92', outPort')
    OBVIOUS
  <2>1. ASSUME NEW c \in Commands, WritePort64(c) PROVE a20' = A20Open(port92', outPort')
    BY <2>1 DEF WritePort64, AnswerCommand, AuxCommand, KbdInterface, PulseReset,
         RememberCommand, gate
  <2>2. ASSUME NEW b \in DataBytes, WritePort60(b) PROVE a20' = A20Open(port92', outPort')
    BY <2>2 DEF WritePort60, WriteCommandByte, WriteOutputPort, LoopBack, SecurityByte,
         KbdCommand, KbdOption, gate
  <2> QED
    BY <2>1, <2>2 DEF Next, KeyHit, ReadPort60, ReadPort64, WritePort92, ResetButton, gate
<1> QED
  BY <1>1, PTL DEF Spec, A20FollowsGates

(*********************** The ring as a sequence of bytes *******************)
Held(r, w, buf) == [i \in 1 .. ((w - r) % RingSize) |-> buf[(r + i - 1) % RingSize]]

(* The distance between two indices, without the modulus.                  *)
LEMMA Distance ==
  ASSUME NEW r \in Slots, NEW w \in Slots
  PROVE  /\ (w - r) % RingSize = IF w >= r THEN w - r ELSE w - r + RingSize
         /\ (w - r) % RingSize \in 0 .. RingSize - 1
         /\ (w - r) % RingSize = 0 <=> r = w
         /\ (w - r) % RingSize = RingSize - 1 <=> w = Down(r)
BY KbcAssumption DEF Slots, Down

(* The slot a given number of places after an index.                       *)
LEMMA SlotAfter ==
  ASSUME NEW r \in Slots, NEW i \in 1 .. RingSize - 1
  PROVE  /\ (r + i - 1) % RingSize = IF r + i - 1 < RingSize THEN r + i - 1 ELSE r + i - 1 - RingSize
         /\ (r + i - 1) % RingSize \in Slots
BY KbcAssumption DEF Slots

LEMMA HeldType ==
  ASSUME NEW r \in Slots, NEW w \in Slots, NEW buf \in [Slots -> Byte]
  PROVE  /\ Held(r, w, buf) \in Seq(Byte)
         /\ Len(Held(r, w, buf)) = (w - r) % RingSize
         /\ \A i \in 1 .. Len(Held(r, w, buf)) : Held(r, w, buf)[i] = buf[(r + i - 1) % RingSize]
         /\ Held(r, w, buf) = <<>> <=> r = w
<1> DEFINE n == (w - r) % RingSize
<1>1. n \in 0 .. RingSize - 1 /\ (n = 0 <=> r = w)
  BY Distance
<1>2. n \in Nat /\ n <= RingSize - 1
  BY <1>1, KbcAssumption
<1>3. \A i \in 1 .. n : buf[(r + i - 1) % RingSize] \in Byte
  BY <1>2, SlotAfter, KbcAssumption
<1> HIDE DEF n
<1>4. Held(r, w, buf) = [i \in 1 .. n |-> buf[(r + i - 1) % RingSize]]
  BY DEF Held, n
<1>5. Held(r, w, buf) \in Seq(Byte) /\ Len(Held(r, w, buf)) = n
  BY <1>2, <1>3, <1>4
<1>6. Held(r, w, buf) = <<>> <=> n = 0
  BY <1>2, <1>5
<1> QED
  BY <1>1, <1>4, <1>5, <1>6 DEF n

(* A byte in front of the others; or, when the ring is full, an empty one. *)
LEMMA HeldPush ==
  ASSUME NEW r \in Slots, NEW w \in Slots, NEW buf \in [Slots -> Byte], NEW b \in Byte
  PROVE  Held(Down(r), w, [buf EXCEPT ![Down(r)] = b]) =
           Buffer!PushFront(Held(r, w, buf), b)
<1> DEFINE d   == Down(r)
           new == [buf EXCEPT ![d] = b]
           s   == Held(r, w, buf)
           t   == Held(d, w, new)
<1>1. d \in Slots /\ new \in [Slots -> Byte]
  BY IndexStays
<1>2. /\ s \in Seq(Byte) /\ Len(s) = (w - r) % RingSize
      /\ \A i \in 1 .. Len(s) : s[i] = buf[(r + i - 1) % RingSize]
  BY HeldType
<1> HIDE DEF new, d
<1> HIDE DEF s, t
<1>3. /\ t \in Seq(Byte) /\ Len(t) = (w - d) % RingSize /\ (t = <<>> <=> d = w)
      /\ \A i \in 1 .. Len(t) : t[i] = new[(d + i - 1) % RingSize]
  <2>1. Held(d, w, new) \in Seq(Byte)
    BY <1>1, HeldType
  <2>2. Len(Held(d, w, new)) = (w - d) % RingSize
    BY <1>1, HeldType
  <2>3. \A i \in 1 .. Len(Held(d, w, new)) : Held(d, w, new)[i] = new[(d + i - 1) % RingSize]
    BY <1>1, HeldType
  <2>4. Held(d, w, new) = <<>> <=> d = w
    BY <1>1, HeldType
  <2> QED
    BY <2>1, <2>2, <2>3, <2>4 DEF t
<1>4. new[d] = b /\ \A i \in Slots : i # d => new[i] = buf[i]
  BY <1>1 DEF new
<1>5. RingSize \in Nat /\ RingSize >= 2
  BY KbcAssumption
<1>6. CASE w = d
  <2>1. Len(s) = RingSize - 1
    BY <1>2, <1>6, Distance DEF d
  <2> QED
    BY <1>3, <1>6, <2>1 DEF Buffer!PushFront, d, new, s, t
<1>7. CASE w # d
  <2>1. Len(s) # RingSize - 1
    BY <1>2, <1>7, Distance DEF d
  <2>2. Len(t) = Len(s) + 1 /\ Len(t) <= RingSize - 1
    <3>1. Len(s) = IF w >= r THEN w - r ELSE w - r + RingSize
      BY <1>2, Distance
    <3>2. Len(t) = IF w >= d THEN w - d ELSE w - d + RingSize
      BY <1>1, <1>3, Distance
    <3> QED
      BY <1>1, <1>5, <1>7, <2>1, <3>1, <3>2 DEF Slots, Down, d
  <2>3. /\ <<b>> \o s \in Seq(Byte) /\ Len(<<b>> \o s) = Len(s) + 1
        /\ \A i \in 1 .. Len(s) + 1 : (<<b>> \o s)[i] = IF i = 1 THEN b ELSE s[i - 1]
    BY <1>2
  <2>4. ASSUME NEW i \in 1 .. Len(t) PROVE t[i] = (<<b>> \o s)[i]
    <3>1. t[i] = new[(d + i - 1) % RingSize] /\ i \in 1 .. RingSize - 1
      BY <1>3, <1>5, <2>2
    <3>2. CASE i = 1
      <4>1. (d + i - 1) % RingSize = d
        BY <1>1, <1>5, <3>2 DEF Slots
      <4> QED
        BY <1>4, <2>2, <2>3, <3>1, <3>2, <4>1
    <3>3. CASE i # 1
      <4>1. i - 1 \in 1 .. RingSize - 1 /\ i - 1 \in 1 .. Len(s) /\ i \in 1 .. Len(s) + 1
        <5>1. Len(s) \in Nat
          BY <1>2
        <5> QED
          BY <1>5, <2>2, <3>1, <3>3, <5>1
      <4>2. /\ (d + i - 1) % RingSize \in Slots
            /\ (d + i - 1) % RingSize = IF d + i - 1 < RingSize THEN d + i - 1 ELSE d + i - 1 - RingSize
        BY <1>1, <3>1, SlotAfter
      <4>3. (r + (i - 1) - 1) % RingSize = IF r + i - 2 < RingSize THEN r + i - 2 ELSE r + i - 2 - RingSize
        BY <4>1, SlotAfter DEF Slots
      <4>4. (d + i - 1) % RingSize = (r + (i - 1) - 1) % RingSize /\ (d + i - 1) % RingSize # d
        BY <1>1, <1>5, <3>1, <3>3, <4>2, <4>3 DEF Slots, Down, d
      <4> QED
        BY <1>2, <1>4, <2>3, <3>1, <3>3, <4>1, <4>2, <4>4
    <3> QED
      BY <3>2, <3>3
  <2>5. t = <<b>> \o s
    BY <1>3, <2>2, <2>3, <2>4, SeqEqual
  <2> QED
    BY <2>1, <2>5 DEF Buffer!PushFront, d, new, s, t
<1> QED
  BY <1>6, <1>7

(* A byte behind the others, when the ring is not full.                    *)
LEMMA HeldAppend ==
  ASSUME NEW r \in Slots, NEW w \in Slots, NEW buf \in [Slots -> Byte], NEW k \in Byte,
         w # Down(r)
  PROVE  /\ Held(r, Up(w), [buf EXCEPT ![w] = k]) = Append(Held(r, w, buf), k)
         /\ Len(Held(r, w, buf)) < RingSize - 1
<1> DEFINE u   == Up(w)
           new == [buf EXCEPT ![w] = k]
           s   == Held(r, w, buf)
           t   == Held(r, u, new)
<1>1. u \in Slots /\ new \in [Slots -> Byte]
  BY IndexStays
<1>2. /\ s \in Seq(Byte) /\ Len(s) = (w - r) % RingSize
      /\ \A i \in 1 .. Len(s) : s[i] = buf[(r + i - 1) % RingSize]
  BY HeldType
<1>3. new[w] = k /\ \A i \in Slots : i # w => new[i] = buf[i]
  OBVIOUS
<1> HIDE DEF new, u, s
<1>4. /\ t \in Seq(Byte) /\ Len(t) = (u - r) % RingSize
      /\ \A i \in 1 .. Len(t) : t[i] = new[(r + i - 1) % RingSize]
  <2>1. Held(r, u, new) \in Seq(Byte)
    BY <1>1, HeldType
  <2>2. Len(Held(r, u, new)) = (u - r) % RingSize
    BY <1>1, HeldType
  <2>3. \A i \in 1 .. Len(Held(r, u, new)) : Held(r, u, new)[i] = new[(r + i - 1) % RingSize]
    BY <1>1, HeldType
  <2> QED
    BY <2>1, <2>2, <2>3 DEF t
<1>5. RingSize \in Nat /\ RingSize >= 2
  BY KbcAssumption
<1> HIDE DEF t
<1>6. /\ Len(s) = IF w >= r THEN w - r ELSE w - r + RingSize
      /\ Len(s) \in Nat /\ Len(s) # RingSize - 1
  BY <1>2, Distance
<1>7. Len(t) = IF u >= r THEN u - r ELSE u - r + RingSize
  BY <1>1, <1>4, Distance
<1>8. Len(t) = Len(s) + 1 /\ Len(t) <= RingSize - 1
  BY <1>1, <1>5, <1>6, <1>7 DEF Slots, Up, u
<1>9. /\ Append(s, k) \in Seq(Byte) /\ Len(Append(s, k)) = Len(s) + 1
      /\ \A i \in 1 .. Len(s) + 1 : Append(s, k)[i] = IF i = Len(s) + 1 THEN k ELSE s[i]
  BY <1>2
<1>10. ASSUME NEW i \in 1 .. Len(t) PROVE t[i] = Append(s, k)[i]
  <2>1. i \in 1 .. RingSize - 1 /\ i \in 1 .. Len(s) + 1
    BY <1>5, <1>6, <1>8
  <2>2. /\ (r + i - 1) % RingSize \in Slots
        /\ (r + i - 1) % RingSize = IF r + i - 1 < RingSize THEN r + i - 1 ELSE r + i - 1 - RingSize
    BY <2>1, SlotAfter
  <2>3. (r + i - 1) % RingSize = w <=> i = Len(s) + 1
    BY <1>5, <1>6, <2>1, <2>2 DEF Slots
  <2>4. CASE i = Len(s) + 1
    BY <1>3, <1>4, <1>9, <2>1, <2>3, <2>4
  <2>5. CASE i # Len(s) + 1
    <3>1. i \in 1 .. Len(s)
      BY <1>6, <2>1, <2>5
    <3> QED
      BY <1>2, <1>3, <1>4, <1>9, <2>1, <2>2, <2>3, <2>5, <3>1
  <2> QED
    BY <2>4, <2>5
<1>11. t = Append(s, k)
  BY <1>4, <1>8, <1>9, <1>10, SeqEqual
<1>12. Len(s) < RingSize - 1
  BY <1>5, <1>6, <1>8
<1> QED
  BY <1>11, <1>12 DEF new, u, s, t

(* A read takes the first byte.                                            *)
LEMMA HeldTail ==
  ASSUME NEW r \in Slots, NEW w \in Slots, NEW buf \in [Slots -> Byte], r # w
  PROVE  /\ Held(r, w, buf) # <<>>
         /\ Head(Held(r, w, buf)) = buf[r]
         /\ Held(Up(r), w, buf) = Tail(Held(r, w, buf))
<1> DEFINE u == Up(r)
           s == Held(r, w, buf)
           t == Held(u, w, buf)
<1>1. u \in Slots
  BY IndexStays
<1>2. /\ s \in Seq(Byte) /\ Len(s) = (w - r) % RingSize /\ s # <<>>
      /\ \A i \in 1 .. Len(s) : s[i] = buf[(r + i - 1) % RingSize]
  BY HeldType
<1> HIDE DEF u
<1>3. /\ t \in Seq(Byte) /\ Len(t) = (w - u) % RingSize
      /\ \A i \in 1 .. Len(t) : t[i] = buf[(u + i - 1) % RingSize]
  BY <1>1, HeldType
<1>4. RingSize \in Nat /\ RingSize >= 2
  BY KbcAssumption
<1> HIDE DEF s, t
<1>5. Len(s) = IF w >= r THEN w - r ELSE w - r + RingSize
  BY <1>2, Distance
<1>6. Len(t) = IF w >= u THEN w - u ELSE w - u + RingSize
  BY <1>1, <1>3, Distance
<1>7. Len(t) = Len(s) - 1 /\ Len(s) \in 1 .. RingSize - 1
  BY <1>1, <1>4, <1>5, <1>6 DEF Slots, Up, u
<1>8. Head(s) = buf[r]
  <2>1. Head(s) = s[1] /\ 1 \in 1 .. Len(s) /\ 1 \in 1 .. RingSize - 1
    BY <1>2, <1>4, <1>7
  <2>2. (r + 1 - 1) % RingSize = r
    BY <1>4 DEF Slots
  <2> QED
    BY <1>2, <2>1, <2>2
<1>9. /\ Tail(s) \in Seq(Byte) /\ Len(Tail(s)) = Len(s) - 1
      /\ \A i \in 1 .. Len(Tail(s)) : Tail(s)[i] = s[i + 1]
  BY <1>2, HeadTailProperties
<1>10. ASSUME NEW i \in 1 .. Len(t) PROVE t[i] = Tail(s)[i]
  <2>1. i \in 1 .. RingSize - 1 /\ i + 1 \in 1 .. RingSize - 1 /\ i + 1 \in 1 .. Len(s)
    BY <1>4, <1>7
  <2>2. (u + i - 1) % RingSize = IF u + i - 1 < RingSize THEN u + i - 1 ELSE u + i - 1 - RingSize
    BY <1>1, <2>1, SlotAfter
  <2>3. (r + (i + 1) - 1) % RingSize =
          IF r + (i + 1) - 1 < RingSize THEN r + (i + 1) - 1 ELSE r + (i + 1) - 1 - RingSize
    BY <2>1, SlotAfter
  <2>4. (u + i - 1) % RingSize = (r + (i + 1) - 1) % RingSize
    BY <1>4, <2>1, <2>2, <2>3 DEF Slots, Up, u
  <2>5. s[i + 1] = buf[(r + (i + 1) - 1) % RingSize]
    BY <1>2, <2>1
  <2> QED
    BY <1>3, <1>7, <1>9, <2>4, <2>5
<1>11. t = Tail(s)
  BY <1>3, <1>7, <1>9, <1>10, SeqEqual
<1> QED
  BY <1>2, <1>8, <1>11 DEF u, s, t

(* The bytes of the ring are the sequence of its indices.                  *)
LEMMA ContentsIsHeld ==
  /\ Contents = Held(rd, wr, ibuf)
  /\ Contents' = Held(rd', wr', ibuf')
BY DEF Contents, Count, Held

LEMMA EmptyByIndices ==
  ASSUME RingType, RingType'
  PROVE  (Contents = <<>> <=> rd = wr) /\ (Contents' = <<>> <=> rd' = wr')
BY ContentsIsHeld, HeldType DEF RingType

LEMMA PlacePushes ==
  ASSUME RingType, NEW b \in Byte, Place(b)
  PROVE  Contents' = Buffer!PushFront(Contents, b)
BY ContentsIsHeld, HeldPush DEF RingType, Place

LEMMA PlaceTwicePushes ==
  ASSUME RingType, NEW b \in Byte, NEW c \in Byte, PlaceTwice(b, c)
  PROVE  Contents' = Buffer!PushFront(Buffer!PushFront(Contents, b), c)
<1> DEFINE d   == Down(rd)
           buf == [ibuf EXCEPT ![d] = b]
<1>1. d \in Slots /\ buf \in [Slots -> Byte]
  BY IndexStays DEF RingType
<1>2. Held(d, wr, buf) = Buffer!PushFront(Contents, b)
  BY ContentsIsHeld, HeldPush DEF RingType
<1>3. rd' = Down(d) /\ wr' = wr /\ ibuf' = [buf EXCEPT ![Down(d)] = c]
  BY DEF PlaceTwice
<1> HIDE DEF d, buf
<1>4. Held(Down(d), wr, [buf EXCEPT ![Down(d)] = c]) = Buffer!PushFront(Held(d, wr, buf), c)
  BY <1>1, HeldPush DEF RingType
<1> QED
  BY <1>2, <1>3, <1>4, ContentsIsHeld

LEMMA ClearThenPlaceLeavesOne ==
  ASSUME RingType, NEW b \in Byte, ClearThenPlace(b)
  PROVE  Contents' = <<b>>
<1>1. /\ RingSize - 1 \in Slots /\ 0 \in Slots /\ RingSize - 1 # 0 /\ RingSize \in Nat
      /\ RingSize >= 2
  BY KbcAssumption DEF Slots
<1>2. /\ rd' = RingSize - 1 /\ wr' = 0 /\ ibuf' \in [Slots -> Byte]
      /\ ibuf'[RingSize - 1] = b
  BY <1>1 DEF RingType, ClearThenPlace
<1>3. (0 - (RingSize - 1)) % RingSize = 1 /\ (RingSize - 1 + 1 - 1) % RingSize = RingSize - 1
  BY <1>1
<1>4. /\ Contents' \in Seq(Byte) /\ Len(Contents') = 1
      /\ \A i \in 1 .. Len(Contents') : Contents'[i] = ibuf'[(RingSize - 1 + i - 1) % RingSize]
  <2>1. Contents' = Held(RingSize - 1, 0, ibuf')
    BY <1>2, ContentsIsHeld
  <2>2. Held(RingSize - 1, 0, ibuf') \in Seq(Byte)
    BY <1>1, <1>2, HeldType
  <2>3. Len(Held(RingSize - 1, 0, ibuf')) = (0 - (RingSize - 1)) % RingSize
    BY <1>1, <1>2, HeldType
  <2>4. \A i \in 1 .. Len(Held(RingSize - 1, 0, ibuf')) :
          Held(RingSize - 1, 0, ibuf')[i] = ibuf'[(RingSize - 1 + i - 1) % RingSize]
    BY <1>1, <1>2, HeldType
  <2> QED
    BY <1>3, <2>1, <2>2, <2>3, <2>4
<1>5. Contents'[1] = b
  BY <1>2, <1>3, <1>4
<1> QED
  BY <1>4, <1>5

(************************** The abstract buffer ****************************)
(* A response: the byte leads, or has cost the guest a full buffer.        *)
LEMMA RespondStep ==
  ASSUME RingType, RingType', NEW b \in Byte, Contents' = Buffer!PushFront(Contents, b), data' = 0
  PROVE  BufferStep
<1>1. Contents \in Seq(Byte)
  BY ContentsIsHeld, HeldType DEF RingType
<1>2. CASE Len(Contents) = RingSize - 1
  BY <1>2 DEF BufferStep, Buffer!Next, Buffer!Overflow, Buffer!Silent, Buffer!PushFront
<1>3. CASE Len(Contents) # RingSize - 1
  <2>1. Contents' = <<b>> \o Contents
    BY <1>3 DEF Buffer!PushFront
  <2>2. 1 \in 1 .. Len(Contents') /\ Contents'[1] = b
    BY <1>1, <2>1
  <2>3. Buffer!Respond(Contents'[1])
    BY <2>2 DEF Buffer!Respond, Buffer!Silent
  <2> QED
    BY <2>2, <2>3 DEF BufferStep, Buffer!Next
<1> QED
  BY <1>2, <1>3

(* An operation that leaves the ring alone and returns nothing.            *)
LEMMA ConfigureStep ==
  ASSUME UNCHANGED ring, cmd' \in Byte, data' = 0
  PROVE  BufferStep
<1>1. Contents' = Contents
  BY ContentsIsHeld DEF ring
<1> QED
  BY <1>1 DEF BufferStep, Buffer!Next, Buffer!Configure, Buffer!Silent

LEMMA ResetStep ==
  ASSUME RingType, NEW out, ResetWith(out), data' = 0
  PROVE  BufferStep
<1>1. Contents' = <<>>
  BY ResetType, EmptyByIndices
<1> QED
  BY <1>1 DEF BufferStep, Buffer!Next, Buffer!Reset, Buffer!Silent, ResetWith

LEMMA KeyHitIsType == ASSUME IInv, NEW k \in Keys, KeyHit(k) PROVE BufferStep
<1>1. RingType /\ k \in Byte /\ data' = 0 /\ cmd' = cmd /\ cmd \in Byte
  BY KbcAssumption DEF IInv, TypeOK, RingType, KeyHit
<1>2. CASE Full
  BY <1>1, <1>2, ConfigureStep DEF KeyHit
<1>3. CASE ~Full
  <2>1. Contents' = Append(Contents, k) /\ Len(Contents) < RingSize - 1
    <3>1. wr # Down(rd) /\ rd' = rd /\ wr' = Up(wr) /\ ibuf' = [ibuf EXCEPT ![wr] = k]
      BY <1>3 DEF Full, KeyHit
    <3> QED
      BY <1>1, <3>1, ContentsIsHeld, HeldAppend DEF RingType
  <2>2. Contents \in Seq(Byte)
    BY <1>1, ContentsIsHeld, HeldType DEF RingType
  <2>3. Len(Contents') \in 1 .. Len(Contents') /\ Contents'[Len(Contents')] = k
    BY <1>1, <2>1, <2>2
  <2>4. Buffer!Type(Contents'[Len(Contents')])
    BY <1>1, <2>1, <2>3 DEF Buffer!Type, Buffer!Silent
  <2> QED
    BY <2>3, <2>4 DEF BufferStep, Buffer!Next
<1> QED
  BY <1>2, <1>3

LEMMA ReadPort60IsTake == ASSUME IInv, ReadPort60 PROVE BufferStep
<1>1. RingType /\ RingType' /\ data' = ibuf[rd] /\ cmd' = cmd /\ wr' = wr /\ ibuf' = ibuf
  BY IndexStays DEF IInv, TypeOK, RingType, ReadPort60
<1>2. CASE rd # wr
  <2>1. rd' = Up(rd)
    BY <1>2 DEF ReadPort60
  <2>2. Contents # <<>> /\ Head(Contents) = ibuf[rd] /\ Contents' = Tail(Contents)
    BY <1>1, <1>2, <2>1, ContentsIsHeld, HeldTail DEF RingType
  <2> QED
    BY <1>1, <2>2 DEF BufferStep, Buffer!Next, Buffer!Take
<1>3. CASE rd = wr
  <2>1. Contents = <<>> /\ Contents' = <<>>
    BY <1>1, <1>3, EmptyByIndices DEF ReadPort60
  <2>2. data' \in Byte
    BY <1>1 DEF RingType
  <2> QED
    BY <1>1, <2>1, <2>2 DEF BufferStep, Buffer!Next, Buffer!ReadEmpty
<1> QED
  BY <1>2, <1>3

LEMMA WritePort64IsBuffer ==
  ASSUME IInv, IInv', NEW c \in Commands, WritePort64(c)
  PROVE  BufferStep
<1>1. RingType /\ RingType' /\ data' = 0 /\ cmd' \in Byte
  BY DEF IInv, TypeOK, RingType, WritePort64
<1>2. ASSUME AnswerCommand(c) PROVE BufferStep
  <2>1. Answer(c) \in Byte /\ Place(Answer(c))
    BY <1>2, AnswerIsByte DEF IInv, AnswerCommand
  <2> QED
    BY <1>1, <2>1, PlacePushes, RespondStep
<1>3. ASSUME AuxCommand(c) \/ KbdInterface(c) \/ RememberCommand(c) PROVE BufferStep
  BY <1>1, <1>3, ConfigureStep DEF AuxCommand, KbdInterface, RememberCommand
<1>4. ASSUME PulseReset(c) PROVE BufferStep
  BY <1>1, <1>4, ResetStep DEF PulseReset
<1> QED
  BY <1>2, <1>3, <1>4 DEF WritePort64

LEMMA WritePort60IsBuffer ==
  ASSUME IInv, IInv', NEW b \in DataBytes, WritePort60(b)
  PROVE  BufferStep
<1>1. /\ RingType /\ RingType' /\ data' = 0 /\ cmd' \in Byte /\ cmd \in Byte /\ b \in Byte
      /\ {2, 131, 170, 171, 238, 254, Ack} \subseteq Byte
  BY KbcAssumption DEF IInv, TypeOK, RingType, WritePort60, Byte, Ack
<1>2. ASSUME NEW r \in Byte, Place(r) PROVE BufferStep
  BY <1>1, <1>2, PlacePushes, RespondStep
<1>3. ASSUME WriteCommandByte(b) PROVE BufferStep
  BY <1>1, <1>2, <1>3 DEF WriteCommandByte
<1>4. ASSUME WriteOutputPort(b) PROVE BufferStep
  BY <1>1, <1>4, ResetStep, ConfigureStep DEF WriteOutputPort, ring
<1>5. ASSUME LoopBack(b) PROVE BufferStep
  <2>1. PICK r \in Byte : Place(r)
    BY <1>1, <1>5 DEF LoopBack
  <2> QED
    BY <1>2, <2>1
<1>6. ASSUME SecurityByte(b) PROVE BufferStep
  BY <1>1, <1>6, ConfigureStep DEF SecurityByte
<1>7. ASSUME KbdCommand(b) PROVE BufferStep
  <2>1. /\ UNCHANGED <<cmd, gate>>
        /\ \/ \E r \in Byte : Place(r)
           \/ PlaceTwice(171, 131)
           \/ ClearThenPlace(Ack)
    BY <1>1, <1>7 DEF KbdCommand
  <2>2. CASE PlaceTwice(171, 131)
    <3>1. Contents' = Buffer!PushFront(Buffer!PushFront(Contents, <<171, 131>>[1]), <<171, 131>>[2])
      BY <1>1, <2>2, PlaceTwicePushes
    <3> QED
      BY <1>1, <2>1, <3>1 DEF BufferStep, Buffer!Next, Buffer!Identify, Buffer!Silent
  <2>3. CASE ClearThenPlace(Ack)
    <3>1. Contents' = <<Ack>>
      BY <1>1, <2>3, ClearThenPlaceLeavesOne
    <3> QED
      BY <1>1, <2>1, <3>1 DEF BufferStep, Buffer!Next, Buffer!ClearAndAck, Buffer!Silent
  <2> QED
    BY <1>2, <2>1, <2>2, <2>3
<1>8. ASSUME KbdOption(b) PROVE BufferStep
  <2>1. PICK r \in Byte : Place(r)
    BY <1>1, <1>8 DEF KbdOption
  <2> QED
    BY <1>2, <2>1
<1> QED
  BY <1>3, <1>4, <1>5, <1>6, <1>7, <1>8 DEF WritePort60

(* Every step of the controller is a step of the buffer, or leaves it.     *)
LEMMA StepIsBufferStep == IInv /\ IInv' /\ [Next]_vars => BufferStep
<1> SUFFICES ASSUME IInv, IInv', [Next]_vars PROVE BufferStep
  OBVIOUS
<1>1. RingType /\ RingType' /\ cmd' \in Byte
  BY DEF IInv, TypeOK, RingType
<1>2. ASSUME ReadPort64 PROVE BufferStep
  BY <1>1, <1>2, ConfigureStep DEF ReadPort64
<1>3. ASSUME NEW b \in GateBytes, WritePort92(b) PROVE BufferStep
  <2>1. data' = 0 /\ (ResetWith(outPort) \/ UNCHANGED ring)
    BY <1>3 DEF WritePort92
  <2> QED
    BY <1>1, <2>1, ResetStep, ConfigureStep
<1>4. ASSUME ResetButton PROVE BufferStep
  BY <1>1, <1>4, ResetStep DEF ResetButton
<1>5. CASE UNCHANGED vars
  <2>1. Contents' = Contents /\ data' = data /\ cmd' = cmd
    BY <1>5, ContentsIsHeld DEF vars, ring
  <2> QED
    BY <2>1 DEF BufferStep
<1> QED
  BY <1>2, <1>3, <1>4, <1>5, KeyHitIsType, ReadPort60IsTake, WritePort64IsBuffer,
     WritePort60IsBuffer DEF Next

LEMMA InitIsBufferInit == Init => Buffer!Init
<1> SUFFICES ASSUME Init PROVE Buffer!Init
  OBVIOUS
<1>1. RingType
  BY InitIInv DEF IInv, TypeOK, RingType
<1>2. Contents = <<>>
  BY <1>1, ContentsIsHeld, HeldType DEF Init, RingType
<1> QED
  BY <1>2 DEF Init, Buffer!Init

(* The ring of indices implements the buffer of KbdBuffer: keys queue at   *)
(* the back, responses jump to the front, a read takes the front, and      *)
(* nothing is read twice (place_to_ibuf, key_hit, read_port_60h,           *)
(* clear_buf, reset_8042).                                                 *)
THEOREM RingImplementsBuffer == Spec => RingIsBuffer
<1>1. IInv /\ IInv' /\ [Next]_vars => [BufferStep]_vars
  BY StepIsBufferStep
<1> QED
  BY <1>1, InitIsBufferInit, Invariance, PTL DEF Spec, RingIsBuffer

(* IRQ1 is asserted for every byte that comes to the front, if the guest   *)
(* has the interrupt enabled.                                              *)
LEMMA FrontStep == IInv /\ IInv' /\ Next => FrontAnnounced
<1> SUFFICES ASSUME IInv, IInv', Next, Contents' # <<>>, rd' # rd \/ Contents = <<>>
             PROVE  irq' = IntEnabled(cmd)
  BY DEF FrontAnnounced
<1>1. RingType /\ RingType' /\ rd' # wr' /\ (rd' # rd \/ rd = wr)
  BY EmptyByIndices DEF IInv, TypeOK, RingType
<1>2. \A out : ~ResetWith(out)
  BY <1>1 DEF ResetWith
<1>3. ~UNCHANGED ring
  BY <1>1 DEF ring
<1>4. ASSUME NEW k \in Keys, KeyHit(k) PROVE irq' = IntEnabled(cmd)
  BY <1>4 DEF KeyHit
<1>5. ASSUME ReadPort60 PROVE irq' = IntEnabled(cmd)
  BY <1>1, <1>5 DEF ReadPort60, IntEnabled, Bit
<1>6. ASSUME NEW c \in Commands, WritePort64(c) PROVE irq' = IntEnabled(cmd)
  <2>1. AnswerCommand(c)
    BY <1>2, <1>3, <1>6 DEF WritePort64, AuxCommand, KbdInterface, PulseReset, RememberCommand
  <2> QED
    BY <2>1 DEF AnswerCommand, Place
<1>7. ASSUME NEW b \in DataBytes, WritePort60(b) PROVE irq' = IntEnabled(cmd)
  BY <1>2, <1>3, <1>7 DEF WritePort60, WriteCommandByte, WriteOutputPort, LoopBack,
       SecurityByte, KbdCommand, KbdOption, Place, PlaceTwice, ClearThenPlace, ring
<1> QED
  BY <1>2, <1>3, <1>4, <1>5, <1>6, <1>7 DEF Next, ReadPort64, WritePort92, ResetButton

(* A guest that works by interrupts gets one whenever the byte at the      *)
(* front changes or a first byte arrives (key_hit, place_to_ibuf,          *)
(* read_port_60h).                                                         *)
THEOREM FrontInterruptsGuest == Spec => NewFrontInterrupts
<1>1. IInv /\ IInv' /\ [Next]_vars => [FrontAnnounced]_vars
  BY FrontStep
<1> QED
  BY <1>1, Invariance, PTL DEF Spec, NewFrontInterrupts
=============================================================================
