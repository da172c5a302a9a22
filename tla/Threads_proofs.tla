--------------------------- MODULE Threads_proofs ---------------------------
(***************************************************************************)
(* Proofs about what the clock thread and the window thread share without  *)
(* a lock, for rings of any size and any number of request lines: the ring *)
(* of commands (VtRing), the master 8259 (PicThreads), and what a key      *)
(* passes on its way to the guest (KeyboardPath).                          *)
(***************************************************************************)
EXTENDS Threads, Rings_proofs

-----------------------------------------------------------------------------
(* The ring of commands. *)

(* While do_vt has not looked at the ring between the two stores of head:  *)
(* the ring holds commands only, there is room for the one being stored,   *)
(* it is in its slot once stored, and do_vt takes what is there.           *)
Sound ==
  /\ V!Posted \in Seq(Commands)
  /\ wpc \in {"store", "inc"} => V!Count # CommandSlots - 1
  /\ wpc = "inc" => ring[head] = msg
  /\ cpc \in {"fetch", "inc"} => V!Count # 0
  /\ cpc = "inc" => c = ring[tail]
  /\ cpc = "run" => c \in Commands

VtInv ==
  /\ V!TypeOK
  /\ head = CommandSlots => wpc = "wrap"
  /\ wpc \in {"full", "store", "inc"} => msg \in Commands
  /\ ~replay => Sound

(* The ring past its end is the ring at its beginning.                     *)
LEMMA Normal ==
  ASSUME V!VtAssumption, NEW t \in V!Slots, NEW h \in 0 .. CommandSlots, NEW b
  PROVE  /\ V!Wrap(h) \in 0 .. CommandSlots - 1 /\ t \in 0 .. CommandSlots - 1
         /\ (h - t) % CommandSlots = (V!Wrap(h) - t) % CommandSlots
         /\ [i \in 1 .. ((h - t) % CommandSlots) |-> b[(t + i - 1) % CommandSlots]]
              = Holds(CommandSlots, t, V!Wrap(h), b)
<1>1. /\ CommandSlots \in Nat /\ CommandSlots >= 2
      /\ V!Wrap(h) \in 0 .. CommandSlots - 1 /\ t \in 0 .. CommandSlots - 1
  BY DEF V!VtAssumption, V!Slots, V!Wrap
<1>2. (h - t) % CommandSlots = (V!Wrap(h) - t) % CommandSlots
  BY <1>1 DEF V!Wrap
<1> QED
  BY <1>1, <1>2 DEF Holds

LEMMA PostedIs ==
  V!VtAssumption /\ V!TypeOK =>
    /\ V!Count = (V!Wrap(head) - tail) % CommandSlots
    /\ V!Posted = Holds(CommandSlots, tail, V!Wrap(head), ring)
BY Normal DEF V!TypeOK, V!Count, V!Posted

LEMMA InitVtInv == ASSUME V!VtAssumption, V!Init PROVE VtInv /\ V!Queue!Init
<1>1. CommandSlots \in Nat /\ CommandSlots >= 2 /\ 0 \in V!Slots
  BY DEF V!VtAssumption, V!Slots
<1>2. V!TypeOK
  <2>1. ring \in [V!Slots -> Commands \cup {0}]
    BY DEF V!Init
  <2>2. head \in 0 .. CommandSlots /\ tail \in V!Slots
    BY <1>1 DEF V!Init
  <2> QED
    BY <2>1, <2>2 DEF V!Init, V!TypeOK
<1>3. V!Count = 0
  BY <1>1 DEF V!Init, V!Count
<1>4. V!Posted = <<>>
  BY <1>3 DEF V!Posted
<1> QED
  BY <1>1, <1>2, <1>3, <1>4
     DEF V!Init, VtInv, Sound, V!Queue!Init, V!Queue!NoCommand, V!Current

-----------------------------------------------------------------------------
(* A step that moves neither the indices nor a slot leaves the queue.      *)
LEMMA SameRing ==
  ASSUME UNCHANGED <<ring, head, tail>>
  PROVE  UNCHANGED <<V!Posted, V!Count>>
BY DEF V!Posted, V!Count

LEMMA PostMsgStep ==
  ASSUME V!VtAssumption, VtInv, NEW m \in Commands, V!PostMsg(m)
  PROVE  VtInv' /\ UNCHANGED <<V!Posted, V!Current>>
<1>1. UNCHANGED <<V!Posted, V!Count, V!Current>>
  BY SameRing DEF V!PostMsg, V!Current
<1> QED
  BY <1>1 DEF V!PostMsg, VtInv, Sound, V!TypeOK

LEMMA TestFullStep ==
  ASSUME V!VtAssumption, VtInv, V!TestFull
  PROVE  VtInv' /\ UNCHANGED <<V!Posted, V!Current>>
<1>1. UNCHANGED <<V!Posted, V!Count, V!Current>>
  BY SameRing DEF V!TestFull, V!Current
<1>2. wpc' = "store" => V!Count # CommandSlots - 1
  <2>1. /\ CommandSlots \in Nat /\ CommandSlots >= 2
        /\ head \in 0 .. CommandSlots - 1 /\ tail \in 0 .. CommandSlots - 1
    BY DEF V!VtAssumption, VtInv, V!TypeOK, V!Slots, V!TestFull
  <2>2. V!Count = IF head >= tail THEN head - tail ELSE head - tail + CommandSlots
    BY <2>1, Distance DEF V!Count
  <2> QED
    BY <2>1, <2>2 DEF V!TestFull
<1>3. wpc' \in {"idle", "store"}
  BY DEF V!TestFull
<1> QED
  BY <1>1, <1>2, <1>3 DEF V!TestFull, VtInv, Sound, V!TypeOK

LEMMA StoreMsgStep ==
  ASSUME V!VtAssumption, VtInv, V!StoreMsg
  PROVE  VtInv' /\ UNCHANGED <<V!Posted, V!Current>>
<1>1. /\ CommandSlots \in Nat /\ CommandSlots >= 2 /\ msg \in Commands \cup {0}
      /\ head \in 0 .. CommandSlots - 1 /\ tail \in 0 .. CommandSlots - 1
      /\ ring \in [0 .. CommandSlots - 1 -> Commands \cup {0}]
      /\ ring' = [ring EXCEPT ![head] = msg]
  BY DEF V!VtAssumption, VtInv, V!TypeOK, V!Slots, V!StoreMsg
<1>2. V!Count' = V!Count /\ V!Current' = V!Current
  BY DEF V!StoreMsg, V!Count, V!Current
<1>3. V!Posted' = V!Posted
  <2>1. ASSUME NEW i \in 1 .. V!Count
        PROVE  ring'[(tail + i - 1) % CommandSlots] = ring[(tail + i - 1) % CommandSlots]
    <3>1. (tail + i - 1) % CommandSlots \in 0 .. CommandSlots - 1 /\ (tail + i - 1) % CommandSlots # head
      BY <1>1, HeldSlot DEF V!Count
    <3> QED
      BY <1>1, <3>1
  <2> QED
    BY <1>2, <2>1 DEF V!Posted, V!StoreMsg
<1>4. V!TypeOK'
  BY <1>1 DEF VtInv, V!TypeOK, V!StoreMsg, V!Slots
<1>5. ring'[head] = msg
  BY <1>1
<1>6. cpc = "inc" /\ ~replay => ring'[tail] = ring[tail]
  <2>1. ASSUME cpc = "inc", ~replay PROVE head # tail
    BY <1>1, <2>1, Distance DEF VtInv, Sound, V!Count
  <2> QED
    BY <1>1, <2>1
<1> QED
  BY <1>2, <1>3, <1>4, <1>5, <1>6 DEF V!StoreMsg, VtInv, Sound

(* Publishing posts the message, before or after the index is wrapped.     *)
LEMMA PublishStep ==
  ASSUME V!VtAssumption, VtInv, V!Publish
  PROVE  VtInv' /\ (replay' \/ V!Queue!Next)
<1>1. /\ CommandSlots \in Nat /\ CommandSlots >= 2
      /\ head \in 0 .. CommandSlots - 1 /\ tail \in 0 .. CommandSlots - 1
      /\ ring \in [0 .. CommandSlots - 1 -> Commands \cup {0}]
  BY DEF V!VtAssumption, VtInv, V!TypeOK, V!Slots, V!Publish
<1>2. head' \in 0 .. CommandSlots /\ V!Wrap(head') = Beyond(CommandSlots, head)
      /\ (head' = CommandSlots => wpc' = "wrap") /\ wpc' \in {"wrap", "idle"}
  <2>1. CASE head' = head + 1 /\ wpc' = "wrap"
    BY <1>1, <2>1 DEF V!Wrap, Beyond
  <2>2. CASE head' = V!Wrap(head + 1) /\ wpc' = "idle"
    <3>1. head' = Beyond(CommandSlots, head) /\ head' \in 0 .. CommandSlots - 1
      BY <1>1, <2>2 DEF V!Wrap, Beyond
    <3> QED
      BY <1>1, <2>2, <3>1 DEF V!Wrap
  <2> QED
    BY <2>1, <2>2 DEF V!Publish
<1>3. V!TypeOK'
  BY <1>2 DEF VtInv, V!TypeOK, V!Publish
<1>4. CASE replay
  BY <1>2, <1>3, <1>4 DEF VtInv, V!Publish
<1>5. CASE ~replay
  <2>1. Sound /\ msg \in Commands /\ ring[head] = msg /\ V!Count # CommandSlots - 1
    BY <1>5 DEF VtInv, Sound, V!Publish
  <2>2. V!Count = (head - tail) % CommandSlots /\ V!Posted = Holds(CommandSlots, tail, head, ring)
    BY DEF V!Count, V!Posted, Holds
  <2>3. /\ V!Count' = (Beyond(CommandSlots, head) - tail) % CommandSlots
        /\ V!Posted' = Holds(CommandSlots, tail, Beyond(CommandSlots, head), ring)
    <3>1. /\ V!Count' = (V!Wrap(head') - tail') % CommandSlots
          /\ V!Posted' = Holds(CommandSlots, tail', V!Wrap(head'), ring')
      BY <1>3, Normal DEF V!TypeOK, V!Count, V!Posted
    <3> QED
      BY <1>2, <3>1 DEF V!Publish
  <2>4. V!Posted' = Append(V!Posted, msg) /\ Len(V!Posted) < CommandSlots - 1
    BY <1>1, <2>1, <2>2, <2>3, HoldsAppend
  <2>5. V!Posted' \in Seq(Commands)
    BY <2>1, <2>4 DEF Sound
  <2>6. V!Count' # 0
    <3>1. Beyond(CommandSlots, head) \in 0 .. CommandSlots - 1
      BY <1>1 DEF Beyond
    <3>2. Beyond(CommandSlots, head) # tail
      <4>1. V!Count = IF head >= tail THEN head - tail ELSE head - tail + CommandSlots
        BY <1>1, <2>2, Distance
      <4> QED
        BY <1>1, <2>1, <4>1 DEF Beyond
    <3> QED
      BY <1>1, <2>3, <3>1, <3>2, Distance
  <2>7. Sound'
    BY <1>2, <2>1, <2>5, <2>6 DEF Sound, V!Publish
  <2>8. V!Queue!Post(msg)
    BY <2>4 DEF V!Queue!Post, V!Current, V!Publish
  <2> QED
    BY <1>2, <1>3, <2>1, <2>7, <2>8 DEF VtInv, V!Publish, V!Queue!Next
<1> QED
  BY <1>4, <1>5

LEMMA WrapHeadStep ==
  ASSUME V!VtAssumption, VtInv, V!WrapHead
  PROVE  VtInv' /\ UNCHANGED <<V!Posted, V!Current>>
<1>1. V!Wrap(head) \in 0 .. CommandSlots - 1 /\ head \in 0 .. CommandSlots /\ tail \in V!Slots
  BY DEF V!VtAssumption, VtInv, V!TypeOK, V!Wrap
<1>2. V!TypeOK' /\ head' # CommandSlots /\ V!Wrap(head') = V!Wrap(head)
  BY <1>1 DEF V!VtAssumption, VtInv, V!TypeOK, V!WrapHead, V!Wrap
<1>3. V!Count' = V!Count /\ V!Posted' = V!Posted
  <2>1. /\ V!Count = (V!Wrap(head) - tail) % CommandSlots
        /\ V!Posted = Holds(CommandSlots, tail, V!Wrap(head), ring)
    BY PostedIs DEF VtInv
  <2>2. /\ V!Count' = (V!Wrap(head') - tail') % CommandSlots
        /\ V!Posted' = Holds(CommandSlots, tail', V!Wrap(head'), ring')
    BY <1>2, Normal DEF V!TypeOK, V!Count, V!Posted
  <2> QED
    BY <1>2, <2>1, <2>2 DEF V!WrapHead
<1>4. V!Current' = V!Current
  BY DEF V!WrapHead, V!Current
<1> QED
  BY <1>2, <1>3, <1>4 DEF V!WrapHead, VtInv, Sound

LEMMA TestEmptyStep ==
  ASSUME V!VtAssumption, VtInv, V!TestEmpty
  PROVE  VtInv' /\ UNCHANGED <<V!Posted, V!Current>>
<1>1. UNCHANGED <<V!Posted, V!Count>>
  BY SameRing DEF V!TestEmpty
<1>2. cpc' \in {"empty", "fetch"} /\ replay' \in BOOLEAN /\ (replay => replay')
  BY DEF V!TestEmpty, VtInv, V!TypeOK
<1>3. V!Current' = V!Current
  BY <1>2 DEF V!TestEmpty, V!Current
<1>4. ~replay' /\ cpc' = "fetch" => V!Count # 0
  <2> SUFFICES ASSUME ~replay', cpc' = "fetch" PROVE V!Count # 0
    OBVIOUS
  <2>1. /\ CommandSlots \in Nat /\ CommandSlots >= 2 /\ tail \in 0 .. CommandSlots - 1
        /\ head \in 0 .. CommandSlots
        /\ head # tail /\ ~(head = CommandSlots /\ tail = 0)
    BY DEF V!TestEmpty, VtInv, V!TypeOK, V!VtAssumption, V!Slots
  <2>2. V!Wrap(head) \in 0 .. CommandSlots - 1 /\ V!Wrap(head) # tail
    BY <2>1 DEF V!Wrap
  <2>3. V!Count = (V!Wrap(head) - tail) % CommandSlots
    BY PostedIs DEF VtInv
  <2> QED
    BY <2>1, <2>2, <2>3, Distance
<1>5. V!TypeOK'
  BY <1>2 DEF VtInv, V!TypeOK, V!TestEmpty
<1>6. ~replay' => Sound'
  BY <1>1, <1>2, <1>4 DEF VtInv, Sound, V!TestEmpty
<1> QED
  BY <1>1, <1>3, <1>5, <1>6 DEF VtInv, V!TestEmpty

LEMMA FetchStep ==
  ASSUME V!VtAssumption, VtInv, V!Fetch
  PROVE  VtInv' /\ UNCHANGED <<V!Posted, V!Current>>
<1>1. UNCHANGED <<V!Posted, V!Count>> /\ V!Current' = V!Current
  BY SameRing DEF V!Fetch, V!Current
<1>2. V!TypeOK'
  BY DEF VtInv, V!TypeOK, V!Fetch
<1> QED
  BY <1>1, <1>2 DEF VtInv, Sound, V!Fetch

(* Moving tail takes the first command of the queue.                       *)
LEMMA AdvanceStep ==
  ASSUME V!VtAssumption, VtInv, V!Advance
  PROVE  VtInv' /\ (replay' \/ V!Queue!Next)
<1>1. /\ CommandSlots \in Nat /\ CommandSlots >= 2
      /\ V!Wrap(head) \in 0 .. CommandSlots - 1 /\ tail \in 0 .. CommandSlots - 1
      /\ ring \in [0 .. CommandSlots - 1 -> Commands \cup {0}]
      /\ tail' = Beyond(CommandSlots, tail)
  BY DEF V!VtAssumption, VtInv, V!TypeOK, V!Slots, V!Advance, V!Wrap, Beyond
<1>2. V!TypeOK' /\ V!Wrap(head') = V!Wrap(head)
  BY <1>1 DEF VtInv, V!TypeOK, V!Advance, V!Slots, Beyond, V!Wrap
<1>3. CASE replay
  BY <1>2, <1>3 DEF VtInv, V!Advance
<1>4. CASE ~replay
  <2>1. Sound /\ V!Count # 0 /\ c = ring[tail]
    BY <1>4 DEF VtInv, Sound, V!Advance
  <2>2. /\ V!Count = (V!Wrap(head) - tail) % CommandSlots
        /\ V!Posted = Holds(CommandSlots, tail, V!Wrap(head), ring)
    BY PostedIs DEF VtInv
  <2>3. /\ V!Count' = (V!Wrap(head) - tail') % CommandSlots
        /\ V!Posted' = Holds(CommandSlots, tail', V!Wrap(head), ring)
    <3>1. /\ V!Count' = (V!Wrap(head') - tail') % CommandSlots
          /\ V!Posted' = Holds(CommandSlots, tail', V!Wrap(head'), ring')
      BY <1>2, Normal DEF V!TypeOK, V!Count, V!Posted
    <3> QED
      BY <1>2, <3>1 DEF V!Advance
  <2>4. tail # V!Wrap(head)
    BY <1>1, <2>1, <2>2, Distance
  <2>5. V!Posted # <<>> /\ Head(V!Posted) = c /\ V!Posted' = Tail(V!Posted)
    <3> DEFINE w == V!Wrap(head)
    <3>1. w \in 0 .. CommandSlots - 1 /\ tail # w
      BY <1>1, <2>4
    <3> HIDE DEF w
    <3>2. /\ Holds(CommandSlots, tail, w, ring) # <<>>
          /\ Head(Holds(CommandSlots, tail, w, ring)) = ring[tail]
          /\ Holds(CommandSlots, Beyond(CommandSlots, tail), w, ring)
               = Tail(Holds(CommandSlots, tail, w, ring))
      BY <1>1, <3>1, HoldsTail
    <3> QED
      BY <1>1, <2>1, <2>2, <2>3, <3>2 DEF w
  <2>6. V!Posted' \in Seq(Commands) /\ c \in Commands
    BY <2>1, <2>5 DEF Sound
  <2>7. V!Count' # CommandSlots - 1
    <3>1. tail' \in 0 .. CommandSlots - 1
      BY <1>1 DEF Beyond
    <3>2. V!Count' = IF V!Wrap(head) >= tail' THEN V!Wrap(head) - tail' ELSE V!Wrap(head) - tail' + CommandSlots
      BY <1>1, <2>3, <3>1, Distance
    <3> QED
      BY <1>1, <2>4, <3>1, <3>2 DEF Beyond
  <2>8. Sound'
    BY <2>1, <2>6, <2>7 DEF Sound, V!Advance
  <2>9. V!Queue!Take
    BY <2>5 DEF V!Queue!Take, V!Queue!NoCommand, V!Current, V!Advance
  <2> QED
    BY <1>2, <2>8, <2>9 DEF VtInv, V!Advance, V!Queue!Next
<1> QED
  BY <1>3, <1>4

LEMMA RunStep ==
  ASSUME V!VtAssumption, VtInv, V!Run
  PROVE  VtInv' /\ (replay' \/ V!Queue!Next)
<1>1. UNCHANGED <<V!Posted, V!Count>>
  BY SameRing DEF V!Run
<1>2. V!TypeOK'
  BY DEF VtInv, V!TypeOK, V!Run
<1>3. CASE replay
  BY <1>2, <1>3 DEF VtInv, V!Run
<1>4. CASE ~replay
  <2>1. Sound'
    BY <1>1, <1>4 DEF VtInv, Sound, V!Run
  <2>2. c \in Commands /\ c # 0
    BY <1>4 DEF VtInv, Sound, V!Run, V!VtAssumption
  <2>3. V!Queue!Finish
    BY <1>1, <2>2 DEF V!Queue!Finish, V!Queue!NoCommand, V!Current, V!Run
  <2> QED
    BY <1>2, <2>1, <2>3 DEF VtInv, V!Run, V!Queue!Next
<1> QED
  BY <1>3, <1>4

LEMMA VtStep ==
  ASSUME V!VtAssumption, VtInv, [V!Next]_(V!vars)
  PROVE  VtInv' /\ (replay' \/ V!Queue!Next \/ UNCHANGED <<V!Posted, V!Current>>)
<1>1. CASE UNCHANGED V!vars
  BY <1>1 DEF VtInv, Sound, V!TypeOK, V!Posted, V!Count, V!Current, V!vars
<1> QED
  BY <1>1, PostMsgStep, TestFullStep, StoreMsgStep, PublishStep, WrapHeadStep,
     TestEmptyStep, FetchStep, AdvanceStep, RunStep DEF V!Next, V!Window, V!DoVt

LEMMA VtInvariance == ASSUME V!VtAssumption PROVE V!Spec => []VtInv
<1>1. V!Init => VtInv
  BY InitVtInv
<1>2. VtInv /\ [V!Next]_(V!vars) => VtInv'
  BY VtStep
<1> QED
  BY <1>1, <1>2, PTL DEF V!Spec

(* The ring, its indices and the two threads' own variables keep their     *)
(* types: no index but head, between its two stores, leaves the ring.      *)
THEOREM CommandRingTypes ==
  ASSUME V!VtAssumption PROVE V!Spec => [](V!TypeOK /\ (head = CommandSlots => wpc = "wrap"))
<1>1. VtInv => V!TypeOK /\ (head = CommandSlots => wpc = "wrap")
  BY DEF VtInv
<1> QED
  BY <1>1, VtInvariance, PTL

(* The lock-free ring of post_main_thread_msg and do_vt implements a       *)
(* bounded queue whose commands are carried out once and in order, until   *)
(* do_vt finds head past the end over an empty ring.                       *)
THEOREM CommandRingIsQueue == ASSUME V!VtAssumption PROVE V!Spec => RingIsQueue
<1>1. V!Init => V!Queue!Init
  BY InitVtInv
<1>2. VtInv /\ [V!Next]_(V!vars)
        => [replay' \/ V!Queue!Next \/ UNCHANGED <<V!Posted, V!Current>>]_(V!vars)
  BY VtStep
<1> QED
  BY <1>1, <1>2, VtInvariance, PTL DEF V!Spec, RingIsQueue, V!RingIsQueue

-----------------------------------------------------------------------------
(* The master 8259 with two threads inside it. *)

(* A fresh_int that ran alone so far knows the mask and what to drive.     *)
AloneKnows ==
  \A t \in P!Threads :
    alone[t] /\ pc[t] \in {"sense", "drive"} =>
      /\ pc[P!Other(t)] = "idle" /\ old[t] = ocw1
      /\ pc[t] = "drive" => verdict[t] = (P!Unmasked # {})

(* Unless the threads mixed, one of them is outside the controller, and    *)
(* the other is alone in its fresh_int and lowers INTR for a reason.       *)
OneInside ==
  ~mixed =>
    /\ \E t \in P!Threads : pc[t] = "idle"
    /\ \A t \in P!Threads :
         /\ pc[t] \in {"sense", "drive"} => alone[t]
         /\ pc[t] = "lower" => isr # {} \/ P!Unmasked = {}

(* Who is about to store the request register has read it for a purpose.   *)
StoresKnown ==
  \A t \in P!Threads :
    pc[t] = "store" => op[t].name \in {"assert", "deassert", "eoi"}

PicInv == P!TypeOK /\ AloneKnows /\ OneInside /\ StoresKnown /\ P!AgreesUnlessMixed

LEMMA TwoThreads ==
  ASSUME NEW t \in P!Threads
  PROVE  /\ P!Other(t) \in P!Threads /\ P!Other(t) # t /\ P!Other(P!Other(t)) = t
         /\ \A x \in P!Threads : x = t \/ x = P!Other(t)
BY DEF P!Threads, P!Other

(* Priority resolution yields one of the requested levels.                 *)
LEMMA HighestRequested ==
  ASSUME P!ThreadsAssumption, NEW S \in SUBSET P!Pins, S # {}
  PROVE  P!Highest(S) \in S
<1>1. \A p \in S : p \in 0 .. 7
  BY DEF P!ThreadsAssumption, P!Pins
<1>2. \E p \in S : \A q \in S : p <= q
  BY <1>1
<1> QED
  BY <1>2 DEF P!Highest

LEMMA InitPicInv == ASSUME P!Init PROVE PicInv
<1>1. P!TypeOK
  BY DEF P!Init, P!TypeOK, P!Op, P!Ops
<1>2. P!Unmasked = {} /\ \A t \in P!Threads : pc[t] = "idle"
  BY DEF P!Init, P!Unmasked
<1>3. AloneKnows /\ OneInside /\ StoresKnown
  BY <1>2 DEF AloneKnows, OneInside, StoresKnown, P!Threads
<1> QED
  BY <1>1, <1>2, <1>3 DEF P!Init, PicInv, P!AgreesUnlessMixed

(* What every step but the drive of INTR does to the histories: while t is *)
(* inside afterwards, being outside before or having been alone, only      *)
(* what it must establish itself is left to show.                          *)
LEMMA Moved ==
  ASSUME PicInv, NEW t \in P!Threads, P!TypeOK',
         pc'[P!Other(t)] = pc[P!Other(t)], ~alone'[P!Other(t)],
         op'[P!Other(t)] = op[P!Other(t)],
         pc'[t] = "store" => op'[t].name \in {"assert", "deassert", "eoi"},
         P!Interferes(t), pc'[t] # "idle",
         alone'[t] /\ pc'[t] \in {"sense", "drive"} =>
           /\ pc[P!Other(t)] = "idle" /\ old'[t] = ocw1'
           /\ pc'[t] = "drive" => verdict'[t] = (P!Unmasked' # {}),
         ~mixed' /\ pc'[t] \in {"sense", "drive"} => alone'[t],
         ~mixed' /\ pc'[t] = "lower" => isr' # {} \/ P!Unmasked' = {}
  PROVE  PicInv'
<1> DEFINE o == P!Other(t)
<1>1. o \in P!Threads /\ o # t /\ P!Other(o) = t /\ \A x \in P!Threads : x = t \/ x = o
  BY TwoThreads
<1>2. mixed' = (mixed \/ pc[o] # "idle")
  BY DEF P!Interferes
<1> HIDE DEF o
<1>3. pc'[o] = pc[o] /\ op'[o] = op[o] /\ ~alone'[o]
  BY DEF o
<1>4. AloneKnows'
  BY <1>1, <1>3 DEF AloneKnows, o
<1>5. OneInside'
  BY <1>1, <1>2, <1>3 DEF OneInside
<1>6. P!AgreesUnlessMixed'
  BY DEF P!AgreesUnlessMixed
<1>7. StoresKnown'
  BY <1>1, <1>3 DEF PicInv, StoresKnown
<1> QED
  BY <1>4, <1>5, <1>6, <1>7 DEF PicInv

LEMMA LoadStep ==
  ASSUME PicInv, NEW t \in P!Threads, NEW o \in P!Ops, P!Load(t, o) PROVE PicInv'
<1>1. P!TypeOK'
  BY DEF PicInv, P!TypeOK, P!Load, P!Goto, P!NotAlone, P!Interferes
<1>2. pc'[t] = "store" /\ op'[t] = o /\ pc'[P!Other(t)] = pc[P!Other(t)] /\ ~alone'[P!Other(t)]
      /\ op'[P!Other(t)] = op[P!Other(t)]
  BY TwoThreads DEF PicInv, P!TypeOK, P!Load, P!Goto, P!NotAlone
<1> QED
  BY <1>1, <1>2, Moved DEF P!Load

LEMMA StoreStep == ASSUME PicInv, NEW t \in P!Threads, P!Store(t) PROVE PicInv'
<1>1. irr' \subseteq P!Pins
  <2>1. op[t].name \in {"assert", "deassert", "eoi"}
    BY DEF PicInv, StoresKnown, P!Store
  <2>2. op[t].name = "assert" => op[t].pins \subseteq P!Pins
    BY DEF PicInv, P!TypeOK, P!Ops
  <2>3. old[t] \subseteq P!Pins
    BY DEF PicInv, P!TypeOK
  <2>4. CASE op[t].name = "assert"
    BY <2>2, <2>3, <2>4 DEF P!Store
  <2>5. CASE op[t].name = "deassert"
    BY <2>3, <2>5 DEF P!Store
  <2>6. CASE op[t].name = "eoi"
    BY <2>3, <2>6 DEF P!Store
  <2> QED
    BY <2>1, <2>4, <2>5, <2>6
<1>2. P!TypeOK'
  BY <1>1 DEF PicInv, P!TypeOK, P!Store, P!Goto, P!NotAlone, P!Interferes
<1>3. pc'[t] = "mask" /\ pc'[P!Other(t)] = pc[P!Other(t)] /\ ~alone'[P!Other(t)]
      /\ op'[P!Other(t)] = op[P!Other(t)]
  BY TwoThreads DEF PicInv, P!TypeOK, P!Store, P!Goto, P!NotAlone
<1> QED
  BY <1>2, <1>3, Moved DEF P!Store

LEMMA WriteMaskStep ==
  ASSUME PicInv, NEW t \in P!Threads, NEW m \in SUBSET P!Pins, P!WriteMask(t, m) PROVE PicInv'
<1>1. P!Op("mask", m) \in P!Ops
  BY DEF P!Op, P!Ops
<1>2. P!TypeOK'
  BY <1>1 DEF PicInv, P!TypeOK, P!WriteMask, P!Goto, P!NotAlone, P!Interferes
<1>3. pc'[t] = "mask" /\ pc'[P!Other(t)] = pc[P!Other(t)] /\ ~alone'[P!Other(t)]
      /\ op'[P!Other(t)] = op[P!Other(t)]
  BY TwoThreads DEF PicInv, P!TypeOK, P!WriteMask, P!Goto, P!NotAlone
<1> QED
  BY <1>2, <1>3, Moved DEF P!WriteMask

LEMMA ReadMaskStep == ASSUME PicInv, NEW t \in P!Threads, P!ReadMask(t) PROVE PicInv'
<1> DEFINE o == P!Other(t)
<1>1. o \in P!Threads /\ o # t /\ P!Other(o) = t
  BY TwoThreads
<1>2. P!TypeOK'
  BY DEF PicInv, P!TypeOK, P!ReadMask, P!Goto, P!Interferes
<1>3. pc'[t] = "sense" /\ pc'[o] = pc[o] /\ op'[o] = op[o] /\ old'[t] = ocw1
  BY <1>1 DEF PicInv, P!TypeOK, P!ReadMask, P!Goto
<1>4. ~alone'[o] /\ (alone'[t] <=> pc[o] = "idle")
  BY <1>1 DEF P!ReadMask
<1>5. ocw1' = ocw1 /\ P!Interferes(t)
  BY DEF P!ReadMask
<1>6. ~mixed' => pc[o] = "idle"
  BY <1>5 DEF P!Interferes
<1> QED
  BY <1>2, <1>3, <1>4, <1>5, <1>6, Moved

LEMMA SenseStep == ASSUME PicInv, NEW t \in P!Threads, P!Sense(t) PROVE PicInv'
<1> DEFINE o == P!Other(t)
<1>1. o \in P!Threads /\ o # t /\ P!Other(o) = t
  BY TwoThreads
<1>2. P!TypeOK'
  BY DEF PicInv, P!TypeOK, P!Sense, P!Goto, P!NotAlone, P!Interferes
<1>3. /\ pc[t] = "sense" /\ pc'[t] = "drive" /\ pc'[o] = pc[o] /\ op'[o] = op[o] /\ ~alone'[o]
      /\ alone'[t] = alone[t] /\ verdict'[t] = (irr \ old[t] # {})
  BY <1>1 DEF PicInv, P!TypeOK, P!Sense, P!Goto, P!NotAlone
<1>4. P!Interferes(t) /\ UNCHANGED <<irr, isr, ocw1, old>>
  BY DEF P!Sense
<1>5. alone[t] => pc[o] = "idle" /\ old[t] = ocw1
  BY <1>3 DEF PicInv, AloneKnows
<1>6. ~mixed' => alone[t]
  BY <1>3, <1>4 DEF P!Interferes, PicInv, OneInside
<1> QED
  BY <1>2, <1>3, <1>4, <1>5, <1>6, Moved DEF P!Unmasked

(* INTR is driven: after a fresh_int that ran alone it answers to the      *)
(* registers, whatever was left by the steps before.                       *)
LEMMA DriveStep == ASSUME PicInv, NEW t \in P!Threads, P!Drive(t) PROVE PicInv'
<1> DEFINE o == P!Other(t)
<1>1. o \in P!Threads /\ o # t /\ P!Other(o) = t /\ \A x \in P!Threads : x = t \/ x = o
  BY TwoThreads
<1>2. P!TypeOK'
  BY DEF PicInv, P!TypeOK, P!Drive, P!Goto, P!NotAlone
<1>3. /\ pc[t] = "drive" /\ pc'[t] = "idle" /\ pc'[o] = pc[o] /\ op'[o] = op[o] /\ ~alone'[o]
      /\ intr' = verdict[t] /\ P!Unmasked' = P!Unmasked
      /\ mixed' = IF alone[t] THEN FALSE ELSE mixed \/ pc[o] # "idle"
  BY <1>1 DEF PicInv, P!TypeOK, P!Drive, P!Goto, P!NotAlone, P!Unmasked
<1>4. alone[t] => pc[o] = "idle" /\ verdict[t] = (P!Unmasked # {})
  BY <1>3 DEF PicInv, AloneKnows
<1>5. ~mixed' => alone[t]
  BY <1>3 DEF PicInv, OneInside
<1> HIDE DEF o
<1>6. AloneKnows'
  BY <1>1, <1>3 DEF AloneKnows
<1>7. OneInside'
  BY <1>1, <1>3, <1>4, <1>5 DEF OneInside
<1>8. StoresKnown'
  BY <1>1, <1>3 DEF PicInv, StoresKnown
<1>9. P!AgreesUnlessMixed'
  BY <1>3, <1>4, <1>5 DEF P!AgreesUnlessMixed
<1> QED
  BY <1>2, <1>6, <1>7, <1>8, <1>9 DEF PicInv

LEMMA SeeIntrStep == ASSUME PicInv, NEW t \in P!Threads, P!SeeIntr(t) PROVE PicInv'
<1>1. P!Op("inta", {}) \in P!Ops
  BY DEF P!Op, P!Ops
<1>2. P!TypeOK'
  BY <1>1 DEF PicInv, P!TypeOK, P!SeeIntr, P!Goto, P!NotAlone, P!Interferes
<1>3. pc'[t] = "inta" /\ pc'[P!Other(t)] = pc[P!Other(t)] /\ ~alone'[P!Other(t)]
      /\ op'[P!Other(t)] = op[P!Other(t)]
  BY TwoThreads DEF PicInv, P!TypeOK, P!SeeIntr, P!Goto, P!NotAlone
<1> QED
  BY <1>2, <1>3, Moved DEF P!SeeIntr

LEMMA AcknowledgeStep ==
  ASSUME P!ThreadsAssumption, PicInv, NEW t \in P!Threads, P!Acknowledge(t) PROVE PicInv'
<1>1. isr' \subseteq P!Pins /\ isr' # {}
  <2>1. NPins - 1 \in P!Pins
    BY DEF P!ThreadsAssumption, P!Pins
  <2>2. P!Unmasked # {} => P!Highest(P!Unmasked) \in P!Pins
    BY HighestRequested DEF PicInv, P!TypeOK, P!Unmasked
  <2> QED
    BY <2>1, <2>2 DEF P!Acknowledge
<1>2. P!TypeOK'
  BY <1>1 DEF PicInv, P!TypeOK, P!Acknowledge, P!Goto, P!NotAlone, P!Interferes
<1>3. pc'[t] = "lower" /\ pc'[P!Other(t)] = pc[P!Other(t)] /\ ~alone'[P!Other(t)]
      /\ op'[P!Other(t)] = op[P!Other(t)]
  BY TwoThreads DEF PicInv, P!TypeOK, P!Acknowledge, P!Goto, P!NotAlone
<1> QED
  BY <1>1, <1>2, <1>3, Moved DEF P!Acknowledge

LEMMA ResetPicStep == ASSUME PicInv, NEW t \in P!Threads, P!ResetPic(t) PROVE PicInv'
<1>1. P!Op("reset", {}) \in P!Ops
  BY DEF P!Op, P!Ops
<1>2. P!TypeOK'
  BY <1>1 DEF PicInv, P!TypeOK, P!ResetPic, P!Goto, P!NotAlone, P!Interferes
<1>3. pc'[t] = "lower" /\ pc'[P!Other(t)] = pc[P!Other(t)] /\ ~alone'[P!Other(t)]
      /\ op'[P!Other(t)] = op[P!Other(t)]
  BY TwoThreads DEF PicInv, P!TypeOK, P!ResetPic, P!Goto, P!NotAlone
<1>4. P!Unmasked' = {}
  BY DEF P!ResetPic, P!Unmasked
<1> QED
  BY <1>2, <1>3, <1>4, Moved DEF P!ResetPic

LEMMA LowerIntrStep == ASSUME PicInv, NEW t \in P!Threads, P!LowerIntr(t) PROVE PicInv'
<1> DEFINE o == P!Other(t)
<1>1. o \in P!Threads /\ o # t /\ P!Other(o) = t /\ \A x \in P!Threads : x = t \/ x = o
  BY TwoThreads
<1>2. P!TypeOK'
  BY DEF PicInv, P!TypeOK, P!LowerIntr, P!Goto, P!NotAlone, P!Interferes
<1>3. /\ pc[t] = "lower" /\ pc'[t] = "idle" /\ pc'[o] = pc[o] /\ op'[o] = op[o] /\ ~alone'[o]
      /\ ~intr' /\ P!Unmasked' = P!Unmasked /\ isr' = isr
      /\ mixed' = (mixed \/ pc[o] # "idle")
  BY <1>1 DEF PicInv, P!TypeOK, P!LowerIntr, P!Goto, P!NotAlone, P!Unmasked, P!Interferes
<1>4. ~mixed' => isr # {} \/ P!Unmasked = {}
  BY <1>3 DEF PicInv, OneInside
<1> HIDE DEF o
<1>5. AloneKnows'
  BY <1>1, <1>3 DEF AloneKnows
<1>6. OneInside'
  BY <1>1, <1>3 DEF OneInside
<1>7. StoresKnown'
  BY <1>1, <1>3 DEF PicInv, StoresKnown
<1>8. P!AgreesUnlessMixed'
  BY <1>3, <1>4 DEF P!AgreesUnlessMixed
<1> QED
  BY <1>2, <1>5, <1>6, <1>7, <1>8 DEF PicInv

LEMMA PicStep == ASSUME P!ThreadsAssumption, PicInv, [P!Next]_(P!vars) PROVE PicInv'
<1>1. CASE UNCHANGED P!vars
  BY <1>1 DEF PicInv, P!TypeOK, AloneKnows, OneInside, StoresKnown, P!AgreesUnlessMixed, P!Unmasked, P!vars
<1>2. ASSUME NEW t \in P!Threads, P!Continue(t) PROVE PicInv'
  BY <1>2, StoreStep, ReadMaskStep, SenseStep, DriveStep, AcknowledgeStep, LowerIntrStep
     DEF P!Continue
<1>3. "clock" \in P!Threads /\ "window" \in P!Threads
  BY DEF P!Threads
<1>4. /\ \A p \in P!Pins, n \in {"assert", "deassert"} : P!Op(n, {p}) \in P!Ops
      /\ P!Op("eoi", {}) \in P!Ops
  BY DEF P!Op, P!Ops
<1>5. /\ \A p \in ClockPins : p \in P!Pins
      /\ \A p \in WindowPins : p \in P!Pins
      /\ \A m \in Masks : m \in SUBSET P!Pins
  BY DEF P!ThreadsAssumption
<1>6. CASE P!Clock
  BY <1>2, <1>3, <1>4, <1>5, <1>6, LoadStep, WriteMaskStep, SeeIntrStep DEF P!Clock
<1>7. CASE P!Window
  BY <1>2, <1>3, <1>4, <1>5, <1>7, LoadStep, ResetPicStep DEF P!Window
<1> QED
  BY <1>1, <1>6, <1>7 DEF P!Next

LEMMA PicInvariance == ASSUME P!ThreadsAssumption PROVE P!Spec => []PicInv
<1>1. P!Init => PicInv
  BY InitPicInv
<1>2. PicInv /\ [P!Next]_(P!vars) => PicInv'
  BY PicStep
<1> QED
  BY <1>1, <1>2, PTL DEF P!Spec

(* The registers of the master 8259 and what each thread remembers of them *)
(* keep their types in every interleaving of the two threads.              *)
THEOREM PicThreadsTypes == ASSUME P!ThreadsAssumption PROVE P!Spec => []P!TypeOK
<1>1. PicInv => P!TypeOK
  BY DEF PicInv
<1> QED
  BY <1>1, PicInvariance, PTL

(* However the two threads interleaved in assert, deassert, eoi, inta and  *)
(* reset of the 8259, one undisturbed fresh_int afterwards makes INTR      *)
(* answer to the registers again, until the threads mix once more.         *)
THEOREM FreshIntRepairs == ASSUME P!ThreadsAssumption PROVE P!Spec => []AgreesUnlessMixed
<1>1. PicInv => AgreesUnlessMixed
  BY DEF PicInv, AgreesUnlessMixed
<1> QED
  BY <1>1, PicInvariance, PTL

-----------------------------------------------------------------------------
(* The path of a key. *)

(* What the boot code has written so far, and what the three handlers of   *)
(* the two chips know of each other: no request of the keyboard before its *)
(* interrupt is enabled, a byte wherever one is requested that no handler  *)
(* has yet begun to serve, and the handler of the keyboard is the one in   *)
(* service.                                                                *)
Booted ==
  /\ guest = 2 => state[0] = 0 /\ icw1[0] = 17
  /\ guest = 3 => state[0] = 2 /\ icw1[0] = 17 /\ base[0] = 1
  /\ guest \in {4, 5} => state[0] = 3 /\ base[0] = 1
  /\ guest >= 6 => kocw1[0] = 0 /\ base[0] = 1
  /\ guest <= 7 => cmd = 0 /\ 1 \notin kirr[0]
  /\ guest = 7 => lastCmd = 96
  /\ kirr[1] = {} /\ base[1] = 0

Served ==
  /\ guest = 8 /\ 1 \in kirr[0] => rd # wr /\ kintr
  /\ guest = 9 => kisr[0] = {1} /\ rd # wr
  /\ guest = 10 /\ 1 \in kirr[0] \ kisr[0] => rd # wr

PathInv == K!TypeOK /\ Booted /\ Served

(* The indices of the ring stay in it, and a byte put behind the others    *)
(* does not empty it.                                                      *)
LEMMA KeyIndices ==
  ASSUME K!PathAssumption, NEW i \in K!Kbc!Slots, NEW j \in K!Kbc!Slots
  PROVE  /\ K!Kbc!Up(i) \in K!Kbc!Slots /\ K!Kbc!Down(i) \in K!Kbc!Slots /\ K!Kbc!Down(i) # i
         /\ j # K!Kbc!Down(i) => K!Kbc!Up(j) # i
<1>1. KeySlots \in Nat /\ KeySlots >= 2 /\ i \in 0 .. KeySlots - 1 /\ j \in 0 .. KeySlots - 1
  BY DEF K!PathAssumption, K!Kbc!Slots
<1> QED
  BY <1>1 DEF K!Kbc!Up, K!Kbc!Down, K!Kbc!Slots

(* Command byte 0 disables the interrupt; the mask 0 closes no pin.        *)
LEMMA ZeroBits == ~K!Kbc!IntEnabled(0) /\ K!Pic!Bits(0) = {}
<1>1. (0 \div 2^0) % 2 = 0 /\ (0 \div 2^1) % 2 = 0 /\ (0 \div 2^2) % 2 = 0
  BY SMT
<1>2. ~K!Kbc!IntEnabled(0)
  BY <1>1 DEF K!Kbc!IntEnabled, K!Kbc!Bit
<1>3. K!Pic!Pins = {0, 1, 2}
  BY DEF K!Pic!Pins
<1>4. ~K!Pic!Bit(0, 0) /\ ~K!Pic!Bit(0, 1) /\ ~K!Pic!Bit(0, 2)
  BY <1>1 DEF K!Pic!Bit
<1>5. K!Pic!Bits(0) = {}
  BY <1>3, <1>4 DEF K!Pic!Bits
<1> QED
  BY <1>2, <1>5

(* The operations of the keyboard controller on this path.                 *)
LEMMA KeyHitDoes ==
  ASSUME K!PathAssumption, K!Kbc!TypeOK, NEW k \in Keys, K!Kbc!KeyHit(k)
  PROVE  /\ K!Kbc!TypeOK' /\ rd' # wr' /\ UNCHANGED <<cmd, lastCmd>>
         /\ cmd = 0 => ~kirq'
<1>1. rd \in K!Kbc!Slots /\ wr \in K!Kbc!Slots /\ k \in K!Kbc!Byte /\ 0 \in K!Kbc!Byte
  BY DEF K!Kbc!TypeOK, K!PathAssumption, K!Kbc!Byte
<1>2. rd' \in K!Kbc!Slots /\ wr' \in K!Kbc!Slots /\ rd' # wr'
  BY <1>1, KeyIndices DEF K!Kbc!KeyHit, K!Kbc!Full, K!Kbc!ring
<1>3. ibuf' \in [K!Kbc!Slots -> K!Kbc!Byte]
  BY <1>1 DEF K!Kbc!KeyHit, K!Kbc!TypeOK, K!Kbc!ring
<1>4. kirq' \in BOOLEAN /\ (cmd = 0 => ~kirq')
  BY ZeroBits DEF K!Kbc!KeyHit, K!Kbc!IntEnabled, K!Kbc!Bit
<1> QED
  BY <1>1, <1>2, <1>3, <1>4 DEF K!Kbc!KeyHit, K!Kbc!TypeOK, K!Kbc!gate

LEMMA ReadDoes ==
  ASSUME K!PathAssumption, K!Kbc!TypeOK, K!Kbc!ReadPort60
  PROVE  /\ K!Kbc!TypeOK' /\ UNCHANGED <<cmd, lastCmd>>
         /\ kirq' => rd' # wr'
<1>1. rd \in K!Kbc!Slots /\ wr \in K!Kbc!Slots /\ ibuf \in [K!Kbc!Slots -> K!Kbc!Byte]
  BY DEF K!Kbc!TypeOK
<1>2. rd' \in K!Kbc!Slots /\ wr' = wr /\ data' \in K!Kbc!Byte /\ obf' \in BOOLEAN
      /\ kirq' \in BOOLEAN /\ (kirq' => rd' # wr')
  <2>1. CASE rd # wr
    <3>1. rd' = K!Kbc!Up(rd) /\ obf' = (K!Kbc!Up(rd) # wr) /\ data' = ibuf[rd] /\ wr' = wr
          /\ kirq' = (K!Kbc!Up(rd) # wr /\ K!Kbc!IntEnabled(cmd))
      BY <2>1 DEF K!Kbc!ReadPort60
    <3> QED
      BY <1>1, <3>1, KeyIndices
  <2>2. CASE rd = wr
    BY <1>1, <2>2 DEF K!Kbc!ReadPort60, K!Kbc!TypeOK
  <2> QED
    BY <2>1, <2>2
<1> QED
  BY <1>1, <1>2 DEF K!Kbc!ReadPort60, K!Kbc!TypeOK, K!Kbc!gate

LEMMA ResetDoes ==
  ASSUME K!PathAssumption, K!Kbc!TypeOK, K!Kbc!ResetButton
  PROVE  K!Kbc!TypeOK' /\ cmd' = 0
<1>1. 0 \in K!Kbc!Slots /\ 0 \in K!Kbc!Byte
  BY DEF K!PathAssumption, K!Kbc!Slots, K!Kbc!Byte
<1>2. a20' \in BOOLEAN
  BY DEF K!Kbc!ResetButton, K!Kbc!A20Open
<1> QED
  BY <1>1, <1>2 DEF K!Kbc!ResetButton, K!Kbc!ResetWith, K!Kbc!TypeOK

LEMMA AnnounceDoes ==
  ASSUME K!Kbc!TypeOK, K!Kbc!WritePort64(96)
  PROVE  K!Kbc!TypeOK' /\ cmd' = cmd /\ lastCmd' = 96 /\ kirq' = FALSE
<1>1. ~K!Kbc!AnswerCommand(96) /\ ~K!Kbc!AuxCommand(96) /\ ~K!Kbc!KbdInterface(96) /\ ~K!Kbc!PulseReset(96)
  BY DEF K!Kbc!AnswerCommand, K!Kbc!Answering, K!Kbc!AuxCommand, K!Kbc!KbdInterface, K!Kbc!PulseReset,
         K!Kbc!Pulses
<1>2. K!Kbc!RememberCommand(96) /\ lastCmd' = 96 /\ data' = 0
  BY <1>1 DEF K!Kbc!WritePort64
<1>3. 96 \in K!Kbc!Byte /\ 0 \in K!Kbc!Byte
  BY DEF K!Kbc!Byte
<1> QED
  BY <1>2, <1>3 DEF K!Kbc!RememberCommand, K!Kbc!TypeOK, K!Kbc!ring, K!Kbc!gate

LEMMA EnableDoes ==
  ASSUME K!PathAssumption, K!Kbc!TypeOK, lastCmd = 96, cmd = 0, K!Kbc!WritePort60(1)
  PROVE  K!Kbc!TypeOK' /\ ~kirq'
<1>1. K!Kbc!WriteCommandByte(1) /\ lastCmd' = 0 /\ data' = 0
  BY DEF K!Kbc!WritePort60, K!Kbc!WriteOutputPort, K!Kbc!LoopBack, K!Kbc!SecurityByte, K!Kbc!KbdCommand,
         K!Kbc!KbdOption, K!Kbc!ToKeyboard
<1>2. K!Kbc!Place(cmd) /\ cmd' = 1 /\ UNCHANGED <<sysFlag, lastByte, outPort, port92, a20>>
  BY <1>1 DEF K!Kbc!WriteCommandByte, K!Kbc!gate
<1>3. 0 \in K!Kbc!Byte /\ 1 \in K!Kbc!Byte
  BY DEF K!Kbc!Byte
<1>4. kirq' \in BOOLEAN /\ ~kirq'
  <2>1. kirq' = K!Kbc!IntEnabled(0)
    BY <1>2, Zenon DEF K!Kbc!Place
  <2>2. K!Kbc!IntEnabled(0) \in BOOLEAN
    BY Zenon DEF K!Kbc!IntEnabled, K!Kbc!Bit
  <2>3. K!Kbc!IntEnabled(0) = FALSE
    BY <2>2, ZeroBits
  <2> QED
    BY <2>1, <2>3
<1>5. rd' \in K!Kbc!Slots /\ ibuf' \in [K!Kbc!Slots -> K!Kbc!Byte]
  <2>1. rd \in K!Kbc!Slots /\ K!Kbc!Down(rd) \in K!Kbc!Slots
    BY KeyIndices DEF K!Kbc!TypeOK
  <2> QED
    BY <1>2, <2>1 DEF K!Kbc!Place, K!Kbc!TypeOK
<1>6. wr' \in K!Kbc!Slots /\ obf' \in BOOLEAN
  BY <1>2 DEF K!Kbc!Place, K!Kbc!TypeOK
<1>7. sysFlag' \in BOOLEAN /\ lastByte' \in K!Kbc!Byte /\ outPort' \in K!Kbc!Byte
      /\ port92' \in K!Kbc!Byte /\ a20' \in BOOLEAN
  BY <1>2 DEF K!Kbc!TypeOK
<1> QED
  BY <1>1, <1>2, <1>3, <1>4, <1>5, <1>6, <1>7 DEF K!Kbc!TypeOK

(* The operations of the 8259.                                             *)
LEMMA AssertDoes ==
  ASSUME K!Pic!TypeOK, NEW p \in {0, 1}, K!Pic!AssertIrq(0, p)
  PROVE  /\ K!Pic!TypeOK' /\ UNCHANGED <<icw1, base, state, kocw1, kisr>>
         /\ kirr'[0] = kirr[0] \cup {p} /\ kirr'[1] = kirr[1]
         /\ kocw1[0] = 0 => kintr'
<1>1. kirr \in [{0, 1} -> SUBSET K!Pic!Pins] /\ p \in K!Pic!Pins
  BY DEF K!Pic!TypeOK, K!Pic!Controllers, K!Pic!Pins
<1>2. kirr' = [kirr EXCEPT ![0] = @ \cup {p}] /\ UNCHANGED <<icw1, base, state, kocw1, ocw3, kisr>>
      /\ kintr' = K!Pic!Pending(kirr', kocw1') /\ stale' = FALSE
  BY DEF K!Pic!AssertIrq, K!Pic!regs, K!Pic!FreshInt
<1>3. kirr'[0] = kirr[0] \cup {p} /\ kirr'[1] = kirr[1] /\ kirr' \in [{0, 1} -> SUBSET K!Pic!Pins]
  BY <1>1, <1>2
<1>4. kintr' \in BOOLEAN
  BY <1>2 DEF K!Pic!Pending
<1>5. kocw1[0] = 0 => kintr'
  BY <1>2, <1>3, ZeroBits DEF K!Pic!Pending, K!Pic!Unmasked, K!Pic!Controllers
<1>6. K!Pic!TypeOK'
  BY <1>2, <1>3, <1>4 DEF K!Pic!TypeOK, K!Pic!Controllers
<1> QED
  BY <1>2, <1>3, <1>5, <1>6

LEMMA WireDoes ==
  ASSUME K!Pic!TypeOK, K!Wire
  PROVE  /\ K!Pic!TypeOK' /\ UNCHANGED <<icw1, base, state, kocw1, kisr>>
         /\ kirr'[1] = kirr[1]
         /\ kirq' => kirr'[0] = kirr[0] \cup {1} /\ (kocw1[0] = 0 => kintr')
         /\ ~kirq' => kirr' = kirr /\ kintr' = kintr
<1>1. CASE kirq'
  <2>1. K!Pic!AssertIrq(0, 1)
    BY <1>1 DEF K!Wire, K!Keyboard
  <2> QED
    BY <1>1, <2>1, AssertDoes
<1>2. CASE ~kirq'
  BY <1>2 DEF K!Wire, K!pic, K!Pic!TypeOK
<1> QED
  BY <1>1, <1>2

LEMMA PicResetDoes ==
  ASSUME K!Pic!TypeOK, K!Pic!Reset
  PROVE  K!Pic!TypeOK' /\ kirr'[0] = {} /\ kirr'[1] = {} /\ base' = base
<1>1. 255 \in K!Pic!Byte /\ 10 \in K!Pic!Byte
  BY DEF K!Pic!Byte
<1> QED
  BY <1>1 DEF K!Pic!Reset, K!Pic!TypeOK, K!Pic!Controllers

(* The boot code's writes to the master.                                   *)
LEMMA BootPicDoes ==
  ASSUME K!Pic!TypeOK, K!BootPic, Booted
  PROVE  /\ K!Pic!TypeOK' /\ Booted' /\ guest' \in 2 .. 6
<1>1. guest \in {1, 2, 3, 4, 5} /\ guest' = guest + 1
      /\ UNCHANGED <<cmd, lastCmd>>
  BY DEF K!BootPic, K!kbc
<1>2. base \in [{0, 1} -> 0 .. 15] /\ state \in [{0, 1} -> 0 .. 3] /\ icw1 \in [{0, 1} -> K!Pic!Byte]
      /\ kocw1 \in [{0, 1} -> K!Pic!Byte] /\ kirr \in [{0, 1} -> SUBSET K!Pic!Pins]
      /\ kisr \in [{0, 1} -> SUBSET K!Pic!Pins]
  BY DEF K!Pic!TypeOK, K!Pic!Controllers
<1>3. CASE guest = 1
  <2>1. K!Pic!WriteCommand(0, 17)
    BY <1>3 DEF K!BootPic, K!Icws
  <2>2. (17 \div 2^4) % 2 = 1
    BY SMT
  <2>3. K!Pic!WriteIcw1(0, 17)
    BY <2>1, <2>2 DEF K!Pic!WriteCommand, K!Pic!WriteOcw2, K!Pic!WriteOcw3, K!Pic!Bit
  <2>4. 17 \in K!Pic!Byte
    BY DEF K!Pic!Byte
  <2>5. K!Pic!TypeOK'
    BY <2>3, <2>4 DEF K!Pic!WriteIcw1, K!Pic!TypeOK, K!Pic!Controllers
  <2>6. icw1'[0] = 17 /\ state'[0] = 0 /\ kirr'[0] = {} /\ kirr'[1] = kirr[1] /\ base' = base
    BY <1>2, <2>3 DEF K!Pic!WriteIcw1
  <2> QED
    BY <1>1, <1>3, <2>5, <2>6 DEF Booted
<1>4. CASE guest = 2
  <2>1. K!Pic!WriteData(0, 8) /\ state[0] = 0 /\ icw1[0] = 17
    BY <1>4 DEF K!BootPic, K!Icws, Booted
  <2>2. (17 \div 2^1) % 2 = 0 /\ (8 \div 8) % 16 = 1
    BY SMT
  <2>3. K!Pic!WriteIcw2(0, 8)
    BY <2>1 DEF K!Pic!WriteData, K!Pic!WriteMask, K!Pic!WriteIcw3, K!Pic!WriteIcw4
  <2>4. /\ base' = [base EXCEPT ![0] = 1] /\ state' = [state EXCEPT ![0] = 2]
        /\ UNCHANGED <<icw1, kocw1, ocw3, kirr, kisr, kintr, stale>>
    BY <2>1, <2>2, <2>3 DEF K!Pic!WriteIcw2, K!Pic!Bit
  <2>5. K!Pic!TypeOK'
    BY <2>4 DEF K!Pic!TypeOK, K!Pic!Controllers
  <2> QED
    BY <1>1, <1>2, <1>4, <2>4, <2>5 DEF Booted
<1>5. CASE guest = 3
  <2>1. K!Pic!WriteData(0, 4) /\ state[0] = 2 /\ icw1[0] = 17 /\ base[0] = 1
    BY <1>5 DEF K!BootPic, K!Icws, Booted
  <2>2. (17 \div 2^0) % 2 = 1
    BY SMT
  <2>3. K!Pic!WriteIcw4(0, 4)
    BY <2>1 DEF K!Pic!WriteData, K!Pic!WriteMask, K!Pic!WriteIcw2, K!Pic!WriteIcw3
  <2>4. /\ state' = [state EXCEPT ![0] = 3]
        /\ UNCHANGED <<icw1, base, kocw1, ocw3, kirr, kisr, kintr, stale>>
    BY <2>1, <2>2, <2>3 DEF K!Pic!WriteIcw4, K!Pic!Bit
  <2>5. K!Pic!TypeOK'
    BY <2>4 DEF K!Pic!TypeOK, K!Pic!Controllers
  <2> QED
    BY <1>1, <1>2, <1>5, <2>1, <2>4, <2>5 DEF Booted
<1>6. ASSUME NEW m \in {0, 1}, guest \in {4, 5}, K!Pic!WriteData(0, m), guest = 5 => m = 0
      PROVE  K!Pic!TypeOK' /\ Booted'
  <2>1. state[0] = 3 /\ base[0] = 1
    BY <1>6 DEF Booted
  <2>2. K!Pic!WriteMask(0, m)
    BY <1>6, <2>1 DEF K!Pic!WriteData, K!Pic!WriteIcw2, K!Pic!WriteIcw3, K!Pic!WriteIcw4
  <2>3. /\ kocw1' = [kocw1 EXCEPT ![0] = m] /\ UNCHANGED <<icw1, base, state, ocw3, kirr, kisr>>
        /\ kintr' \in BOOLEAN /\ stale' = FALSE
    BY <2>2 DEF K!Pic!WriteMask, K!Pic!FreshInt, K!Pic!Pending
  <2>4. m \in K!Pic!Byte
    BY DEF K!Pic!Byte
  <2>5. K!Pic!TypeOK'
    BY <2>3, <2>4 DEF K!Pic!TypeOK, K!Pic!Controllers
  <2>6. kocw1'[0] = m
    BY <1>2, <2>3
  <2> QED
    BY <1>1, <1>6, <2>1, <2>3, <2>5, <2>6 DEF Booted
<1>7. CASE guest = 4
  BY <1>1, <1>6, <1>7 DEF K!BootPic, K!Icws
<1>8. CASE guest = 5
  BY <1>1, <1>6, <1>8 DEF K!BootPic, K!NoMask
<1> QED
  BY <1>1, <1>3, <1>4, <1>5, <1>7, <1>8

(* The acknowledge: the handler of the keyboard only for its request.      *)
LEMMA IntaDoes ==
  ASSUME K!Pic!TypeOK, Booted, guest = 8, K!Pic!Inta
  PROVE  /\ K!Pic!TypeOK' /\ UNCHANGED <<icw1, base, state, kocw1, kirr>>
         /\ K!Pic!Vector = 9 => kisr'[0] = {1} /\ 1 \in kirr[0]
<1>1. /\ kirr \in [{0, 1} -> SUBSET K!Pic!Pins] /\ kisr \in [{0, 1} -> SUBSET K!Pic!Pins]
      /\ base[0] = 1 /\ kocw1[0] = 0 /\ kirr[1] = {}
  BY DEF K!Pic!TypeOK, K!Pic!Controllers, Booted
<1>2. K!Pic!Unmasked(kirr, kocw1, 1) = {} /\ K!Pic!Unmasked(kirr, kocw1, 0) = kirr[0]
  BY <1>1, ZeroBits DEF K!Pic!Unmasked
<1>3. \E p \in K!Pic!Pins : K!Pic!Selected = <<0, p>> /\ (p # 2 => p \in kirr[0])
  <2>1. CASE kirr[0] # {}
    <3>1. K!Pic!Selected = <<0, K!Pic!Highest(kirr[0])>>
      BY <1>2, <2>1 DEF K!Pic!Selected
    <3>2. kirr[0] \subseteq 0 .. 2
      BY <1>1 DEF K!Pic!Pins
    <3>3. \E p \in kirr[0] : \A q \in kirr[0] : p <= q
      BY <2>1, <3>2
    <3>4. K!Pic!Highest(kirr[0]) \in kirr[0]
      BY <3>3 DEF K!Pic!Highest
    <3> QED
      BY <1>1, <3>1, <3>4
  <2>2. CASE kirr[0] = {}
    <3>1. K!Pic!Selected = <<0, 3 - 1>>
      BY <1>2, <2>2 DEF K!Pic!Selected
    <3> QED
      BY <3>1 DEF K!Pic!Pins
  <2> QED
    BY <2>1, <2>2
<1>4. PICK p \in K!Pic!Pins : K!Pic!Selected = <<0, p>> /\ (p # 2 => p \in kirr[0])
  BY <1>3
<1>5. kisr' = [kisr EXCEPT ![0] = {p}] /\ kintr' = FALSE
      /\ UNCHANGED <<icw1, base, state, kocw1, ocw3, kirr, stale>>
  BY <1>4 DEF K!Pic!Inta, K!Pic!regs
<1>6. K!Pic!TypeOK'
  BY <1>5 DEF K!Pic!TypeOK, K!Pic!Controllers
<1>7. K!Pic!Vector = 9 => p = 1
  BY <1>1, <1>4 DEF K!Pic!Vector, K!Pic!Pins
<1> QED
  BY <1>1, <1>4, <1>5, <1>6, <1>7

LEMMA EoiDoes ==
  ASSUME K!Pic!TypeOK, Booted, guest = 10, K!Pic!WriteCommand(0, 32)
  PROVE  /\ K!Pic!TypeOK' /\ UNCHANGED <<icw1, base, state, kocw1>>
         /\ kirr'[0] = kirr[0] \ kisr[0] /\ kirr'[1] = kirr[1]
         /\ 1 \in kirr'[0] => kintr'
<1>1. (32 \div 2^4) % 2 = 0 /\ (32 \div 2^3) % 2 = 0
  BY SMT
<1>2. K!Pic!Eoi(0)
  BY <1>1 DEF K!Pic!WriteCommand, K!Pic!WriteIcw1, K!Pic!WriteOcw2, K!Pic!WriteOcw3, K!Pic!Bit
<1>3. kirr \in [{0, 1} -> SUBSET K!Pic!Pins] /\ kisr \in [{0, 1} -> SUBSET K!Pic!Pins] /\ kocw1[0] = 0
  BY DEF K!Pic!TypeOK, K!Pic!Controllers, Booted
<1>4. /\ kirr' = [kirr EXCEPT ![0] = @ \ kisr[0]] /\ kisr' = [kisr EXCEPT ![0] = {}]
      /\ UNCHANGED <<icw1, base, state, kocw1, ocw3>>
      /\ kintr' = K!Pic!Pending(kirr', kocw1') /\ stale' = FALSE
  BY <1>2 DEF K!Pic!Eoi, K!Pic!FreshInt, K!Pic!regs
<1>5. kirr'[0] = kirr[0] \ kisr[0] /\ kirr'[1] = kirr[1] /\ kirr' \in [{0, 1} -> SUBSET K!Pic!Pins]
  BY <1>3, <1>4
<1>6. 1 \in kirr'[0] => kintr'
  BY <1>3, <1>4, <1>5, ZeroBits DEF K!Pic!Pending, K!Pic!Unmasked, K!Pic!Controllers
<1>7. kintr' \in BOOLEAN
  BY <1>4 DEF K!Pic!Pending
<1>8. K!Pic!TypeOK'
  BY <1>3, <1>4, <1>5, <1>7 DEF K!Pic!TypeOK, K!Pic!Controllers
<1> QED
  BY <1>4, <1>5, <1>6, <1>8

LEMMA PathBegins == K!PathAssumption /\ K!Init => PathInv
<1> SUFFICES ASSUME K!PathAssumption, K!Init PROVE PathInv
  OBVIOUS
<1>1. K!Kbc!TypeOK
  <2>1. 0 \in K!Kbc!Byte /\ 1 \in K!Kbc!Byte /\ 0 \in K!Kbc!Slots
    BY DEF K!PathAssumption, K!Kbc!Slots, K!Kbc!Byte
  <2>2. [s \in K!Kbc!Slots |-> 0] \in [K!Kbc!Slots -> K!Kbc!Byte]
    BY <2>1
  <2>3. rd \in K!Kbc!Slots /\ wr \in K!Kbc!Slots /\ ibuf \in [K!Kbc!Slots -> K!Kbc!Byte]
    BY <2>1, <2>2 DEF K!Init, K!Kbc!Init
  <2>4. obf \in BOOLEAN /\ sysFlag \in BOOLEAN /\ a20 \in BOOLEAN /\ kirq \in BOOLEAN
    BY DEF K!Init, K!Kbc!Init
  <2>5. cmd \in K!Kbc!Byte /\ lastCmd \in K!Kbc!Byte /\ lastByte \in K!Kbc!Byte
        /\ outPort \in K!Kbc!Byte /\ port92 \in K!Kbc!Byte /\ data \in K!Kbc!Byte
    BY <2>1 DEF K!Init, K!Kbc!Init
  <2> QED
    BY <2>3, <2>4, <2>5 DEF K!Kbc!TypeOK
<1>2. K!Pic!TypeOK
  <2>1. K!Pic!Controllers # {} /\ 0 \in K!Pic!Byte /\ 0 \in 0 .. 15 /\ 0 \in 0 .. 3
    BY DEF K!Pic!Controllers, K!Pic!Byte
  <2> QED
    BY <2>1 DEF K!Init, K!Pic!Init, K!Pic!TypeOK
<1>3. kirr[0] = {} /\ kirr[1] = {} /\ base[1] = 0 /\ cmd = 0 /\ guest = 1
  BY DEF K!Init, K!Kbc!Init, K!Pic!Init, K!Pic!Controllers
<1> QED
  BY <1>1, <1>2, <1>3 DEF PathInv, K!TypeOK, Booted, Served

LEMMA PathStep == ASSUME K!PathAssumption, PathInv, [K!Next]_(K!vars) PROVE PathInv'
<1>1. guest \in 1 .. 10 /\ K!Kbc!TypeOK /\ K!Pic!TypeOK /\ Booted /\ Served
  BY DEF PathInv, K!TypeOK
<1>2. ASSUME NEW k \in Keys, K!KeyPressed(k) PROVE PathInv'
  <2>1. K!Kbc!KeyHit(k) /\ K!Wire /\ guest' = guest
    BY <1>2 DEF K!KeyPressed
  <2>2. K!Kbc!TypeOK' /\ rd' # wr' /\ UNCHANGED <<cmd, lastCmd>> /\ (cmd = 0 => ~kirq')
    BY <1>1, <2>1, KeyHitDoes
  <2>3. /\ K!Pic!TypeOK' /\ UNCHANGED <<icw1, base, state, kocw1, kisr>> /\ kirr'[1] = kirr[1]
        /\ kirq' => kirr'[0] = kirr[0] \cup {1} /\ (kocw1[0] = 0 => kintr')
        /\ ~kirq' => kirr' = kirr /\ kintr' = kintr
    BY <1>1, <2>1, WireDoes
  <2>4. Booted'
    BY <1>1, <2>1, <2>2, <2>3 DEF Booted
  <2>5. Served'
    BY <1>1, <2>1, <2>2, <2>3 DEF Booted, Served
  <2> QED
    BY <1>1, <2>1, <2>2, <2>3, <2>4, <2>5 DEF PathInv, K!TypeOK
<1>3. CASE K!TimerTick
  <2>1. K!Pic!AssertIrq(0, 0) /\ UNCHANGED <<guest, rd, wr, cmd, lastCmd>> /\ K!Kbc!TypeOK'
    BY <1>1, <1>3 DEF K!TimerTick, K!Timer, K!kbc, K!Kbc!TypeOK
  <2>2. /\ K!Pic!TypeOK' /\ UNCHANGED <<icw1, base, state, kocw1, kisr>>
        /\ kirr'[0] = kirr[0] \cup {0} /\ kirr'[1] = kirr[1]
        /\ kocw1[0] = 0 => kintr'
    BY <1>1, <2>1, AssertDoes
  <2>3. Booted' /\ Served'
    BY <1>1, <2>1, <2>2 DEF Booted, Served
  <2> QED
    BY <1>1, <2>1, <2>2, <2>3 DEF PathInv, K!TypeOK
<1>4. CASE K!ResetButton
  <2>1. K!Kbc!TypeOK' /\ cmd' = 0 /\ guest' = 1
    BY <1>1, <1>4, ResetDoes DEF K!ResetButton
  <2>2. K!Pic!TypeOK' /\ kirr'[0] = {} /\ kirr'[1] = {} /\ base' = base
    BY <1>1, <1>4, PicResetDoes DEF K!ResetButton
  <2>3. Booted' /\ Served'
    BY <1>1, <2>1, <2>2 DEF Booted, Served
  <2> QED
    BY <2>1, <2>2, <2>3 DEF PathInv, K!TypeOK
<1>5. CASE K!BootPic
  <2>1. K!Pic!TypeOK' /\ Booted' /\ guest' \in 2 .. 6
    BY <1>1, <1>5, BootPicDoes
  <2>2. K!Kbc!TypeOK'
    BY <1>1, <1>5 DEF K!BootPic, K!kbc, K!Kbc!TypeOK
  <2>3. Served'
    BY <2>1 DEF Served
  <2> QED
    BY <2>1, <2>2, <2>3 DEF PathInv, K!TypeOK
<1>6. CASE K!BootKbc
  <2>1. CASE guest = 6
    <3>1. K!Kbc!WritePort64(96) /\ K!Wire /\ guest' = 7
      BY <1>6, <2>1 DEF K!BootKbc
    <3>2. K!Kbc!TypeOK' /\ cmd' = cmd /\ lastCmd' = 96 /\ kirq' = FALSE
      BY <1>1, <3>1, AnnounceDoes
    <3>3. /\ K!Pic!TypeOK' /\ UNCHANGED <<icw1, base, state, kocw1, kisr>> /\ kirr' = kirr
      BY <1>1, <3>1, <3>2, WireDoes
    <3>4. Booted' /\ Served'
      BY <1>1, <2>1, <3>1, <3>2, <3>3 DEF Booted, Served
    <3> QED
      BY <3>1, <3>2, <3>3, <3>4 DEF PathInv, K!TypeOK
  <2>2. CASE guest = 7
    <3>1. K!Kbc!WritePort60(1) /\ K!Wire /\ guest' = 8 /\ lastCmd = 96 /\ cmd = 0
      BY <1>1, <1>6, <2>2 DEF K!BootKbc, K!EnableKbdInt, K!Main, Booted
    <3>2. K!Kbc!TypeOK' /\ ~kirq'
      BY <1>1, <3>1, EnableDoes
    <3>3. /\ K!Pic!TypeOK' /\ UNCHANGED <<icw1, base, state, kocw1, kisr>> /\ kirr' = kirr
      BY <1>1, <3>1, <3>2, WireDoes
    <3>4. Booted' /\ Served'
      BY <1>1, <2>2, <3>1, <3>2, <3>3 DEF Booted, Served
    <3> QED
      BY <3>1, <3>2, <3>3, <3>4 DEF PathInv, K!TypeOK
  <2> QED
    BY <1>6, <2>1, <2>2 DEF K!BootKbc
<1>7. CASE K!Interrupt
  <2>1. /\ guest = 8 /\ K!Pic!Inta /\ guest' = IF K!Pic!Vector = 9 THEN 9 ELSE 10
        /\ UNCHANGED <<rd, wr, cmd, lastCmd>> /\ K!Kbc!TypeOK'
    BY <1>1, <1>7 DEF K!Interrupt, K!Main, K!Keyboard, K!AtIn60, K!AtEoi, K!kbc, K!Kbc!TypeOK
  <2>2. /\ K!Pic!TypeOK' /\ UNCHANGED <<icw1, base, state, kocw1, kirr>>
        /\ K!Pic!Vector = 9 => kisr'[0] = {1} /\ 1 \in kirr[0]
    BY <1>1, <2>1, IntaDoes
  <2>3. Booted' /\ Served'
    BY <1>1, <2>1, <2>2 DEF Booted, Served
  <2> QED
    BY <2>1, <2>2, <2>3 DEF PathInv, K!TypeOK
<1>8. CASE K!ReadKey
  <2>1. guest = 9 /\ K!Kbc!ReadPort60 /\ K!Wire /\ guest' = 10
    BY <1>8 DEF K!ReadKey, K!AtIn60, K!AtEoi
  <2>2. K!Kbc!TypeOK' /\ UNCHANGED <<cmd, lastCmd>> /\ (kirq' => rd' # wr')
    BY <1>1, <2>1, ReadDoes
  <2>3. /\ K!Pic!TypeOK' /\ UNCHANGED <<icw1, base, state, kocw1, kisr>> /\ kirr'[1] = kirr[1]
    BY <1>1, <2>1, WireDoes
  <2>4. Booted' /\ Served'
    BY <1>1, <2>1, <2>2, <2>3 DEF Booted, Served
  <2> QED
    BY <2>1, <2>2, <2>3, <2>4 DEF PathInv, K!TypeOK
<1>9. CASE K!EndInterrupt
  <2>1. /\ guest = 10 /\ K!Pic!WriteCommand(0, 32) /\ guest' = 8
        /\ UNCHANGED <<rd, wr, cmd, lastCmd>> /\ K!Kbc!TypeOK'
    BY <1>1, <1>9 DEF K!EndInterrupt, K!Main, K!AtEoi, K!kbc, K!Kbc!TypeOK
  <2>2. /\ K!Pic!TypeOK' /\ UNCHANGED <<icw1, base, state, kocw1>>
        /\ kirr'[0] = kirr[0] \ kisr[0] /\ kirr'[1] = kirr[1]
        /\ 1 \in kirr'[0] => kintr'
    BY <1>1, <2>1, EoiDoes
  <2>3. Booted' /\ Served'
    BY <1>1, <2>1, <2>2 DEF Booted, Served
  <2> QED
    BY <2>1, <2>2, <2>3 DEF PathInv, K!TypeOK
<1>10. CASE UNCHANGED K!vars
  BY <1>10 DEF K!vars, K!kbc, K!pic, PathInv, K!TypeOK, Booted, Served, K!Kbc!TypeOK, K!Pic!TypeOK
<1> QED
  BY <1>2, <1>3, <1>4, <1>5, <1>6, <1>7, <1>8, <1>9, <1>10 DEF K!Next, K!Driver

(* A request of the keyboard, the byte it stands for and INTR go together, *)
(* and the keyboard's handler always finds a byte (key_hit, read_port_60h, *)
(* inta_8259, eoi_8259 and reset, with the usual driver): for a ring of    *)
(* any size, and through any resets while the guest boots.                 *)
THEOREM RequestsHaveBytes == ASSUME K!PathAssumption PROVE K!Spec => []RequestsMatchBytes
<1>1. PathInv => RequestsMatchBytes
  BY DEF RequestsMatchBytes, PathInv, Served, K!HandlerFindsByte, K!RequestHasByte, K!AtIn60, K!Main, K!Keyboard
<1>2. K!Init => PathInv
  BY PathBegins
<1>3. PathInv /\ [K!Next]_(K!vars) => PathInv'
  BY PathStep
<1> QED
  BY <1>1, <1>2, <1>3, PTL DEF K!Spec
=============================================================================
