------------------------------ MODULE VtRing ------------------------------
(***************************************************************************)
(* The ring of commands from the window thread to the clock thread         *)
(* (vt/main_thread.cpp): menu items post 's' (save a snapshot), 'l' (load  *)
(* one), 't' and 'p' (invert trace and step); do_vt, called by the clock   *)
(* every 256 instructions, carries them out.  No lock and no volatile: one *)
(* action per access to a shared variable.                                 *)
(*                                                                         *)
(* A build may store "head++" before "head &= 0xf", so that do_vt can see  *)
(* head = RingSize, or only the wrapped index.  (tail past the end is      *)
(* harmless: full() then gives the verdict of tail = 0.)  The code has     *)
(* RingSize = 16.                                                          *)
(***************************************************************************)
EXTENDS Integers, Sequences

CONSTANTS RingSize, Commands

VtAssumption ==
  /\ RingSize \in Nat /\ RingSize >= 2
  /\ Commands \subseteq Nat \ {0}

VARIABLES
  ring, head, tail,   (* shared                                            *)
  wpc, msg,           (* window thread: program counter, message           *)
  cpc, c,             (* clock thread: program counter, command            *)
  replay              (* history: do_vt looked while head was past the end *)

vars == <<ring, head, tail, wpc, msg, cpc, c, replay>>

Slots == 0 .. RingSize - 1

TypeOK ==
  /\ ring \in [Slots -> Commands \cup {0}]
  /\ head \in 0 .. RingSize
  /\ tail \in Slots
  /\ wpc \in {"idle", "full", "store", "inc", "wrap"}
  /\ msg \in Commands \cup {0}
  /\ cpc \in {"empty", "fetch", "inc", "run"}
  /\ c \in Commands \cup {0}
  /\ replay \in BOOLEAN

Init ==
  /\ ring = [s \in Slots |-> 0] /\ head = 0 /\ tail = 0
  /\ wpc = "idle" /\ msg = 0
  /\ cpc = "empty" /\ c = 0
  /\ replay = FALSE

(* The "& 0xf" of append() and get().                                      *)
Wrap(i) == IF i = RingSize THEN 0 ELSE i

-----------------------------------------------------------------------------
(* Window thread: post_main_thread_msg. *)

PostMsg(m) ==
  /\ wpc = "idle"
  /\ msg' = m
  /\ wpc' = "full"
  /\ UNCHANGED <<ring, head, tail, cpc, c, replay>>

(* Slip: full() tests for equality, as empty() does.                       *)
TestFullAsEmpty ==
  /\ wpc = "full"
  /\ wpc' = "store"
  /\ UNCHANGED <<ring, head, tail, msg, cpc, c, replay>>

(* full(): a message that finds the ring full is dropped.                  *)
TestFull ==
  /\ wpc = "full"
  /\ wpc' = IF head = (IF tail = 0 THEN RingSize - 1 ELSE tail - 1)
            THEN "idle" ELSE "store"
  /\ UNCHANGED <<ring, head, tail, msg, cpc, c, replay>>

(* append(): the slot first, the index after it.                           *)
StoreMsg ==
  /\ wpc = "store"
  /\ ring' = [ring EXCEPT ![head] = msg]
  /\ wpc' = "inc"
  /\ UNCHANGED <<head, tail, msg, cpc, c, replay>>

Publish ==
  /\ wpc = "inc"
  /\ \/ head' = head + 1 /\ wpc' = "wrap"
     \/ head' = Wrap(head + 1) /\ wpc' = "idle"
  /\ UNCHANGED <<ring, tail, msg, cpc, c, replay>>

WrapHead ==
  /\ wpc = "wrap"
  /\ head' = Wrap(head)
  /\ wpc' = "idle"
  /\ UNCHANGED <<ring, tail, msg, cpc, c, replay>>

-----------------------------------------------------------------------------
(* Clock thread: do_vt, again and again. *)

(* Slip: the indices compared as if they did not wrap around.              *)
TestEmptyByOrder ==
  /\ cpc = "empty"
  /\ cpc' = IF head <= tail THEN "empty" ELSE "fetch"
  /\ replay' = (replay \/ (head = RingSize /\ tail = 0))
  /\ UNCHANGED <<ring, head, tail, wpc, msg, c>>

TestEmpty ==
  /\ cpc = "empty"
  /\ cpc' = IF head = tail THEN "empty" ELSE "fetch"
  /\ replay' = (replay \/ (head = RingSize /\ tail = 0))
  /\ UNCHANGED <<ring, head, tail, wpc, msg, c>>

Fetch ==
  /\ cpc = "fetch"
  /\ c' = ring[tail]
  /\ cpc' = "inc"
  /\ UNCHANGED <<ring, head, tail, wpc, msg, replay>>

Advance ==
  /\ cpc = "inc"
  /\ tail' = Wrap(tail + 1)
  /\ cpc' = "run"
  /\ UNCHANGED <<ring, head, wpc, msg, c, replay>>

(* The switch of do_vt; an unknown command (0) does nothing.               *)
Run ==
  /\ cpc = "run"
  /\ cpc' = "empty"
  /\ UNCHANGED <<ring, head, tail, wpc, msg, c, replay>>

-----------------------------------------------------------------------------
Window == (\E m \in Commands : PostMsg(m)) \/ TestFull \/ StoreMsg \/ Publish \/ WrapHead
DoVt   == TestEmpty \/ Fetch \/ Advance \/ Run

Next == Window \/ DoVt

(* The clock thread never stops calling do_vt.                             *)
Spec == Init /\ [][Next]_vars /\ WF_vars(DoVt)

-----------------------------------------------------------------------------
(* Properties. *)

Count   == (head - tail) % RingSize
Posted  == [i \in 1 .. Count |-> ring[(tail + i - 1) % RingSize]]
Current == IF cpc = "run" THEN c ELSE 0

Queue == INSTANCE CommandQueue WITH
           queue <- Posted, current <- Current, Capacity <- RingSize - 1

(* The ring is the queue, every command posted being carried out once and  *)
(* in order, unless do_vt looks at an empty ring between the two stores of *)
(* head: then it runs round the whole ring and repeats old commands.       *)
RingIsQueue == Queue!Init /\ [][replay' \/ Queue!Next \/ UNCHANGED <<Posted, Current>>]_vars

(* A command in the ring is carried out, however many follow it: the clock *)
(* thread reaches the slot of every message that was not dropped.          *)
CommandsCarriedOut ==
  \A s \in Slots :
    (~replay /\ Posted # <<>> /\ tail = s) ~> (replay \/ tail # s)
=============================================================================
