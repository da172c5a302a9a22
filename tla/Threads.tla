------------------------------ MODULE Threads ------------------------------
(***************************************************************************)
(* What the clock thread and the window thread do to each other, and what  *)
(* paces them: the system timer, the ring of commands, the master 8259     *)
(* with both threads inside it, and the way of a key from the window to    *)
(* the guest's handler.  The four share no state here: each behaviour      *)
(* exercises one of them, "part", while the others rest.                   *)
(***************************************************************************)
EXTENDS Timer8253, Sequences

CONSTANTS
  CommandSlots, Commands,                                   (* VtRing       *)
  NPins, ClockPins, WindowPins, Masks,                      (* PicThreads   *)
  KeySlots, Keys                                            (* KeyboardPath *)

VARIABLES
  part,
  ring, head, tail, wpc, msg, cpc, c, replay,               (* VtRing       *)
  irr, isr, ocw1, intr, pc, op, old, verdict, alone, mixed, (* PicThreads   *)
  rd, wr, ibuf, obf, sysFlag, cmd, lastCmd, lastByte, outPort, port92,
  a20, data, kirq, icw1, base, state, kocw1, ocw3, kirr, kisr, kintr, stale,
  guest                                                     (* KeyboardPath *)

V == INSTANCE VtRing WITH RingSize <- CommandSlots
P == INSTANCE PicThreads
K == INSTANCE KeyboardPath WITH
       RingSize <- KeySlots, irq <- kirq,
       ocw1 <- kocw1, irr <- kirr, isr <- kisr, intr <- kintr

commandVars == <<ring, head, tail, wpc, msg, cpc, c, replay>>
picVars == <<irr, isr, ocw1, intr, pc, op, old, verdict, alone, mixed>>
keyVars == <<rd, wr, ibuf, obf, sysFlag, cmd, lastCmd, lastByte, outPort,
             port92, a20, data, kirq, icw1, base, state, kocw1, ocw3, kirr,
             kisr, kintr, stale, guest>>

Parts == {"timer", "commands", "pic", "key"}

PartsInit == part \in Parts /\ Init /\ V!Init /\ P!Init /\ K!Init

PartsNext ==
  /\ UNCHANGED part
  /\ \/ /\ part = "timer" /\ Next
        /\ UNCHANGED <<commandVars, picVars, keyVars>>
     \/ /\ part = "commands" /\ V!Next
        /\ UNCHANGED <<vars, picVars, keyVars>>
     \/ /\ part = "pic" /\ P!Next
        /\ UNCHANGED <<vars, commandVars, keyVars>>
     \/ /\ part = "key" /\ K!Next
        /\ UNCHANGED <<vars, commandVars, picVars>>

(* The fairness of each part, for the behaviours that exercise it.         *)
PartsFairness ==
  /\ WF_commandVars(part = "commands" /\ V!DoVt)
  /\ \A t \in P!Threads : WF_picVars(part = "pic" /\ P!Continue(t))
  /\ \A p \in ClockPins : SF_picVars(part = "pic" /\ P!Tick(p))
  /\ SF_picVars(part = "pic" /\ P!SeeIntr("clock"))
  /\ SF_picVars(part = "pic" /\ P!Retire)
  /\ WF_keyVars(part = "key" /\ K!Driver)
  /\ SF_keyVars(part = "key" /\ K!TakeKey)
  /\ \A k \in Keys : WF_keyVars(part = "key" /\ K!KeyPressed(k))

PartsSpec ==
  /\ PartsInit /\ [][PartsNext]_<<part, vars, commandVars, picVars, keyVars>>
  /\ PartsFairness
-----------------------------------------------------------------------------
(* The parts' properties, stated in their modules.                         *)

(* The ring of commands is a bounded queue, unless do_vt looks at an empty *)
(* ring between the two stores of head.                                    *)
RingIsQueue == V!RingIsQueue

(* A command in the ring is carried out.                                   *)
CommandsCarriedOut == V!CommandsCarriedOut

(* One undisturbed fresh_int repairs whatever interleaving went before.    *)
AgreesUnlessMixed == P!TypeOK /\ P!AgreesUnlessMixed

(* A request that an interleaving left without INTR is not stranded.       *)
StrandedRequestHeals == P!StrandedRequestHeals

(* The keyboard's request, the buffer and INTR agree, and no handler runs  *)
(* for nothing.                                                            *)
RequestsMatchBytes == K!TypeOK /\ K!HandlerFindsByte /\ K!RequestHasByte

(* Whatever is first in the buffer is read as long as somebody types on.   *)
FrontIsRead == K!FrontIsRead
=============================================================================
