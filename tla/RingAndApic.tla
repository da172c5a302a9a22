---------------------------- MODULE RingAndApic ----------------------------
(***************************************************************************)
(* Two ways on which something can get lost between the one who announces  *)
(* it and the one who takes it: keys in the ring of the 8042, shared by    *)
(* two threads, and requests in the local APIC.  They share no state: each *)
(* behaviour exercises one of them, "part", while the other rests.         *)
(***************************************************************************)
EXTENDS LocalApic, Sequences

CONSTANTS RingSize, MaxKeys, MaxPlaces, MaxClears           (* KbcRing     *)

VARIABLES
  part,
  rd, wr, ibuf, obf, ui, slot, clk, al, more, pressed, places, clears,
  accepted, got, race                                       (* KbcRing     *)

K == INSTANCE KbcRing

ringVars == <<rd, wr, ibuf, obf, ui, slot, clk, al, more, pressed, places,
              clears, accepted, got, race>>

PartsInit == part \in {"ring", "apic"} /\ K!Init /\ Init

PartsNext ==
  /\ UNCHANGED part
  /\ \/ part = "ring" /\ K!Next /\ UNCHANGED vars
     \/ part = "apic" /\ Next /\ UNCHANGED ringVars

(* The fairness of each part, for the behaviours that exercise it.         *)
PartsFairness ==
  /\ WF_ringVars(part = "ring" /\ K!FinishKey)
  /\ WF_ringVars(part = "ring" /\ K!Poll)
  /\ WF_ringVars(part = "ring" /\ K!FinishRead)
  /\ WF_vars(part = "apic" /\ Accept)
  /\ WF_vars(part = "apic" /\ isrv # 0 /\ Eoi)

PartsSpec ==
  PartsInit /\ [][PartsNext]_<<part, ringVars, vars>> /\ PartsFairness
-----------------------------------------------------------------------------
(* The ring's properties, stated in KbcRing.                               *)

(* The guest reads the keys in order and none twice.                       *)
KeysNeverReplayed == K!KeysNeverReplayed

(* A key that was accepted has been read, is buffered or was cleared.      *)
NothingLost == K!TypeOK /\ K!NothingLost

(* A guest that keeps polling reads every key.                             *)
EveryKeyRead == K!EveryKeyRead
=============================================================================
