------------------------------ MODULE Storage ------------------------------
(***************************************************************************)
(* The two kinds of disk controller: the floppy with its DMA channel, and  *)
(* one IDE controller with a disk and a CD drive.  They share no state:    *)
(* each behaviour exercises one of them, "part", while the other rests.    *)
(***************************************************************************)
EXTENDS Floppy

CONSTANTS Words, PacketWords, PerBlock, Cds, Multis, Counts, AllSectors,
          Limits, Wrap                                          (* Ide     *)

VARIABLES
  part,
  status, nien, isel, kind, ptr, ileft, blk, limit, told, multi, image,
  iirq, waiting, quota, owed, from                              (* Ide     *)

I == INSTANCE Ide WITH sel <- isel, left <- ileft, irq <- iirq

ideVars == <<status, nien, isel, kind, ptr, ileft, blk, limit, told, multi,
             image, iirq, waiting, quota, owed, from>>

PartsInit == part \in {"floppy", "ide"} /\ Init /\ I!Init

PartsNext ==
  /\ UNCHANGED part
  /\ \/ part = "floppy" /\ Next /\ UNCHANGED ideVars
     \/ part = "ide" /\ I!Next /\ UNCHANGED vars

(* The fairness of each part, for the behaviours that exercise it.         *)
PartsFairness ==
  /\ WF_vars(part = "floppy" /\ MoveSector)
  /\ WF_ideVars(part = "ide" /\ I!MoveWord)
  /\ WF_ideVars(part = "ide" /\ I!Look)
  /\ WF_ideVars(part = "ide" /\ I!DoAtapi)

PartsSpec ==
  PartsInit /\ [][PartsNext]_<<part, vars, ideVars>> /\ PartsFairness
-----------------------------------------------------------------------------
(* The parts' properties, stated in their modules.                         *)

(* The main status register, the 8237's counts and the two counters of an  *)
(* IDE transfer agree with what the guest was told and has moved.          *)
AccountsAgree ==
  /\ TypeOK /\ PhaseAgrees /\ CountedExactly
  /\ I!TypeOK /\ I!Accounted

(* A transfer ends with everything moved, in the order of the disk, and    *)
(* every block that leaves more to come is announced.                      *)
TransfersRight == TransferRight /\ I!BlocksKept

(* A transfer that can go on ends.                                         *)
TransfersEnd == TransferEnds /\ I!TransferFinishes
=============================================================================
