----------------------------- MODULE MCStorage -----------------------------
(* Tracks of two sectors of two bytes; an IDE controller with sectors of   *)
(* two words, a disk and a CD drive.                                       *)
EXTENDS Storage

(* The parameters of the floppy commands: a multi-track command from the   *)
(* first sector and one of a single track from its last.  Refused commands *)
(* are those for a drive without an image.                                 *)
Par(s, m) ==
  [unit |-> 0, cyl |-> 0, head |-> 0, sn |-> s, eot |-> 2, mt |-> m, good |-> TRUE]
MCParams == {Par(1, TRUE), Par(2, FALSE)}
MCDors == {[sel |-> 0, enable |-> e, int |-> TRUE] : e \in BOOLEAN}

ASSUME PartsAssumption == I!IdeAssumption

(* The guest leaves the 8237 alone while it gives a command or reads the   *)
(* results: only the last byte of a command looks at the 8237, so another  *)
(* order of these steps shows nothing new.  It completes a count before it *)
(* gives a command: no transfer looks at the flip-flop.                    *)
Between ==
  /\ top # 0 /\ ~task => UNCHANGED dma
  /\ top = 0 /\ top' # 0 => ~flip[Ch]

(* The guest sets a block size for the disk alone, a CD drive being read   *)
(* with packets, and a CD is mounted only beside the disk.  Either can be  *)
(* removed in the middle of a transfer.                                    *)
DisksFirst ==
  /\ \A d \in Cds : multi'[d] = multi[d]
  /\ image' \subseteq Cds => image' = {}

MCSpec ==
  /\ PartsInit
  /\ [][PartsNext /\ Between /\ DisksFirst]_<<part, vars, ideVars>>
  /\ PartsFairness
=============================================================================
