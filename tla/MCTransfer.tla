----------------------------- MODULE MCTransfer -----------------------------
(* Transfer with two gates of the kernel, one of them open to programs.    *)
EXTENDS Transfer

MCGates ==
  {[seg |-> "kernel", rpl |-> 0, dpl |-> d, wide |-> TRUE, err |-> d = 0] : d \in {0, 3}}
=============================================================================
