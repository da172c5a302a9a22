----------------------------- MODULE MCThreads -----------------------------
(* The system timer and the speaker's, with halves of one bit or two, and  *)
(* small rings.                                                            *)
EXTENDS Threads

(* Every format for counter 0, low bytes for counter 2, read-backs of one, *)
(* of both and of none.                                                    *)
MCWords ==
  [sel : {0}, fmt : 0 .. 3, bit3 : {FALSE}]
    \cup [sel : {2}, fmt : {2}, bit3 : {FALSE}]
    \cup [sel : {3}, fmt : {0, 2}, bit3 : {TRUE}]

(* The guest masks the window's request, or nothing.                       *)
MCMasks == {{}, {1}}

ASSUME PartsAssumption == V!VtAssumption /\ P!ThreadsAssumption /\ K!PathAssumption
=============================================================================
