----------------------------- MODULE KbdBuffer -----------------------------
(***************************************************************************)
(* What the output buffer of the 8042 (sys/8042.cpp) promises the guest,   *)
(* without ring indices: scan codes queue at the back, responses of the    *)
(* controller jump to the front, a read of port 60h takes the front.       *)
(*                                                                         *)
(* The buffer holds Capacity bytes.  A key that finds it full is dropped;  *)
(* a response that finds it full empties it, because the ring of the code  *)
(* cannot tell a full buffer from an empty one.                            *)
(***************************************************************************)
EXTENDS Naturals, Sequences

CONSTANTS
  Capacity,
  Bytes,
  Ack,         (* the keyboard's acknowledge byte                          *)
  Identity     (* the two bytes of the keyboard's identification           *)

VARIABLES
  q,           (* the buffered bytes, next to be read first                *)
  data,        (* the byte the operation returned, 0 when it is no read    *)
  cmd          (* the command byte, which a reset clears                   *)

Init == q = <<>> /\ data = 0 /\ cmd = 0

(* An operation that returns nothing. *)
Silent == data' = 0

PushFront(s, b) == IF Len(s) = Capacity THEN <<>> ELSE <<b>> \o s

Type(k) ==
  /\ Len(q) < Capacity
  /\ q' = Append(q, k)
  /\ Silent
  /\ UNCHANGED cmd

(* A response; the command byte may be written in the same operation.      *)
Respond(b) == q' = PushFront(q, b) /\ Silent
Overflow   == Len(q) = Capacity /\ q' = <<>> /\ Silent

(* The two bytes of the identification: the last one pushed leads.         *)
Identify ==
  /\ q' = PushFront(PushFront(q, Identity[1]), Identity[2])
  /\ Silent
  /\ UNCHANGED cmd

Take ==
  /\ q # <<>>
  /\ data' = Head(q)
  /\ q' = Tail(q)
  /\ UNCHANGED cmd

(* A read of an empty buffer returns an old byte.                          *)
ReadEmpty == q = <<>> /\ data' \in Bytes /\ UNCHANGED <<q, cmd>>

(* A keyboard command that clears the buffer and acknowledges.             *)
ClearAndAck == q' = <<Ack>> /\ Silent /\ UNCHANGED cmd

Reset == q' = <<>> /\ cmd' = 0 /\ Silent

Configure == cmd' \in Bytes /\ Silent /\ UNCHANGED q

Next ==
  \/ \E i \in 1 .. Len(q') : Type(q'[i]) \/ Respond(q'[i])
  \/ Overflow
  \/ Identify
  \/ Take
  \/ ReadEmpty
  \/ ClearAndAck
  \/ Reset
  \/ Configure

Spec == Init /\ [][Next]_<<q, data, cmd>>
=============================================================================
