--------------------------- MODULE CommandQueue ---------------------------
(* What the menu of the window (vt/mainwnd.cpp) is promised by the command *)
(* ring of vt/main_thread.cpp: a bounded queue whose commands the clock    *)
(* thread carries out one by one, in order.                                *)
EXTENDS Naturals, Sequences

CONSTANTS Capacity, Commands

VARIABLES
  queue,       (* posted, not yet taken                                    *)
  current      (* taken and being carried out, or NoCommand                *)

NoCommand == 0    (* not a command                                         *)

Init == queue = <<>> /\ current = NoCommand

Post(c) ==
  /\ Len(queue) < Capacity
  /\ queue' = Append(queue, c)
  /\ UNCHANGED current

Take ==
  /\ queue # <<>> /\ current = NoCommand
  /\ current' = Head(queue)
  /\ queue' = Tail(queue)

Finish ==
  /\ current # NoCommand
  /\ current' = NoCommand
  /\ UNCHANGED queue

Next == (\E c \in Commands : Post(c)) \/ Take \/ Finish

Spec == Init /\ [][Next]_<<queue, current>>
=============================================================================
