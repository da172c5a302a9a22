------------------------------ MODULE Dma8237 ------------------------------
(***************************************************************************)
(* One 8237 DMA controller (sys/8237.cpp): the registers the guest writes, *)
(* and run_dma_task, by which a device moves a piece of its data through a *)
(* channel.  Addresses, pages, modes and the data are left out: the count  *)
(* decides when a transfer ends.                                           *)
(***************************************************************************)
EXTENDS Naturals, FiniteSetsExt

CONSTANTS Channels,   (* channels that are modelled, of 0 .. 3              *)
          Half,       (* values of one byte of a count, 256 in the code     *)
          Holders     (* bits besides the masks that the guest writes       *)

All == 4              (* bit 2 of the command register holds every channel  *)

ASSUME DmaAssumption ==
  /\ Channels \subseteq 0 .. 3 /\ Half \in Nat /\ Half >= 2
  /\ Holders \subseteq Channels \cup {All}

Bytes == 0 .. Half - 1
Count == 0 .. Half * Half - 1
Last  == Half * Half - 1        (* 0xffff: the count of an ended transfer   *)

VARIABLES
  base, count,   (* base_count and current_count of each channel            *)
  low, flip,     (* r and rw_order: the byte that waits for its second half *)
  mask,          (* channels masked                                         *)
  held,          (* channels requested by software, and All when disabled   *)
  tc,            (* channels that reached their terminal count              *)
  moved          (* history: bytes moved since the count was written        *)

dma == <<base, count, low, flip, mask, held, tc, moved>>

DmaTypeOK ==
  /\ base \in [Channels -> Count] /\ count \in [Channels -> Count]
  /\ low \in [Channels -> Bytes] /\ flip \in [Channels -> BOOLEAN]
  /\ mask \subseteq Channels /\ held \subseteq Holders /\ tc \subseteq Channels
  /\ moved \in [Channels -> Count]

(* reset_8237 zeroes both controllers: every channel is open afterwards.   *)
Cleared ==
  /\ base' = [c \in Channels |-> 0] /\ count' = [c \in Channels |-> 0]
  /\ low' = [c \in Channels |-> 0] /\ flip' = [c \in Channels |-> FALSE]
  /\ mask' = {} /\ held' = {} /\ tc' = {}
  /\ moved' = [c \in Channels |-> 0]

DmaInit ==
  /\ base = [c \in Channels |-> 0] /\ count = [c \in Channels |-> 0]
  /\ low = [c \in Channels |-> 0] /\ flip = [c \in Channels |-> FALSE]
  /\ mask = {} /\ held = {} /\ tc = {}
  /\ moved = [c \in Channels |-> 0]

-----------------------------------------------------------------------------

(* write_reg, ports 1, 3, 5 and 7: the low byte waits in r, the high byte  *)
(* loads both counts (r is not read again and shown as 0).                 *)
WriteCount(c, b) ==
  IF flip[c]
  THEN /\ base'  = [base EXCEPT ![c] = b * Half + low[c]]
       /\ count' = [count EXCEPT ![c] = b * Half + low[c]]
       /\ flip'  = [flip EXCEPT ![c] = FALSE]
       /\ low'   = [low EXCEPT ![c] = 0]
       /\ moved' = [moved EXCEPT ![c] = 0]
       /\ UNCHANGED <<mask, held, tc>>
  ELSE /\ low'  = [low EXCEPT ![c] = b]
       /\ flip' = [flip EXCEPT ![c] = TRUE]
       /\ UNCHANGED <<base, count, mask, held, tc, moved>>

(* read_reg of a count: the read turns the same flip-flop.                 *)
ReadCount(c) ==
  /\ flip' = [flip EXCEPT ![c] = ~flip[c]]
  /\ UNCHANGED <<base, count, low, mask, held, tc, moved>>

(* read_reg, port 8: the status gives the terminal counts and clears them. *)
ReadStatus ==
  /\ tc' = {}
  /\ UNCHANGED <<base, count, low, flip, mask, held, moved>>

(* write_reg, ports 8 to 15.  Only the single mask bit clears the terminal *)
(* count of the channel it opens.                                          *)
Control ==
  \/ \E h \in Holders, on \in BOOLEAN :
       /\ held' = IF on THEN held \cup {h} ELSE held \ {h}
       /\ UNCHANGED <<mask, tc, flip>>
  \/ \E c \in Channels, on \in BOOLEAN :
       /\ mask' = IF on THEN mask \cup {c} ELSE mask \ {c}
       /\ tc'   = IF on THEN tc ELSE tc \ {c}
       /\ UNCHANGED <<held, flip>>
  \/ \E m \in SUBSET Channels : mask' = m /\ UNCHANGED <<held, tc, flip>>
  \/ flip' = [c \in Channels |-> FALSE] /\ UNCHANGED <<mask, held, tc>>

(* Everything the guest does at the ports.  A master clear of either       *)
(* controller is a reset of both.                                          *)
DmaPorts ==
  \/ \E c \in Channels : ReadCount(c) \/ \E b \in Bytes : WriteCount(c, b)
  \/ ReadStatus
  \/ Control /\ UNCHANGED <<base, count, low, moved>>
  \/ Cleared

-----------------------------------------------------------------------------
(* run_dma_task.  The bus lock it tries is never held: nothing else takes  *)
(* it.                                                                     *)
Open(c) == held \cap {c, All} = {} /\ c \notin mask

Piece(c, n) == Min({count[c] + 1, n})

(* At most n bytes of the device move; the step ends with tc deciding      *)
(* whether the device is done, so that a terminal count left from an       *)
(* earlier transfer ends this one at once.                                 *)
RunDmaTask(c, n) ==
  IF Open(c)
  THEN LET size == Piece(c, n) IN
       /\ tc'    = IF count[c] < size THEN tc \cup {c} ELSE tc
       /\ count' = [count EXCEPT ![c] = IF @ < size THEN Last ELSE @ - size]
       /\ moved' = [moved EXCEPT ![c] = (@ + size) % (Last + 1)]
       /\ UNCHANGED <<base, low, flip, mask, held>>
  ELSE UNCHANGED dma

(* A channel has moved exactly the bytes its count went down by: nothing   *)
(* is moved twice or counted without being moved, at any chunk size and    *)
(* through the wrap at the end (run_dma_task's min and the 0xffff it       *)
(* leaves).                                                                *)
CountedExactly ==
  \A c \in Channels : (count[c] + moved[c]) % (Last + 1) = base[c]
=============================================================================
