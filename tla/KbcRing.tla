------------------------------ MODULE KbcRing ------------------------------
(***************************************************************************)
(* The output buffer of the 8042 (sys/8042.cpp) as its two threads share   *)
(* it without a lock: the window thread stores scan codes (key_hit), the   *)
(* clock thread runs the guest, which polls, reads, receives responses and *)
(* clears.  One action per access to the shared variables.                 *)
(*                                                                         *)
(* Keys are numbered in the order they are pressed; a response is 0.  A    *)
(* build may keep wr in memory between "wr_ptr++" and the wrap around, so  *)
(* that the other thread can see it out of range, or store the wrapped     *)
(* index at once.                                                          *)
(*                                                                         *)
(* Three windows are open to a race, recorded in the history variable:     *)
(*   - the buffer is cleared while key_hit has taken a slot and not yet    *)
(*     stored the new index;                                               *)
(*   - the clock thread looks at wr while it is out of range;              *)
(*   - a read of an empty buffer has fetched an old byte and the first key *)
(*     arrives before it tests for empty: the old byte is taken for it.    *)
(***************************************************************************)
EXTENDS Integers, Sequences

CONSTANTS
  RingSize,
  MaxKeys,       (* bound: keys pressed                                    *)
  MaxPlaces,     (* bound: responses placed                                *)
  MaxClears      (* bound: times the buffer is cleared                     *)

RingAssumption ==
  /\ RingSize \in 2 .. 128
  /\ MaxKeys \in Nat /\ MaxPlaces \in Nat /\ MaxClears \in Nat

VARIABLES
  rd, wr, ibuf,  (* the ring                                               *)
  obf,           (* status bit "output register has data"                  *)
  ui, slot,      (* window thread: program counter, the index it took      *)
  clk, al, more, (* clock thread: program counter, byte read, verdict      *)
  pressed,       (* keys pressed so far                                    *)
  places, clears,
  accepted,      (* history: keys stored, in order                         *)
  got,           (* history: keys the guest read, in order, up to a race   *)
  race           (* history: one of the three windows below was hit        *)

shared == <<rd, wr, ibuf, obf>>
window == <<ui, slot, pressed, accepted>>
clock  == <<clk, al, more, got, places, clears>>
vars   == <<shared, window, clock, race>>

Slots == 0 .. RingSize - 1

TypeOK ==
  /\ rd \in Slots /\ wr \in 0 .. 255
  /\ ibuf \in [Slots -> 0 .. MaxKeys]
  /\ obf \in BOOLEAN /\ more \in BOOLEAN /\ race \in BOOLEAN
  /\ ui \in {"idle", "check", "store", "inc", "test", "sub", "announce"}
  /\ clk \in {"idle", "fetch", "take", "compare", "settle", "place"}
  /\ slot \in Slots
  /\ al \in 0 .. MaxKeys
  /\ pressed \in 0 .. MaxKeys
  /\ accepted \in Seq(1 .. MaxKeys) /\ got \in Seq(1 .. MaxKeys)

Init ==
  /\ rd = 0 /\ wr = 0 /\ ibuf = [s \in Slots |-> 0] /\ obf = FALSE
  /\ ui = "idle" /\ slot = 0 /\ pressed = 0 /\ accepted = <<>>
  /\ clk = "idle" /\ al = 0 /\ more = FALSE /\ got = <<>>
  /\ places = 0 /\ clears = 0
  /\ race = FALSE

Up(i)   == IF i = RingSize - 1 THEN 0 ELSE i + 1
Down(i) == IF i = 0 THEN RingSize - 1 ELSE i - 1

-----------------------------------------------------------------------------
(* Window thread: key_hit. *)

Press ==
  /\ ui = "idle" /\ pressed < MaxKeys
  /\ pressed' = pressed + 1
  /\ ui' = "check"
  /\ UNCHANGED <<shared, slot, accepted, clock, race>>

(* Slip: a check that lets the last free slot be used.                     *)
CheckFullLate ==
  /\ ui = "check"
  /\ ui' = "store"
  /\ UNCHANGED <<shared, slot, pressed, accepted, clock, race>>

CheckFull ==
  /\ ui = "check"
  /\ ui' = IF wr = Down(rd) THEN "announce" ELSE "store"
  /\ UNCHANGED <<shared, slot, pressed, accepted, clock, race>>

(* ibuf[wr_ptr++] = scan_code.  A store outside the ring leaves it alone.  *)
StoreKey ==
  /\ ui = "store"
  /\ IF wr \in Slots
     THEN slot' = wr /\ ibuf' = [ibuf EXCEPT ![wr] = pressed]
     ELSE UNCHANGED <<slot, ibuf>>
  /\ ui' = "inc"
  /\ UNCHANGED <<rd, wr, obf, pressed, accepted, clock, race>>

Advance ==
  /\ ui = "inc"
  /\ \/ wr' = slot + 1 /\ ui' = "test"
     \/ wr' = Up(slot) /\ ui' = "announce"
  /\ accepted' = Append(accepted, pressed)
  /\ race' = (race \/ (clk = "take" /\ rd = wr))
  /\ UNCHANGED <<rd, ibuf, obf, slot, pressed, clock>>

WrapTest ==
  /\ ui = "test"
  /\ ui' = IF wr > RingSize - 1 THEN "sub" ELSE "announce"
  /\ UNCHANGED <<shared, slot, pressed, accepted, clock, race>>

WrapStore ==
  /\ ui = "sub"
  /\ wr' = (wr - RingSize) % 256
  /\ ui' = "announce"
  /\ UNCHANGED <<rd, ibuf, obf, slot, pressed, accepted, clock, race>>

Announce ==
  /\ ui = "announce"
  /\ obf' = TRUE
  /\ ui' = "idle"
  /\ UNCHANGED <<rd, wr, ibuf, slot, pressed, accepted, clock, race>>

-----------------------------------------------------------------------------
(* Clock thread.  Seeing wr past the end of the ring is a race.            *)

SeesWr == race' = (race \/ wr \notin Slots)

(* read_port_64h, by a guest that reads port 60h when it announces data.   *)
Poll ==
  /\ clk = "idle"
  /\ obf' = (rd # wr)
  /\ clk' = IF rd # wr THEN "fetch" ELSE "idle"
  /\ SeesWr
  /\ UNCHANGED <<rd, wr, ibuf, window, al, more, got, places, clears>>

(* A guest that was interrupted reads port 60h without polling.            *)
Interrupted ==
  /\ clk = "idle"
  /\ clk' = "fetch"
  /\ UNCHANGED <<shared, window, al, more, got, places, clears, race>>

(* read_port_60h: fetch the byte, test for empty and advance, compare      *)
(* again, store the verdict in the status.                                 *)
Fetch ==
  /\ clk = "fetch"
  /\ al' = ibuf[rd]
  /\ clk' = "take"
  /\ UNCHANGED <<shared, window, more, got, places, clears, race>>

(* Slip: no test for an empty ring.                                        *)
TakeUnguarded ==
  /\ clk = "take"
  /\ rd' = Up(rd)
  /\ got' = IF al = 0 \/ race THEN got ELSE Append(got, al)
  /\ clk' = "compare"
  /\ SeesWr
  /\ UNCHANGED <<wr, ibuf, obf, window, al, more, places, clears>>

(* Slip: a ring of one byte is taken for empty.                            *)
TakeButLast ==
  /\ clk = "take"
  /\ IF Up(rd) # wr /\ rd # wr
     THEN /\ rd' = Up(rd)
          /\ got' = IF al = 0 \/ race THEN got ELSE Append(got, al)
          /\ clk' = "compare"
     ELSE /\ clk' = "idle"
          /\ UNCHANGED <<rd, got>>
  /\ SeesWr
  /\ UNCHANGED <<wr, ibuf, obf, window, al, more, places, clears>>

Take ==
  /\ clk = "take"
  /\ IF rd # wr
     THEN /\ rd' = Up(rd)
          /\ got' = IF al = 0 \/ race THEN got ELSE Append(got, al)
          /\ clk' = "compare"
     ELSE /\ clk' = "idle"
          /\ UNCHANGED <<rd, got>>
  /\ SeesWr
  /\ UNCHANGED <<wr, ibuf, obf, window, al, more, places, clears>>

Compare ==
  /\ clk = "compare"
  /\ more' = (rd # wr)
  /\ clk' = "settle"
  /\ SeesWr
  /\ UNCHANGED <<shared, window, al, got, places, clears>>

Settle ==
  /\ clk = "settle"
  /\ obf' = more
  /\ clk' = "idle"
  /\ UNCHANGED <<rd, wr, ibuf, window, al, more, got, places, clears, race>>

(* place_to_ibuf: the index first, then the byte.                          *)
PlaceIndex ==
  /\ clk = "idle" /\ places < MaxPlaces
  /\ places' = places + 1
  /\ rd' = Down(rd)
  /\ clk' = "place"
  /\ UNCHANGED <<wr, ibuf, obf, window, al, more, got, clears, race>>

PlaceByte ==
  /\ clk = "place"
  /\ ibuf' = [ibuf EXCEPT ![rd] = 0]
  /\ obf' = TRUE
  /\ clk' = "idle"
  /\ UNCHANGED <<rd, wr, window, al, more, got, places, clears, race>>

(* clear_buf.                                                              *)
ClearBuf ==
  /\ clk = "idle" /\ clears < MaxClears
  /\ clears' = clears + 1
  /\ rd' = 0 /\ wr' = 0 /\ obf' = FALSE
  /\ race' = (race \/ ui \in {"inc", "sub"})
  /\ UNCHANGED <<ibuf, window, clk, al, more, got, places>>

-----------------------------------------------------------------------------
KeyHit == Press \/ CheckFull \/ StoreKey \/ Advance \/ WrapTest \/ WrapStore \/ Announce

Guest ==
  \/ Poll \/ Interrupted \/ Fetch \/ Take \/ Compare \/ Settle
  \/ PlaceIndex \/ PlaceByte \/ ClearBuf

Next == KeyHit \/ Guest

Spec == Init /\ [][Next]_vars

(* The window thread finishes a key_hit it began; the guest polls, and     *)
(* finishes a read it began.                                               *)
FinishKey  == CheckFull \/ StoreKey \/ Advance \/ WrapTest \/ WrapStore \/ Announce
FinishRead == Fetch \/ Take \/ Compare \/ Settle \/ PlaceByte
Fairness == WF_vars(FinishKey) /\ WF_vars(Poll) /\ WF_vars(FinishRead)

FairSpec == Spec /\ Fairness

-----------------------------------------------------------------------------
(* Properties. *)

(* As long as none of the three windows is hit, the guest reads keys in    *)
(* the order they were pressed and none twice, whatever responses are      *)
(* placed or cleared in between and even when they overrun the ring.       *)
KeysNeverReplayed ==
  ~race => \A i \in 1 .. Len(got) - 1 : got[i] < got[i + 1]

(* Under the same condition key_hit stores inside the ring, and without    *)
(* responses and clears no key that it accepted is lost: what the guest    *)
(* read and what the ring holds are the accepted keys, in order.           *)
Count == (wr - rd) % RingSize
Held  == [i \in 1 .. Count |-> ibuf[(rd + i - 1) % RingSize]]

NothingLost ==
  ~race => /\ ui = "store" => wr \in Slots
           /\ places = 0 /\ clears = 0 => got \o Held = accepted

(* Once no more keys come, a guest that keeps polling has read every key   *)
(* that was accepted, although the status bit the two threads both write   *)
(* may miss one for a while, unless it was cleared or overrun by           *)
(* responses, or a window was hit.                                         *)
EveryKeyRead == []<>(got = accepted \/ race \/ places > 0 \/ clears > 0)
=============================================================================
