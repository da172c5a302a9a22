----------------------------- MODULE Timer8253 -----------------------------
(***************************************************************************)
(* The programmable interval timer (sys/8253.cpp).  The clock thread calls *)
(* do_8253 every 256 instructions; between two calls the guest writes      *)
(* control words to port 43h and halves of counters to ports 40h-42h.      *)
(*                                                                         *)
(* A counter is a word of two halves below Base (256 in the code).  What   *)
(* a read returns is left out; which half is next is not.  Of the mode     *)
(* only the format decides anything: all six counting modes run alike.     *)
(***************************************************************************)
EXTENDS Integers

CONSTANTS
  Base,        (* values of one half of a counter                          *)
  Timers,      (* the counters that are modelled, of 0, 1 and 2            *)
  Words        (* control words the guest writes                           *)

(* A control word: counter select, format, and bit 3, the one bit of the   *)
(* mode that a read looks at.                                              *)
ControlWord == [sel : 0 .. 3, fmt : 0 .. 3, bit3 : BOOLEAN]

ASSUME TimerAssumption ==
  /\ Base \in Nat /\ Base >= 2
  /\ 0 \in Timers /\ Timers \subseteq 0 .. 2
  /\ Words \subseteq ControlWord

Half == 0 .. Base - 1
Last == Base * Base - 1     (* 0xffff *)
Word == 0 .. Last

Latch   == 0
MsbOnly == 1
LsbOnly == 2
LsbMsb  == 3

(* Counter select of the read-back command.                                *)
ReadBack == 3

VARIABLES
  count, reload,   (* u and u_to_reload of each counter                    *)
  fmt, rw,         (* mode.wrl_fmt; rw_state: the MSB is next              *)
  port43,          (* the last control word                                *)
  speaker,         (* bit 5 of port 61h                                    *)
  irq,             (* output: the last step asserted IRQ0                  *)
  loaded,          (* history: the counter has been written                *)
  since,           (* history: pulses since it was last loaded             *)
  whole,           (* history: it has passed zero and has not been written
                      since: a period began and nobody disturbed it        *)
  low              (* history: LSB of a pair half written, else Base       *)

regs == <<reload, fmt, rw, port43>>
vars == <<count, regs, speaker, irq, loaded, since, whole, low>>

TypeOK ==
  /\ count \in [Timers -> Word] /\ reload \in [Timers -> Word]
  /\ fmt \in [Timers -> 0 .. 3] /\ rw \in [Timers -> BOOLEAN]
  /\ port43 \in ControlWord
  /\ speaker \in BOOLEAN /\ irq \in BOOLEAN
  /\ loaded \in [Timers -> BOOLEAN]
  /\ since \in [Timers -> Word] /\ whole \in [Timers -> BOOLEAN]
  /\ low \in [Timers -> 0 .. Base]

(* timer[3] = {{0xffff}, ...}: the value to reload starts as 0.            *)
Init ==
  /\ count  = [t \in Timers |-> Last]
  /\ reload = [t \in Timers |-> 0]
  /\ fmt = [t \in Timers |-> Latch] /\ rw = [t \in Timers |-> FALSE]
  /\ port43 = [sel |-> 0, fmt |-> 0, bit3 |-> FALSE]
  /\ speaker = FALSE /\ irq = FALSE
  /\ loaded = [t \in Timers |-> FALSE]
  /\ since  = [t \in Timers |-> 0]
  /\ whole  = [t \in Timers |-> FALSE]
  /\ low    = [t \in Timers |-> Base]

-----------------------------------------------------------------------------

(* do_8253: do_pulse of every counter.                                     *)
Pulse ==
  /\ count' = [t \in Timers |-> IF count[t] # 0 THEN count[t] - 1 ELSE reload[t]]
  /\ since' = [t \in Timers |-> IF count[t] # 0 THEN since[t] + 1 ELSE 0]
  /\ whole' = [t \in Timers |-> whole[t] \/ count[t] = 0]
  /\ irq' = (count[0] = 0)
  /\ speaker' = IF 2 \in Timers /\ count[2] = 0 THEN ~speaker ELSE speaker
  /\ UNCHANGED <<regs, loaded, low>>

(* io_8253, a write to port 43h.                                           *)
WriteControl(w) ==
  /\ w.sel \in Timers \cup {ReadBack}
  /\ port43' = w
  /\ IF w.sel = ReadBack
     THEN UNCHANGED <<fmt, rw, low>>
     ELSE /\ fmt' = [fmt EXCEPT ![w.sel] = w.fmt]
          /\ rw'  = [rw EXCEPT ![w.sel] = FALSE]
          /\ low' = [low EXCEPT ![w.sel] = Base]
  /\ irq' = FALSE
  /\ UNCHANGED <<count, reload, speaker, loaded, since, whole>>

WithLsb(w, b) == (w \div Base) * Base + b
WithMsb(w, b) == b * Base + (w % Base)

(* Slip: a value of 0 is taken as it is.                                   *)
AsIs(w) == w

(* "if(u_to_reload.count==0) u_to_reload.count=0xffff"                     *)
NonZero(w) == IF w = 0 THEN Last ELSE w

(* What a write of b to counter t makes of the value to reload.            *)
Written(t, b) ==
  CASE fmt[t] = LsbOnly           -> WithLsb(reload[t], b)
    [] fmt[t] = MsbOnly           -> WithMsb(reload[t], b)
    [] fmt[t] = LsbMsb /\ rw[t]   -> WithMsb(reload[t], b)
    [] fmt[t] = LsbMsb /\ ~rw[t]  -> WithLsb(reload[t], b)
    [] OTHER                      -> count[t]

(* write_timer: every write, also of one half, restarts the counter with   *)
(* the new value, in all modes.                                            *)
WriteTimer(t, b) ==
  /\ reload' = [reload EXCEPT ![t] = NonZero(Written(t, b))]
  /\ count'  = [count EXCEPT ![t] = NonZero(Written(t, b))]
  /\ rw'  = [rw EXCEPT ![t] = IF fmt[t] = LsbMsb THEN ~@ ELSE @]
  /\ low' = [low EXCEPT ![t] = IF fmt[t] = LsbMsb /\ ~rw[t] THEN b ELSE Base]
  /\ speaker' = (speaker /\ t # 2)
  /\ loaded' = [loaded EXCEPT ![t] = TRUE]
  /\ since'  = [since EXCEPT ![t] = 0]
  /\ whole'  = [whole EXCEPT ![t] = FALSE]
  /\ irq' = FALSE
  /\ UNCHANGED <<fmt, port43>>

(* read_timer answers a read-back of this counter with its mode: the code  *)
(* tests bit 3 + t of the control word.                                    *)
AnswersStatus(t) ==
  /\ port43.sel = ReadBack
  /\ \/ t = 0 /\ port43.bit3
     \/ t = 1 /\ port43.fmt \in {1, 3}
     \/ t = 2 /\ port43.fmt \in {2, 3}

(* Slip: a read in the latch format copies as a write does.                *)
ReadTimerLatches(t) ==
  /\ IF ~AnswersStatus(t) /\ fmt[t] \in {Latch, LsbMsb}
     THEN rw' = [rw EXCEPT ![t] = ~@] /\ low' = [low EXCEPT ![t] = Base]
     ELSE UNCHANGED <<rw, low>>
  /\ reload' = IF fmt[t] = Latch THEN [reload EXCEPT ![t] = NonZero(count[t])] ELSE reload
  /\ irq' = FALSE
  /\ UNCHANGED <<count, fmt, port43, speaker, loaded, since, whole>>

(* Reads and writes share rw_state.                                        *)
ReadTimer(t) ==
  /\ IF ~AnswersStatus(t) /\ fmt[t] \in {Latch, LsbMsb}
     THEN rw' = [rw EXCEPT ![t] = ~@] /\ low' = [low EXCEPT ![t] = Base]
     ELSE UNCHANGED <<rw, low>>
  /\ irq' = FALSE
  /\ UNCHANGED <<count, reload, fmt, port43, speaker, loaded, since, whole>>

(* Port 61h (sys/8042.cpp): a write clears the bit.                        *)
WritePort61 ==
  /\ speaker' = FALSE
  /\ irq' = FALSE
  /\ UNCHANGED <<count, regs, loaded, since, whole, low>>

Access(t) == ReadTimer(t) \/ \E b \in Half : WriteTimer(t, b)

Next ==
  \/ Pulse
  \/ \E w \in Words : WriteControl(w)
  \/ \E t \in Timers : Access(t)
  \/ WritePort61

Spec == Init /\ [][Next]_vars

(* The clock thread never stops.                                           *)
FairSpec == Spec /\ WF_vars(Pulse)

-----------------------------------------------------------------------------
(* Properties. *)

(* No interrupt storm: once a counter was written in any way, halves and   *)
(* latches included, its value to reload is not 0, so that two requests of *)
(* IRQ0 never come in consecutive pulses.  (Before the first write it is 0 *)
(* and after the first 65536 pulses they do.)                              *)
NoStorm == \A t \in Timers : loaded[t] => reload[t] # 0

(* The period: a counter that has passed zero and has not been written     *)
(* since has at every moment counted down exactly the pulses since then,   *)
(* so that it comes back to zero when they are as many as the last value   *)
(* written, however the guest reads, latches and reprograms its format in  *)
(* between.  A period in which the counter is written is left open: the    *)
(* comment at 8253.cpp:51 lets it run to its end, the code restarts it.    *)
PeriodKept == \A t \in Timers : whole[t] => count[t] + since[t] = reload[t]
=============================================================================
