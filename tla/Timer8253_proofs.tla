-------------------------- MODULE Timer8253_proofs --------------------------
(***************************************************************************)
(* Proofs about Timer8253 for every size of a counter, every choice of     *)
(* counters and every set of control words.  The inductive invariant adds  *)
(* to the properties that no run of a counter is longer than a word, also  *)
(* one that began at power on or with a write.                             *)
(***************************************************************************)
EXTENDS Timer8253, TLAPS

RunsAreWords == \A t \in Timers : count[t] + since[t] <= Last

IInv == TypeOK /\ NoStorm /\ PeriodKept /\ RunsAreWords

(* A word is made of any two halves: the arithmetic of bytes in a counter. *)
LEMMA HalvesMakeWord ==
  ASSUME NEW m \in Half, NEW l \in Half
  PROVE  m * Base + l \in Word
<1>1. /\ Base \in Nat /\ Base >= 2
      /\ m \in Nat /\ m <= Base - 1 /\ l \in Nat /\ l <= Base - 1
  BY TimerAssumption DEF Half
<1>2. m * Base <= (Base - 1) * Base
  BY <1>1
<1>3. (Base - 1) * Base = Base * Base - Base
  BY <1>1
<1>4. m * Base \in Nat /\ Base * Base \in Nat
  BY <1>1
<1> QED
  BY <1>1, <1>2, <1>3, <1>4 DEF Word, Last

(* A word has two halves.                                                  *)
LEMMA WordHasHalves ==
  ASSUME NEW w \in Word
  PROVE  w \div Base \in Half /\ w % Base \in Half
<1>1. Base \in Nat /\ Base >= 2 /\ w \in Nat /\ w < Base * Base
  BY TimerAssumption DEF Word, Last
<1> DEFINE q == w \div Base
           r == w % Base
<1>2. q \in Int /\ r \in 0 .. Base - 1 /\ w = Base * q + r
  BY <1>1
<1> HIDE DEF q, r
<1>3. q >= 0
  <2> SUFFICES ASSUME q <= -1 PROVE FALSE
    BY <1>2
  <2>1. Base * q <= Base * (-1)
    BY <1>1, <1>2
  <2> QED
    BY <1>1, <1>2, <2>1
<1>4. q < Base
  <2> SUFFICES ASSUME q >= Base PROVE FALSE
    BY <1>1, <1>2
  <2>1. Base * q >= Base * Base
    BY <1>1, <1>2
  <2> QED
    BY <1>1, <1>2, <2>1
<1> QED
  BY <1>1, <1>2, <1>3, <1>4 DEF Half, q, r

(* The longest period is a word, and not zero.                             *)
LEMMA LastIsWord == Last \in Word /\ Last # 0
<1>1. Base \in Nat /\ Base >= 2
  BY TimerAssumption
<1>2. Base * Base >= 2 * Base /\ Base * Base \in Nat
  BY <1>1
<1> QED
  BY <1>1, <1>2 DEF Last, Word

(* Whatever the format, a write makes a word of the value to reload, and   *)
(* never zero.                                                             *)
LEMMA WrittenIsWord ==
  ASSUME TypeOK, NEW t \in Timers, NEW b \in Half
  PROVE  NonZero(Written(t, b)) \in Word \ {0}
<1>1. reload[t] \in Word /\ count[t] \in Word
  BY DEF TypeOK
<1>2. WithLsb(reload[t], b) \in Word /\ WithMsb(reload[t], b) \in Word
  BY <1>1, WordHasHalves, HalvesMakeWord DEF WithLsb, WithMsb
<1>3. Written(t, b) \in Word
  BY <1>1, <1>2 DEF Written
<1> QED
  BY <1>3, LastIsWord DEF NonZero

(* No counter has been written at the start, and the longest run is ahead. *)
LEMMA InitIInv == Init => IInv
<1> SUFFICES ASSUME Init PROVE IInv
  OBVIOUS
<1>1. 0 \in Word /\ Last \in Word /\ Last + 0 = Last /\ Last <= Last
  BY LastIsWord DEF Word
<1>2. TypeOK
  <2>1. Base \in 0 .. Base
    BY TimerAssumption
  <2>2. port43 \in ControlWord
    BY DEF Init, ControlWord
  <2>3. count \in [Timers -> Word] /\ reload \in [Timers -> Word] /\ since \in [Timers -> Word]
    BY <1>1 DEF Init
  <2>4. fmt \in [Timers -> 0 .. 3] /\ low \in [Timers -> 0 .. Base]
    BY <2>1 DEF Init, Latch
  <2>5. rw \in [Timers -> BOOLEAN] /\ loaded \in [Timers -> BOOLEAN]
    BY DEF Init
  <2>7. whole \in [Timers -> BOOLEAN]
    BY DEF Init
  <2>6. speaker \in BOOLEAN /\ irq \in BOOLEAN
    BY DEF Init
  <2> QED
    BY <2>2, <2>3, <2>4, <2>5, <2>6, <2>7 DEF TypeOK
<1> QED
  BY <1>1, <1>2 DEF Init, IInv, NoStorm, PeriodKept, RunsAreWords

(* One pulse trades a count for a pulse elapsed; at zero both start over.  *)
LEMMA PulseStep == IInv /\ Pulse => IInv'
<1> SUFFICES ASSUME IInv, Pulse PROVE IInv'
  OBVIOUS
<1>1. \A t \in Timers :
        /\ count[t] \in Word /\ reload[t] \in Word /\ since[t] \in Word
        /\ count[t] + since[t] <= Last
  BY DEF IInv, TypeOK, RunsAreWords
<1>2. \A t \in Timers :
        \/ /\ count[t] # 0
           /\ count'[t] = count[t] - 1 /\ since'[t] = since[t] + 1 /\ whole'[t] = whole[t]
        \/ /\ count[t] = 0
           /\ count'[t] = reload[t] /\ since'[t] = 0
  BY DEF Pulse, IInv, TypeOK
<1>3. UNCHANGED <<reload, fmt, rw, port43, loaded, low>>
  BY DEF Pulse, regs
<1>4. Last \in Nat
  BY LastIsWord DEF Word
<1>5. \A t \in Timers : count'[t] \in Word /\ since'[t] \in Word
  BY <1>1, <1>2, <1>4 DEF Word
<1>6. TypeOK'
  <2>1. count' \in [Timers -> Word] /\ since' \in [Timers -> Word]
    BY <1>5 DEF Pulse
  <2>2. speaker' \in BOOLEAN /\ irq' \in BOOLEAN /\ whole' \in [Timers -> BOOLEAN]
    BY DEF Pulse, IInv, TypeOK
  <2> QED
    BY <2>1, <2>2, <1>3 DEF IInv, TypeOK
<1>7. NoStorm'
  BY <1>3 DEF IInv, NoStorm
<1>8. PeriodKept'
  BY <1>1, <1>2, <1>3, <1>4 DEF IInv, PeriodKept, Word
<1>9. RunsAreWords'
  BY <1>1, <1>2, <1>3, <1>4 DEF IInv, RunsAreWords, Word
<1> QED
  BY <1>6, <1>7, <1>8, <1>9 DEF IInv

(* A write restarts its counter with the new value and no other one.       *)
LEMMA WriteStep ==
  ASSUME IInv, NEW t \in Timers, NEW b \in Half, WriteTimer(t, b)
  PROVE  IInv'
<1> DEFINE new == NonZero(Written(t, b))
<1>1. new \in Word \ {0}
  BY WrittenIsWord DEF IInv
<1> HIDE DEF new
<1>2. /\ reload' = [reload EXCEPT ![t] = new]
      /\ count'  = [count EXCEPT ![t] = new]
      /\ since'  = [since EXCEPT ![t] = 0]
      /\ loaded' = [loaded EXCEPT ![t] = TRUE]
      /\ whole'  = [whole EXCEPT ![t] = FALSE]
  BY DEF WriteTimer, new
<1>3. 0 \in Word
  BY LastIsWord DEF Word
<1>4. TypeOK'
  <2>1. rw' \in [Timers -> BOOLEAN]
    BY DEF WriteTimer, IInv, TypeOK
  <2>2. low' \in [Timers -> 0 .. Base]
    BY TimerAssumption DEF WriteTimer, IInv, TypeOK, Half
  <2>3. speaker' \in BOOLEAN /\ irq' \in BOOLEAN /\ UNCHANGED <<fmt, port43>>
    BY DEF WriteTimer, IInv, TypeOK
  <2> QED
    BY <1>1, <1>2, <1>3, <2>1, <2>2, <2>3 DEF IInv, TypeOK
<1>5. NoStorm'
  BY <1>1, <1>2 DEF IInv, TypeOK, NoStorm
<1>6. PeriodKept'
  BY <1>1, <1>2 DEF IInv, TypeOK, PeriodKept, Word
<1>7. RunsAreWords'
  BY <1>1, <1>2 DEF IInv, TypeOK, RunsAreWords, Word
<1> QED
  BY <1>4, <1>5, <1>6, <1>7 DEF IInv

(* Nothing else moves a counter or the value it reloads.                   *)
LEMMA OtherSteps ==
  ASSUME IInv,
         UNCHANGED vars \/ WritePort61 \/ (\E t \in Timers : ReadTimer(t))
           \/ (\E w \in Words : WriteControl(w))
  PROVE  IInv'
<1>1. UNCHANGED <<count, reload, loaded, since, whole>>
  BY DEF vars, regs, WritePort61, ReadTimer, WriteControl
<1>2. TypeOK'
  <2>1. CASE UNCHANGED vars
    BY <2>1 DEF vars, regs, IInv, TypeOK
  <2>2. CASE WritePort61
    BY <2>2 DEF WritePort61, regs, IInv, TypeOK
  <2>3. ASSUME NEW t \in Timers, ReadTimer(t) PROVE TypeOK'
    <3>1. Base \in 0 .. Base
      BY TimerAssumption
    <3>2. rw' \in [Timers -> BOOLEAN] /\ low' \in [Timers -> 0 .. Base]
      BY <2>3, <3>1 DEF ReadTimer, IInv, TypeOK
    <3>3. irq' = FALSE /\ UNCHANGED <<fmt, port43, speaker>>
      BY <2>3 DEF ReadTimer
    <3> QED
      BY <1>1, <3>2, <3>3 DEF IInv, TypeOK
  <2>4. ASSUME NEW w \in Words, WriteControl(w) PROVE TypeOK'
    <3>1. Base \in 0 .. Base /\ w \in ControlWord
      BY TimerAssumption
    <3>2. w.fmt \in 0 .. 3
      BY <3>1 DEF ControlWord
    <3>3. /\ rw \in [Timers -> BOOLEAN] /\ low \in [Timers -> 0 .. Base]
          /\ fmt \in [Timers -> 0 .. 3]
      BY DEF IInv, TypeOK
    <3>4. \/ rw' = rw /\ low' = low /\ fmt' = fmt
          \/ /\ rw' = [rw EXCEPT ![w.sel] = FALSE]
             /\ low' = [low EXCEPT ![w.sel] = Base]
             /\ fmt' = [fmt EXCEPT ![w.sel] = w.fmt]
      BY <2>4 DEF WriteControl
    <3>5. /\ rw' \in [Timers -> BOOLEAN] /\ low' \in [Timers -> 0 .. Base]
          /\ fmt' \in [Timers -> 0 .. 3]
      BY <3>1, <3>2, <3>3, <3>4
    <3>6. port43' \in ControlWord /\ irq' = FALSE /\ UNCHANGED speaker
      BY <2>4, <3>1 DEF WriteControl
    <3> QED
      BY <1>1, <3>5, <3>6 DEF IInv, TypeOK
  <2> QED
    BY <2>1, <2>2, <2>3, <2>4
<1> QED
  BY <1>1, <1>2 DEF IInv, NoStorm, PeriodKept, RunsAreWords

(* The invariant of every behaviour of the timer.                          *)
LEMMA Invariance == Spec => []IInv
<1>1. IInv /\ [Next]_vars => IInv'
  BY PulseStep, WriteStep, OtherSteps DEF Next, Access
<1> QED
  BY InitIInv, <1>1, PTL DEF Spec

(* write_timer, do_pulse: counters stay words, whatever halves are loaded. *)
THEOREM TypeCorrect == Spec => []TypeOK
<1>1. IInv => TypeOK
  BY DEF IInv
<1> QED
  BY Invariance, <1>1, PTL

(* "if(u_to_reload.count==0) u_to_reload.count=0xffff": no counter that    *)
(* was ever written asks for an interrupt in every pulse.                  *)
THEOREM NoInterruptStorm == Spec => []NoStorm
<1>1. IInv => NoStorm
  BY DEF IInv
<1> QED
  BY Invariance, <1>1, PTL

(* do_pulse: in a period nobody disturbs, the counter and the pulses since *)
(* it began add up to the last value written.                              *)
THEOREM CountsEveryPulse == Spec => []PeriodKept
<1>1. IInv => PeriodKept
  BY DEF IInv
<1> QED
  BY Invariance, <1>1, PTL

(* do_pulse(0): a period of counter 0 that nobody disturbs ends with IRQ0  *)
(* exactly reload + 1 pulses after the IRQ0 it began with, and not before. *)
THEOREM InterruptEndsPeriod ==
  Spec => [][Pulse /\ whole[0] => (irq' <=> since[0] = reload[0])]_vars
<1>1. IInv /\ [Next]_vars => [Pulse /\ whole[0] => (irq' <=> since[0] = reload[0])]_vars
  <2> SUFFICES ASSUME IInv, Pulse, whole[0] PROVE irq' <=> since[0] = reload[0]
    OBVIOUS
  <2>1. 0 \in Timers
    BY TimerAssumption
  <2>2. count[0] + since[0] = reload[0] /\ since[0] \in Nat /\ count[0] \in Nat
    BY <2>1 DEF IInv, PeriodKept, TypeOK, Word
  <2>3. irq' <=> count[0] = 0
    BY DEF Pulse
  <2> QED
    BY <2>2, <2>3
<1> QED
  BY Invariance, <1>1, PTL DEF Spec
=============================================================================
