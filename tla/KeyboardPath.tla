--------------------------- MODULE KeyboardPath ---------------------------
(***************************************************************************)
(* A key on its way to the guest: the keyboard controller (Kbc8042)        *)
(* asserts IRQ1 at the master 8259 (Pic8259), which raises INTR; CCPU::step*)
(* acknowledges it between two instructions, and the guest's handler reads *)
(* port 60h and ends the interrupt.  The timer's IRQ0 competes.            *)
(*                                                                         *)
(* The guest is the driver every BIOS has: it initialises the master 8259, *)
(* enables the keyboard interrupt through the command byte, reads one byte *)
(* per interrupt and then writes a non-specific EOI.  It does not expect   *)
(* the old command byte that the controller puts in the buffer.            *)
(***************************************************************************)
EXTENDS Integers, Sequences

CONSTANTS RingSize, Keys

VARIABLES
  rd, wr, ibuf, obf, sysFlag, cmd, lastCmd, lastByte,
  outPort, port92, a20, data, irq,                          (* Kbc8042     *)
  icw1, base, state, ocw1, ocw3, irr, isr, intr, stale,     (* Pic8259     *)
  guest        (* next step of the boot code, or where the guest is        *)

kbc  == <<rd, wr, ibuf, obf, sysFlag, cmd, lastCmd, lastByte,
          outPort, port92, a20, data, irq>>
pic  == <<icw1, base, state, ocw1, ocw3, irr, isr, intr, stale>>
vars == <<kbc, pic, guest>>

EnableKbdInt == 1     (* command byte: interrupt on, interface on          *)
NoMask       == 0
Icws         == <<17, 8, 4, 1>>

Kbc == INSTANCE Kbc8042 WITH
         Commands <- {96}, DataBytes <- {EnableKbdInt}, GateBytes <- {}
Pic == INSTANCE Pic8259 WITH
         NPins <- 3, CmdBytes <- {17, 32}, DataBytes <- {8, 4, 1, NoMask}

Timer    == 0
Keyboard == 1

(* Where the guest is: boot step 1 to 7 (interrupts off), the main program *)
(* (interrupts on), or a handler (interrupts off).                         *)
BootSteps == 1 .. 7
Main      == 8
AtIn60    == 9
AtEoi     == 10

PathAssumption == RingSize \in Nat /\ RingSize >= 2 /\ Keys \subseteq Kbc!Byte

TypeOK == guest \in 1 .. 10 /\ Kbc!TypeOK /\ Pic!TypeOK

Init == Kbc!Init /\ Pic!Init /\ guest = 1

(* Slip: the line is not connected.                                        *)
WireCut == UNCHANGED pic

(* assert_irq(1), when the operation of the controller asserted the line.  *)
Wire == IF irq' THEN Pic!AssertIrq(0, Keyboard) ELSE UNCHANGED pic
-----------------------------------------------------------------------------
KeyPressed(k) == Kbc!KeyHit(k) /\ Wire /\ UNCHANGED guest

TimerTick == Pic!AssertIrq(0, Timer) /\ UNCHANGED <<kbc, guest>>

(* reset(3): both controllers and the processor.                           *)
ResetButton ==
  /\ Kbc!ResetButton
  /\ Pic!Reset
  /\ guest' = 1

-----------------------------------------------------------------------------
(* The guest. *)

BootPic ==
  /\ guest \in 1 .. 5
  /\ CASE guest = 1      -> Pic!WriteCommand(0, Icws[1])
       [] guest \in 2..4 -> Pic!WriteData(0, Icws[guest])
       [] guest = 5      -> Pic!WriteData(0, NoMask)
  /\ guest' = guest + 1
  /\ UNCHANGED kbc

BootKbc ==
  /\ guest \in {6, 7}
  /\ IF guest = 6 THEN Kbc!WritePort64(96) ELSE Kbc!WritePort60(EnableKbdInt)
  /\ Wire
  /\ guest' = IF guest = 6 THEN 7 ELSE Main

(* CCPU::step between two instructions, then the guest's vector table.     *)
Interrupt ==
  /\ guest = Main
  /\ Pic!Inta
  /\ guest' = IF Pic!Vector = 8 + Keyboard THEN AtIn60 ELSE AtEoi
  /\ UNCHANGED kbc

TakeKey == Interrupt /\ guest' = AtIn60

ReadKey ==
  /\ guest = AtIn60
  /\ Kbc!ReadPort60
  /\ Wire
  /\ guest' = AtEoi

EndInterrupt ==
  /\ guest = AtEoi
  /\ Pic!WriteCommand(0, 32)
  /\ guest' = Main
  /\ UNCHANGED kbc

Driver == BootPic \/ BootKbc \/ Interrupt \/ ReadKey \/ EndInterrupt

Next ==
  \/ \E k \in Keys : KeyPressed(k)
  \/ TimerTick
  \/ ResetButton
  \/ Driver

Spec == Init /\ [][Next]_vars

(* The clock thread keeps stepping the guest, the timer leaves it time     *)
(* between ticks (a tick takes at least 256 instructions), and somebody    *)
(* keeps typing.                                                           *)
FairSpec ==
  /\ Spec
  /\ WF_vars(Driver)
  /\ SF_vars(TakeKey)
  /\ \A k \in Keys : WF_vars(KeyPressed(k))

-----------------------------------------------------------------------------
(* Properties. *)

(* The keyboard handler never runs for nothing: when it is about to read   *)
(* port 60h a byte is in the buffer, so it never repeats an old scan code. *)
HandlerFindsByte == guest = AtIn60 => rd # wr

(* In the main program IRQ1 is requested only while a byte is buffered,    *)
(* and then INTR is high: the request, the buffer and the wire to the      *)
(* processor agree, although three handlers of two chips maintain them.    *)
RequestHasByte ==
  guest = Main /\ Keyboard \in irr[0] => rd # wr /\ intr

(* Whatever is first in the buffer is read as long as somebody types on,   *)
(* or the system is reset.                                                 *)
FrontIsRead ==
  \A s \in 0 .. RingSize - 1 :
    guest = Main /\ rd = s /\ rd # wr ~> rd # s \/ guest \in BootSteps

(* sys/8042.cpp:201, where read_port_60h asserts IRQ1 for the bytes that   *)
(* remain: "code for 8259 doesn't clears irq after it is served".  After   *)
(* the handler's EOI the request for a remaining byte still stands.        *)
RemainingByteStaysRequested ==
  [][EndInterrupt /\ rd # wr /\ Keyboard \in isr[0] => Keyboard \in irr'[0]]_vars
=============================================================================
