------------------------------ MODULE Kbc8042 ------------------------------
(***************************************************************************)
(* The keyboard controller of the simulated PC (sys/8042.cpp), the A20     *)
(* gate it shares with port 92h (sys/a20.cpp), and what a system reset     *)
(* (sys/reset.cpp) does to them.  Every handler is one action here;        *)
(* KbcRing splits the ones that share the ring buffer between threads.     *)
(*                                                                         *)
(* Bytes are numbers.  Registers that are written and never read (aux      *)
(* port, LEDs, typematic rate, scan code set, security flag) and port 61h  *)
(* are left out.  The code has RingSize = 16.                              *)
(***************************************************************************)
EXTENDS Integers, Sequences

CONSTANTS
  RingSize,    (* slots of ibuf                                            *)
  Keys,        (* scan codes the window delivers                           *)
  Commands,    (* bytes the guest writes to port 64h                       *)
  DataBytes,   (* bytes the guest writes to port 60h                       *)
  GateBytes    (* bytes the guest writes to port 92h                       *)

Byte == 0 .. 255

ASSUME KbcAssumption ==
  /\ RingSize \in Nat /\ RingSize >= 2
  /\ Keys \subseteq Byte
  /\ Commands \subseteq Byte
  /\ DataBytes \subseteq Byte
  /\ GateBytes \subseteq Byte

VARIABLES
  rd, wr, ibuf,   (* the ring of bytes for the guest                       *)
  obf,            (* status bit 0, "output register has data"              *)
  sysFlag,        (* status bit 2, system flag                             *)
  cmd,            (* cmd_register, the 8042 command byte                   *)
  lastCmd,        (* last_command: decides what the next data byte means   *)
  lastByte,       (* last_wr_port60h: the keyboard command in progress     *)
  outPort,        (* output_port_8042                                      *)
  port92,         (* fast A20 and init register                            *)
  a20,            (* cpu[0].mmu.a20m lets address bit 20 through           *)
  data,           (* output: the byte a read of port 60h returns, else 0   *)
  irq             (* output: the last operation asserted IRQ1              *)

ring == <<rd, wr, ibuf>>
gate == <<outPort, port92, a20>>
vars == <<rd, wr, ibuf, obf, sysFlag, cmd, lastCmd, lastByte,
          outPort, port92, a20, data, irq>>

Slots == 0 .. RingSize - 1

Bit(b, n)    == (b \div 2^n) % 2 = 1
SetBit(b, n) == IF Bit(b, n) THEN b ELSE b + 2^n
ClrBit(b, n) == IF Bit(b, n) THEN b - 2^n ELSE b

IntEnabled(c)  == Bit(c, 0)
KbdDisabled(c) == Bit(c, 4)

Ack == 250

TypeOK ==
  /\ rd \in Slots /\ wr \in Slots
  /\ ibuf \in [Slots -> Byte]
  /\ obf \in BOOLEAN /\ sysFlag \in BOOLEAN
  /\ cmd \in Byte /\ lastCmd \in Byte /\ lastByte \in Byte
  /\ outPort \in Byte /\ port92 \in Byte /\ a20 \in BOOLEAN
  /\ data \in Byte
  /\ irq \in BOOLEAN

(* Zero-initialised globals, but output_port_8042 = 1 and a20m = -1.       *)
Init ==
  /\ rd = 0 /\ wr = 0 /\ ibuf = [s \in Slots |-> 0]
  /\ obf = FALSE /\ sysFlag = FALSE
  /\ cmd = 0 /\ lastCmd = 0 /\ lastByte = 0
  /\ outPort = 1 /\ port92 = 0 /\ a20 = TRUE
  /\ data = 0
  /\ irq = FALSE

-----------------------------------------------------------------------------
(* The ring. *)

Up(i)   == IF i = RingSize - 1 THEN 0 ELSE i + 1
Down(i) == IF i = 0 THEN RingSize - 1 ELSE i - 1

(* The bytes from rd up to wr, in the order they will be read.             *)
Count    == (wr - rd) % RingSize
Contents == [i \in 1 .. Count |-> ibuf[(rd + i - 1) % RingSize]]

(* place_to_ibuf: the byte goes in front of everything buffered, and no    *)
(* check is made that there is room.                                       *)
Place(b) ==
  /\ rd'   = Down(rd)
  /\ ibuf' = [ibuf EXCEPT ![Down(rd)] = b]
  /\ obf'  = TRUE
  /\ irq'  = IntEnabled(cmd)
  /\ UNCHANGED wr

PlaceTwice(b, c) ==
  /\ rd'   = Down(Down(rd))
  /\ ibuf' = [ibuf EXCEPT ![Down(rd)] = b, ![Down(Down(rd))] = c]
  /\ obf'  = TRUE
  /\ irq'  = IntEnabled(cmd)
  /\ UNCHANGED wr

(* clear_buf, then the acknowledge byte.                                   *)
ClearThenPlace(b) ==
  /\ rd'   = RingSize - 1
  /\ wr'   = 0
  /\ ibuf' = [ibuf EXCEPT ![RingSize - 1] = b]
  /\ obf'  = TRUE
  /\ irq'  = IntEnabled(cmd)

Full == wr = Down(rd)

(* key_hit: dropped while the interface is disabled; a full buffer only    *)
(* asserts IRQ1 once more.                                                 *)
KeyHit(k) ==
  /\ ~KbdDisabled(cmd)
  /\ IF Full
     THEN UNCHANGED ring
     ELSE /\ ibuf' = [ibuf EXCEPT ![wr] = k]
          /\ wr' = Up(wr)
          /\ UNCHANGED rd
  /\ obf' = TRUE
  /\ irq' = IntEnabled(cmd)
  /\ data' = 0
  /\ UNCHANGED <<sysFlag, cmd, lastCmd, lastByte, gate>>

(* Slip: the byte is fetched after the index has moved.                    *)
ReadPort60Late ==
  /\ rd' = IF rd # wr THEN Up(rd) ELSE rd
  /\ data' = ibuf[rd']
  /\ obf' = IF rd # wr THEN Up(rd) # wr ELSE obf
  /\ irq' = (rd # wr /\ Up(rd) # wr /\ IntEnabled(cmd))
  /\ UNCHANGED <<wr, ibuf, sysFlag, cmd, lastCmd, lastByte, gate>>

(* Slip: IRQ1 is not asserted again for the bytes that remain.             *)
ReadPort60Quiet ==
  /\ data' = ibuf[rd]
  /\ rd' = IF rd # wr THEN Up(rd) ELSE rd
  /\ obf' = IF rd # wr THEN Up(rd) # wr ELSE obf
  /\ irq' = FALSE
  /\ UNCHANGED <<wr, ibuf, sysFlag, cmd, lastCmd, lastByte, gate>>

(* read_port_60h: an empty ring still returns the byte under rd.           *)
ReadPort60 ==
  /\ data' = ibuf[rd]
  /\ IF rd # wr
     THEN /\ rd' = Up(rd)
          /\ obf' = (Up(rd) # wr)
          /\ irq' = (Up(rd) # wr /\ IntEnabled(cmd))
     ELSE /\ irq' = FALSE
          /\ UNCHANGED <<rd, obf>>
  /\ UNCHANGED <<wr, ibuf, sysFlag, cmd, lastCmd, lastByte, gate>>

ReadPort64 ==
  /\ obf' = (rd # wr)
  /\ irq' = FALSE /\ data' = 0
  /\ UNCHANGED <<ring, sysFlag, cmd, lastCmd, lastByte, gate>>

-----------------------------------------------------------------------------
(* A20 gate and reset. *)

A20Open(p92, out) == Bit(p92, 1) \/ Bit(out, 1)

(* reset(): reset_8042 and reset_a20, with the output port out.            *)
ResetWith(out) ==
  /\ rd' = 0 /\ wr' = 0
  /\ obf' = FALSE /\ sysFlag' = FALSE
  /\ cmd' = 0
  /\ irq' = FALSE
  /\ UNCHANGED <<ibuf, lastByte>>

(* Slip: the reset clears port 92h and does not call a20_sync.             *)
ResetButtonNoSync ==
  /\ ResetWith(outPort)
  /\ port92' = 0
  /\ data' = 0
  /\ UNCHANGED <<lastCmd, outPort, a20>>

(* The reset item of the window's menu.                                    *)
ResetButton ==
  /\ ResetWith(outPort)
  /\ port92' = 0
  /\ a20' = A20Open(0, outPort)
  /\ data' = 0
  /\ UNCHANGED <<lastCmd, outPort>>

(* cpu_if: bit 0 of port 92h resets the system before the byte is stored.  *)
WritePort92(b) ==
  /\ port92' = b
  /\ a20' = A20Open(b, outPort)
  /\ data' = 0
  /\ UNCHANGED <<lastCmd, outPort>>
  /\ IF Bit(b, 0)
     THEN ResetWith(outPort)
     ELSE /\ irq' = FALSE
          /\ UNCHANGED <<ring, obf, sysFlag, cmd, lastByte>>

-----------------------------------------------------------------------------
(* do_8042_command: a byte written to port 64h. *)

(* Commands whose response is something read out of the controller: the    *)
(* command byte, the input port, the output port, or a test result.        *)
Answering == {32, 169, 170, 171, 192, 208, 224}
Answer(c) ==
  CASE c = 32  -> cmd
    [] c = 192 -> 144
    [] c = 208 -> outPort
    [] c = 170 -> 85
    [] OTHER   -> 0

AnswerCommand(c) ==
  /\ c \in Answering
  /\ Place(Answer(c))
  /\ UNCHANGED <<sysFlag, cmd, lastByte, gate>>

(* 0xA7, 0xA8: the auxiliary device is disabled or enabled.                *)
AuxCommand(c) ==
  /\ c \in {167, 168}
  /\ cmd' = IF c = 167 THEN SetBit(cmd, 5) ELSE ClrBit(cmd, 5)
  /\ irq' = FALSE
  /\ UNCHANGED <<ring, obf, sysFlag, lastByte, gate>>

(* Slip: the status is not recomputed when the interface is enabled again. *)
KbdInterfaceSilent(c) ==
  /\ c \in {173, 174}
  /\ cmd' = IF c = 173 THEN SetBit(cmd, 4) ELSE ClrBit(cmd, 4)
  /\ obf' = FALSE
  /\ irq' = FALSE
  /\ UNCHANGED <<ring, sysFlag, lastByte, gate>>

(* 0xAD, 0xAE: the keyboard interface is disabled or enabled.  Disabling   *)
(* hides the buffer from the status byte, enabling shows it again.         *)
KbdInterface(c) ==
  /\ c \in {173, 174}
  /\ cmd' = IF c = 173 THEN SetBit(cmd, 4) ELSE ClrBit(cmd, 4)
  /\ obf' = (c = 174 /\ rd # wr)
  /\ irq' = FALSE
  /\ UNCHANGED <<ring, sysFlag, lastByte, gate>>

(* 0xF0 to 0xFE, even: pulsing output line 0 resets the system.            *)
Pulses(c) == c >= 240 /\ ~Bit(c, 0)

PulseReset(c) ==
  /\ Pulses(c)
  /\ ResetWith(outPort)
  /\ port92' = 0
  /\ a20' = A20Open(0, outPort)
  /\ UNCHANGED outPort

(* Any other command is only remembered: those that announce a data byte   *)
(* (0x60, 0xD1 to 0xD4, 0xA6) and those without effect.                    *)
RememberCommand(c) ==
  /\ c \notin Answering \cup {167, 168, 173, 174}
  /\ ~Pulses(c)
  /\ irq' = FALSE
  /\ UNCHANGED <<ring, obf, sysFlag, cmd, lastByte, gate>>

WritePort64(c) ==
  /\ lastCmd' = c
  /\ data' = 0
  /\ \/ AnswerCommand(c)
     \/ AuxCommand(c)
     \/ KbdInterface(c)
     \/ PulseReset(c)
     \/ RememberCommand(c)

-----------------------------------------------------------------------------
(* write_port_60h: a byte written to port 60h, by the command before it.   *)

(* 0x60: the old command byte is placed in the buffer, under the old       *)
(* interrupt enable, before the new one is stored.                         *)
WriteCommandByte(b) ==
  /\ lastCmd = 96
  /\ Place(cmd)
  /\ cmd' = b
  /\ UNCHANGED <<sysFlag, lastByte, gate>>

(* 0xD1: bit 0 low resets the system, in the middle of the write.          *)
WriteOutputPort(b) ==
  /\ lastCmd = 209
  /\ outPort' = b
  /\ port92' = IF Bit(b, 0) THEN port92 ELSE 0
  /\ a20' = A20Open(port92', b)
  /\ IF Bit(b, 0)
     THEN /\ irq' = FALSE
          /\ UNCHANGED <<ring, obf, sysFlag, cmd, lastByte>>
     ELSE ResetWith(b)

(* 0xD2, 0xD3: the byte comes back as if a device had sent it.  0xD4: no   *)
(* auxiliary device, "resend".                                             *)
LoopBack(b) ==
  /\ lastCmd \in {210, 211, 212}
  /\ Place(IF lastCmd = 212 THEN 254 ELSE b)
  /\ UNCHANGED <<sysFlag, cmd, lastByte, gate>>

SecurityByte(b) ==
  /\ lastCmd = 166
  /\ irq' = FALSE
  /\ UNCHANGED <<ring, obf, sysFlag, cmd, lastByte, gate>>

ToKeyboard == lastCmd \notin {96, 166, 209, 210, 211, 212}

(* do_kbd_command: a byte with bit 7 set is a command to the keyboard.     *)
KbdCommand(b) ==
  /\ ToKeyboard
  /\ b >= 128
  /\ lastByte' = b
  /\ sysFlag' = (sysFlag \/ b = 255)
  /\ CASE b = 238        -> Place(238)
       [] b = 242        -> PlaceTwice(171, 131)
       [] b \in 244..247 -> ClearThenPlace(Ack)
       [] b = 255        -> Place(170)
       [] OTHER          -> Place(Ack)
  /\ UNCHANGED <<cmd, gate>>

(* do_option: any other byte is the option of the keyboard command before  *)
(* it, which stays in progress.  0xF0 with option 0 asks for the scan code *)
(* set.                                                                    *)
KbdOption(b) ==
  /\ ToKeyboard
  /\ b < 128
  /\ Place(IF lastByte = 240 /\ b = 0 THEN 2 ELSE Ack)
  /\ UNCHANGED <<sysFlag, cmd, lastByte, gate>>

WritePort60(b) ==
  /\ lastCmd' = 0
  /\ data' = 0
  /\ \/ WriteCommandByte(b)
     \/ WriteOutputPort(b)
     \/ LoopBack(b)
     \/ SecurityByte(b)
     \/ KbdCommand(b)
     \/ KbdOption(b)

-----------------------------------------------------------------------------
Next ==
  \/ \E k \in Keys : KeyHit(k)
  \/ ReadPort60
  \/ ReadPort64
  \/ \E c \in Commands : WritePort64(c)
  \/ \E b \in DataBytes : WritePort60(b)
  \/ \E b \in GateBytes : WritePort92(b)
  \/ ResetButton

Spec == Init /\ [][Next]_vars

-----------------------------------------------------------------------------
(* Properties that hold. *)

(* The ring is the buffer it stands for: keys are read in the order they   *)
(* were typed, after the responses, none twice.                            *)
Buffer == INSTANCE KbdBuffer WITH
            q <- Contents, Capacity <- RingSize - 1, Bytes <- Byte,
            Identity <- <<171, 131>>

BufferStep == Buffer!Next \/ UNCHANGED <<Contents, data, cmd>>
RingIsBuffer == Buffer!Init /\ [][BufferStep]_vars

(* A polling guest is never kept from a byte: buffered bytes show in the   *)
(* status byte unless the guest disabled the keyboard interface.           *)
DataAnnounced == rd # wr /\ ~obf => KbdDisabled(cmd)

(* A guest that works by interrupts gets one for every byte it is to read: *)
(* whenever the byte at the front of a non-empty buffer changes or a first *)
(* byte arrives while the interrupt is enabled, IRQ1 is asserted.          *)
FrontAnnounced ==
  Contents' # <<>> /\ (rd' # rd \/ Contents = <<>>) => irq' = IntEnabled(cmd)
NewFrontInterrupts == [][FrontAnnounced]_vars

(* A20 follows its two gates through every write and every reset, even one *)
(* in the middle of a write: they never move without it.                   *)
A20FollowsGates ==
  [][gate' # gate => a20' = A20Open(port92', outPort')]_vars

-----------------------------------------------------------------------------
(* What comments of the source say and the code does not do. *)

(* sys/8042.cpp:139, in place_to_ibuf: "buffer is not full".  A response   *)
(* never costs the guest what is buffered.                                 *)
ResponseKeepsBuffer ==
  [][\A c \in Commands : AnswerCommand(c) => Contents' = <<Answer(c)>> \o Contents]_vars
=============================================================================
