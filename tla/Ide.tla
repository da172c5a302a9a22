-------------------------------- MODULE Ide --------------------------------
(***************************************************************************)
(* One IDE controller with its two drives (sys/ide-io.cpp, ide-cmd.cpp,    *)
(* atapi.cpp), an interrupt-driven guest driver, the clock thread's        *)
(* do_atapi and the window's mounts.  The driver gives a command, waits    *)
(* for the interrupt, looks at the status and moves one block with a       *)
(* string instruction that does not look at it again.  The data itself,    *)
(* disk addresses and identity tables are left out.                        *)
(***************************************************************************)
EXTENDS Naturals, FiniteSetsExt

CONSTANTS
  Words,        (* words of a sector, 0x100 in the code                      *)
  PacketWords,  (* words of a command packet, 6 in the code                  *)
  PerBlock,     (* sectors of a CD block, 4 in the code                      *)
  Cds,          (* drives that are CD drives                                 *)
  Multis,       (* block sizes the guest sets                                *)
  Counts,       (* sector counts it asks for, 0 standing for AllSectors      *)
  AllSectors,   (* 256 in the code                                           *)
  Limits,       (* byte count limits of a packet command, in words: odd ones
                   and FFFFh, which becomes 8000h, are left out              *)
  Wrap          (* n_sectors_to_transfer counts modulo this, 2^32            *)

IdeAssumption ==
  /\ Words \in Nat \ {0} /\ PacketWords \in Nat \ {0} /\ PerBlock \in Nat \ {0}
  /\ Cds \subseteq {0, 1}
  /\ Multis \subseteq Nat /\ Counts \subseteq Nat /\ Limits \subseteq Nat
  /\ \E m \in Limits : \A l \in Limits : l <= m
  /\ AllSectors \in Nat \ {0} /\ Wrap \in Nat
  /\ \A n \in Counts \cup {AllSectors} : PerBlock * n < Wrap

Devices == {0, 1}

(* pio_type: sectors of a disk to and from, an identity, a command packet, *)
(* sectors of a CD, the answer to a packet.                                *)
Kinds == {"in", "out", "devin", "packet", "pin", "pdevin"}
UserData == {"in", "out", "pin"}

VARIABLES
  status,    (* status_reg: absent 00h, ready 50h, data 58h (DRQ), error 51h,
                reset 80h (BSY)                                              *)
  nien,      (* device_control.nIEN                                          *)
  sel,       (* drive selected by bit 4 of cmd_blk.bytes[6]                  *)
  kind, ptr, (* pio_type, buffer_ptr                                         *)
  left, blk, (* n_sectors_to_transfer, n_sectors_transferred_within_blk      *)
  limit,     (* dwByteCountlimit, in words                                   *)
  told,      (* the byte count the guest reads, cmd_blk.bytes[4] and [5], in
                words                                                        *)
  multi,     (* multi_io of each drive                                       *)
  image,     (* drives with fpimg # NULL                                     *)
  irq,       (* IRQ 14 or 15 is requested                                    *)
  waiting,   (* the driver waits for the interrupt                           *)
  quota,     (* words of the block it still has to move                      *)
  owed,      (* history: words the command has still to move                 *)
  from       (* history: drive the command was given to, 2 once a mount or
                an unmount came between                                      *)

device == <<status, nien, sel, kind, ptr, left, blk, limit, told, multi, image>>
driver == <<waiting, quota>>
vars == <<device, irq, driver, owed, from>>

TypeOK ==
  /\ status \in {"absent", "ready", "data", "error", "reset"}
  /\ nien \in BOOLEAN /\ sel \in Devices /\ kind \in Kinds
  /\ ptr \in 0 .. PacketWords + Words + Max(Limits) /\ left \in 0 .. Wrap - 1
  /\ blk \in Nat /\ limit \in 0 .. Max(Limits) /\ told \in 0 .. Max(Limits)
  /\ multi \in [Devices -> Multis \cup {0}] /\ image \subseteq Devices
  /\ irq \in BOOLEAN /\ waiting \in BOOLEAN /\ quota \in Nat
  /\ owed \in Nat /\ from \in 0 .. 2

Init ==
  /\ status = "absent" /\ nien = FALSE /\ sel = 0
  /\ kind = "in" /\ ptr = 0 /\ left = 0 /\ blk = 0 /\ limit = 0 /\ told = 0
  /\ multi = [d \in Devices |-> 0] /\ image = {}
  /\ irq = FALSE /\ waiting = FALSE /\ quota = 0
  /\ owed = 0 /\ from = 2

Raise == irq' = (irq \/ ~nien)

-----------------------------------------------------------------------------
(* reg_write_cmd, port 1F7h, and the handlers of ide_cmds.  READ and WRITE *)
(* SECTORS, DMA and buffer commands are in the table as not implemented.   *)
Idle == ~waiting /\ quota = 0 /\ status \notin {"reset", "data"}

Command(Effect) ==
  /\ Idle /\ sel \in image
  /\ Effect /\ Raise
  /\ waiting' = TRUE /\ from' = sel
  /\ UNCHANGED <<nien, image, quota>>

Stays == UNCHANGED <<sel, kind, ptr, left, blk, limit, told, multi>>

(* A command to a drive without an image.                                  *)
NotInstalled ==
  /\ Idle /\ sel \notin image
  /\ status' = "absent"
  /\ UNCHANGED <<nien, image, irq, driver, owed, from>> /\ Stays

(* recalib, seek, init_drv_para, check_power, set_feature; verify also     *)
(* forgets the count.                                                      *)
NoError == status' = "ready" /\ owed' = 0 /\ Stays

Verify ==
  /\ status' = "ready" /\ owed' = 0 /\ left' = 0
  /\ UNCHANGED <<sel, kind, ptr, blk, limit, told, multi>>

NotImplemented == status' = "error" /\ owed' = 0 /\ Stays

SetMulti(n) ==
  /\ status' = "ready" /\ owed' = 0
  /\ multi' = [multi EXCEPT ![sel] = n]
  /\ UNCHANGED <<sel, kind, ptr, left, blk, limit, told>>

(* device_reset leaves the selection; read_max_n_addr keeps only address   *)
(* bits in the drive register: drive 0 is selected afterwards.             *)
DeviceReset ==
  /\ status' = IF sel \in Cds THEN "absent" ELSE "ready"
  /\ owed' = 0 /\ Stays
ReadMax ==
  /\ status' = "ready" /\ sel' = 0 /\ owed' = 0
  /\ UNCHANGED <<kind, ptr, left, blk, limit, told, multi>>

(* read_multiple, write_multiple.                                          *)
Transfer(k, n) ==
  IF multi[sel] = 0 THEN NotImplemented
  ELSE /\ status' = "data" /\ kind' = k /\ ptr' = 0 /\ blk' = 0
       /\ left' = IF n = 0 THEN AllSectors ELSE n
       /\ owed' = Words * left'
       /\ UNCHANGED <<sel, limit, told, multi>>

(* identify_device and ident_packet_dev refuse each other's drives.        *)
Identify(cd) ==
  IF cd # (sel \in Cds) THEN NotImplemented
  ELSE /\ status' = "data" /\ kind' = "devin" /\ ptr' = 0 /\ owed' = 0
       /\ UNCHANGED <<sel, left, blk, limit, told, multi>>

Packet(l) ==
  IF sel \notin Cds THEN NotImplemented
  ELSE /\ status' = "data" /\ kind' = "packet" /\ ptr' = 0 /\ owed' = 0
       /\ limit' = l /\ told' = l
       /\ UNCHANGED <<sel, left, blk, multi>>

Commands ==
  \/ NotInstalled
  \/ Command(NoError)
  \/ Command(Verify)
  \/ Command(NotImplemented)
  \/ \E n \in Multis : Command(SetMulti(n))
  \/ Command(DeviceReset)
  \/ Command(ReadMax)
  \/ \E k \in {"in", "out"}, n \in Counts : Command(Transfer(k, n))
  \/ \E cd \in BOOLEAN : Command(Identify(cd))
  \/ \E l \in Limits : Command(Packet(l))

-----------------------------------------------------------------------------
(* Slip: reads compare too early as well.                                  *)
NextSectorLate ==
  /\ left' = left - 1 /\ ptr' = 0
  /\ LET due == blk = multi[sel] IN
     /\ blk' = IF due THEN 0 ELSE blk + 1
     /\ IF due THEN Raise ELSE UNCHANGED irq
  /\ UNCHANGED <<status, told>>

(* The end of a sector that reg_read_data or reg_write_data counts.  A     *)
(* read interrupts after multi_io sectors; a write compares before it      *)
(* counts and interrupts one sector late, and at the end even if the       *)
(* interrupt is disabled.                                                  *)
NextSector ==
  /\ left' = left - 1 /\ ptr' = 0
  /\ LET due == IF kind = "out" THEN blk = multi[sel] ELSE blk + 1 = multi[sel] IN
     /\ blk' = IF due THEN 0 ELSE blk + 1
     /\ IF due THEN Raise ELSE UNCHANGED irq
  /\ UNCHANGED <<status, told>>

LastSector ==
  /\ status' = "ready"
  /\ irq' = (irq \/ ~nien \/ kind = "out")
  /\ UNCHANGED <<left, ptr, blk, told>>

(* (dwByteCountlimit + 1FFh) >> 9: the sectors the device moves for a byte *)
(* count limit.  The guest is told the limit itself, so the two agree only *)
(* if it is a whole number of sectors.                                     *)
Sectors(l) == (l + Words - 1) \div Words
Aligned(l) == l = Words * Sectors(l)

(* A sector of a CD: the count wraps below zero.                           *)
CdSector ==
  /\ left' = (left + Wrap - 1) % Wrap
  /\ IF left' = 0
     THEN status' = "ready" /\ ptr' = Words /\ Raise /\ UNCHANGED <<blk, told>>
     ELSE /\ ptr' = 0
          /\ blk' = IF blk = 1 THEN Sectors(limit) ELSE blk - 1
          /\ told' = IF blk = 1 /\ left' < Sectors(limit) THEN Words * left' ELSE told
          /\ IF blk = 1 THEN Raise ELSE UNCHANGED irq
          /\ UNCHANGED status

(* atapi_do_packet_command.  INQUIRY, REQUEST SENSE, READ CAPACITY, MODE   *)
(* SENSE and READ TOC answer with no more than was asked for.              *)
AnswerPacket ==
  /\ status' = "data" /\ kind' = "pdevin" /\ ptr' = 0
  /\ limit' \in 0 .. limit
  /\ UNCHANGED <<left, blk, told, owed>>

ReadBlocks(b) ==
  /\ limit # 0 /\ sel \in image
  /\ status' = "data" /\ kind' = "pin" /\ ptr' = 0
  /\ left' = PerBlock * b /\ blk' = Sectors(limit)
  /\ told' = IF left' < Sectors(limit) THEN Words * left' ELSE told
  /\ owed' = Words * left'
  /\ UNCHANGED limit

(* Commands without data, and those that are refused.                      *)
EndPacket ==
  /\ status' \in {"ready", "error"} /\ ptr' = PacketWords
  /\ limit' \in {0, limit} /\ told' \in {0, told}
  /\ UNCHANGED <<kind, left, blk, owed>>

(* READ(12), the writes and READ FORMAT CAPACITIES do nothing at all.      *)
IgnorePacket ==
  /\ ptr' = PacketWords
  /\ UNCHANGED <<status, kind, left, blk, limit, told, owed>>

DoPacket ==
  /\ AnswerPacket \/ (\E b \in Counts : ReadBlocks(b)) \/ EndPacket \/ IgnorePacket
  /\ Raise

(* One word through port 1F0h, whatever the status says by now.            *)
NeedsImage ==
  \/ kind \in {"in", "pin"} /\ ptr = 0
  \/ kind = "out" /\ ptr = Words - 1

MoveWord ==
  /\ quota > 0 /\ status # "reset"
  /\ NeedsImage => sel \in image
  /\ quota' = quota - 1 /\ waiting' = (quota = 1)
  /\ IF kind = "packet" /\ ptr + 1 = PacketWords
     THEN DoPacket
     ELSE /\ CASE kind \in {"in", "out"} /\ ptr + 1 >= Words ->
                    IF left > 1 THEN NextSector ELSE LastSector
              [] kind = "pin" /\ ptr + 1 >= Words -> CdSector
              [] (kind = "devin" /\ ptr + 1 = Words) \/ (kind = "pdevin" /\ ptr + 1 >= limit) ->
                    /\ status' = "ready" /\ Raise /\ ptr' = ptr + 1
                    /\ UNCHANGED <<left, blk, told>>
              [] OTHER -> ptr' = ptr + 1 /\ UNCHANGED <<status, left, blk, told, irq>>
          /\ owed' = IF kind \in UserData /\ owed > 0 THEN owed - 1 ELSE owed
          /\ UNCHANGED <<kind, limit>>
  /\ UNCHANGED <<nien, sel, multi, image, from>>

-----------------------------------------------------------------------------
(* The driver looks at the status after the interrupt, or polls when it    *)
(* disabled it.  What it moves next is what the device told it: a block of *)
(* a disk, the byte count of a CD, an identity, the packet.                *)
Block ==
  CASE kind \in {"in", "out"} -> Words * Min({multi[sel], left})
    [] kind \in {"pin", "pdevin"} -> told
    [] kind = "devin"  -> Words
    [] kind = "packet" -> PacketWords - ptr

Look ==
  /\ waiting /\ (irq \/ nien) /\ status # "reset"
  /\ irq' = FALSE /\ waiting' = FALSE
  /\ quota' = IF status = "data" THEN Block ELSE 0
  /\ status' = IF status = "error" THEN "ready" ELSE status
  /\ UNCHANGED <<nien, sel, kind, ptr, left, blk, limit, told, multi, image, owed, from>>

GiveUp ==
  /\ waiting /\ status # "data"
  /\ waiting' = FALSE /\ UNCHANGED <<device, irq, quota, owed, from>>

(* reg_write_ctrl, port 3F6h.  A reset ends the transfer but not pio_type; *)
(* enabling the interrupt always requests it.                              *)
SoftReset ==
  /\ ~waiting /\ quota = 0
  /\ IF status # "reset"
     THEN status' = "reset" /\ UNCHANGED sel
     ELSE status' = "ready" /\ sel' = IF sel \in Cds THEN sel ELSE 0
  /\ UNCHANGED <<nien, kind, ptr, left, blk, limit, told, multi, image, irq, driver, owed, from>>

WriteNien(b) ==
  /\ Idle
  /\ nien' = b /\ irq' = (irq \/ ~b)
  /\ UNCHANGED <<status, sel, kind, ptr, left, blk, limit, told, multi, image, driver, owed, from>>

(* reg_write_cmd and reg_read_cmd, port 1F6h.                              *)
Select(d) ==
  /\ Idle
  /\ sel' = d
  /\ status' = IF d \notin image THEN "absent" ELSE IF d # sel THEN "ready" ELSE status
  /\ UNCHANGED <<nien, kind, ptr, left, blk, limit, told, multi, image, irq, driver, owed, from>>

ReadDevice ==
  /\ Idle /\ irq' = FALSE /\ UNCHANGED <<device, driver, owed, from>>

(* Slip: the repeated announcement is left out.                            *)
DoAtapiNever == FALSE /\ UNCHANGED vars

(* do_atapi, called by the clock thread: data waiting is announced again.  *)
DoAtapi ==
  /\ status = "data" /\ Raise /\ UNCHANGED <<device, driver, owed, from>>

(* ide_mount and ide_unmount select the drive and end whatever goes on.    *)
Mount(d, in) ==
  /\ sel' = d /\ from' = 2
  /\ image' = IF in THEN image \cup {d} ELSE image \ {d}
  /\ status' = IF in THEN "ready" ELSE "absent"
  /\ UNCHANGED <<nien, kind, ptr, left, blk, limit, told, multi, irq, driver, owed>>

Next ==
  \/ Commands \/ MoveWord \/ Look \/ GiveUp \/ SoftReset \/ ReadDevice \/ DoAtapi
  \/ \E b \in BOOLEAN : WriteNien(b)
  \/ \E d \in Devices : Select(d)
  \/ \E d \in Devices, in \in BOOLEAN : Mount(d, in)

(* The processor runs the driver, the clock thread do_atapi.               *)
Fairness == WF_vars(MoveWord) /\ WF_vars(Look) /\ WF_vars(DoAtapi)
Spec == Init /\ [][Next]_vars /\ Fairness
-----------------------------------------------------------------------------
(* While sectors are announced, the words still owed to the command are    *)
(* those the controller's two counters say, and they belong to the drive   *)
(* the command was given to unless a mount came between (reg_read_data,    *)
(* reg_write_data).                                                        *)
Accounted ==
  status = "data" /\ kind \in UserData /\ owed > 0 =>
    from \in {sel, 2} /\ owed = Words * left - ptr

(* A transfer of sectors that the device ends has moved every word, and a  *)
(* block of a read that leaves more to come is followed by an interrupt    *)
(* at once.  A write is not: see NextSector.  Nor is a block of a CD if    *)
(* the limit the guest gave is no whole number of sectors.                 *)
WholeTransfer ==
  [][MoveWord /\ status = "data" /\ status' = "ready" /\ kind \in UserData /\ owed > 0 =>
       owed' = 0]_vars
BlockAnnounced ==
  [][MoveWord /\ quota = 1 /\ kind \in {"in", "pin"} /\ from # 2
     /\ (kind = "pin" => Aligned(limit)) => irq' \/ nien]_vars
BlocksKept == WholeTransfer /\ BlockAnnounced

(* A driver that waits for interrupts moves all its sectors in the end,    *)
(* the write that is interrupted one sector late included, because         *)
(* do_atapi announces waiting data again and again.                        *)
TransferFinishes == status = "data" /\ kind \in UserData /\ owed > 0 ~> status # "data"
=============================================================================
