------------------------------- MODULE Floppy -------------------------------
(***************************************************************************)
(* The floppy controller (sys/floppy.cpp) on channel 2 of the 8237.  The   *)
(* guest writes the digital output register and command bytes and reads    *)
(* results; the clock thread moves sectors in do_floppy; the window mounts *)
(* and removes images.  The guest obeys the main status register and what  *)
(* the comment in do_floppy asks for is left to it: it may program the     *)
(* channel before a read or write, or fail to.                             *)
(***************************************************************************)
EXTENDS Dma8237

CONSTANTS Sector,     (* bytes of a sector, 0x200 in the code                *)
          Cylinders,  (* cylinder numbers, counted modulo this bound         *)
          Eot,        (* the largest end-of-track parameter                  *)
          SnWrap,     (* values of a sector number, a char in the code       *)
          Drives,     (* drives that are modelled, of 0 and 1                *)
          Codes,      (* commands the guest gives, of DOMAIN Needs           *)
          Params,     (* parameters it gives                                 *)
          Dors        (* values it writes to the digital output register     *)

Ch == 2                       (* dma_task = {2, 0}                           *)

(* cmd_parameter_bytes: the bytes a command takes.  Commands with the same *)
(* bytes, results and no other effect are one; codes 1Eh and 1Fh lie       *)
(* behind the table and are left out.                                      *)
Needs ==
  [ read |-> 9, write |-> 9, deleted |-> 9, track |-> 9, specify |-> 3,
    drive |-> 2, recalib |-> 2, int |-> 1, id |-> 2, format |-> 6, dump |-> 1,
    seek |-> 3, version |-> 1, perp |-> 2, config |-> 4, invalid |-> 0,
    scan |-> 0 ]

(* The results that each do_ function leaves behind, those of a read or a  *)
(* write being left when its transfer ends.                                *)
Results ==
  [ read |-> 7, write |-> 7, deleted |-> 0, track |-> 7, specify |-> 0,
    drive |-> 1, recalib |-> 0, int |-> 2, id |-> 7, format |-> 7, dump |-> 10,
    seek |-> 0, version |-> 1, perp |-> 0, config |-> 0, invalid |-> 1,
    scan |-> 0 ]

Transfers == {"read", "write"}

(* The parameters that decide anything: unit, place, end of track, and     *)
(* whether the other checks of bad_rd_or_wr_parameter pass.                *)
Parameter ==
  [unit : Drives, cyl : 0 .. Cylinders - 1, head : {0, 1},
   sn : 1 .. Eot + 1, eot : 1 .. Eot, mt : BOOLEAN, good : BOOLEAN]

DorValue == [sel : Drives, enable : BOOLEAN, int : BOOLEAN]

ASSUME FloppyAssumption ==
  /\ 2 \in Channels /\ Drives \subseteq {0, 1} /\ 0 \in Drives /\ Sector \in Nat \ {0}
  /\ Cylinders \in Nat \ {0} /\ Eot \in Nat \ {0}
  /\ SnWrap \in Nat /\ SnWrap > Eot + 1
  /\ Codes \subseteq DOMAIN Needs
  /\ "write" \in Codes => 1 \in Drives
  /\ Params \subseteq Parameter /\ Dors \subseteq DorValue

VARIABLES
  dor,         (* drive select, FDC enabled, DMA and interrupt enabled      *)
  msr,         (* main status: reset, command, busy or result phase         *)
  cmd, top,    (* the command being collected; cmd_buffer_top               *)
  par,         (* its end of track and multi-track bit, once executed       *)
  left,        (* results not read: result_buffer_limit - result_buffer_top *)
  task,        (* dma_task.state = DMA_ST_PENDING                           *)
  looping,     (* the clock thread is inside do_floppy's loop               *)
  sel,         (* drive_sel_on_int                                          *)
  place,       (* cylinder, head and sector of each drive                   *)
  known,       (* drives whose geometry was set by a mount                  *)
  irq,         (* output: the last step asserted IRQ6                       *)
  mixed,       (* history: the DOR was written in the middle of a command   *)
  stale        (* history: tc was already set when the transfer began       *)

fdc  == <<dor, msr, cmd, top, par, left, task, sel, place>>
vars == <<dma, fdc, looping, known, irq, mixed, stale>>

Place == [cyl : 0 .. Cylinders - 1, head : {0, 1}, sn : 0 .. SnWrap - 1]

TypeOK ==
  /\ DmaTypeOK
  /\ dor \in DorValue /\ msr \in {"reset", "command", "busy", "result"}
  /\ cmd \in DOMAIN Needs /\ top \in 0 .. 9
  /\ par \in [eot : 1 .. Eot, mt : BOOLEAN]
  /\ left \in 0 .. 10 /\ task \in BOOLEAN /\ looping \in BOOLEAN
  /\ sel \in Drives /\ place \in [Drives -> Place] /\ known \subseteq Drives
  /\ irq \in BOOLEAN /\ mixed \in BOOLEAN /\ stale \in BOOLEAN

Init ==
  /\ DmaInit
  /\ dor = [sel |-> 0, enable |-> FALSE, int |-> FALSE] /\ msr = "command"
  /\ cmd = "invalid" /\ top = 0 /\ par = [eot |-> 1, mt |-> FALSE] /\ left = 0
  /\ task = FALSE /\ looping = FALSE /\ sel = 0
  /\ place = [d \in Drives |-> [cyl |-> 0, head |-> 0, sn |-> 0]]
  /\ known = {} /\ irq = FALSE /\ mixed = FALSE /\ stale = FALSE

Mid == task \/ top # 0 \/ left # 0
StillMixed == mixed' = (mixed /\ Mid')

-----------------------------------------------------------------------------
(* bad_rd_or_wr_parameter: a drive never mounted has no cylinder.          *)
Bad(d, p) == ~p.good \/ d \notin known \/ p.sn > p.eot

(* do_read_data, do_write_data: the unit is bit 0 of the opcode.           *)
Unit(c) == IF c = "write" THEN 1 ELSE 0

Selects == {"drive", "recalib", "format", "seek"}

(* do_recalib, do_seek: the head goes to side 0 of the cylinder.           *)
Sought(c, p, d) ==
  [place EXCEPT ![d].cyl = IF c = "seek" THEN p.cyl ELSE 0, ![d].head = 0]

(* Slip: the transfer is announced as done when it is started.             *)
ExecuteEarly(c, p) ==
  /\ cmd' = c
  /\ LET t == c \in Transfers
         d == IF t THEN Unit(c) ELSE IF c \in Selects THEN p.unit ELSE sel
         starts == t /\ ~Bad(d, p)
     IN /\ sel' = d
        /\ par' = IF starts THEN [eot |-> p.eot, mt |-> p.mt] ELSE par
        /\ place' = place
        /\ task' = (task \/ starts)
        /\ stale' = IF starts THEN Ch \in tc ELSE task /\ stale
        /\ left' = IF starts THEN 0 ELSE IF t THEN 2 ELSE Results[c]
        /\ msr' = IF left' # 0 THEN "result" ELSE "command"
        /\ top' = IF left' = 0 /\ ~task' THEN 0 ELSE top + 1
        /\ irq' = (~task' /\ c # "int" /\ dor.int)
  /\ UNCHANGED <<dor>>

(* do_cmd and the lines after it in reg_write: a transfer starts or leaves *)
(* two results, seek and recalibrate move the head, the rest leaves its    *)
(* results.  The command buffer is emptied here only if there are none.    *)
Execute(c, p) ==
  /\ cmd' = c
  /\ LET t == c \in Transfers
         d == IF t THEN Unit(c) ELSE IF c \in Selects THEN p.unit ELSE sel
         starts == t /\ ~Bad(d, p)
     IN /\ sel' = d
        /\ par' = IF starts THEN [eot |-> p.eot, mt |-> p.mt] ELSE par
        /\ place' =
             IF starts THEN [place EXCEPT ![d] = [cyl |-> p.cyl, head |-> p.head, sn |-> p.sn]]
             ELSE IF c \in {"seek", "recalib"} THEN Sought(c, p, d) ELSE place
        /\ task' = (task \/ starts)
        /\ stale' = IF starts THEN Ch \in tc ELSE task /\ stale
        /\ left' = IF starts THEN 0 ELSE IF t THEN 2 ELSE Results[c]
        /\ msr' = IF task' THEN "busy" ELSE IF left' # 0 THEN "result" ELSE "command"
        /\ top' = IF left' = 0 /\ ~task' THEN 0 ELSE Min({top + 1, 9})
        /\ irq' = (~task' /\ c # "int" /\ dor.int)
  /\ UNCHANGED <<dor>>

(* reg_write, port 3F5h: only the first byte of a buffer that was emptied  *)
(* chooses the command.                                                    *)
WriteData(c, p) ==
  /\ ~looping /\ msr = "command"
  /\ LET now == IF top = 0 THEN c ELSE cmd IN
     IF Needs[now] <= top + 1
     THEN Execute(now, p)
     ELSE /\ cmd' = now /\ top' = top + 1 /\ irq' = FALSE
          /\ UNCHANGED <<dor, msr, par, left, task, sel, place, stale>>
  /\ StillMixed
  /\ UNCHANGED <<dma, looping, known>>

(* reg_read, port 3F5h: the last result opens the command phase.           *)
ReadData ==
  /\ ~looping /\ msr = "result" /\ left # 0
  /\ left' = left - 1
  /\ IF left = 1 THEN top' = 0 /\ msr' = "command" ELSE UNCHANGED <<top, msr>>
  /\ irq' = FALSE
  /\ UNCHANGED <<dma, dor, cmd, par, task, looping, sel, place, known, stale>>
  /\ StillMixed

(* reg_write, port 3F2h: a change of the enable bit interrupts; without it *)
(* both buffers are emptied.  A transfer that is under way goes on.        *)
WriteDor(v) ==
  /\ ~looping
  /\ dor' = v
  /\ irq' = (v.enable # dor.enable)
  /\ IF irq'
     THEN sel' = dor.sel /\ place' = [place EXCEPT ![dor.sel].cyl = 0]
     ELSE UNCHANGED <<sel, place>>
  /\ IF v.enable
     THEN msr' = "command" /\ UNCHANGED <<top, left>>
     ELSE msr' = "reset" /\ top' = 0 /\ left' = 0
  /\ UNCHANGED <<dma, cmd, par, task, looping, known, stale>>
  /\ mixed' = Mid'

-----------------------------------------------------------------------------

(* The place after one sector: at the end of the track a multi-track       *)
(* command goes to the other head and then to the next cylinder, any other *)
(* reads the same track again.                                             *)
Next1(x) ==
  IF x.sn # par.eot THEN [x EXCEPT !.sn = (@ + 1) % SnWrap]
  ELSE IF par.mt
       THEN [cyl |-> (x.cyl + x.head) % Cylinders, head |-> 1 - x.head, sn |-> 1]
       ELSE [x EXCEPT !.sn = 1]

(* One round of do_floppy's loop.  The guest does not run until tc is      *)
(* reported; over a closed channel the loop spins.                         *)
MoveSector ==
  /\ task
  /\ RunDmaTask(Ch, Sector)
  /\ place' = [place EXCEPT ![sel] = Next1(@)]
  /\ task' = (Ch \notin tc') /\ looping' = task'
  /\ irq' = ~task'
  /\ IF task' THEN UNCHANGED <<left, msr>> ELSE left' = 7 /\ msr' = "result"
  /\ stale' = (task' /\ stale)
  /\ UNCHANGED <<dor, cmd, top, par, sel, known>>
  /\ StillMixed

(* The guest at the ports of the 8237.                                     *)
ProgramDma ==
  /\ ~looping /\ DmaPorts /\ irq' = FALSE
  /\ UNCHANGED <<fdc, looping, known, mixed, stale>>

(* floppy_mount: unmounting closes the image but keeps the geometry.       *)
Mount(d) ==
  /\ known' = known \cup {d}
  /\ irq' = FALSE
  /\ UNCHANGED <<dma, fdc, looping, mixed, stale>>

Next ==
  \/ \E c \in Codes, p \in Params : WriteData(c, p)
  \/ ReadData
  \/ \E v \in Dors : WriteDor(v)
  \/ MoveSector
  \/ ProgramDma
  \/ \E d \in Drives : Mount(d)

(* do_clock calls do_floppy every 256 instructions.                        *)
Spec == Init /\ [][Next]_vars /\ WF_vars(MoveSector)
-----------------------------------------------------------------------------
(* The main status register tells the guest what the controller will do    *)
(* with its next access: busy exactly while a transfer is pending, results *)
(* exactly while some are left, and a new command only when no byte of an  *)
(* old one is in the buffer.  A DOR write in the middle of a command       *)
(* breaks this until the command is over (reg_write, reg_read, do_floppy). *)
PhaseAgrees ==
  ~mixed =>
    /\ msr = "busy" <=> task
    /\ msr = "result" <=> left # 0
    /\ msr = "command" /\ top # 0 => top < Needs[cmd]

(* A transfer ends with the whole count moved, unless a terminal count of  *)
(* an earlier one was still set when the command was given (run_dma_task's *)
(* return value), and the sectors of a multi-track transfer are            *)
(* consecutive on the disk: head 0 and head 1 of a cylinder, then the next *)
(* one (do_floppy's update of pcn, head and sn).                           *)
Linear(x) == (2 * x.cyl + x.head) * par.eot + x.sn

TransferRight ==
  [][/\ task /\ ~task' => count'[Ch] = Last \/ stale
     /\ MoveSector /\ par.mt /\ place[sel].sn \in 1 .. par.eot =>
          Linear(place'[sel]) = (Linear(place[sel]) % (2 * par.eot * Cylinders)) + 1]_vars

(* A transfer over an open channel comes to an end, however long the count *)
(* (do_floppy's loop).                                                     *)
TransferEnds == task /\ Open(Ch) ~> ~task \/ ~Open(Ch)
=============================================================================
