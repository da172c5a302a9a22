-------------------------------- MODULE Power --------------------------------
(* Where an SMI comes from: the timers that invoke one (sys/acpi82801.cpp,  *)
(* sys/smi82801.cpp, sys/cmos.cpp), the chipset that asserts the pin when   *)
(* the last SMI has ended (do_smi), the processor that takes it unless it   *)
(* is halted with interrupts enabled, and a handler that reads each status  *)
(* register, writes back what it has read, sets EOS and leaves.  The guest  *)
(* runs on this processor alone.  What it does around an SMI is CpuStep's.  *)
EXTENDS Naturals, Sequences, SequencesExt

CONSTANT Enables     (* the causes that the guest enables and disables      *)

Causes == {"timer", "tco", "periodic", "pm"}

PowerAssumption == Enables \subseteq Causes

(* The status registers 34h, 35h and 00h, and the bits that a 1 clears.     *)
Registers    == <<{"timer"}, {"tco", "periodic"}, {"pm"}>>
WriteToClear == {"timer", "periodic", "pm"}

VARIABLES
  en, sts,     (* enable and status bits of the causes                     *)
  pend,        (* smi_pending                                              *)
  glb, eos,    (* GBL_SMI_EN and EOS of register 30h                       *)
  needEos,     (* smi_en_eos_mask = 3                                      *)
  sci,         (* SCI_EN                                                   *)
  carryEn,     (* bit 6 of register 38h, the dwSMIControlEnable of the     *)
               (* struct as it is laid out                                 *)
  pin, smm,    (* smi_pin and smm of the processor                         *)
  sleep,       (* halted, with IF ("open") or without ("shut")             *)
  at, got,     (* the handler: the register in turn and what it has read   *)
  watched,     (* the cause that the observer watches                      *)
  owed         (* history: it was invoked, and neither seen nor wiped      *)

control == <<en, glb, sci, carryEn>>
chipset == <<sts, pend, eos, needEos>>
cpu     == <<smm, sleep>>
handler == <<at, got>>
vars == <<control, chipset, pin, cpu, handler, watched, owed>>

Done == Len(Registers) + 1     (* the handler has only to set EOS           *)
Unread == {"unread"}

TypeOK ==
  /\ en \subseteq Enables /\ sts \cup pend \subseteq Causes /\ watched \in Enables
  /\ {glb, eos, needEos, sci, carryEn, pin, smm, owed} \subseteq BOOLEAN
  /\ sleep \in {"awake", "open", "shut"}
  /\ at \in 0..Done + 1 /\ got \subseteq Causes \cup Unread
  /\ at # 0 => smm /\ sleep = "awake"

Init ==
  /\ en = {} /\ sts = {} /\ pend = {} /\ watched \in Enables /\ owed = FALSE
  /\ glb = FALSE /\ eos = FALSE /\ needEos = FALSE /\ sci = FALSE /\ carryEn = FALSE
  /\ pin = FALSE /\ smm = FALSE /\ sleep = "awake" /\ at = 0 /\ got = Unread

(******************************** The chipset *******************************)
(* The causes that invoke_smi records when the counters in ticks run out.   *)
(* The carry of the power management timer asks for a bit of the register   *)
(* where the compiler puts the field, 38h instead of 30h, and for an        *)
(* interrupt instead of an SMI if SCI_EN is set.                            *)
Invoked(ticks) ==
  (ticks \cap en) \cup
  (IF "carry" \in ticks /\ carryEn /\ ~sci THEN {"pm"} \cap en ELSE {})

(* A slip: only the first pending cause, in the order of smi_type, is       *)
(* looked at.                                                               *)
FoundFirst(causes, status) ==
  LET order == <<"timer", "tco", "pm", "periodic">> IN
  SelectSeq(order, LAMBDA c : c \in causes)[1] \in status
Found(causes, status) == causes \cap status # {}

(* Ticks that matter: of enabled causes, and the carry where the guest can  *)
(* enable its cause (a bound).                                              *)
Ticks == en \cup (IF "pm" \in Enables THEN {"carry"} ELSE {})

(* One round of run_clock: the counters, and then do_smi.                   *)
Round ==
  \E ticks \in SUBSET Ticks :
    LET invoked == Invoked(ticks)
        status  == sts \cup invoked \cup (IF "carry" \in ticks THEN {"pm"} ELSE {})
        causes  == pend \cup invoked
        assert  == causes # {} /\ glb /\ (needEos => eos) /\ Found(causes, status)
    IN /\ sts' = status /\ owed' = (owed \/ watched \in invoked)
       /\ pend' = IF assert THEN {} ELSE causes
       /\ eos' = (eos /\ ~assert)
       /\ needEos' = (needEos \/ assert) /\ pin' = (pin \/ assert)
       /\ UNCHANGED <<control, cpu, handler, watched>>

(* set_reg of a status register: no mask keeps the bits that v leaves at 0. *)
SetStatus(k, v) ==
  /\ sts' = (sts \ Registers[k]) \cup (v \ WriteToClear)
  /\ owed' = (owed /\ watched \notin Registers[k] \ sts')

(* reset(): smi_pending is forgotten and EFLAGS cleared; the registers stay *)
(* as they are, and so do SMM and halt.                                     *)
Reset ==
  /\ pend' = {} /\ needEos' = FALSE /\ pin' = FALSE
  /\ sleep' = IF sleep = "open" THEN "shut" ELSE sleep
  /\ at' = 0 /\ got' = Unread /\ owed' = FALSE
  /\ UNCHANGED <<control, sts, eos, smm, watched>>

(********************************* The guest ********************************)
Runs == at = 0 /\ sleep = "awake"

Enable(c) ==
  /\ Runs /\ en' = (IF c \in en THEN en \ {c} ELSE en \cup {c})
  /\ UNCHANGED <<glb, sci, carryEn, chipset, pin, cpu, handler, watched, owed>>

(* Register 30h, with EOS as it is; register 04h; register 38h.             *)
EnableSmi ==
  /\ Runs /\ glb' = ~glb
  /\ UNCHANGED <<en, sci, carryEn, chipset, pin, cpu, handler, watched, owed>>
EnableSci ==
  /\ Runs /\ sci' = ~sci
  /\ UNCHANGED <<en, glb, carryEn, chipset, pin, cpu, handler, watched, owed>>
EnableCarry ==
  /\ Runs /\ "pm" \in Enables /\ carryEn' = ~carryEn
  /\ UNCHANGED <<en, glb, sci, chipset, pin, cpu, handler, watched, owed>>

WriteStatus ==
  /\ Runs
  /\ \E k \in DOMAIN Registers : \E v \in SUBSET (Registers[k] \ WriteToClear) : SetStatus(k, v)
  /\ UNCHANGED <<control, pend, eos, needEos, pin, cpu, handler, watched>>

(* HLT looks at the pin itself, and leaves halt set: in SMM, and without    *)
(* IF, nothing wakes the processor any more.                                *)
Hlt ==
  /\ Runs
  /\ IF pin /\ ~smm THEN pin' = FALSE /\ smm' = TRUE /\ sleep' = "shut"
     ELSE sleep' \in {"open", "shut"} /\ UNCHANGED <<pin, smm>>
  /\ UNCHANGED <<control, chipset, handler, watched, owed>>

(* An interrupt; halted with IF, step looks at nothing else.                *)
Wake ==
  /\ sleep = "open" /\ sleep' = "awake"
  /\ UNCHANGED <<control, chipset, pin, smm, handler, watched, owed>>

Enter ==
  /\ pin /\ ~smm /\ sleep # "open"
  /\ pin' = FALSE /\ smm' = TRUE /\ sleep' = "awake" /\ at' = 1
  /\ UNCHANGED <<control, chipset, got, watched, owed>>

ReadStatus ==
  /\ at \in DOMAIN Registers /\ got = Unread
  /\ got' = sts \cap Registers[at] /\ owed' = (owed /\ watched \notin got')
  /\ UNCHANGED <<control, chipset, pin, cpu, at, watched>>

WriteBack ==
  /\ at \in DOMAIN Registers /\ got # Unread
  /\ SetStatus(at, got) /\ at' = at + 1 /\ got' = Unread
  /\ UNCHANGED <<control, pend, eos, needEos, pin, cpu, watched>>

SetEos ==
  /\ at = Done /\ eos' = TRUE /\ at' = Done + 1
  /\ UNCHANGED <<control, sts, pend, needEos, pin, cpu, got, watched, owed>>

Rsm ==
  /\ at = Done + 1 /\ smm' = FALSE /\ at' = 0
  /\ UNCHANGED <<control, chipset, pin, sleep, got, watched, owed>>

Handler == ReadStatus \/ WriteBack \/ SetEos \/ Rsm

Next ==
  \/ Round \/ Reset \/ Enter \/ Handler \/ Hlt \/ Wake
  \/ (\E c \in Enables : Enable(c)) \/ EnableSmi \/ EnableSci \/ EnableCarry \/ WriteStatus

(* run_clock goes round for ever, and gives the processor a step each time. *)
(* Of the guest it is assumed that some interrupt ends its HLT with IF.     *)
Spec ==
  /\ Init /\ [][Next]_vars
  /\ WF_vars(Round) /\ WF_vars(Enter) /\ WF_vars(Handler) /\ WF_vars(Wake)

(******************************* Correctness *******************************)
(* A cause that was recorded is seen by a handler's read of its register,   *)
(* or its status is wiped by a write, even if the guest halts and wakes in  *)
(* between.  Excepted: SMIs are off; a reset, which forgets what was        *)
(* recorded (reset_smi); and SMM that the processor never leaves, because a *)
(* reset cut the handler short or a HLT took it there.                      *)
CausesServed == owed ~> (~owed \/ ~glb \/ (smm /\ at = 0))
=============================================================================
