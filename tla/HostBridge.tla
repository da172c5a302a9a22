----------------------------- MODULE HostBridge -----------------------------
(* The host bridge: the configuration registers that route the first       *)
(* megabyte (sys/82845-host.cpp, sys/pci.cpp) and the routing itself        *)
(* (sys/mch.cpp), which is coded twice: for bytes, words and dwords, and    *)
(* for strings.  A PAM register is the set of its bits; segments of 16 KB   *)
(* count from C0000h.                                                       *)
EXTENDS Naturals

CONSTANTS Pams,       (* PAM registers that the guest writes, among 0..6   *)
          PamValues,  (* the values it writes to them                      *)
          SmramValues,(* the values it writes to the SMRAM register        *)
          Tracked     (* segments whose contents are followed              *)

HostBridgeAssumption ==
  /\ Pams \subseteq 0..6 /\ PamValues \subseteq SUBSET {0, 1, 4, 5}
  /\ SmramValues \subseteq SUBSET {"open", "cls", "lock", "en"}
  /\ Tracked \subseteq 0..15

VARIABLES
  pam,        (* PAM0..PAM6, registers 90h..96h                            *)
  smramc,     (* SMRAM control, register 9Dh                               *)
  frozen,     (* registers 9Ch..9Fh are read-only                          *)
  rd, wr,     (* pam_rd_enable, pam_wr_enable                              *)
  smOpen, smEn, smiact,
  ram, smram, (* what a segment of RAM and SMRAM hold                      *)
  behind      (* history: PAM registers written without their callback     *)

vars == <<pam, smramc, frozen, rd, wr, smOpen, smEn, smiact, ram, smram, behind>>

(* The address map: the segments, and an address of every other kind.       *)
Segments == 0..15
Vram     == 16                                           (* A0000h..BFFFFh *)
IoApic   == 17
Device   == 18                                           (* beyond the RAM *)
OtherRam == 19
Bios     == 12..15                                       (* F0000h..FFFFFh *)
VgaBios  == 0..1

(* The register of a segment, and the two bits that are its own.            *)
PamOf(s)     == IF s \in Bios THEN 0 ELSE s \div 2 + 1
SegmentsOf(r) == {s \in Segments : PamOf(s) = r}
High(s)      == s \in Bios \/ s % 2 = 1
ReadBit(s)   == IF High(s) THEN 4 ELSE 0
WriteBit(s)  == IF High(s) THEN 5 ELSE 1

TypeOK ==
  /\ pam \in [0..6 -> SUBSET {0, 1, 4, 5}] /\ smramc \in SUBSET {"open", "cls", "lock", "en"}
  /\ {frozen, smOpen, smEn, smiact} \subseteq BOOLEAN /\ rd \cup wr \subseteq Segments
  /\ ram \in [Tracked -> {"blank", "rom", "guest"}] /\ smram \in {"blank", "smm", "guest"}
  /\ behind \subseteq 0..6

Init ==
  /\ pam = [r \in 0..6 |-> {}] /\ smramc = {} /\ rd = {} /\ wr = {}
  /\ frozen = FALSE /\ smOpen = FALSE /\ smEn = FALSE /\ smiact = FALSE
  /\ ram = [s \in Tracked |-> "blank"] /\ smram = "blank" /\ behind = {}

(****************************** Configuration ******************************)
Reroute(r, bits) ==
  /\ rd' = (rd \ SegmentsOf(r)) \cup {s \in SegmentsOf(r) : ReadBit(s) \in bits}
  /\ wr' = (wr \ SegmentsOf(r)) \cup {s \in SegmentsOf(r) : WriteBit(s) \in bits}

(* write_config_reg of n bytes at PAM register r: all n are stored, and the *)
(* callback is told the first.                                              *)
WritePam(r, n, v) ==
  LET covered == (r..r + n - 1) \cap Pams IN
  /\ pam' = [q \in 0..6 |-> IF q \in covered THEN v[q] ELSE pam[q]]
  /\ Reroute(r, pam'[r])
  /\ behind' = (behind \cup covered) \ {r}
  /\ UNCHANGED <<smramc, frozen, smOpen, smEn, smiact, ram, smram>>

(* A slip: a lock that comes together with "open" does not close.         *)
WriteSmramcEarly(v) ==
  /\ smramc' = IF frozen THEN smramc ELSE v
  /\ smOpen' = ("open" \in smramc' /\ "cls" \notin smramc')
  /\ smEn' = ("en" \in smramc')
  /\ frozen' = (frozen \/ "lock" \in smramc')
  /\ UNCHANGED <<pam, rd, wr, smiact, ram, smram, behind>>

(* A write to 9Dh, or to more bytes of its dword.  A locked register keeps  *)
(* its value, but the callback is made all the same.                        *)
WriteSmramc(v) ==
  /\ smramc' = IF frozen THEN smramc ELSE v
  /\ smOpen' = (smramc' \cap {"open", "cls", "lock"} = {"open"})
  /\ smEn' = ("en" \in smramc')
  /\ frozen' = (frozen \/ "lock" \in smramc')
  /\ UNCHANGED <<pam, rd, wr, smiact, ram, smram, behind>>

(* enter_smm and leave_smm.                                                 *)
AssertSmiact(a) ==
  /\ smiact' = a
  /\ UNCHANGED <<pam, smramc, frozen, rd, wr, smOpen, smEn, ram, smram, behind>>

(* reset() reaches the routing but not the configuration registers.         *)
Reset ==
  /\ rd' = {} /\ wr' = {} /\ smOpen' = FALSE /\ smEn' = FALSE /\ smiact' = FALSE
  /\ behind' = Pams
  /\ UNCHANGED <<pam, smramc, frozen, ram, smram>>

(********************************* Routing *********************************)
SmramDecode == smOpen \/ (smEn /\ smiact)

(* Where a read of a byte, word or dword goes.                              *)
ReadRoute(a) ==
  CASE a = Vram -> IF SmramDecode THEN "smram" ELSE "vram"
    [] a \in VgaBios /\ a \notin rd -> "vgabios"
    [] a \in Segments \ (VgaBios \cup Bios) /\ a \notin rd -> "none"
    [] a \in Bios /\ Bios \cap rd = {} -> "bios"
    [] a = IoApic -> "ioapic"
    [] a = Device -> "device"
    [] OTHER -> "ram"

ReadStringRoute(a) ==
  CASE a = Vram /\ SmramDecode -> "smram"
    [] a = Vram /\ ~SmramDecode -> "vram"
    [] a \in Segments /\ a < 2 /\ a \notin rd -> "vgabios"
    [] a \in Segments /\ a \in 2..11 /\ a \notin rd -> "none"
    [] a \in Segments /\ a > 11 /\ rd \cap (12..15) = {} -> "bios"
    [] a = IoApic -> "ioapic"
    [] a = Device -> "device"
    [] OTHER -> "ram"

WriteRoute(a) ==
  CASE a = Vram -> IF SmramDecode THEN "smram" ELSE "vram"
    [] a \in Segments /\ a \notin wr -> "none"
    [] a = IoApic -> "ioapic"
    [] a = Device -> "device"
    [] OTHER -> "ram"

WriteStringRoute(a) ==
  CASE a = Vram /\ SmramDecode -> "smram"
    [] a = Vram /\ ~SmramDecode -> "vram"
    [] a \in Segments \ wr -> "none"
    [] a = IoApic -> "ioapic"
    [] a = Device -> "device"
    [] OTHER -> "ram"

(* What the processor reads in a segment.                                   *)
Contents(s) ==
  CASE ReadRoute(s) = "ram" -> ram[s]
    [] ReadRoute(s) \in {"bios", "vgabios"} -> "rom"
    [] OTHER -> "none"

(* A store of v, by one of the two kinds of functions.                      *)
Store(s, v, route) ==
  /\ ram' = IF route = "ram" THEN [ram EXCEPT ![s] = v] ELSE ram
  /\ UNCHANGED <<pam, smramc, frozen, rd, wr, smOpen, smEn, smiact, smram, behind>>

StoreVram(v, route) ==
  /\ smram' = IF route = "smram" THEN v ELSE smram
  /\ UNCHANGED <<pam, smramc, frozen, rd, wr, smOpen, smEn, smiact, ram, behind>>

(* The BIOS copies a segment to itself before it turns the shadow on.       *)
Shadow(s) ==
  /\ Contents(s) # "none"
  /\ \/ Store(s, Contents(s), WriteRoute(s))
     \/ Store(s, Contents(s), WriteStringRoute(s))

Write(s) ==
  \/ Store(s, "guest", WriteRoute(s))
  \/ Store(s, "guest", WriteStringRoute(s))

WriteVram ==
  LET who == IF smiact THEN "smm" ELSE "guest" IN
  \/ StoreVram(who, WriteRoute(Vram))
  \/ StoreVram(who, WriteStringRoute(Vram))

(* An access stays inside a dword of the configuration space.               *)
Configure ==
  \/ \E r \in Pams, n \in {1, 2, 4} :
       /\ (r % 4) + n <= 4
       /\ \E v \in [(r..r + n - 1) \cap Pams -> PamValues] : WritePam(r, n, v)
  \/ \E v \in SmramValues : WriteSmramc(v)

Next ==
  \/ Configure
  \/ \E a \in BOOLEAN : a # smiact /\ AssertSmiact(a)
  \/ Reset
  \/ \E s \in Tracked : Shadow(s) \/ Write(s)
  \/ WriteVram

Spec == Init /\ [][Next]_vars

(******************************* Correctness *******************************)
(* The two codings of the routing send every address to the same place,     *)
(* and a segment goes where its register says, unless the register was      *)
(* written behind another or is from before a reset.                        *)
RoutesAgree ==
  /\ \A a \in 0..OtherRam :
       ReadRoute(a) = ReadStringRoute(a) /\ WriteRoute(a) = WriteStringRoute(a)
  /\ \A s \in Segments : PamOf(s) \notin behind =>
       /\ s \in rd <=> ReadBit(s) \in pam[PamOf(s)]
       /\ s \in wr <=> WriteBit(s) \in pam[PamOf(s)]

(* What is read in a segment does not change while its register says that   *)
(* it cannot be written: the shadow of a BIOS is as good as its ROM.        *)
ShadowHolds ==
  \A s \in Tracked : LET r == PamOf(s) IN
    r \notin behind \cup behind' /\ pam[r] = pam'[r] /\ WriteBit(s) \notin pam[r] =>
      Contents(s)' = Contents(s)

(* A locked SMRAM stays locked, through resets too, and only a processor in *)
(* SMM writes it.                                                           *)
LockHolds ==
  "lock" \in smramc => /\ smramc' = smramc
                       /\ ~smiact => smram' = smram

BridgeRight == []RoutesAgree /\ [][ShadowHolds /\ LockHolds]_vars
=============================================================================
