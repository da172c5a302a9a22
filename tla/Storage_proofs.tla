--------------------------- MODULE Storage_proofs ---------------------------
(***************************************************************************)
(* Proofs about the floppy controller with its DMA channel and about the   *)
(* IDE controller, for all sizes of sectors, tracks, counts and blocks.    *)
(***************************************************************************)
EXTENDS Storage, TLAPS

(****************************** Arithmetic *********************************)
LEMMA MinOfTwo ==
  ASSUME NEW a \in Nat, NEW b \in Nat
  PROVE  Min({a, b}) = IF a <= b THEN a ELSE b
<1> DEFINE m == IF a <= b THEN a ELSE b
<1>1. m \in {a, b} /\ \A y \in {a, b} : m <= y
  OBVIOUS
<1>2. \A x \in {a, b} : (\A y \in {a, b} : x <= y) => x = m
  OBVIOUS
<1> QED
  BY <1>1, <1>2 DEF Min

(* A number of two digits.                                                 *)
LEMMA TwoDigits ==
  ASSUME NEW n \in Nat, n >= 1, NEW b \in 0 .. n - 1, NEW l \in 0 .. n - 1
  PROVE  b * n + l \in 0 .. n * n - 1
<1>1. b * n <= (n - 1) * n /\ b * n >= 0 /\ b * n \in Int
  BY SMT
<1>2. (n - 1) * n = n * n - n /\ n * n \in Int
  BY SMT
<1> QED
  BY <1>1, <1>2

(* The remainder of a number below twice the divisor.                      *)
LEMMA ModOnce ==
  ASSUME NEW m \in Nat, m >= 1, NEW x \in 0 .. 2 * m - 1
  PROVE  x % m = IF x < m THEN x ELSE x - m
BY SMT

(* A piece of s bytes: what is left and what has moved, with the count     *)
(* wrapping to its largest value at the end.                               *)
LEMMA PieceMoves ==
  ASSUME NEW l \in Nat, l >= 1, NEW k \in 0 .. l, NEW m \in 0 .. l, NEW s \in 1 .. k + 1
  PROVE  /\ (m + s) % (l + 1) \in 0 .. l
         /\ (IF k < s THEN l ELSE k - s) \in 0 .. l
         /\ ((IF k < s THEN l ELSE k - s) + ((m + s) % (l + 1))) % (l + 1) = (k + m) % (l + 1)
<1> DEFINE d == l + 1
           u == IF k < s THEN l ELSE k - s
<1>1. d \in Nat /\ d >= 1 /\ m + s \in 0 .. 2 * d - 1 /\ k + m \in 0 .. 2 * d - 1
  OBVIOUS
<1> HIDE DEF d
<1>2. (m + s) % d = IF m + s < d THEN m + s ELSE m + s - d
  BY <1>1
<1>3. (k + m) % d = IF k + m < d THEN k + m ELSE k + m - d
  BY <1>1
<1> DEFINE w == (m + s) % d
<1> HIDE DEF w
<1>4. u \in 0 .. l /\ w \in 0 .. l /\ u + w \in 0 .. 2 * d - 1
  BY <1>2 DEF w, d
<1> HIDE DEF u
<1>5. (u + w) % d = IF u + w < d THEN u + w ELSE u + w - d
  BY <1>1, <1>4
<1>6. (u + w) % d = (k + m) % d
  BY <1>2, <1>3, <1>5 DEF u, w, d
<1> QED
  BY <1>4, <1>6 DEF u, w, d

(******************************** The 8237 *********************************)
LEMMA LastType == Last \in Nat /\ Last >= 3 /\ Half \in Nat /\ Half >= 2 /\ Last + 1 = Half * Half
<1>1. Half \in Nat /\ Half >= 2
  BY DmaAssumption
<1>2. Half * Half \in Nat /\ Half * Half >= 4
  BY <1>1, SMT
<1> QED
  BY <1>1, <1>2 DEF Last

LEMMA CountType == Count = 0 .. Last
BY DEF Count, Last

(* Ports change counts only together, and never set a terminal count.      *)
LEMMA DmaPortsKeep ==
  ASSUME DmaTypeOK, CountedExactly, DmaPorts
  PROVE  DmaTypeOK' /\ CountedExactly' /\ tc' \subseteq tc
<1> USE LastType
<1>1. ASSUME NEW c \in Channels, NEW b \in Bytes, WriteCount(c, b)
      PROVE  DmaTypeOK' /\ CountedExactly' /\ tc' \subseteq tc
  <2>1. CASE flip[c]
    <3> DEFINE v == b * Half + low[c]
    <3>1. v \in 0 .. Last
      <4>1. b \in 0 .. Half - 1 /\ low[c] \in 0 .. Half - 1 /\ Half >= 1
        BY DEF DmaTypeOK, Bytes
      <4>2. v \in 0 .. Half * Half - 1
        BY <4>1, TwoDigits
      <4> QED
        BY <4>2 DEF Last
    <3>2. /\ base' = [base EXCEPT ![c] = v] /\ count' = [count EXCEPT ![c] = v]
          /\ moved' = [moved EXCEPT ![c] = 0] /\ flip' = [flip EXCEPT ![c] = FALSE]
          /\ low' = [low EXCEPT ![c] = 0] /\ UNCHANGED <<mask, held, tc>>
      BY <1>1, <2>1 DEF WriteCount
    <3> HIDE DEF v
    <3>3. DmaTypeOK'
      BY <3>1, <3>2, CountType DEF DmaTypeOK, Bytes
    <3>4. (v + 0) % (Last + 1) = v
      BY <3>1, ModOnce
    <3>5. CountedExactly'
      BY <3>1, <3>2, <3>4 DEF CountedExactly, DmaTypeOK
    <3> QED
      BY <3>2, <3>3, <3>5
  <2>2. CASE ~flip[c]
    BY <1>1, <2>2 DEF WriteCount, DmaTypeOK, CountedExactly
  <2> QED
    BY <2>1, <2>2
<1>2. ASSUME NEW c \in Channels, ReadCount(c)
      PROVE  DmaTypeOK' /\ CountedExactly' /\ tc' \subseteq tc
  BY <1>2 DEF ReadCount, DmaTypeOK, CountedExactly
<1>3. CASE ReadStatus
  BY <1>3 DEF ReadStatus, DmaTypeOK, CountedExactly
<1>4. CASE Control /\ UNCHANGED <<base, count, low, moved>>
  <2>1. CountedExactly'
    BY <1>4 DEF CountedExactly
  <2>2. mask' \subseteq Channels /\ held' \subseteq Holders /\ tc' \subseteq tc
        /\ flip' \in [Channels -> BOOLEAN]
    BY <1>4 DEF Control, DmaTypeOK
  <2> QED
    BY <1>4, <2>1, <2>2 DEF DmaTypeOK
<1>5. CASE Cleared
  <2>1. DmaTypeOK' /\ tc' \subseteq tc
    BY <1>5, CountType DEF Cleared, DmaTypeOK, Bytes
  <2>2. (0 + 0) % (Last + 1) = 0
    BY ModOnce
  <2> QED
    BY <1>5, <2>1, <2>2 DEF Cleared, CountedExactly
<1> QED
  BY <1>1, <1>2, <1>3, <1>4, <1>5 DEF DmaPorts

(* A piece moves exactly what the count goes down by; a terminal count     *)
(* that appears is that of a whole transfer.                               *)
LEMMA RunKeeps ==
  ASSUME DmaTypeOK, CountedExactly, NEW c \in Channels, NEW n \in Nat \ {0},
         RunDmaTask(c, n)
  PROVE  /\ DmaTypeOK' /\ CountedExactly'
         /\ tc \subseteq tc'
         /\ c \in tc' /\ c \notin tc => count'[c] = Last
<1> USE LastType
<1>1. CASE Open(c)
  <2> DEFINE size == Piece(c, n)
             k == count[c]
             m == moved[c]
             k1 == IF k < size THEN Last ELSE k - size
             m1 == (m + size) % (Last + 1)
  <2>1. k \in 0 .. Last /\ m \in 0 .. Last /\ base[c] \in 0 .. Last
    BY CountType DEF DmaTypeOK
  <2>2. size = IF k + 1 <= n THEN k + 1 ELSE n
    <3>1. k + 1 \in Nat /\ n \in Nat
      BY <2>1
    <3>2. size = Min({k + 1, n})
      BY DEF Piece
    <3> HIDE DEF size, k
    <3> QED
      BY <3>1, <3>2, MinOfTwo
  <2>3. size \in 1 .. k + 1
    BY <2>1, <2>2
  <2>4. /\ tc' = IF k < size THEN tc \cup {c} ELSE tc
        /\ count' = [count EXCEPT ![c] = k1] /\ moved' = [moved EXCEPT ![c] = m1]
        /\ UNCHANGED <<base, low, flip, mask, held>>
    BY <1>1 DEF RunDmaTask, DmaTypeOK
  <2> HIDE DEF size
  <2>6. /\ m1 \in 0 .. Last /\ k1 \in 0 .. Last
        /\ (k1 + m1) % (Last + 1) = (k + m) % (Last + 1)
    <3> HIDE DEF k, m
    <3> QED
      BY <2>1, <2>3, PieceMoves
  <2>10. DmaTypeOK'
    <3> HIDE DEF k, m, k1, m1
    <3> QED
      BY <2>4, <2>6, CountType DEF DmaTypeOK
  <2>11. CountedExactly'
    <3> HIDE DEF k1, m1
    <3>1. base[c] = (k + m) % (Last + 1)
      BY DEF CountedExactly
    <3>2. count'[c] = k1 /\ moved'[c] = m1
      BY <2>4 DEF DmaTypeOK
    <3>3. \A d \in Channels \ {c} : count'[d] = count[d] /\ moved'[d] = moved[d]
      BY <2>4 DEF DmaTypeOK
    <3> QED
      BY <2>4, <2>6, <3>1, <3>2, <3>3 DEF CountedExactly
  <2>12. c \in tc' /\ c \notin tc => count'[c] = Last
    BY <2>4 DEF DmaTypeOK
  <2> QED
    BY <2>4, <2>10, <2>11, <2>12
<1>2. CASE ~Open(c)
  BY <1>2 DEF RunDmaTask, dma, DmaTypeOK, CountedExactly
<1> QED
  BY <1>1, <1>2

(******************************* The floppy ********************************)
(* A terminal count that was not there when the transfer began is its own. *)
StaleKnown == task /\ ~stale => Ch \notin tc

(* A command that is being collected is one the guest gives.               *)
CommandKnown == top # 0 => cmd \in Codes

FloppyInv == TypeOK /\ PhaseAgrees /\ CountedExactly /\ StaleKnown /\ CommandKnown

LEMMA FloppyBegins == Init => FloppyInv
<1> SUFFICES ASSUME Init PROVE FloppyInv
  OBVIOUS
<1>1. DmaTypeOK /\ CountedExactly
  <2>1. (0 + 0) % (Last + 1) = 0
    BY LastType
  <2>2. 0 \in Count /\ 0 \in Bytes
    BY LastType, CountType DEF Bytes
  <2> QED
    BY <2>1, <2>2 DEF Init, DmaInit, DmaTypeOK, CountedExactly
<1>2. TypeOK
  <2>1. [d \in Drives |-> [cyl |-> 0, head |-> 0, sn |-> 0]] \in [Drives -> Place]
    BY FloppyAssumption DEF Place
  <2>2. dor \in DorValue /\ par \in [eot : 1 .. Eot, mt : BOOLEAN] /\ sel \in Drives
    BY FloppyAssumption DEF Init, DorValue
  <2>3. cmd \in DOMAIN Needs
    BY DEF Init, Needs
  <2>4. /\ top \in 0 .. 9 /\ left \in 0 .. 10 /\ known \subseteq Drives
        /\ msr \in {"reset", "command", "busy", "result"}
    BY DEF Init
  <2>5. task \in BOOLEAN /\ looping \in BOOLEAN /\ irq \in BOOLEAN /\ mixed \in BOOLEAN
        /\ stale \in BOOLEAN
    BY DEF Init
  <2>6. place \in [Drives -> Place]
    BY <2>1 DEF Init
  <2> QED
    BY <1>1, <2>2, <2>3, <2>4, <2>5, <2>6 DEF TypeOK
<1> QED
  BY <1>1, <1>2 DEF Init, FloppyInv, PhaseAgrees, StaleKnown, CommandKnown

LEMMA NeedsType == \A c \in DOMAIN Needs : Needs[c] \in 0 .. 9 /\ Results[c] \in 0 .. 10
BY DEF Needs, Results

(* The last byte of a command.                                             *)
LEMMA ExecuteKeeps ==
  ASSUME FloppyInv, NEW c \in Codes, NEW p \in Params, msr = "command",
         Execute(c, p), StillMixed, UNCHANGED <<dma, looping, known>>
  PROVE  FloppyInv'
<1> DEFINE t == c \in Transfers
           d == IF t THEN Unit(c) ELSE IF c \in Selects THEN p.unit ELSE sel
           starts == t /\ ~Bad(d, p)
<1>1. c \in DOMAIN Needs /\ Results[c] \in 0 .. 10
  BY FloppyAssumption, NeedsType
<1>2. p \in Parameter
  BY FloppyAssumption
<1>3. d \in Drives
  BY <1>2, FloppyAssumption DEF Transfers, Unit, Parameter, FloppyInv, TypeOK
<1>4. /\ sel' = d /\ cmd' = c
      /\ par' = IF starts THEN [eot |-> p.eot, mt |-> p.mt] ELSE par
      /\ place' =
           IF starts THEN [place EXCEPT ![d] = [cyl |-> p.cyl, head |-> p.head, sn |-> p.sn]]
           ELSE IF c \in {"seek", "recalib"} THEN Sought(c, p, d) ELSE place
      /\ task' = (task \/ starts)
      /\ stale' = IF starts THEN Ch \in tc ELSE task /\ stale
      /\ left' = IF starts THEN 0 ELSE IF t THEN 2 ELSE Results[c]
      /\ msr' = IF task' THEN "busy" ELSE IF left' # 0 THEN "result" ELSE "command"
      /\ top' = IF left' = 0 /\ ~task' THEN 0 ELSE Min({top + 1, 9})
      /\ irq' = (~task' /\ c # "int" /\ dor.int)
      /\ dor' = dor
  BY DEF Execute
<1> HIDE DEF d, starts
<1>5. place' \in [Drives -> Place]
  <2>1. place \in [Drives -> Place]
    BY DEF FloppyInv, TypeOK
  <2>2. [cyl |-> p.cyl, head |-> p.head, sn |-> p.sn] \in Place
    BY <1>2, FloppyAssumption DEF Parameter, Place
  <2>3. Sought(c, p, d) \in [Drives -> Place]
    <3> DEFINE y == IF c = "seek" THEN p.cyl ELSE 0
               x == [[place[d] EXCEPT !.cyl = y] EXCEPT !.head = 0]
    <3>1. y \in 0 .. Cylinders - 1
      BY <1>2, FloppyAssumption DEF Parameter
    <3>2. place[d] \in Place
      BY <1>3, <2>1
    <3>3. x \in Place
      BY <3>1, <3>2 DEF Place
    <3>4. Sought(c, p, d) = [place EXCEPT ![d] = x]
      BY <1>3, <2>1 DEF Sought
    <3> QED
      BY <2>1, <3>3, <3>4
  <2> QED
    BY <1>3, <1>4, <2>1, <2>2, <2>3
<1>6. top' \in 0 .. 9
  <2>1. top \in 0 .. 9
    BY DEF FloppyInv, TypeOK
  <2>2. top + 1 \in Nat /\ 9 \in Nat
    BY <2>1
  <2>3. Min({top + 1, 9}) \in 0 .. 9
    BY <2>1, <2>2, MinOfTwo
  <2> QED
    BY <1>4, <2>3
<1>7. left' \in 0 .. 10
  BY <1>1, <1>4
<1>8. par' \in [eot : 1 .. Eot, mt : BOOLEAN]
  BY <1>2, <1>4 DEF Parameter, FloppyInv, TypeOK
<1>9. DmaTypeOK' /\ CountedExactly' /\ tc' = tc
  BY DEF FloppyInv, TypeOK, dma, DmaTypeOK, CountedExactly
<1>10. dor \in DorValue /\ dor.int \in BOOLEAN
  BY DEF FloppyInv, TypeOK, DorValue
<1>11. TypeOK'
  <2>1. task' \in BOOLEAN /\ stale' \in BOOLEAN
    <3>1. task \in BOOLEAN /\ stale \in BOOLEAN
      BY DEF FloppyInv, TypeOK
    <3>2. task' = (task \/ starts) /\ stale' = IF starts THEN Ch \in tc ELSE task /\ stale
      BY <1>4
    <3>3. CASE starts
      BY <3>2, <3>3
    <3>4. CASE ~starts
      BY <3>1, <3>2, <3>4
    <3> QED
      BY <3>3, <3>4
  <2>3. irq' \in BOOLEAN
    BY <1>4, <1>10, Zenon
  <2>4. mixed' \in BOOLEAN
    BY Zenon DEF StillMixed
  <2>2. msr' \in {"reset", "command", "busy", "result"}
    BY <1>4
  <2> QED
    BY <1>1, <1>3, <1>4, <1>5, <1>6, <1>7, <1>8, <1>9, <1>10, <2>1, <2>2, <2>3, <2>4
    DEF FloppyInv, TypeOK
<1>12. StaleKnown'
  BY <1>4, <1>9 DEF FloppyInv, StaleKnown
<1>13. CommandKnown'
  BY <1>4 DEF CommandKnown
<1>14. PhaseAgrees'
  <2>1. SUFFICES ASSUME ~mixed' PROVE /\ msr' = "busy" <=> task'
                                      /\ msr' = "result" <=> left' # 0
                                      /\ msr' = "command" => top' = 0
    BY DEF PhaseAgrees
  <2>2. ~task \/ ~Mid'
    BY <2>1 DEF StillMixed, FloppyInv, PhaseAgrees
  <2>3. task' => left' = 0
    BY <1>4, <2>2 DEF Mid
  <2> QED
    BY <1>4, <2>3
<1> QED
  BY <1>9, <1>11, <1>12, <1>13, <1>14 DEF FloppyInv

(* One more byte of a command.                                             *)
LEMMA WriteDataKeeps ==
  ASSUME FloppyInv, NEW c \in Codes, NEW p \in Params, WriteData(c, p)
  PROVE  FloppyInv'
<1> DEFINE now == IF top = 0 THEN c ELSE cmd
<1>1. now \in Codes /\ now \in DOMAIN Needs
  BY FloppyAssumption DEF FloppyInv, CommandKnown
<1>2. CASE Needs[now] <= top + 1
  BY <1>1, <1>2, ExecuteKeeps DEF WriteData
<1>3. CASE ~(Needs[now] <= top + 1)
  <2>1. /\ cmd' = now /\ top' = top + 1 /\ irq' = FALSE /\ msr = "command"
        /\ UNCHANGED <<dor, msr, par, left, task, sel, place, stale, dma, looping, known>>
        /\ StillMixed
    BY <1>3 DEF WriteData
  <2> HIDE DEF now
  <2>2. top \in 0 .. 9 /\ Needs[now] \in 0 .. 9
    BY <1>1, NeedsType DEF FloppyInv, TypeOK
  <2>3. top' \in 0 .. 9 /\ top' < Needs[cmd'] /\ top' # 0
    BY <1>3, <2>1, <2>2
  <2>4. DmaTypeOK' /\ CountedExactly' /\ tc' = tc
    BY <2>1 DEF FloppyInv, TypeOK, dma, DmaTypeOK, CountedExactly
  <2>5. mixed' = mixed
    BY <2>1, <2>3 DEF StillMixed, Mid, FloppyInv, TypeOK
  <2>6. TypeOK'
    BY <1>1, <2>1, <2>3, <2>4, <2>5 DEF FloppyInv, TypeOK
  <2>7. PhaseAgrees'
    BY <2>1, <2>3, <2>5 DEF FloppyInv, PhaseAgrees
  <2> QED
    BY <1>1, <2>1, <2>4, <2>6, <2>7 DEF FloppyInv, StaleKnown, CommandKnown
<1> QED
  BY <1>2, <1>3

(* The remaining accesses of the guest to the controller.                  *)
LEMMA ReadDataKeeps == ASSUME FloppyInv, ReadData PROVE FloppyInv'
<1>1. DmaTypeOK' /\ CountedExactly' /\ tc' = tc
  BY DEF ReadData, FloppyInv, TypeOK, dma, DmaTypeOK, CountedExactly
<1>2. TypeOK'
  <2>1. left' \in 0 .. 10 /\ top' \in 0 .. 9 /\ msr' \in {"command", "result"}
    BY DEF ReadData, FloppyInv, TypeOK
  <2> QED
    BY <1>1, <2>1 DEF ReadData, FloppyInv, TypeOK, StillMixed, Mid
<1>3. PhaseAgrees'
  <2>1. SUFFICES ASSUME ~mixed' PROVE /\ msr' = "busy" <=> task'
                                      /\ msr' = "result" <=> left' # 0
                                      /\ msr' = "command" => top' = 0
    BY DEF PhaseAgrees
  <2>2. ~task
    BY <2>1 DEF ReadData, StillMixed, Mid, FloppyInv, PhaseAgrees
  <2> QED
    BY <2>2 DEF ReadData, FloppyInv, TypeOK
<1> QED
  BY <1>1, <1>2, <1>3 DEF FloppyInv, ReadData, StaleKnown, CommandKnown

LEMMA WriteDorKeeps == ASSUME FloppyInv, NEW v \in Dors, WriteDor(v) PROVE FloppyInv'
<1>1. DmaTypeOK' /\ CountedExactly' /\ tc' = tc
  BY DEF WriteDor, FloppyInv, TypeOK, dma, DmaTypeOK, CountedExactly
<1>2. v \in DorValue /\ dor.sel \in Drives
  BY FloppyAssumption DEF FloppyInv, TypeOK, DorValue
<1>3. place' \in [Drives -> Place]
  <2>1. [place[dor.sel] EXCEPT !.cyl = 0] \in Place /\ place \in [Drives -> Place]
    BY <1>2, FloppyAssumption DEF FloppyInv, TypeOK, Place
  <2>2. [place EXCEPT ![dor.sel].cyl = 0] = [place EXCEPT ![dor.sel] = [place[dor.sel] EXCEPT !.cyl = 0]]
    BY <1>2, <2>1
  <2> QED
    BY <1>2, <2>1, <2>2 DEF WriteDor
<1>4. TypeOK'
  <2>1. /\ msr' \in {"reset", "command"} /\ top' \in 0 .. 9 /\ left' \in 0 .. 10
        /\ sel' \in Drives /\ irq' \in BOOLEAN
    BY <1>2 DEF WriteDor, FloppyInv, TypeOK
  <2> QED
    BY <1>1, <1>2, <1>3, <2>1 DEF WriteDor, FloppyInv, TypeOK, Mid
<1>5. PhaseAgrees'
  BY DEF WriteDor, PhaseAgrees, Mid
<1> QED
  BY <1>1, <1>4, <1>5 DEF FloppyInv, WriteDor, StaleKnown, CommandKnown

(* The place of the next sector is a place of the disk.                    *)
LEMMA PlaceStays ==
  ASSUME NEW x \in Place, par \in [eot : 1 .. Eot, mt : BOOLEAN]
  PROVE  Next1(x) \in Place
<1>1. /\ x.cyl \in 0 .. Cylinders - 1 /\ x.head \in {0, 1} /\ x.sn \in 0 .. SnWrap - 1
      /\ Cylinders \in Nat \ {0} /\ SnWrap \in Nat /\ SnWrap > 1
  BY FloppyAssumption DEF Place
<1>2. (x.sn + 1) % SnWrap \in 0 .. SnWrap - 1 /\ 1 \in 0 .. SnWrap - 1
  BY <1>1
<1>3. (x.cyl + x.head) % Cylinders \in 0 .. Cylinders - 1 /\ 1 - x.head \in {0, 1}
  BY <1>1
<1> QED
  BY <1>1, <1>2, <1>3 DEF Next1, Place

LEMMA MoveSectorKeeps == ASSUME FloppyInv, MoveSector PROVE FloppyInv'
<1>1. Ch \in Channels /\ Sector \in Nat \ {0}
  BY FloppyAssumption DEF Ch
<1>2. RunDmaTask(Ch, Sector) /\ DmaTypeOK /\ CountedExactly
  BY DEF MoveSector, FloppyInv, TypeOK
<1>3. DmaTypeOK' /\ CountedExactly'
  BY <1>1, <1>2, RunKeeps
<1>4. place' \in [Drives -> Place]
  <2>1. place \in [Drives -> Place] /\ sel \in Drives /\ par \in [eot : 1 .. Eot, mt : BOOLEAN]
    BY DEF FloppyInv, TypeOK
  <2>2. Next1(place[sel]) \in Place
    BY <2>1, PlaceStays
  <2> QED
    BY <2>1, <2>2 DEF MoveSector
<1>5. TypeOK'
  <2>1. task' \in BOOLEAN /\ looping' \in BOOLEAN /\ irq' \in BOOLEAN /\ left' \in 0 .. 10
    BY DEF MoveSector, FloppyInv, TypeOK
  <2>2. msr' \in {"reset", "command", "busy", "result"} /\ stale' \in BOOLEAN /\ mixed' \in BOOLEAN
    BY DEF MoveSector, FloppyInv, TypeOK, StillMixed, Mid
  <2> QED
    BY <1>3, <1>4, <2>1, <2>2 DEF MoveSector, FloppyInv, TypeOK
<1>6. PhaseAgrees'
  <2>1. SUFFICES ASSUME ~mixed' PROVE /\ msr' = "busy" <=> task'
                                      /\ msr' = "result" <=> left' # 0
                                      /\ msr' = "command" => top' = 0
    BY DEF PhaseAgrees
  <2>2. ~mixed \/ ~Mid'
    BY <2>1 DEF MoveSector, StillMixed
  <2>3. ~mixed
    BY <2>2 DEF MoveSector, Mid
  <2> QED
    BY <2>3 DEF MoveSector, FloppyInv, PhaseAgrees
<1>7. StaleKnown'
  BY DEF MoveSector, StaleKnown
<1> QED
  BY <1>3, <1>5, <1>6, <1>7 DEF FloppyInv, MoveSector, CommandKnown

LEMMA FloppyStep == FloppyInv /\ [Next]_vars => FloppyInv'
<1> SUFFICES ASSUME FloppyInv, [Next]_vars PROVE FloppyInv'
  OBVIOUS
<1>1. ASSUME NEW c \in Codes, NEW p \in Params, WriteData(c, p) PROVE FloppyInv'
  BY <1>1, WriteDataKeeps
<1>2. CASE ReadData
  BY <1>2, ReadDataKeeps
<1>3. ASSUME NEW v \in Dors, WriteDor(v) PROVE FloppyInv'
  BY <1>3, WriteDorKeeps
<1>4. CASE MoveSector
  BY <1>4, MoveSectorKeeps
<1>5. CASE ProgramDma
  <2>1. DmaTypeOK' /\ CountedExactly' /\ tc' \subseteq tc
    BY <1>5, DmaPortsKeep DEF ProgramDma, FloppyInv, TypeOK
  <2>2. UNCHANGED <<fdc, looping, known, mixed, stale>> /\ irq' = FALSE
    BY <1>5 DEF ProgramDma
  <2>3. TypeOK'
    BY <2>1, <2>2 DEF FloppyInv, TypeOK, fdc
  <2> QED
    BY <2>1, <2>2, <2>3 DEF FloppyInv, fdc, PhaseAgrees, StaleKnown, CommandKnown
<1>6. ASSUME NEW d \in Drives, Mount(d) PROVE FloppyInv'
  <2>1. DmaTypeOK' /\ CountedExactly' /\ tc' = tc
    BY <1>6 DEF Mount, FloppyInv, TypeOK, dma, DmaTypeOK, CountedExactly
  <2>2. TypeOK'
    BY <1>6, <2>1 DEF Mount, FloppyInv, TypeOK, fdc
  <2> QED
    BY <1>6, <2>1, <2>2 DEF Mount, FloppyInv, fdc, PhaseAgrees, StaleKnown, CommandKnown
<1>7. CASE UNCHANGED vars
  <2>1. DmaTypeOK' /\ CountedExactly' /\ tc' = tc
    BY <1>7 DEF vars, FloppyInv, TypeOK, dma, DmaTypeOK, CountedExactly
  <2>2. TypeOK'
    BY <1>7, <2>1 DEF vars, FloppyInv, TypeOK, fdc
  <2> QED
    BY <1>7, <2>1, <2>2 DEF vars, FloppyInv, fdc, PhaseAgrees, StaleKnown, CommandKnown
<1> QED
  BY <1>1, <1>2, <1>3, <1>4, <1>5, <1>6, <1>7 DEF Next

(* The sectors of a disk in order, e to a track and two tracks to each of  *)
(* n cylinders.                                                            *)
LEMMA Tracks ==
  ASSUME NEW e \in Nat, e >= 1, NEW n \in Nat, n >= 1, NEW t \in 0 .. 2 * n - 1, NEW s \in 1 .. e
  PROVE  /\ t * e + s \in Nat /\ 2 * e * n \in Nat /\ t * e + s <= 2 * e * n
         /\ t * e + s = 2 * e * n <=> t = 2 * n - 1 /\ s = e
         /\ (t + 1) * e + 1 = t * e + e + 1
<1>1. t * e \in Nat /\ e * n \in Nat /\ 2 * e * n = 2 * (e * n) /\ (t + 1) * e = t * e + e
  BY SMT
<1>2. (2 * n - 1) * e = 2 * (e * n) - e
  BY SMT
<1>3. CASE t = 2 * n - 1
  BY <1>1, <1>2, <1>3
<1>4. CASE t < 2 * n - 1
  <2>1. (t + 1) * e <= (2 * n - 1) * e
    BY <1>4, SMT
  <2> QED
    BY <1>1, <1>2, <1>4, <2>1
<1> QED
  BY <1>3, <1>4

(* A multi-track transfer goes on with the next sector of the disk, and    *)
(* after the last one with the first.                                      *)
LEMMA NextIsConsecutive ==
  ASSUME NEW x \in Place, par \in [eot : 1 .. Eot, mt : BOOLEAN], par.mt, x.sn \in 1 .. par.eot
  PROVE  Linear(Next1(x)) = (Linear(x) % (2 * par.eot * Cylinders)) + 1
<1> DEFINE e == par.eot
           n == Cylinders
           t == 2 * x.cyl + x.head
           s == x.sn
           y == Next1(x)
<1>1. /\ x.cyl \in 0 .. n - 1 /\ x.head \in {0, 1} /\ s \in 1 .. e
      /\ n \in Nat /\ n >= 1 /\ e \in Nat /\ e >= 1 /\ e <= Eot
      /\ SnWrap \in Nat /\ SnWrap > Eot + 1 /\ Eot \in Nat
  BY FloppyAssumption DEF Place
<1>2. t \in 0 .. 2 * n - 1 /\ t * e + s = Linear(x)
  BY <1>1 DEF Linear
<1>3. /\ t * e + s \in Nat /\ 2 * e * n \in Nat /\ t * e + s <= 2 * e * n
      /\ t * e + s = 2 * e * n <=> t = 2 * n - 1 /\ s = e
      /\ (t + 1) * e + 1 = t * e + e + 1
  <2> HIDE DEF t, e, n, s
  <2> QED
    BY <1>1, <1>2, Tracks
<1>4. t * e + s >= 1
  <2>1. t * e \in Nat
    BY <1>1, <1>2, SMT
  <2> QED
    BY <1>1, <2>1
<1>5. (t * e + s) % (2 * e * n) = IF t = 2 * n - 1 /\ s = e THEN 0 ELSE t * e + s
  <2> DEFINE l == t * e + s
             k == 2 * e * n
  <2>1. l \in Nat /\ k \in Nat /\ 1 <= l /\ l <= k /\ (l = k <=> t = 2 * n - 1 /\ s = e)
    BY <1>3, <1>4
  <2> HIDE DEF l, k
  <2>2. l % k = IF l = k THEN 0 ELSE l
    BY <2>1
  <2>3. l % k = IF t = 2 * n - 1 /\ s = e THEN 0 ELSE l
    BY <2>1, <2>2
  <2> QED
    BY <2>3 DEF l, k
<1>6. CASE s # e
  <2>1. (x.sn + 1) % SnWrap = x.sn + 1
    BY <1>1
  <2>2. y.cyl = x.cyl /\ y.head = x.head /\ y.sn = x.sn + 1
    BY <1>6, <2>1 DEF Next1, Place
  <2>3. t * e \in Nat
    BY <1>1, <1>2, SMT
  <2>4. Linear(y) = t * e + (s + 1)
    BY <2>2 DEF Linear
  <2>5. t * e + (s + 1) = t * e + s + 1
    <3> HIDE DEF t, e
    <3> QED
      BY <1>1, <2>3
  <2> QED
    BY <1>2, <1>5, <1>6, <2>4, <2>5
<1>7. CASE s = e /\ t = 2 * n - 1
  <2>1. x.cyl = n - 1 /\ x.head = 1
    BY <1>1, <1>7
  <2>2. (x.cyl + x.head) % n = 0 /\ 1 - x.head = 0
    BY <1>1, <2>1
  <2>3. y.cyl = 0 /\ y.head = 0 /\ y.sn = 1
    BY <1>7, <2>2 DEF Next1
  <2>4. Linear(y) = 1
    BY <1>1, <2>3 DEF Linear
  <2> QED
    BY <1>2, <1>5, <1>7, <2>4
<1>8. CASE s = e /\ t # 2 * n - 1
  <2>1. y = [cyl |-> (x.cyl + x.head) % n, head |-> 1 - x.head, sn |-> 1]
    BY <1>8 DEF Next1
  <2>2. 2 * y.cyl + y.head = t + 1 /\ y.sn = 1
    <3>1. CASE x.head = 0
      <4>1. (x.cyl + x.head) % n = x.cyl
        BY <1>1, <3>1
      <4> QED
        BY <1>1, <2>1, <3>1, <4>1
    <3>2. CASE x.head = 1
      <4>1. x.cyl + 1 < n
        BY <1>1, <1>8, <3>2
      <4>2. (x.cyl + x.head) % n = x.cyl + 1
        BY <1>1, <3>2, <4>1
      <4> QED
        BY <1>1, <2>1, <3>2, <4>2
    <3> QED
      BY <1>1, <3>1, <3>2
  <2>3. Linear(y) = (t + 1) * e + 1
    BY <2>2 DEF Linear
  <2>4. (t + 1) * e + 1 = (t * e + s) + 1
    BY <1>3, <1>8
  <2> QED
    BY <1>2, <1>5, <1>8, <2>3, <2>4
<1> QED
  BY <1>6, <1>7, <1>8

(* What a step of the floppy controller may do to a transfer.              *)
LEMMA TransferStep ==
  ASSUME FloppyInv, [Next]_vars
  PROVE  /\ task /\ ~task' => count'[Ch] = Last \/ stale
         /\ MoveSector /\ par.mt /\ place[sel].sn \in 1 .. par.eot =>
              Linear(place'[sel]) = (Linear(place[sel]) % (2 * par.eot * Cylinders)) + 1
<1>1. ASSUME task, ~task' PROVE count'[Ch] = Last \/ stale
  <2>1. MoveSector
    <3>1. ASSUME NEW c \in Codes, NEW p \in Params, WriteData(c, p) PROVE task'
      BY <1>1, <3>1 DEF WriteData, Execute
    <3>2. ~ReadData /\ ~ProgramDma /\ ~(\E v \in Dors : WriteDor(v))
          /\ ~(\E d \in Drives : Mount(d)) /\ ~UNCHANGED vars
      BY <1>1 DEF vars, fdc, ReadData, WriteDor, ProgramDma, Mount
    <3> QED
      BY <1>1, <3>1, <3>2 DEF Next
  <2>2. Ch \in tc' /\ RunDmaTask(Ch, Sector)
    BY <1>1, <2>1 DEF MoveSector
  <2>3. Ch \in Channels /\ Sector \in Nat \ {0}
    BY FloppyAssumption DEF Ch
  <2>4. DmaTypeOK /\ CountedExactly
    BY DEF FloppyInv, TypeOK
  <2>5. Ch \notin tc => count'[Ch] = Last
    BY <2>2, <2>3, <2>4, RunKeeps
  <2> QED
    BY <1>1, <2>5 DEF FloppyInv, StaleKnown
<1>2. ASSUME MoveSector, par.mt, place[sel].sn \in 1 .. par.eot
      PROVE  Linear(place'[sel]) = (Linear(place[sel]) % (2 * par.eot * Cylinders)) + 1
  <2>1. place \in [Drives -> Place] /\ sel \in Drives /\ par \in [eot : 1 .. Eot, mt : BOOLEAN]
    BY DEF FloppyInv, TypeOK
  <2>2. place'[sel] = Next1(place[sel])
    BY <1>2, <2>1 DEF MoveSector
  <2>3. place[sel] \in Place
    BY <2>1
  <2> QED
    BY <1>2, <2>1, <2>2, <2>3, NextIsConsecutive
<1> QED
  BY <1>1, <1>2

(******************************** The IDE **********************************)
(* How far the buffer is read or written, and what the driver still moves  *)
(* of the block it was told of.                                            *)
PointerInside ==
  /\ kind \in {"in", "out"} => ptr < Words
  /\ kind = "pin" => ptr <= Words /\ blk >= 1 /\ limit >= 1
  /\ kind = "packet" => ptr + quota <= PacketWords /\ (ptr < PacketWords => told = limit)
  /\ kind = "devin" =>
       /\ ptr + quota <= Words
       /\ status = "data" => IF quota = 0 THEN ptr = 0 ELSE ptr + quota = Words
  /\ kind = "pdevin" =>
       /\ ptr + quota <= told
       /\ status = "data" => /\ limit <= told
                             /\ IF quota = 0 THEN ptr = 0 ELSE ptr + quota = told

(* A driver that waits has moved its block.                                *)
WaitsForBlock == waiting => quota = 0

(* Data goes to the drive the command was given to.                        *)
OwnDrive == status = "data" \/ quota > 0 => from \in {isel, 2}

(* The controller's two counters hold the words that are owed.             *)
OwedRight ==
  status = "data" /\ kind \in I!UserData /\ owed > 0 =>
    ptr < Words /\ ileft >= 1 /\ owed = Words * ileft - ptr

(* Before a block of a read begins, and within it: the sectors up to the   *)
(* next interrupt are those the driver was told of.  For a CD they are if  *)
(* the byte count limit is a whole number of sectors.                      *)
Smaller(a, b) == IF a <= b THEN a ELSE b

DiskBlock ==
  kind = "in" /\ from # 2 =>
    /\ quota > 0 => /\ status = "data" /\ ileft >= 1 /\ blk < multi[isel]
                    /\ quota = Words * Smaller(multi[isel] - blk, ileft) - ptr
    /\ quota = 0 /\ status = "data" => blk = 0 /\ ptr = 0 /\ ileft >= 1 /\ multi[isel] >= 1

Exact == from # 2 /\ I!Aligned(limit)
Full == I!Sectors(limit)

CdBlock ==
  kind = "pin" /\ Exact =>
    /\ status = "data" /\ Full <= ileft => told = Words * Full
    /\ quota > 0 => /\ status = "data" /\ ileft >= 1 /\ ptr < Words /\ blk <= Full
                    /\ quota = Words * Smaller(ileft, blk) - ptr
    /\ quota = 0 /\ status = "data" =>
         ptr = 0 /\ blk = Full /\ told = Words * Smaller(ileft, Full)

(* The type invariant without the bound of the pointer, which the next     *)
(* part gives.                                                             *)
Most == I!Max(Limits)

IdeTypes ==
  /\ status \in {"absent", "ready", "data", "error", "reset"}
  /\ nien \in BOOLEAN /\ isel \in I!Devices /\ kind \in I!Kinds
  /\ ptr \in Nat /\ ileft \in 0 .. Wrap - 1
  /\ blk \in Nat /\ limit \in 0 .. Most /\ told \in 0 .. Most
  /\ multi \in [I!Devices -> Multis \cup {0}] /\ image \subseteq I!Devices
  /\ iirq \in BOOLEAN /\ waiting \in BOOLEAN /\ quota \in Nat
  /\ owed \in Nat /\ from \in 0 .. 2

IdeInv ==
  /\ IdeTypes /\ PointerInside /\ WaitsForBlock /\ OwnDrive /\ OwedRight
  /\ DiskBlock /\ CdBlock

LEMMA IdeConstants ==
  I!IdeAssumption =>
    /\ Words \in Nat /\ Words >= 1 /\ PacketWords \in Nat /\ PacketWords >= 1
    /\ PerBlock \in Nat /\ PerBlock >= 1 /\ AllSectors \in Nat /\ AllSectors >= 1
    /\ Wrap \in Nat /\ Wrap >= 1
    /\ AllSectors < Wrap /\ \A n \in Counts : n \in Nat /\ n < Wrap /\ PerBlock * n \in 0 .. Wrap - 1
    /\ Most \in Limits /\ Most \in Nat
    /\ \A l \in Limits : l \in 0 .. Most
<1> HAVE I!IdeAssumption
<1>1. /\ Words \in Nat /\ Words >= 1 /\ PacketWords \in Nat /\ PacketWords >= 1
      /\ PerBlock \in Nat /\ PerBlock >= 1 /\ AllSectors \in Nat /\ AllSectors >= 1
      /\ Wrap \in Nat /\ Counts \subseteq Nat /\ Limits \subseteq Nat
      /\ \A n \in Counts \cup {AllSectors} : PerBlock * n < Wrap
      /\ \E m \in Limits : \A l \in Limits : l <= m
  BY DEF I!IdeAssumption
<1>2. ASSUME NEW n \in Counts \cup {AllSectors}
      PROVE  n \in Nat /\ n < Wrap /\ PerBlock * n \in 0 .. Wrap - 1
  <2>1. n \in Nat /\ PerBlock * n < Wrap
    BY <1>1
  <2>2. PerBlock * n >= n /\ PerBlock * n \in Nat
    BY <1>1, <2>1, SMT
  <2> QED
    BY <1>1, <2>1, <2>2
<1>3. Most \in Limits /\ \A l \in Limits : l <= Most
  <2>1. PICK m \in Limits : \A l \in Limits : l <= m
    BY <1>1
  <2>2. \E x \in Limits : \A y \in Limits : x >= y
    BY <1>1, <2>1
  <2>3. Most \in Limits /\ \A y \in Limits : Most >= y
    BY <2>2 DEF Most, I!Max
  <2> QED
    BY <1>1, <2>3
<1>4. Most \in Nat /\ \A l \in Limits : l \in 0 .. Most
  BY <1>1, <1>3
<1>5. AllSectors < Wrap /\ Wrap >= 1
  BY <1>1, <1>2
<1>6. \A n \in Counts : n \in Nat /\ n < Wrap /\ PerBlock * n \in 0 .. Wrap - 1
  BY <1>2
<1> HIDE DEF Most
<1> QED
  BY <1>1, <1>3, <1>4, <1>5, <1>6

(* A byte count limit in sectors, and fewer of them in words.              *)
LEMMA SectorsFit ==
  ASSUME I!IdeAssumption, NEW l \in Nat
  PROVE  /\ I!Sectors(l) \in Nat /\ (l >= 1 => I!Sectors(l) >= 1)
         /\ \A k \in Nat : k < I!Sectors(l) => Words * k \in 0 .. l
<1> DEFINE w == Words
           q == (l + w - 1) \div w
<1>1. w \in Nat /\ w >= 1
  BY IdeConstants
<1> HIDE DEF w
<1>2. q \in Nat /\ (l >= 1 => q >= 1) /\ w * q <= l + w - 1
  BY <1>1, SMT
<1>3. I!Sectors(l) = q
  BY DEF I!Sectors, w
<1> HIDE DEF q
<1>4. ASSUME NEW k \in Nat, k < q PROVE w * k \in 0 .. l
  <2>1. w * k \in Nat /\ w * q \in Nat /\ w * (k + 1) = w * k + w
    BY <1>1, <1>2, SMT
  <2>2. w * (k + 1) <= w * q
    BY <1>1, <1>2, <1>4, SMT
  <2> QED
    BY <1>1, <1>2, <2>1, <2>2
<1> QED
  BY <1>2, <1>3, <1>4 DEF w

(* The pointer stays in the buffer.                                        *)
LEMMA IdeTypesBound ==
  I!IdeAssumption /\ IdeTypes /\ PointerInside => I!TypeOK
<1> SUFFICES ASSUME I!IdeAssumption, IdeTypes, PointerInside PROVE I!TypeOK
  OBVIOUS
<1>1. /\ Words \in Nat /\ Words >= 1 /\ PacketWords \in Nat /\ Most \in Nat
      /\ ptr \in Nat /\ quota \in Nat /\ told \in 0 .. Most
  BY IdeConstants DEF IdeTypes
<1>3. ptr <= PacketWords + Words + Most
  <2>1. kind \in {"in", "out", "pin", "packet", "devin", "pdevin"}
    BY DEF IdeTypes, I!Kinds
  <2> QED
    BY <1>1, <2>1 DEF PointerInside
<1>4. PacketWords + Words + Most \in Nat
  BY <1>1
<1> QED
  BY <1>1, <1>3, <1>4 DEF IdeTypes, I!TypeOK, Most

LEMMA IdeBegins == I!IdeAssumption /\ I!Init => IdeInv
<1> SUFFICES ASSUME I!IdeAssumption, I!Init PROVE IdeInv
  OBVIOUS
<1>1. IdeTypes
  <2>1. 0 \in 0 .. Wrap - 1 /\ 0 \in 0 .. Most
    BY IdeConstants
  <2>2. multi \in [I!Devices -> Multis \cup {0}] /\ image \subseteq I!Devices /\ isel \in I!Devices
    BY DEF I!Init, I!Devices
  <2>3. kind \in I!Kinds
    BY DEF I!Init, I!Kinds
  <2>4. nien \in BOOLEAN /\ iirq \in BOOLEAN /\ waiting \in BOOLEAN
    BY DEF I!Init
  <2>5. /\ ptr \in Nat /\ blk \in Nat /\ quota \in Nat /\ owed \in Nat /\ from \in 0 .. 2
        /\ ileft \in 0 .. Wrap - 1 /\ limit \in 0 .. Most /\ told \in 0 .. Most
    BY <2>1 DEF I!Init
  <2>6. status \in {"absent", "ready", "data", "error", "reset"}
    BY DEF I!Init
  <2> QED
    BY <2>2, <2>3, <2>4, <2>5, <2>6 DEF IdeTypes
<1> QED
  BY <1>1, IdeConstants
  DEF I!Init, IdeInv, PointerInside, WaitsForBlock, OwnDrive, OwedRight, DiskBlock, CdBlock

(* Between two commands nothing is owed of a block, and no data waits.     *)
LEMMA RestKeeps ==
  ASSUME IdeInv, quota' = 0, status' # "data", kind' = kind, ptr' = ptr, blk' = blk,
         limit' = limit, told' = told, quota = 0
  PROVE  /\ PointerInside' /\ WaitsForBlock' /\ OwnDrive' /\ OwedRight' /\ DiskBlock'
         /\ CdBlock'
<1>1. PointerInside'
  BY DEF IdeInv, PointerInside
<1>2. DiskBlock' /\ OwnDrive' /\ OwedRight' /\ WaitsForBlock' /\ CdBlock'
  BY DEF DiskBlock, OwnDrive, OwedRight, WaitsForBlock, CdBlock
<1> QED
  BY <1>1, <1>2

LEMMA NatAndZero == \A s : s \subseteq Nat => \A x \in s \cup {0} : x \in Nat
OBVIOUS

(* A command that announces no data.                                       *)
LEMMA QuietCommand ==
  ASSUME I!IdeAssumption, IdeInv, NEW e \in {"ready", "absent", "error"}, I!Idle,
         status' = e, isel' \in I!Devices, ileft' \in 0 .. Wrap - 1,
         multi' \in [I!Devices -> Multis \cup {0}], image' \subseteq I!Devices,
         nien' \in BOOLEAN, iirq' \in BOOLEAN, waiting' \in BOOLEAN, from' \in 0 .. 2, owed' \in Nat,
         UNCHANGED <<kind, ptr, blk, limit, told, quota>>
  PROVE  IdeInv'
<1>1. quota = 0 /\ status' # "data"
  BY DEF I!Idle
<1>2. IdeTypes'
  BY DEF IdeInv, IdeTypes
<1> QED
  BY <1>1, <1>2, RestKeeps DEF IdeInv

LEMMA IdeCommands == ASSUME I!IdeAssumption, IdeInv, I!Commands PROVE IdeInv'
<1> USE DEF I!Stays
<1>1. /\ nien \in BOOLEAN /\ iirq \in BOOLEAN /\ isel \in I!Devices /\ image \subseteq I!Devices
      /\ multi \in [I!Devices -> Multis \cup {0}] /\ ileft \in 0 .. Wrap - 1
      /\ waiting \in BOOLEAN /\ owed \in Nat /\ from \in 0 .. 2 /\ 0 \in 0 .. Wrap - 1
      /\ 0 \in I!Devices /\ \A d \in I!Devices : d \in 0 .. 2
  BY IdeConstants DEF IdeInv, IdeTypes, I!Devices
<1>2. ASSUME I!Raise PROVE iirq' \in BOOLEAN
  BY <1>2 DEF I!Raise
<1>3. CASE I!NotInstalled
  <2>1. I!Idle /\ status' = "absent" /\ UNCHANGED <<isel, kind, ptr, ileft, blk, limit, told, multi>>
        /\ UNCHANGED <<nien, image, iirq, waiting, quota, owed, from>>
    BY <1>3 DEF I!NotInstalled, I!driver
  <2> QED
    BY <1>1, <2>1, QuietCommand
<1> DEFINE Given == /\ I!Idle /\ isel \in image /\ iirq' \in BOOLEAN /\ waiting' = TRUE
                    /\ from' = isel /\ UNCHANGED <<nien, image, quota>>
<1>4. CASE I!Command(I!NoError)
  <2>1. Given /\ I!NoError
    BY <1>2, <1>4 DEF I!Command
  <2> QED
    BY <1>1, <2>1, QuietCommand DEF I!NoError
<1>5. CASE I!Command(I!Verify)
  <2>1. Given /\ I!Verify
    BY <1>2, <1>5 DEF I!Command
  <2> QED
    BY <1>1, <2>1, QuietCommand DEF I!Verify
<1>6. ASSUME Given, I!NotImplemented PROVE IdeInv'
  BY <1>1, <1>6, QuietCommand DEF I!NotImplemented
<1>7. CASE I!Command(I!NotImplemented)
  <2>1. Given /\ I!NotImplemented
    BY <1>2, <1>7 DEF I!Command
  <2> QED
    BY <1>6, <2>1
<1>8. ASSUME NEW n \in Multis, I!Command(I!SetMulti(n)) PROVE IdeInv'
  <2>1. Given /\ I!SetMulti(n)
    BY <1>2, <1>8 DEF I!Command
  <2>2. multi' \in [I!Devices -> Multis \cup {0}]
    BY <1>1, <2>1 DEF I!SetMulti
  <2> QED
    BY <1>1, <2>1, <2>2, QuietCommand DEF I!SetMulti
<1>9. CASE I!Command(I!DeviceReset)
  <2>1. Given /\ I!DeviceReset
    BY <1>2, <1>9 DEF I!Command
  <2> QED
    BY <1>1, <2>1, QuietCommand DEF I!DeviceReset
<1>10. CASE I!Command(I!ReadMax)
  <2>1. Given /\ I!ReadMax
    BY <1>2, <1>10 DEF I!Command
  <2> QED
    BY <1>1, <2>1, QuietCommand DEF I!ReadMax
<1>11. ASSUME NEW k \in {"in", "out"}, NEW n \in Counts, I!Command(I!Transfer(k, n)) PROVE IdeInv'
  <2>1. Given /\ I!Transfer(k, n)
    BY <1>2, <1>11 DEF I!Command
  <2>2. CASE multi[isel] = 0
    BY <1>6, <2>1, <2>2 DEF I!Transfer
  <2>3. CASE multi[isel] # 0
    <3>1. /\ status' = "data" /\ kind' = k /\ ptr' = 0 /\ blk' = 0
          /\ ileft' = (IF n = 0 THEN AllSectors ELSE n) /\ owed' = Words * ileft'
          /\ UNCHANGED <<isel, limit, told, multi>>
      BY <2>1, <2>3 DEF I!Transfer
    <3>2. ileft' \in Nat /\ ileft' >= 1 /\ ileft' <= Wrap - 1 /\ Words \in Nat /\ Words >= 1
      BY <3>1, IdeConstants
    <3>3. owed' \in Nat
      BY <3>1, <3>2, SMT
    <3>4. multi[isel] \in Nat /\ multi[isel] >= 1
      <4>1. multi[isel] \in Multis \cup {0}
        BY <1>1
      <4>2. Multis \subseteq Nat
        BY DEF I!IdeAssumption
      <4>3. multi[isel] \in Nat
        BY <4>1, <4>2, NatAndZero
      <4> QED
        BY <2>3, <4>3
    <3>5. quota = 0
      BY <2>1 DEF I!Idle
    <3>6. IdeTypes'
      BY <1>1, <2>1, <3>1, <3>2, <3>3, IdeConstants DEF IdeInv, IdeTypes, I!Kinds
    <3>7. PointerInside' /\ WaitsForBlock' /\ OwnDrive' /\ CdBlock'
      BY <2>1, <3>1, <3>2, <3>5 DEF PointerInside, WaitsForBlock, OwnDrive, CdBlock
    <3>8. OwedRight'
      BY <3>1, <3>2, <3>3 DEF OwedRight
    <3>9. DiskBlock'
      BY <2>1, <3>1, <3>2, <3>4, <3>5 DEF DiskBlock
    <3> QED
      BY <3>6, <3>7, <3>8, <3>9 DEF IdeInv
  <2> QED
    BY <2>2, <2>3
<1>12. ASSUME NEW cd \in BOOLEAN, I!Command(I!Identify(cd)) PROVE IdeInv'
  <2>1. Given /\ I!Identify(cd)
    BY <1>2, <1>12 DEF I!Command
  <2>2. CASE cd # (isel \in Cds)
    BY <1>6, <2>1, <2>2 DEF I!Identify
  <2>3. CASE cd = (isel \in Cds)
    <3>1. /\ status' = "data" /\ kind' = "devin" /\ ptr' = 0 /\ owed' = 0
          /\ UNCHANGED <<isel, ileft, blk, limit, told, multi>>
      BY <2>1, <2>3 DEF I!Identify
    <3>2. quota = 0 /\ Words \in Nat
      BY <2>1, IdeConstants DEF I!Idle
    <3>3. IdeTypes'
      BY <1>1, <2>1, <3>1 DEF IdeInv, IdeTypes, I!Kinds
    <3> QED
      BY <2>1, <3>1, <3>2, <3>3 DEF IdeInv, PointerInside, WaitsForBlock, OwnDrive, OwedRight,
         DiskBlock, CdBlock, I!UserData
  <2> QED
    BY <2>2, <2>3
<1>13. ASSUME NEW l \in Limits, I!Command(I!Packet(l)) PROVE IdeInv'
  <2>1. Given /\ I!Packet(l)
    BY <1>2, <1>13 DEF I!Command
  <2>2. CASE isel \notin Cds
    BY <1>6, <2>1, <2>2 DEF I!Packet
  <2>3. CASE isel \in Cds
    <3>1. /\ status' = "data" /\ kind' = "packet" /\ ptr' = 0 /\ owed' = 0
          /\ limit' = l /\ told' = l
          /\ UNCHANGED <<isel, ileft, blk, multi>>
      BY <2>1, <2>3 DEF I!Packet
    <3>2. quota = 0 /\ PacketWords \in Nat /\ l \in 0 .. Most
      BY <2>1, IdeConstants DEF I!Idle
    <3>3. IdeTypes'
      BY <1>1, <2>1, <3>1, <3>2 DEF IdeInv, IdeTypes, I!Kinds
    <3> QED
      BY <2>1, <3>1, <3>2, <3>3 DEF IdeInv, PointerInside, WaitsForBlock, OwnDrive, OwedRight,
         DiskBlock, CdBlock, I!UserData
  <2> QED
    BY <2>2, <2>3
<1> QED
  BY <1>3, <1>4, <1>5, <1>7, <1>8, <1>9, <1>10, <1>11, <1>12, <1>13 DEF I!Commands

(* The driver's other accesses, the clock thread and the window.           *)
LEMMA IdeOthers ==
  ASSUME I!IdeAssumption, IdeInv,
         I!GiveUp \/ I!SoftReset \/ I!ReadDevice \/ I!DoAtapi \/ (\E b \in BOOLEAN : I!WriteNien(b))
         \/ (\E d \in I!Devices : I!Select(d)) \/ UNCHANGED I!vars
  PROVE  IdeInv'
<1> USE DEF I!device, I!driver
<1>1. /\ nien \in BOOLEAN /\ iirq \in BOOLEAN /\ isel \in I!Devices /\ image \subseteq I!Devices
      /\ multi \in [I!Devices -> Multis \cup {0}] /\ ileft \in 0 .. Wrap - 1
      /\ waiting \in BOOLEAN /\ owed \in Nat /\ from \in 0 .. 2 /\ 0 \in I!Devices
  BY DEF IdeInv, IdeTypes, I!Devices
<1>2. CASE I!GiveUp
  <2>1. IdeTypes'
    BY <1>2 DEF I!GiveUp, IdeInv, IdeTypes
  <2> QED
    BY <1>2, <2>1 DEF I!GiveUp, IdeInv, PointerInside, WaitsForBlock, OwnDrive, OwedRight,
       DiskBlock, CdBlock
<1>3. CASE I!SoftReset
  <2>1. /\ ~waiting /\ quota = 0 /\ quota' = quota /\ status' \in {"reset", "ready"} /\ isel' \in I!Devices
        /\ UNCHANGED <<nien, kind, ptr, ileft, blk, limit, told, multi, image, iirq, waiting, owed, from>>
    BY <1>1, <1>3 DEF I!SoftReset
  <2>2. IdeTypes'
    BY <2>1 DEF IdeInv, IdeTypes
  <2> QED
    BY <2>1, <2>2, RestKeeps DEF IdeInv
<1>4. CASE I!ReadDevice \/ I!DoAtapi
  <2>1. iirq' \in BOOLEAN
    BY <1>4 DEF I!ReadDevice, I!DoAtapi, I!Raise
  <2>2. UNCHANGED <<status, nien, isel, kind, ptr, ileft, blk, limit, told, multi, image,
                    waiting, quota, owed, from>>
    BY <1>4 DEF I!ReadDevice, I!DoAtapi
  <2>3. IdeTypes'
    BY <2>1, <2>2 DEF IdeInv, IdeTypes
  <2> QED
    BY <2>2, <2>3 DEF IdeInv, PointerInside, WaitsForBlock, OwnDrive, OwedRight, DiskBlock, CdBlock,
             Exact, Full
<1>5. ASSUME NEW b \in BOOLEAN, I!WriteNien(b) PROVE IdeInv'
  <2>1. /\ iirq' \in BOOLEAN /\ nien' \in BOOLEAN
    BY <1>1, <1>5 DEF I!WriteNien
  <2>2. UNCHANGED <<status, isel, kind, ptr, ileft, blk, limit, told, multi, image,
                    waiting, quota, owed, from>>
    BY <1>5 DEF I!WriteNien
  <2>3. IdeTypes'
    BY <2>1, <2>2 DEF IdeInv, IdeTypes
  <2> QED
    BY <2>2, <2>3 DEF IdeInv, PointerInside, WaitsForBlock, OwnDrive, OwedRight, DiskBlock, CdBlock,
             Exact, Full
<1>6. ASSUME NEW d \in I!Devices, I!Select(d) PROVE IdeInv'
  <2>1. /\ I!Idle /\ isel' = d
        /\ status' = IF d \notin image THEN "absent" ELSE IF d # isel THEN "ready" ELSE status
        /\ UNCHANGED <<nien, kind, ptr, ileft, blk, limit, told, multi, image, iirq, waiting,
                       quota, owed, from>>
    BY <1>6 DEF I!Select
  <2>2. quota = 0 /\ status' # "data"
    BY <2>1 DEF I!Idle
  <2>3. IdeTypes'
    BY <2>1 DEF IdeInv, IdeTypes
  <2> QED
    BY <2>1, <2>2, <2>3, RestKeeps DEF IdeInv
<1>7. CASE UNCHANGED I!vars
  <2>1. UNCHANGED <<status, nien, isel, kind, ptr, ileft, blk, limit, told, multi, image, iirq,
                    waiting, quota, owed, from>>
    BY <1>7 DEF I!vars
  <2>2. IdeTypes'
    BY <2>1 DEF IdeInv, IdeTypes
  <2> QED
    BY <2>1, <2>2 DEF IdeInv, PointerInside, WaitsForBlock, OwnDrive, OwedRight, DiskBlock, CdBlock,
             Exact, Full
<1> QED
  BY <1>2, <1>3, <1>4, <1>5, <1>6, <1>7

(* A mount ends whatever goes on; what the driver still moves of a block   *)
(* belongs to no drive any more.                                           *)
LEMMA IdeMounts ==
  ASSUME I!IdeAssumption, IdeInv, NEW d \in I!Devices, NEW in \in BOOLEAN, I!Mount(d, in)
  PROVE  IdeInv'
<1>1. /\ isel' = d /\ from' = 2 /\ status' \in {"ready", "absent"}
      /\ UNCHANGED <<nien, kind, ptr, ileft, blk, limit, told, multi, iirq, waiting, quota, owed>>
  BY DEF I!Mount, I!driver
<1>2. image' \subseteq I!Devices
  BY DEF I!Mount, IdeInv, IdeTypes
<1>3. IdeTypes'
  BY <1>1, <1>2 DEF IdeInv, IdeTypes
<1> QED
  BY <1>1, <1>3 DEF IdeInv, PointerInside, WaitsForBlock, OwnDrive, OwedRight, DiskBlock, CdBlock,
             Exact, Full

(* The driver looks at the status and learns of the next block.            *)
LEMMA IdeLook == ASSUME I!IdeAssumption, IdeInv, I!Look PROVE IdeInv'
<1>1. /\ waiting /\ iirq' = FALSE /\ waiting' = FALSE
      /\ quota' = IF status = "data" THEN I!Block ELSE 0
      /\ status' = IF status = "error" THEN "ready" ELSE status
      /\ UNCHANGED <<nien, isel, kind, ptr, ileft, blk, limit, told, multi, image, owed, from>>
  BY DEF I!Look
<1>2. quota = 0 /\ IdeTypes /\ PointerInside
  BY <1>1 DEF IdeInv, WaitsForBlock
<1>3. /\ Words \in Nat /\ Words >= 1 /\ PacketWords \in Nat /\ Multis \subseteq Nat
      /\ ptr \in Nat /\ ileft \in Nat /\ told \in Nat /\ limit \in Nat /\ kind \in I!Kinds
      /\ multi[isel] \in Multis \cup {0} /\ Wrap \in Nat
  BY <1>2, IdeConstants DEF IdeTypes, I!IdeAssumption
<1>4. multi[isel] \in Nat
  BY <1>3, NatAndZero
<1>5. I!Min({multi[isel], ileft}) = Smaller(multi[isel], ileft)
  <2>1. I!Min({multi[isel], ileft}) = Min({multi[isel], ileft})
    BY DEF Min, I!Min
  <2> QED
    BY <1>3, <1>4, <2>1, MinOfTwo DEF Smaller
<1>6. /\ kind \in {"in", "out"} => I!Block = Words * Smaller(multi[isel], ileft)
      /\ kind \in {"pin", "pdevin"} => I!Block = told
      /\ kind = "devin" => I!Block = Words
      /\ kind = "packet" => I!Block = PacketWords - ptr
  BY <1>5 DEF I!Block
<1>7. Smaller(multi[isel], ileft) \in Nat /\ Words * Smaller(multi[isel], ileft) \in Nat
  <2>1. Smaller(multi[isel], ileft) \in Nat
    BY <1>3, <1>4 DEF Smaller
  <2> QED
    BY <1>3, <2>1, SMT
<1>8. I!Block \in Nat
  <2>1. kind = "packet" => PacketWords - ptr \in Nat
    BY <1>2, <1>3 DEF PointerInside
  <2>2. kind \in {"in", "out", "pin", "packet", "devin", "pdevin"}
    BY <1>3 DEF I!Kinds
  <2> QED
    BY <1>3, <1>6, <1>7, <2>1, <2>2
<1>9. IdeTypes'
  BY <1>1, <1>2, <1>8 DEF IdeTypes
<1>10. PointerInside'
  <2>1. CASE status = "data"
    BY <1>1, <1>2, <1>3, <1>6, <1>7, <2>1 DEF PointerInside
  <2>2. CASE status # "data"
    BY <1>1, <1>2, <2>2 DEF PointerInside
  <2> QED
    BY <2>1, <2>2
<1>11. WaitsForBlock' /\ OwnDrive' /\ OwedRight'
  BY <1>1, <1>2 DEF IdeInv, WaitsForBlock, OwnDrive, OwedRight
<1>12. DiskBlock'
  <2>1. SUFFICES ASSUME kind = "in", from # 2, status = "data"
                 PROVE  /\ quota' > 0 => /\ ileft >= 1 /\ blk < multi[isel]
                                         /\ quota' = Words * Smaller(multi[isel] - blk, ileft) - ptr
                        /\ quota' = 0 => blk = 0 /\ ptr = 0 /\ ileft >= 1 /\ multi[isel] >= 1
    BY <1>1 DEF DiskBlock
  <2>2. blk = 0 /\ ptr = 0 /\ ileft >= 1 /\ multi[isel] >= 1
    BY <1>2, <2>1 DEF IdeInv, DiskBlock
  <2>3. quota' = Words * Smaller(multi[isel], ileft)
    BY <1>1, <1>6, <2>1
  <2>4. multi[isel] - blk = multi[isel]
    BY <1>4, <2>2
  <2>5. Words * Smaller(multi[isel] - blk, ileft) - ptr = Words * Smaller(multi[isel], ileft)
    BY <1>7, <2>2, <2>4
  <2> QED
    BY <1>4, <2>2, <2>3, <2>5
<1>13. CdBlock'
  <2> DEFINE y == Words * Smaller(ileft, Full)
  <2>1. SUFFICES ASSUME kind = "pin", Exact, status = "data"
                 PROVE  /\ Full <= ileft => told = Words * Full
                        /\ quota' > 0 => /\ ileft >= 1 /\ ptr < Words /\ blk <= Full
                                         /\ quota' = Words * Smaller(ileft, blk) - ptr
                        /\ quota' = 0 => ptr = 0 /\ blk = Full /\ told = y
    BY <1>1 DEF CdBlock, Exact, Full
  <2>2. ptr = 0 /\ blk = Full /\ told = y /\ (Full <= ileft => told = Words * Full)
    BY <1>2, <2>1 DEF IdeInv, CdBlock
  <2>3. quota' = y /\ y \in Nat
    BY <1>1, <1>3, <1>6, <2>1, <2>2
  <2>4. Full \in Nat
    BY <1>3, SectorsFit DEF Full
  <2>5. y > 0 => ileft >= 1
    <3>1. SUFFICES ASSUME ileft = 0 PROVE y = 0
      BY <1>3, <2>3
    <3>2. Smaller(ileft, Full) = 0
      BY <2>4, <3>1 DEF Smaller
    <3> QED
      BY <1>3, <3>2
  <2>6. Words * Smaller(ileft, blk) - ptr = y
    <3>1. Words * Smaller(ileft, blk) = y
      BY <2>2
    <3> HIDE DEF y
    <3> QED
      BY <2>2, <2>3, <3>1
  <2> HIDE DEF y
  <2> QED
    BY <1>3, <2>2, <2>3, <2>4, <2>5, <2>6
<1> QED
  BY <1>9, <1>10, <1>11, <1>12, <1>13 DEF IdeInv

(* What every word has in common.                                          *)
MovesOne ==
  /\ quota > 0 /\ quota' = quota - 1 /\ waiting' = (quota = 1)
  /\ UNCHANGED <<nien, isel, multi, image, from>>

MovesData ==
  /\ MovesOne
  /\ owed' = IF kind \in I!UserData /\ owed > 0 THEN owed - 1 ELSE owed
  /\ UNCHANGED <<kind, limit>>

LEMMA WordTypes ==
  ASSUME I!IdeAssumption, IdeInv, MovesOne
  PROVE  /\ Words \in Nat /\ Words >= 1 /\ PacketWords \in Nat /\ PacketWords >= 1
         /\ Wrap \in Nat /\ Wrap >= 1
         /\ ptr \in Nat /\ ileft \in Nat /\ ileft < Wrap /\ blk \in Nat /\ told \in Nat
         /\ limit \in Nat /\ owed \in Nat
         /\ quota \in Nat /\ quota' \in Nat /\ waiting' \in BOOLEAN /\ iirq \in BOOLEAN
         /\ multi[isel] \in Nat /\ WaitsForBlock' /\ from \in {isel, 2}
         /\ \A l \in 0 .. limit : l \in 0 .. Most
<1>1. /\ multi[isel] \in Multis \cup {0} /\ Multis \subseteq Nat
  BY DEF IdeInv, IdeTypes, I!IdeAssumption
<1>2. multi[isel] \in Nat
  BY <1>1, NatAndZero
<1>3. WaitsForBlock'
  BY DEF MovesOne, WaitsForBlock, IdeInv, IdeTypes
<1>4. from \in {isel, 2}
  BY DEF MovesOne, IdeInv, OwnDrive
<1>5. /\ ptr \in Nat /\ ileft \in Nat /\ ileft < Wrap /\ blk \in Nat /\ told \in Nat
      /\ limit \in Nat /\ owed \in Nat /\ quota \in Nat /\ quota' \in Nat
      /\ waiting' \in BOOLEAN /\ iirq \in BOOLEAN
      /\ \A l \in 0 .. limit : l \in 0 .. Most
  BY IdeConstants DEF IdeInv, IdeTypes, MovesOne
<1> QED
  BY <1>2, <1>3, <1>4, <1>5, IdeConstants

LEMMA DataTypes ==
  ASSUME I!IdeAssumption, IdeInv, MovesData,
         status' \in {"absent", "ready", "data", "error", "reset"},
         ptr' \in Nat, ileft' \in 0 .. Wrap - 1, blk' \in Nat, told' \in 0 .. Most, iirq' \in BOOLEAN
  PROVE  IdeTypes'
<1>1. MovesOne /\ owed' \in Nat /\ quota' \in Nat /\ waiting' \in BOOLEAN
  BY WordTypes DEF MovesData, IdeInv, IdeTypes
<1> QED
  BY <1>1 DEF MovesData, MovesOne, IdeInv, IdeTypes

(* The last word of a packet gives the command.                            *)
LEMMA IdePacket ==
  ASSUME I!IdeAssumption, IdeInv, MovesOne, kind = "packet", ptr + 1 = PacketWords, I!DoPacket
  PROVE  IdeInv'
<1>1. quota = 1 /\ quota' = 0 /\ told = limit
  BY WordTypes DEF MovesOne, IdeInv, PointerInside
<1>2. iirq' \in BOOLEAN /\ limit \in 0 .. Most /\ told \in 0 .. Most
  BY DEF I!DoPacket, I!Raise, IdeInv, IdeTypes
<1>3. CASE I!AnswerPacket
  <2>1. /\ status' = "data" /\ kind' = "pdevin" /\ ptr' = 0 /\ limit' \in 0 .. limit
        /\ UNCHANGED <<ileft, blk, told, owed>>
    BY <1>3 DEF I!AnswerPacket
  <2>2. IdeTypes'
    BY <1>2, <2>1, WordTypes DEF MovesOne, IdeInv, IdeTypes, I!Kinds
  <2>4. PointerInside'
    BY <1>1, <2>1, WordTypes DEF PointerInside
  <2>5. OwnDrive' /\ OwedRight' /\ DiskBlock' /\ CdBlock'
    BY <2>1, WordTypes DEF MovesOne, OwnDrive, OwedRight, DiskBlock, CdBlock, I!UserData
  <2> QED
    BY <2>2, <2>4, <2>5, WordTypes DEF IdeInv
<1>4. ASSUME NEW b \in Counts, I!ReadBlocks(b) PROVE IdeInv'
  <2> DEFINE f == I!Sectors(limit)
  <2>1. /\ limit # 0 /\ status' = "data" /\ kind' = "pin" /\ ptr' = 0
        /\ ileft' = PerBlock * b /\ blk' = f
        /\ told' = IF ileft' < f THEN Words * ileft' ELSE limit
        /\ owed' = Words * ileft' /\ UNCHANGED limit
    BY <1>1, <1>4 DEF I!ReadBlocks
  <2>2. ileft' \in 0 .. Wrap - 1
    BY <2>1, IdeConstants
  <2>3. ileft' \in Nat /\ limit \in Nat /\ limit >= 1 /\ f \in Nat /\ f >= 1
    BY <2>1, <2>2, SectorsFit, WordTypes
  <2>4. owed' \in Nat /\ (owed' > 0 => ileft' >= 1)
    BY <2>1, <2>3, WordTypes, SMT
  <2>5. IdeTypes'
    <3>1. told' \in 0 .. limit
      <4>1. ileft' < f => Words * ileft' \in 0 .. limit
        BY <2>3, SectorsFit
      <4> QED
        BY <2>1, <2>3, <4>1
    <3>2. told' \in 0 .. Most
      BY <3>1, WordTypes
    <3> HIDE DEF f
    <3> QED
      BY <1>2, <2>1, <2>2, <2>3, <2>4, <3>2, WordTypes DEF MovesOne, IdeInv, IdeTypes, I!Kinds
  <2>6. PointerInside' /\ OwnDrive' /\ DiskBlock'
    <3> HIDE DEF f
    <3> QED
      BY <1>1, <2>1, <2>3, WordTypes DEF MovesOne, PointerInside, OwnDrive, DiskBlock
  <2>7. OwedRight'
    BY <2>1, <2>3, <2>4, WordTypes DEF OwedRight
  <2>8. CdBlock'
    <3>1. Full' = f
      BY <2>1 DEF Full
    <3>2. SUFFICES ASSUME I!Aligned(limit)
                   PROVE  /\ f <= ileft' => told' = Words * f
                          /\ told' = Words * Smaller(ileft', f)
      BY <1>1, <2>1, <2>3, <3>1 DEF CdBlock, Exact
    <3>3. limit = Words * f
      BY <3>2 DEF I!Aligned
    <3> HIDE DEF f
    <3>4. CASE ileft' < f
      BY <2>1, <2>3, <3>4 DEF Smaller
    <3>5. CASE f <= ileft'
      <4>1. told' = Words * f
        BY <2>1, <2>3, <3>3, <3>5
      <4>2. Smaller(ileft', f) = f
        BY <2>3, <3>5 DEF Smaller
      <4> QED
        BY <4>1, <4>2
    <3> QED
      BY <2>3, <3>4, <3>5
  <2> QED
    BY <2>5, <2>6, <2>7, <2>8, WordTypes DEF IdeInv
<1>5. CASE I!EndPacket \/ I!IgnorePacket
  <2>1. /\ status' \in {"ready", "error", status} /\ ptr' = PacketWords
        /\ limit' \in {0, limit} /\ told' \in {0, told} /\ UNCHANGED <<kind, ileft, blk, owed>>
    BY <1>5 DEF I!EndPacket, I!IgnorePacket
  <2>2. IdeTypes'
    BY <1>2, <2>1, WordTypes DEF MovesOne, IdeInv, IdeTypes
  <2>3. PointerInside'
    BY <1>1, <2>1, WordTypes DEF PointerInside
  <2>4. OwnDrive' /\ OwedRight' /\ DiskBlock' /\ CdBlock'
    BY <2>1, WordTypes DEF MovesOne, OwnDrive, OwedRight, DiskBlock, CdBlock, I!UserData
  <2> QED
    BY <2>2, <2>3, <2>4, WordTypes DEF IdeInv
<1> QED
  BY <1>3, <1>4, <1>5 DEF I!DoPacket

(* One word that ends nothing.                                             *)
LEMMA IdeWord ==
  ASSUME I!IdeAssumption, IdeInv, MovesData, ptr' = ptr + 1,
         UNCHANGED <<status, ileft, blk, told, iirq>>,
         kind = "packet" => ptr + 1 # PacketWords,
         kind \in {"in", "out", "pin"} => ptr + 1 < Words,
         kind = "devin" => ptr + 1 # Words,
         kind = "pdevin" => ptr + 1 < limit
  PROVE  IdeInv'
<1>1. MovesOne
  BY DEF MovesData
<1>2. IdeTypes'
  BY <1>1, WordTypes, DataTypes DEF IdeInv, IdeTypes
<1>3. PointerInside'
  <2>1. CASE kind \in {"in", "out", "pin", "packet", "devin"}
    BY <1>1, <2>1, WordTypes DEF MovesData, MovesOne, IdeInv, PointerInside
  <2>2. CASE kind = "pdevin"
    BY <1>1, <2>2, WordTypes DEF MovesData, MovesOne, IdeInv, PointerInside
  <2>3. kind \in {"in", "out", "pin", "packet", "devin", "pdevin"}
    BY DEF IdeInv, IdeTypes, I!Kinds
  <2> QED
    BY <2>1, <2>2, <2>3
<1>4. OwnDrive'
  BY <1>1, WordTypes DEF MovesOne, OwnDrive
<1>5. OwedRight'
  <2>1. SUFFICES ASSUME status = "data", kind \in I!UserData, owed' > 0
                 PROVE  ptr' < Words /\ ileft >= 1 /\ owed' = Words * ileft - ptr'
    BY DEF OwedRight, MovesData
  <2>2. owed' = owed - 1 /\ owed > 0
    BY <1>1, <2>1, WordTypes DEF MovesData
  <2>3. ileft >= 1 /\ owed = Words * ileft - ptr /\ Words * ileft \in Nat
    BY <1>1, <2>1, <2>2, WordTypes, SMT DEF IdeInv, OwedRight
  <2> DEFINE x == Words * ileft
  <2> HIDE DEF x
  <2>4. x \in Nat /\ owed = x - ptr
    BY <2>3 DEF x
  <2>5. owed' = x - ptr'
    BY <1>1, <2>2, <2>4, WordTypes
  <2>6. ptr' < Words
    BY <2>1 DEF I!UserData
  <2> QED
    BY <2>3, <2>5, <2>6 DEF x
<1>6. DiskBlock'
  <2>1. SUFFICES ASSUME kind = "in", from # 2
                 PROVE  /\ quota' > 0 => /\ status = "data" /\ ileft >= 1 /\ blk < multi[isel]
                                         /\ quota' = Words * Smaller(multi[isel] - blk, ileft) - ptr'
                        /\ ~(quota' = 0 /\ status = "data")
    BY DEF DiskBlock, MovesData, MovesOne
  <2> DEFINE x == Words * Smaller(multi[isel] - blk, ileft)
  <2>2. /\ status = "data" /\ ileft >= 1 /\ blk < multi[isel] /\ quota = x - ptr
    BY <1>1, <2>1 DEF MovesOne, IdeInv, DiskBlock
  <2>3. Smaller(multi[isel] - blk, ileft) \in Nat /\ Smaller(multi[isel] - blk, ileft) >= 1
    BY <1>1, <2>2, WordTypes DEF Smaller
  <2>4. x \in Nat /\ x >= Words
    BY <1>1, <2>3, WordTypes, SMT
  <2> HIDE DEF x
  <2>5. quota' = x - ptr' /\ quota' > 0
    BY <1>1, <2>1, <2>2, <2>4, WordTypes DEF MovesOne
  <2> QED
    BY <2>2, <2>5 DEF x
<1>7. CdBlock'
  <2>1. SUFFICES ASSUME kind = "pin", Exact
                 PROVE  /\ status = "data" /\ Full <= ileft => told = Words * Full
                        /\ quota' > 0 => /\ status = "data" /\ ileft >= 1 /\ ptr' < Words /\ blk <= Full
                                         /\ quota' = Words * Smaller(ileft, blk) - ptr'
                        /\ ~(quota' = 0 /\ status = "data")
    BY DEF CdBlock, MovesData, MovesOne, Exact, Full
  <2> DEFINE x == Words * Smaller(ileft, blk)
  <2>2. /\ status = "data" /\ ileft >= 1 /\ blk <= Full /\ quota = x - ptr
        /\ (Full <= ileft => told = Words * Full)
    BY <1>1, <2>1 DEF MovesOne, IdeInv, CdBlock
  <2>3. Smaller(ileft, blk) \in Nat /\ Smaller(ileft, blk) >= 1
    BY <1>1, <2>1, <2>2, WordTypes DEF Smaller, IdeInv, PointerInside
  <2>4. x \in Nat /\ x >= Words
    BY <1>1, <2>3, WordTypes, SMT
  <2> HIDE DEF x
  <2>5. quota' = x - ptr' /\ quota' > 0 /\ ptr' < Words
    BY <1>1, <2>1, <2>2, <2>4, WordTypes DEF MovesOne
  <2> QED
    BY <2>2, <2>5 DEF x
<1> QED
  BY <1>1, <1>2, <1>3, <1>4, <1>5, <1>6, <1>7, WordTypes DEF IdeInv

LEMMA TimesOneLess ==
  ASSUME NEW a \in Nat, NEW b \in Nat
  PROVE  a * b \in Nat /\ a * (b - 1) = a * b - a /\ (b = 1 => a * b = a) /\ (b >= 1 => a * b >= a)
         /\ (b >= 2 /\ a >= 1 => a * (b - 1) >= 1)
<1>1. a * b \in Nat /\ a * (b - 1) = a * b - a /\ (b = 1 => a * b = a)
  BY SMT
<1>2. b >= 1 => a * b >= a
  BY SMT
<1>3. b >= 2 /\ a >= 1 => a * (b - 1) >= 1
  BY SMT
<1> QED
  BY <1>1, <1>2, <1>3

LEMMA SmallerSteps ==
  ASSUME NEW m \in Nat, NEW b \in Nat, NEW l \in Nat, b < m, l >= 1
  PROVE  /\ Smaller(m - b, l) \in Nat /\ Smaller(m - b, l) >= 1
         /\ l = 1 \/ b + 1 = m => Smaller(m - b, l) = 1
         /\ l > 1 /\ b + 1 # m =>
              /\ Smaller(m - b, l) >= 2
              /\ Smaller(m - (b + 1), l - 1) = Smaller(m - b, l) - 1
<1>1. CASE m - b <= l
  <2>1. Smaller(m - b, l) = m - b
    BY <1>1 DEF Smaller
  <2>2. l > 1 /\ b + 1 # m => Smaller(m - (b + 1), l - 1) = m - (b + 1)
    BY <1>1 DEF Smaller
  <2> QED
    BY <1>1, <2>1, <2>2
<1>2. CASE m - b > l
  <2>1. Smaller(m - b, l) = l
    BY <1>2 DEF Smaller
  <2>2. l > 1 /\ b + 1 # m => Smaller(m - (b + 1), l - 1) = l - 1
    BY <1>2 DEF Smaller
  <2> QED
    BY <1>2, <2>1, <2>2
<1> QED
  BY <1>1, <1>2

(* The end of a sector of a disk.                                          *)
LEMMA IdeDisk ==
  ASSUME I!IdeAssumption, IdeInv, MovesData, kind \in {"in", "out"}, ptr + 1 >= Words,
         IF ileft > 1 THEN I!NextSector ELSE I!LastSector
  PROVE  /\ IdeInv'
         /\ status = "data" /\ status' = "ready" /\ owed > 0 => owed' = 0
         /\ quota = 1 /\ kind = "in" /\ from # 2 => iirq' \/ nien
<1>1. MovesOne /\ ptr = Words - 1
  BY WordTypes DEF MovesData, IdeInv, PointerInside
<1> DEFINE s == Smaller(multi[isel] - blk, ileft)
<1>2. kind = "in" /\ from # 2 =>
        status = "data" /\ ileft >= 1 /\ blk < multi[isel] /\ quota = Words * s - ptr
  BY <1>1 DEF MovesOne, IdeInv, DiskBlock
<1>3. kind = "in" /\ from # 2 =>
        /\ s \in Nat /\ s >= 1 /\ (ileft = 1 \/ blk + 1 = multi[isel] => s = 1)
        /\ ileft > 1 /\ blk + 1 # multi[isel] =>
             s >= 2 /\ Smaller(multi[isel] - (blk + 1), ileft - 1) = s - 1
  <2>1. /\ multi[isel] \in Nat /\ blk \in Nat /\ ileft \in Nat
    BY <1>1, WordTypes
  <2> QED
    BY <1>2, <2>1, SmallerSteps
<1>4. kind = "in" /\ from # 2 =>
        /\ Words * s \in Nat /\ Words * (s - 1) = Words * s - Words
        /\ (s = 1 => Words * s = Words) /\ (s >= 2 => Words * (s - 1) >= 1)
  BY <1>1, <1>3, WordTypes, TimesOneLess
<1>5. status = "data" /\ owed > 0 =>
        /\ ileft >= 1 /\ owed = Words * ileft - ptr /\ owed' = owed - 1
        /\ Words * (ileft - 1) = Words * ileft - Words /\ (ileft = 1 => Words * ileft = Words)
        /\ Words * ileft \in Nat
  <2>1. ileft \in Nat /\ Words \in Nat
    BY <1>1, WordTypes
  <2>2. kind \in I!UserData
    BY DEF I!UserData
  <2> QED
    BY <2>1, <2>2, TimesOneLess DEF IdeInv, OwedRight, MovesData
<1> HIDE DEF s
<1>6. CASE ileft > 1
  <2> DEFINE due == IF kind = "out" THEN blk = multi[isel] ELSE blk + 1 = multi[isel]
  <2>1. /\ ileft' = ileft - 1 /\ ptr' = 0 /\ UNCHANGED <<status, told>>
        /\ blk' = IF due THEN 0 ELSE blk + 1
        /\ IF due THEN I!Raise ELSE UNCHANGED iirq
    BY <1>6 DEF I!NextSector
  <2>2. iirq' \in BOOLEAN /\ blk' \in Nat /\ ileft' \in 0 .. Wrap - 1 /\ ileft' >= 1 /\ ptr' \in Nat
    <3>1. ileft \in Nat /\ ileft < Wrap /\ blk \in Nat /\ Wrap \in Nat /\ iirq \in BOOLEAN
      BY <1>1, WordTypes
    <3>2. ileft' \in 0 .. Wrap - 1 /\ ileft' >= 1 /\ ptr' \in Nat
      BY <1>6, <2>1, <3>1
    <3>3. blk' \in Nat
      BY <2>1, <3>1
    <3>4. iirq' \in BOOLEAN
      BY <2>1, <3>1 DEF I!Raise
    <3> QED
      BY <3>2, <3>3, <3>4
  <2>3. IdeTypes'
    BY <2>1, <2>2, DataTypes DEF IdeInv, IdeTypes
  <2>4. PointerInside' /\ OwnDrive' /\ CdBlock'
    BY <1>1, <2>1, WordTypes DEF MovesData, MovesOne, PointerInside, OwnDrive, CdBlock
  <2>5. OwedRight'
    <3>1. SUFFICES ASSUME status = "data", owed' > 0
                   PROVE  0 < Words /\ ileft' >= 1 /\ owed' = Words * ileft' - 0
      BY <2>1 DEF OwedRight
    <3>2. owed > 0
      BY <1>1, <3>1, WordTypes DEF MovesData
    <3> DEFINE x == Words * ileft
    <3>3. owed' = x - Words /\ Words * (ileft - 1) = x - Words
      <4>1. /\ owed = x - ptr /\ owed' = owed - 1 /\ x \in Nat /\ Words \in Nat
            /\ Words * (ileft - 1) = x - Words
        BY <1>1, <1>5, <3>1, <3>2, WordTypes
      <4> HIDE DEF x
      <4> QED
        BY <1>1, <4>1
    <3>4. Words * ileft' = x - Words /\ x \in Nat
      BY <1>5, <2>1, <3>1, <3>2, <3>3
    <3> HIDE DEF x
    <3> QED
      BY <1>1, <2>2, <3>3, <3>4, WordTypes
  <2>6. DiskBlock'
    <3>1. SUFFICES ASSUME kind = "in", from # 2
                   PROVE  /\ quota' > 0 => /\ status = "data" /\ ileft' >= 1 /\ blk' < multi[isel]
                                           /\ quota' = Words * Smaller(multi[isel] - blk', ileft') - 0
                          /\ quota' = 0 => blk' = 0 /\ ileft' >= 1 /\ multi[isel] >= 1
      BY <2>1 DEF DiskBlock, MovesData, MovesOne
    <3>2. CASE blk + 1 = multi[isel]
      <4>1. quota = 1 /\ quota' = 0
        BY <1>1, <1>2, <1>3, <1>4, <3>1, <3>2, WordTypes DEF MovesOne
      <4> QED
        BY <1>1, <2>1, <2>2, <3>1, <3>2, <4>1, WordTypes
    <3>3. CASE blk + 1 # multi[isel]
      <4>1. blk' = blk + 1 /\ blk' < multi[isel]
        BY <1>1, <1>2, <2>1, <3>1, <3>3, WordTypes
      <4> DEFINE x == Words * s
                 y == Words * (s - 1)
      <4>2. x \in Nat /\ y = x - Words /\ y >= 1 /\ quota = x - ptr
        BY <1>2, <1>3, <1>4, <1>6, <3>1, <3>3
      <4>3. Words * Smaller(multi[isel] - blk', ileft') = y
        BY <1>3, <1>6, <2>1, <3>1, <3>3, <4>1
      <4> HIDE DEF x, y
      <4>4. quota' = y /\ y \in Nat
        BY <1>1, <4>2, WordTypes DEF MovesOne
      <4> QED
        BY <1>2, <2>2, <3>1, <4>1, <4>2, <4>3, <4>4
    <3> QED
      BY <3>2, <3>3
  <2>7. quota = 1 /\ kind = "in" /\ from # 2 => iirq' \/ nien
    <3>1. SUFFICES ASSUME quota = 1, kind = "in", from # 2, blk + 1 # multi[isel] PROVE FALSE
      BY <2>1 DEF I!Raise
    <3> DEFINE x == Words * s
               y == Words * (s - 1)
    <3>2. x \in Nat /\ y = x - Words /\ y >= 1 /\ quota = x - ptr
      BY <1>2, <1>3, <1>4, <1>6, <3>1
    <3> HIDE DEF x, y
    <3> QED
      BY <1>1, <3>1, <3>2, WordTypes
  <2>8. status' = "ready" => status # "data"
    BY <2>1
  <2> QED
    BY <1>1, <2>3, <2>4, <2>5, <2>6, <2>7, <2>8, WordTypes DEF IdeInv
<1>7. CASE ~(ileft > 1)
  <2>1. /\ status' = "ready" /\ iirq' = (iirq \/ ~nien \/ kind = "out")
        /\ UNCHANGED <<ileft, ptr, blk, told>>
    BY <1>7 DEF I!LastSector
  <2>2. kind = "in" /\ from # 2 => quota' = 0
    <3>1. SUFFICES ASSUME kind = "in", from # 2 PROVE quota' = 0
      OBVIOUS
    <3>2. ileft = 1
      BY <1>1, <1>2, <1>7, <3>1, WordTypes
    <3>3. quota = Words - ptr
      BY <1>2, <1>3, <1>4, <3>1, <3>2
    <3> QED
      BY <1>1, <3>3, WordTypes DEF MovesOne
  <2>3. IdeTypes'
    BY <2>1, DataTypes DEF IdeInv, IdeTypes
  <2>4. PointerInside' /\ OwnDrive' /\ OwedRight' /\ CdBlock'
    BY <1>1, <2>1, WordTypes DEF MovesData, MovesOne, PointerInside, OwnDrive, OwedRight, CdBlock
  <2>5. DiskBlock'
    BY <2>1, <2>2 DEF DiskBlock, MovesData, MovesOne
  <2>6. status = "data" /\ owed > 0 => owed' = 0
    <3>1. SUFFICES ASSUME status = "data", owed > 0 PROVE owed' = 0
      OBVIOUS
    <3>2. ileft = 1
      BY <1>1, <1>5, <1>7, <3>1, WordTypes
    <3>3. owed = Words - ptr /\ owed' = owed - 1
      BY <1>5, <3>1, <3>2
    <3> QED
      BY <1>1, <3>3, WordTypes
  <2>7. iirq' \/ nien
    BY <2>1
  <2> QED
    BY <1>1, <2>3, <2>4, <2>5, <2>6, <2>7, WordTypes DEF IdeInv
<1> QED
  BY <1>6, <1>7

(* The number of sectors left, modulo Wrap.                                *)
LEMMA OneSectorLess ==
  ASSUME NEW l \in Nat, NEW w \in Nat, l < w
  PROVE  /\ (l + w - 1) % w \in 0 .. w - 1
         /\ l >= 1 => (l + w - 1) % w = l - 1
<1>1. (l + w - 1) % w \in 0 .. w - 1
  BY SMT
<1>2. ASSUME l >= 1 PROVE (l + w - 1) % w = l - 1
  BY <1>2, SMT
<1> QED
  BY <1>1, <1>2

LEMMA SmallerBoth ==
  ASSUME NEW l \in Nat, NEW b \in Nat, l >= 1, b >= 1
  PROVE  /\ Smaller(l, b) \in Nat /\ Smaller(l, b) >= 1
         /\ l = 1 \/ b = 1 => Smaller(l, b) = 1
         /\ l > 1 /\ b # 1 =>
              Smaller(l, b) >= 2 /\ Smaller(l - 1, b - 1) = Smaller(l, b) - 1
<1>1. CASE l <= b
  <2>1. Smaller(l, b) = l /\ (l > 1 /\ b # 1 => Smaller(l - 1, b - 1) = l - 1)
    BY <1>1 DEF Smaller
  <2> QED
    BY <1>1, <2>1
<1>2. CASE l > b
  <2>1. Smaller(l, b) = b /\ (l > 1 /\ b # 1 => Smaller(l - 1, b - 1) = b - 1)
    BY <1>2 DEF Smaller
  <2> QED
    BY <1>2, <2>1
<1> QED
  BY <1>1, <1>2

(* The end of a sector of a CD.                                            *)
LEMMA IdeCd ==
  ASSUME I!IdeAssumption, IdeInv, MovesData, kind = "pin", ptr + 1 >= Words, I!CdSector
  PROVE  /\ IdeInv'
         /\ status = "data" /\ status' = "ready" /\ owed > 0 => owed' = 0
         /\ quota = 1 /\ Exact => iirq' \/ nien
<1>1. MovesOne /\ ptr <= Words /\ blk >= 1 /\ limit >= 1
  BY DEF MovesData, IdeInv, PointerInside
<1>2. /\ Words \in Nat /\ Words >= 1 /\ Wrap \in Nat /\ ptr \in Nat /\ ileft \in Nat /\ ileft < Wrap
      /\ blk \in Nat /\ told \in Nat /\ limit \in Nat /\ owed \in Nat /\ quota \in Nat
      /\ iirq \in BOOLEAN /\ from \in {isel, 2} /\ quota' = quota - 1 /\ quota > 0
  BY <1>1, WordTypes DEF MovesOne
<1>3. ileft' \in 0 .. Wrap - 1 /\ (ileft >= 1 => ileft' = ileft - 1)
  <2>1. ileft' = (ileft + Wrap - 1) % Wrap
    BY DEF I!CdSector
  <2> QED
    BY <1>2, <2>1, OneSectorLess
<1> DEFINE s == Smaller(ileft, blk)
           x == Words * s
           y == Words * (s - 1)
           f == I!Sectors(limit)
<1>4. Exact => /\ status = "data" /\ ileft >= 1 /\ ptr = Words - 1 /\ blk <= f
               /\ quota = x - ptr /\ (f <= ileft => told = Words * f)
  BY <1>1, <1>2 DEF IdeInv, CdBlock, Full
<1>5. Exact => /\ s \in Nat /\ s >= 1 /\ (ileft = 1 \/ blk = 1 => s = 1)
               /\ ileft > 1 /\ blk # 1 => s >= 2 /\ Smaller(ileft - 1, blk - 1) = s - 1
  BY <1>1, <1>2, <1>4, SmallerBoth
<1>6. Exact => /\ x \in Nat /\ y = x - Words /\ (s = 1 => x = Words) /\ (s >= 2 => y >= 1)
  BY <1>2, <1>5, TimesOneLess
<1>7. status = "data" /\ owed > 0 =>
        /\ ileft >= 1 /\ ptr = Words - 1 /\ owed = Words * ileft - ptr /\ owed' = owed - 1
        /\ Words * (ileft - 1) = Words * ileft - Words /\ (ileft = 1 => Words * ileft = Words)
        /\ Words * ileft \in Nat
  <2>1. kind \in I!UserData
    BY DEF I!UserData
  <2> QED
    BY <1>2, <2>1, TimesOneLess DEF IdeInv, OwedRight, MovesData
<1>12. f \in Nat /\ f >= 1 /\ \A k \in Nat : k < f => Words * k \in 0 .. limit
  BY <1>1, <1>2, SectorsFit
<1>13. Exact' = Exact /\ Full' = f
  BY DEF MovesData, MovesOne, Exact, Full
<1> HIDE DEF s
<1>8. OwnDrive'
  BY <1>2 DEF MovesData, MovesOne, OwnDrive
<1>9. CASE ileft' = 0
  <2>1. status' = "ready" /\ ptr' = Words /\ I!Raise /\ UNCHANGED <<blk, told>>
    BY <1>9 DEF I!CdSector
  <2>2. iirq' \in BOOLEAN
    BY <1>2, <2>1 DEF I!Raise
  <2>3. IdeTypes'
    <3>1. told \in 0 .. Most
      BY DEF IdeInv, IdeTypes
    <3> QED
      BY <1>2, <1>3, <2>1, <2>2, <3>1, DataTypes
  <2>4. PointerInside'
    BY <1>1, <1>2, <2>1 DEF MovesData, PointerInside
  <2>5. Exact => quota' = 0
    <3>1. SUFFICES ASSUME Exact PROVE quota' = 0
      OBVIOUS
    <3>2. x = Words
      BY <1>2, <1>3, <1>4, <1>5, <1>6, <1>9, <3>1
    <3> HIDE DEF x
    <3> QED
      BY <1>2, <1>4, <3>1, <3>2
  <2>6. WaitsForBlock' /\ OwedRight' /\ DiskBlock' /\ CdBlock'
    BY <1>1, <1>13, <2>1, <2>5, WordTypes DEF MovesData, MovesOne, OwedRight, DiskBlock, CdBlock
  <2>7. status = "data" /\ owed > 0 => owed' = 0
    <3>1. SUFFICES ASSUME status = "data", owed > 0 PROVE owed' = 0
      OBVIOUS
    <3>2. Words * ileft = Words
      BY <1>2, <1>3, <1>7, <1>9, <3>1
    <3>3. owed = Words - ptr
      BY <1>7, <3>1, <3>2
    <3> QED
      BY <1>2, <1>7, <3>1, <3>3
  <2>8. iirq' \/ nien
    BY <2>1 DEF I!Raise
  <2> QED
    BY <1>8, <2>3, <2>4, <2>6, <2>7, <2>8 DEF IdeInv
<1>10. CASE ileft' # 0
  <2>1. /\ ptr' = 0 /\ blk' = IF blk = 1 THEN f ELSE blk - 1
        /\ told' = IF blk = 1 /\ ileft' < f THEN Words * ileft' ELSE told
        /\ IF blk = 1 THEN I!Raise ELSE UNCHANGED iirq
        /\ UNCHANGED status
    BY <1>10 DEF I!CdSector
  <2>2. iirq' \in BOOLEAN
    BY <1>2, <2>1 DEF I!Raise
  <2>3. blk' \in Nat /\ blk' >= 1
    <3> HIDE DEF f
    <3> QED
      BY <1>1, <1>2, <1>12, <2>1
  <2>4. ileft' \in Nat
    BY <1>2, <1>3
  <2>5. told' \in 0 .. Most
    <3>1. told \in 0 .. Most /\ limit \in 0 .. Most /\ \A l \in 0 .. limit : l \in 0 .. Most
      BY <1>1, WordTypes DEF IdeInv, IdeTypes
    <3>2. ileft' < f => Words * ileft' \in 0 .. limit
      BY <1>12, <2>4
    <3> HIDE DEF f
    <3> QED
      BY <2>1, <3>1, <3>2
  <2>6. IdeTypes'
    <3>1. status' \in {"absent", "ready", "data", "error", "reset"} /\ ptr' \in Nat
      BY <2>1 DEF IdeInv, IdeTypes
    <3> QED
      BY <1>3, <2>2, <2>3, <2>5, <3>1, DataTypes
  <2>7. PointerInside'
    BY <1>1, <1>2, <2>1, <2>3 DEF MovesData, PointerInside
  <2>8. WaitsForBlock' /\ DiskBlock'
    BY <1>1, WordTypes DEF MovesData, DiskBlock
  <2>9. OwedRight'
    <3>1. SUFFICES ASSUME status = "data", owed' > 0
                   PROVE  0 < Words /\ ileft' >= 1 /\ owed' = Words * ileft' - 0
      BY <2>1 DEF OwedRight
    <3>2. owed > 0
      BY <1>2, <3>1 DEF MovesData
    <3> DEFINE z == Words * ileft
    <3>3. owed = z - ptr /\ owed' = owed - 1 /\ z \in Nat /\ ptr = Words - 1
      BY <1>7, <3>1, <3>2
    <3>4. Words * ileft' = z - Words
      BY <1>3, <1>7, <3>1, <3>2
    <3> HIDE DEF z
    <3>5. owed' = z - Words /\ (z - Words) - 0 = z - Words
      BY <1>2, <3>3
    <3>6. 0 < Words /\ ileft' >= 1
      BY <1>2, <1>10, <2>4
    <3> QED
      BY <3>4, <3>5, <3>6
  <2>10. Exact => ileft > 1 /\ ileft' = ileft - 1
    BY <1>2, <1>3, <1>4, <1>10
  <2>11. CdBlock'
    <3>1. SUFFICES ASSUME Exact
                   PROVE  /\ f <= ileft' => told' = Words * f
                          /\ quota' > 0 => /\ ileft' >= 1 /\ blk' <= f
                                           /\ quota' = Words * Smaller(ileft', blk') - 0
                          /\ quota' = 0 => blk' = f /\ told' = Words * Smaller(ileft', f)
      BY <1>2, <1>4, <1>13, <2>1 DEF CdBlock, MovesData, MovesOne
    <3> HIDE DEF f
    <3>2. CASE blk = 1
      <4>1. x = Words
        BY <1>5, <1>6, <3>1, <3>2
      <4>2. quota' = 0
        <5> HIDE DEF x
        <5> QED
          BY <1>2, <1>4, <3>1, <4>1
      <4>3. f <= ileft' => told' = Words * f
        BY <1>2, <1>4, <1>12, <2>1, <2>10, <3>1
      <4>4. told' = Words * Smaller(ileft', f)
        <5>1. CASE ileft' < f
          BY <1>12, <2>1, <2>4, <3>2, <5>1 DEF Smaller
        <5>2. CASE f <= ileft'
          <6>1. Smaller(ileft', f) = f
            BY <1>12, <2>4, <5>2 DEF Smaller
          <6> QED
            BY <4>3, <5>2, <6>1
        <5> QED
          BY <1>12, <2>4, <5>1, <5>2
      <4> QED
        BY <1>12, <2>1, <3>2, <4>2, <4>3, <4>4
    <3>3. CASE blk # 1
      <4>1. s >= 2 /\ Smaller(ileft', blk') = s - 1
        BY <1>5, <2>1, <2>10, <3>1, <3>3
      <4>2. Words * Smaller(ileft', blk') = y
        BY <4>1
      <4>3. quota' = y /\ y >= 1
        <5>1. x \in Nat /\ y = x - Words /\ y >= 1
          BY <1>5, <1>6, <3>1, <4>1
        <5> HIDE DEF x, y
        <5> QED
          BY <1>2, <1>4, <3>1, <5>1
      <4>4. f <= ileft' => told' = Words * f
        BY <1>2, <1>4, <1>12, <2>1, <2>10, <3>1, <3>3
      <4>5. blk' <= f /\ ileft' >= 1
        BY <1>2, <1>4, <1>12, <2>1, <2>10, <3>1, <3>3
      <4>6. y - 0 = y
        <5>1. y \in Int
          BY <1>2, <4>3, WordTypes DEF MovesData
        <5> HIDE DEF y
        <5> QED
          BY <5>1
      <4> HIDE DEF y
      <4>7. quota' = Words * Smaller(ileft', blk') - 0
        BY <4>2, <4>3, <4>6
      <4>8. quota' # 0
        BY <1>2, <4>3
      <4> QED
        BY <4>4, <4>5, <4>7, <4>8
    <3> QED
      BY <3>2, <3>3
  <2>12. quota = 1 /\ Exact => iirq' \/ nien
    <3>1. SUFFICES ASSUME quota = 1, Exact, blk # 1 PROVE FALSE
      BY <2>1 DEF I!Raise
    <3>2. x \in Nat /\ y = x - Words /\ y >= 1
      BY <1>5, <1>6, <2>10, <3>1
    <3> HIDE DEF x, y
    <3> QED
      BY <1>2, <1>4, <3>1, <3>2
  <2>13. ~(status = "data" /\ status' = "ready")
    BY <2>1
  <2> QED
    BY <1>8, <2>6, <2>7, <2>8, <2>9, <2>11, <2>12, <2>13 DEF IdeInv
<1> QED
  BY <1>9, <1>10

(* The last word of an answer.                                             *)
LEMMA IdeAnswer ==
  ASSUME I!IdeAssumption, IdeInv, MovesData, kind \in {"devin", "pdevin"},
         kind = "devin" => ptr + 1 = Words, kind = "pdevin" => ptr + 1 >= limit,
         status' = "ready", I!Raise, ptr' = ptr + 1, UNCHANGED <<ileft, blk, told>>
  PROVE  IdeInv'
<1>1. MovesOne /\ ptr \in Nat /\ quota \in Nat /\ iirq \in BOOLEAN /\ told \in Nat /\ Words \in Nat
  BY WordTypes DEF MovesData
<1>2. IdeTypes'
  <2>1. iirq' \in BOOLEAN
    BY <1>1 DEF I!Raise
  <2> QED
    BY <1>1, <2>1, DataTypes DEF IdeInv, IdeTypes
<1>3. PointerInside'
  <2>1. CASE kind = "devin"
    BY <1>1, <2>1 DEF MovesData, MovesOne, IdeInv, PointerInside
  <2>2. CASE kind = "pdevin"
    BY <1>1, <2>2 DEF MovesData, MovesOne, IdeInv, PointerInside
  <2> QED
    BY <2>1, <2>2
<1>4. WaitsForBlock' /\ OwnDrive'
  BY <1>1, WordTypes DEF MovesData, MovesOne, OwnDrive
<1>5. OwedRight' /\ DiskBlock' /\ CdBlock'
  BY DEF MovesData, OwedRight, DiskBlock, CdBlock
<1> QED
  BY <1>2, <1>3, <1>4, <1>5 DEF IdeInv

(* One word through the data port, and what it says of a transfer's end    *)
(* and of a block's.                                                       *)
LEMMA IdeMove ==
  ASSUME I!IdeAssumption, IdeInv, I!MoveWord
  PROVE  /\ IdeInv'
         /\ status = "data" /\ status' = "ready" /\ kind \in I!UserData /\ owed > 0 => owed' = 0
         /\ quota = 1 /\ kind \in {"in", "pin"} /\ from # 2 /\ (kind = "pin" => I!Aligned(limit)) =>
              iirq' \/ nien
<1>1. MovesOne
  BY DEF I!MoveWord, MovesOne
<1>2. /\ ptr \in Nat /\ limit \in Nat /\ Words \in Nat /\ Words >= 1 /\ quota \in Nat
      /\ kind \in {"in", "out", "devin", "packet", "pin", "pdevin"}
  <2>1. /\ ptr \in Nat /\ limit \in Nat /\ Words \in Nat /\ Words >= 1 /\ quota \in Nat
        /\ kind \in {"in", "out", "devin", "packet", "pin", "pdevin"}
    BY <1>1, WordTypes DEF IdeInv, IdeTypes, I!Kinds
  <2> QED
    BY <2>1, SMT
<1>3. CASE kind = "packet" /\ ptr + 1 = PacketWords
  <2>1. I!DoPacket
    BY <1>3 DEF I!MoveWord
  <2> QED
    BY <1>1, <1>3, <2>1, IdePacket DEF I!UserData
<1>4. CASE ~(kind = "packet" /\ ptr + 1 = PacketWords)
  <2>1. MovesData
    BY <1>1, <1>4 DEF I!MoveWord, MovesData
  <2>2. CASE kind \in {"in", "out"} /\ ptr + 1 >= Words
    <3>1. IF ileft > 1 THEN I!NextSector ELSE I!LastSector
      BY <1>4, <2>2 DEF I!MoveWord
    <3> QED
      BY <2>1, <2>2, <3>1, IdeDisk
  <2>3. CASE kind = "pin" /\ ptr + 1 >= Words
    <3>1. I!CdSector
      BY <1>4, <2>3 DEF I!MoveWord
    <3> QED
      BY <2>1, <2>3, <3>1, IdeCd DEF Exact
  <2>4. CASE (kind = "devin" /\ ptr + 1 = Words) \/ (kind = "pdevin" /\ ptr + 1 >= limit)
    <3>1. status' = "ready" /\ I!Raise /\ ptr' = ptr + 1 /\ UNCHANGED <<ileft, blk, told>>
      BY <1>4, <2>4 DEF I!MoveWord
    <3>2. kind \in {"devin", "pdevin"}
      BY <2>4
    <3>3. IdeInv'
      BY <2>1, <2>4, <3>1, <3>2, IdeAnswer
    <3> QED
      BY <3>2, <3>3 DEF I!UserData
  <2>5. CASE /\ ~(kind \in {"in", "out"} /\ ptr + 1 >= Words)
             /\ ~(kind = "pin" /\ ptr + 1 >= Words)
             /\ ~(kind = "devin" /\ ptr + 1 = Words)
             /\ ~(kind = "pdevin" /\ ptr + 1 >= limit)
    <3>1. ptr' = ptr + 1 /\ UNCHANGED <<status, ileft, blk, told, iirq>>
      BY <1>4, <2>5 DEF I!MoveWord
    <3>2. /\ kind = "packet" => ptr + 1 # PacketWords
          /\ kind \in {"in", "out", "pin"} => ptr + 1 < Words
          /\ kind = "devin" => ptr + 1 # Words
          /\ kind = "pdevin" => ptr + 1 < limit
      BY <1>2, <1>4, <2>5
    <3>3. IdeInv'
      BY <2>1, <3>1, <3>2, IdeWord
    <3>4. ~(status = "data" /\ status' = "ready")
      BY <3>1
    <3>5. quota = 1 /\ kind \in {"in", "pin"} /\ from # 2 /\ (kind = "pin" => I!Aligned(limit)) => FALSE
      <4>1. SUFFICES ASSUME quota = 1, kind \in {"in", "pin"}, from # 2,
                             kind = "pin" => Exact
                     PROVE  FALSE
        BY DEF Exact
      <4>2. quota' = 0
        BY <1>1, <4>1 DEF MovesOne
      <4>3. kind' = kind /\ from' = from /\ Exact' = Exact
        BY <2>1 DEF MovesData, MovesOne, Exact
      <4>4. status = "data" /\ status' = "data"
        BY <3>1, <4>1 DEF IdeInv, DiskBlock, CdBlock
      <4>5. ptr' = 0
        BY <3>3, <4>1, <4>2, <4>3, <4>4 DEF IdeInv, DiskBlock, CdBlock
      <4> QED
        BY <1>2, <3>1, <4>5
    <3> QED
      BY <3>3, <3>4, <3>5
  <2> QED
    BY <2>2, <2>3, <2>4, <2>5
<1> QED
  BY <1>3, <1>4

LEMMA IdeStep ==
  ASSUME I!IdeAssumption, IdeInv, [I!Next]_(I!vars)
  PROVE  /\ IdeInv'
         /\ I!MoveWord /\ status = "data" /\ status' = "ready" /\ kind \in I!UserData /\ owed > 0 =>
              owed' = 0
         /\ I!MoveWord /\ quota = 1 /\ kind \in {"in", "pin"} /\ from # 2
            /\ (kind = "pin" => I!Aligned(limit)) => iirq' \/ nien
<1>1. CASE I!Commands
  BY <1>1, IdeCommands, IdeMove
<1>2. CASE I!MoveWord
  BY <1>2, IdeMove
<1>3. CASE I!Look
  BY <1>3, IdeLook, IdeMove
<1>4. CASE I!GiveUp \/ I!SoftReset \/ I!ReadDevice \/ I!DoAtapi \/ (\E b \in BOOLEAN : I!WriteNien(b))
           \/ (\E d \in I!Devices : I!Select(d)) \/ UNCHANGED I!vars
  BY <1>4, IdeOthers, IdeMove
<1>5. ASSUME NEW d \in I!Devices, NEW in \in BOOLEAN, I!Mount(d, in) PROVE IdeInv'
  BY <1>5, IdeMounts
<1>6. CASE \E d \in I!Devices, in \in BOOLEAN : I!Mount(d, in)
  BY <1>5, <1>6, IdeMove
<1> QED
  BY <1>1, <1>2, <1>3, <1>4, <1>6 DEF I!Next

LEMMA IdeAccounted == IdeInv => I!Accounted
<1> SUFFICES ASSUME IdeInv, status = "data", kind \in I!UserData, owed > 0
             PROVE  from \in {isel, 2} /\ owed = Words * ileft - ptr
  BY DEF I!Accounted
<1> QED
  BY DEF IdeInv, OwnDrive, OwedRight

(* A step of the two together is a step of each.                           *)
LEMMA PartSteps ==
  [PartsNext]_<<part, vars, ideVars>> => [Next]_vars /\ [I!Next]_(I!vars)
<1>1. ideVars' = ideVars => I!vars' = I!vars
  BY DEF ideVars, I!vars, I!device, I!driver
<1> QED
  BY <1>1 DEF PartsNext

(***************************** Both together *******************************)
(* Whichever controller a behaviour exercises, both invariants hold.       *)
THEOREM StorageInvariant ==
  ASSUME I!IdeAssumption
  PROVE  PartsSpec => [](FloppyInv /\ IdeInv)
<1>1. PartsInit => FloppyInv /\ IdeInv
  BY FloppyBegins, IdeBegins DEF PartsInit
<1>2. FloppyInv /\ IdeInv /\ [PartsNext]_<<part, vars, ideVars>> => FloppyInv' /\ IdeInv'
  BY PartSteps, FloppyStep, IdeStep
<1> QED
  BY <1>1, <1>2, PTL DEF PartsSpec

(* The main status register agrees with the phase of the command, the 8237 *)
(* has counted every byte, and the two counters of an IDE transfer hold    *)
(* the words still owed to the drive the command was given to (write_data, *)
(* run_dma_task, reg_read_data, reg_write_data): for all sizes.            *)
THEOREM StorageAccounts ==
  ASSUME I!IdeAssumption
  PROVE  PartsSpec => []AccountsAgree
<1>1. FloppyInv /\ IdeInv => AccountsAgree
  <2>1. FloppyInv => TypeOK /\ PhaseAgrees /\ CountedExactly
    BY DEF FloppyInv
  <2>2. IdeInv => I!TypeOK /\ I!Accounted
    BY IdeTypesBound, IdeAccounted DEF IdeInv
  <2> QED
    BY <2>1, <2>2 DEF AccountsAgree
<1> QED
  BY <1>1, StorageInvariant, PTL

(* A floppy transfer ends on the terminal count, unless that of an earlier *)
(* one was left standing, and its sectors follow one another on the disk;  *)
(* an IDE transfer that ends has moved every word, and a block of a read   *)
(* that leaves more to come is followed by an interrupt, for a CD if the   *)
(* byte count limit is a whole number of sectors (do_floppy,               *)
(* reg_read_data): for all sizes.                                          *)
THEOREM StorageTransfers ==
  ASSUME I!IdeAssumption
  PROVE  PartsSpec => TransfersRight
<1>1. FloppyInv /\ [PartsNext]_<<part, vars, ideVars>> =>
        [/\ task /\ ~task' => count'[Ch] = Last \/ stale
         /\ MoveSector /\ par.mt /\ place[sel].sn \in 1 .. par.eot =>
              Linear(place'[sel]) = (Linear(place[sel]) % (2 * par.eot * Cylinders)) + 1]_vars
  BY PartSteps, TransferStep
<1>2. IdeInv /\ [PartsNext]_<<part, vars, ideVars>> =>
        /\ [I!MoveWord /\ status = "data" /\ status' = "ready" /\ kind \in I!UserData /\ owed > 0 =>
              owed' = 0]_(I!vars)
        /\ [I!MoveWord /\ quota = 1 /\ kind \in {"in", "pin"} /\ from # 2
            /\ (kind = "pin" => I!Aligned(limit)) => iirq' \/ nien]_(I!vars)
  BY PartSteps, IdeStep
<1> QED
  BY <1>1, <1>2, StorageInvariant, PTL
     DEF PartsSpec, TransfersRight, TransferRight, I!BlocksKept, I!WholeTransfer, I!BlockAnnounced
=============================================================================
