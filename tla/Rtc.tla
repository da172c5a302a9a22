--------------------------------- MODULE Rtc ---------------------------------
(* The clock of the CMOS: sys/cmos.cpp.  The time is kept twice, as digits  *)
(* that count and as the registers that show them; a carry is decided on    *)
(* what is shown, so that 00 never is, and the last value of each register  *)
(* stays for the unit in which the digits are 00.                           *)
EXTENDS Naturals

CONSTANTS Limit,     (* one more than the last second, minute and hour      *)
          Alarms,    (* alarm times that the guest sets                     *)
          Times,     (* times that it writes                                *)
          Enables,   (* sets of interrupts that it enables                  *)
          Writes     (* bound: writes to the time and the alarm             *)

Units == {"second", "minute", "hour"}
Shown == {t \in [Units -> 0..60] : \A u \in Units : t[u] \in 1..Limit[u] - 1}

RtcAssumption ==
  /\ Limit \in [Units -> 2..60] /\ Writes \in Nat
  /\ Alarms \cup Times \subseteq Shown
  /\ Enables \subseteq SUBSET {"update", "alarm", "periodic"}

VARIABLES
  digits, shown,  (* s_bcd, m_bcd, h_bcd; registers 0, 2 and 4              *)
  alarm,          (* registers 1, 3 and 5                                   *)
  flags, enabled, (* UF, AF and PF of register C; the enables of register B *)
  halted,         (* SET of register B                                      *)
  rs,             (* register A selects a rate                              *)
  irq8,           (* IRQ8 of the 8259, which nothing here withdraws         *)
  writes          (* bounded                                                *)

time == <<digits, shown, alarm>>
vars == <<time, flags, enabled, halted, rs, irq8, writes>>

TypeOK ==
  /\ digits \in [Units -> 0..60] /\ \A u \in Units : digits[u] < Limit[u]
  /\ shown \in [Units -> 0..60] /\ alarm \in Shown
  /\ flags \cup enabled \subseteq {"update", "alarm", "periodic"}
  /\ {halted, rs, irq8} \subseteq BOOLEAN /\ writes \in 0..Writes

Init ==
  /\ digits = [u \in Units |-> 0] /\ shown \in Times /\ alarm \in Alarms
  /\ flags = {} /\ enabled = {} /\ halted = FALSE /\ rs = FALSE
  /\ irq8 = FALSE /\ writes = 0

(****************************** The clock **********************************)
(* One more unit u: its digits count and are shown.                         *)
Count(t, u) == LET n == t.digits[u] + 1 IN
  [digits |-> [t.digits EXCEPT ![u] = n], shown |-> [t.shown EXCEPT ![u] = n]]

(* When u shows its last value, its digits start again and v counts.        *)
Carry(t, u, v) ==
  IF t.shown[u] = Limit[u] - 1
  THEN Count([t EXCEPT !.digits[u] = 0], v) ELSE t

(* The hour's carry goes to the date, which is left out.                    *)
CarryHour(t) ==
  IF t.shown["hour"] = Limit["hour"] - 1 THEN [t EXCEPT !.digits["hour"] = 0] ELSE t

Advance(t) ==
  CarryHour(Carry(Carry(Count(t, "second"), "second", "minute"), "minute", "hour"))

(* A slip: the alarm is compared with what counts instead of what is shown. *)
MatchesDigits(t) == t.digits = alarm
Matches(t) == t.shown = alarm

(* do_cmos_rtc, in a call that ends a second, or a period of the selected   *)
(* rate, or both.                                                           *)
Tick(second, period) ==
  LET t    == IF second THEN Advance([digits |-> digits, shown |-> shown])
                        ELSE [digits |-> digits, shown |-> shown]
      raised == (IF second THEN {"update"} ELSE {})
                \cup (IF second /\ Matches(t) THEN {"alarm"} ELSE {})
                \cup (IF period THEN {"periodic"} ELSE {})
  IN /\ second => ~halted
     /\ period => rs
     /\ digits' = t.digits /\ shown' = t.shown
     /\ flags' = flags \cup raised
     /\ irq8' = (irq8 \/ raised \cap enabled # {})
     /\ UNCHANGED <<alarm, enabled, halted, rs, writes>>

(****************************** The registers ******************************)
(* Reading C clears it; port 73h reads the same register and does not.      *)
ReadC(port) ==
  /\ flags' = IF port = 113 THEN {} ELSE flags
  /\ UNCHANGED <<time, enabled, halted, rs, irq8, writes>>

WriteA(selected) ==
  /\ rs' = selected
  /\ UNCHANGED <<time, flags, enabled, halted, irq8, writes>>

WriteB(e, set) ==
  /\ enabled' = e /\ halted' = set
  /\ UNCHANGED <<time, flags, rs, irq8, writes>>

(* A time that is written is shown until the digits count the next one.     *)
WriteTime(t) ==
  /\ writes < Writes /\ writes' = writes + 1 /\ shown' = t
  /\ UNCHANGED <<digits, alarm, flags, enabled, halted, rs, irq8>>

WriteAlarm(t) ==
  /\ writes < Writes /\ writes' = writes + 1 /\ alarm' = t
  /\ UNCHANGED <<digits, shown, flags, enabled, halted, rs, irq8>>

(* The 8259 retires the request.                                            *)
Eoi8 ==
  /\ irq8 /\ irq8' = FALSE
  /\ UNCHANGED <<time, flags, enabled, halted, rs, writes>>

Ports == {113, 115}                                       (* 71h and 73h    *)

Next ==
  \/ \E second, period \in BOOLEAN : (second \/ period) /\ Tick(second, period)
  \/ \E port \in Ports : ReadC(port)
  \/ \E selected \in BOOLEAN : WriteA(selected)
  \/ \E e \in Enables, set \in BOOLEAN : WriteB(e, set)
  \/ \E t \in Times : WriteTime(t)
  \/ \E t \in Alarms : WriteAlarm(t)
  \/ Eoi8

(* run_clock calls do_cmos_rtc for ever, and a second passes in it.         *)
Spec == Init /\ [][Next]_vars /\ WF_vars(\E period \in BOOLEAN : Tick(TRUE, period))

(******************************* Correctness *******************************)
(* While the clock runs and the guest leaves it alone, the alarm rings      *)
(* again after every read of register C, whatever time was written over the *)
(* running digits: every time without a 00 comes round, although an hour    *)
(* passes in each second of the last minute.                                *)
AlarmRings == ~halted /\ "alarm" \notin flags ~> halted \/ "alarm" \in flags
=============================================================================
