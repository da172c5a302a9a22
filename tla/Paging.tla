------------------------------- MODULE Paging --------------------------------
(* Address translation: the two translation lookaside buffers (tlb.cpp), the  *)
(* walk of the page tables with its accessed bits (mmu.cpp) and the registers *)
(* and instructions that invalidate entries (cpu.cpp, mrom-exec.cpp,          *)
(* task.cpp).  An address is a directory index and a table index; a large     *)
(* page is mapped by its directory entry.  Access control is that of the      *)
(* entry which maps the page: the system leaves the directory entries of      *)
(* small pages open (a hit looks at the last level only).                     *)
EXTENDS Integers, FiniteSets

CONSTANTS Dirs, Tabs,     \* indices of an address
          N,              \* entries of a buffer
          Frames,
          Contents,       \* entries the system software writes: not accessed
          Pae             \* CR4.PAE: the walk that writes no accessed bits

Sides == {"code", "data"}
Addresses == Dirs \X Tabs

(* An entry of a directory or a table: present, writable, user, its frame,    *)
(* accessed, and for a directory entry whether it maps a large page.          *)
Pte == [p : BOOLEAN, w : BOOLEAN, u : BOOLEAN, f : Frames, a : BOOLEAN]
Open == [p |-> TRUE, w |-> TRUE, u |-> TRUE, f |-> 0, a |-> FALSE]
Copies == [big : BOOLEAN, d : Dirs, t : Tabs, pte : Pte]

PagingAssumption ==
  /\ N \in Nat \ {0} /\ 0 \in Tabs /\ 0 \in Frames /\ Pae \in BOOLEAN
  /\ Contents \subseteq Pte

VARIABLES large,      \* directory entries that map a large page
          pde, pte,   \* entries of the directory in CR3 and of its tables
          tlb,        \* valid copies, for code and for data, at most N each
          owed,       \* addresses changed and not yet invalidated in this root
          resized     \* those among them whose page has changed its size

vars == <<large, pde, pte, tlb, owed, resized>>
tables == <<large, pde, pte>>

TypeOK ==
  /\ large \in [Dirs -> BOOLEAN] /\ pde \in [Dirs -> Pte] /\ pte \in [Addresses -> Pte]
  /\ \A s \in Sides : tlb[s] \subseteq Copies /\ Cardinality(tlb[s]) <= N
  /\ owed \subseteq Addresses /\ resized \subseteq owed

(* What maps address k in the current tables.                                 *)
Leaf(k) == IF large[k[1]] THEN pde[k[1]] ELSE pte[k]
Permits(e, user, write) == e.p /\ (user => e.u /\ (write => e.w))

Covers(e, k) == e.d = k[1] /\ (e.big \/ e.t = k[2])
Matching(s, k) == {e \in tlb[s] : Covers(e, k)}

(* CTLB::insert takes a free entry, or replaces one that is old enough or the *)
(* first of all: here any, the ages being left out.                           *)
Insert(s, e) ==
  IF Cardinality(tlb[s]) < N THEN tlb' = [tlb EXCEPT ![s] = @ \cup {e}]
  ELSE \E victim \in tlb[s] : tlb' = [tlb EXCEPT ![s] = (@ \ {victim}) \cup {e}]

Accessed(e) == [e EXCEPT !.a = ~Pae \/ @]

Init ==
  /\ large = [d \in Dirs |-> FALSE]
  /\ pde = [d \in Dirs |-> Open]
  /\ pte \in [Addresses -> Contents]
  /\ tlb = [s \in Sides |-> {}]
  /\ owed = {} /\ resized = {}

(* A hit is decided by the copy; a fault removes it.                          *)
AccessHit(s, k, user, write) ==
  /\ \E e \in Matching(s, k) :
       tlb' = IF Permits(e.pte, user, write) THEN tlb ELSE [tlb EXCEPT ![s] = @ \ {e}]
  /\ UNCHANGED <<tables, owed, resized>>

Copy(k) ==
  LET big == large[k[1]] IN
  [big |-> big, d |-> k[1], t |-> IF big THEN 0 ELSE k[2], pte |-> Leaf(k)]

(* A miss: the directory entry is checked and marked, then the table's; the   *)
(* copy kept is the one read before it was marked.                            *)
AccessMiss(s, k, user, write) ==
  LET up == pde[k[1]]
      big == large[k[1]] IN
  /\ Matching(s, k) = {}
  /\ up.p
  /\ pde' = IF Permits(up, user, write) THEN [pde EXCEPT ![k[1]] = Accessed(@)] ELSE pde
  /\ IF Permits(up, user, write) /\ Permits(Leaf(k), user, write)
     THEN /\ Insert(s, Copy(k))
          /\ pte' = IF big THEN pte ELSE [pte EXCEPT ![k] = Accessed(@)]
     ELSE UNCHANGED <<tlb, pte>>
  /\ UNCHANGED <<large, owed, resized>>

(* The system software changes an entry of the current tables.                *)
SetPte(k, e) ==
  /\ ~large[k[1]] /\ e # pte[k]
  /\ pte' = [pte EXCEPT ![k] = e]
  /\ owed' = owed \cup {k}
  /\ UNCHANGED <<large, pde, tlb, resized>>
SetPde(d, big, e) ==
  LET under == {k \in Addresses : k[1] = d} IN
  /\ big # large[d] \/ (big /\ e # pde[d])
  /\ big \/ e = Open
  /\ large' = [large EXCEPT ![d] = big]
  /\ pde' = [pde EXCEPT ![d] = e]
  /\ owed' = owed \cup under
  /\ resized' = IF big # large[d] THEN resized \cup under ELSE resized
  /\ UNCHANGED <<pte, tlb>>

(* CTLB::invalid: the first entry that matches, in either buffer.  (A page    *)
(* that has changed its size may have two.)                                   *)
Without(s, k) == IF Matching(s, k) = {} THEN {tlb[s]} ELSE {tlb[s] \ {e} : e \in Matching(s, k)}
\* A slip: only the data buffer.
InvlpgData(k) ==
  /\ \E data \in Without("data", k) : tlb' = [tlb EXCEPT !["data"] = data]
  /\ owed' = owed \ ({k} \ resized)
  /\ UNCHANGED <<tables, resized>>
Invlpg(k) ==
  /\ \E code \in Without("code", k), data \in Without("data", k) :
       tlb' = [s \in Sides |-> IF s = "code" THEN code ELSE data]
  /\ owed' = owed \ ({k} \ resized)
  /\ UNCHANGED <<tables, resized>>

(* MOV CR3, and CR0 or CR4 with another PG, PE, PGE, PAE or PSE.              *)
Flush ==
  /\ tlb' = [s \in Sides |-> {}]
  /\ owed' = {} /\ resized' = {}
  /\ UNCHANGED tables

(* A task switch loads CR3 from the TSS, with other tables, and leaves the    *)
(* buffers alone: every address may have an old copy.                         *)
TaskSwitch ==
  /\ \E d \in Dirs, big \in BOOLEAN, e \in Contents :
       /\ large' = [large EXCEPT ![d] = big]
       /\ pde' = [pde EXCEPT ![d] = IF big THEN e ELSE Open]
  /\ pte' \in [Addresses -> Contents]
  /\ owed' = Addresses /\ resized' = Addresses
  /\ UNCHANGED tlb

Next ==
  \/ \E s \in Sides, k \in Addresses, user \in BOOLEAN, write \in BOOLEAN :
       /\ s = "code" => ~write
       /\ AccessHit(s, k, user, write) \/ AccessMiss(s, k, user, write)
  \/ \E k \in Addresses, e \in Contents : SetPte(k, e)
  \/ \E d \in Dirs, big \in BOOLEAN, e \in Contents \cup {Open} : SetPde(d, big, e)
  \/ \E k \in Addresses : Invlpg(k)
  \/ Flush \/ TaskSwitch
Spec == Init /\ [][Next]_vars

(* Every translation in use is the current tables': an address that the       *)
(* system software has invalidated since it last changed it, and since the    *)
(* last task switch, is translated by both buffers and under every order of   *)
(* replacement to the page and with the rights of the tables, which the walk  *)
(* has marked accessed unless it is the one for PAE.                          *)
Fresh ==
  \A s \in Sides, k \in Addresses \ owed : \A e \in Matching(s, k) :
    Accessed(e.pte) = Leaf(k)

(* No two entries of a buffer translate one address, as long as pages keep    *)
(* their size: the match that INVLPG or a fault removes is the only one, so   *)
(* that an access which faulted on an old copy is decided by the tables when  *)
(* it is repeated.                                                            *)
OneMatch == \A s \in Sides, k \in Addresses \ resized : Cardinality(Matching(s, k)) <= 1
Coherent == Fresh /\ OneMatch

(* tlb.cpp:181 "writint to cr3,  non global tlb entries are flushed."  No     *)
(* translation of the old tables survives a load of CR3.                      *)
Cr3Flushes == [][TaskSwitch => \A s \in Sides : tlb'[s] = {}]_vars
==============================================================================
