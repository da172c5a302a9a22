---------------------------- MODULE Rings_proofs ----------------------------
(***************************************************************************)
(* Lemmas about rings: an array of R slots and two indices below R, which  *)
(* the command ring and the ring of scan codes both are.                   *)
(***************************************************************************)
EXTENDS Integers, SequenceTheorems, TLAPS

(***************************************************************************)
(* The indices of a ring of R slots, and the sequence of what its slots    *)
(* hold from index r up to index w.                                        *)
(***************************************************************************)
Holds(R, r, w, buf) == [i \in 1 .. ((w - r) % R) |-> buf[(r + i - 1) % R]]

(* The distance between two indices, without the modulus.                  *)
LEMMA Distance ==
  ASSUME NEW R \in Nat, R >= 2, NEW r \in 0 .. R - 1, NEW w \in 0 .. R - 1
  PROVE  /\ (w - r) % R = IF w >= r THEN w - r ELSE w - r + R
         /\ (w - r) % R \in 0 .. R - 1
         /\ (w - r) % R = 0 <=> r = w
         /\ (w + R - r) % R = (w - r) % R
<1>1. (w - r) % R = IF w >= r THEN w - r ELSE w - r + R
  OBVIOUS
<1>2. (w + R - r) % R = IF w >= r THEN w - r ELSE w - r + R
  OBVIOUS
<1> QED
  BY <1>1, <1>2

(* The slot a given number of places after an index.                       *)
LEMMA SlotAfter ==
  ASSUME NEW R \in Nat, R >= 2, NEW r \in 0 .. R - 1, NEW i \in 1 .. R - 1
  PROVE  /\ (r + i - 1) % R = IF r + i - 1 < R THEN r + i - 1 ELSE r + i - 1 - R
         /\ (r + i - 1) % R \in 0 .. R - 1
OBVIOUS

LEMMA HoldsElement ==
  ASSUME NEW R \in Nat, R >= 2, NEW r \in 0 .. R - 1, NEW w \in 0 .. R - 1, NEW buf,
         NEW i \in 1 .. ((w - r) % R)
  PROVE  Holds(R, r, w, buf)[i] = buf[(r + i - 1) % R]
BY DEF Holds

LEMMA HoldsLength ==
  ASSUME NEW R \in Nat, R >= 2, NEW r \in 0 .. R - 1, NEW w \in 0 .. R - 1, NEW buf
  PROVE  Len(Holds(R, r, w, buf)) = (w - r) % R
<1>1. (w - r) % R \in Nat
  BY Distance
<1> QED
  BY <1>1 DEF Holds

LEMMA HoldsType ==
  ASSUME NEW S, NEW R \in Nat, R >= 2, NEW r \in 0 .. R - 1, NEW w \in 0 .. R - 1,
         NEW buf \in [0 .. R - 1 -> S]
  PROVE  Holds(R, r, w, buf) \in Seq(S)
<1> DEFINE n == (w - r) % R
<1>1. n \in Nat /\ n <= R - 1
  BY Distance
<1>2. \A i \in 1 .. n : buf[(r + i - 1) % R] \in S
  BY <1>1, SlotAfter
<1> HIDE DEF n
<1>3. Holds(R, r, w, buf) = [i \in 1 .. n |-> buf[(r + i - 1) % R]]
  BY DEF Holds, n
<1> QED
  BY <1>1, <1>2, <1>3

LEMMA HoldsNothing ==
  ASSUME NEW R \in Nat, R >= 2, NEW w \in 0 .. R - 1, NEW buf
  PROVE  Holds(R, w, w, buf) = <<>>
<1>1. (w - w) % R = 0
  OBVIOUS
<1> QED
  BY <1>1 DEF Holds

(* The index behind another, in the ring.                                  *)
Beyond(R, i) == IF i = R - 1 THEN 0 ELSE i + 1

(* What is stored at w appears when w moves on.                            *)
LEMMA HoldsAppend ==
  ASSUME NEW S, NEW R \in Nat, R >= 2, NEW r \in 0 .. R - 1, NEW w \in 0 .. R - 1,
         NEW buf \in [0 .. R - 1 -> S], (w - r) % R # R - 1
  PROVE  /\ Holds(R, r, Beyond(R, w), buf) = Append(Holds(R, r, w, buf), buf[w])
         /\ Len(Holds(R, r, w, buf)) < R - 1
<1> DEFINE u == Beyond(R, w)
           s == Holds(R, r, w, buf)
           t == Holds(R, r, u, buf)
<1>1. u \in 0 .. R - 1
  BY DEF Beyond
<1>2. s \in Seq(S)
  BY HoldsType
<1>3. Len(s) = (w - r) % R
  BY HoldsLength
<1>4. ASSUME NEW i \in 1 .. Len(s) PROVE s[i] = buf[(r + i - 1) % R]
  <2>1. i \in 1 .. ((w - r) % R)
    BY <1>3
  <2> QED
    BY <2>1, HoldsElement
<1> HIDE DEF u, s
<1>5. t \in Seq(S)
  BY <1>1, HoldsType
<1>6. Len(t) = (u - r) % R
  BY <1>1, HoldsLength
<1>7. \A i \in 1 .. Len(t) : t[i] = buf[(r + i - 1) % R]
  BY <1>1, <1>6, HoldsElement
<1> HIDE DEF t
<1>8. Len(s) = (IF w >= r THEN w - r ELSE w - r + R) /\ Len(s) # R - 1
  BY <1>3, Distance
<1>9. Len(t) = IF u >= r THEN u - r ELSE u - r + R
  BY <1>1, <1>6, Distance
<1>10. Len(t) = Len(s) + 1 /\ Len(t) <= R - 1 /\ Len(s) < R - 1
  BY <1>1, <1>8, <1>9 DEF Beyond, u
<1>11. buf[w] \in S
  OBVIOUS
<1>12. /\ Append(s, buf[w]) \in Seq(S) /\ Len(Append(s, buf[w])) = Len(s) + 1
      /\ \A i \in 1 .. Len(s) + 1 :
           Append(s, buf[w])[i] = IF i = Len(s) + 1 THEN buf[w] ELSE s[i]
  BY <1>2, <1>11
<1>13. ASSUME NEW i \in 1 .. Len(t) PROVE t[i] = Append(s, buf[w])[i]
  <2>1. i \in 1 .. R - 1 /\ i \in 1 .. Len(s) + 1
    BY <1>8, <1>10
  <2>2. (r + i - 1) % R = IF r + i - 1 < R THEN r + i - 1 ELSE r + i - 1 - R
    BY <2>1, SlotAfter
  <2>3. CASE i = Len(s) + 1
    <3>1. (r + i - 1) % R = w
      BY <1>8, <2>1, <2>2, <2>3
    <3> QED
      BY <1>7, <1>12, <2>1, <2>3, <3>1
  <2>4. CASE i # Len(s) + 1
    <3>1. i \in 1 .. Len(s)
      BY <1>8, <2>1, <2>4
    <3> QED
      BY <1>4, <1>7, <1>12, <2>1, <2>4, <3>1
  <2> QED
    BY <2>3, <2>4
<1>14. t = Append(s, buf[w])
  BY <1>5, <1>10, <1>12, <1>13, SeqEqual
<1> QED
  BY <1>10, <1>14 DEF u, s, t

(* What r leaves is the first.                                             *)
LEMMA HoldsTail ==
  ASSUME NEW S, NEW R \in Nat, R >= 2, NEW r \in 0 .. R - 1, NEW w \in 0 .. R - 1,
         NEW buf \in [0 .. R - 1 -> S], r # w
  PROVE  /\ Holds(R, r, w, buf) # <<>>
         /\ Head(Holds(R, r, w, buf)) = buf[r]
         /\ Holds(R, Beyond(R, r), w, buf) = Tail(Holds(R, r, w, buf))
<1> DEFINE u == Beyond(R, r)
           s == Holds(R, r, w, buf)
           t == Holds(R, u, w, buf)
<1>1. u \in 0 .. R - 1
  BY DEF Beyond
<1>2. s \in Seq(S)
  BY HoldsType
<1>3. Len(s) = (w - r) % R
  BY HoldsLength
<1>4. ASSUME NEW i \in 1 .. Len(s) PROVE s[i] = buf[(r + i - 1) % R]
  <2>1. i \in 1 .. ((w - r) % R)
    BY <1>3
  <2> QED
    BY <2>1, HoldsElement
<1> HIDE DEF u, s
<1>5. t \in Seq(S)
  BY <1>1, HoldsType
<1>6. Len(t) = (w - u) % R
  BY <1>1, HoldsLength
<1>7. \A i \in 1 .. Len(t) : t[i] = buf[(u + i - 1) % R]
  BY <1>1, <1>6, HoldsElement
<1> HIDE DEF t
<1>8. Len(s) = IF w >= r THEN w - r ELSE w - r + R
  BY <1>3, Distance
<1>9. Len(t) = IF w >= u THEN w - u ELSE w - u + R
  BY <1>1, <1>6, Distance
<1>10. Len(t) = Len(s) - 1 /\ Len(s) \in 1 .. R - 1
  BY <1>1, <1>8, <1>9 DEF Beyond, u
<1>11. Head(s) = buf[r]
  <2>1. 1 \in 1 .. Len(s)
    BY <1>10
  <2>2. (r + 1 - 1) % R = r
    OBVIOUS
  <2>3. s # <<>>
    BY <1>2, <2>1
  <2>4. Head(s) = s[1]
    BY <1>2, <2>3
  <2>5. s[1] = buf[(r + 1 - 1) % R]
    BY <1>4, <2>1
  <2> QED
    BY <2>2, <2>4, <2>5
<1>12. /\ Tail(s) \in Seq(S) /\ Len(Tail(s)) = Len(s) - 1
      /\ \A i \in 1 .. Len(Tail(s)) : Tail(s)[i] = s[i + 1]
  <2>1. s # <<>>
    BY <1>2, <1>10
  <2> QED
    BY <1>2, <2>1, HeadTailProperties
<1>13. ASSUME NEW i \in 1 .. Len(t) PROVE t[i] = Tail(s)[i]
  <2>1. i \in 1 .. R - 1 /\ i + 1 \in 1 .. R - 1 /\ i + 1 \in 1 .. Len(s)
    BY <1>10
  <2>2. (u + i - 1) % R = IF u + i - 1 < R THEN u + i - 1 ELSE u + i - 1 - R
    BY <1>1, <2>1, SlotAfter
  <2>3. (r + (i + 1) - 1) % R =
          IF r + (i + 1) - 1 < R THEN r + (i + 1) - 1 ELSE r + (i + 1) - 1 - R
    BY <2>1, SlotAfter
  <2>4. (u + i - 1) % R = (r + (i + 1) - 1) % R
    BY <2>1, <2>2, <2>3 DEF Beyond, u
  <2>5. s[i + 1] = buf[(r + (i + 1) - 1) % R]
    BY <1>4, <2>1
  <2> QED
    BY <1>7, <1>10, <1>12, <2>4, <2>5
<1>14. t = Tail(s)
  BY <1>5, <1>10, <1>12, <1>13, SeqEqual
<1>15. s # <<>>
  BY <1>2, <1>10
<1> QED
  BY <1>11, <1>14, <1>15 DEF u, s, t

(* What is held is not in the slot w itself.                               *)
LEMMA HeldSlot ==
  ASSUME NEW R \in Nat, R >= 2, NEW r \in 0 .. R - 1, NEW w \in 0 .. R - 1,
         NEW i \in 1 .. ((w - r) % R)
  PROVE  (r + i - 1) % R \in 0 .. R - 1 /\ (r + i - 1) % R # w
<1>1. i \in 1 .. R - 1 /\ i <= IF w >= r THEN w - r ELSE w - r + R
  BY Distance
<1>2. /\ (r + i - 1) % R = IF r + i - 1 < R THEN r + i - 1 ELSE r + i - 1 - R
      /\ (r + i - 1) % R \in 0 .. R - 1
  BY <1>1, SlotAfter
<1> QED
  BY <1>1, <1>2
=============================================================================
