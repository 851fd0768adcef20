----------------------------- MODULE RingProofs -----------------------------
(***************************************************************************)
(* The ring of records on flash, for every number of slots and sectors and *)
(* every width of the sequence counter: what the two regions that are kept *)
(* in one, the rolling codes and the configuration, both rest on.          *)
(*                                                                         *)
(* The argument is about one record, the newest.  Every other is behind    *)
(* it by no more than its slot is (InOrder), so one pass in index order    *)
(* finds it; a write aims at the slot after it or at the sector after its  *)
(* own (Follows), so no erase touches it, and what is written there is the *)
(* newest in turn.                                                         *)
(***************************************************************************)
EXTENDS SlotRing, WellFoundedInduction, NaturalsInduction, TLAPS

-----------------------------------------------------------------------------
(* Numbers                                                                 *)

\* A set of natural numbers that is not empty has a least one.
LEMMA Least ==
    ASSUME NEW S \in SUBSET Nat, S # {}
    PROVE  \E m \in S : \A n \in S : m <= n
<1>1. PICK m \in S : \A n \in S : ~(<<n, m>> \in OpToRel(<, Nat))
  BY WFMin, NatLessThanWellFounded
<1>2. \A n \in S : ~(n < m)
  BY <1>1 DEF OpToRel
<1> QED BY <1>2

\* Min names the least element of a set of natural numbers.
LEMMA LeastIsMin ==
    ASSUME NEW S \in SUBSET Nat, S # {}
    PROVE  Min(S) \in S /\ \A n \in S : Min(S) <= n
<1>1. \E m \in S : \A n \in S : m <= n
  BY Least
<1> QED BY <1>1, Zenon DEF Min

\* One turn of a counter.
LEMMA Turn ==
    ASSUME NEW m \in Nat \ {0}, NEW a \in Int, -m <= a, a < 2 * m
    PROVE  a % m = IF a < 0 THEN a + m ELSE IF a < m THEN a ELSE a - m
OBVIOUS

\* Quotient and remainder make up the number again.
LEMMA Split ==
    ASSUME NEW m \in Nat \ {0}, NEW a \in Nat
    PROVE  /\ a \div m \in Nat /\ a % m \in 0..(m - 1)
           /\ a = m * (a \div m) + (a % m)
OBVIOUS

\* A multiple with a remainder below the divisor is divided back into the two.
LEMMA Quotient ==
    ASSUME NEW m \in Nat \ {0}, NEW q \in Nat, NEW r \in 0..(m - 1)
    PROVE  (m * q + r) \div m = q /\ (m * q + r) % m = r
OBVIOUS

\* A larger quotient is a whole multiple further on.
LEMMA Multiples ==
    ASSUME NEW m \in Nat \ {0}, NEW q \in Int, NEW r \in Int, q < r
    PROVE  m * q + m <= m * r
OBVIOUS

\* A whole sector that starts below the end of the ring ends within it.
LEMMA LastSector ==
    ASSUME NEW m \in Nat \ {0}, NEW q \in Nat, NEW all \in Nat, NEW a \in Nat, NEW b \in Nat,
           NEW r \in 0..(m - 1), a = m * q + r, b = m * all, a < b
    PROVE  m * q + m <= b
<1>1. q < all
  <2> SUFFICES ASSUME all <= q PROVE FALSE
    OBVIOUS
  <2>1. m * all <= m * q
    BY Multiples
  <2>2. m * q \in Nat
    OBVIOUS
  <2> QED BY <2>1, <2>2
<1> QED BY <1>1, Multiples

\* What the assumption on the ring says of its sizes: a turn of the counter is more
\* than two laps.
LEMMA RingType == /\ SLOTS \in Nat \ {0} /\ PER \in Nat \ {0} /\ SEQS \in Nat \ {0}
                  /\ SLOTS >= 2 * PER /\ HALF \in Nat /\ SLOTS + 1 <= HALF /\ HALF < SEQS
                  /\ SEQS - HALF >= HALF
<1>1. SLOTS \in Nat \ {0} /\ PER \in Nat \ {0} /\ SEQS \in Nat \ {0}
      /\ SLOTS >= 2 * PER /\ 2 * (SLOTS + 1) < SEQS
  BY RingAssumption
<1> QED BY <1>1 DEF HALF

\* How far one sequence number is ahead of another, without the remainder.
LEMMA SeqAhead ==
    ASSUME NEW p \in Seqs, NEW q \in Seqs
    PROVE  Ahead(p, q) = IF p < q THEN p - q + SEQS ELSE p - q
<1>1. p - q \in Int /\ -SEQS <= p - q /\ p - q < 2 * SEQS
  BY RingType DEF Seqs
<1>2. (p - q) % SEQS =
        IF p - q < 0 THEN (p - q) + SEQS ELSE IF p - q < SEQS THEN p - q ELSE (p - q) - SEQS
  BY <1>1, Turn, RingType
<1> QED BY <1>2, RingType DEF Ahead, Seqs

\* Two numbers are ahead of each other by a turn together.
LEMMA AheadBack ==
    ASSUME NEW p \in Seqs, NEW q \in Seqs
    PROVE  Ahead(p, q) \in Nat /\ (p # q => Ahead(q, p) = SEQS - Ahead(p, q))
<1>1. Ahead(p, q) = IF p < q THEN p - q + SEQS ELSE p - q
  BY SeqAhead
<1>2. Ahead(q, p) = IF q < p THEN q - p + SEQS ELSE q - p
  BY SeqAhead
<1> QED BY <1>1, <1>2, RingType DEF Seqs

\* The number after p is one further ahead of whatever p is ahead of by less than a
\* turn, and of p itself.
LEMMA NextAhead ==
    ASSUME NEW p \in Seqs, NEW q \in Seqs, p # q => Ahead(p, q) \in 1..(SLOTS - 1)
    PROVE  Ahead((p + 1) % SEQS, q) = (IF p = q THEN 0 ELSE Ahead(p, q)) + 1
<1>1. p \in Nat /\ p < SEQS /\ q \in Nat /\ q < SEQS /\ SEQS \in Nat \ {0} /\ SLOTS + 2 < SEQS
      /\ SLOTS \in Nat
  BY RingType DEF Seqs
<1>2. (p + 1) % SEQS = IF p + 1 < SEQS THEN p + 1 ELSE 0
  <2>1. p + 1 \in Int /\ -SEQS <= p + 1 /\ p + 1 < 2 * SEQS
    BY <1>1
  <2>2. (p + 1) % SEQS =
           IF p + 1 < 0 THEN (p + 1) + SEQS ELSE IF p + 1 < SEQS THEN p + 1 ELSE (p + 1) - SEQS
    BY <2>1, <1>1, Turn
  <2> QED BY <2>2, <1>1
<1> DEFINE next == (p + 1) % SEQS
<1>3. next \in Seqs
  BY <1>1, <1>2 DEF Seqs
<1> HIDE DEF next
<1>4. Ahead(next, q) = IF next < q THEN next - q + SEQS ELSE next - q
  BY <1>3, SeqAhead
<1>5. Ahead(p, q) = IF p < q THEN p - q + SEQS ELSE p - q
  BY SeqAhead
<1>6. next = IF p + 1 < SEQS THEN p + 1 ELSE 0
  BY <1>2 DEF next
<1> QED BY <1>1, <1>4, <1>5, <1>6 DEF next

\* A slot less than a lap past the end is one at the front.
LEMMA SlotTurn ==
    ASSUME NEW a \in Nat, a < 2 * SLOTS
    PROVE  a % SLOTS = (IF a < SLOTS THEN a ELSE a - SLOTS) /\ a % SLOTS \in Slots
<1>1. a \in Int /\ -SLOTS <= a /\ SLOTS \in Nat \ {0}
  BY RingType
<1>2. a % SLOTS = IF a < 0 THEN a + SLOTS ELSE IF a < SLOTS THEN a ELSE a - SLOTS
  BY <1>1, Turn
<1> QED BY <1>1, <1>2 DEF Slots

\* How far one slot is behind another, without the remainder.
LEMMA SlotBehind ==
    ASSUME NEW n \in Slots, NEW s \in Slots
    PROVE  (n - s) % SLOTS = IF n < s THEN n - s + SLOTS ELSE n - s
<1>1. n - s \in Int /\ -SLOTS <= n - s /\ n - s < 2 * SLOTS
  BY RingType DEF Slots
<1>2. (n - s) % SLOTS =
        IF n - s < 0 THEN (n - s) + SLOTS ELSE IF n - s < SLOTS THEN n - s ELSE (n - s) - SLOTS
  BY <1>1, Turn, RingType
<1> QED BY <1>2, RingType DEF Slots

\* The first slot of the sector of n, and of the sector after it.
Base(n) == PER * (n \div PER)
NextStart(n) == IF Base(n) + PER = SLOTS THEN 0 ELSE Base(n) + PER

\* The sector of a slot holds it and lies within the ring; only its first slot is
\* erased before.
LEMMA SectorBounds ==
    ASSUME NEW n \in Slots
    PROVE  /\ Base(n) \in Nat /\ Base(n) <= n /\ n < Base(n) + PER /\ Base(n) + PER <= SLOTS
           /\ EraseBefore(n) <=> n = Base(n)
<1>0. n \in Nat /\ n < SLOTS /\ PER \in Nat \ {0}
  BY RingType DEF Slots
<1>1. n \div PER \in Nat /\ n % PER \in 0..(PER - 1) /\ n = Base(n) + (n % PER)
  BY <1>0, Split DEF Base
<1>2. SLOTS \div PER \in Nat /\ SLOTS = PER * (SLOTS \div PER)
  BY Split, RingAssumption
<1>3. Base(n) \in Nat
  BY <1>1, RingType DEF Base
<1>5. Base(n) + PER <= SLOTS
  <2>1. n = PER * (n \div PER) + (n % PER) /\ SLOTS \in Nat
    BY <1>1, RingType DEF Base
  <2> QED BY <2>1, <1>0, <1>1, <1>2, LastSector DEF Base
<1> QED BY <1>0, <1>1, <1>3, <1>5 DEF EraseBefore

\* A slot is in the sector of n exactly if it is between its bounds.
LEMMA SectorIs ==
    ASSUME NEW n \in Slots, NEW s \in Slots
    PROVE  InSector(s, n) <=> Base(n) <= s /\ s < Base(n) + PER
<1>1. InSector(s, n) => Base(s) = Base(n)
  BY DEF InSector, Sector, Base
<1>2. ASSUME Base(n) <= s, s < Base(n) + PER PROVE InSector(s, n)
  <2>1. n \div PER \in Nat /\ s - Base(n) \in 0..(PER - 1)
    <3>1. s \in Nat /\ n \in Nat /\ PER \in Nat \ {0} /\ Base(n) \in Nat
      BY SectorBounds, RingType DEF Slots
    <3>2. n \div PER \in Nat
      BY <3>1, Split
    <3> QED BY <3>1, <3>2, <1>2
  <2>2. (PER * (n \div PER) + (s - Base(n))) \div PER = n \div PER
    BY <2>1, Quotient, RingType
  <2>3. PER * (n \div PER) + (s - Base(n)) = s
    BY SectorBounds DEF Base, Slots
  <2> QED BY <2>2, <2>3 DEF InSector, Sector
<1> QED BY <1>1, <1>2, SectorBounds

\* A later slot of the sector of n is not the one it is erased before.
LEMMA InsideSector ==
    ASSUME NEW n \in Slots, NEW t \in Slots, Base(n) < t, t < Base(n) + PER
    PROVE  ~EraseBefore(t) /\ InSector(t, n)
<1>1. Base(n) \in Nat /\ t \in Nat /\ Base(n) <= t
  BY SectorBounds, RingType DEF Slots
<1>2. InSector(t, n)
  BY <1>1, SectorIs
<1>3. Base(t) = Base(n)
  BY <1>2 DEF InSector, Sector, Base
<1>4. Base(t) # t
  BY <1>1, <1>3
<1> QED BY <1>2, <1>4, SectorBounds

\* The next sector starts at a slot of the ring, and n is not in it.
LEMMA NextSector ==
    ASSUME NEW n \in Slots
    PROVE  /\ NextStart(n) \in Slots /\ EraseBefore(NextStart(n))
           /\ ~InSector(n, NextStart(n))
<1>1. Base(n) \in Nat /\ Base(n) + PER <= SLOTS /\ Base(n) <= n /\ n < Base(n) + PER
  BY SectorBounds
<1>2. NextStart(n) \in Slots
  BY <1>1, RingType DEF NextStart, Slots
<1>3. NextStart(n) % PER = 0
  <2>1. 0 % PER = 0
    BY RingType
  <2>2. CASE Base(n) + PER # SLOTS
    <3>1. n \div PER + 1 \in Nat /\ NextStart(n) = PER * (n \div PER + 1) + 0
      BY <2>2, <1>1, Split, RingType DEF NextStart, Base, Slots
    <3> QED BY <3>1, Quotient, RingType
  <2> QED BY <2>1, <2>2 DEF NextStart
<1>4. Base(NextStart(n)) = NextStart(n)
  BY <1>2, <1>3, SectorBounds DEF EraseBefore
<1>5. ~InSector(n, NextStart(n))
  <2>1. ~(NextStart(n) <= n /\ n < NextStart(n) + PER)
    BY <1>1, RingType DEF NextStart, Slots
  <2> QED BY <2>1, <1>2, <1>4, SectorIs
<1> QED BY <1>2, <1>3, <1>5 DEF EraseBefore

-----------------------------------------------------------------------------
(* newest_slot                                                             *)

Passes(best, upto, seqs) ==
    /\ best[0] = NoSlot
    /\ \A i \in 1..upto : best[i] = Newer(best[i - 1], i - 1, seqs)

\* The pass of newest_slot over any number of slots is well defined (the least number
\* for which it were not leads to a contradiction).
LEMMA PassExists ==
    ASSUME NEW seqs, NEW upto \in Nat
    PROVE  \E best : best = [i \in 0..upto |-> IF i = 0 THEN NoSlot ELSE Newer(best[i - 1], i - 1, seqs)]
<1> DEFINE Step(best, i) == IF i = 0 THEN NoSlot ELSE Newer(best[i - 1], i - 1, seqs)
           Defined(k) == \E best : best = [i \in 0..k |-> Step(best, i)]
           bad == {k \in Nat : ~Defined(k)}
<1>1. SUFFICES ASSUME bad # {} PROVE FALSE
  OBVIOUS
<1>2. PICK k \in bad : \A j \in bad : k <= j
  BY <1>1, Least
<1>3. k # 0
  <2>1. [i \in 0..0 |-> NoSlot] = [i \in 0..0 |-> Step([j \in 0..0 |-> NoSlot], i)]
    OBVIOUS
  <2>2. Defined(0)
    BY <2>1
  <2> QED BY <1>2, <2>2
<1>4. k - 1 \in Nat /\ k - 1 \notin bad
  BY <1>2, <1>3, SMTT(60)
<1>5. PICK old : old = [i \in 0..(k - 1) |-> Step(old, i)]
  BY <1>4
<1> DEFINE new == [i \in 0..k |-> IF i = k THEN Newer(old[k - 1], k - 1, seqs) ELSE old[i]]
<1>6. ASSUME NEW i \in 0..k PROVE new[i] = Step(new, i)
  <2>1. CASE i = k
    BY <2>1, <1>3, <1>4
  <2>2. CASE i # k
    <3>1. i \in 0..(k - 1) /\ new[i] = old[i] /\ old[i] = Step(old, i)
      BY <2>2, <1>5, <1>4
    <3>2. i # 0 => i - 1 \in 0..k /\ i - 1 # k /\ new[i - 1] = old[i - 1]
      BY <3>1
    <3> QED BY <3>1, <3>2
  <2> QED BY <2>1, <2>2
<1>7. new = [i \in 0..k |-> Step(new, i)]
  BY <1>6
<1> QED BY <1>2, <1>7

\* newest_slot is the last value of such a pass.
LEMMA NewestPass ==
    ASSUME NEW seqs
    PROVE  \E best : Passes(best, SLOTS, seqs) /\ NewestSlot(seqs) = best[SLOTS]
<1> DEFINE best[i \in 0..SLOTS] == IF i = 0 THEN NoSlot ELSE Newer(best[i - 1], i - 1, seqs)
<1>1. best = [i \in 0..SLOTS |-> IF i = 0 THEN NoSlot ELSE Newer(best[i - 1], i - 1, seqs)]
  BY PassExists, RingType, Zenon
<1>2. NewestSlot(seqs) = best[SLOTS]
  BY DEF NewestSlot
<1> HIDE DEF best
<1>3. best[0] = NoSlot
  BY <1>1, RingType
<1>4. \A i \in 1..SLOTS : best[i] = Newer(best[i - 1], i - 1, seqs)
  BY <1>1, RingType
<1> QED BY <1>2, <1>3, <1>4 DEF Passes

SeqsOf == [Slots -> Seqs \cup {NoSeq}]

\* What has been found by the time a slot is reached.
Found(best, upto, seqs) ==
    /\ best[upto] \in (0..(upto - 1)) \cup {NoSlot}
    /\ IF best[upto] = NoSlot THEN \A s \in 0..(upto - 1) : seqs[s] = NoSeq
                              ELSE seqs[best[upto]] # NoSeq

\* At every slot of the pass, what has been found is a record, or there was none.
LEMMA FoundAll ==
    ASSUME NEW seqs \in SeqsOf, NEW best, Passes(best, SLOTS, seqs)
    PROVE  \A i \in 0..SLOTS : Found(best, i, seqs)
<1> DEFINE bad == {i \in 0..SLOTS : ~Found(best, i, seqs)}
<1>1. SUFFICES ASSUME bad # {} PROVE FALSE
  OBVIOUS
<1>2. bad \in SUBSET Nat
  BY RingType
<1>3. PICK i \in bad : \A j \in bad : i <= j
  BY <1>1, <1>2, Least
<1>4. i # 0
  <2>1. Found(best, 0, seqs)
    BY DEF Found, Passes
  <2> QED BY <1>3, <2>1
<1>5. i \in 1..SLOTS /\ i - 1 \in 0..SLOTS
  BY <1>3, <1>4, RingType
<1>6. Found(best, i - 1, seqs)
  BY <1>3, <1>5
<1>7. best[i] = Newer(best[i - 1], i - 1, seqs)
  BY <1>5 DEF Passes
<1>8. CASE best[i] = i - 1 /\ seqs[i - 1] # NoSeq
  BY <1>3, <1>5, <1>8 DEF Found, NoSlot
<1>9. CASE best[i] = best[i - 1] /\ (best[i - 1] = NoSlot => seqs[i - 1] = NoSeq)
  BY <1>3, <1>5, <1>6, <1>9 DEF Found, NoSlot
<1> QED BY <1>7, <1>8, <1>9 DEF Newer

\* newest_slot names a slot that holds a record, and none only if none does.
LEMMA NewestReadable ==
    ASSUME NEW seqs \in SeqsOf
    PROVE  /\ NewestSlot(seqs) \in Slots \cup {NoSlot}
           /\ NewestSlot(seqs) # NoSlot => seqs[NewestSlot(seqs)] # NoSeq
           /\ NewestSlot(seqs) = NoSlot => \A s \in Slots : seqs[s] = NoSeq
<1>1. PICK best : Passes(best, SLOTS, seqs) /\ NewestSlot(seqs) = best[SLOTS]
  BY NewestPass
<1>2. Found(best, SLOTS, seqs)
  BY <1>1, FoundAll, RingType
<1> QED BY <1>1, <1>2 DEF Found, Slots

\* A record that is ahead of every other is the one it names, whatever the index
\* order in which they are passed.
LEMMA NewestIsAhead ==
    ASSUME NEW seqs \in SeqsOf, NEW n \in Slots, seqs[n] # NoSeq,
           \A s \in Slots \ {n} : seqs[s] # NoSeq => Ahead(seqs[n], seqs[s]) \in 1..(HALF - 1)
    PROVE  NewestSlot(seqs) = n
<1>1. PICK best : Passes(best, SLOTS, seqs) /\ NewestSlot(seqs) = best[SLOTS]
  BY NewestPass
<1>2. \A i \in 0..SLOTS : Found(best, i, seqs)
  BY <1>1, FoundAll
<1>3. n \in Nat /\ n + 1 \in 1..SLOTS /\ SLOTS \in Nat
  BY RingType DEF Slots
<1>4. best[n + 1] = n
  <2>1. best[n + 1] = Newer(best[n], n, seqs)
    BY <1>1, <1>3 DEF Passes
  <2>2. Found(best, n, seqs)
    BY <1>2, <1>3
  <2>3. best[n] = NoSlot \/ (best[n] \in Slots \ {n} /\ seqs[best[n]] # NoSeq)
    BY <2>2, <1>3 DEF Found, Slots
  <2> QED BY <2>1, <2>3 DEF Newer
<1> DEFINE bad == {i \in (n + 1)..SLOTS : best[i] # n}
<1>5. bad = {}
  <2>1. SUFFICES ASSUME bad # {} PROVE FALSE
    OBVIOUS
  <2>2. bad \in SUBSET Nat
    BY <1>3
  <2>3. PICK i \in bad : \A j \in bad : i <= j
    BY <2>1, <2>2, Least
  <2>4. i \in (n + 2)..SLOTS /\ best[i - 1] = n
    BY <2>3, <1>3, <1>4
  <2>5. best[i] = Newer(n, i - 1, seqs)
    BY <1>1, <1>3, <2>4 DEF Passes
  <2>6. i - 1 \in Slots \ {n} /\ n # NoSlot
    BY <2>4, <1>3 DEF Slots, NoSlot
  <2>7. seqs[i - 1] # NoSeq => Ahead(seqs[i - 1], seqs[n]) \notin 1..(HALF - 1)
    <3> SUFFICES ASSUME seqs[i - 1] # NoSeq PROVE Ahead(seqs[i - 1], seqs[n]) \notin 1..(HALF - 1)
      OBVIOUS
    <3>1. Ahead(seqs[n], seqs[i - 1]) \in 1..(HALF - 1)
      BY <2>6
    <3>2. seqs[n] \in Seqs /\ seqs[i - 1] \in Seqs
      BY <2>6 DEF SeqsOf
    <3>3. Ahead(seqs[n], seqs[i - 1]) # 0
      BY <3>1
    <3>4. Ahead(seqs[n], seqs[i - 1]) = 0 \/ Ahead(seqs[i - 1], seqs[n]) = SEQS - Ahead(seqs[n], seqs[i - 1])
      <4>1. CASE seqs[n] = seqs[i - 1]
        BY <4>1, <3>2, SeqAhead, RingType DEF Seqs
      <4>2. CASE seqs[n] # seqs[i - 1]
        BY <4>2, <3>2, AheadBack
      <4> QED BY <4>1, <4>2
    <3> QED BY <3>1, <3>3, <3>4, RingType
  <2> QED BY <2>3, <2>5, <2>6, <2>7 DEF Newer
<1> QED BY <1>1, <1>3, <1>4, <1>5

-----------------------------------------------------------------------------
(* Where the record after the newest goes                                  *)

\* Further on in the sector of n, or at the start of the next.
Follows(n, t) ==
    IF EraseBefore(t) THEN t = NextStart(n) ELSE n < t /\ t < Base(n) + PER

\* The walk of write_slot from the slot after n follows n.
LEMMA WalkFollows ==
    ASSUME NEW n \in Slots, NEW free \in SUBSET Slots,
           WriteSlot((n + 1) % SLOTS, free) # NoSlot
    PROVE  LET t == WriteSlot((n + 1) % SLOTS, free)
           IN  t \in Slots /\ Follows(n, t) /\ (EraseBefore(t) \/ t \in free)
<1>1. /\ n \in Nat /\ n < SLOTS /\ SLOTS \in Nat \ {0} /\ PER \in Nat \ {0} /\ SLOTS >= 2 * PER
      /\ Base(n) \in Nat /\ Base(n) <= n /\ n < Base(n) + PER /\ Base(n) + PER <= SLOTS
  BY SectorBounds, RingType DEF Slots
<1>2. PICK start \in Nat :
          start = (n + 1) % SLOTS /\ start = IF n + 1 < SLOTS THEN n + 1 ELSE 0
  <2>1. n + 1 \in Nat /\ n + 1 < 2 * SLOTS
    BY <1>1
  <2>2. (n + 1) % SLOTS = IF n + 1 < SLOTS THEN n + 1 ELSE (n + 1) - SLOTS
    BY <2>1, SlotTurn
  <2> QED BY <2>2, <1>1
<1> DEFINE At(k) == (start + k) % SLOTS
           Lands(k) == EraseBefore(At(k)) \/ At(k) \in free
           steps == {k \in 0..(PER - 1) : Lands(k)}
           last == Base(n) + PER - 1 - n
           t == WriteSlot((n + 1) % SLOTS, free)
<1>3. ASSUME NEW k \in 0..(PER - 1)
      PROVE  At(k) = (IF start + k < SLOTS THEN start + k ELSE (start + k) - SLOTS) /\ At(k) \in Slots
  <2>1. start + k \in Nat /\ start + k < 2 * SLOTS
    BY <1>1, <1>2
  <2> QED BY <2>1, SlotTurn
<1>4. last \in 0..(PER - 1) /\ At(last) = NextStart(n)
  <2>1. last \in 0..(PER - 1)
    BY <1>1
  <2>2. At(last) = IF start + last < SLOTS THEN start + last ELSE (start + last) - SLOTS
    BY <2>1, <1>3
  <2> HIDE DEF At
  <2> QED BY <2>1, <2>2, <1>1, <1>2 DEF NextStart
<1>5. last \in steps
  BY <1>4, NextSector
<1>6. Min(steps) \in steps /\ Min(steps) <= last
  <2>1. steps \in SUBSET Nat
    BY <1>1
  <2> QED BY <2>1, <1>5, LeastIsMin
<1>7. t = At(Min(steps))
  BY <1>2, <1>5 DEF WriteSlot
<1> HIDE DEF At, t
<1>8. t \in Slots /\ (EraseBefore(t) \/ t \in free)
  BY <1>3, <1>6, <1>7
<1>9. CASE Min(steps) = last
  <2>1. t = NextStart(n) /\ EraseBefore(t)
    BY <1>4, <1>7, <1>9, NextSector
  <2> QED BY <2>1, <1>8 DEF Follows, t
<1>10. CASE Min(steps) # last
  <2>1. Min(steps) \in 0..(PER - 1) /\ Min(steps) < last
    BY <1>4, <1>6, <1>10
  <2>2. t = n + 1 + Min(steps) /\ n < t /\ t < Base(n) + PER
    <3> HIDE DEF steps
    <3>1. t = IF start + Min(steps) < SLOTS THEN start + Min(steps) ELSE (start + Min(steps)) - SLOTS
      BY <2>1, <1>3, <1>7
    <3> QED BY <3>1, <2>1, <1>1, <1>2
  <2>3. ~EraseBefore(t)
    BY <2>2, <1>1, <1>8, InsideSector
  <2> QED BY <1>8, <2>2, <2>3 DEF Follows, t
<1> QED BY <1>8, <1>9, <1>10 DEF t

\* The walk of write_slot lands on a slot it may write.
LEMMA WalkLands ==
    ASSUME NEW start \in Slots, NEW free \in SUBSET Slots, WriteSlot(start, free) # NoSlot
    PROVE  LET t == WriteSlot(start, free) IN t \in Slots /\ (EraseBefore(t) \/ t \in free)
<1> DEFINE Lands(k) == EraseBefore((start + k) % SLOTS) \/ (start + k) % SLOTS \in free
           steps == {k \in 0..(PER - 1) : Lands(k)}
<1>1. steps # {} /\ WriteSlot(start, free) = (start + Min(steps)) % SLOTS
  BY DEF WriteSlot
<1>2. Min(steps) \in steps
  <2>1. steps \in SUBSET Nat
    BY RingType
  <2> QED BY <2>1, <1>1, LeastIsMin
<1>3. start + Min(steps) \in Nat /\ start + Min(steps) < 2 * SLOTS
  BY <1>2, RingType DEF Slots
<1> QED BY <1>1, <1>2, <1>3, SlotTurn

\* A slot the write passes over is further behind by a step at least.
LEMMA FurtherBehind ==
    ASSUME NEW n \in Slots, NEW t \in Slots, Follows(n, t),
           NEW s \in Slots, s # t,
           InSector(s, n) => s <= n,
           EraseBefore(t) => ~InSector(s, t)
    PROVE  /\ t # n
           /\ (t - s) % SLOTS >= IF s = n THEN 1 ELSE ((n - s) % SLOTS) + 1
           /\ InSector(s, t) => s < t
<1>1. /\ n \in Nat /\ n < SLOTS /\ s \in Nat /\ s < SLOTS /\ t \in Nat /\ t < SLOTS
      /\ SLOTS \in Nat \ {0} /\ PER \in Nat \ {0} /\ SLOTS >= 2 * PER
      /\ Base(n) \in Nat /\ Base(n) <= n /\ n < Base(n) + PER /\ Base(n) + PER <= SLOTS
  BY SectorBounds, RingType DEF Slots
<1>2. /\ (t - s) % SLOTS = IF t < s THEN t - s + SLOTS ELSE t - s
      /\ (n - s) % SLOTS = IF n < s THEN n - s + SLOTS ELSE n - s
  BY SlotBehind
<1>3. InSector(s, n) <=> Base(n) <= s /\ s < Base(n) + PER
  BY SectorIs
<1>4. CASE EraseBefore(t)
  <2>1. t = NextStart(n) /\ ~InSector(s, t)
    BY <1>4 DEF Follows
  <2>2. (t = 0 /\ Base(n) + PER = SLOTS) \/ t = Base(n) + PER
    BY <2>1 DEF NextStart
  <2>3. t # n
    BY <2>2, <1>1
  <2>4. CASE s = n
    BY <2>1, <2>3, <2>4, <1>1, <1>2
  <2>5. CASE s < n
    BY <2>1, <2>2, <2>3, <2>5, <1>1, <1>2
  <2>6. CASE n < s
    <3>1. Base(n) + PER <= s
      BY <2>6, <1>1, <1>3
    <3>2. t = Base(n) + PER /\ t < s
      BY <3>1, <2>2, <1>1
    <3>3. (t - s) % SLOTS = t - s + SLOTS /\ (n - s) % SLOTS = n - s + SLOTS
      BY <3>2, <2>6, <1>1, <1>2
    <3> QED BY <3>2, <3>3, <2>1, <2>3, <2>6, <1>1
  <2> QED BY <2>4, <2>5, <2>6, <1>1
<1>5. CASE ~EraseBefore(t)
  <2>1. n < t /\ t < Base(n) + PER
    BY <1>5 DEF Follows
  <2>2. InSector(s, t) <=> InSector(s, n)
    <3>1. InSector(t, n)
      BY <2>1, <1>1, InsideSector
    <3> QED BY <3>1 DEF InSector
  <2> QED BY <2>1, <2>2, <1>1, <1>2, <1>3
<1> QED BY <1>4, <1>5

-----------------------------------------------------------------------------
(* The newest record of a ring                                             *)

\* Every other record is behind the newest, by no more than its slot is, and none
\* is left of an earlier lap in the sector of the newest.
InOrder(seqs) ==
    NewestSlot(seqs) # NoSlot =>
        \A s \in Slots \ {NewestSlot(seqs)} : seqs[s] # NoSeq =>
            /\ InSector(s, NewestSlot(seqs)) => s < NewestSlot(seqs)
            /\ Ahead(seqs[NewestSlot(seqs)], seqs[s]) \in 1..((NewestSlot(seqs) - s) % SLOTS)

\* A record every other is behind, by no more than its slot is, is the newest.
LEMMA NewestIs ==
    ASSUME NEW seqs \in SeqsOf, NEW n \in Slots, seqs[n] # NoSeq,
           \A s \in Slots \ {n} : seqs[s] # NoSeq => Ahead(seqs[n], seqs[s]) \in 1..((n - s) % SLOTS)
    PROVE  NewestSlot(seqs) = n
<1>1. ASSUME NEW s \in Slots \ {n}, seqs[s] # NoSeq
      PROVE  Ahead(seqs[n], seqs[s]) \in 1..(HALF - 1)
  <2>1. Ahead(seqs[n], seqs[s]) \in 1..((n - s) % SLOTS)
    BY <1>1
  <2>2. (n - s) % SLOTS \in 0..(SLOTS - 1)
    BY SlotBehind, RingType DEF Slots
  <2> QED BY <2>1, <2>2, RingType
<1> QED BY <1>1, NewestIsAhead

\* What takes away records, and not the newest, leaves it the newest.
LEMMA OrderStays ==
    ASSUME NEW old \in SeqsOf, NEW new \in SeqsOf, InOrder(old),
           \A s \in Slots : new[s] # NoSeq => new[s] = old[s],
           NewestSlot(old) # NoSlot => new[NewestSlot(old)] = old[NewestSlot(old)]
    PROVE  NewestSlot(new) = NewestSlot(old) /\ InOrder(new)
<1>1. CASE NewestSlot(old) = NoSlot
  <2>1. \A s \in Slots : new[s] = NoSeq
    BY <1>1, NewestReadable
  <2>2. NewestSlot(new) = NoSlot
    BY <2>1, NewestReadable, RingType DEF Slots, NoSlot
  <2> QED BY <1>1, <2>2 DEF InOrder
<1>2. CASE NewestSlot(old) # NoSlot
  <2>1. NewestSlot(old) \in Slots /\ new[NewestSlot(old)] # NoSeq
    BY <1>2, NewestReadable
  <2>2. NewestSlot(new) = NewestSlot(old)
    BY <1>2, <2>1, NewestIs DEF InOrder
  <2> QED BY <1>2, <2>2 DEF InOrder
<1> QED BY <1>1, <1>2

\* A record that follows the newest, on ground that has none of an earlier lap, is
\* the newest.
LEMMA OrderFollows ==
    ASSUME NEW seqs \in SeqsOf, NEW new \in SeqsOf, NEW t \in Slots, InOrder(seqs),
           new[t] # NoSeq, \A s \in Slots \ {t} : new[s] = seqs[s],
           NewestSlot(seqs) # NoSlot => /\ new[t] = (seqs[NewestSlot(seqs)] + 1) % SEQS
                                        /\ Follows(NewestSlot(seqs), t),
           EraseBefore(t) => \A s \in Slots : InSector(s, t) => seqs[s] = NoSeq
    PROVE  NewestSlot(new) = t /\ InOrder(new)
<1> DEFINE n == NewestSlot(seqs)
           q == new[t]
<1>1. q \in Seqs
  BY DEF SeqsOf
<1> HIDE DEF q
<1>2. ASSUME NEW s \in Slots \ {t}, new[s] # NoSeq
      PROVE  /\ InSector(s, t) => s < t
             /\ Ahead(q, new[s]) \in 1..((t - s) % SLOTS)
  <2>1. seqs[s] # NoSeq /\ new[s] = seqs[s]
    BY <1>2
  <2>2. n # NoSlot /\ n \in Slots /\ seqs[n] # NoSeq
    BY <2>1, NewestReadable
  <2>3. q = (seqs[n] + 1) % SEQS /\ Follows(n, t)
    BY <2>2 DEF q
  <2>4. s # n => /\ InSector(s, n) => s < n
                 /\ Ahead(seqs[n], seqs[s]) \in 1..((n - s) % SLOTS)
    BY <2>1, <2>2 DEF InOrder
  <2>5. /\ t # n /\ (t - s) % SLOTS >= IF s = n THEN 1 ELSE ((n - s) % SLOTS) + 1
        /\ InSector(s, t) => s < t
    <3>1. InSector(s, n) => s <= n
      BY <2>2, <2>4, RingType DEF Slots
    <3>2. EraseBefore(t) => ~InSector(s, t)
      BY <2>1
    <3> QED BY <2>2, <2>3, <3>1, <3>2, FurtherBehind
  <2>6. q \in Seqs /\ seqs[n] \in Seqs /\ seqs[s] \in Seqs
    BY <1>1, <2>1, <2>2 DEF SeqsOf
  <2>7. Ahead(q, seqs[s]) = IF s = n THEN 1 ELSE Ahead(seqs[n], seqs[s]) + 1
    <3>1. s # n => Ahead(seqs[n], seqs[s]) \in 1..(SLOTS - 1)
      <4>1. (n - s) % SLOTS \in 0..(SLOTS - 1)
        BY <2>2, SlotBehind, RingType DEF Slots
      <4> QED BY <4>1, <2>4, RingType
    <3>2. seqs[s] = seqs[n] => s = n
      <4>1. Ahead(seqs[n], seqs[n]) = 0
        BY <2>6, SeqAhead, RingType DEF Seqs
      <4> QED BY <3>1, <4>1
    <3>3. Ahead((seqs[n] + 1) % SEQS, seqs[s]) =
             (IF seqs[n] = seqs[s] THEN 0 ELSE Ahead(seqs[n], seqs[s])) + 1
      BY <3>1, <3>2, <2>6, NextAhead
    <3> QED BY <3>2, <3>3, <2>3
  <2>8. (n - s) % SLOTS \in Int /\ (t - s) % SLOTS \in Int
    BY <2>2, SlotBehind, RingType DEF Slots
  <2>9. Ahead(q, seqs[s]) \in 1..((t - s) % SLOTS)
    <3>1. CASE s = n
      BY <3>1, <2>5, <2>7, <2>8
    <3>2. CASE s # n
      BY <3>2, <2>4, <2>5, <2>7, <2>8
    <3> QED BY <3>1, <3>2
  <2> QED BY <2>1, <2>5, <2>9
<1>3. NewestSlot(new) = t
  BY <1>2, NewestIs DEF q
<1>4. InOrder(new)
  BY <1>2, <1>3 DEF InOrder, q
<1> QED BY <1>3, <1>4

\* Where next_write and write_slot aim: a slot that can be written, after the newest.
LEMMA WriteAims ==
    ASSUME NEW seqs \in SeqsOf, NEW free \in SUBSET Slots, NEW aim, NEW t,
           aim = IF NewestSlot(seqs) = NoSlot THEN NextWrite(NoSlot, NoSeq)
                 ELSE NextWrite(NewestSlot(seqs), seqs[NewestSlot(seqs)]),
           t = WriteSlot(aim.slot, free), t # NoSlot
    PROVE  /\ t \in Slots /\ (EraseBefore(t) \/ t \in free) /\ aim.seq \in Seqs
           /\ NewestSlot(seqs) # NoSlot => /\ aim.seq = (seqs[NewestSlot(seqs)] + 1) % SEQS
                                           /\ Follows(NewestSlot(seqs), t)
<1> DEFINE n == NewestSlot(seqs)
<1>1. CASE n = NoSlot
  <2>1. aim.slot = 0 /\ aim.seq = 0
    BY <1>1 DEF NextWrite
  <2>2. 0 \in Slots /\ 0 \in Seqs
    BY RingType DEF Slots, Seqs
  <2> QED BY <1>1, <2>1, <2>2, WalkLands
<1>2. CASE n # NoSlot
  <2>1. aim.slot = (n + 1) % SLOTS /\ aim.seq = (seqs[n] + 1) % SEQS
    BY <1>2 DEF NextWrite
  <2>2. n \in Slots /\ seqs[n] \in Seqs
    BY <1>2, NewestReadable DEF SeqsOf
  <2> HIDE DEF n
  <2>3. aim.seq \in Seqs
    <3>1. seqs[n] + 1 \in Nat
      BY <2>2 DEF Seqs
    <3>2. (seqs[n] + 1) % SEQS \in 0..(SEQS - 1)
      BY <3>1, Split, RingType
    <3> QED BY <2>1, <3>2 DEF Seqs
  <2> QED BY <2>1, <2>2, <2>3, WalkFollows DEF n
<1> QED BY <1>1, <1>2
=============================================================================
