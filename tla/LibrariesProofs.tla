-------------------------- MODULE LibrariesProofs ---------------------------
(* Proofs about the parts the program is built on.                          *)
(* The atomic queue, for any size, any width of its counters and any        *)
(* threads: its elements are guarded by the states of their slots, it is a  *)
(* first-in, first-out queue until it is overrun, and used as the log does  *)
(* it is not.                                                               *)
(* The HTTP client, for any number of callers and calls: no curl handle is  *)
(* shared, a Post sends what its own caller gave it, and what the pool      *)
(* keeps of past calls is bounded.                                          *)
(* The dates, for every year that the program can count: stamps number the  *)
(* days of the calendar and give them back, but for the days the property   *)
(* names.                                                                   *)
(* The texts and the configuration files, of any length: what is cut and    *)
(* filtered is cut between characters, and what a file sets depends neither *)
(* on the platform that wrote it nor on what follows.                        *)
(* The checksum, for frames of any length: the tables compute the one of    *)
(* the Modbus protocol, which detects what changes two bytes in a row.       *)
EXTENDS AtomicQueue, RestClient, Dates, Texts, Checksum, ConfigFile,
        SequenceTheorems, FiniteSetTheorems, WellFoundedInduction, TLAPS

-----------------------------------------------------------------------------
(* Numbers                                                                  *)

(* Every set of numbers has a least one: induction, for sets.              *)
LEMMA LeastNumber ==
  ASSUME NEW T, T \subseteq Nat, T # {}
  PROVE  \E m \in T : \A n \in T : m <= n
<1> DEFINE Less == OpToRel(<, Nat)
<1>1. IsWellFoundedOn(Less, Nat)
  BY NatLessThanWellFounded
<1>2. \A x, y \in Nat : x < y => <<x, y>> \in Less
  BY DEF OpToRel
<1> HIDE DEF Less
<1>3. \E m \in T : \A n \in T : ~(<<n, m>> \in Less)
  BY <1>1, WFMin
<1>4. PICK m \in T : \A n \in T : ~(<<n, m>> \in Less)
  BY <1>3
<1>5. \A n \in T : ~(n < m)
  BY <1>2, <1>4
<1> QED
  BY <1>4, <1>5

(* Powers of two, as far as the counters reach.                            *)
LEMMA PowersArePositive == \A k \in 0 .. Width : 2^k \in Nat \ {0}
<1> DEFINE Bad == {k \in 0 .. Width : 2^k \notin Nat \ {0}}
<1> SUFFICES ASSUME Bad # {} PROVE FALSE
  OBVIOUS
<1>1. PICK m \in Bad : \A n \in Bad : m <= n
  <2>1. Bad \subseteq Nat
    OBVIOUS
  <2> HIDE DEF Bad
  <2> QED
    BY <2>1, LeastNumber
<1>2. m # 0
  <2>1. 2^0 \in Nat \ {0}
    OBVIOUS
  <2> QED
    BY <1>1, <2>1
<1>3. m - 1 \in 0 .. Width - 1 /\ m - 1 \notin Bad /\ m = (m - 1) + 1
  BY <1>1, <1>2, QueueAssumption DEF QueueAssumption
<1>4. 2^(m - 1) \in Nat \ {0}
  BY <1>3, QueueAssumption
<1>5. 2^m = 2 * 2^(m - 1)
  BY <1>3, PowerAssumption
<1>6. 2^m \in Nat \ {0}
  BY <1>4, <1>5
<1> QED
  BY <1>1, <1>6

LEMMA PowersMultiply ==
  ASSUME NEW a \in Nat
  PROVE  \A b \in Nat : a + b <= Width => 2^(a + b) = 2^a * 2^b
<1> DEFINE Bad == {b \in Nat : a + b <= Width /\ 2^(a + b) # 2^a * 2^b}
<1> SUFFICES ASSUME Bad # {} PROVE FALSE
  OBVIOUS
<1>1. PICK m \in Bad : \A n \in Bad : m <= n
  <2>1. Bad \subseteq Nat
    OBVIOUS
  <2> HIDE DEF Bad
  <2> QED
    BY <2>1, LeastNumber
<1> USE QueueAssumption
<1>2. m \in Nat /\ a + m <= Width /\ 2^(a + m) # 2^a * 2^m
  OBVIOUS
<1>3. m # 0
  <2>1. ASSUME m = 0 PROVE FALSE
    <3>1. a + m = a /\ 2^m = 1 /\ 2^a \in Nat
      BY <2>1, <1>2, PowersArePositive
    <3> QED
      BY <3>1, <1>2
  <2> QED
    BY <2>1
<1>4. m - 1 \in Nat /\ m - 1 \notin Bad /\ m = (m - 1) + 1
  BY <1>1, <1>2, <1>3
<1>5. 2^(a + (m - 1)) = 2^a * 2^(m - 1)
  BY <1>2, <1>4
<1>6. 2^m = 2 * 2^(m - 1)
  <2>1. m - 1 \in 0 .. Width - 1
    BY <1>2, <1>4
  <2> QED
    BY <2>1, <1>4, PowerAssumption
<1>7. 2^(a + m) = 2 * 2^(a + (m - 1))
  <2>1. a + (m - 1) \in 0 .. Width - 1 /\ (a + (m - 1)) + 1 = a + m
    BY <1>2, <1>4
  <2> QED
    BY <2>1, PowerAssumption
<1>8. 2^a \in Nat /\ 2^(m - 1) \in Nat
  BY <1>2, <1>4, PowersArePositive
<1> QED
  BY <1>2, <1>5, <1>6, <1>7, <1>8

LEMMA PowersGrow == \A a, b \in 0 .. Width : a <= b => 2^a <= 2^b
<1> SUFFICES ASSUME NEW a \in 0 .. Width, NEW b \in 0 .. Width, a <= b
             PROVE  2^a <= 2^b
  OBVIOUS
<1>1. b - a \in Nat /\ a + (b - a) = b /\ b - a \in 0 .. Width
  BY QueueAssumption
<1>2. 2^b = 2^a * 2^(b - a)
  BY <1>1, PowersMultiply, QueueAssumption
<1>3. 2^a \in Nat \ {0} /\ 2^(b - a) \in Nat \ {0}
  BY <1>1, PowersArePositive
<1> QED
  BY <1>2, <1>3

(* Division with remainder.                                                *)
LEMMA Division ==
  ASSUME NEW x \in Int, NEW M \in Nat \ {0}
  PROVE  /\ x % M \in 0 .. M - 1
         /\ x \div M \in Int
         /\ x = (M * (x \div M)) + (x % M)
OBVIOUS

LEMMA Remainder ==
  ASSUME NEW M \in Nat \ {0}, NEW q \in Int, NEW r \in 0 .. M - 1
  PROVE  ((M * q) + r) % M = r
OBVIOUS

LEMMA Quotient ==
  ASSUME NEW M \in Nat \ {0}, NEW q \in Int, NEW r \in 0 .. M - 1
  PROVE  ((M * q) + r) \div M = q
OBVIOUS

LEMMA SameDivision ==
  ASSUME NEW M \in Nat \ {0}, NEW q \in Int, NEW r \in 0 .. M - 1,
         NEW p \in Int, NEW s \in 0 .. M - 1, (M * q) + r = (M * p) + s
  PROVE  q = p /\ r = s
BY Remainder, Quotient

(* The queue has a power of two of slots: at least a square of the line,   *)
(* at most half as many as there are tickets.                              *)
LEMMA SizeIsPower == \E a \in 2 * ShuffleBits .. Width - 1 : Size = 2^a
<1> USE QueueAssumption
<1> DEFINE Powers == {2^k : k \in 0 .. Width}
           Least == 2^(2 * ShuffleBits)
           Power == RoundUpToPowerOf2(Requested)
<1>1. \E p \in Powers : p >= Requested /\ (p = 1 \/ p \div 2 < Requested)
  <2> DEFINE Enough == {k \in 0 .. Width - 1 : 2^k >= Requested}
  <2>1. Width - 1 \in Enough
    OBVIOUS
  <2>2. PICK k \in Enough : \A n \in Enough : k <= n
    <3>1. Enough \subseteq Nat
      OBVIOUS
    <3> HIDE DEF Enough
    <3> QED
      BY <2>1, <3>1, LeastNumber
  <2>3. 2^k \in Powers /\ 2^k >= Requested
    BY <2>2
  <2>4. k = 0 => 2^k = 1
    OBVIOUS
  <2>5. ASSUME k # 0 PROVE 2^k \div 2 < Requested
    <3>1. k - 1 \in 0 .. Width - 1 /\ k - 1 \notin Enough /\ k = (k - 1) + 1
      BY <2>2, <2>5
    <3>2. 2^(k - 1) \in Nat /\ 2^(k - 1) < Requested
      BY <3>1, PowersArePositive
    <3>3. 2^k = 2 * 2^(k - 1)
      BY <3>1, PowerAssumption
    <3> QED
      BY <3>2, <3>3
  <2> QED
    BY <2>3, <2>4, <2>5
<1>2. Power \in Powers /\ Power >= Requested /\ (Power = 1 \/ Power \div 2 < Requested)
  BY <1>1 DEF RoundUpToPowerOf2
<1>3. PICK k \in 0 .. Width : Power = 2^k
  BY <1>2
<1>4. k # Width
  <2>1. ASSUME k = Width PROVE FALSE
    <3>1. Width - 1 \in 0 .. Width - 1 /\ Width = (Width - 1) + 1
      OBVIOUS
    <3>2. Power = 2 * 2^(Width - 1) /\ 2^(Width - 1) \in Nat \ {0}
      BY <1>3, <2>1, <3>1, PowerAssumption, PowersArePositive
    <3> QED
      BY <1>2, <3>2
  <2> QED
    BY <2>1
<1>5. Size = IF Power < Least THEN Least ELSE Power
  BY DEF Size
<1>6. CASE Power < Least
  BY <1>5, <1>6
<1>7. CASE ~(Power < Least)
  <2>1. Power \in Nat /\ Least \in Nat /\ Least <= Power
    BY <1>3, <1>7, PowersArePositive
  <2>2. ASSUME k < 2 * ShuffleBits PROVE FALSE
    <3>1. k + 1 \in 0 .. Width /\ k \in 0 .. Width - 1 /\ 2 * ShuffleBits \in 0 .. Width
      BY <2>2
    <3>2. 2^(k + 1) <= Least /\ 2^(k + 1) = 2 * Power /\ Power # 0
      BY <1>3, <2>2, <3>1, PowersGrow, PowerAssumption, PowersArePositive
    <3> QED
      BY <2>1, <3>2
  <2>3. k \in 2 * ShuffleBits .. Width - 1
    BY <1>4, <2>2
  <2> QED
    BY <1>3, <1>5, <1>7, <2>3
<1> QED
  BY <1>6, <1>7

LEMMA SizeFacts ==
  /\ Size \in Nat \ {0} /\ 2^Width \in Nat \ {0} /\ 2^ShuffleBits \in Nat \ {0}
  /\ \E k \in Nat \ {0} : Size = (2^ShuffleBits * 2^ShuffleBits) * k
  /\ \E j \in Nat \ {0} : 2^Width = Size * j
  /\ Size <= 2^(Width - 1) /\ 2^(Width - 1) \in Nat /\ 2^Width = 2 * 2^(Width - 1)
<1> USE QueueAssumption
<1>1. PICK a \in 2 * ShuffleBits .. Width - 1 : Size = 2^a
  BY SizeIsPower
<1>2. Size \in Nat \ {0} /\ 2^Width \in Nat \ {0} /\ 2^ShuffleBits \in Nat \ {0}
      /\ 2^(Width - 1) \in Nat
  BY <1>1, PowersArePositive
<1>3. \E k \in Nat \ {0} : Size = (2^ShuffleBits * 2^ShuffleBits) * k
  <2>1. 2^(ShuffleBits + ShuffleBits) = 2^ShuffleBits * 2^ShuffleBits
    BY PowersMultiply
  <2> DEFINE r == a - (ShuffleBits + ShuffleBits)
  <2>2. r \in Nat /\ r \in 0 .. Width /\ ShuffleBits + ShuffleBits \in Nat
        /\ (ShuffleBits + ShuffleBits) + r = a /\ a <= Width
    BY <1>1
  <2> HIDE DEF r
  <2>3. 2^a = 2^(ShuffleBits + ShuffleBits) * 2^r
    BY <2>2, PowersMultiply
  <2>4. 2^r \in Nat \ {0}
    BY <2>2, PowersArePositive
  <2> QED
    BY <1>1, <2>1, <2>3, <2>4
<1>4. \E j \in Nat \ {0} : 2^Width = Size * j
  <2>1. Width - a \in Nat /\ Width - a \in 0 .. Width /\ a + (Width - a) = Width /\ a \in Nat
    BY <1>1
  <2>2. 2^Width = 2^a * 2^(Width - a) /\ 2^(Width - a) \in Nat \ {0}
    BY <2>1, PowersMultiply, PowersArePositive
  <2> QED
    BY <1>1, <2>2
<1>5. Size <= 2^(Width - 1)
  BY <1>1, PowersGrow
<1>6. 2^Width = 2 * 2^(Width - 1)
  <2>1. Width - 1 \in 0 .. Width - 1 /\ Width = (Width - 1) + 1
    OBVIOUS
  <2> QED
    BY <2>1, PowerAssumption
<1> QED
  BY <1>2, <1>3, <1>4, <1>5, <1>6

(* The mixing of the index takes a slot to a slot, and no two to the same. *)
LEMMA RemapPermutes ==
  /\ \A i \in Slots : RemapIndex(i) \in Slots
  /\ \A i, j \in Slots : RemapIndex(i) = RemapIndex(j) => i = j
<1> DEFINE L == 2^ShuffleBits
           low(i) == i % L
           mid(i) == (i \div L) % L
           top(i) == (i \div L) \div L
<1>0. L \in Nat \ {0} /\ Size \in Nat \ {0}
  BY SizeFacts
<1>1. PICK k \in Nat \ {0} : Size = (L * L) * k
  BY SizeFacts
<1>r. \A i \in Int : RemapIndex(i) = i - low(i) - mid(i) * L + low(i) * L + mid(i)
  BY DEF RemapIndex
<1> HIDE DEF L
<1>2. ASSUME NEW i \in Slots
      PROVE  /\ low(i) \in 0 .. L - 1 /\ mid(i) \in 0 .. L - 1 /\ top(i) \in 0 .. k - 1
             /\ i = (L * ((L * top(i)) + mid(i))) + low(i)
             /\ RemapIndex(i) = (L * ((L * top(i)) + low(i))) + mid(i)
  <2>1. i \in 0 .. Size - 1
    BY DEF Slots
  <2>2. low(i) \in 0 .. L - 1 /\ i \div L \in Int /\ i = (L * (i \div L)) + low(i)
    BY <1>0, <2>1, Division
  <2>3. mid(i) \in 0 .. L - 1 /\ top(i) \in Int /\ i \div L = (L * top(i)) + mid(i)
    BY <1>0, <2>2, Division
  <2>4. RemapIndex(i) = i - low(i) - mid(i) * L + low(i) * L + mid(i)
    BY <1>r, <2>1
  <2> HIDE DEF low, mid, top
  <2>5. i = (L * ((L * top(i)) + mid(i))) + low(i)
    BY <2>2, <2>3
  <2>6. i = ((L * L) * top(i)) + (L * mid(i)) + low(i)
    BY <1>0, <2>2, <2>3, <2>5
  <2>7. top(i) >= 0
    <3>1. ASSUME top(i) < 0 PROVE FALSE
      <4>1. (L * L) * top(i) <= -(L * L)
        BY <1>0, <2>3, <3>1
      <4>2. (L * mid(i)) <= L * (L - 1)
        BY <1>0, <2>3
      <4> QED
        BY <1>0, <2>1, <2>2, <2>3, <2>6, <4>1, <4>2
    <3> QED
      BY <2>3, <3>1
  <2>8. top(i) < k
    <3>1. ASSUME top(i) >= k PROVE FALSE
      <4>1. (L * L) * top(i) >= (L * L) * k
        BY <1>0, <1>1, <2>3, <3>1
      <4>2. (L * mid(i)) >= 0
        BY <1>0, <2>3
      <4> QED
        BY <1>0, <1>1, <2>1, <2>2, <2>3, <2>6, <4>1, <4>2
    <3> QED
      BY <1>1, <2>3, <3>1
  <2>9. RemapIndex(i) = (L * ((L * top(i)) + low(i))) + mid(i)
    BY <1>0, <2>2, <2>3, <2>4, <2>5
  <2> QED
    BY <1>1, <2>2, <2>3, <2>5, <2>7, <2>8, <2>9
<1> HIDE DEF low, mid, top
<1>3. ASSUME NEW i \in Slots PROVE RemapIndex(i) \in Slots
  <2>1. /\ low(i) \in 0 .. L - 1 /\ mid(i) \in 0 .. L - 1 /\ top(i) \in 0 .. k - 1
        /\ RemapIndex(i) = (L * ((L * top(i)) + low(i))) + mid(i)
    BY <1>2
  <2>2. RemapIndex(i) = ((L * L) * top(i)) + (L * low(i)) + mid(i)
    BY <1>0, <2>1
  <2>3. (L * L) * top(i) <= (L * L) * (k - 1) /\ (L * L) * top(i) >= 0
    BY <1>0, <1>1, <2>1
  <2>4. L * low(i) <= L * (L - 1) /\ L * low(i) >= 0
    BY <1>0, <2>1
  <2>5. (L * L) * (k - 1) = Size - (L * L) /\ L * (L - 1) = (L * L) - L
    BY <1>0, <1>1
  <2>6. RemapIndex(i) \in Int /\ RemapIndex(i) >= 0 /\ RemapIndex(i) <= Size - 1
    <3> DEFINE S == L * L
               A == (L * L) * top(i)
               B == L * low(i)
    <3>1. A \in Int /\ B \in Int /\ S \in Int /\ low(i) \in Int /\ mid(i) \in 0 .. L - 1
      BY <1>0, <2>1
    <3>2. 0 <= A /\ A <= Size - S /\ 0 <= B /\ B <= S - L /\ RemapIndex(i) = A + B + mid(i)
      BY <2>2, <2>3, <2>4, <2>5
    <3> HIDE DEF S, A, B
    <3> QED
      BY <1>0, <3>1, <3>2
  <2> QED
    BY <1>0, <2>6 DEF Slots
<1>4. ASSUME NEW i \in Slots, NEW j \in Slots, RemapIndex(i) = RemapIndex(j) PROVE i = j
  <2>1. /\ low(i) \in 0 .. L - 1 /\ mid(i) \in 0 .. L - 1 /\ top(i) \in 0 .. k - 1
        /\ i = (L * ((L * top(i)) + mid(i))) + low(i)
        /\ RemapIndex(i) = (L * ((L * top(i)) + low(i))) + mid(i)
    BY <1>2
  <2>2. /\ low(j) \in 0 .. L - 1 /\ mid(j) \in 0 .. L - 1 /\ top(j) \in 0 .. k - 1
        /\ j = (L * ((L * top(j)) + mid(j))) + low(j)
        /\ RemapIndex(j) = (L * ((L * top(j)) + low(j))) + mid(j)
    BY <1>2
  <2>3. (L * top(i)) + low(i) = (L * top(j)) + low(j) /\ mid(i) = mid(j)
    <3> DEFINE q == (L * top(i)) + low(i)
               p == (L * top(j)) + low(j)
    <3>1. q \in Int /\ p \in Int
      BY <1>0, <2>1, <2>2
    <3>2. (L * q) + mid(i) = (L * p) + mid(j)
      BY <1>4, <2>1, <2>2
    <3>3. mid(i) \in 0 .. L - 1 /\ mid(j) \in 0 .. L - 1
      BY <2>1, <2>2
    <3> HIDE DEF q, p
    <3>4. q = p /\ mid(i) = mid(j)
      BY <1>0, <3>1, <3>2, <3>3, SameDivision
    <3> QED
      BY <3>4 DEF q, p
  <2>4. top(i) = top(j) /\ low(i) = low(j)
    <3>1. top(i) \in Int /\ top(j) \in Int /\ low(i) \in 0 .. L - 1 /\ low(j) \in 0 .. L - 1
      BY <2>1, <2>2
    <3> QED
      BY ONLY <1>0, <2>3, <3>1, SameDivision
  <2> QED
    BY <2>1, <2>2, <2>3, <2>4
<1> QED
  BY <1>3, <1>4

-----------------------------------------------------------------------------
(* The n-th push (and the n-th pop) draws this ticket, for this slot.      *)
TicketOf(n) == (Start + n - 1) % 2^Width
Place(n) == SlotOf(TicketOf(n))

LEMMA TicketFacts ==
  ASSUME NEW n \in Int
  PROVE  TicketOf(n) \in Tickets /\ (TicketOf(n) + 1) % 2^Width = TicketOf(n + 1)
<1> DEFINE M == 2^Width
           x == Start + n - 1
<1>1. M \in Nat \ {0} /\ Start \in Int /\ x \in Int /\ x + 1 = Start + (n + 1) - 1
  BY SizeFacts, QueueAssumption DEF Tickets
<1> HIDE DEF M, x
<1>2. x % M \in 0 .. M - 1 /\ x \div M \in Int /\ x = (M * (x \div M)) + (x % M)
  BY <1>1, Division
<1>3. ((x % M) + 1) % M = (x + 1) % M
  <2>1. CASE x % M < M - 1
    <3>1. (x % M) + 1 \in 0 .. M - 1 /\ x + 1 = (M * (x \div M)) + ((x % M) + 1)
      BY <1>1, <1>2, <2>1
    <3>2. (x + 1) % M = (x % M) + 1
      BY <1>1, <1>2, <3>1, Remainder
    <3>3. ((M * 0) + ((x % M) + 1)) % M = (x % M) + 1
      BY <1>1, <1>2, <3>1, Remainder
    <3> QED
      BY <1>1, <1>2, <3>2, <3>3
  <2>2. CASE x % M = M - 1
    <3>1. x + 1 = (M * ((x \div M) + 1)) + 0 /\ (x % M) + 1 = (M * 1) + 0
      BY <1>1, <1>2, <2>2
    <3>2. (x \div M) + 1 \in Int /\ 0 \in 0 .. M - 1
      BY <1>1, <1>2
    <3>3. ((M * ((x \div M) + 1)) + 0) % M = 0
      BY <1>1, <3>2, Remainder
    <3>4. ((M * 1) + 0) % M = 0
      BY <1>1, <3>2, Remainder
    <3> QED
      BY <3>1, <3>3, <3>4
  <2> QED
    BY <1>1, <1>2, <2>1, <2>2
<1> QED
  BY <1>1, <1>2, <1>3 DEF TicketOf, Tickets, M, x

LEMMA PlaceFacts ==
  /\ \A t \in Tickets : SlotOf(t) \in Slots
  /\ \A n \in Int : Place(n) \in Slots
<1>1. \A t \in Tickets : SlotOf(t) \in Slots
  <2> SUFFICES ASSUME NEW t \in Tickets PROVE SlotOf(t) \in Slots
    OBVIOUS
  <2>1. t \in Int /\ Size \in Nat \ {0}
    BY SizeFacts DEF Tickets
  <2>2. t % Size \in Slots
    BY <2>1, Division DEF Slots
  <2> QED
    BY <2>2, RemapPermutes DEF SlotOf
<1> QED
  BY <1>1, TicketFacts DEF Place

(* Tickets of one slot are Size apart, even where the counters wrap.       *)
LEMMA PlacesApart ==
  ASSUME NEW n \in Int, NEW m \in Int, Place(n) = Place(m), n < m
  PROVE  m - n >= Size
<1> DEFINE M == 2^Width
           x == Start + n - 1
           y == Start + m - 1
<1>1. M \in Nat \ {0} /\ Start \in Int /\ x \in Int /\ y \in Int /\ y - x = m - n
      /\ Size \in Nat \ {0}
  BY SizeFacts, QueueAssumption DEF Tickets
<1>2. PICK j \in Nat \ {0} : M = Size * j
  BY SizeFacts
<1>3. (x % M) % Size = (y % M) % Size
  <2>1. x % M \in Int /\ y % M \in Int
    BY <1>1
  <2>2. (x % M) % Size \in Slots /\ (y % M) % Size \in Slots
    BY <1>1, <2>1, Division DEF Slots
  <2>3. RemapIndex((x % M) % Size) = RemapIndex((y % M) % Size)
    BY DEF Place, SlotOf, TicketOf
  <2> QED
    BY <2>2, <2>3, RemapPermutes
<1> HIDE DEF M, x, y
<1>4. ASSUME NEW z \in Int
      PROVE  \E q \in Int : z = (Size * q) + ((z % M) % Size)
  <2>1. z % M \in Int /\ z \div M \in Int /\ z = (M * (z \div M)) + (z % M)
    BY <1>1, Division
  <2>2. (z % M) \div Size \in Int /\ z % M = (Size * ((z % M) \div Size)) + ((z % M) % Size)
    BY <1>1, <2>1, Division
  <2> DEFINE a == z \div M
             b == (z % M) \div Size
             r == (z % M) % Size
  <2>3. a \in Int /\ b \in Int /\ r \in Int
    BY <1>1, <2>1, <2>2
  <2>4. z = ((Size * j) * a) + ((Size * b) + r)
    BY <1>2, <2>1, <2>2
  <2> HIDE DEF a, b, r
  <2>5. (Size * j) * a = Size * (j * a) /\ Size * ((j * a) + b) = (Size * (j * a)) + (Size * b)
    BY <1>1, <2>3
  <2>6. (j * a) + b \in Int /\ z = (Size * ((j * a) + b)) + r
    BY <1>1, <2>3, <2>4, <2>5
  <2> QED
    BY <2>6 DEF r
<1>5. PICK p \in Int : x = (Size * p) + ((x % M) % Size)
  BY <1>1, <1>4
<1>6. PICK q \in Int : y = (Size * q) + ((y % M) % Size)
  BY <1>1, <1>4
<1>7. (x % M) % Size \in Int
  BY <1>1
<1>8. m - n = (Size * q) - (Size * p) /\ Size * (q - p) = (Size * q) - (Size * p)
  BY <1>1, <1>3, <1>5, <1>6, <1>7
<1>9. q - p >= 1
  <2>1. ASSUME q - p <= 0 PROVE FALSE
    <3>1. Size * (q - p) <= 0
      BY <1>1, <2>1
    <3> QED
      BY <1>8, <3>1
  <2> QED
    BY <2>1
<1>10. Size * (q - p) >= Size
  BY <1>1, <1>9
<1> QED
  BY <1>8, <1>10

(* What was_size computes from two counters that are not too far apart.    *)
LEMMA CountersApart ==
  ASSUME NEW a \in Nat, NEW b \in Nat, b <= a, a - b < 2^(Width - 1)
  PROVE  (TicketOf(a + 1) - TicketOf(b + 1)) % 2^Width = a - b
<1> DEFINE M == 2^Width
           x == Start + a
           y == Start + b
<1>1. /\ M \in Nat \ {0} /\ Start \in Int /\ x \in Int /\ y \in Int /\ x - y = a - b
      /\ a - b \in 0 .. M - 1
  BY SizeFacts, QueueAssumption DEF Tickets
<1>2. TicketOf(a + 1) = x % M /\ TicketOf(b + 1) = y % M
  BY <1>1 DEF TicketOf
<1> HIDE DEF M, x, y
<1>3. x % M \in Int /\ x \div M \in Int /\ x = (M * (x \div M)) + (x % M)
  BY <1>1, Division
<1>4. y % M \in Int /\ y \div M \in Int /\ y = (M * (y \div M)) + (y % M)
  BY <1>1, Division
<1>5. M * ((y \div M) - (x \div M)) = (M * (y \div M)) - (M * (x \div M))
  BY <1>1, <1>3, <1>4
<1>6. (x % M) - (y % M) = (M * ((y \div M) - (x \div M))) + (a - b)
  BY <1>1, <1>3, <1>4, <1>5
<1>7. (y \div M) - (x \div M) \in Int
  BY <1>3, <1>4
<1>8. ((M * ((y \div M) - (x \div M))) + (a - b)) % M = a - b
  BY <1>1, <1>7, Remainder
<1> QED
  BY <1>2, <1>6, <1>8 DEF M

-----------------------------------------------------------------------------
(* A thread has drawn a ticket; such threads have numbers of their own and  *)
(* the tickets that go with them, and what a producer read of head_ was the *)
(* ticket of a push that nobody had drawn at that time.                     *)
Drawn(t) == at[t] \in {"ticket", "slot"}

DrawnInv ==
  /\ \A p \in Producers : Drawn(p) => turn[p] \in 1 .. pushed
  /\ \A p \in Producers : at[p] \in {"size", "admitted"} =>
       turn[p] \in 0 .. pushed /\ sample[p] = TicketOf(turn[p] + 1)
  /\ \A c \in Consumers : at[c] \in {"idle", "ticket", "slot"}
  /\ \A c \in Consumers : Drawn(c) => turn[c] \in 1 .. popped
  /\ \A t \in Threads : Drawn(t) => ticket[t] = TicketOf(turn[t])
  /\ \A p, q \in Producers : Drawn(p) /\ Drawn(q) /\ turn[p] = turn[q] => p = q
  /\ \A c, d \in Consumers : Drawn(c) /\ Drawn(d) /\ turn[c] = turn[d] => c = d

(* A slot that is being stored or loaded has a thread that does it.         *)
HolderInv ==
  /\ \A s \in Slots : state[s] = "STORING" =>
       \E p \in Producers : at[p] = "slot" /\ SlotOf(ticket[p]) = s
  /\ \A s \in Slots : state[s] = "LOADING" =>
       \E c \in Consumers : at[c] = "slot" /\ SlotOf(ticket[c]) = s

(* An element is in one place: in a slot, with its producer, or taken.      *)
Full(s) == state[s] \in {"STORED", "LOADING"}
Unread == (1 .. pushed) \ {r[2] : r \in taken}

ElementInv ==
  /\ \A s \in Slots : Full(s) => element[s] \in Unread
  /\ \A s, r \in Slots : Full(s) /\ Full(r) /\ element[s] = element[r] => s = r
  /\ \A p \in Producers : Drawn(p) => turn[p] \in Unread
  /\ \A p \in Producers, s \in Slots : Drawn(p) /\ Full(s) => element[s] # turn[p]

(* The pushes (and pops) that have won their slot.  Until the queue is     *)
(* overrun, a pop wins after its push, and the pushes in between lie in     *)
(* slots of their own.                                                      *)
WonPushes == {n \in 1 .. pushed : \A p \in Producers : at[p] = "ticket" => turn[p] # n}
WonPops == {n \in 1 .. popped : \A c \in Consumers : at[c] = "ticket" => turn[c] # n}
Inside == WonPushes \ WonPops

OrderInv == ~overrun =>
  /\ \A p \in Producers : at[p] = "ticket" => pushed - turn[p] < Size
  /\ \A c \in Consumers : at[c] = "ticket" => popped - turn[c] < Size
  /\ WonPops \subseteq WonPushes
  /\ \A n \in Inside : \/ state[Place(n)] = "STORING"
                       \/ state[Place(n)] = "STORED" /\ element[Place(n)] = n
  /\ \A n, m \in Inside : Place(n) = Place(m) => n = m
  /\ \A s \in Slots : state[s] = "STORED" => element[s] \in Inside /\ Place(element[s]) = s
  /\ \A p \in Producers : at[p] = "slot" => turn[p] \in Inside
  /\ \A c \in Consumers : at[c] = "slot" => element[SlotOf(ticket[c])] = turn[c]

(* The producers that may yet push although they saw no more than k pushes. *)
MayPush(k) == {p \in Producers : at[p] = "admitted" \/ (at[p] = "size" /\ turn[p] <= k)}

Roomy == Limit + Cardinality(Producers) <= Size + 1

(* Used as the log does, the queue has one pop at a time, of a line that is *)
(* there; and every producer adds at most one push to those it has seen.    *)
QueueRoomInv == disciplined =>
  /\ popped <= pushed
  /\ \A c, d \in Consumers : at[c] # "idle" /\ at[d] # "idle" => c = d
  /\ \A c \in Consumers : at[c] # "idle" => turn[c] = popped
  /\ Limit = 1 => pushed = 0 /\ \A p \in Producers : at[p] # "admitted"
  /\ Roomy =>
       /\ ~overrun
       /\ \A k \in Nat : k >= popped + Limit - 2 =>
            pushed + Cardinality(MayPush(k)) <= k + Cardinality(Producers)

QueueInv ==
  /\ TypeOK /\ SlotsGuarded /\ DrawnInv /\ HolderInv /\ ElementInv /\ OrderInv /\ QueueRoomInv

LEMMA NumbersNow ==
  ASSUME TypeOK
  PROVE  head = TicketOf(pushed + 1) /\ tail = TicketOf(popped + 1)
<1>1. Start + (pushed + 1) - 1 = Start + pushed /\ Start + (popped + 1) - 1 = Start + popped
  BY QueueAssumption DEF TypeOK, Tickets
<1> QED
  BY <1>1 DEF TypeOK, TicketOf

LEMMA InitQueue == Init => QueueInv
<1> SUFFICES ASSUME Init PROVE QueueInv
  OBVIOUS
<1> USE QueueAssumption DEF Init
<1>0. Size \in Nat \ {0} /\ 2^Width \in Nat \ {0}
  BY SizeFacts
<1>1. TypeOK
  <2>1. 0 \in Tickets /\ Start \in Tickets
    BY <1>0 DEF Tickets
  <2>2. Start = (Start + 0) % 2^Width
    <3>1. Start \in 0 .. 2^Width - 1
      BY DEF Tickets
    <3>2. ((2^Width * 0) + Start) % 2^Width = Start
      BY <1>0, <3>1, Remainder
    <3> QED
      BY <1>0, <3>1, <3>2
  <2>3. head \in Tickets /\ tail \in Tickets /\ pushed \in Nat /\ popped \in Nat
    BY <2>1
  <2>4. state \in [Slots -> {"EMPTY", "STORING", "STORED", "LOADING"}]
        /\ element \in [Slots -> 0 .. pushed]
    OBVIOUS
  <2>5. /\ at \in [Threads -> {"idle", "size", "admitted", "ticket", "slot"}]
        /\ ticket \in [Threads -> Tickets] /\ sample \in [Producers -> Tickets]
        /\ turn \in [Threads -> Nat]
    BY <2>1
  <2> QED
    BY <2>2, <2>3, <2>4, <2>5 DEF TypeOK
<1>2. \A t \in Threads : at[t] = "idle"
  OBVIOUS
<1>3. SlotsGuarded /\ DrawnInv
  BY <1>2 DEF SlotsGuarded, DrawnInv, Drawn, Threads
<1>4. HolderInv /\ ElementInv
  BY <1>2 DEF HolderInv, ElementInv, Drawn, Full, Threads
<1>5. OrderInv
  BY <1>2 DEF OrderInv, WonPushes, WonPops, Inside, Threads
<1>6. QueueRoomInv
  <2>1. ASSUME NEW k \in Nat PROVE Cardinality(MayPush(k)) = 0
    <3>1. MayPush(k) = {}
      BY <1>2 DEF MayPush, Threads
    <3> QED
      BY <3>1, FS_EmptySet
  <2>2. Cardinality(Producers) \in Nat
    BY FS_CardinalityType
  <2>3. \A k \in Nat : pushed + Cardinality(MayPush(k)) <= k + Cardinality(Producers)
    BY <2>1, <2>2
  <2>4. popped <= pushed /\ pushed = 0 /\ ~overrun
    OBVIOUS
  <2>5. \A t \in Producers \cup Consumers : at[t] = "idle"
    BY <1>2 DEF Threads
  <2> QED
    BY ONLY <2>3, <2>4, <2>5 DEF QueueRoomInv
<1> QED
  BY <1>1, <1>3, <1>4, <1>5, <1>6 DEF QueueInv

-----------------------------------------------------------------------------
(* What the steps of a thread that has drawn no ticket have in common.      *)
Looks(p) ==
  /\ ReadHead(p) \/ Refuse(p) \/ Admit(p)

Draws(p) == PushAdmitted(p) \/ Push(p)

LEMMA LooksFacts ==
  ASSUME TypeOK, NEW p \in Producers, Looks(p)
  PROVE  /\ p \in Threads /\ p \notin Consumers
         /\ at[p] \in {"idle", "size"} /\ at'[p] \in {"idle", "size", "admitted"}
         /\ at' \in [Threads -> {"idle", "size", "admitted", "ticket", "slot"}]
         /\ \A t \in Threads : t # p => at'[t] = at[t] /\ turn'[t] = turn[t]
         /\ turn' \in [Threads -> Nat]
         /\ UNCHANGED <<head, tail, state, element, ticket,
                        pushed, popped, taken, overrun, disciplined>>
BY QueueAssumption DEF Looks, ReadHead, Refuse, Admit, Go, history, TypeOK, Threads

LEMMA DrawsFacts ==
  ASSUME TypeOK, NEW p \in Producers, Draws(p)
  PROVE  /\ p \in Threads /\ p \notin Consumers
         /\ at[p] \in {"idle", "admitted"} /\ at' = [at EXCEPT ![p] = "ticket"]
         /\ at' \in [Threads -> {"idle", "size", "admitted", "ticket", "slot"}]
         /\ head' = (head + 1) % 2^Width
         /\ ticket' = [ticket EXCEPT ![p] = head]
         /\ turn' = [turn EXCEPT ![p] = pushed + 1]
         /\ pushed' = pushed + 1
         /\ overrun' = (overrun \/ Laps(pushed + 1, Producers))
         /\ UNCHANGED <<tail, state, element, sample, popped, taken>>
BY QueueAssumption DEF Draws, PushAdmitted, Push, DrawHead, Go, TypeOK, Threads

LEMMA DrawnFacts ==
  ASSUME TypeOK, DrawnInv, NEW t \in Threads, Drawn(t)
  PROVE  /\ turn[t] \in Nat \ {0}
         /\ ticket[t] = TicketOf(turn[t])
         /\ SlotOf(ticket[t]) = Place(turn[t])
         /\ SlotOf(ticket[t]) \in Slots
<1>1. turn[t] \in Nat \ {0}
  BY DEF DrawnInv, TypeOK, Threads
<1>2. ticket[t] = TicketOf(turn[t])
  BY DEF DrawnInv
<1> QED
  BY <1>1, <1>2, PlaceFacts DEF Place

LEMMA DrawnStep ==
  ASSUME QueueInv, [Next]_vars
  PROVE  DrawnInv'
<1> USE DEF Drawn
<1>0. TypeOK /\ DrawnInv /\ head = TicketOf(pushed + 1) /\ tail = TicketOf(popped + 1)
  BY NumbersNow DEF QueueInv
<1>1. ASSUME NEW p \in Producers, Looks(p) PROVE DrawnInv'
  <2>1. at'[p] \in {"size", "admitted"} =>
          turn'[p] \in 0 .. pushed /\ sample'[p] = TicketOf(turn'[p] + 1)
    <3>1. CASE ReadHead(p)
      BY <3>1, <1>0 DEF ReadHead, TypeOK, Threads
    <3>2. CASE Refuse(p) \/ Admit(p)
      BY <3>2, <1>0 DEF Refuse, Admit, Go, history, TypeOK, Threads, DrawnInv
    <3> QED
      BY <1>1, <3>1, <3>2 DEF Looks
  <2>2. \A q \in Producers : q # p => sample'[q] = sample[q]
    BY <1>1, <1>0 DEF Looks, ReadHead, Refuse, Admit, TypeOK
  <2>3. /\ \A t \in Threads : Drawn(t)' => Drawn(t) /\ t # p
        /\ \A t \in Threads : t # p => at'[t] = at[t] /\ turn'[t] = turn[t]
        /\ p \notin Consumers /\ UNCHANGED <<ticket, pushed, popped>>
    BY <1>0, <1>1, LooksFacts
  <2>4. \A t \in Threads : t \in Producers \/ t \in Consumers
    BY DEF Threads
  <2>5. Producers \subseteq Threads /\ Consumers \subseteq Threads
    BY DEF Threads
  <2>6. /\ \A q \in Producers : Drawn(q)' => turn'[q] \in 1 .. pushed'
        /\ \A c \in Consumers : at'[c] \in {"idle", "ticket", "slot"}
        /\ \A c \in Consumers : Drawn(c)' => turn'[c] \in 1 .. popped'
        /\ \A t \in Threads : Drawn(t)' => ticket'[t] = TicketOf(turn'[t])
    BY <1>0, <2>3, <2>5 DEF DrawnInv
  <2>7. \A q \in Producers : at'[q] \in {"size", "admitted"} =>
          turn'[q] \in 0 .. pushed' /\ sample'[q] = TicketOf(turn'[q] + 1)
    BY <1>0, <2>1, <2>2, <2>3, <2>5 DEF DrawnInv
  <2>8. /\ \A q, r \in Producers : Drawn(q)' /\ Drawn(r)' /\ turn'[q] = turn'[r] => q = r
        /\ \A q, r \in Consumers : Drawn(q)' /\ Drawn(r)' /\ turn'[q] = turn'[r] => q = r
    BY <1>0, <2>3, <2>5 DEF DrawnInv
  <2> QED
    BY <2>6, <2>7, <2>8 DEF DrawnInv, TicketOf
<1>2. ASSUME NEW p \in Producers, Draws(p) PROVE DrawnInv'
  <2>1. /\ p \in Threads /\ p \notin Consumers /\ pushed \in Nat
        /\ at'[p] = "ticket" /\ turn'[p] = pushed + 1 /\ ticket'[p] = TicketOf(pushed + 1)
        /\ \A t \in Threads : t # p =>
             at'[t] = at[t] /\ turn'[t] = turn[t] /\ ticket'[t] = ticket[t]
        /\ pushed' = pushed + 1 /\ UNCHANGED <<sample, popped>>
    BY <1>0, <1>2, DrawsFacts DEF TypeOK
  <2>2. Producers \subseteq Threads /\ Consumers \subseteq Threads
    BY DEF Threads
  <2>3. /\ \A q \in Producers : Drawn(q)' => turn'[q] \in 1 .. pushed'
        /\ \A q \in Producers : at'[q] \in {"size", "admitted"} =>
             turn'[q] \in 0 .. pushed' /\ sample'[q] = TicketOf(turn'[q] + 1)
    BY <1>0, <2>1, <2>2 DEF DrawnInv
  <2>4. /\ \A c \in Consumers : at'[c] \in {"idle", "ticket", "slot"}
        /\ \A c \in Consumers : Drawn(c)' => turn'[c] \in 1 .. popped'
        /\ \A t \in Threads : Drawn(t)' => ticket'[t] = TicketOf(turn'[t])
    BY <1>0, <2>1, <2>2 DEF DrawnInv
  <2>5. /\ \A q, r \in Producers : Drawn(q)' /\ Drawn(r)' /\ turn'[q] = turn'[r] => q = r
        /\ \A q, r \in Consumers : Drawn(q)' /\ Drawn(r)' /\ turn'[q] = turn'[r] => q = r
    <3>1. \A q \in Producers : q # p /\ Drawn(q)' => turn'[q] \in 1 .. pushed
      BY <1>0, <2>1, <2>2 DEF DrawnInv
    <3> QED
      BY <1>0, <2>1, <2>2, <3>1 DEF DrawnInv
  <2> QED
    BY <2>3, <2>4, <2>5 DEF DrawnInv, TicketOf
<1>3. ASSUME NEW t \in Threads, at[t] \in {"ticket", "slot"}, at'[t] \in {"slot", "idle"},
             \A u \in Threads : u # t => at'[u] = at[u],
             UNCHANGED <<sample, turn, ticket, pushed, popped>>
      PROVE  DrawnInv'
  <2>1. Producers \subseteq Threads /\ Consumers \subseteq Threads
    BY DEF Threads
  <2>2. \A u \in Threads : Drawn(u)' => Drawn(u)
    BY <1>3
  <2>3. /\ \A c \in Consumers : at'[c] \in {"idle", "ticket", "slot"}
        /\ \A q \in Producers : at'[q] \in {"size", "admitted"} => at[q] \in {"size", "admitted"}
    BY <1>0, <1>3, <2>1 DEF DrawnInv
  <2>4. /\ \A q \in Producers : Drawn(q)' => turn'[q] \in 1 .. pushed'
        /\ \A q \in Producers : at'[q] \in {"size", "admitted"} =>
             turn'[q] \in 0 .. pushed' /\ sample'[q] = TicketOf(turn'[q] + 1)
    BY <1>0, <1>3, <2>1, <2>2, <2>3 DEF DrawnInv
  <2>5. /\ \A c \in Consumers : Drawn(c)' => turn'[c] \in 1 .. popped'
        /\ \A u \in Threads : Drawn(u)' => ticket'[u] = TicketOf(turn'[u])
    BY <1>0, <1>3, <2>1, <2>2 DEF DrawnInv
  <2>6. /\ \A q, r \in Producers : Drawn(q)' /\ Drawn(r)' /\ turn'[q] = turn'[r] => q = r
        /\ \A q, r \in Consumers : Drawn(q)' /\ Drawn(r)' /\ turn'[q] = turn'[r] => q = r
    BY <1>0, <1>3, <2>1, <2>2 DEF DrawnInv
  <2> QED
    BY <2>3, <2>4, <2>5, <2>6 DEF DrawnInv, TicketOf
<1>4. ASSUME NEW p \in Producers, Storing(p) \/ Stored(p) PROVE DrawnInv'
  BY <1>0, <1>3, <1>4 DEF Storing, Stored, Go, history, TypeOK, Threads
<1>5. ASSUME NEW c \in Consumers, Loading(c) \/ Loaded(c) PROVE DrawnInv'
  BY <1>0, <1>3, <1>5 DEF Loading, Loaded, Go, history, TypeOK, Threads
<1>6. ASSUME NEW c \in Consumers, Pop(c) PROVE DrawnInv'
  <2>1. /\ c \in Threads /\ c \notin Producers /\ popped \in Nat
        /\ at'[c] = "ticket" /\ turn'[c] = popped + 1 /\ ticket'[c] = TicketOf(popped + 1)
        /\ \A t \in Threads : t # c =>
             at'[t] = at[t] /\ turn'[t] = turn[t] /\ ticket'[t] = ticket[t]
        /\ popped' = popped + 1 /\ UNCHANGED <<sample, pushed>>
    BY <1>0, <1>6, QueueAssumption DEF Pop, Go, TypeOK, Threads
  <2>2. Producers \subseteq Threads /\ Consumers \subseteq Threads
    BY DEF Threads
  <2>3. /\ \A q \in Producers : Drawn(q)' => turn'[q] \in 1 .. pushed'
        /\ \A q \in Producers : at'[q] \in {"size", "admitted"} =>
             turn'[q] \in 0 .. pushed' /\ sample'[q] = TicketOf(turn'[q] + 1)
    BY <1>0, <2>1, <2>2 DEF DrawnInv
  <2>4. /\ \A d \in Consumers : at'[d] \in {"idle", "ticket", "slot"}
        /\ \A d \in Consumers : Drawn(d)' => turn'[d] \in 1 .. popped'
        /\ \A t \in Threads : Drawn(t)' => ticket'[t] = TicketOf(turn'[t])
    BY <1>0, <2>1, <2>2 DEF DrawnInv
  <2>5. /\ \A q, r \in Producers : Drawn(q)' /\ Drawn(r)' /\ turn'[q] = turn'[r] => q = r
        /\ \A q, r \in Consumers : Drawn(q)' /\ Drawn(r)' /\ turn'[q] = turn'[r] => q = r
    <3>1. \A q \in Consumers : q # c /\ Drawn(q)' => turn'[q] \in 1 .. popped
      BY <1>0, <2>1, <2>2 DEF DrawnInv
    <3> QED
      BY <1>0, <2>1, <2>2, <3>1 DEF DrawnInv
  <2> QED
    BY <2>3, <2>4, <2>5 DEF DrawnInv, TicketOf
<1>7. CASE UNCHANGED vars
  BY <1>0, <1>7 DEF DrawnInv, vars, TicketOf
<1> QED
  BY <1>1, <1>2, <1>4, <1>5, <1>6, <1>7 DEF Next, ProducerNext, ConsumerNext, Looks, Draws

LEMMA TypeStep ==
  ASSUME QueueInv, [Next]_vars
  PROVE  TypeOK'
<1>0. TypeOK /\ SlotsGuarded /\ DrawnInv /\ ElementInv
  BY DEF QueueInv
<1>t. Producers \subseteq Threads /\ Consumers \subseteq Threads
  BY DEF Threads
<1>1. ASSUME NEW p \in Producers, Looks(p) PROVE TypeOK'
  <2>1. sample' \in [Producers -> Tickets]
    BY <1>0, <1>1 DEF Looks, ReadHead, Refuse, Admit, TypeOK
  <2> QED
    BY <1>0, <1>1, <2>1, LooksFacts DEF TypeOK
<1>2. ASSUME NEW p \in Producers, Draws(p) PROVE TypeOK'
  <2>1. head = TicketOf(pushed + 1) /\ pushed \in Nat /\ pushed + 1 \in Int
    BY <1>0, NumbersNow DEF TypeOK
  <2>2. head' = TicketOf((pushed + 1) + 1) /\ head' \in Tickets
    BY <1>0, <1>2, <2>1, DrawsFacts, TicketFacts
  <2>3. head' = (Start + pushed') % 2^Width
    <3>1. Start + ((pushed + 1) + 1) - 1 = Start + (pushed + 1) /\ pushed' = pushed + 1
      BY <1>0, <1>2, <2>1, DrawsFacts, QueueAssumption DEF Tickets
    <3> QED
      BY <2>2, <3>1 DEF TicketOf
  <2>4. overrun' \in BOOLEAN /\ disciplined' \in BOOLEAN
    <3>1. Laps(pushed + 1, Producers) \in BOOLEAN
      BY DEF Laps
    <3>2. overrun' \in BOOLEAN
      BY <1>0, <1>2, <3>1, DrawsFacts DEF TypeOK
    <3>3. disciplined' \in BOOLEAN
      BY <1>0, <1>2 DEF Draws, PushAdmitted, Push, TypeOK
    <3> QED
      BY <3>2, <3>3
  <2>5. /\ state' \in [Slots -> {"EMPTY", "STORING", "STORED", "LOADING"}]
        /\ element' \in [Slots -> 0 .. pushed']
        /\ at' \in [Threads -> {"idle", "size", "admitted", "ticket", "slot"}]
        /\ ticket' \in [Threads -> Tickets] /\ sample' \in [Producers -> Tickets]
        /\ pushed' \in Nat /\ popped' \in Nat
        /\ turn' \in [Threads -> Nat]
        /\ taken' \subseteq (1 .. popped') \X (1 .. pushed')
        /\ tail' \in Tickets /\ tail' = (Start + popped') % 2^Width
    <3>1. DrawnInv /\ at'= [at EXCEPT ![p] = "ticket"] /\ pushed' = pushed + 1
      BY <1>0, <1>2, DrawsFacts
    <3>2. element' = element /\ element \in [Slots -> 0 .. pushed]
      BY <1>0, <1>2, DrawsFacts DEF TypeOK
    <3>3. element' \in [Slots -> 0 .. pushed']
      BY <2>1, <3>1, <3>2
    <3>4. taken' \subseteq (1 .. popped') \X (1 .. pushed')
      <4>1. taken' = taken /\ popped' = popped /\ taken \subseteq (1 .. popped) \X (1 .. pushed)
        BY <1>0, <1>2, DrawsFacts DEF TypeOK
      <4> QED
        BY <2>1, <3>1, <4>1
    <3> QED
      BY <1>0, <1>2, <3>1, <3>3, <3>4, DrawsFacts DEF TypeOK
  <2> QED
    BY <2>2, <2>3, <2>4, <2>5 DEF TypeOK
<1>3. ASSUME NEW p \in Producers, Storing(p) \/ Stored(p) PROVE TypeOK'
  <2>1. /\ p \in Threads /\ Drawn(p)
    BY <1>0, <1>3, <1>t DEF Drawn, Storing, Stored, Go
  <2>2. turn[p] \in 1 .. pushed
    BY <1>0, <2>1 DEF DrawnInv
  <2>3. /\ state' \in [Slots -> {"EMPTY", "STORING", "STORED", "LOADING"}]
        /\ element' \in [Slots -> 0 .. pushed]
        /\ at' \in [Threads -> {"idle", "size", "admitted", "ticket", "slot"}]
        /\ UNCHANGED <<head, tail, ticket, sample, pushed, popped, turn, taken, overrun, disciplined>>
    BY <1>0, <1>3, <2>1, <2>2 DEF Storing, Stored, Go, history, TypeOK
  <2> QED
    BY <1>0, <2>3 DEF TypeOK
<1>4. ASSUME NEW c \in Consumers, Pop(c) PROVE TypeOK'
  <2>1. tail = TicketOf(popped + 1) /\ popped \in Nat /\ popped + 1 \in Int
    BY <1>0, NumbersNow DEF TypeOK
  <2>2. tail' = TicketOf((popped + 1) + 1) /\ tail' \in Tickets
    BY <1>0, <1>4, <2>1, TicketFacts DEF Pop
  <2>3. tail' = (Start + popped') % 2^Width
    <3>1. Start + ((popped + 1) + 1) - 1 = Start + (popped + 1) /\ popped' = popped + 1
      BY <1>0, <1>4, <2>1, QueueAssumption DEF Tickets, Pop
    <3> QED
      BY <2>2, <3>1 DEF TicketOf
  <2>4. overrun' \in BOOLEAN /\ disciplined' \in BOOLEAN
    <3>1. Laps(popped + 1, Consumers) \in BOOLEAN
      BY DEF Laps
    <3>2. overrun' \in BOOLEAN
      BY <1>0, <1>4, <3>1 DEF Pop, TypeOK
    <3>3. disciplined' \in BOOLEAN
      BY <1>4 DEF Pop
    <3> QED
      BY <3>2, <3>3
  <2>5. /\ at' \in [Threads -> {"idle", "size", "admitted", "ticket", "slot"}]
        /\ ticket' \in [Threads -> Tickets] /\ turn' \in [Threads -> Nat]
        /\ popped' \in Nat
        /\ UNCHANGED <<head, state, element, sample, pushed, taken>>
    BY <1>0, <1>4, <1>t DEF Pop, Go, TypeOK
  <2>6. taken' \subseteq (1 .. popped') \X (1 .. pushed')
    <3>1. taken' = taken /\ popped' = popped + 1 /\ pushed' = pushed
          /\ taken \subseteq (1 .. popped) \X (1 .. pushed)
      BY <1>0, <1>4 DEF TypeOK, Pop
    <3> QED
      BY <2>1, <3>1
  <2> QED
    BY <1>0, <2>2, <2>3, <2>4, <2>5, <2>6 DEF TypeOK
<1>5. ASSUME NEW c \in Consumers, Loading(c) \/ Loaded(c) PROVE TypeOK'
  <2>1. /\ c \in Threads /\ Drawn(c)
    BY <1>0, <1>5, <1>t DEF Drawn, Loading, Loaded, Go
  <2>2. turn[c] \in 1 .. popped /\ SlotOf(ticket[c]) \in Slots
    BY <1>0, <2>1, DrawnFacts DEF DrawnInv
  <2>3. /\ state' \in [Slots -> {"EMPTY", "STORING", "STORED", "LOADING"}]
        /\ element' \in [Slots -> 0 .. pushed]
        /\ at' \in [Threads -> {"idle", "size", "admitted", "ticket", "slot"}]
        /\ UNCHANGED <<head, tail, ticket, sample, pushed, popped, turn, overrun, disciplined>>
    BY <1>0, <1>5, <2>1, <2>2 DEF Loading, Loaded, Go, history, TypeOK
  <2>4. taken' \subseteq (1 .. popped) \X (1 .. pushed)
    <3>1. CASE Loading(c)
      BY <1>0, <3>1 DEF Loading, history, TypeOK
    <3>2. CASE Loaded(c)
      <4>1. state[SlotOf(ticket[c])] = "LOADING"
        BY <1>0, <3>2 DEF Loaded, Go, SlotsGuarded
      <4>2. element[SlotOf(ticket[c])] \in 1 .. pushed
        BY <1>0, <2>2, <4>1 DEF ElementInv, Full, Unread
      <4> QED
        BY <1>0, <2>2, <3>2, <4>2 DEF Loaded, TypeOK
    <3> QED
      BY <1>5, <3>1, <3>2
  <2> QED
    BY <1>0, <2>3, <2>4 DEF TypeOK
<1>6. CASE UNCHANGED vars
  BY <1>0, <1>6 DEF TypeOK, vars
<1> QED
  BY <1>1, <1>2, <1>3, <1>4, <1>5, <1>6 DEF Next, ProducerNext, ConsumerNext, Looks, Draws

(* A step that moves no thread into a slot or out of one, and changes no   *)
(* slot.                                                                    *)
LEMMA SlotsUntouched ==
  ASSUME QueueInv, UNCHANGED state,
         \A t \in Threads : at'[t] = "slot" <=> at[t] = "slot",
         \A t \in Threads : at[t] = "slot" => ticket'[t] = ticket[t]
  PROVE  SlotsGuarded' /\ HolderInv'
<1>0. SlotsGuarded /\ HolderInv /\ Producers \subseteq Threads /\ Consumers \subseteq Threads
  BY DEF QueueInv, Threads
<1>1. \A t \in Threads : at'[t] = "slot" => at[t] = "slot" /\ SlotOf(ticket'[t]) = SlotOf(ticket[t])
  OBVIOUS
<1>2. \A t \in Threads : at[t] = "slot" => at'[t] = "slot" /\ SlotOf(ticket'[t]) = SlotOf(ticket[t])
  OBVIOUS
<1>3. SlotsGuarded'
  BY <1>0, <1>1 DEF SlotsGuarded, SlotOf
<1>4. HolderInv'
  BY <1>0, <1>2 DEF HolderInv, SlotOf
<1> QED
  BY <1>3, <1>4

LEMMA HolderStep ==
  ASSUME QueueInv, [Next]_vars
  PROVE  SlotsGuarded' /\ HolderInv'
<1>0. TypeOK /\ SlotsGuarded /\ DrawnInv /\ HolderInv
  BY DEF QueueInv
<1>t. Producers \subseteq Threads /\ Consumers \subseteq Threads
      /\ \A p \in Producers : p \notin Consumers
  BY QueueAssumption DEF Threads
<1>1. ASSUME NEW p \in Producers, Looks(p) PROVE SlotsGuarded' /\ HolderInv'
  BY <1>0, <1>1, LooksFacts, SlotsUntouched
<1>2. ASSUME NEW p \in Producers, Draws(p) PROVE SlotsGuarded' /\ HolderInv'
  <2>1. /\ UNCHANGED state
        /\ \A t \in Threads : at'[t] = "slot" <=> at[t] = "slot"
        /\ \A t \in Threads : at[t] = "slot" => ticket'[t] = ticket[t]
    BY <1>0, <1>2, DrawsFacts DEF TypeOK
  <2> QED
    BY <2>1, SlotsUntouched
<1>3. ASSUME NEW c \in Consumers, Pop(c) PROVE SlotsGuarded' /\ HolderInv'
  <2>1. /\ UNCHANGED state
        /\ \A t \in Threads : at'[t] = "slot" <=> at[t] = "slot"
        /\ \A t \in Threads : at[t] = "slot" => ticket'[t] = ticket[t]
    BY <1>0, <1>3, <1>t DEF Pop, Go, TypeOK
  <2> QED
    BY <2>1, SlotsUntouched
<1>4. ASSUME NEW t \in Threads, NEW from \in {"EMPTY", "STORED"}, NEW to,
             to = (IF t \in Producers THEN "STORING" ELSE "LOADING"),
             at[t] = "ticket", at' = [at EXCEPT ![t] = "slot"],
             state[SlotOf(ticket[t])] = from,
             state' = [state EXCEPT ![SlotOf(ticket[t])] = to],
             UNCHANGED ticket
      PROVE  SlotsGuarded' /\ HolderInv'
  <2> DEFINE s == SlotOf(ticket[t])
  <2>1. s \in Slots /\ state'[s] = to /\ \A r \in Slots : r # s => state'[r] = state[r]
    BY <1>0, <1>4, DrawnFacts DEF Drawn, TypeOK
  <2>2. at'[t] = "slot" /\ \A u \in Threads : u # t => at'[u] = at[u]
    BY <1>0, <1>4 DEF TypeOK
  <2>3. ASSUME NEW u \in Threads, at[u] = "slot"
        PROVE  u # t /\ SlotOf(ticket[u]) \in Slots /\ SlotOf(ticket[u]) # s
    <3>1. SlotOf(ticket[u]) \in Slots
      BY <1>0, <2>3, DrawnFacts DEF Drawn
    <3>2. state[SlotOf(ticket[u])] \in {"STORING", "LOADING"}
      BY <1>0, <2>3 DEF SlotsGuarded, Threads
    <3> QED
      BY <1>4, <2>3, <3>1, <3>2
  <2>4. \A u \in Threads : at'[u] = "slot" /\ u # t => at[u] = "slot"
    BY <2>2
  <2> HIDE DEF s
  <2>5. s = SlotOf(ticket[t]) /\ s = SlotOf(ticket'[t])
        /\ \A u \in Threads : SlotOf(ticket'[u]) = SlotOf(ticket[u])
    BY <1>4 DEF s
  <2>6. \A p \in Producers : at'[p] = "slot" => state'[SlotOf(ticket'[p])] = "STORING"
    BY <1>0, <1>t, <1>4, <2>1, <2>3, <2>4, <2>5 DEF SlotsGuarded
  <2>7. \A c \in Consumers : at'[c] = "slot" => state'[SlotOf(ticket'[c])] = "LOADING"
    BY <1>0, <1>t, <1>4, <2>1, <2>3, <2>4, <2>5 DEF SlotsGuarded
  <2>8. \A u, v \in Threads : (at'[u] = "slot" /\ at'[v] = "slot" /\ u # v)
                                => SlotOf(ticket'[u]) # SlotOf(ticket'[v])
    BY <1>0, <2>3, <2>4, <2>5 DEF SlotsGuarded
  <2>9. \A r \in Slots : state'[r] = "STORING" =>
          \E p \in Producers : at'[p] = "slot" /\ SlotOf(ticket'[p]) = r
    <3> SUFFICES ASSUME NEW r \in Slots, state'[r] = "STORING"
                 PROVE  \E p \in Producers : at'[p] = "slot" /\ SlotOf(ticket'[p]) = r
      OBVIOUS
    <3>1. CASE r = s
      <4>1. t \in Producers
        BY <1>4, <2>1, <3>1
      <4> QED
        BY <2>2, <2>5, <3>1, <4>1
    <3>2. CASE r # s
      <4>1. PICK p \in Producers : at[p] = "slot" /\ SlotOf(ticket[p]) = r
        BY <1>0, <2>1, <3>2 DEF HolderInv
      <4> QED
        BY <1>t, <2>2, <2>3, <2>5, <4>1
    <3> QED
      BY <3>1, <3>2
  <2>10. \A r \in Slots : state'[r] = "LOADING" =>
           \E c \in Consumers : at'[c] = "slot" /\ SlotOf(ticket'[c]) = r
    <3> SUFFICES ASSUME NEW r \in Slots, state'[r] = "LOADING"
                 PROVE  \E c \in Consumers : at'[c] = "slot" /\ SlotOf(ticket'[c]) = r
      OBVIOUS
    <3>1. CASE r = s
      <4>1. t \in Consumers
        BY <1>4, <2>1, <3>1 DEF Threads
      <4> QED
        BY <2>2, <2>5, <3>1, <4>1
    <3>2. CASE r # s
      <4>1. PICK c \in Consumers : at[c] = "slot" /\ SlotOf(ticket[c]) = r
        BY <1>0, <2>1, <3>2 DEF HolderInv
      <4> QED
        BY <1>t, <2>2, <2>3, <2>5, <4>1
    <3> QED
      BY <3>1, <3>2
  <2> QED
    BY <2>6, <2>7, <2>8, <2>9, <2>10 DEF SlotsGuarded, HolderInv, SlotOf
<1>5. ASSUME NEW t \in Threads, NEW to \in {"STORED", "EMPTY"},
             at[t] = "slot", at' = [at EXCEPT ![t] = "idle"],
             state' = [state EXCEPT ![SlotOf(ticket[t])] = to],
             UNCHANGED ticket
      PROVE  SlotsGuarded' /\ HolderInv'
  <2> DEFINE s == SlotOf(ticket[t])
  <2>1. s \in Slots /\ state'[s] = to /\ \A r \in Slots : r # s => state'[r] = state[r]
    BY <1>0, <1>5, DrawnFacts DEF Drawn, TypeOK
  <2>2. at'[t] = "idle" /\ \A u \in Threads : u # t => at'[u] = at[u]
    BY <1>0, <1>5 DEF TypeOK
  <2>3. \A u \in Threads : at[u] = "slot" /\ u # t => SlotOf(ticket[u]) # s
    BY <1>0, <1>5 DEF SlotsGuarded
  <2>4. \A u \in Threads : at[u] = "slot" => SlotOf(ticket[u]) \in Slots
    BY <1>0, DrawnFacts DEF Drawn
  <2>5. \A u \in Threads : at'[u] = "slot" => at[u] = "slot" /\ u # t
    BY <2>2
  <2> HIDE DEF s
  <2>6. s = SlotOf(ticket[t]) /\ \A u \in Threads : SlotOf(ticket'[u]) = SlotOf(ticket[u])
    BY <1>5 DEF s
  <2>7. SlotsGuarded'
    <3>1. \A p \in Producers : at'[p] = "slot" => state'[SlotOf(ticket'[p])] = "STORING"
      BY <1>0, <1>t, <2>1, <2>3, <2>4, <2>5, <2>6 DEF SlotsGuarded
    <3>2. \A c \in Consumers : at'[c] = "slot" => state'[SlotOf(ticket'[c])] = "LOADING"
      BY <1>0, <1>t, <2>1, <2>3, <2>4, <2>5, <2>6 DEF SlotsGuarded
    <3>3. \A u, v \in Threads : (at'[u] = "slot" /\ at'[v] = "slot" /\ u # v)
                                  => SlotOf(ticket'[u]) # SlotOf(ticket'[v])
      BY <1>0, <2>5, <2>6 DEF SlotsGuarded
    <3> QED
      BY <3>1, <3>2, <3>3 DEF SlotsGuarded, SlotOf
  <2>8. HolderInv'
    <3>1. ASSUME NEW r \in Slots, state'[r] = "STORING"
          PROVE  \E p \in Producers : at'[p] = "slot" /\ SlotOf(ticket'[p]) = r
      <4>1. r # s /\ state[r] = "STORING"
        BY <2>1, <3>1
      <4>2. PICK p \in Producers : at[p] = "slot" /\ SlotOf(ticket[p]) = r
        BY <1>0, <4>1 DEF HolderInv
      <4> QED
        BY <1>t, <2>2, <2>6, <4>1, <4>2
    <3>2. ASSUME NEW r \in Slots, state'[r] = "LOADING"
          PROVE  \E c \in Consumers : at'[c] = "slot" /\ SlotOf(ticket'[c]) = r
      <4>1. r # s /\ state[r] = "LOADING"
        BY <2>1, <3>2
      <4>2. PICK c \in Consumers : at[c] = "slot" /\ SlotOf(ticket[c]) = r
        BY <1>0, <4>1 DEF HolderInv
      <4> QED
        BY <1>t, <2>2, <2>6, <4>1, <4>2
    <3> QED
      BY <3>1, <3>2 DEF HolderInv, SlotOf
  <2> QED
    BY <2>7, <2>8
<1>6. ASSUME NEW p \in Producers, Storing(p) \/ Stored(p) PROVE SlotsGuarded' /\ HolderInv'
  <2>1. CASE Storing(p)
    BY <1>4, <1>t, <2>1 DEF Storing, Go
  <2>2. CASE Stored(p)
    BY <1>5, <1>t, <2>2 DEF Stored, Go
  <2> QED
    BY <1>6, <2>1, <2>2
<1>7. ASSUME NEW c \in Consumers, Loading(c) \/ Loaded(c) PROVE SlotsGuarded' /\ HolderInv'
  <2>1. CASE Loading(c)
    BY <1>4, <1>t, <2>1 DEF Loading, Go
  <2>2. CASE Loaded(c)
    BY <1>5, <1>t, <2>2 DEF Loaded, Go
  <2> QED
    BY <1>7, <2>1, <2>2
<1>8. CASE UNCHANGED vars
  BY <1>8, SlotsUntouched DEF vars
<1> QED
  BY <1>1, <1>2, <1>3, <1>6, <1>7, <1>8 DEF Next, ProducerNext, ConsumerNext, Looks, Draws

LEMMA ElementStep ==
  ASSUME QueueInv, [Next]_vars
  PROVE  ElementInv'
<1> USE DEF Drawn
<1>0. TypeOK /\ SlotsGuarded /\ DrawnInv /\ ElementInv
  BY DEF QueueInv
<1>t. Producers \subseteq Threads /\ Consumers \subseteq Threads
      /\ \A p \in Producers : p \notin Consumers
  BY QueueAssumption DEF Threads
<1>1. ASSUME UNCHANGED <<state, element, pushed, taken>>,
             \A p \in Producers : Drawn(p)' => Drawn(p) /\ turn'[p] = turn[p]
      PROVE  ElementInv'
  <2>1. Unread' = Unread /\ \A s \in Slots : Full(s)' <=> Full(s)
    BY <1>1 DEF Unread, Full
  <2> QED
    BY <1>0, <1>1, <2>1 DEF ElementInv, Full
<1>2. ASSUME NEW p \in Producers, Looks(p) PROVE ElementInv'
  <2>1. \A q \in Producers : Drawn(q)' => Drawn(q) /\ turn'[q] = turn[q]
    BY <1>0, <1>t, <1>2, LooksFacts
  <2> QED
    BY <1>0, <1>1, <1>2, <2>1, LooksFacts
<1>3. ASSUME NEW p \in Producers, Draws(p) PROVE ElementInv'
  <2>1. /\ pushed \in Nat /\ pushed' = pushed + 1 /\ UNCHANGED <<state, element, taken>>
        /\ turn'[p] = pushed + 1
        /\ \A q \in Producers : q # p => at'[q] = at[q] /\ turn'[q] = turn[q]
    BY <1>0, <1>t, <1>3, DrawsFacts DEF TypeOK
  <2>2. \A s \in Slots : Full(s)' <=> Full(s)
    BY <2>1 DEF Full
  <2>3. \A r \in taken : r[2] \in 1 .. pushed
    BY <1>0 DEF TypeOK
  <2>4. Unread \subseteq Unread' /\ pushed + 1 \in Unread' /\ Unread \subseteq 1 .. pushed
    BY <2>1, <2>3 DEF Unread
  <2>5. /\ \A s \in Slots : Full(s)' => element'[s] \in Unread'
        /\ \A s, r \in Slots : Full(s)' /\ Full(r)' /\ element'[s] = element'[r] => s = r
    BY <1>0, <2>1, <2>2, <2>4 DEF ElementInv
  <2>6. \A q \in Producers : Drawn(q)' => turn'[q] \in Unread'
    BY <1>0, <2>1, <2>4 DEF ElementInv
  <2>7. ASSUME NEW q \in Producers, NEW s \in Slots, Drawn(q)', Full(s)'
        PROVE  element'[s] # turn'[q]
    <3>1. element[s] \in Unread
      BY <1>0, <2>2, <2>7 DEF ElementInv
    <3>2. CASE q = p
      BY <2>1, <2>4, <3>1, <3>2
    <3>3. CASE q # p
      BY <1>0, <2>1, <2>2, <2>7, <3>3 DEF ElementInv
    <3> QED
      BY <3>2, <3>3
  <2> QED
    BY <2>5, <2>6, <2>7 DEF ElementInv, Full
<1>4. ASSUME NEW p \in Producers, Storing(p) PROVE ElementInv'
  <2> DEFINE s == SlotOf(ticket[p])
  <2>1. s \in Slots /\ state[s] = "EMPTY" /\ state' = [state EXCEPT ![s] = "STORING"]
        /\ UNCHANGED <<element, pushed, taken, turn>>
        /\ \A q \in Producers : Drawn(q)' => Drawn(q)
    BY <1>0, <1>t, <1>4, DrawnFacts DEF Storing, Go, history, TypeOK
  <2>2. Unread' = Unread
    BY <2>1 DEF Unread
  <2>3. \A r \in Slots : Full(r)' <=> Full(r)
    BY <1>0, <2>1 DEF Full, TypeOK
  <2> QED
    BY <1>0, <2>1, <2>2, <2>3 DEF ElementInv, Full
<1>5. ASSUME NEW p \in Producers, Stored(p) PROVE ElementInv'
  <2> DEFINE s == SlotOf(ticket[p])
  <2>1. /\ s \in Slots /\ state' = [state EXCEPT ![s] = "STORED"]
        /\ element' = [element EXCEPT ![s] = turn[p]]
        /\ UNCHANGED <<pushed, taken, turn>>
        /\ Drawn(p) /\ \A q \in Producers : Drawn(q)' => Drawn(q) /\ q # p
    BY <1>0, <1>t, <1>5, DrawnFacts DEF Stored, Go, history, TypeOK
  <2>2. Unread' = Unread /\ turn[p] \in Unread
    BY <1>0, <2>1 DEF Unread, ElementInv
  <2>3. /\ element'[s] = turn[p]
        /\ \A r \in Slots : r # s => (Full(r)' <=> Full(r)) /\ element'[r] = element[r]
    <3>1. element'[s] = turn[p] /\ \A r \in Slots : r # s => element'[r] = element[r]
      BY <1>0, <2>1 DEF TypeOK
    <3>2. state'[s] = "STORED" /\ \A r \in Slots : r # s => state'[r] = state[r]
      BY <1>0, <2>1 DEF TypeOK
    <3> QED
      BY <3>1, <3>2 DEF Full
  <2>4. \A q \in Producers : Drawn(q)' => turn'[q] # turn[p]
    BY <1>0, <2>1 DEF DrawnInv
  <2>5. \A r \in Slots : r # s /\ Full(r)' => element'[r] # turn[p]
    BY <1>0, <2>1, <2>3 DEF ElementInv
  <2> HIDE DEF s
  <2>6. \A r \in Slots : Full(r)' => element'[r] \in Unread'
    BY <1>0, <2>1, <2>2, <2>3 DEF ElementInv
  <2>7. \A r, q \in Slots : Full(r)' /\ Full(q)' /\ element'[r] = element'[q] => r = q
    BY <1>0, <2>1, <2>3, <2>5 DEF ElementInv
  <2>8. \A q \in Producers : Drawn(q)' => turn'[q] \in Unread'
    BY <1>0, <2>1, <2>2 DEF ElementInv
  <2>9. \A q \in Producers, r \in Slots : Drawn(q)' /\ Full(r)' => element'[r] # turn'[q]
    BY <1>0, <2>1, <2>3, <2>4 DEF ElementInv
  <2> QED
    BY <2>6, <2>7, <2>8, <2>9 DEF ElementInv, Full
<1>6. ASSUME NEW c \in Consumers, Pop(c) PROVE ElementInv'
  <2>1. \A q \in Producers : Drawn(q)' => Drawn(q) /\ turn'[q] = turn[q]
    BY <1>0, <1>t, <1>6 DEF Pop, Go, TypeOK
  <2> QED
    BY <1>1, <1>6, <2>1 DEF Pop
<1>7. ASSUME NEW c \in Consumers, Loading(c) PROVE ElementInv'
  <2> DEFINE s == SlotOf(ticket[c])
  <2>1. s \in Slots /\ state[s] = "STORED" /\ state' = [state EXCEPT ![s] = "LOADING"]
        /\ UNCHANGED <<element, pushed, taken, turn>>
        /\ \A q \in Producers : Drawn(q)' => Drawn(q)
    BY <1>0, <1>t, <1>7, DrawnFacts DEF Loading, Go, history, TypeOK
  <2>2. Unread' = Unread
    BY <2>1 DEF Unread
  <2>3. \A r \in Slots : Full(r)' <=> Full(r)
    BY <1>0, <2>1 DEF Full, TypeOK
  <2> QED
    BY <1>0, <2>1, <2>2, <2>3 DEF ElementInv, Full
<1>8. ASSUME NEW c \in Consumers, Loaded(c) PROVE ElementInv'
  <2> DEFINE s == SlotOf(ticket[c])
             e == element[SlotOf(ticket[c])]
  <2>1. /\ s \in Slots /\ state[s] = "LOADING" /\ state' = [state EXCEPT ![s] = "EMPTY"]
        /\ element' = [element EXCEPT ![s] = 0]
        /\ taken' = taken \cup {<<turn[c], e>>}
        /\ UNCHANGED <<pushed, turn>>
        /\ \A q \in Producers : Drawn(q)' => Drawn(q)
    BY <1>0, <1>t, <1>8, DrawnFacts DEF Loaded, Go, SlotsGuarded, TypeOK
  <2>2. Full(s) /\ e = element[s] /\ e \in Unread
    BY <1>0, <2>1 DEF Full, ElementInv
  <2>3. Unread \ {e} \subseteq Unread'
    BY <2>1 DEF Unread
  <2>4. \A r \in Slots : Full(r)' => Full(r) /\ r # s /\ element'[r] = element[r]
    BY <1>0, <2>1 DEF Full, TypeOK
  <2> HIDE DEF s, e
  <2>5. \A r \in Slots : Full(r)' => element'[r] \in Unread'
    BY <1>0, <2>1, <2>2, <2>3, <2>4 DEF ElementInv
  <2>6. \A q \in Producers : Drawn(q)' => turn'[q] \in Unread'
    BY <1>0, <2>1, <2>2, <2>3 DEF ElementInv
  <2>7. /\ \A r, q \in Slots : Full(r)' /\ Full(q)' /\ element'[r] = element'[q] => r = q
        /\ \A q \in Producers, r \in Slots : Drawn(q)' /\ Full(r)' => element'[r] # turn'[q]
    BY <1>0, <2>1, <2>4 DEF ElementInv
  <2> QED
    BY <2>5, <2>6, <2>7 DEF ElementInv, Full
<1>9. CASE UNCHANGED vars
  BY <1>1, <1>9 DEF vars
<1> QED
  BY <1>2, <1>3, <1>4, <1>5, <1>6, <1>7, <1>8, <1>9
     DEF Next, ProducerNext, ConsumerNext, Looks, Draws

(* Two numbers of one slot: the later one is drawn when the earlier one     *)
(* has won the slot, or the queue is overrun.                               *)
LEMMA EarlierHasWon ==
  ASSUME TypeOK, DrawnInv, OrderInv, ~overrun,
         NEW n \in Nat \ {0}, NEW m \in Nat, n < m, Place(n) = Place(m)
  PROVE  /\ m <= pushed => n \in WonPushes
         /\ m <= popped => n \in WonPops
<1>1. m - n >= Size
  BY PlacesApart
<1>2. pushed \in Nat /\ popped \in Nat /\ Size \in Nat
  BY SizeFacts DEF TypeOK
<1>3. ASSUME m <= pushed PROVE n \in WonPushes
  <2>1. \A p \in Producers : at[p] = "ticket" => pushed - turn[p] < Size /\ turn[p] \in 1 .. pushed
    BY DEF OrderInv, DrawnInv, Drawn
  <2> QED
    BY <1>1, <1>2, <1>3, <2>1 DEF WonPushes
<1>4. ASSUME m <= popped PROVE n \in WonPops
  <2>1. \A c \in Consumers : at[c] = "ticket" => popped - turn[c] < Size /\ turn[c] \in 1 .. popped
    BY DEF OrderInv, DrawnInv, Drawn
  <2> QED
    BY <1>1, <1>2, <1>4, <2>1 DEF WonPops
<1> QED
  BY <1>3, <1>4

(* A pop that finds its slot stored finds its own element there.            *)
LEMMA FindsItsOwn ==
  ASSUME TypeOK, DrawnInv, OrderInv, ~overrun, NEW c \in Consumers, at[c] = "ticket",
         state[SlotOf(ticket[c])] = "STORED"
  PROVE  element[SlotOf(ticket[c])] = turn[c]
<1> DEFINE s == SlotOf(ticket[c])
           e == element[s]
           m == turn[c]
<1>1. c \in Threads /\ Drawn(c) /\ m \in 1 .. popped /\ popped \in Nat /\ pushed \in Nat
  BY DEF Threads, Drawn, DrawnInv, TypeOK
<1>2. s \in Slots /\ s = Place(m)
  BY <1>1, DrawnFacts
<1>3. e \in Inside /\ Place(e) = s
  BY <1>2 DEF OrderInv
<1>4. m \notin WonPops /\ e \in WonPushes /\ e \notin WonPops /\ e \in 1 .. pushed
  BY <1>3 DEF WonPops, WonPushes, Inside
<1> HIDE DEF s, e, m
<1>5. ~(e < m)
  <2>1. ASSUME e < m PROVE FALSE
    BY <1>1, <1>2, <1>3, <1>4, <2>1, EarlierHasWon
  <2> QED
    BY <2>1
<1>6. ~(m < e)
  <2>1. ASSUME m < e PROVE FALSE
    <3>1. m \in WonPushes
      BY <1>1, <1>2, <1>3, <1>4, <2>1, EarlierHasWon
    <3>2. m \in Inside /\ Place(m) = Place(e)
      BY <1>2, <1>3, <1>4, <3>1 DEF Inside
    <3> QED
      BY <1>1, <1>3, <1>4, <2>1, <3>2 DEF OrderInv
  <2> QED
    BY <2>1
<1>7. e = m
  BY <1>1, <1>4, <1>5, <1>6
<1> QED
  BY <1>7 DEF s, e, m

LEMMA OrderStep ==
  ASSUME QueueInv, [Next]_vars
  PROVE  OrderInv'
<1>0. TypeOK /\ SlotsGuarded /\ DrawnInv /\ HolderInv /\ OrderInv
  BY DEF QueueInv
<1>t. Producers \subseteq Threads /\ Consumers \subseteq Threads
      /\ \A p \in Producers : p \notin Consumers
  BY QueueAssumption DEF Threads
<1>p. ASSUME NEW n PROVE Place(n)' = Place(n)
  BY DEF Place, TicketOf, SlotOf
<1>s. Size \in Nat \ {0} /\ pushed \in Nat /\ popped \in Nat
  BY <1>0, SizeFacts DEF TypeOK
<1>1. ASSUME UNCHANGED <<state, element, pushed, popped, overrun>>,
             \A t \in Threads : at'[t] = "ticket" <=> at[t] = "ticket",
             \A t \in Threads : at'[t] = "slot" <=> at[t] = "slot",
             \A t \in Threads : at[t] \in {"ticket", "slot"} => turn'[t] = turn[t] /\ ticket'[t] = ticket[t]
      PROVE  OrderInv'
  <2>1. WonPushes' = WonPushes /\ WonPops' = WonPops /\ Inside' = Inside
    BY <1>t, <1>1 DEF WonPushes, WonPops, Inside
  <2>2. \A c \in Consumers : at[c] = "slot" => SlotOf(ticket'[c]) = SlotOf(ticket[c])
    BY <1>t, <1>1
  <2>3. ASSUME ~overrun
        PROVE  /\ \A p \in Producers : at'[p] = "ticket" => pushed' - turn'[p] < Size
               /\ \A c \in Consumers : at'[c] = "ticket" => popped' - turn'[c] < Size
               /\ \A p \in Producers : at'[p] = "slot" => turn'[p] \in Inside'
               /\ \A c \in Consumers : at'[c] = "slot" => element'[SlotOf(ticket'[c])] = turn'[c]
    BY <1>0, <1>t, <1>1, <2>1, <2>2, <2>3 DEF OrderInv
  <2>4. ASSUME ~overrun
        PROVE  /\ WonPops' \subseteq WonPushes'
               /\ \A n \in Inside' : \/ state'[Place(n)] = "STORING"
                                     \/ state'[Place(n)] = "STORED" /\ element'[Place(n)] = n
               /\ \A n, m \in Inside' : Place(n) = Place(m) => n = m
               /\ \A s \in Slots : state'[s] = "STORED" => element'[s] \in Inside' /\ Place(element'[s]) = s
    BY <1>0, <1>1, <2>1, <2>4 DEF OrderInv
  <2> QED
    BY <1>1, <2>3, <2>4 DEF OrderInv, Place, TicketOf, SlotOf
<1>2. ASSUME NEW p \in Producers, Looks(p) PROVE OrderInv'
  <2>1. \A t \in Threads : at'[t] = "ticket" <=> at[t] = "ticket"
    BY <1>0, <1>2, LooksFacts
  <2>2. \A t \in Threads : at'[t] = "slot" <=> at[t] = "slot"
    BY <1>0, <1>2, LooksFacts
  <2>3. \A t \in Threads : at[t] \in {"ticket", "slot"} => turn'[t] = turn[t] /\ ticket'[t] = ticket[t]
    BY <1>0, <1>2, LooksFacts
  <2> QED
    BY <1>0, <1>1, <1>2, <2>1, <2>2, <2>3, LooksFacts
<1>3. ASSUME NEW p \in Producers, Draws(p) PROVE OrderInv'
  <2>1. /\ pushed' = pushed + 1 /\ UNCHANGED <<state, element, popped>>
        /\ at[p] \notin {"ticket", "slot"} /\ at'[p] = "ticket" /\ turn'[p] = pushed + 1
        /\ \A t \in Threads : t # p => at'[t] = at[t] /\ turn'[t] = turn[t] /\ ticket'[t] = ticket[t]
        /\ p \in Threads /\ p \notin Consumers
    BY <1>0, <1>3, DrawsFacts DEF TypeOK
  <2>2. overrun' = (overrun \/ Laps(pushed + 1, Producers))
    BY <1>0, <1>3, DrawsFacts
  <2>3. WonPushes' = WonPushes
    <3>1. WonPushes' \subseteq WonPushes
      <4> SUFFICES ASSUME NEW n \in WonPushes' PROVE n \in WonPushes
        OBVIOUS
      <4>1. n \in 1 .. pushed + 1 /\ n # pushed + 1
            /\ \A q \in Producers : at'[q] = "ticket" => turn'[q] # n
        BY <2>1 DEF WonPushes
      <4>2. \A q \in Producers : at[q] = "ticket" => turn[q] # n
        BY <1>t, <2>1, <4>1
      <4> QED
        BY <1>s, <4>1, <4>2 DEF WonPushes
    <3>2. WonPushes \subseteq WonPushes'
      <4> SUFFICES ASSUME NEW n \in WonPushes PROVE n \in WonPushes'
        OBVIOUS
      <4>1. n \in 1 .. pushed /\ \A q \in Producers : at[q] = "ticket" => turn[q] # n
        BY DEF WonPushes
      <4>2. \A q \in Producers : at'[q] = "ticket" => turn'[q] # n
        BY <1>s, <1>t, <2>1, <4>1
      <4> QED
        BY <1>s, <2>1, <4>1, <4>2 DEF WonPushes
    <3> QED
      BY <3>1, <3>2
  <2>4. WonPops' = WonPops /\ Inside' = Inside
    <3>1. WonPops' = WonPops
      BY <1>t, <2>1 DEF WonPops
    <3> QED
      BY <2>3, <3>1 DEF Inside
  <2>5. ASSUME ~overrun'
        PROVE  /\ ~overrun
               /\ \A q \in Producers : at'[q] = "ticket" => pushed' - turn'[q] < Size
    <3>1. ~overrun /\ ~Laps(pushed + 1, Producers)
      BY <2>2, <2>5
    <3>2. \A q \in Producers : at[q] = "ticket" => ~(pushed + 1 - turn[q] >= Size) /\ turn[q] \in Nat
      BY <1>0, <1>t, <3>1 DEF Laps, TypeOK
    <3> QED
      BY <1>s, <1>t, <2>1, <3>1, <3>2
  <2>6. ASSUME ~overrun
        PROVE  /\ \A c \in Consumers : at'[c] = "ticket" => popped' - turn'[c] < Size
               /\ \A q \in Producers : at'[q] = "slot" => turn'[q] \in Inside'
               /\ \A c \in Consumers : at'[c] = "slot" => element'[SlotOf(ticket'[c])] = turn'[c]
    BY <1>0, <1>t, <2>1, <2>4, <2>6 DEF OrderInv
  <2>7. ASSUME ~overrun
        PROVE  /\ WonPops' \subseteq WonPushes'
               /\ \A n \in Inside' : \/ state'[Place(n)] = "STORING"
                                     \/ state'[Place(n)] = "STORED" /\ element'[Place(n)] = n
               /\ \A n, m \in Inside' : Place(n) = Place(m) => n = m
               /\ \A s \in Slots : state'[s] = "STORED" => element'[s] \in Inside' /\ Place(element'[s]) = s
    BY <1>0, <2>1, <2>3, <2>4, <2>7 DEF OrderInv
  <2> QED
    BY <2>5, <2>6, <2>7 DEF OrderInv, Place, TicketOf, SlotOf
<1>4. ASSUME NEW c \in Consumers, Pop(c) PROVE OrderInv'
  <2>1. /\ popped' = popped + 1 /\ UNCHANGED <<state, element, pushed>>
        /\ at[c] \notin {"ticket", "slot"} /\ at'[c] = "ticket" /\ turn'[c] = popped + 1
        /\ \A t \in Threads : t # c => at'[t] = at[t] /\ turn'[t] = turn[t] /\ ticket'[t] = ticket[t]
        /\ c \in Threads /\ c \notin Producers
    BY <1>0, <1>t, <1>4 DEF Pop, Go, TypeOK
  <2>2. overrun' = (overrun \/ Laps(popped + 1, Consumers))
    BY <1>4 DEF Pop
  <2>3. WonPops' = WonPops
    <3>1. WonPops' \subseteq WonPops
      <4> SUFFICES ASSUME NEW n \in WonPops' PROVE n \in WonPops
        OBVIOUS
      <4>1. n \in 1 .. popped + 1 /\ n # popped + 1
            /\ \A q \in Consumers : at'[q] = "ticket" => turn'[q] # n
        BY <2>1 DEF WonPops
      <4>2. \A q \in Consumers : at[q] = "ticket" => turn[q] # n
        BY <1>t, <2>1, <4>1
      <4> QED
        BY <1>s, <4>1, <4>2 DEF WonPops
    <3>2. WonPops \subseteq WonPops'
      <4> SUFFICES ASSUME NEW n \in WonPops PROVE n \in WonPops'
        OBVIOUS
      <4>1. n \in 1 .. popped /\ \A q \in Consumers : at[q] = "ticket" => turn[q] # n
        BY DEF WonPops
      <4>2. \A q \in Consumers : at'[q] = "ticket" => turn'[q] # n
        BY <1>s, <1>t, <2>1, <4>1
      <4> QED
        BY <1>s, <2>1, <4>1, <4>2 DEF WonPops
    <3> QED
      BY <3>1, <3>2
  <2>4. WonPushes' = WonPushes /\ Inside' = Inside
    <3>1. WonPushes' = WonPushes
      BY <1>t, <2>1 DEF WonPushes
    <3> QED
      BY <2>3, <3>1 DEF Inside
  <2>5. ASSUME ~overrun'
        PROVE  /\ ~overrun
               /\ \A d \in Consumers : at'[d] = "ticket" => popped' - turn'[d] < Size
    <3>1. ~overrun /\ ~Laps(popped + 1, Consumers)
      BY <2>2, <2>5
    <3>2. \A d \in Consumers : at[d] = "ticket" => ~(popped + 1 - turn[d] >= Size) /\ turn[d] \in Nat
      BY <1>0, <1>t, <3>1 DEF Laps, TypeOK
    <3> QED
      BY <1>s, <1>t, <2>1, <3>1, <3>2
  <2>6. ASSUME ~overrun
        PROVE  /\ \A q \in Producers : at'[q] = "ticket" => pushed' - turn'[q] < Size
               /\ \A q \in Producers : at'[q] = "slot" => turn'[q] \in Inside'
               /\ \A d \in Consumers : at'[d] = "slot" => element'[SlotOf(ticket'[d])] = turn'[d]
    BY <1>0, <1>t, <2>1, <2>4, <2>6 DEF OrderInv
  <2>7. ASSUME ~overrun
        PROVE  /\ WonPops' \subseteq WonPushes'
               /\ \A n \in Inside' : \/ state'[Place(n)] = "STORING"
                                     \/ state'[Place(n)] = "STORED" /\ element'[Place(n)] = n
               /\ \A n, m \in Inside' : Place(n) = Place(m) => n = m
               /\ \A s \in Slots : state'[s] = "STORED" => element'[s] \in Inside' /\ Place(element'[s]) = s
    BY <1>0, <2>1, <2>3, <2>4, <2>7 DEF OrderInv
  <2> QED
    BY <2>5, <2>6, <2>7 DEF OrderInv, Place, TicketOf, SlotOf
<1>5. ASSUME NEW p \in Producers, Storing(p) PROVE OrderInv'
  <2> DEFINE s == SlotOf(ticket[p])
             n == turn[p]
  <2>1. /\ at[p] = "ticket" /\ at'[p] = "slot" /\ \A t \in Threads : t # p => at'[t] = at[t]
        /\ p \in Threads /\ p \notin Consumers /\ Drawn(p)
        /\ state[s] = "EMPTY" /\ state' = [state EXCEPT ![s] = "STORING"]
        /\ UNCHANGED <<element, ticket, turn, pushed, popped, overrun>>
    BY <1>0, <1>t, <1>5 DEF Storing, Go, history, TypeOK, Drawn
  <2>2. s \in Slots /\ s = Place(n) /\ n \in 1 .. pushed
    BY <1>0, <2>1, DrawnFacts DEF DrawnInv
  <2>3. state'[s] = "STORING" /\ \A r \in Slots : r # s => state'[r] = state[r]
    BY <1>0, <2>1, <2>2 DEF TypeOK
  <2> HIDE DEF s, n
  <2>4. WonPushes' = WonPushes \cup {n} /\ n \notin WonPushes
    <3>1. n \notin WonPushes
      BY <2>1 DEF WonPushes, n
    <3>2. \A q \in Producers : at'[q] = "ticket" => at[q] = "ticket" /\ turn[q] # n
      BY <1>0, <1>t, <2>1 DEF DrawnInv, Drawn, n
    <3>3. \A q \in Producers : at[q] = "ticket" => q = p \/ at'[q] = "ticket"
      BY <1>t, <2>1
    <3>4. WonPushes' \subseteq WonPushes \cup {n}
      BY <2>1, <3>3 DEF WonPushes, n
    <3>5. WonPushes \cup {n} \subseteq WonPushes'
      BY <2>1, <2>2, <3>2 DEF WonPushes
    <3> QED
      BY <3>1, <3>4, <3>5
  <2>5. WonPops' = WonPops
    BY <1>t, <2>1 DEF WonPops
  <2>6. SUFFICES ASSUME ~overrun
                 PROVE  OrderInv'
    BY <2>1 DEF OrderInv
  <2>7. Inside' = Inside \cup {n}
    BY <1>0, <2>4, <2>5, <2>6 DEF Inside, OrderInv
  <2>8. \A m \in Inside : Place(m) # s /\ Place(m) \in Slots
    <3>1. \A m \in Inside : m \in Int
      BY DEF Inside, WonPushes
    <3> QED
      BY <1>0, <2>1, <2>6, <3>1, PlaceFacts DEF OrderInv
  <2>9. \A m \in Inside' : \/ state'[Place(m)] = "STORING"
                           \/ state'[Place(m)] = "STORED" /\ element'[Place(m)] = m
    BY <1>0, <2>1, <2>2, <2>3, <2>6, <2>7, <2>8 DEF OrderInv
  <2>10. \A m, k \in Inside' : Place(m) = Place(k) => m = k
    BY <1>0, <2>2, <2>6, <2>7, <2>8 DEF OrderInv
  <2>11. \A r \in Slots : state'[r] = "STORED" => element'[r] \in Inside' /\ Place(element'[r]) = r
    BY <1>0, <2>1, <2>3, <2>6, <2>7 DEF OrderInv
  <2>12. /\ \A q \in Producers : at'[q] = "ticket" => pushed' - turn'[q] < Size
         /\ \A d \in Consumers : at'[d] = "ticket" => popped' - turn'[d] < Size
         /\ \A q \in Producers : at'[q] = "slot" => turn'[q] \in Inside'
         /\ \A d \in Consumers : at'[d] = "slot" => element'[SlotOf(ticket'[d])] = turn'[d]
    BY <1>0, <1>t, <2>1, <2>6, <2>7 DEF OrderInv, n
  <2>13. WonPops' \subseteq WonPushes'
    BY <1>0, <2>4, <2>5, <2>6 DEF OrderInv
  <2> QED
    BY <2>9, <2>10, <2>11, <2>12, <2>13 DEF OrderInv, Place, TicketOf, SlotOf
<1>6. ASSUME NEW p \in Producers, Stored(p) PROVE OrderInv'
  <2> DEFINE s == SlotOf(ticket[p])
             n == turn[p]
  <2>1. /\ at[p] = "slot" /\ at'[p] = "idle" /\ \A t \in Threads : t # p => at'[t] = at[t]
        /\ p \in Threads /\ p \notin Consumers /\ Drawn(p)
        /\ state' = [state EXCEPT ![s] = "STORED"] /\ element' = [element EXCEPT ![s] = n]
        /\ UNCHANGED <<ticket, turn, pushed, popped, overrun>>
    BY <1>0, <1>t, <1>6 DEF Stored, Go, history, TypeOK, Drawn
  <2>2. s \in Slots /\ s = Place(n)
    BY <1>0, <2>1, DrawnFacts
  <2>3. state'[s] = "STORED" /\ \A r \in Slots : r # s => state'[r] = state[r]
    BY <1>0, <2>1, <2>2 DEF TypeOK
  <2>4. element'[s] = n /\ \A r \in Slots : r # s => element'[r] = element[r]
    BY <1>0, <2>1, <2>2 DEF TypeOK
  <2>5. \A d \in Consumers : at[d] = "slot" => SlotOf(ticket[d]) # s /\ SlotOf(ticket[d]) \in Slots
    BY <1>0, <1>t, <2>1, DrawnFacts DEF SlotsGuarded, Drawn
  <2>6. WonPushes' = WonPushes /\ WonPops' = WonPops /\ Inside' = Inside
    <3>1. \A t \in Threads : at'[t] = "ticket" <=> at[t] = "ticket"
      BY <2>1
    <3> QED
      BY <1>t, <2>1, <3>1 DEF WonPushes, WonPops, Inside
  <2>7. SUFFICES ASSUME ~overrun
                 PROVE  OrderInv'
    BY <2>1 DEF OrderInv
  <2>8. n \in Inside
    BY <1>0, <2>1, <2>7 DEF OrderInv
  <2> HIDE DEF s, n
  <2>9. \A m \in Inside : Place(m) \in Slots /\ (Place(m) = s => m = n)
    <3>1. \A m \in Inside : m \in Int
      BY DEF Inside, WonPushes
    <3> QED
      BY <1>0, <2>2, <2>7, <2>8, <3>1, PlaceFacts DEF OrderInv
  <2>10. \A m \in Inside' : \/ state'[Place(m)] = "STORING"
                            \/ state'[Place(m)] = "STORED" /\ element'[Place(m)] = m
    BY <1>0, <2>2, <2>3, <2>4, <2>6, <2>7, <2>9 DEF OrderInv
  <2>11. \A r \in Slots : state'[r] = "STORED" => element'[r] \in Inside' /\ Place(element'[r]) = r
    BY <1>0, <2>2, <2>3, <2>4, <2>6, <2>7, <2>8 DEF OrderInv
  <2>12. /\ \A q \in Producers : at'[q] = "ticket" => pushed' - turn'[q] < Size
         /\ \A d \in Consumers : at'[d] = "ticket" => popped' - turn'[d] < Size
         /\ \A q \in Producers : at'[q] = "slot" => turn'[q] \in Inside'
    BY <1>0, <1>t, <2>1, <2>6, <2>7 DEF OrderInv
  <2>13. \A d \in Consumers : at'[d] = "slot" => element'[SlotOf(ticket'[d])] = turn'[d]
    BY <1>0, <1>t, <2>1, <2>4, <2>5, <2>7 DEF OrderInv
  <2>14. WonPops' \subseteq WonPushes' /\ \A m, k \in Inside' : Place(m) = Place(k) => m = k
    BY <1>0, <2>6, <2>7 DEF OrderInv
  <2> QED
    BY <2>10, <2>11, <2>12, <2>13, <2>14 DEF OrderInv, Place, TicketOf, SlotOf
<1>7. ASSUME NEW c \in Consumers, Loading(c) PROVE OrderInv'
  <2> DEFINE s == SlotOf(ticket[c])
             n == turn[c]
  <2>1. /\ at[c] = "ticket" /\ at'[c] = "slot" /\ \A t \in Threads : t # c => at'[t] = at[t]
        /\ c \in Threads /\ c \notin Producers /\ Drawn(c)
        /\ state[s] = "STORED" /\ state' = [state EXCEPT ![s] = "LOADING"]
        /\ UNCHANGED <<element, ticket, turn, pushed, popped, overrun>>
    BY <1>0, <1>t, <1>7 DEF Loading, Go, history, TypeOK, Drawn
  <2>2. s \in Slots /\ s = Place(n) /\ n \in 1 .. popped
    BY <1>0, <2>1, DrawnFacts DEF DrawnInv
  <2>3. state'[s] = "LOADING" /\ \A r \in Slots : r # s => state'[r] = state[r]
    BY <1>0, <2>1, <2>2 DEF TypeOK
  <2>4. WonPushes' = WonPushes
    BY <1>t, <2>1 DEF WonPushes
  <2>5. SUFFICES ASSUME ~overrun
                 PROVE  OrderInv'
    BY <2>1 DEF OrderInv
  <2>6. element[s] = n
    BY <1>0, <2>1, <2>5, FindsItsOwn
  <2>7. n \in Inside
    BY <1>0, <2>1, <2>2, <2>5, <2>6 DEF OrderInv
  <2> HIDE DEF s, n
  <2>8. WonPops' = WonPops \cup {n}
    <3>1. \A q \in Consumers : at'[q] = "ticket" => at[q] = "ticket" /\ turn[q] # n
      BY <1>0, <1>t, <2>1 DEF DrawnInv, Drawn, n
    <3>2. \A q \in Consumers : at[q] = "ticket" => q = c \/ at'[q] = "ticket"
      BY <1>t, <2>1
    <3>3. WonPops' \subseteq WonPops \cup {n}
      BY <2>1, <3>2 DEF WonPops, n
    <3>4. WonPops \cup {n} \subseteq WonPops'
      BY <2>1, <2>2, <3>1 DEF WonPops
    <3> QED
      BY <3>3, <3>4
  <2>9. Inside' = Inside \ {n}
    BY <2>4, <2>8 DEF Inside
  <2>10. \A m \in Inside' : m \in Inside /\ Place(m) # s /\ Place(m) \in Slots
    <3>1. \A m \in Inside : m \in Int
      BY DEF Inside, WonPushes
    <3> QED
      BY <1>0, <2>2, <2>5, <2>7, <2>9, <3>1, PlaceFacts DEF OrderInv
  <2>11. \A m \in Inside' : \/ state'[Place(m)] = "STORING"
                            \/ state'[Place(m)] = "STORED" /\ element'[Place(m)] = m
    BY <1>0, <2>1, <2>3, <2>5, <2>10 DEF OrderInv
  <2>12. \A r \in Slots : state'[r] = "STORED" => element'[r] \in Inside' /\ Place(element'[r]) = r
    BY <1>0, <2>1, <2>2, <2>3, <2>5, <2>9 DEF OrderInv
  <2>13. \A q \in Producers : at'[q] = "slot" => turn'[q] \in Inside'
    <3> SUFFICES ASSUME NEW q \in Producers, at'[q] = "slot" PROVE turn'[q] \in Inside'
      OBVIOUS
    <3>1. at[q] = "slot" /\ turn[q] \in Inside /\ state[SlotOf(ticket[q])] = "STORING"
      BY <1>0, <1>t, <2>1, <2>5 DEF OrderInv, SlotsGuarded
    <3>2. SlotOf(ticket[q]) = Place(turn[q])
      BY <1>0, <1>t, <3>1, DrawnFacts DEF Drawn
    <3> QED
      BY <2>1, <2>2, <2>9, <3>1, <3>2
  <2>14. /\ \A q \in Producers : at'[q] = "ticket" => pushed' - turn'[q] < Size
         /\ \A d \in Consumers : at'[d] = "ticket" => popped' - turn'[d] < Size
         /\ \A d \in Consumers : at'[d] = "slot" => element'[SlotOf(ticket'[d])] = turn'[d]
    BY <1>0, <1>t, <2>1, <2>5, <2>6 DEF OrderInv, n, s
  <2>15. WonPops' \subseteq WonPushes' /\ \A m, k \in Inside' : Place(m) = Place(k) => m = k
    BY <1>0, <2>4, <2>5, <2>7, <2>8, <2>9 DEF OrderInv, Inside
  <2> QED
    BY <2>11, <2>12, <2>13, <2>14, <2>15 DEF OrderInv, Place, TicketOf, SlotOf
<1>8. ASSUME NEW c \in Consumers, Loaded(c) PROVE OrderInv'
  <2> DEFINE s == SlotOf(ticket[c])
  <2>1. /\ at[c] = "slot" /\ at'[c] = "idle" /\ \A t \in Threads : t # c => at'[t] = at[t]
        /\ c \in Threads /\ c \notin Producers /\ Drawn(c)
        /\ state[s] = "LOADING" /\ state' = [state EXCEPT ![s] = "EMPTY"]
        /\ element' = [element EXCEPT ![s] = 0]
        /\ UNCHANGED <<ticket, turn, pushed, popped, overrun>>
    BY <1>0, <1>t, <1>8 DEF Loaded, Go, SlotsGuarded, TypeOK, Drawn
  <2>2. s \in Slots
    BY <1>0, <2>1, DrawnFacts
  <2>3. state'[s] = "EMPTY" /\ \A r \in Slots : r # s => state'[r] = state[r]
    BY <1>0, <2>1, <2>2 DEF TypeOK
  <2>4. \A r \in Slots : r # s => element'[r] = element[r]
    BY <1>0, <2>1, <2>2 DEF TypeOK
  <2>5. \A d \in Consumers : at'[d] = "slot" =>
          at[d] = "slot" /\ SlotOf(ticket[d]) # s /\ SlotOf(ticket[d]) \in Slots
    BY <1>0, <1>t, <2>1, DrawnFacts DEF SlotsGuarded, Drawn
  <2>6. WonPushes' = WonPushes /\ WonPops' = WonPops /\ Inside' = Inside
    <3>1. \A t \in Threads : at'[t] = "ticket" <=> at[t] = "ticket"
      BY <2>1
    <3> QED
      BY <1>t, <2>1, <3>1 DEF WonPushes, WonPops, Inside
  <2>7. SUFFICES ASSUME ~overrun
                 PROVE  OrderInv'
    BY <2>1 DEF OrderInv
  <2> HIDE DEF s
  <2>8. \A m \in Inside : Place(m) \in Slots /\ Place(m) # s
    <3>1. \A m \in Inside : m \in Int
      BY DEF Inside, WonPushes
    <3> QED
      BY <1>0, <2>1, <2>7, <3>1, PlaceFacts DEF OrderInv
  <2>9. \A m \in Inside' : \/ state'[Place(m)] = "STORING"
                           \/ state'[Place(m)] = "STORED" /\ element'[Place(m)] = m
    BY <1>0, <2>3, <2>4, <2>6, <2>7, <2>8 DEF OrderInv
  <2>10. \A r \in Slots : state'[r] = "STORED" => element'[r] \in Inside' /\ Place(element'[r]) = r
    BY <1>0, <2>3, <2>4, <2>6, <2>7 DEF OrderInv
  <2>11. /\ \A q \in Producers : at'[q] = "ticket" => pushed' - turn'[q] < Size
         /\ \A d \in Consumers : at'[d] = "ticket" => popped' - turn'[d] < Size
         /\ \A q \in Producers : at'[q] = "slot" => turn'[q] \in Inside'
    BY <1>0, <1>t, <2>1, <2>6, <2>7 DEF OrderInv
  <2>12. \A d \in Consumers : at'[d] = "slot" => element'[SlotOf(ticket'[d])] = turn'[d]
    BY <1>0, <1>t, <2>1, <2>4, <2>5, <2>7 DEF OrderInv
  <2>13. WonPops' \subseteq WonPushes' /\ \A m, k \in Inside' : Place(m) = Place(k) => m = k
    BY <1>0, <2>6, <2>7 DEF OrderInv
  <2> QED
    BY <2>9, <2>10, <2>11, <2>12, <2>13 DEF OrderInv, Place, TicketOf, SlotOf
<1>9. CASE UNCHANGED vars
  BY <1>1, <1>9 DEF vars
<1> QED
  BY <1>2, <1>3, <1>4, <1>5, <1>6, <1>7, <1>8, <1>9
     DEF Next, ProducerNext, ConsumerNext, Looks, Draws

LEMMA MayPushFinite ==
  ASSUME NEW k \in Nat
  PROVE  /\ IsFiniteSet(MayPush(k))
         /\ Cardinality(MayPush(k)) \in Nat /\ Cardinality(Producers) \in Nat
         /\ Cardinality(MayPush(k)) <= Cardinality(Producers)
<1>1. MayPush(k) \subseteq Producers
  BY DEF MayPush
<1> QED
  BY <1>1, FS_Subset, FS_CardinalityType, QueueAssumption

(* The queue of a log has a free slot; one more, when a push is admitted.   *)
LEMMA SlotLeft ==
  ASSUME TypeOK, QueueRoomInv, disciplined, Roomy
  PROVE  /\ pushed - popped < Size
         /\ \A p \in Producers : at[p] = "admitted" => pushed + 1 - popped < Size
<1>1. /\ pushed \in Nat /\ popped \in Nat /\ Size \in Nat \ {0} /\ Limit \in Nat \ {0}
      /\ Cardinality(Producers) \in Nat
  BY SizeFacts, QueueAssumption, FS_CardinalityType DEF TypeOK
<1>2. CASE Limit = 1
  BY <1>1, <1>2 DEF QueueRoomInv
<1>3. CASE Limit # 1
  <2> DEFINE k == popped + Limit - 2
  <2>1. k \in Nat /\ k >= popped + Limit - 2
    BY <1>1, <1>3
  <2>2. pushed + Cardinality(MayPush(k)) <= k + Cardinality(Producers)
    BY <2>1 DEF QueueRoomInv
  <2>3. Limit + Cardinality(Producers) <= Size + 1
    BY DEF Roomy
  <2>4. Cardinality(MayPush(k)) \in Nat
    BY <2>1, MayPushFinite
  <2>5. ASSUME NEW p \in Producers, at[p] = "admitted" PROVE Cardinality(MayPush(k)) >= 1
    <3>1. MayPush(k) # {}
      BY <2>5 DEF MayPush
    <3>2. Cardinality(MayPush(k)) # 0
      BY <2>1, <3>1, MayPushFinite, FS_EmptySet
    <3> QED
      BY <2>4, <3>2
  <2> QED
    BY <1>1, <2>2, <2>3, <2>4, <2>5
<1> QED
  BY <1>2, <1>3

(* A push that still waits is no further back than the last pop.            *)
LEMMA PopsDoNotPass ==
  ASSUME TypeOK, DrawnInv, OrderInv, QueueRoomInv, ~overrun, disciplined,
         NEW p \in Producers, at[p] = "ticket"
  PROVE  popped <= turn[p] /\ turn[p] \in 1 .. pushed
<1>1. turn[p] \in 1 .. pushed /\ popped \in Nat /\ pushed \in Nat
  BY DEF DrawnInv, Drawn, TypeOK
<1>2. turn[p] \notin WonPops
  <2>1. turn[p] \notin WonPushes
    BY DEF WonPushes
  <2> QED
    BY <2>1 DEF OrderInv
<1>3. ASSUME turn[p] < popped PROVE FALSE
  <2>1. PICK c \in Consumers : at[c] = "ticket" /\ turn[c] = turn[p]
    BY <1>1, <1>2, <1>3 DEF WonPops
  <2>2. turn[c] = popped
    BY <2>1 DEF QueueRoomInv
  <2> QED
    BY <1>1, <1>3, <2>1, <2>2
<1> QED
  BY <1>1, <1>3

(* Then its slot is empty: what is or was in it has long been popped.       *)
LEMMA PushFindsRoom ==
  ASSUME QueueInv
  PROVE  LogPushNeverSpins
<1> SUFFICES ASSUME disciplined, Roomy
             PROVE  /\ ~overrun
                    /\ \A p \in Producers : at[p] = "ticket" => state[SlotOf(ticket[p])] = "EMPTY"
  BY DEF LogPushNeverSpins, Roomy
<1>0. TypeOK /\ SlotsGuarded /\ DrawnInv /\ HolderInv /\ OrderInv /\ QueueRoomInv
  BY DEF QueueInv
<1>1. ~overrun
  BY <1>0 DEF QueueRoomInv
<1>2. pushed - popped < Size /\ pushed \in Nat /\ popped \in Nat /\ Size \in Nat \ {0}
  BY <1>0, SlotLeft, SizeFacts DEF TypeOK
<1> SUFFICES ASSUME NEW p \in Producers, at[p] = "ticket"
             PROVE  state[SlotOf(ticket[p])] = "EMPTY"
  BY <1>1
<1> DEFINE s == SlotOf(ticket[p])
           n == turn[p]
<1>3. s \in Slots /\ s = Place(n) /\ n \in 1 .. pushed /\ popped <= n /\ n \notin WonPushes
  <2>1. p \in Threads /\ Drawn(p)
    BY DEF Threads, Drawn
  <2>2. n \notin WonPushes
    BY DEF WonPushes
  <2> QED
    BY <1>0, <1>1, <2>1, <2>2, DrawnFacts, PopsDoNotPass
<1> HIDE DEF s, n
<1>4. ASSUME NEW m \in WonPushes, Place(m) = s PROVE m <= pushed - Size
  <2>1. m \in 1 .. pushed /\ m # n
    BY <1>3 DEF WonPushes
  <2>2. CASE m < n
    <3>1. n - m >= Size
      BY <1>3, <1>4, <2>1, <2>2, PlacesApart
    <3> QED
      BY <1>2, <1>3, <2>1, <3>1
  <2>3. CASE n < m
    <3>1. n \in WonPushes
      BY <1>0, <1>1, <1>2, <1>3, <1>4, <2>1, <2>3, EarlierHasWon
    <3> QED
      BY <1>3, <3>1
  <2> QED
    BY <1>3, <2>1, <2>2, <2>3
<1>5. ASSUME NEW m \in Inside, Place(m) = s PROVE FALSE
  <2>1. m \in WonPushes /\ m \notin WonPops /\ m \in 1 .. pushed
    BY DEF Inside, WonPushes
  <2>2. m <= pushed - Size /\ m < popped
    BY <1>2, <1>4, <1>5, <2>1
  <2>3. PICK c \in Consumers : at[c] = "ticket" /\ turn[c] = m
    BY <1>2, <2>1, <2>2 DEF WonPops
  <2>4. turn[c] = popped
    BY <1>0, <2>3 DEF QueueRoomInv
  <2> QED
    BY <1>2, <2>1, <2>2, <2>3, <2>4
<1>6. ASSUME state[s] = "STORING" PROVE FALSE
  <2>1. PICK q \in Producers : at[q] = "slot" /\ SlotOf(ticket[q]) = s
    BY <1>0, <1>3, <1>6 DEF HolderInv
  <2>2. turn[q] \in Inside /\ Place(turn[q]) = s
    BY <1>0, <1>1, <2>1, DrawnFacts DEF OrderInv, Drawn, Threads
  <2> QED
    BY <1>5, <2>2
<1>7. ASSUME state[s] = "STORED" PROVE FALSE
  BY <1>0, <1>1, <1>3, <1>5, <1>7 DEF OrderInv
<1>8. ASSUME state[s] = "LOADING" PROVE FALSE
  <2>1. PICK c \in Consumers : at[c] = "slot" /\ SlotOf(ticket[c]) = s
    BY <1>0, <1>3, <1>8 DEF HolderInv
  <2>2. turn[c] = popped /\ Place(turn[c]) = s /\ turn[c] \in 1 .. popped
    BY <1>0, <2>1, DrawnFacts DEF QueueRoomInv, DrawnInv, Drawn, Threads
  <2>3. turn[c] \in WonPops
    <3>1. \A d \in Consumers : at[d] = "ticket" => turn[d] # turn[c]
      BY <1>0, <2>1 DEF DrawnInv, Drawn
    <3> QED
      BY <2>2, <3>1 DEF WonPops
  <2>4. turn[c] \in WonPushes
    BY <1>0, <1>1, <2>3 DEF OrderInv
  <2>5. popped <= pushed - Size
    BY <1>4, <2>2, <2>4
  <2> QED
    BY <1>2, <2>5
<1>9. state[s] \in {"EMPTY", "STORING", "STORED", "LOADING"}
  BY <1>0, <1>3 DEF TypeOK
<1> QED
  BY <1>6, <1>7, <1>8, <1>9 DEF s

(* A producer that was admitted saw few enough pushes.                      *)
LEMMA AdmittedSawFew ==
  ASSUME QueueInv, NEW p \in Producers, Admit(p)
  PROVE  /\ Limit # 1
         /\ disciplined /\ Roomy => turn[p] <= popped + Limit - 2
<1>0. TypeOK /\ DrawnInv /\ QueueRoomInv
  BY DEF QueueInv
<1> DEFINE M == 2^Width
           d == (sample[p] - tail) % M
<1>1. /\ M \in Nat \ {0} /\ 2^(Width - 1) \in Nat /\ Size \in Nat /\ Size <= 2^(Width - 1)
      /\ Limit \in Nat \ {0} /\ pushed \in Nat /\ popped \in Nat
      /\ sample[p] \in Int /\ tail \in Int
  BY <1>0, SizeFacts, QueueAssumption DEF TypeOK, Tickets
<1>2. d \in 0 .. M - 1
  <2>1. sample[p] - tail \in Int
    BY <1>1
  <2> HIDE DEF M
  <2> QED
    BY <1>1, <2>1, Division
<1>3. WasSize(sample[p]) = (IF d < 2^(Width - 1) THEN d ELSE 0) /\ WasSize(sample[p]) < Limit - 1
  BY DEF WasSize, Admit
<1>4. turn[p] \in 0 .. pushed /\ sample[p] = TicketOf(turn[p] + 1) /\ tail = TicketOf(popped + 1)
  BY <1>0, NumbersNow DEF Admit, Go, DrawnInv
<1> HIDE DEF d, M
<1>5. Limit # 1
  BY <1>1, <1>2, <1>3
<1>6. ASSUME disciplined, Roomy PROVE turn[p] <= popped + Limit - 2
  <2>1. CASE turn[p] < popped
    BY <1>1, <1>4, <2>1
  <2>2. CASE popped <= turn[p]
    <3>1. turn[p] - popped < 2^(Width - 1)
      BY <1>0, <1>1, <1>4, <1>6, SlotLeft
    <3>2. d = turn[p] - popped
      BY <1>1, <1>4, <2>2, <3>1, CountersApart DEF d, M
    <3> QED
      BY <1>1, <1>3, <1>4, <3>1, <3>2
  <2> QED
    BY <1>1, <1>4, <2>1, <2>2
<1> QED
  BY <1>5, <1>6

LEMMA RoomStep ==
  ASSUME QueueInv, [Next]_vars
  PROVE  QueueRoomInv'
<1>0. TypeOK /\ DrawnInv /\ OrderInv /\ QueueRoomInv
  BY DEF QueueInv
<1>t. Producers \subseteq Threads /\ Consumers \subseteq Threads
      /\ \A p \in Producers : p \notin Consumers
  BY QueueAssumption DEF Threads
<1>s. /\ Size \in Nat \ {0} /\ pushed \in Nat /\ popped \in Nat /\ Limit \in Nat \ {0}
      /\ Cardinality(Producers) \in Nat
  BY <1>0, SizeFacts, QueueAssumption, FS_CardinalityType DEF TypeOK
<1>r. Roomy' <=> Roomy
  BY DEF Roomy
(* Steps of one producer that change neither pops nor overrun.              *)
<1>1. ASSUME UNCHANGED <<popped, overrun>>, disciplined' => disciplined,
             pushed' \in Nat, pushed' >= pushed,
             \A c \in Consumers : (at'[c] # "idle" => at[c] # "idle") /\ turn'[c] = turn[c],
             Limit = 1 /\ disciplined => pushed' = pushed /\ \A p \in Producers : at'[p] # "admitted",
             disciplined /\ Roomy => \A k \in Nat : k >= popped + Limit - 2 =>
               pushed' + Cardinality(MayPush(k)') <= k + Cardinality(Producers)
      PROVE  QueueRoomInv'
  <2>1. ASSUME disciplined'
        PROVE  /\ popped' <= pushed'
               /\ \A c, d \in Consumers : at'[c] # "idle" /\ at'[d] # "idle" => c = d
               /\ \A c \in Consumers : at'[c] # "idle" => turn'[c] = popped'
               /\ Limit = 1 => pushed' = 0 /\ \A p \in Producers : at'[p] # "admitted"
    BY <1>0, <1>1, <1>s, <2>1 DEF QueueRoomInv
  <2>2. ASSUME disciplined', Roomy
        PROVE  /\ ~overrun'
               /\ \A k \in Nat : k >= popped' + Limit - 2 =>
                    pushed' + Cardinality(MayPush(k)') <= k + Cardinality(Producers)
    BY <1>0, <1>1, <2>2 DEF QueueRoomInv
  <2> QED
    BY <1>r, <2>1, <2>2 DEF QueueRoomInv, MayPush
<1>2. ASSUME NEW p \in Producers, Looks(p) PROVE QueueRoomInv'
  <2>1. /\ UNCHANGED <<popped, pushed, overrun, disciplined>>
        /\ \A c \in Consumers : at'[c] = at[c] /\ turn'[c] = turn[c]
        /\ \A q \in Producers : q # p => at'[q] = at[q] /\ turn'[q] = turn[q]
    BY <1>0, <1>t, <1>2, LooksFacts
  <2>2. ASSUME Limit = 1, disciplined PROVE \A q \in Producers : at'[q] # "admitted"
    <3>1. ~Admit(p)
      BY <2>2, AdmittedSawFew
    <3>2. at'[p] # "admitted"
      BY <1>0, <1>2, <1>t, <3>1 DEF Looks, ReadHead, Refuse, Go, TypeOK
    <3> QED
      BY <1>0, <2>1, <2>2, <3>2 DEF QueueRoomInv
  <2>3. ASSUME disciplined, Roomy, NEW k \in Nat, k >= popped + Limit - 2
        PROVE  pushed' + Cardinality(MayPush(k)') <= k + Cardinality(Producers)
    <3>1. pushed + Cardinality(MayPush(k)) <= k + Cardinality(Producers)
      BY <1>0, <2>3 DEF QueueRoomInv
    <3>2. CASE MayPush(k)' \subseteq MayPush(k)
      <4>1. Cardinality(MayPush(k)') <= Cardinality(MayPush(k)) /\ Cardinality(MayPush(k)') \in Nat
            /\ Cardinality(MayPush(k)) \in Nat
        BY <3>2, MayPushFinite, FS_Subset, FS_CardinalityType
      <4> QED
        BY <1>s, <2>1, <3>1, <4>1
    <3>3. CASE pushed <= k
      <4>1. MayPush(k)' \subseteq Producers
        BY DEF MayPush
      <4>2. Cardinality(MayPush(k)') <= Cardinality(Producers) /\ Cardinality(MayPush(k)') \in Nat
        BY <4>1, QueueAssumption, FS_Subset, FS_CardinalityType
      <4> QED
        BY <1>s, <2>1, <3>3, <4>2
    <3>4. ASSUME ~(pushed <= k) PROVE MayPush(k)' \subseteq MayPush(k)
      <4>1. p \in MayPush(k)' => p \in MayPush(k)
        <5>1. CASE ReadHead(p)
          <6>1. at'[p] = "size" /\ turn'[p] = pushed
            BY <1>0, <1>t, <5>1 DEF ReadHead, Go, TypeOK
          <6> QED
            BY <3>4, <6>1 DEF MayPush
        <5>2. CASE Refuse(p)
          <6>1. at'[p] = "idle"
            BY <1>0, <1>t, <5>2 DEF Refuse, Go, TypeOK
          <6> QED
            BY <6>1 DEF MayPush
        <5>3. CASE Admit(p)
          <6>1. at[p] = "size" /\ turn[p] <= popped + Limit - 2 /\ turn[p] \in 0 .. pushed
            BY <1>0, <2>3, <5>3, AdmittedSawFew DEF Admit, Go, DrawnInv
          <6> QED
            BY <1>s, <2>3, <6>1 DEF MayPush
        <5> QED
          BY <1>2, <5>1, <5>2, <5>3 DEF Looks
      <4> QED
        BY <2>1, <4>1 DEF MayPush
    <3> QED
      BY <3>2, <3>3, <3>4
  <2> QED
    BY <1>1, <1>s, <2>1, <2>2, <2>3
<1>3. ASSUME NEW p \in Producers, PushAdmitted(p) PROVE QueueRoomInv'
  <2>1. /\ at[p] = "admitted" /\ at'[p] = "ticket" /\ p \notin Consumers
        /\ \A t \in Threads : t # p => at'[t] = at[t] /\ turn'[t] = turn[t]
        /\ pushed' = pushed + 1 /\ popped' = popped
        /\ overrun' = (overrun \/ Laps(pushed + 1, Producers))
        /\ disciplined' = disciplined
    BY <1>0, <1>t, <1>3 DEF PushAdmitted, DrawHead, Go, TypeOK
  <2>2. SUFFICES ASSUME disciplined PROVE QueueRoomInv'
    BY <2>1 DEF QueueRoomInv
  <2>3. Limit # 1
    BY <1>0, <2>1, <2>2 DEF QueueRoomInv
  <2>4. /\ popped' <= pushed'
        /\ \A c, d \in Consumers : at'[c] # "idle" /\ at'[d] # "idle" => c = d
        /\ \A c \in Consumers : at'[c] # "idle" => turn'[c] = popped'
    BY <1>0, <1>s, <1>t, <2>1, <2>2 DEF QueueRoomInv
  <2>5. ASSUME Roomy PROVE ~overrun'
    <3>1. ~overrun /\ pushed + 1 - popped < Size
      BY <1>0, <2>1, <2>2, <2>5, SlotLeft DEF QueueRoomInv
    <3>2. \A q \in Producers : at[q] = "ticket" => popped <= turn[q] /\ turn[q] \in 1 .. pushed
      BY <1>0, <2>2, <3>1, PopsDoNotPass
    <3>3. ~Laps(pushed + 1, Producers)
      BY <1>s, <3>1, <3>2 DEF Laps
    <3> QED
      BY <2>1, <3>1, <3>3
  <2>6. ASSUME Roomy, NEW k \in Nat, k >= popped' + Limit - 2
        PROVE  pushed' + Cardinality(MayPush(k)') <= k + Cardinality(Producers)
    <3>1. pushed + Cardinality(MayPush(k)) <= k + Cardinality(Producers)
      BY <1>0, <2>1, <2>2, <2>6 DEF QueueRoomInv
    <3>2. MayPush(k)' = MayPush(k) \ {p} /\ p \in MayPush(k)
      BY <1>t, <2>1 DEF MayPush
    <3>3. Cardinality(MayPush(k) \ {p}) = Cardinality(MayPush(k)) - 1
      BY <3>2, MayPushFinite, FS_RemoveElement
    <3>4. Cardinality(MayPush(k)) \in Nat
      BY MayPushFinite
    <3> QED
      BY <1>s, <2>1, <3>1, <3>2, <3>3, <3>4
  <2> QED
    BY <1>r, <2>1, <2>3, <2>4, <2>5, <2>6 DEF QueueRoomInv, MayPush
<1>4. ASSUME NEW p \in Producers, Push(p) PROVE QueueRoomInv'
  BY <1>4 DEF Push, QueueRoomInv
<1>5. ASSUME NEW p \in Producers, Storing(p) \/ Stored(p) PROVE QueueRoomInv'
  <2>1. /\ UNCHANGED <<popped, pushed, overrun, disciplined, turn>>
        /\ at[p] \in {"ticket", "slot"} /\ at'[p] \in {"slot", "idle"} /\ p \notin Consumers
        /\ \A t \in Threads : t # p => at'[t] = at[t]
    BY <1>0, <1>t, <1>5 DEF Storing, Stored, Go, history, TypeOK
  <2>2. ASSUME NEW k \in Nat PROVE MayPush(k)' = MayPush(k)
    BY <1>t, <2>1 DEF MayPush
  <2>3. \A k \in Nat : disciplined /\ Roomy /\ k >= popped + Limit - 2 =>
          pushed' + Cardinality(MayPush(k)') <= k + Cardinality(Producers)
    BY <1>0, <2>1, <2>2 DEF QueueRoomInv
  <2>4. Limit = 1 /\ disciplined => \A q \in Producers : at'[q] # "admitted"
    BY <1>0, <1>t, <2>1 DEF QueueRoomInv
  <2>5. \A c \in Consumers : (at'[c] # "idle" => at[c] # "idle") /\ turn'[c] = turn[c]
    BY <1>t, <2>1
  <2> QED
    BY <1>1, <1>s, <2>1, <2>3, <2>4, <2>5
<1>6. ASSUME NEW c \in Consumers, Pop(c) PROVE QueueRoomInv'
  <2>1. /\ at'[c] = "ticket" /\ turn'[c] = popped + 1 /\ c \notin Producers
        /\ \A t \in Threads : t # c => at'[t] = at[t] /\ turn'[t] = turn[t]
        /\ popped' = popped + 1 /\ pushed' = pushed
        /\ overrun' = (overrun \/ Laps(popped + 1, Consumers))
        /\ disciplined' => /\ disciplined /\ popped < pushed
                           /\ \A d \in Consumers : at[d] = "idle"
    BY <1>0, <1>t, <1>6 DEF Pop, Go, TypeOK
  <2>2. SUFFICES ASSUME disciplined' PROVE QueueRoomInv'
    BY DEF QueueRoomInv
  <2>3. disciplined /\ popped < pushed /\ \A d \in Consumers : at[d] = "idle"
    BY <2>1, <2>2
  <2>4. /\ popped' <= pushed'
        /\ \A d, e \in Consumers : at'[d] # "idle" /\ at'[e] # "idle" => d = e
        /\ \A d \in Consumers : at'[d] # "idle" => turn'[d] = popped'
    BY <1>s, <1>t, <2>1, <2>3
  <2>5. Limit = 1 => pushed' = 0 /\ \A p \in Producers : at'[p] # "admitted"
    BY <1>0, <1>t, <2>1, <2>3 DEF QueueRoomInv
  <2>6. Roomy => ~overrun'
    BY <1>0, <2>1, <2>3 DEF QueueRoomInv, Laps
  <2>7. ASSUME Roomy, NEW k \in Nat, k >= popped' + Limit - 2
        PROVE  pushed' + Cardinality(MayPush(k)') <= k + Cardinality(Producers)
    <3>1. MayPush(k)' = MayPush(k)
      BY <1>t, <2>1 DEF MayPush
    <3>2. k >= popped + Limit - 2
      BY <1>s, <2>1, <2>7
    <3> QED
      BY <1>0, <2>1, <2>3, <2>7, <3>1, <3>2 DEF QueueRoomInv
  <2> QED
    BY <1>r, <2>4, <2>5, <2>6, <2>7 DEF QueueRoomInv, MayPush
<1>7. ASSUME NEW c \in Consumers, Loading(c) \/ Loaded(c) PROVE QueueRoomInv'
  <2>1. /\ UNCHANGED <<popped, pushed, overrun, disciplined, turn>>
        /\ at[c] # "idle" /\ c \notin Producers
        /\ \A t \in Threads : t # c => at'[t] = at[t]
    BY <1>0, <1>t, <1>7 DEF Loading, Loaded, Go, history, TypeOK
  <2>2. ASSUME NEW k \in Nat PROVE MayPush(k)' = MayPush(k)
    BY <1>t, <2>1 DEF MayPush
  <2>3. \A k \in Nat : disciplined /\ Roomy /\ k >= popped + Limit - 2 =>
          pushed' + Cardinality(MayPush(k)') <= k + Cardinality(Producers)
    BY <1>0, <2>1, <2>2 DEF QueueRoomInv
  <2>4. Limit = 1 /\ disciplined => \A q \in Producers : at'[q] # "admitted"
    BY <1>0, <1>t, <2>1 DEF QueueRoomInv
  <2>5. \A d \in Consumers : (at'[d] # "idle" => at[d] # "idle") /\ turn'[d] = turn[d]
    BY <1>t, <2>1
  <2> QED
    BY <1>1, <1>s, <2>1, <2>3, <2>4, <2>5
<1>8. CASE UNCHANGED vars
  BY <1>0, <1>8 DEF QueueRoomInv, MayPush, Roomy, vars
<1> QED
  BY <1>2, <1>3, <1>4, <1>5, <1>6, <1>7, <1>8 DEF Next, ProducerNext, ConsumerNext, Looks

(* What FmsLog relies on, for queues of any size and any number of threads, *)
(* also where the counters wrap around: a slot's element is touched by the  *)
(* thread that won the slot, and a push of the log finds its slot empty.    *)
THEOREM QueueIsSound == SafetySpec => []QueueSound
<1>1. Init => QueueInv
  BY InitQueue
<1>2. QueueInv /\ [Next]_vars => QueueInv'
  BY TypeStep, HolderStep, DrawnStep, ElementStep, OrderStep, RoomStep DEF QueueInv
<1>3. QueueInv => QueueSound
  BY PushFindsRoom DEF QueueSound, QueueInv
<1> QED
  BY <1>1, <1>2, <1>3, PTL DEF SafetySpec

(* Every step of the slots and tickets is a step of the queue or a stutter: *)
(* nothing is lost or read twice, and until it is overrun the n-th pop      *)
(* takes the n-th push.                                                     *)
THEOREM QueueIsFifo == SafetySpec => ImplementsFifo
<1> DEFINE asked == [c \in Consumers |-> IF at[c] = "idle" THEN 0 ELSE turn[c]]
<1>1. Init => Fifo!QInit
  BY DEF Init, Fifo!QInit, Threads
<1>2. QueueInv /\ [Next]_vars => [Fifo!QNext]_(Fifo!qvars)
  <2> SUFFICES ASSUME QueueInv, [Next]_vars PROVE [Fifo!QNext]_(Fifo!qvars)
    OBVIOUS
  <2>0. TypeOK /\ SlotsGuarded /\ DrawnInv /\ ElementInv /\ OrderInv
    BY DEF QueueInv
  <2>t. Producers \subseteq Threads /\ Consumers \subseteq Threads
        /\ \A p \in Producers : p \notin Consumers
    BY QueueAssumption DEF Threads
  <2>1. ASSUME UNCHANGED <<pushed, popped, taken, overrun>>,
               \A c \in Consumers : (at'[c] = "idle" <=> at[c] = "idle") /\ turn'[c] = turn[c]
        PROVE  UNCHANGED Fifo!qvars
    <3>1. asked' = asked
      BY <2>1
    <3> QED
      BY <2>1, <3>1 DEF Fifo!qvars
  <2>2. ASSUME NEW p \in Producers, Looks(p) PROVE UNCHANGED Fifo!qvars
    BY <2>0, <2>t, <2>1, <2>2, LooksFacts
  <2>3. ASSUME NEW p \in Producers, Draws(p) PROVE Fifo!Enqueue
    <3>1. /\ pushed' = pushed + 1 /\ UNCHANGED <<popped, taken>>
          /\ \A c \in Consumers : at'[c] = at[c] /\ turn'[c] = turn[c]
          /\ overrun' = (overrun \/ Laps(pushed + 1, Producers))
      BY <2>0, <2>t, <2>3, DrawsFacts DEF TypeOK
    <3>2. overrun' \in {overrun, TRUE}
      <4>1. overrun \in BOOLEAN /\ Laps(pushed + 1, Producers) \in BOOLEAN
        BY <2>0 DEF TypeOK, Laps
      <4> QED
        BY <3>1, <4>1
    <3>3. asked' = asked
      BY <3>1
    <3> QED
      BY <3>1, <3>2, <3>3 DEF Fifo!Enqueue
  <2>4. ASSUME NEW p \in Producers, Storing(p) \/ Stored(p) PROVE UNCHANGED Fifo!qvars
    <3>1. /\ UNCHANGED <<pushed, popped, taken, overrun, turn>>
          /\ \A t \in Threads : t # p => at'[t] = at[t]
      BY <2>0, <2>t, <2>4 DEF Storing, Stored, Go, history, TypeOK
    <3> QED
      BY <2>t, <2>1, <3>1
  <2>5. ASSUME NEW c \in Consumers, Pop(c) PROVE Fifo!Request(c)
    <3>1. /\ at[c] = "idle" /\ at'[c] = "ticket" /\ turn'[c] = popped + 1
          /\ \A t \in Threads : t # c => at'[t] = at[t] /\ turn'[t] = turn[t]
          /\ popped' = popped + 1 /\ UNCHANGED <<pushed, taken>>
          /\ overrun' = (overrun \/ Laps(popped + 1, Consumers))
      BY <2>0, <2>t, <2>5 DEF Pop, Go, TypeOK
    <3>2. overrun' \in {overrun, TRUE}
      <4>1. overrun \in BOOLEAN /\ Laps(popped + 1, Consumers) \in BOOLEAN
        BY <2>0 DEF TypeOK, Laps
      <4> QED
        BY <3>1, <4>1
    <3>3. asked[c] = 0 /\ asked' = [asked EXCEPT ![c] = popped + 1]
      BY <2>t, <3>1
    <3> QED
      BY <3>1, <3>2, <3>3 DEF Fifo!Request
  <2>6. ASSUME NEW c \in Consumers, Loading(c) PROVE UNCHANGED Fifo!qvars
    <3>1. /\ UNCHANGED <<pushed, popped, taken, overrun, turn>>
          /\ at[c] = "ticket" /\ at'[c] = "slot"
          /\ \A t \in Threads : t # c => at'[t] = at[t]
      BY <2>0, <2>t, <2>6 DEF Loading, Go, history, TypeOK
    <3> QED
      BY <2>t, <2>1, <3>1
  <2>7. ASSUME NEW c \in Consumers, Loaded(c) PROVE Fifo!Receive(c)
    <3> DEFINE s == SlotOf(ticket[c])
               e == element[SlotOf(ticket[c])]
    <3>1. /\ at[c] = "slot" /\ at'[c] = "idle" /\ Drawn(c) /\ c \in Threads
          /\ \A t \in Threads : t # c => at'[t] = at[t]
          /\ taken' = taken \cup {<<turn[c], e>>}
          /\ UNCHANGED <<pushed, popped, turn, overrun>>
      BY <2>0, <2>t, <2>7 DEF Loaded, Go, TypeOK, Drawn
    <3>2. s \in Slots /\ turn[c] \in Nat \ {0}
      BY <2>0, <3>1, DrawnFacts
    <3>3. e \in Unread
      BY <2>0, <3>1, <3>2 DEF SlotsGuarded, ElementInv, Full
    <3>4. overrun \/ e = turn[c]
      BY <2>0, <3>1 DEF OrderInv
    <3>5. asked[c] = turn[c] /\ asked[c] # 0 /\ asked' = [asked EXCEPT ![c] = 0]
      BY <2>t, <3>1, <3>2
    <3>6. Fifo!Unreceived = Unread
      BY DEF Fifo!Unreceived, Unread
    <3> HIDE DEF e, s
    <3> QED
      BY <3>1, <3>3, <3>4, <3>5, <3>6 DEF Fifo!Receive
  <2>8. CASE UNCHANGED vars
    BY <2>1, <2>8 DEF vars
  <2> QED
    BY <2>2, <2>3, <2>4, <2>5, <2>6, <2>7, <2>8
       DEF Next, ProducerNext, ConsumerNext, Looks, Draws, Fifo!QNext
<1>3. SafetySpec => []QueueInv
  <2>1. QueueInv /\ [Next]_vars => QueueInv'
    BY TypeStep, HolderStep, DrawnStep, ElementStep, OrderStep, RoomStep DEF QueueInv
  <2> QED
    BY InitQueue, <2>1, PTL DEF SafetySpec
<1> QED
  BY <1>1, <1>2, <1>3, PTL DEF SafetySpec, ImplementsFifo, Fifo!QSpec

-----------------------------------------------------------------------------
(* The HTTP client                                                          *)

Waiting == {"idle", "take", "make"}

(* A caller has a handle from its creation or its turn at the pool until   *)
(* it returns.                                                              *)
HandleWhenHeld == \A t \in Callers : handle[t] = 0 <=> pc[t] \in Waiting

(* Calls under way have numbers of their own, and one that may yet create  *)
(* a handle has a number no handle has.                                    *)
NumbersAlone ==
  /\ live \subseteq 1 .. begun
  /\ \A t \in Callers : pc[t] # "idle" => call[t].id \in 1 .. begun
  /\ \A t, u \in Callers : pc[t] # "idle" /\ pc[u] # "idle" /\ call[t].id = call[u].id => t = u
  /\ \A t \in Callers : pc[t] \in {"take", "make"} => call[t].id \notin live

ClientInv == ClientTypeOK /\ HandleWhenHeld /\ NumbersAlone /\ HandlesAlone /\ PostsSendTheirOwn

LEMMA InitClient == ClientInit => ClientInv
<1> SUFFICES ASSUME ClientInit PROVE ClientInv
  OBVIOUS
<1> USE CallersAssumption DEF ClientInit
<1>1. ClientTypeOK
  <2>1. call \in [Callers -> NewCall]
    BY DEF NewCall
  <2>2. opts \in [Calls -> Options]
    <3>1. Fresh("short") \in Options
      BY DEF Fresh, Options
    <3> QED
      BY <3>1
  <2>3. begun \in 0 .. MaxCalls /\ handle \in [Callers -> 0 .. MaxCalls]
    OBVIOUS
  <2>4. vectCurl \in Seq(Calls) /\ live \subseteq Calls /\ refused \subseteq Calls
    OBVIOUS
  <2>5. pc \in [Callers -> {"idle", "take", "make", "prepare", "perform", "put"}]
    OBVIOUS
  <2>6. destroyed \in BOOLEAN
    OBVIOUS
  <2> QED
    BY <2>1, <2>2, <2>3, <2>4, <2>5, <2>6 DEF ClientTypeOK
<1>2. HandleWhenHeld
  BY DEF HandleWhenHeld, Waiting
<1>3. NumbersAlone
  BY DEF NumbersAlone
<1>4. HandlesAlone
  BY DEF HandlesAlone, Holders
<1>5. PostsSendTheirOwn
  BY DEF PostsSendTheirOwn
<1> QED
  BY <1>1, <1>2, <1>3, <1>4, <1>5 DEF ClientInv

(* What the pool keeps when it hands out its last handle.                  *)
LEMMA PopFacts ==
  ASSUME vectCurl \in Seq(Calls), vectCurl # <<>>
  PROVE  /\ Len(vectCurl) \in DOMAIN vectCurl
         /\ Last(vectCurl) = vectCurl[Len(vectCurl)]
         /\ Last(vectCurl) \in Calls
         /\ Front(vectCurl) \in Seq(Calls)
         /\ DOMAIN Front(vectCurl) = 1 .. Len(vectCurl) - 1
         /\ DOMAIN vectCurl = 1 .. Len(vectCurl)
         /\ \A i \in DOMAIN Front(vectCurl) : Front(vectCurl)[i] = vectCurl[i]
BY DEF Last, Front

(* A caller that is neither idle nor waiting has a handle.                 *)
LEMMA HeldFacts ==
  ASSUME ClientTypeOK, HandleWhenHeld, NEW t \in Callers,
         pc[t] \in {"prepare", "perform", "put"}
  PROVE  handle[t] \in Calls /\ t \in Holders
<1>1. handle[t] \in 0 .. MaxCalls
  BY DEF ClientTypeOK
<1>2. handle[t] # 0
  BY DEF HandleWhenHeld, Waiting
<1> QED
  BY <1>1, <1>2, CallersAssumption DEF Calls, Holders

LEMMA TypeInv == ClientInv /\ [ClientNext]_clientVars => ClientTypeOK'
<1> SUFFICES ASSUME ClientInv, [ClientNext]_clientVars PROVE ClientTypeOK'
  OBVIOUS
<1> USE CallersAssumption DEF ClientInv, ClientTypeOK
<1>1. ASSUME NEW t \in Callers, Step(t) PROVE ClientTypeOK'
  <2>1. CASE GetCurl(t)
    <3>1. CASE vectCurl = <<>>
      BY <2>1, <3>1 DEF GetCurl, Goto
    <3>2. CASE vectCurl # <<>>
      <4>1. Last(vectCurl) \in 0 .. MaxCalls /\ Front(vectCurl) \in Seq(Calls)
        BY <3>2, PopFacts DEF Calls
      <4> QED
        BY <2>1, <3>2, <4>1 DEF GetCurl, Goto
    <3> QED
      BY <3>1, <3>2
  <2>2. CASE CreateCurl(t)
    <3>1. call[t].id \in Calls /\ call[t].link \in {"short", "long"}
      BY <2>2 DEF CreateCurl, NumbersAlone, NewCall, Calls
    <3>2. opts' \in [Calls -> Options]
      BY <2>2, <3>1 DEF CreateCurl, Fresh, Options
    <3>3. call[t].id \in 0 .. MaxCalls
      BY <3>1 DEF Calls
    <3>4. live' \subseteq Calls
      BY <2>2, <3>1 DEF CreateCurl
    <3> QED
      BY <2>2, <3>2, <3>3, <3>4 DEF CreateCurl, Goto
  <2>3. CASE CreateFails(t)
    BY <2>3 DEF CreateFails, Return, Goto
  <2>4. CASE Prepare(t)
    <3>1. handle[t] \in Calls
      BY <2>4, HeldFacts DEF Prepare
    <3>2. call[t] \in NewCall /\ opts[handle[t]] \in Options
      BY <3>1
    <3>3. Prepared(opts[handle[t]], call[t]) \in Options
      BY <3>2 DEF Prepared, Options, NewCall
    <3>4. opts' \in [Calls -> Options]
      BY <2>4, <3>1, <3>3 DEF Prepare
    <3> QED
      BY <2>4, <3>4 DEF Prepare, Goto
  <2>5. CASE ListFails(t)
    <3>1. handle[t] \in Calls
      BY <2>5, HeldFacts DEF ListFails
    <3>2. refused' \subseteq Calls
      BY <2>5, <3>1 DEF ListFails
    <3>3. pc' \in [Callers -> {"idle", "take", "make", "prepare", "perform", "put"}]
      BY <2>5 DEF ListFails, Return, Goto
    <3>4. handle' \in [Callers -> 0 .. MaxCalls]
      BY <2>5 DEF ListFails, Return
    <3> QED
      BY <2>5, <3>2, <3>3, <3>4 DEF ListFails
  <2>6. CASE Perform(t)
    BY <2>6 DEF Perform, Return, Goto
  <2>7. CASE PutCurl(t)
    <3>1. handle[t] \in Calls
      BY <2>7, HeldFacts DEF PutCurl
    <3> QED
      BY <2>7, <3>1 DEF PutCurl, Return, Goto
  <2> QED
    BY <1>1, <2>1, <2>2, <2>3, <2>4, <2>5, <2>6, <2>7 DEF Step
<1>2. ASSUME NEW t \in Callers, NEW link \in {"short", "long"}, NEW verb \in {"get", "post"},
             NEW headed \in BOOLEAN, Call(t, link, verb, headed)
      PROVE  ClientTypeOK'
  <2>1. begun' \in 0 .. MaxCalls
    BY <1>2 DEF Call
  <2>2. call' \in [Callers -> NewCall]
    BY <1>2, <2>1 DEF Call, NewCall
  <2> QED
    BY <1>2, <2>1, <2>2 DEF Call, Goto
<1>3. CASE Destroy
  BY <1>3 DEF Destroy
<1>4. CASE UNCHANGED clientVars
  BY <1>4 DEF clientVars
<1> QED
  BY <1>1, <1>2, <1>3, <1>4 DEF ClientNext

(* Where a caller is decides whether it has a handle, and the numbers of   *)
(* calls and handles stay apart.                                           *)
LEMMA NumbersInv == ClientInv /\ [ClientNext]_clientVars => HandleWhenHeld' /\ NumbersAlone'
<1> SUFFICES ASSUME ClientInv, [ClientNext]_clientVars PROVE HandleWhenHeld' /\ NumbersAlone'
  OBVIOUS
<1> USE CallersAssumption DEF ClientInv, ClientTypeOK, HandleWhenHeld, NumbersAlone, Waiting
<1>1. ASSUME NEW t \in Callers, Step(t) PROVE HandleWhenHeld' /\ NumbersAlone'
  <2>1. CASE GetCurl(t)
    <3>1. CASE vectCurl = <<>>
      BY <2>1, <3>1 DEF GetCurl, Goto
    <3>2. CASE vectCurl # <<>>
      <4>1. Last(vectCurl) # 0
        BY <3>2, PopFacts DEF Calls
      <4>2. /\ handle' = [handle EXCEPT ![t] = Last(vectCurl)]
            /\ pc' = [pc EXCEPT ![t] = "prepare"] /\ pc[t] = "take"
            /\ UNCHANGED <<begun, call, live>>
        BY <2>1, <3>2 DEF GetCurl, Goto
      <4>3. HandleWhenHeld'
        BY <4>1, <4>2
      <4>4. \A u \in Callers : pc'[u] # "idle" => pc[u] # "idle"
        BY <4>2
      <4>5. \A u \in Callers : pc'[u] \in {"take", "make"} => pc[u] \in {"take", "make"}
        BY <4>2
      <4> QED
        BY <4>2, <4>3, <4>4, <4>5
    <3> QED
      BY <3>1, <3>2
  <2>2. CASE CreateCurl(t)
    <3>1. call[t].id \in 1 .. begun /\ begun \in Nat
      BY <2>2 DEF CreateCurl
    <3>2. /\ handle' = [handle EXCEPT ![t] = call[t].id]
          /\ pc' = [pc EXCEPT ![t] = "prepare"]
          /\ pc[t] = "make" /\ live' = live \union {call[t].id} /\ UNCHANGED <<begun, call>>
      BY <2>2 DEF CreateCurl, Goto
    <3>3. HandleWhenHeld'
      BY <3>1, <3>2
    <3>4. \A u \in Callers : pc'[u] \in {"take", "make"} => call[u].id \notin live'
      BY <3>2
    <3> QED
      BY <3>1, <3>2, <3>3, <3>4
  <2>3. CASE CreateFails(t)
    BY <2>3 DEF CreateFails, Return, Goto
  <2>4. CASE Prepare(t)
    BY <2>4 DEF Prepare, Goto
  <2>5. ASSUME ListFails(t) \/ Perform(t) PROVE HandleWhenHeld' /\ NumbersAlone'
    <3>1. pc[t] \in {"prepare", "perform"} /\ live' \subseteq live /\ UNCHANGED <<begun, call>>
      BY <2>5 DEF ListFails, Perform
    <3>2. \/ pc' = [pc EXCEPT ![t] = "put"] /\ handle' = handle
          \/ pc' = [pc EXCEPT ![t] = "idle"] /\ handle' = [handle EXCEPT ![t] = 0]
      BY <2>5 DEF ListFails, Perform, Return, Goto
    <3>3. HandleWhenHeld'
      BY <3>1, <3>2
    <3>4. \A u \in Callers : pc'[u] # "idle" => pc[u] # "idle"
      BY <3>1, <3>2
    <3>5. \A u \in Callers : pc'[u] \in {"take", "make"} => pc[u] \in {"take", "make"}
      BY <3>1, <3>2
    <3> QED
      BY <3>1, <3>3, <3>4, <3>5
  <2>7. CASE PutCurl(t)
    BY <2>7 DEF PutCurl, Return, Goto
  <2> QED
    BY <1>1, <2>1, <2>2, <2>3, <2>4, <2>5, <2>7 DEF Step
<1>2. ASSUME NEW t \in Callers, NEW link \in {"short", "long"}, NEW verb \in {"get", "post"},
             NEW headed \in BOOLEAN, Call(t, link, verb, headed)
      PROVE  HandleWhenHeld' /\ NumbersAlone'
  <2>1. begun' = begun + 1 /\ begun \in Nat /\ begun' \notin live
    BY <1>2 DEF Call
  <2>2. call'[t].id = begun' /\ \A u \in Callers : u # t => call'[u] = call[u] /\ pc'[u] = pc[u]
    BY <1>2 DEF Call, Goto
  <2>3. pc[t] = "idle" /\ pc'[t] \in {"take", "make"} /\ UNCHANGED <<handle, live>>
    BY <1>2 DEF Call, Goto
  <2>4. HandleWhenHeld'
    BY <2>2, <2>3
  <2>5. \A u \in Callers : u # t /\ pc[u] # "idle" => call[u].id # begun'
    BY <2>1
  <2>6. \A u, v \in Callers :
          pc'[u] # "idle" /\ pc'[v] # "idle" /\ call'[u].id = call'[v].id => u = v
    BY <2>2, <2>3, <2>5
  <2>7. live' \subseteq 1 .. begun' /\ \A u \in Callers : pc'[u] # "idle" => call'[u].id \in 1 .. begun'
    <3>1. 1 .. begun \subseteq 1 .. begun' /\ begun' \in 1 .. begun'
      BY <2>1
    <3> QED
      BY <3>1, <2>2, <2>3
  <2>8. \A u \in Callers : pc'[u] \in {"take", "make"} => call'[u].id \notin live'
    BY <2>1, <2>2, <2>3
  <2> QED
    BY <2>4, <2>6, <2>7, <2>8
<1>3. CASE Destroy
  BY <1>3 DEF Destroy
<1>4. CASE UNCHANGED clientVars
  BY <1>4 DEF clientVars
<1> QED
  BY <1>1, <1>2, <1>3, <1>4 DEF ClientNext

(* A handle changes hands only through the pool.                           *)
LEMMA HandlesInv == ClientInv /\ [ClientNext]_clientVars => HandlesAlone'
<1> SUFFICES ASSUME ClientInv, [ClientNext]_clientVars PROVE HandlesAlone'
  OBVIOUS
<1> USE CallersAssumption DEF ClientInv, ClientTypeOK, HandlesAlone, Holders
<1>1. ASSUME NEW t \in Callers, Step(t) PROVE HandlesAlone'
  <2>1. CASE GetCurl(t)
    <3>1. CASE vectCurl = <<>>
      BY <2>1, <3>1 DEF GetCurl, Goto
    <3>2. CASE vectCurl # <<>>
      <4>1. handle' = [handle EXCEPT ![t] = vectCurl[Len(vectCurl)]] /\ UNCHANGED live
        BY <2>1, <3>2, PopFacts DEF GetCurl
      <4>2. vectCurl' = Front(vectCurl) /\ Len(vectCurl) \in Nat
        BY <2>1, <3>2 DEF GetCurl
      <4>3. \A i \in DOMAIN vectCurl' : i \in DOMAIN vectCurl /\ vectCurl'[i] = vectCurl[i]
                                        /\ i # Len(vectCurl)
        BY <3>2, <4>2, PopFacts
      <4>4. Len(vectCurl) \in DOMAIN vectCurl /\ vectCurl[Len(vectCurl)] # 0
        BY <3>2, PopFacts DEF Calls
      <4>5. \A u \in Callers : u # t => handle'[u] = handle[u]
        BY <4>1
      <4>6. handle'[t] = vectCurl[Len(vectCurl)]
        BY <4>1
      <4>7. \A u, v \in Holders' : handle'[u] = handle'[v] => u = v
        BY <4>4, <4>5, <4>6
      <4>8. \A u \in Holders' : \A i \in DOMAIN vectCurl' : vectCurl'[i] # handle'[u]
        BY <4>3, <4>4, <4>5, <4>6
      <4>9. \A u \in Holders' : handle'[u] \in live'
        BY <4>1, <4>4, <4>5, <4>6
      <4>10. /\ \A i, j \in DOMAIN vectCurl' : vectCurl'[i] = vectCurl'[j] => i = j
             /\ \A i \in DOMAIN vectCurl' : vectCurl'[i] \in live'
        BY <4>1, <4>3
      <4> QED
        BY <4>7, <4>8, <4>9, <4>10
    <3> QED
      BY <3>1, <3>2
  <2>2. CASE CreateCurl(t)
    <3>1. call[t].id \notin live
      BY <2>2 DEF CreateCurl, NumbersAlone
    <3> QED
      BY <2>2, <3>1 DEF CreateCurl
  <2>3. CASE CreateFails(t)
    BY <2>3 DEF CreateFails, Return
  <2>4. CASE Prepare(t)
    BY <2>4 DEF Prepare
  <2>5. CASE ListFails(t)
    BY <2>5 DEF ListFails, Return
  <2>6. CASE Perform(t)
    <3>1. handle[t] # 0
      BY <2>6 DEF Perform, HandleWhenHeld, Waiting
    <3>2. CASE call[t].link = "long"
      BY <2>6, <3>2 DEF Perform
    <3>3. CASE call[t].link # "long"
      BY <2>6, <3>1, <3>3 DEF Perform, Return
    <3> QED
      BY <3>2, <3>3
  <2>7. CASE PutCurl(t)
    <3>1. handle[t] \in Calls
      BY <2>7 DEF PutCurl, HandleWhenHeld, Waiting, Calls
    <3>2. vectCurl' = Append(vectCurl, handle[t]) /\ UNCHANGED live
      BY <2>7 DEF PutCurl
    <3>3. \A i \in DOMAIN vectCurl' :
            \/ i \in DOMAIN vectCurl /\ vectCurl'[i] = vectCurl[i]
            \/ i = Len(vectCurl) + 1 /\ vectCurl'[i] = handle[t]
      BY <3>1, <3>2
    <3>4. handle' = [handle EXCEPT ![t] = 0]
      BY <2>7 DEF PutCurl, Return
    <3>5. handle[t] \in live /\ t \in Holders
      BY <3>1 DEF Calls
    <3> QED
      BY <3>1, <3>2, <3>3, <3>4, <3>5
  <2> QED
    BY <1>1, <2>1, <2>2, <2>3, <2>4, <2>5, <2>6, <2>7 DEF Step
<1>2. ASSUME NEW t \in Callers, NEW link \in {"short", "long"}, NEW verb \in {"get", "post"},
             NEW headed \in BOOLEAN, Call(t, link, verb, headed)
      PROVE  HandlesAlone'
  BY <1>2 DEF Call
<1>3. CASE Destroy
  BY <1>3 DEF Destroy, HandleWhenHeld, Waiting
<1>4. CASE UNCHANGED clientVars
  BY <1>4 DEF clientVars
<1> QED
  BY <1>1, <1>2, <1>3, <1>4 DEF ClientNext

(* The options of a handle change only when the caller that has it sets    *)
(* them or when the handle is new.                                         *)
LEMMA PostsInv == ClientInv /\ [ClientNext]_clientVars => PostsSendTheirOwn'
<1> SUFFICES ASSUME ClientInv, [ClientNext]_clientVars PROVE PostsSendTheirOwn'
  OBVIOUS
<1> USE CallersAssumption DEF ClientInv, ClientTypeOK
<1>1. ASSUME NEW t \in Callers, Step(t) PROVE PostsSendTheirOwn'
  <2>1. \A u \in Callers : pc'[u] = "perform" => handle[u] # 0 \/ u = t
    BY <1>1 DEF Step, GetCurl, CreateCurl, CreateFails, Prepare, ListFails, Perform, PutCurl,
       Return, Goto, HandleWhenHeld, Waiting
  <2>2. CASE GetCurl(t)
    BY <2>2 DEF GetCurl, Goto, PostsSendTheirOwn
  <2>3. CASE CreateCurl(t)
    <3>1. call[t].id \notin live
      BY <2>3 DEF CreateCurl, NumbersAlone
    <3>2. \A u \in Callers : pc[u] = "perform" => handle[u] \in live
      BY DEF HandleWhenHeld, Waiting, HandlesAlone, Holders
    <3>3. \A u \in Callers : pc'[u] = "perform" => pc[u] = "perform" /\ u # t
      BY <2>3 DEF CreateCurl, Goto
    <3>4. \A u \in Callers : u # t => handle'[u] = handle[u]
      BY <2>3 DEF CreateCurl
    <3>5. \A u \in Callers : pc'[u] = "perform" => opts'[handle'[u]] = opts[handle[u]]
      BY <2>3, <3>1, <3>2, <3>3, <3>4 DEF CreateCurl, Calls
    <3>6. UNCHANGED call
      BY <2>3 DEF CreateCurl
    <3> QED
      BY <3>3, <3>5, <3>6 DEF PostsSendTheirOwn
  <2>4. CASE CreateFails(t)
    BY <2>4 DEF CreateFails, Return, Goto, PostsSendTheirOwn
  <2>5. CASE Prepare(t)
    <3>1. handle[t] \in Calls /\ t \in Holders
      BY <2>5 DEF Prepare, HandleWhenHeld, Waiting, Calls, Holders
    <3>2. opts'[handle[t]] = Prepared(opts[handle[t]], call[t]) /\ UNCHANGED <<call, handle>>
      BY <2>5, <3>1 DEF Prepare
    <3>3. opts[handle[t]] \in Options
      BY <3>1
    <3>4. /\ opts'[handle[t]].out = call[t].id
          /\ call[t].verb = "post" =>
               /\ opts'[handle[t]].post
               /\ opts'[handle[t]].body = call[t].id
               /\ opts'[handle[t]].list = call[t].id
      BY <3>2, <3>3 DEF Prepared, SetsList, Options
    <3>5. \A u \in Callers : u # t /\ pc'[u] = "perform" =>
            pc[u] = "perform" /\ opts'[handle[u]] = opts[handle[u]]
      BY <2>5, <3>1 DEF Prepare, Goto, HandlesAlone, Holders, HandleWhenHeld, Waiting
    <3> QED
      BY <3>2, <3>4, <3>5 DEF PostsSendTheirOwn
  <2>6. CASE ListFails(t)
    BY <2>6 DEF ListFails, Return, Goto, PostsSendTheirOwn
  <2>7. CASE Perform(t)
    BY <2>7 DEF Perform, Return, Goto, PostsSendTheirOwn
  <2>8. CASE PutCurl(t)
    BY <2>8 DEF PutCurl, Return, Goto, PostsSendTheirOwn
  <2> QED
    BY <1>1, <2>2, <2>3, <2>4, <2>5, <2>6, <2>7, <2>8 DEF Step
<1>2. ASSUME NEW t \in Callers, NEW link \in {"short", "long"}, NEW verb \in {"get", "post"},
             NEW headed \in BOOLEAN, Call(t, link, verb, headed)
      PROVE  PostsSendTheirOwn'
  BY <1>2 DEF Call, Goto, PostsSendTheirOwn
<1>3. CASE Destroy
  BY <1>3 DEF Destroy, PostsSendTheirOwn
<1>4. CASE UNCHANGED clientVars
  BY <1>4 DEF clientVars, PostsSendTheirOwn
<1> QED
  BY <1>1, <1>2, <1>3, <1>4 DEF ClientNext

(* The invariant holds: types, numbers, handles and what a Post sends are  *)
(* kept together, for each needs the others.                               *)
THEOREM Inductive == ClientSpec => []ClientInv
<1>1. ClientInv /\ [ClientNext]_clientVars => ClientInv'
  BY TypeInv, NumbersInv, HandlesInv, PostsInv DEF ClientInv
<1> QED
  BY InitClient, <1>1, PTL DEF ClientSpec

(* The client's state has its type, for any number of calls.               *)
THEOREM ClientTypeCorrect == ClientSpec => []ClientTypeOK
<1>1. ClientInv => ClientTypeOK
  BY DEF ClientInv
<1> QED
  BY Inductive, <1>1, PTL

(* No curl handle is ever used by two threads, or by one while the pool    *)
(* offers it: GetCurl and PutCurl are enough of a lock, although handles   *)
(* are created and used outside it.                                        *)
THEOREM HandlesAreNotShared == ClientSpec => []HandlesAlone
<1>1. ClientInv => HandlesAlone
  BY DEF ClientInv
<1> QED
  BY Inductive, <1>1, PTL

(* A Post sends its own body and headers and fills its own response,       *)
(* whatever a handle of the pool remembers of other calls.                 *)
THEOREM PostsAreTheirOwn == ClientSpec => []PostsSendTheirOwn
<1>1. ClientInv => PostsSendTheirOwn
  BY DEF ClientInv
<1> QED
  BY Inductive, <1>1, PTL

(* No two calls meet in a handle, nor in what they send and receive by it. *)
THEOREM HandlesAreSound == ClientSpec => []HandlesSound
<1>1. ClientInv => HandlesSound
  BY DEF ClientInv, HandlesSound
<1> QED
  BY Inductive, <1>1, PTL

-----------------------------------------------------------------------------
(* What the pool keeps                                                     *)

InPool(h) == \E i \in DOMAIN vectCurl : vectCurl[i] = h

(* A handle serves one kind of link for life; only those of long links     *)
(* come to the pool, and the destructor empties it for good.               *)
LinksAgree ==
  /\ \A t \in Callers : pc[t] \in {"take", "put"} => call[t].link = "long"
  /\ \A t \in Holders : opts[handle[t]].link = call[t].link
  /\ \A i \in DOMAIN vectCurl : opts[vectCurl[i]].link = "long"
  /\ destroyed => vectCurl = <<>> /\ \A t \in Callers : pc[t] = "idle"

(* A handle that was refused is never used again, nor cleaned up.          *)
RefusedApart ==
  \A h \in refused : /\ h \in live /\ opts[h].link = "short"
                     /\ \A t \in Callers : handle[t] # h

(* Whoever created a handle, it is pooled, held or was refused.            *)
LiveAre == \A h \in live : h \in refused \/ InPool(h) \/ \E t \in Callers : handle[t] = h

(* A caller that found the pool empty will add a handle.                   *)
LongLive == {h \in live : opts[h].link = "long"}
Makers == {t \in Callers : pc[t] = "make" /\ call[t].link = "long"}
RoomInv == Cardinality(LongLive) + Cardinality(Makers) <= Cardinality(Callers)

(* Only a Post sets a body, with a list of the same call; what is left of  *)
(* one belongs to no call under way but the Post that is on the handle.    *)
TracesInv ==
  /\ \A h \in live :
       /\ opts[h].body <= begun
       /\ opts[h].post => opts[h].body = opts[h].list
       /\ ~opts[h].post => opts[h].body = 0 /\ (opts[h].link = "long" => opts[h].list = 0)
  /\ \A t \in Callers : pc[t] = "prepare" /\ call[t].link = "short" =>
       ~opts[handle[t]].post /\ opts[handle[t]].list = 0
  /\ \A t \in Callers, h \in live :
       pc[t] # "idle" /\ opts[h].post /\ opts[h].body = call[t].id
         => call[t].verb = "post" /\ handle[t] = h /\ pc[t] # "prepare"

PoolInv == LinksAgree /\ RefusedApart /\ LiveAre /\ RoomInv /\ TracesInv /\ OnlyPostsLeaveTraces

LEMMA PoolInit == ClientInit => PoolInv
<1> SUFFICES ASSUME ClientInit PROVE PoolInv
  OBVIOUS
<1> USE CallersAssumption DEF ClientInit
<1>1. LinksAgree
  BY DEF LinksAgree, Holders
<1>2. LiveAre /\ RefusedApart
  BY DEF LiveAre, RefusedApart
<1>3. RoomInv
  <2>1. LongLive = {} /\ Makers = {}
    BY DEF LongLive, Makers
  <2> QED
    BY <2>1, FS_EmptySet, FS_CardinalityType DEF RoomInv
<1>4. TracesInv
  BY DEF TracesInv
<1>5. OnlyPostsLeaveTraces
  BY DEF OnlyPostsLeaveTraces
<1> QED
  BY <1>1, <1>2, <1>3, <1>4, <1>5 DEF PoolInv

(* What a step does to the options: those of one handle may change, which  *)
(* the caller holds, or which is new.                                      *)
LEMMA OptionSteps ==
  ASSUME ClientInv, NEW t \in Callers, Step(t)
  PROVE  /\ \A u \in Callers : u # t => handle'[u] = handle[u] /\ pc'[u] = pc[u]
         /\ UNCHANGED <<call, begun, destroyed>>
         /\ pc[t] # "idle" /\ call[t] \in NewCall /\ call[t].id \in Calls
         /\ \/ UNCHANGED opts
            \/ CreateCurl(t) /\ opts'[call[t].id] = Fresh(call[t].link)
               /\ \A h \in live : opts'[h] = opts[h]
            \/ Prepare(t) /\ handle[t] \in live
               /\ opts'[handle[t]] = Prepared(opts[handle[t]], call[t])
               /\ \A h \in live : h # handle[t] => opts'[h] = opts[h]
<1> USE CallersAssumption DEF ClientInv, ClientTypeOK
<1>1. /\ \A u \in Callers : u # t => handle'[u] = handle[u] /\ pc'[u] = pc[u]
      /\ UNCHANGED <<call, begun, destroyed>>
      /\ pc[t] # "idle"
  BY DEF Step, GetCurl, CreateCurl, CreateFails, Prepare, ListFails, Perform, PutCurl, Return, Goto
<1>2. call[t] \in NewCall /\ call[t].id \in Calls
  BY <1>1 DEF NumbersAlone, Calls
<1>3. CASE CreateCurl(t)
  BY <1>1, <1>2, <1>3 DEF CreateCurl, NumbersAlone
<1>4. CASE Prepare(t)
  <2>1. t \in Holders /\ handle[t] \in Calls
    BY <1>4, HeldFacts DEF Prepare
  <2> QED
    BY <1>1, <1>2, <1>4, <2>1 DEF Prepare, HandlesAlone
<1>5. CASE GetCurl(t) \/ CreateFails(t) \/ ListFails(t) \/ Perform(t) \/ PutCurl(t)
  BY <1>1, <1>2, <1>5 DEF GetCurl, CreateFails, ListFails, Perform, PutCurl
<1> QED
  BY <1>3, <1>4, <1>5 DEF Step

LEMMA LinksInv ==
  ClientInv /\ LinksAgree /\ [ClientNext]_clientVars => LinksAgree'
<1> SUFFICES ASSUME ClientInv, LinksAgree, [ClientNext]_clientVars PROVE LinksAgree'
  OBVIOUS
<1> USE CallersAssumption DEF ClientInv, ClientTypeOK, LinksAgree, Holders
<1>1. ASSUME NEW t \in Callers, Step(t) PROVE LinksAgree'
  <2>0. ~destroyed /\ UNCHANGED destroyed
    BY <1>1, OptionSteps
  <2>1. CASE GetCurl(t)
    <3>1. CASE vectCurl = <<>>
      BY <2>0, <2>1, <3>1 DEF GetCurl, Goto
    <3>2. CASE vectCurl # <<>>
      <4>1. /\ Last(vectCurl) = vectCurl[Len(vectCurl)] /\ Len(vectCurl) \in DOMAIN vectCurl
            /\ \A i \in DOMAIN Front(vectCurl) :
                 i \in DOMAIN vectCurl /\ Front(vectCurl)[i] = vectCurl[i]
        BY <3>2, PopFacts
      <4>2. opts[Last(vectCurl)].link = "long"
        BY <4>1
      <4> QED
        BY <2>0, <2>1, <3>2, <4>1, <4>2 DEF GetCurl, Goto
    <3> QED
      BY <3>1, <3>2
  <2>2. CASE CreateCurl(t)
    <3>1. /\ handle' = [handle EXCEPT ![t] = call[t].id] /\ pc' = [pc EXCEPT ![t] = "prepare"]
          /\ UNCHANGED <<call, vectCurl, refused>>
      BY <2>2 DEF CreateCurl, Goto
    <3>2. opts' = [opts EXCEPT ![call[t].id] = Fresh(call[t].link)] /\ call[t].id \in Calls
      BY <1>1, <2>2, OptionSteps DEF CreateCurl
    <3>3. opts'[call[t].id].link = call[t].link
      BY <3>2 DEF Fresh
    <3>4. call[t].id \notin live
      BY <2>2 DEF CreateCurl, NumbersAlone
    <3>5. \A h \in live : opts'[h] = opts[h]
      BY <3>2, <3>4
    <3>6. /\ \A u \in Holders : handle[u] \in live
          /\ \A i \in DOMAIN vectCurl : vectCurl[i] \in live
      BY DEF HandlesAlone
    <3> QED
      BY <2>0, <3>1, <3>3, <3>5, <3>6
  <2>3. CASE CreateFails(t)
    BY <2>0, <2>3 DEF CreateFails, Return, Goto
  <2>4. CASE Prepare(t)
    <3>1. \A h \in Calls : opts'[h].link = opts[h].link
      <4>1. handle[t] \in Calls
        BY <2>4, HeldFacts DEF Prepare
      <4>2. opts[handle[t]] \in Options /\ opts' = [opts EXCEPT ![handle[t]] = Prepared(opts[handle[t]], call[t])]
        BY <2>4, <4>1 DEF Prepare
      <4>3. Prepared(opts[handle[t]], call[t]).link = opts[handle[t]].link
        BY <4>2 DEF Prepared, Options
      <4> QED
        BY <4>1, <4>2, <4>3
    <3>2. /\ \A u \in Holders : handle[u] \in Calls
          /\ \A i \in DOMAIN vectCurl : vectCurl[i] \in Calls
      BY DEF Calls
    <3> QED
      BY <2>0, <2>4, <3>1, <3>2 DEF Prepare, Goto
  <2>5. CASE ListFails(t)
    <3>1. handle[t] \in Calls /\ t \in Holders
      BY <2>5, HeldFacts DEF ListFails, Holders
    <3>2. call[t].link \in {"short", "long"}
      BY DEF NewCall
    <3>3. CASE call[t].link = "long"
      BY <2>0, <2>5, <3>3 DEF ListFails, Goto
    <3>4. CASE call[t].link = "short"
      <4>1. /\ handle' = [handle EXCEPT ![t] = 0] /\ pc' = [pc EXCEPT ![t] = "idle"]
            /\ UNCHANGED <<call, opts, vectCurl>>
        BY <2>5, <3>4 DEF ListFails, Return, Goto
      <4> QED
        BY <2>0, <4>1
    <3> QED
      BY <3>2, <3>3, <3>4
  <2>6. CASE Perform(t)
    <3>1. CASE call[t].link = "long"
      BY <2>0, <2>6, <3>1 DEF Perform, Goto
    <3>2. CASE call[t].link # "long"
      <4>1. /\ handle' = [handle EXCEPT ![t] = 0] /\ pc' = [pc EXCEPT ![t] = "idle"]
            /\ UNCHANGED <<call, opts, vectCurl>>
        BY <2>6, <3>2 DEF Perform, Return, Goto
      <4> QED
        BY <2>0, <4>1
    <3> QED
      BY <3>1, <3>2
  <2>7. CASE PutCurl(t)
    <3>1. handle[t] \in Calls /\ t \in Holders
      BY <2>7, HeldFacts DEF PutCurl, Holders
    <3>2. opts[handle[t]].link = "long"
      BY <2>7, <3>1 DEF PutCurl
    <3>3. \A i \in DOMAIN vectCurl' :
            (i \in DOMAIN vectCurl /\ vectCurl'[i] = vectCurl[i]) \/ vectCurl'[i] = handle[t]
      BY <2>7, <3>1 DEF PutCurl
    <3> QED
      BY <2>0, <2>7, <3>2, <3>3 DEF PutCurl, Return, Goto
  <2> QED
    BY <1>1, <2>1, <2>2, <2>3, <2>4, <2>5, <2>6, <2>7 DEF Step
<1>2. ASSUME NEW t \in Callers, NEW link \in {"short", "long"}, NEW verb \in {"get", "post"},
             NEW headed \in BOOLEAN, Call(t, link, verb, headed)
      PROVE  LinksAgree'
  <2>1. handle[t] = 0
    BY <1>2 DEF Call, HandleWhenHeld, Waiting
  <2>2. \A u \in Callers : u # t => call'[u] = call[u] /\ pc'[u] = pc[u]
    BY <1>2 DEF Call, Goto
  <2>3. call'[t].link = link /\ pc'[t] = IF link = "long" THEN "take" ELSE "make"
    BY <1>2 DEF Call, Goto
  <2> QED
    BY <1>2, <2>1, <2>2, <2>3 DEF Call
<1>3. CASE Destroy
  BY <1>3 DEF Destroy
<1>4. CASE UNCHANGED clientVars
  BY <1>4 DEF clientVars
<1> QED
  BY <1>1, <1>2, <1>3, <1>4 DEF ClientNext

LEMMA LiveInv == ClientInv /\ LiveAre /\ [ClientNext]_clientVars => LiveAre'
<1> SUFFICES ASSUME ClientInv, LiveAre, [ClientNext]_clientVars PROVE LiveAre'
  OBVIOUS
<1> USE CallersAssumption DEF ClientInv, ClientTypeOK, LiveAre, InPool
<1>1. ASSUME NEW t \in Callers, Step(t) PROVE LiveAre'
  <2>1. CASE GetCurl(t)
    <3>1. CASE vectCurl = <<>>
      BY <2>1, <3>1 DEF GetCurl, Goto
    <3>2. CASE vectCurl # <<>>
      <4>1. handle' = [handle EXCEPT ![t] = Last(vectCurl)] /\ vectCurl' = Front(vectCurl)
            /\ UNCHANGED <<live, refused>> /\ handle[t] = 0
        BY <2>1, <3>2 DEF GetCurl, HandleWhenHeld, Waiting
      <4>2. \A i \in DOMAIN vectCurl :
              vectCurl[i] = Last(vectCurl) \/ (i \in DOMAIN Front(vectCurl) /\ Front(vectCurl)[i] = vectCurl[i])
        BY <3>2, PopFacts
      <4>3. \A h \in live : h # 0
        BY DEF Calls
      <4> QED
        BY <4>1, <4>2, <4>3
    <3> QED
      BY <3>1, <3>2
  <2>2. CASE CreateCurl(t)
    <3>1. handle[t] = 0 /\ \A h \in live : h # 0
      BY <2>2 DEF CreateCurl, HandleWhenHeld, Waiting, Calls
    <3> QED
      BY <2>2, <3>1 DEF CreateCurl
  <2>3. CASE CreateFails(t)
    <3>1. handle[t] = 0 /\ \A h \in live : h # 0
      BY <2>3 DEF CreateFails, HandleWhenHeld, Waiting, Calls
    <3> QED
      BY <2>3, <3>1 DEF CreateFails, Return
  <2>4. CASE Prepare(t)
    BY <2>4 DEF Prepare
  <2>5. CASE ListFails(t)
    BY <2>5 DEF ListFails, Return
  <2>6. CASE Perform(t)
    BY <2>6 DEF Perform, Return
  <2>7. CASE PutCurl(t)
    <3>1. /\ handle' = [handle EXCEPT ![t] = 0] /\ vectCurl' = Append(vectCurl, handle[t])
          /\ UNCHANGED <<live, refused>> /\ handle[t] \in Calls
      BY <2>7, HeldFacts DEF PutCurl, Return
    <3>2. \A i \in DOMAIN vectCurl : i \in DOMAIN vectCurl' /\ vectCurl'[i] = vectCurl[i]
      BY <3>1
    <3>3. Len(vectCurl) + 1 \in DOMAIN vectCurl' /\ vectCurl'[Len(vectCurl) + 1] = handle[t]
      BY <3>1
    <3> QED
      BY <3>1, <3>2, <3>3
  <2> QED
    BY <1>1, <2>1, <2>2, <2>3, <2>4, <2>5, <2>6, <2>7 DEF Step
<1>2. ASSUME NEW t \in Callers, NEW link \in {"short", "long"}, NEW verb \in {"get", "post"},
             NEW headed \in BOOLEAN, Call(t, link, verb, headed)
      PROVE  LiveAre'
  BY <1>2 DEF Call
<1>3. CASE Destroy
  BY <1>3 DEF Destroy
<1>4. CASE UNCHANGED clientVars
  BY <1>4 DEF clientVars
<1> QED
  BY <1>1, <1>2, <1>3, <1>4 DEF ClientNext

LEMMA RefusedInv ==
  ClientInv /\ LinksAgree /\ RefusedApart /\ [ClientNext]_clientVars => RefusedApart'
<1> SUFFICES ASSUME ClientInv, LinksAgree, RefusedApart, [ClientNext]_clientVars PROVE RefusedApart'
  OBVIOUS
<1> USE CallersAssumption DEF ClientInv, ClientTypeOK, RefusedApart
<1>1. ASSUME NEW t \in Callers, Step(t) PROVE RefusedApart'
  <2>0. \A h \in live : opts'[h].link = opts[h].link
    <3>1. \A h \in live : opts[h] \in Options
      OBVIOUS
    <3>2. CASE CreateCurl(t)
      BY <3>2 DEF CreateCurl, NumbersAlone
    <3>3. CASE Prepare(t)
      <4>1. \A o, c : o \in Options => Prepared(o, c).link = o.link
        BY DEF Prepared, Options
      <4> QED
        BY <1>1, <3>1, <3>3, <4>1, OptionSteps DEF CreateCurl, Prepare
    <3> QED
      BY <1>1, <3>2, <3>3, OptionSteps
  <2>1. CASE GetCurl(t)
    <3>1. CASE vectCurl = <<>>
      BY <2>1, <3>1 DEF GetCurl
    <3>2. CASE vectCurl # <<>>
      <4>1. Last(vectCurl) \notin refused
        BY <3>2, PopFacts DEF LinksAgree
      <4> QED
        BY <2>1, <3>2, <4>1 DEF GetCurl
    <3> QED
      BY <3>1, <3>2
  <2>2. CASE CreateCurl(t)
    <3>1. call[t].id \notin refused
      BY <2>2 DEF CreateCurl, NumbersAlone
    <3> QED
      BY <2>0, <2>2, <3>1 DEF CreateCurl
  <2>3. CASE CreateFails(t)
    BY <2>0, <2>3 DEF CreateFails, Return, Calls
  <2>4. CASE Prepare(t)
    BY <2>0, <2>4 DEF Prepare
  <2>5. CASE ListFails(t)
    <3>1. handle[t] \in Calls /\ t \in Holders
      BY <2>5, HeldFacts DEF ListFails
    <3>2. CASE call[t].link = "long"
      BY <2>5, <3>2 DEF ListFails
    <3>3. CASE call[t].link # "long"
      <4>1. opts[handle[t]].link = "short" /\ handle[t] \in live
        BY <3>1, <3>3 DEF LinksAgree, HandlesAlone, NewCall
      <4>2. \A u \in Callers : handle'[u] # handle[t]
        BY <2>5, <3>1, <3>3 DEF ListFails, Return, HandlesAlone, Holders, Calls
      <4>3. \A u \in Callers : handle'[u] = handle[u] \/ handle'[u] = 0
        BY <2>5, <3>3 DEF ListFails, Return
      <4>4. refused' = refused \cup {handle[t]} /\ UNCHANGED <<live, opts>>
        BY <2>5, <3>3 DEF ListFails
      <4>5. \A h \in refused : h # 0
        BY DEF Calls
      <4> QED
        BY <4>1, <4>2, <4>3, <4>4, <4>5
    <3> QED
      BY <3>2, <3>3
  <2>6. CASE Perform(t)
    <3>1. handle[t] \notin refused
      BY <2>6 DEF Perform
    <3>2. \A u \in Callers : handle'[u] = handle[u] \/ handle'[u] = 0
      BY <2>6 DEF Perform, Return
    <3> QED
      BY <2>6, <3>1, <3>2 DEF Perform, Calls
  <2>7. CASE PutCurl(t)
    <3>1. \A u \in Callers : handle'[u] = handle[u] \/ handle'[u] = 0
      BY <2>7 DEF PutCurl, Return
    <3> QED
      BY <2>7, <3>1 DEF PutCurl, Calls
  <2> QED
    BY <1>1, <2>1, <2>2, <2>3, <2>4, <2>5, <2>6, <2>7 DEF Step
<1>2. ASSUME NEW t \in Callers, NEW link \in {"short", "long"}, NEW verb \in {"get", "post"},
             NEW headed \in BOOLEAN, Call(t, link, verb, headed)
      PROVE  RefusedApart'
  BY <1>2 DEF Call
<1>3. CASE Destroy
  <2>1. ASSUME NEW h \in refused PROVE h \in live'
    <3>1. h \in live /\ opts[h].link = "short"
      OBVIOUS
    <3>2. \A i \in DOMAIN vectCurl : vectCurl[i] # h
      BY <3>1 DEF LinksAgree
    <3> QED
      BY <1>3, <3>1, <3>2 DEF Destroy
  <2> QED
    BY <1>3, <2>1 DEF Destroy
<1>4. CASE UNCHANGED clientVars
  BY <1>4 DEF clientVars
<1> QED
  BY <1>1, <1>2, <1>3, <1>4 DEF ClientNext

LEMMA Parts ==
  ASSUME NEW S, IsFiniteSet(S), NEW T, T \subseteq S
  PROVE  Cardinality(S \ T) + Cardinality(T) = Cardinality(S)
<1>1. IsFiniteSet(S \ T) /\ IsFiniteSet(T)
  BY FS_Subset
<1>2. Cardinality((S \ T) \cup T) = Cardinality(S \ T) + Cardinality(T) - Cardinality((S \ T) \cap T)
  BY <1>1, FS_Union
<1>3. Cardinality((S \ T) \cap T) = 0
  <2>1. (S \ T) \cap T = {}
    OBVIOUS
  <2> QED
    BY <2>1, FS_EmptySet, Zenon
<1>4. Cardinality((S \ T) \cup T) = Cardinality(S)
  <2>1. (S \ T) \cup T = S
    OBVIOUS
  <2> QED
    BY <2>1, Zenon
<1>5. Cardinality(S \ T) \in Nat /\ Cardinality(T) \in Nat
  BY <1>1, FS_CardinalityType
<1> QED
  BY <1>2, <1>3, <1>4, <1>5

(* Nobody but a caller that has just found the pool empty may still add a  *)
(* handle, and then all the others are in the hands of other callers.      *)
LEMMA RoomFacts ==
  ASSUME ClientTypeOK
  PROVE  /\ IsFiniteSet(LongLive) /\ Cardinality(LongLive) \in Nat
         /\ IsFiniteSet(Makers) /\ Cardinality(Makers) \in Nat
         /\ Cardinality(Callers) \in Nat
<1> USE CallersAssumption DEF ClientTypeOK
<1>1. IsFiniteSet(Calls)
  BY FS_Interval DEF Calls
<1>2. LongLive \subseteq Calls /\ Makers \subseteq Callers
  BY DEF LongLive, Makers
<1> QED
  BY <1>1, <1>2, FS_Subset, FS_CardinalityType

LEMMA RoomLeft ==
  ASSUME ClientInv, LinksAgree, RefusedApart, LiveAre, vectCurl = <<>>,
         NEW t \in Callers, pc[t] = "take"
  PROVE  Cardinality(LongLive) + Cardinality(Makers) + 1 <= Cardinality(Callers)
<1> USE CallersAssumption
<1>1. ClientTypeOK
  BY DEF ClientInv
<1> DEFINE M == Makers \cup {t}
           F == Callers \ M
           f == [h \in LongLive |-> CHOOSE u \in F : handle[u] = h]
<1>2. t \notin Makers
  BY DEF Makers
<1>3. IsFiniteSet(M) /\ Cardinality(M) = Cardinality(Makers) + 1
  BY <1>1, <1>2, RoomFacts, FS_AddElement
<1>4. IsFiniteSet(F)
  BY FS_Subset
<1>5. Cardinality(F) + Cardinality(M) = Cardinality(Callers)
  BY Parts DEF Makers
<1>6. ASSUME NEW h \in LongLive PROVE \E u \in F : handle[u] = h
  <2>1. h \in live /\ h \notin refused /\ h # 0
    BY <1>1 DEF LongLive, RefusedApart, ClientTypeOK, Calls
  <2>2. PICK u \in Callers : handle[u] = h
    BY <2>1 DEF LiveAre, InPool
  <2>3. u \notin M
    BY <2>1, <2>2 DEF ClientInv, HandleWhenHeld, Waiting, Makers
  <2> QED
    BY <2>2, <2>3
<1>7. \A h \in LongLive : f[h] \in F /\ handle[f[h]] = h
  BY <1>6
<1>8. f \in Injection(LongLive, F)
  <2>1. f \in [LongLive -> F]
    BY <1>7
  <2>2. \A g, h \in LongLive : f[g] = f[h] => g = h
    BY <1>7
  <2> HIDE DEF f, F
  <2> QED
    BY <2>1, <2>2 DEF Injection, IsInjective
<1>9. Cardinality(LongLive) <= Cardinality(F)
  <2> HIDE DEF f, F
  <2> QED
    BY <1>4, <1>8, FS_Injection
<1>10. Cardinality(F) \in Nat
  BY <1>4, FS_CardinalityType
<1> QED
  BY <1>1, <1>3, <1>5, <1>9, <1>10, RoomFacts

(* A step that adds neither a long handle nor a caller about to make one   *)
(* keeps the room.                                                          *)
LEMMA RoomKept ==
  ASSUME ClientTypeOK, RoomInv, LongLive' \subseteq LongLive, Makers' \subseteq Makers
  PROVE  RoomInv'
<1>1. /\ Cardinality(LongLive') <= Cardinality(LongLive)
      /\ Cardinality(Makers') <= Cardinality(Makers)
      /\ Cardinality(LongLive') \in Nat /\ Cardinality(Makers') \in Nat
  BY RoomFacts, FS_Subset, FS_CardinalityType
<1> QED
  BY <1>1, RoomFacts DEF RoomInv

LEMMA RoomNext ==
  ASSUME ClientInv, LinksAgree, RefusedApart, LiveAre, RoomInv, [ClientNext]_clientVars
  PROVE  RoomInv'
<1> USE CallersAssumption DEF ClientInv, ClientTypeOK
<1>1. ASSUME NEW t \in Callers, Step(t) PROVE RoomInv'
  <2>1. CASE GetCurl(t)
    <3>1. CASE vectCurl = <<>>
      <4>1. LongLive' = LongLive
        BY <2>1, <3>1 DEF GetCurl, LongLive
      <4>2. Makers' = Makers \cup {t} /\ t \notin Makers
        BY <2>1, <3>1 DEF GetCurl, Goto, Makers, LinksAgree
      <4>3. Cardinality(Makers') = Cardinality(Makers) + 1
        BY <4>2, RoomFacts, FS_AddElement
      <4>4. Cardinality(LongLive) + Cardinality(Makers) + 1 <= Cardinality(Callers)
        BY <2>1, <3>1, RoomLeft DEF GetCurl
      <4> QED
        BY <4>1, <4>3, <4>4, RoomFacts DEF RoomInv
    <3>2. CASE vectCurl # <<>>
      BY <2>1, <3>2, RoomKept DEF GetCurl, Goto, LongLive, Makers
    <3> QED
      BY <3>1, <3>2
  <2>2. CASE CreateCurl(t)
    <3>1. /\ live' = live \cup {call[t].id} /\ pc' = [pc EXCEPT ![t] = "prepare"]
          /\ call' = call /\ pc[t] = "make"
      BY <2>2 DEF CreateCurl, Goto
    <3>2. opts'[call[t].id].link = call[t].link /\ call[t].link \in {"short", "long"}
          /\ \A h \in live : opts'[h] = opts[h]
      BY <1>1, <2>2, OptionSteps DEF CreateCurl, Fresh, NewCall, Prepare
    <3>3. CASE call[t].link = "long"
      <4>1. LongLive' = LongLive \cup {call[t].id} /\ call[t].id \notin LongLive
        BY <2>2, <3>1, <3>2, <3>3 DEF LongLive, NumbersAlone
      <4>2. Makers' = Makers \ {t} /\ t \in Makers
        BY <3>1, <3>3 DEF Makers
      <4>3. /\ Cardinality(LongLive') = Cardinality(LongLive) + 1
            /\ Cardinality(Makers') = Cardinality(Makers) - 1
        BY <4>1, <4>2, RoomFacts, FS_AddElement, FS_RemoveElement
      <4> QED
        BY <4>3, RoomFacts DEF RoomInv
    <3>4. CASE call[t].link = "short"
      BY <3>1, <3>2, <3>4, RoomKept DEF LongLive, Makers
    <3> QED
      BY <3>2, <3>3, <3>4
  <2>3. CASE CreateFails(t)
    BY <2>3, RoomKept DEF CreateFails, Return, Goto, LongLive, Makers
  <2>4. CASE Prepare(t)
    <3>1. \A h \in live : opts'[h].link = opts[h].link
      <4>1. \A o, c : o \in Options => Prepared(o, c).link = o.link
        BY DEF Prepared, Options
      <4>2. \A h \in live : opts[h] \in Options
        OBVIOUS
      <4> QED
        BY <1>1, <2>4, <4>1, <4>2, OptionSteps DEF CreateCurl, Prepare
    <3> QED
      BY <2>4, <3>1, RoomKept DEF Prepare, Goto, LongLive, Makers
  <2>5. CASE ListFails(t)
    BY <2>5, RoomKept DEF ListFails, Return, Goto, LongLive, Makers
  <2>6. CASE Perform(t)
    BY <2>6, RoomKept DEF Perform, Return, Goto, LongLive, Makers
  <2>7. CASE PutCurl(t)
    BY <2>7, RoomKept DEF PutCurl, Return, Goto, LongLive, Makers
  <2> QED
    BY <1>1, <2>1, <2>2, <2>3, <2>4, <2>5, <2>6, <2>7 DEF Step
<1>2. ASSUME NEW t \in Callers, NEW link \in {"short", "long"}, NEW verb \in {"get", "post"},
             NEW headed \in BOOLEAN, Call(t, link, verb, headed)
      PROVE  RoomInv'
  <2>1. \A u \in Callers : u # t => call'[u] = call[u] /\ pc'[u] = pc[u]
    BY <1>2 DEF Call, Goto
  <2>2. call'[t].link = link /\ pc'[t] = IF link = "long" THEN "take" ELSE "make"
    BY <1>2 DEF Call, Goto
  <2>3. Makers' \subseteq Makers
    BY <2>1, <2>2 DEF Makers
  <2> QED
    BY <1>2, <2>3, RoomKept DEF Call, LongLive
<1>3. CASE Destroy
  BY <1>3, RoomKept DEF Destroy, LongLive, Makers
<1>4. CASE UNCHANGED clientVars
  BY <1>4, RoomKept DEF clientVars, LongLive, Makers
<1> QED
  BY <1>1, <1>2, <1>3, <1>4 DEF ClientNext

LEMMA TracesNext ==
  ASSUME ClientInv, LinksAgree, RefusedApart, TracesInv, [ClientNext]_clientVars
  PROVE  TracesInv'
<1> USE CallersAssumption DEF ClientInv, ClientTypeOK
<1>0. \A h \in live : opts[h] \in Options /\ h \in Calls
  OBVIOUS
<1>1. ASSUME NEW t \in Callers, Step(t) PROVE TracesInv'
  <2>0. /\ \A u \in Callers : u # t => handle'[u] = handle[u] /\ pc'[u] = pc[u]
        /\ UNCHANGED <<call, begun>> /\ pc[t] # "idle"
        /\ call[t] \in NewCall /\ call[t].id \in Calls /\ call[t].id \in 1 .. begun
    BY <1>1, OptionSteps DEF NumbersAlone
  <2>1. CASE CreateCurl(t)
    <3>1. /\ live' = live \cup {call[t].id} /\ call[t].id \notin live
          /\ opts'[call[t].id] = Fresh(call[t].link)
          /\ \A h \in live : opts'[h] = opts[h]
          /\ handle'[t] = call[t].id /\ handle[t] = 0 /\ pc[t] = "make"
      BY <2>0, <2>1 DEF CreateCurl, NumbersAlone, HandleWhenHeld, Waiting
    <3>2. \A u \in Callers : pc[u] = "prepare" => handle[u] \in live
      BY DEF HandleWhenHeld, Waiting, HandlesAlone, Holders
    <3>3. /\ ~opts'[call[t].id].post /\ opts'[call[t].id].body = 0
          /\ opts'[call[t].id].list = 0
      BY <3>1 DEF Fresh
    <3>4. \A h \in live' : h = call[t].id \/ (h \in live /\ opts'[h] = opts[h])
      BY <3>1
    <3>5. \A h \in live' : /\ opts'[h].body <= begun
                           /\ opts'[h].post => opts'[h].body = opts'[h].list
                           /\ ~opts'[h].post => opts'[h].body = 0 /\ (opts'[h].link = "long" => opts'[h].list = 0)
      BY <2>0, <3>3, <3>4 DEF TracesInv
    <3>6. \A u \in Callers : pc'[u] = "prepare" /\ call[u].link = "short" =>
            ~opts'[handle'[u]].post /\ opts'[handle'[u]].list = 0
      BY <2>0, <3>1, <3>2, <3>3 DEF TracesInv
    <3>7. \A u \in Callers, h \in live' :
            pc'[u] # "idle" /\ opts'[h].post /\ opts'[h].body = call[u].id
              => call[u].verb = "post" /\ handle'[u] = h /\ pc'[u] # "prepare"
      <4> TAKE u \in Callers, h \in live'
      <4> HAVE pc'[u] # "idle" /\ opts'[h].post /\ opts'[h].body = call[u].id
      <4>1. h \in live /\ opts'[h] = opts[h]
        BY <3>3, <3>4
      <4>2. pc[u] # "idle"
        BY <2>0
      <4>3. call[u].verb = "post" /\ handle[u] = h /\ pc[u] # "prepare" /\ h # 0
        BY <1>0, <4>1, <4>2 DEF TracesInv, Calls
      <4> QED
        BY <2>0, <3>1, <4>3
    <3> QED
      BY <2>0, <3>5, <3>6, <3>7 DEF TracesInv
  <2>2. CASE Prepare(t)
    <3>1. /\ t \in Holders /\ handle[t] \in Calls /\ handle[t] \in live /\ pc[t] = "prepare"
          /\ UNCHANGED <<live, handle>> /\ pc'[t] = "perform"
      BY <2>2, HeldFacts DEF Prepare, Goto, HandlesAlone
    <3>2. /\ opts'[handle[t]] = Prepared(opts[handle[t]], call[t])
          /\ \A h \in live : h # handle[t] => opts'[h] = opts[h]
      BY <2>2, <3>1 DEF Prepare
    <3>3. /\ opts'[handle[t]].link = opts[handle[t]].link
          /\ call[t].verb = "post" =>
               /\ opts'[handle[t]].post
               /\ opts'[handle[t]].body = call[t].id /\ opts'[handle[t]].list = call[t].id
          /\ call[t].verb # "post" =>
               /\ opts'[handle[t]].post = opts[handle[t]].post
               /\ opts'[handle[t]].body = opts[handle[t]].body
               /\ (call[t].link = "long" => opts'[handle[t]].list = opts[handle[t]].list)
      BY <1>0, <3>1, <3>2 DEF Prepared, SetsList, Options
    <3>4. opts[handle[t]].link = call[t].link
      BY <3>1 DEF LinksAgree
    <3>5. \A h \in live' : /\ opts'[h].body <= begun
                           /\ opts'[h].post => opts'[h].body = opts'[h].list
                           /\ ~opts'[h].post => opts'[h].body = 0 /\ (opts'[h].link = "long" => opts'[h].list = 0)
      <4>1. ASSUME NEW h \in live, h # handle[t]
            PROVE  /\ opts'[h].body <= begun
                   /\ opts'[h].post => opts'[h].body = opts'[h].list
                   /\ ~opts'[h].post => opts'[h].body = 0 /\ (opts'[h].link = "long" => opts'[h].list = 0)
        BY <3>2, <4>1 DEF TracesInv
      <4> DEFINE h == handle[t]
      <4>2. CASE call[t].verb = "post"
        BY <2>0, <3>1, <3>3, <4>1, <4>2 DEF Calls
      <4>3. CASE call[t].verb # "post"
        <5>1. opts[h].post => call[t].link = "long"
          BY <2>0, <3>1 DEF TracesInv, NewCall
        <5> QED
          BY <3>1, <3>3, <3>4, <4>1, <4>3, <5>1 DEF TracesInv
      <4> QED
        BY <4>2, <4>3
    <3>6. \A u \in Callers : pc'[u] = "prepare" /\ call[u].link = "short" =>
            ~opts'[handle'[u]].post /\ opts'[handle'[u]].list = 0
      <4> TAKE u \in Callers
      <4> HAVE pc'[u] = "prepare" /\ call[u].link = "short"
      <4>1. u # t /\ pc[u] = "prepare"
        BY <2>0, <3>1
      <4>2. u \in Holders /\ handle[u] # handle[t] /\ handle[u] \in live
        BY <3>1, <4>1, HeldFacts DEF HandlesAlone
      <4> QED
        BY <3>1, <3>2, <4>1, <4>2 DEF TracesInv
    <3>7. \A u \in Callers, h \in live' :
            pc'[u] # "idle" /\ opts'[h].post /\ opts'[h].body = call[u].id
              => call[u].verb = "post" /\ handle'[u] = h /\ pc'[u] # "prepare"
      <4> TAKE u \in Callers, h \in live'
      <4> HAVE pc'[u] # "idle" /\ opts'[h].post /\ opts'[h].body = call[u].id
      <4>1. pc[u] # "idle"
        BY <2>0
      <4>2. CASE h # handle[t]
        <5>1. call[u].verb = "post" /\ handle[u] = h /\ pc[u] # "prepare"
          BY <3>1, <3>2, <4>1, <4>2 DEF TracesInv
        <5> QED
          BY <2>0, <3>1, <4>2, <5>1
      <4>3. CASE h = handle[t] /\ call[t].verb = "post"
        <5>1. call[u].id = call[t].id
          BY <3>3, <4>3
        <5>2. u = t
          BY <2>0, <4>1, <5>1 DEF NumbersAlone
        <5> QED
          BY <3>1, <4>3, <5>2
      <4>4. CASE h = handle[t] /\ call[t].verb # "post"
        <5>1. call[u].verb = "post" /\ handle[u] = h /\ pc[u] # "prepare"
          BY <3>1, <3>3, <4>1, <4>4 DEF TracesInv
        <5> QED
          BY <2>0, <3>1, <4>4, <5>1
      <4> QED
        BY <4>2, <4>3, <4>4
    <3> QED
      BY <2>0, <3>5, <3>6, <3>7 DEF TracesInv
  <2>3. CASE GetCurl(t)
    <3>1. UNCHANGED <<live, opts>> /\ handle[t] = 0
      BY <2>3 DEF GetCurl, HandleWhenHeld, Waiting
    <3>2. \A u \in Callers : pc'[u] = "prepare" /\ call[u].link = "short" => pc[u] = "prepare" /\ u # t
      BY <2>0, <2>3 DEF GetCurl, Goto, LinksAgree
    <3>3. pc[t] = "take"
      BY <2>3 DEF GetCurl
    <3>4. \A u \in Callers, h \in live :
            pc'[u] # "idle" /\ opts[h].post /\ opts[h].body = call[u].id
              => call[u].verb = "post" /\ handle'[u] = h /\ pc'[u] # "prepare"
      <4> TAKE u \in Callers, h \in live
      <4> HAVE pc'[u] # "idle" /\ opts[h].post /\ opts[h].body = call[u].id
      <4>1. pc[u] # "idle"
        BY <2>0
      <4>2. call[u].verb = "post" /\ handle[u] = h /\ pc[u] # "prepare" /\ h # 0
        BY <1>0, <4>1 DEF TracesInv, Calls
      <4> QED
        BY <2>0, <3>1, <4>2
    <3> QED
      BY <2>0, <3>1, <3>2, <3>4 DEF TracesInv
  <2>4. CASE CreateFails(t) \/ ListFails(t) \/ Perform(t) \/ PutCurl(t)
    <3>1. /\ live' \subseteq live /\ UNCHANGED opts
          /\ pc'[t] \in {"idle", "put"}
          /\ pc'[t] = "put" => handle'[t] = handle[t]
      BY <2>4 DEF CreateFails, ListFails, Perform, PutCurl, Return, Goto
    <3> QED
      BY <2>0, <3>1 DEF TracesInv
  <2> QED
    BY <1>1, <2>1, <2>2, <2>3, <2>4 DEF Step
<1>2. ASSUME NEW t \in Callers, NEW link \in {"short", "long"}, NEW verb \in {"get", "post"},
             NEW headed \in BOOLEAN, Call(t, link, verb, headed)
      PROVE  TracesInv'
  <2>1. /\ \A u \in Callers : u # t => call'[u] = call[u] /\ pc'[u] = pc[u]
        /\ pc'[t] \in {"take", "make"} /\ call'[t].id = begun + 1 /\ begun' = begun + 1
        /\ begun \in Nat /\ UNCHANGED <<live, opts, handle>>
    BY <1>2 DEF Call, Goto
  <2>2. \A h \in live : opts[h].body # call'[t].id /\ opts[h].body <= begun'
    BY <1>0, <2>1 DEF TracesInv, Options
  <2>3. \A h \in live' : /\ opts'[h].body <= begun'
                         /\ opts'[h].post => opts'[h].body = opts'[h].list
                         /\ ~opts'[h].post => opts'[h].body = 0 /\ (opts'[h].link = "long" => opts'[h].list = 0)
    BY <2>1, <2>2 DEF TracesInv
  <2>4. ASSUME NEW u \in Callers, pc'[u] = "prepare" /\ call'[u].link = "short"
        PROVE  ~opts'[handle'[u]].post /\ opts'[handle'[u]].list = 0
    <3>1. u # t
      BY <2>1, <2>4
    <3>2. pc[u] = "prepare" /\ call[u].link = "short"
      BY <2>1, <2>4, <3>1
    <3> QED
      BY <2>1, <3>2 DEF TracesInv
  <2>5. ASSUME NEW u \in Callers, NEW h \in live',
               pc'[u] # "idle" /\ opts'[h].post /\ opts'[h].body = call'[u].id
        PROVE  call'[u].verb = "post" /\ handle'[u] = h /\ pc'[u] # "prepare"
    <3>1. u # t
      BY <2>1, <2>2, <2>5
    <3>2. h \in live /\ call'[u] = call[u] /\ pc'[u] = pc[u] /\ opts[h].post /\ opts[h].body = call[u].id
      BY <2>1, <2>5, <3>1
    <3>3. call[u].verb = "post" /\ handle[u] = h /\ pc[u] # "prepare"
      BY <2>5, <3>2 DEF TracesInv
    <3> QED
      BY <2>1, <3>2, <3>3
  <2> QED
    BY <2>3, <2>4, <2>5 DEF TracesInv
<1>3. CASE Destroy
  BY <1>3 DEF Destroy, TracesInv
<1>4. CASE UNCHANGED clientVars
  BY <1>4 DEF clientVars, TracesInv
<1> QED
  BY <1>1, <1>2, <1>3, <1>4 DEF ClientNext

LEMMA OnlyPostsNext ==
  ASSUME ClientInv, LinksAgree, TracesInv, OnlyPostsLeaveTraces, [ClientNext]_clientVars
  PROVE  OnlyPostsLeaveTraces'
<1> USE CallersAssumption DEF ClientInv, ClientTypeOK
<1>1. ASSUME NEW t \in Callers, Step(t) PROVE OnlyPostsLeaveTraces'
  <2>0. /\ \A u \in Callers : u # t => handle'[u] = handle[u] /\ pc'[u] = pc[u]
        /\ UNCHANGED call /\ call[t] \in NewCall
    BY <1>1, OptionSteps
  <2>1. ASSUME NEW u \in Callers, pc[u] = "perform"
        PROVE  handle[u] \in live /\ u \in Holders
    BY <2>1, HeldFacts DEF HandlesAlone
  <2>2. CASE Prepare(t)
    <3>1. /\ t \in Holders /\ handle[t] \in Calls /\ handle[t] \in live /\ pc[t] = "prepare"
          /\ UNCHANGED handle /\ opts[handle[t]] \in Options
      BY <2>2, HeldFacts DEF Prepare, HandlesAlone
    <3>2. opts' = [opts EXCEPT ![handle[t]] = Prepared(opts[handle[t]], call[t])]
      BY <2>2 DEF Prepare
    <3>3. ASSUME NEW u \in Callers, u # t, pc'[u] = "perform"
          PROVE  pc[u] = "perform" /\ opts'[handle'[u]] = opts[handle[u]]
      <4>1. pc[u] = "perform" /\ handle[u] # handle[t]
        BY <2>0, <2>1, <3>1, <3>3 DEF HandlesAlone
      <4> QED
        BY <3>1, <3>2, <4>1
    <3>4. ASSUME call[t].verb = "get"
          PROVE  LET o == opts'[handle[t]] IN
                 IF o.post THEN call[t].link = "long" /\ o.body = o.list /\ o.body # call[t].id
                 ELSE o.body = 0 /\ o.list \in {0, call[t].id}
      <4> DEFINE o == opts[handle[t]]
                 n == opts'[handle[t]]
      <4>1. n = Prepared(o, call[t])
        BY <3>1, <3>2
      <4>2. /\ n.post = o.post /\ n.body = o.body
            /\ n.list = IF SetsList(call[t]) THEN call[t].id ELSE o.list
        BY <3>1, <3>4, <4>1 DEF Prepared, Options
      <4>3. SetsList(call[t]) => call[t].link = "short"
        BY <3>4 DEF SetsList
      <4>4. o.post => call[t].link = "long" /\ o.body = o.list
        BY <2>0, <3>1 DEF TracesInv, NewCall
      <4>5. o.post => o.body # call[t].id
        BY <3>1, <3>4 DEF TracesInv
      <4>6. ~o.post => o.body = 0
        BY <3>1 DEF TracesInv
      <4>7. ~o.post => o.list = 0
        <5>1. o.link = call[t].link
          BY <3>1 DEF LinksAgree
        <5> QED
          BY <2>0, <3>1, <5>1 DEF TracesInv, NewCall
      <4> HIDE DEF o, n
      <4>8. CASE o.post
        <5>1. ~SetsList(call[t])
          BY <4>3, <4>4, <4>8
        <5> QED
          BY <4>2, <4>4, <4>5, <4>8, <5>1 DEF n
      <4>9. CASE ~o.post
        BY <4>2, <4>6, <4>7, <4>9 DEF n
      <4> QED
        BY <4>8, <4>9
    <3> QED
      BY <2>0, <3>1, <3>3, <3>4 DEF OnlyPostsLeaveTraces
  <2>3. CASE CreateCurl(t)
    <3>1. \A h \in live : opts'[h] = opts[h]
      BY <1>1, <2>3, OptionSteps DEF CreateCurl, Prepare
    <3>2. pc'[t] # "perform"
      BY <2>3 DEF CreateCurl, Goto
    <3> QED
      BY <2>0, <2>1, <3>1, <3>2 DEF OnlyPostsLeaveTraces
  <2>4. CASE GetCurl(t) \/ CreateFails(t) \/ ListFails(t) \/ Perform(t) \/ PutCurl(t)
    <3>1. UNCHANGED opts /\ pc'[t] # "perform"
      BY <2>4 DEF GetCurl, CreateFails, ListFails, Perform, PutCurl, Return, Goto
    <3> QED
      BY <2>0, <3>1 DEF OnlyPostsLeaveTraces
  <2> QED
    BY <1>1, <2>2, <2>3, <2>4 DEF Step
<1>2. ASSUME NEW t \in Callers, NEW link \in {"short", "long"}, NEW verb \in {"get", "post"},
             NEW headed \in BOOLEAN, Call(t, link, verb, headed)
      PROVE  OnlyPostsLeaveTraces'
  <2>1. /\ \A u \in Callers : u # t => call'[u] = call[u] /\ pc'[u] = pc[u]
        /\ pc'[t] # "perform" /\ UNCHANGED <<opts, handle>>
    BY <1>2 DEF Call, Goto
  <2> QED
    BY <2>1 DEF OnlyPostsLeaveTraces
<1>3. CASE Destroy
  BY <1>3 DEF Destroy, OnlyPostsLeaveTraces
<1>4. CASE UNCHANGED clientVars
  BY <1>4 DEF clientVars, OnlyPostsLeaveTraces
<1> QED
  BY <1>1, <1>2, <1>3, <1>4 DEF ClientNext

LEMMA PoolHolds == ClientSpec => [](ClientInv /\ PoolInv)
<1>1. ClientInv /\ ClientInv' /\ PoolInv /\ [ClientNext]_clientVars => PoolInv'
  BY LinksInv, RefusedInv, LiveInv, RoomNext, TracesNext, OnlyPostsNext DEF PoolInv
<1> QED
  BY Inductive, PoolInit, <1>1, PTL DEF ClientSpec

(* For any number of callers the pool never holds more handles than there  *)
(* are callers, although it looks for one and makes one in two steps; only *)
(* a Post on the same handle leaves what a Get then sends; and at the end  *)
(* only the handles of refused header lists are left.                      *)
THEOREM PoolIsSound == ClientSpec => []PoolSound
<1>1. ClientInv /\ PoolInv => PoolSound
  <2> SUFFICES ASSUME ClientInv, PoolInv PROVE PoolSound
    OBVIOUS
  <2>1. PoolBounded
    <3>1. Cardinality(LongLive) <= Cardinality(Callers)
      BY RoomFacts DEF ClientInv, PoolInv, RoomInv
    <3> QED
      BY <3>1 DEF PoolBounded, LongLive
  <2>2. OnlyRefusedLeak
    <3> SUFFICES ASSUME destroyed, NEW h \in live PROVE h \in refused
      BY DEF OnlyRefusedLeak
    <3>1. ~InPool(h)
      BY DEF PoolInv, LinksAgree, InPool
    <3>2. h # 0 /\ \A t \in Callers : handle[t] = 0
      BY CallersAssumption DEF PoolInv, LinksAgree, ClientInv, ClientTypeOK, Calls, HandleWhenHeld, Waiting
    <3> QED
      BY <3>1, <3>2 DEF PoolInv, LiveAre
  <2> QED
    BY <2>1, <2>2 DEF PoolInv, PoolSound
<1> QED
  BY PoolHolds, <1>1, PTL

-----------------------------------------------------------------------------
(* Dates                                                                    *)

Valid(t) ==
  /\ t = Date(t.y, t.m, t.d)
  /\ t.y \in Nat /\ t.m \in 1 .. 12 /\ t.d \in 1 .. MonthLength(t.y, t.m)

(* The leap days up to year y, and what a leap year adds to them.          *)
LeapDays(y) == y \div 4 - y \div 100 + y \div 400

LEMMA LeapDaysStep ==
  \A y \in Nat \ {0} : LeapDays(y) = LeapDays(y - 1) + IF Leap(y) THEN 1 ELSE 0
BY DEF LeapDays, Leap

LeapsBefore(y) == {k \in 1970 .. y - 1 : Leap(k)}

LEMMA LeapsUpTo ==
  \A y \in Nat : y >= 1970 =>
    IsFiniteSet(LeapsBefore(y)) /\ Cardinality(LeapsBefore(y)) = LeapDays(y - 1) - 477
<1> DEFINE L(y) == LeapsBefore(y)
           Good(y) == IsFiniteSet(L(y)) /\ Cardinality(L(y)) = LeapDays(y - 1) - 477
           Bad == {y \in Nat : y >= 1970 /\ ~Good(y)}
<1> SUFFICES ASSUME Bad # {} PROVE FALSE
  OBVIOUS
<1>1. PICK y \in Bad : \A n \in Bad : y <= n
  <2>1. Bad \subseteq Nat
    OBVIOUS
  <2> HIDE DEF Bad
  <2> QED
    BY <2>1, LeastNumber
<1>2. y \in Nat /\ y >= 1970 /\ ~Good(y)
  OBVIOUS
<1>3. Good(1970)
  <2>1. L(1970) = {}
    BY DEF LeapsBefore
  <2>2. LeapDays(1969) = 477
    BY DEF LeapDays
  <2> QED
    BY <2>1, <2>2, FS_EmptySet
<1>4. y > 1970
  BY <1>2, <1>3
<1>5. Good(y - 1)
  <2>1. y - 1 \in Nat /\ y - 1 >= 1970
    BY <1>2, <1>4
  <2>2. y - 1 \notin Bad
    BY <1>1, <1>2
  <2> QED
    BY <2>1, <2>2
<1>6. LeapDays(y - 1) = LeapDays(y - 2) + IF Leap(y - 1) THEN 1 ELSE 0
  <2>1. y - 1 \in Nat \ {0} /\ (y - 1) - 1 = y - 2
    BY <1>2, <1>4
  <2> QED
    BY <2>1, LeapDaysStep
<1>7. LeapDays(y - 2) \in Int
  BY <1>2 DEF LeapDays
<1>8. (y - 1) - 1 = y - 2
  BY <1>2
<1>9. CASE Leap(y - 1)
  <2>1. L(y) = L(y - 1) \cup {y - 1} /\ y - 1 \notin L(y - 1)
    BY <1>2, <1>4, <1>9 DEF LeapsBefore
  <2>2. IsFiniteSet(L(y)) /\ Cardinality(L(y)) = Cardinality(L(y - 1)) + 1
    BY <2>1, <1>5, FS_AddElement
  <2> QED
    BY <2>2, <1>5, <1>6, <1>7, <1>8, <1>9, <1>2
<1>10. CASE ~Leap(y - 1)
  <2>1. L(y) = L(y - 1)
    BY <1>2, <1>4, <1>10 DEF LeapsBefore
  <2> QED
    BY <2>1, <1>5, <1>6, <1>7, <1>8, <1>10, <1>2
<1> QED
  BY <1>9, <1>10

(* The days of the years before y.                                         *)
LEMMA NewYearIs ==
  \A y \in Nat : y >= 1970 => NewYear(y) = 365 * (y - 1970) + LeapDays(y - 1) - 477
<1> TAKE y \in Nat
<1> HAVE y >= 1970
<1>1. NewYear(y) = 365 * (y - 1970) + Cardinality(LeapsBefore(y))
  BY DEF NewYear, LeapsBefore
<1>2. Cardinality(LeapsBefore(y)) = LeapDays(y - 1) - 477
  BY LeapsUpTo
<1>3. LeapDays(y - 1) \in Int
  BY DEF LeapDays
<1> QED
  BY <1>1, <1>2, <1>3

(* What the length of a month is in numbers.                               *)
LEMMA MonthLengthIs ==
  ASSUME NEW y \in Nat, NEW m \in 1 .. 12
  PROVE  /\ MonthLength(y, m) \in 28 .. 31
         /\ m = 2 => MonthLength(y, m) = IF Leap(y) THEN 29 ELSE 28
         /\ m \in {4, 6, 9, 11} => MonthLength(y, m) = 30
         /\ m \in {1, 3, 5, 7, 8, 10, 12} => MonthLength(y, m) = 31
BY DEF MonthLength

(* The day after a day of the calendar is one, of the same year but for    *)
(* the last.                                                                *)
LEMMA NextIsValid ==
  ASSUME NEW t, Valid(t)
  PROVE  /\ Valid(NextDate(t))
         /\ ~(t.m = 12 /\ t.d = 31) => NextDate(t).y = t.y
<1> DEFINE y == t.y
           m == t.m
           d == t.d
<1>1. y \in Nat /\ m \in 1 .. 12 /\ d \in 1 .. MonthLength(y, m)
  BY DEF Valid
<1>2. MonthLength(y, m) \in 28 .. 31 /\ (m = 12 => MonthLength(y, m) = 31)
  BY <1>1, MonthLengthIs
<1>3. CASE d < MonthLength(y, m)
  <2>1. NextDate(t) = Date(y, m, d + 1)
    BY <1>3 DEF NextDate
  <2>2. d + 1 \in 1 .. MonthLength(y, m)
    BY <1>1, <1>2, <1>3
  <2> QED
    BY <2>1, <2>2, <1>1 DEF Valid, Date
<1>4. CASE ~(d < MonthLength(y, m)) /\ m < 12
  <2>1. NextDate(t) = Date(y, m + 1, 1)
    BY <1>4 DEF NextDate
  <2>2. m + 1 \in 1 .. 12
    BY <1>1, <1>4
  <2>3. 1 \in 1 .. MonthLength(y, m + 1)
    BY <2>2, <1>1, MonthLengthIs
  <2> QED
    BY <2>1, <2>2, <2>3, <1>1 DEF Valid, Date
<1>5. CASE ~(d < MonthLength(y, m)) /\ m = 12
  <2>1. NextDate(t) = Date(y + 1, 1, 1)
    BY <1>5 DEF NextDate
  <2>2. y + 1 \in Nat /\ 1 \in 1 .. 12
    BY <1>1
  <2>3. 1 \in 1 .. MonthLength(y + 1, 1)
    BY <2>2, MonthLengthIs
  <2>4. d = 31
    BY <1>1, <1>2, <1>5
  <2> QED
    BY <2>1, <2>2, <2>3, <2>4, <1>1, <1>5 DEF Valid, Date
<1> QED
  BY <1>1, <1>3, <1>4, <1>5

(* The days before a month of self_mktime's year, which begins in March.   *)
BeforeMonth(m) == <<306, 337, 0, 31, 61, 92, 122, 153, 184, 214, 245, 275>>[m]

(* The day of the d-th of a month in self_mktime's year.                   *)
MarchDay(Y, m, d) == 365 * Y + LeapDays(Y) + BeforeMonth(m) + d - 719469

LEMMA CountsAreInt ==
  /\ \A y \in Nat : LeapDays(y) \in Int
  /\ \A m \in 1 .. 12 : BeforeMonth(m) \in Int
BY DEF LeapDays, BeforeMonth

LEMMA MktimeOf ==
  ASSUME NEW y \in Nat \ {0}, NEW m \in 1 .. 12, NEW d \in Nat,
         NEW Y \in Nat, m <= 2 => Y = y - 1, m > 2 => Y = y
  PROVE  Mktime(Date(y, m, d)) = MarchDay(Y, m, d)
<1> DEFINE t == Date(y, m, d)
           mon == IF m <= 2 THEN m + 10 ELSE m - 2
<1>1. t.y = y /\ t.m = m /\ t.d = d
  BY DEF Date
<1>2. Y \in Nat
  OBVIOUS
<1>3. (367 * mon) \div 12 = BeforeMonth(m) + 30 /\ 367 * mon >= 0
  BY DEF BeforeMonth
<1>4. BeforeMonth(m) \in Nat
  BY DEF BeforeMonth
<1>5. CDiv(Y, 4) = Y \div 4 /\ CDiv(Y, 100) = Y \div 100 /\ CDiv(Y, 400) = Y \div 400
  BY <1>2 DEF CDiv
<1>6. CDiv(367 * mon, 12) = BeforeMonth(m) + 30
  BY <1>3 DEF CDiv
<1>7. Mktime(t) = CDiv(Y, 4) - CDiv(Y, 100) + CDiv(Y, 400) + CDiv(367 * mon, 12)
                    + d + Y * 365 - 719499
  BY <1>1 DEF Mktime
<1> HIDE DEF t, mon
<1>8. Mktime(t) = 365 * Y + LeapDays(Y) + BeforeMonth(m) + d - 719469
  BY <1>2, <1>4, <1>5, <1>6, <1>7 DEF LeapDays
<1> QED
  BY <1>8 DEF t, MarchDay

LEMMA MktimeIs ==
  ASSUME NEW y \in Nat \ {0}, NEW m \in 1 .. 12, NEW d \in Nat
  PROVE  /\ m <= 2 => Mktime(Date(y, m, d)) = MarchDay(y - 1, m, d)
         /\ m > 2 => Mktime(Date(y, m, d)) = MarchDay(y, m, d)
<1>1. ASSUME m <= 2
      PROVE  Mktime(Date(y, m, d)) = MarchDay(y - 1, m, d)
  <2>1. y - 1 \in Nat /\ ~(m > 2)
    BY <1>1
  <2> QED
    BY <2>1, <1>1, MktimeOf
<1>2. ASSUME m > 2
      PROVE  Mktime(Date(y, m, d)) = MarchDay(y, m, d)
  <2>1. y \in Nat /\ ~(m <= 2)
    BY <1>2
  <2> QED
    BY <2>1, <1>2, MktimeOf
<1> QED
  BY <1>1, <1>2

(* The table chosen by the year's last two bits has a 29 February too much *)
(* in a century that is no leap year.                                      *)
LEMMA TmtoTIs ==
  ASSUME NEW y \in Nat, y > 1900, NEW m \in 1 .. 12, NEW d \in Nat
  PROVE  TmtoT(y - 1900, m, d) =
           Mktime(Date(y, m, d)) + IF y % 4 = 0 /\ ~Leap(y) /\ m > 2 THEN 1 ELSE 0
<1> DEFINE year == y - 1900
           end == year - 1
           table == IF year % 4 # 0 \/ year = 0 THEN Mos ELSE LMos
<1>1. CDiv(end, 4) = end \div 4 /\ CDiv(end, 100) = end \div 100
      /\ CDiv(1900 + end, 400) = (1900 + end) \div 400
  BY DEF CDiv
<1>2. CDiv(end, 4) - CDiv(end, 100) + CDiv(1900 + end, 400) - 4 = LeapDays(y - 1) - 460
  BY <1>1 DEF LeapDays
<1>3. table[m] = BeforeMonth(m) + (IF m <= 2 THEN -306 ELSE 59)
                   + IF y % 4 = 0 /\ m > 2 THEN 1 ELSE 0
  <2>1. (year % 4 # 0 \/ year = 0) <=> y % 4 # 0
    OBVIOUS
  <2> QED
    BY <2>1 DEF Mos, LMos, BeforeMonth
<1>4. LeapDays(y) \in Int /\ LeapDays(y - 1) \in Int /\ BeforeMonth(m) \in Int
  BY DEF LeapDays, BeforeMonth
<1>5. TmtoT(year, m, d) = LeapDays(y - 1) - 460 + table[m] - 1 + 365 * year + d - (70 * 365 + 17)
  <2>1. Daysto(year, m) = LeapDays(y - 1) - 460 + table[m]
    BY <1>2 DEF Daysto
  <2> HIDE DEF table
  <2> QED
    BY <2>1, <1>3, <1>4 DEF TmtoT
<1>6. /\ m <= 2 => Mktime(Date(y, m, d)) = MarchDay(y - 1, m, d)
      /\ m > 2 => Mktime(Date(y, m, d)) = MarchDay(y, m, d)
  BY MktimeIs
<1>7. LeapDays(y) = LeapDays(y - 1) + IF Leap(y) THEN 1 ELSE 0
  BY LeapDaysStep
<1>8. Leap(y) => y % 4 = 0
  BY DEF Leap
<1> HIDE DEF table
<1> QED
  BY <1>3, <1>5, <1>6, <1>7, <1>4, <1>8 DEF MarchDay

(* Where a year has no 29 February, that day is taken for 1 March.         *)
LEMMA NoLeapDay ==
  ASSUME NEW y \in Nat \ {0}, ~Leap(y)
  PROVE  Mktime(Date(y, 2, 29)) = Mktime(Date(y, 3, 1))
<1>1. Mktime(Date(y, 2, 29)) = MarchDay(y - 1, 2, 29)
  BY MktimeIs
<1>2. Mktime(Date(y, 3, 1)) = MarchDay(y, 3, 1)
  BY MktimeIs
<1>3. BeforeMonth(2) = 337 /\ BeforeMonth(3) = 0
  BY DEF BeforeMonth
<1>4. LeapDays(y) = LeapDays(y - 1) /\ LeapDays(y) \in Int
  BY LeapDaysStep, CountsAreInt
<1> QED
  BY <1>1, <1>2, <1>3, <1>4 DEF MarchDay

(* The day after is one more.                                              *)
LEMMA MktimeCounts ==
  ASSUME NEW t, Valid(t), t.y > 0
  PROVE  Mktime(NextDate(t)) = Mktime(t) + 1
<1> DEFINE y == t.y
           m == t.m
           d == t.d
<1>1. y \in Nat \ {0} /\ m \in 1 .. 12 /\ d \in 1 .. MonthLength(y, m) /\ t = Date(y, m, d)
  BY DEF Valid
<1>2. MonthLength(y, m) \in 28 .. 31 /\ d \in Nat
  BY <1>1, MonthLengthIs
<1>3. /\ m <= 2 => Mktime(t) = MarchDay(y - 1, m, d)
      /\ m > 2 => Mktime(t) = MarchDay(y, m, d)
  BY <1>1, <1>2, MktimeIs
<1>4. LeapDays(y - 1) \in Int /\ LeapDays(y) = LeapDays(y - 1) + IF Leap(y) THEN 1 ELSE 0
  BY <1>1, CountsAreInt, LeapDaysStep
<1>5. CASE d < MonthLength(y, m)
  <2>1. NextDate(t) = Date(y, m, d + 1)
    BY <1>5 DEF NextDate
  <2>2. /\ m <= 2 => Mktime(Date(y, m, d + 1)) = MarchDay(y - 1, m, d + 1)
        /\ m > 2 => Mktime(Date(y, m, d + 1)) = MarchDay(y, m, d + 1)
    BY <1>1, <1>2, MktimeIs
  <2>3. BeforeMonth(m) \in Int
    BY <1>1 DEF BeforeMonth
  <2> HIDE DEF y, m, d
  <2> QED
    BY <2>1, <2>2, <2>3, <1>1, <1>2, <1>3, <1>4 DEF MarchDay
<1>6. CASE ~(d < MonthLength(y, m)) /\ m < 12
  <2>1. NextDate(t) = Date(y, m + 1, 1)
    BY <1>6 DEF NextDate
  <2>2. m + 1 \in 1 .. 12 /\ (m + 1 <= 2 <=> m = 1)
    BY <1>1, <1>6
  <2>3. /\ m + 1 <= 2 => Mktime(Date(y, m + 1, 1)) = MarchDay(y - 1, m + 1, 1)
        /\ m + 1 > 2 => Mktime(Date(y, m + 1, 1)) = MarchDay(y, m + 1, 1)
    BY <1>1, <2>2, MktimeIs
  <2>4. d = MonthLength(y, m)
    BY <1>1, <1>2, <1>6
  <2>5. /\ m = 2 => d = IF Leap(y) THEN 29 ELSE 28
        /\ m \in {4, 6, 9, 11} => d = 30
        /\ m \in {1, 3, 5, 7, 8, 10, 12} => d = 31
    BY <2>4, <1>1, MonthLengthIs
  <2>6. BeforeMonth(m + 1) = BeforeMonth(m) + (IF m = 2 THEN -337 ELSE IF m \in {4, 6, 9, 11} THEN 30 ELSE 31)
    BY <1>1, <1>6 DEF BeforeMonth
  <2>7. BeforeMonth(m) \in Int /\ (m = 2 => BeforeMonth(m) = 337)
    BY <1>1 DEF BeforeMonth
  <2> HIDE DEF y, m, d
  <2>8. CASE m = 2
    BY <2>1, <2>2, <2>3, <2>5, <2>6, <2>7, <2>8, <1>1, <1>3, <1>4 DEF MarchDay
  <2>9. CASE m = 1
    BY <2>1, <2>2, <2>3, <2>5, <2>6, <2>7, <2>9, <1>1, <1>3, <1>4 DEF MarchDay
  <2>10. CASE m > 2
    <3>1. m \in {4, 6, 9, 11} \/ m \in {1, 3, 5, 7, 8, 10, 12}
      BY <2>10, <1>1
    <3>2. LeapDays(y) \in Int
      BY <1>1, CountsAreInt
    <3> QED
      BY <3>1, <3>2, <2>1, <2>2, <2>3, <2>5, <2>6, <2>7, <2>10, <1>1, <1>3 DEF MarchDay
  <2> QED
    BY <2>8, <2>9, <2>10, <1>1
<1>7. CASE ~(d < MonthLength(y, m)) /\ m = 12
  <2>1. NextDate(t) = Date(y + 1, 1, 1)
    BY <1>7 DEF NextDate
  <2>2. Mktime(Date(y + 1, 1, 1)) = MarchDay(y, 1, 1)
    <3>1. y + 1 \in Nat \ {0} /\ (y + 1) - 1 = y
      BY <1>1
    <3> QED
      BY <3>1, MktimeIs
  <2>3. d = 31
    BY <1>1, <1>2, <1>7, MonthLengthIs
  <2>4. BeforeMonth(1) = 306 /\ BeforeMonth(12) = 275
    BY DEF BeforeMonth
  <2>5. LeapDays(y) \in Int
    BY <1>1, CountsAreInt
  <2> HIDE DEF y, m, d
  <2> QED
    BY <2>1, <2>2, <2>3, <2>4, <2>5, <1>1, <1>3, <1>7 DEF MarchDay
<1> QED
  BY <1>1, <1>5, <1>6, <1>7

-----------------------------------------------------------------------------
(* The way back.  FastSecondToDate counts from 1 March of the year -4800:   *)
(* it takes off centuries, then years, then months.                        *)

(* A day a counted from 1 March of year 0, which is the e-th of its year T, *)
(* the D-th of the b-th century, and the c-th day of that century; a year   *)
(* is 366 days long if 29 February ends it.                                 *)
CenturyLeft(a, b, c, T, D, e) ==
  /\ T = 100 * b + D /\ (e = 365 => Leap(T + 1))
  /\ a = 365 * T + LeapDays(T) + e
  /\ c = 365 * D + D \div 4 + e

CenturyTaken(a, b, c, T, D, e) ==
  (a * 4 + 3) \div 146097 = b /\ a = (b * 146097) \div 4 + c

LEMMA CenturiesOff ==
  ASSUME NEW T \in Nat, NEW b \in Nat, NEW D \in 0 .. 99, NEW e \in 0 .. 365,
         NEW a \in Nat, NEW c \in Nat, CenturyLeft(a, b, c, T, D, e)
  PROVE  CenturyTaken(a, b, c, T, D, e)
<1>0. /\ T = 100 * b + D /\ (e = 365 => Leap(T + 1))
      /\ a = 365 * T + LeapDays(T) + e
      /\ c = 365 * D + D \div 4 + e
  BY DEF CenturyLeft
<1>1. D \div 4 \in Nat
  OBVIOUS
<1>2. LeapDays(T) = 24 * b + D \div 4 + b \div 4
  <2>1. T \div 4 = 25 * b + D \div 4 /\ T \div 100 = b /\ T \div 400 = b \div 4
    BY <1>0
  <2> QED
    BY <2>1 DEF LeapDays
<1>3. a = 36524 * b + b \div 4 + c
  <2>1. a = 365 * (100 * b + D) + (24 * b + D \div 4 + b \div 4) + e
    BY <1>0, <1>1, <1>2
  <2> QED
    BY <2>1, <1>0, <1>1
<1>4. (b * 146097) \div 4 = 36524 * b + b \div 4
  OBVIOUS
<1>5. e = 365 /\ D = 99 => b % 4 = 3
  <2>1. ASSUME e = 365, D = 99
        PROVE  b % 4 = 3
    <3>1. Leap(T + 1) /\ T + 1 = 100 * (b + 1)
      BY <2>1, <1>0, <1>1
    <3>2. (T + 1) % 400 = 0
      BY <3>1 DEF Leap
    <3> QED
      BY <3>1, <3>2, <1>1
  <2> QED
    BY <2>1
<1>6. (a * 4 + 3) \div 146097 = b
  <2>1. c \in Nat /\ (b % 4 = 3 => c <= 36524) /\ (b % 4 # 3 => c <= 36523)
    BY <1>0, <1>1, <1>5
  <2>2. PICK q \in Nat, r \in 0 .. 3 : b = 4 * q + r
    <3>1. b = 4 * (b \div 4) + (b % 4) /\ b \div 4 \in Nat /\ b % 4 \in 0 .. 3
      BY <1>1
    <3> QED
      BY <3>1
  <2>3. b \div 4 = q /\ b % 4 = r
    BY <2>2, <1>1
  <2>4. PICK s \in Nat : s = 4 * q - b + 4 * c + 3
    BY <2>1, <2>2
  <2>5. s <= 146096
    BY <2>1, <2>2, <2>3, <2>4
  <2>6. a * 4 + 3 = 146097 * b + s
    BY <1>3, <2>3, <2>4
  <2>7. (146097 * b + s) \div 146097 = b
    BY <2>5
  <2> QED
    BY <2>6, <2>7
<1> QED
  BY <1>3, <1>4, <1>6 DEF CenturyTaken

YearTaken(c, D, e) == (c * 4 + 3) \div 1461 = D /\ c = (D * 1461) \div 4 + e

LEMMA YearsOff ==
  ASSUME NEW D \in 0 .. 99, NEW e \in 0 .. 365, e = 365 => D % 4 = 3,
         NEW c \in Nat, c = 365 * D + D \div 4 + e
  PROVE  YearTaken(c, D, e)
<1>1. PICK q \in Nat, r \in 0 .. 3 : D = 4 * q + r
  <2>1. D = 4 * (D \div 4) + (D % 4) /\ D \div 4 \in Nat /\ D % 4 \in 0 .. 3
    OBVIOUS
  <2> QED
    BY <2>1
<1>2. D \div 4 = q /\ D % 4 = r
  BY <1>1
<1>3. c * 4 + 3 = 1461 * D + (4 * q - D + 4 * e + 3)
  BY <1>2
<1>4. 4 * q - D + 4 * e + 3 \in Nat /\ 4 * q - D + 4 * e + 3 <= 1460
  BY <1>1, <1>2
<1>5. c * 4 + 3 \in Int
  BY <1>2
<1>6. (c * 4 + 3) \div 1461 = D
  BY <1>3, <1>4, <1>5
<1>7. c = (D * 1461) \div 4 + e
  BY <1>1, <1>2
<1> QED
  BY <1>6, <1>7 DEF YearTaken

(* The d-th of month m is the e-th day, in the k-th month from March.       *)
MonthTaken(e, k, m, d) ==
  /\ e \in 0 .. 365 /\ (e = 365 => m = 2 /\ d = 29)
  /\ k \in 0 .. 11
  /\ k \div 10 = IF m <= 2 THEN 1 ELSE 0
  /\ k + 3 - 12 * (k \div 10) = m
  /\ (153 * k + 2) \div 5 = BeforeMonth(m)

LEMMA MonthsOff ==
  ASSUME NEW m \in 1 .. 12, NEW d \in 1 .. 31,
         m = 2 => d <= 29, m \in {4, 6, 9, 11} => d <= 30,
         NEW e, e = BeforeMonth(m) + d - 1, NEW k, k = (5 * e + 2) \div 153
  PROVE  MonthTaken(e, k, m, d)
<1>1. CASE m <= 2
  <2>1. CASE m = 1
    BY <2>1 DEF BeforeMonth, MonthTaken
  <2>2. CASE m = 2
    BY <2>2 DEF BeforeMonth, MonthTaken
  <2> QED
    BY <1>1, <2>1, <2>2
<1>2. CASE m \in 3 .. 7
  <2>1. CASE m = 3
    BY <2>1 DEF BeforeMonth, MonthTaken
  <2>2. CASE m = 4
    BY <2>2 DEF BeforeMonth, MonthTaken
  <2>3. CASE m = 5
    BY <2>3 DEF BeforeMonth, MonthTaken
  <2>4. CASE m = 6
    BY <2>4 DEF BeforeMonth, MonthTaken
  <2>5. CASE m = 7
    BY <2>5 DEF BeforeMonth, MonthTaken
  <2> QED
    BY <1>2, <2>1, <2>2, <2>3, <2>4, <2>5
<1>3. CASE m \in 8 .. 12
  <2>1. CASE m = 8
    BY <2>1 DEF BeforeMonth, MonthTaken
  <2>2. CASE m = 9
    BY <2>2 DEF BeforeMonth, MonthTaken
  <2>3. CASE m = 10
    BY <2>3 DEF BeforeMonth, MonthTaken
  <2>4. CASE m = 11
    BY <2>4 DEF BeforeMonth, MonthTaken
  <2>5. CASE m = 12
    BY <2>5 DEF BeforeMonth, MonthTaken
  <2> QED
    BY <1>3, <2>1, <2>2, <2>3, <2>4, <2>5
<1> QED
  BY <1>1, <1>2, <1>3

(* FastSecondToDate undoes self_mktime, but for its base year.             *)
LEMMA ToDateUndoes ==
  ASSUME NEW y \in Nat \ {0}, NEW m \in 1 .. 12, NEW d \in 1 .. MonthLength(y, m),
         NEW hours \in Int, CDiv(hours, 24) = Mktime(Date(y, m, d)), NEW base \in Nat
  PROVE  ToDate(hours, base) = Date(y - 1900 + base, m, d)
<1>1. PICK Y \in Nat : Y = IF m <= 2 THEN y - 1 ELSE y
  OBVIOUS
<1>2. PICK T \in Nat : T = Y + 4800
  OBVIOUS
<1>3. PICK b \in Nat, D \in 0 .. 99 : T = 100 * b + D
  <2>1. T = 100 * (T \div 100) + (T % 100) /\ T \div 100 \in Nat /\ T % 100 \in 0 .. 99
    OBVIOUS
  <2> QED
    BY <2>1
<1>4. d \in 1 .. 31 /\ (m = 2 => d <= IF Leap(y) THEN 29 ELSE 28) /\ (m \in {4, 6, 9, 11} => d <= 30)
  BY MonthLengthIs
<1>5. BeforeMonth(m) \in Nat
  BY DEF BeforeMonth
<1>6. PICK e \in Nat : e = BeforeMonth(m) + d - 1
  BY <1>4, <1>5
<1>7. PICK k \in Nat : k = (5 * e + 2) \div 153
  OBVIOUS
<1>8. MonthTaken(e, k, m, d) /\ e \in 0 .. 365
  <2>1. m = 2 => d <= 29
    BY <1>4
  <2>2. MonthTaken(e, k, m, d)
    BY <1>4, <1>6, <1>7, <2>1, MonthsOff
  <2> QED
    BY <2>2 DEF MonthTaken
<1>9. e = 365 => Leap(T + 1) /\ D % 4 = 3
  <2>1. e = 365 => Leap(y) /\ T + 1 = y + 4800
    BY <1>1, <1>2, <1>4, <1>8 DEF MonthTaken
  <2>2. Leap(y) => Leap(y + 4800) /\ (y + 4800) % 4 = 0
    BY DEF Leap
  <2>3. (T + 1) % 4 = 0 => D % 4 = 3
    BY <1>3
  <2> QED
    BY <2>1, <2>2, <2>3
<1>10. CDiv(hours, 24) + 2472632 = 365 * T + LeapDays(T) + e
  <2>1. CDiv(hours, 24) = MarchDay(Y, m, d)
    <3>1. d \in Nat
      BY <1>4
    <3> QED
      BY <1>1, <3>1, MktimeIs
  <2>2. LeapDays(T) = LeapDays(Y) + 1164 /\ LeapDays(Y) \in Int
    BY <1>2 DEF LeapDays
  <2> QED
    BY <2>1, <2>2, <1>2, <1>4, <1>5, <1>6 DEF MarchDay
<1>11. PICK a \in Nat : a = CDiv(hours, 24) + 2472632
  <2>1. LeapDays(T) \in Nat
    BY DEF LeapDays
  <2> QED
    BY <1>10, <2>1
<1>12. PICK c \in Nat : c = 365 * D + D \div 4 + e
  OBVIOUS
<1>13. CenturyTaken(a, b, c, T, D, e)
  <2>1. a = 365 * T + LeapDays(T) + e
    BY <1>10, <1>11
  <2>2. e = 365 => Leap(T + 1)
    BY <1>9
  <2>3. CenturyLeft(a, b, c, T, D, e)
    BY <1>12, <1>3, <2>1, <2>2 DEF CenturyLeft
  <2> QED
    BY Zenon, <1>8, <2>3, CenturiesOff
<1>14. YearTaken(c, D, e)
  <2>1. e \in 0 .. 365 /\ (e = 365 => D % 4 = 3)
    BY <1>8, <1>9
  <2> QED
    BY Zenon, <1>12, <2>1, YearsOff
<1>15. CDiv(a * 4 + 3, 146097) = b
  BY <1>13 DEF CDiv, CenturyTaken
<1>16. CDiv(-b * 146097, 4) + a = c
  <2>1. b * 146097 \in Nat /\ -b * 146097 = -(b * 146097)
    OBVIOUS
  <2>2. CDiv(-(b * 146097), 4) = -((b * 146097) \div 4)
    BY <2>1 DEF CDiv
  <2> QED
    BY <2>1, <2>2, <1>13 DEF CenturyTaken
<1>17. CDiv(c * 4 + 3, 1461) = D
  BY <1>14 DEF CDiv, YearTaken
<1>18. CDiv(-D * 1461, 4) + c = e
  <2>1. D * 1461 \in Nat /\ -D * 1461 = -(D * 1461)
    OBVIOUS
  <2>2. CDiv(-(D * 1461), 4) = -((D * 1461) \div 4)
    BY <2>1 DEF CDiv
  <2> QED
    BY <2>1, <2>2, <1>14 DEF YearTaken
<1>19. CDiv(5 * e + 2, 153) = k
  BY <1>7 DEF CDiv
<1>20. ToDate(hours, base) =
         Date(b * 100 + D - 6700 + CDiv(k, 10) + base, CDiv(-k, 10) * 12 + k + 3,
              CDiv(-(153 * k + 2), 5) + e + 1)
  BY <1>11, <1>15, <1>16, <1>17, <1>18, <1>19 DEF ToDate
<1>21. /\ CDiv(k, 10) = k \div 10 /\ CDiv(-k, 10) = -(k \div 10)
       /\ CDiv(-(153 * k + 2), 5) = -((153 * k + 2) \div 5)
  BY DEF CDiv
<1>22. b * 100 + D - 6700 + CDiv(k, 10) + base = y - 1900 + base
  BY <1>1, <1>2, <1>3, <1>8, <1>21 DEF MonthTaken
<1>23. CDiv(-k, 10) * 12 + k + 3 = m
  BY <1>8, <1>21 DEF MonthTaken
<1>24. CDiv(-(153 * k + 2), 5) + e + 1 = d
  BY <1>4, <1>5, <1>6, <1>8, <1>21 DEF MonthTaken
<1> QED
  BY <1>20, <1>22, <1>23, <1>24

-----------------------------------------------------------------------------
(* Stamps before and after 1970, and what truncation makes of them.        *)

LEMMA Signs ==
  ASSUME NEW t, Valid(t), t.y > 1900
  PROVE  /\ Mktime(t) \in Int
         /\ t.y < 1970 <=> Mktime(t) < 0
<1>1. PICK y \in Nat \ {0}, m \in 1 .. 12, d \in Nat :
        t = Date(y, m, d) /\ t.y = y /\ y > 1900 /\ d >= 1 /\ d <= 31 /\ (m = 2 => d <= 29)
  <2>1. t.y \in Nat \ {0} /\ t.m \in 1 .. 12 /\ t.d \in 1 .. MonthLength(t.y, t.m)
    BY DEF Valid
  <2>2. MonthLength(t.y, t.m) \in 28 .. 31 /\ (t.m = 2 => MonthLength(t.y, t.m) <= 29)
    BY <2>1, MonthLengthIs
  <2>3. t.d \in Nat /\ t.d >= 1 /\ t.d <= 31 /\ (t.m = 2 => t.d <= 29)
    BY <2>1, <2>2
  <2>4. t = Date(t.y, t.m, t.d)
    BY DEF Valid
  <2> QED
    BY <2>1, <2>3, <2>4
<1>2. PICK Y \in Nat : Y = IF m <= 2 THEN y - 1 ELSE y
  OBVIOUS
<1>3. Mktime(t) = MarchDay(Y, m, d)
  BY <1>1, <1>2, MktimeIs
<1>4. PICK n \in Int : n = LeapDays(Y)
  BY CountsAreInt
<1>5. (Y >= 1969 => n >= 477) /\ (Y <= 1969 => n <= 477)
  <2>1. PICK b \in Nat, D \in 0 .. 99 : Y = 100 * b + D
    <3>1. Y = 100 * (Y \div 100) + (Y % 100) /\ Y \div 100 \in Nat /\ Y % 100 \in 0 .. 99
      OBVIOUS
    <3> QED
      BY <3>1
  <2>2. Y \div 4 = 25 * b + D \div 4 /\ Y \div 100 = b /\ Y \div 400 = b \div 4
    BY <2>1
  <2>3. n = 24 * b + D \div 4 + b \div 4
    BY <1>4, <2>2 DEF LeapDays
  <2> QED
    BY <2>1, <2>3
<1>6. PICK s \in Int : s = BeforeMonth(m)
  BY CountsAreInt
<1>7. /\ s >= 0 /\ (m > 2 => s <= 275) /\ (m <= 2 => s >= 306 /\ s <= 337) /\ (m = 1 => s = 306)
  BY <1>6 DEF BeforeMonth
<1>8. Mktime(t) = 365 * Y + n + s + d - 719469
  BY <1>3, <1>4, <1>6 DEF MarchDay
<1> QED
  BY <1>1, <1>2, <1>5, <1>7, <1>8

DayTaken(s, h) == CDiv(24 * s + h, 24) = IF s < 0 /\ h > 0 THEN s + 1 ELSE s

LEMMA Truncates == \A s \in Int, h \in 0 .. 23 : DayTaken(s, h)
BY DEF CDiv, DayTaken

(* A year later by twenty has the same next days, unless one of the two is  *)
(* a leap year and it is February.                                          *)
LEMMA SameNext ==
  ASSUME NEW y \in Nat, y >= 20, NEW m \in 1 .. 12, NEW d \in Nat,
         MonthLength(y, m) = MonthLength(y - 20, m)
  PROVE  LET next == NextDate(Date(y - 20, m, d))
         IN  NextDate(Date(y, m, d)) = Date(next.y + 20, next.m, next.d)
BY DEF NextDate, Date

LEMMA MonthsAlike ==
  ASSUME NEW y \in Nat, y >= 20, NEW m \in 1 .. 12, m # 2 \/ (Leap(y) <=> Leap(y - 20))
  PROVE  MonthLength(y, m) = MonthLength(y - 20, m)
BY DEF MonthLength

-----------------------------------------------------------------------------
(* The invariant of the calendar.                                          *)
CalendarInv ==
  date # NoDate =>
    Valid(date) /\ date.y \in FirstYear .. LastYear /\ date.y >= 1970 /\ day = Mktime(date)

LEMMA CalendarStarts == CalendarInit => CalendarInv
<1> SUFFICES ASSUME NEW y \in FirstYear .. LastYear, date = Date(y, 1, 1), day = NewYear(y)
             PROVE  CalendarInv
  BY DEF CalendarInit, CalendarInv
<1>1. y \in Nat \ {0} /\ y >= 1970
  BY CalendarAssumption
<1>2. NewYear(y) = 365 * (y - 1970) + LeapDays(y - 1) - 477
  BY <1>1, NewYearIs
<1>3. Mktime(Date(y, 1, 1)) = MarchDay(y - 1, 1, 1)
  BY <1>1, MktimeIs
<1>4. BeforeMonth(1) = 306
  BY DEF BeforeMonth
<1>5. LeapDays(y - 1) \in Int
  BY <1>1, CountsAreInt
<1>6. NewYear(y) = Mktime(Date(y, 1, 1))
  BY <1>1, <1>2, <1>3, <1>4, <1>5 DEF MarchDay
<1>7. MonthLength(y, 1) = 31
  BY <1>1, MonthLengthIs
<1>8. Valid(Date(y, 1, 1)) /\ Date(y, 1, 1).y = y
  BY <1>1, <1>7 DEF Valid, Date
<1> QED
  BY <1>1, <1>6, <1>8 DEF CalendarInv

LEMMA CalendarGoesOn == CalendarInv /\ [NextDay]_<<date, day>> => CalendarInv'
<1> SUFFICES ASSUME CalendarInv, [NextDay]_<<date, day>>
             PROVE  CalendarInv'
  OBVIOUS
<1>1. CASE UNCHANGED <<date, day>>
  BY <1>1 DEF CalendarInv
<1>2. CASE NextDay
  <2>1. date # NoDate /\ ~(date.m = 12 /\ date.d = 31) /\ date' = NextDate(date) /\ day' = day + 1
    BY <1>2 DEF NextDay
  <2>2. Valid(date) /\ date.y \in FirstYear .. LastYear /\ date.y >= 1970 /\ day = Mktime(date)
    BY <2>1 DEF CalendarInv
  <2>3. Valid(date') /\ date'.y = date.y
    <3>1. Valid(NextDate(date)) /\ NextDate(date).y = date.y
      BY <2>1, <2>2, NextIsValid
    <3> QED
      BY <2>1, <3>1
  <2>4. date.y > 0
    BY <2>2, CalendarAssumption
  <2>5. day' = Mktime(date')
    <3>1. Mktime(NextDate(date)) = Mktime(date) + 1
      BY <2>2, <2>4, MktimeCounts
    <3> QED
      BY <2>1, <2>2, <3>1
  <2> QED
    BY <2>2, <2>3, <2>5 DEF CalendarInv
<1> QED
  BY <1>1, <1>2

-----------------------------------------------------------------------------
(* What holds of every valid date from 1970 on.                            *)

LEMMA StampsOf ==
  ASSUME NEW t, Valid(t), t.y >= 1970, NEW h \in 0 .. 23
  PROVE  /\ Stamp(t) = Mktime(t) + IF t.y % 4 = 0 /\ ~Leap(t.y) /\ t.m > 2 THEN 1 ELSE 0
         /\ ToDate(24 * Mktime(t) + h, 1900) = t
<1>1. PICK y \in Nat \ {0}, m \in 1 .. 12, d \in Nat :
        t = Date(y, m, d) /\ t.y = y /\ t.m = m /\ t.d = d /\ d \in 1 .. MonthLength(y, m) /\ y >= 1970
  <2>1. t.y \in Nat \ {0} /\ t.m \in 1 .. 12 /\ t.d \in 1 .. MonthLength(t.y, t.m)
    BY DEF Valid
  <2>2. t.d \in Nat
    BY <2>1, MonthLengthIs
  <2>3. t = Date(t.y, t.m, t.d)
    BY DEF Valid
  <2> QED
    BY <2>1, <2>2, <2>3
<1>2. Stamp(t) = Mktime(t) + IF y % 4 = 0 /\ ~Leap(y) /\ m > 2 THEN 1 ELSE 0
  BY <1>1, TmtoTIs DEF Stamp
<1>3. Mktime(t) \in Int /\ ~(Mktime(t) < 0)
  BY <1>1, Signs
<1>4. 24 * Mktime(t) + h \in Int /\ CDiv(24 * Mktime(t) + h, 24) = Mktime(Date(y, m, d))
  <2>1. DayTaken(Mktime(t), h)
    BY <1>3, Truncates
  <2> QED
    BY <1>1, <1>3, <2>1 DEF DayTaken
<1>5. ToDate(24 * Mktime(t) + h, 1900) = Date(y - 1900 + 1900, m, d)
  BY <1>1, <1>4, ToDateUndoes
<1>6. y - 1900 + 1900 = y
  OBVIOUS
<1> QED
  BY <1>1, <1>2, <1>5, <1>6

LEMMA ShiftedStampsOf ==
  ASSUME NEW t, Valid(t), t.y >= 1970, NEW h \in 0 .. 23
  PROVE  LET assumed == t.y - 20
             ahead == assumed % 4 = 0 /\ ~Leap(assumed) /\ (t.m > 2 \/ (t.m = 2 /\ t.d = 29))
             early == assumed < 1970 /\ h > 0
         IN  ToDate(24 * StampExt(t) + h, 1920) = IF ahead \/ early THEN NextDate(t) ELSE t
<1>1. PICK y \in Nat \ {0}, m \in 1 .. 12, d \in Nat :
        t = Date(y, m, d) /\ t.y = y /\ t.m = m /\ t.d = d /\ d \in 1 .. MonthLength(y, m) /\ y >= 1970
  <2>1. t.y \in Nat \ {0} /\ t.m \in 1 .. 12 /\ t.d \in 1 .. MonthLength(t.y, t.m)
    BY DEF Valid
  <2>2. t.d \in Nat
    BY <2>1, MonthLengthIs
  <2>3. t = Date(t.y, t.m, t.d)
    BY DEF Valid
  <2> QED
    BY <2>1, <2>2, <2>3
<1>2. PICK w \in Nat \ {0} : w = y - 20
  BY <1>1
<1>3. w > 1900 /\ y - 1920 = w - 1900 /\ w + 20 = y
  BY <1>1, <1>2
<1> DEFINE u == Date(w, m, d)
           s == StampExt(t)
           ahead == w % 4 = 0 /\ ~Leap(w) /\ (m > 2 \/ (m = 2 /\ d = 29))
           early == w < 1970 /\ h > 0
<1>4. s = Mktime(u) + IF w % 4 = 0 /\ ~Leap(w) /\ m > 2 THEN 1 ELSE 0
  BY <1>1, <1>3, TmtoTIs DEF StampExt
<1> SUFFICES ToDate(24 * s + h, 1920) = IF ahead \/ early THEN NextDate(t) ELSE t
  BY <1>1, <1>2
<1>5. ASSUME NEW yy \in Nat \ {0}, NEW mm \in 1 .. 12, NEW dd \in 1 .. MonthLength(yy, mm),
             s \in Int, CDiv(24 * s + h, 24) = Mktime(Date(yy, mm, dd))
      PROVE  ToDate(24 * s + h, 1920) = Date(yy + 20, mm, dd)
  <2> HIDE DEF s
  <2>1. 24 * s + h \in Int
    BY <1>5
  <2>2. ToDate(24 * s + h, 1920) = Date(yy - 1900 + 1920, mm, dd)
    BY <1>5, <2>1, ToDateUndoes
  <2>3. yy - 1900 + 1920 = yy + 20
    OBVIOUS
  <2> QED
    BY <2>2, <2>3
<1>6. CASE d <= MonthLength(w, m)
  <2>1. Valid(u) /\ u.y = w /\ u.m = m /\ u.d = d
    BY <1>1, <1>6, MonthLengthIs DEF Valid, Date
  <2>2. Mktime(u) \in Int /\ (w < 1970 <=> Mktime(u) < 0)
    BY <1>3, <2>1, Signs
  <2>3. d \in 1 .. MonthLength(w, m)
    BY <1>1, <1>6, MonthLengthIs
  <2>4. s \in Int
    BY <1>4, <2>2
  <2>5. ahead <=> w % 4 = 0 /\ ~Leap(w) /\ m > 2
    <3>1. m = 2 /\ d = 29 => Leap(w)
      BY <1>6, MonthLengthIs
    <3> QED
      BY <3>1
  <2>6. CASE ~(ahead \/ early)
    <3>1. s = Mktime(u)
      BY <1>4, <2>2, <2>5, <2>6
    <3>2. CDiv(24 * s + h, 24) = Mktime(Date(w, m, d))
      <4> HIDE DEF s, u
      <4>1. CDiv(24 * s + h, 24) = s
        <5>1. DayTaken(s, h)
          BY <2>4, Truncates
        <5> QED
          BY <2>2, <2>4, <2>6, <3>1, <5>1 DEF DayTaken
      <4> QED
        BY <4>1, <3>1 DEF u
    <3>3. ToDate(24 * s + h, 1920) = Date(w + 20, m, d)
      <4> HIDE DEF s
      <4> QED
        BY <1>5, <2>3, <2>4, <3>2
    <3> QED
      BY <1>1, <1>3, <2>6, <3>3
  <2>7. CASE ahead \/ early
    <3>1. CDiv(24 * s + h, 24) = Mktime(u) + 1
      <4>1. CASE ahead
        <5>1. w >= 1970
          <6>1. w % 4 = 0 /\ ~Leap(w)
            BY <4>1
          <6> QED
            BY <6>1, <1>3 DEF Leap
        <5>2. s = Mktime(u) + 1 /\ ~(s < 0)
          BY <1>4, <2>2, <2>5, <4>1, <5>1
        <5> HIDE DEF s, u
        <5>3. DayTaken(s, h)
          BY <2>4, Truncates
        <5> QED
          BY <2>4, <5>2, <5>3 DEF DayTaken
      <4>2. CASE early /\ ~ahead
        <5>1. s = Mktime(u) /\ s < 0 /\ h > 0
          BY <1>4, <2>2, <2>5, <4>2
        <5> HIDE DEF s, u
        <5>3. DayTaken(s, h)
          BY <2>4, Truncates
        <5> QED
          BY <2>4, <5>1, <5>3 DEF DayTaken
      <4> QED
        BY <2>7, <4>1, <4>2
    <3>2. Mktime(NextDate(u)) = Mktime(u) + 1
      BY <1>3, <2>1, MktimeCounts
    <3>3. Valid(NextDate(u))
      BY <2>1, NextIsValid
    <3>4. PICK n : n = NextDate(u)
      OBVIOUS
    <3>5. Valid(n) /\ n.y > 0
      <4>1. NextDate(u).y > 0
        BY <2>1, <1>3 DEF NextDate, Date
      <4> QED
        BY <3>3, <3>4, <4>1
    <3>6. n.y \in Nat \ {0} /\ n.m \in 1 .. 12 /\ n.d \in 1 .. MonthLength(n.y, n.m) /\ n = Date(n.y, n.m, n.d)
      BY <3>5 DEF Valid
    <3>7. ToDate(24 * s + h, 1920) = Date(n.y + 20, n.m, n.d)
      <4>1. CDiv(24 * s + h, 24) = Mktime(Date(n.y, n.m, n.d))
        BY <3>1, <3>2, <3>4, <3>6
      <4> HIDE DEF s
      <4> QED
        BY <1>5, <2>4, <3>6, <4>1
    <3>8. MonthLength(y, m) = MonthLength(y - 20, m)
      <4>1. m # 2 \/ (Leap(y) <=> Leap(y - 20))
        <5>1. CASE m = 2
          <6>1. early
            BY <2>5, <2>7, <5>1
          <6> QED
            BY <6>1, <1>1, <1>2 DEF Leap
        <5> QED
          BY <5>1
      <4> QED
        BY <4>1, <1>1, MonthsAlike
    <3>9. NextDate(Date(y, m, d)) = Date(n.y + 20, n.m, n.d)
      <4>1. y - 20 = w /\ y >= 20
        BY <1>1, <1>2
      <4>2. n = NextDate(Date(y - 20, m, d))
        BY <3>4, <4>1
      <4> QED
        BY <3>8, <4>1, <4>2, SameNext
    <3> QED
      BY <1>1, <2>7, <3>7, <3>9
  <2> QED
    BY <2>6, <2>7
<1>7. CASE ~(d <= MonthLength(w, m))
  <2>1. m = 2 /\ d = 29 /\ Leap(y) /\ ~Leap(w)
    <3>1. m = 2
      BY <1>1, <1>7, MonthLengthIs
    <3> QED
      BY <1>1, <1>7, <3>1, MonthLengthIs
  <2>2. w % 4 = 0 /\ w >= 1970
    BY <2>1, <1>1, <1>2 DEF Leap
  <2>3. ahead
    BY <2>1, <2>2
  <2>4. s = Mktime(Date(w, 3, 1))
    <3>1. s = Mktime(Date(w, 2, 29))
      <4>1. Mktime(Date(w, 2, 29)) \in Int
        <5>1. Mktime(Date(w, 2, 29)) = MarchDay(w - 1, 2, 29) /\ w - 1 \in Nat
          BY MktimeIs
        <5>2. LeapDays(w - 1) \in Int /\ BeforeMonth(2) \in Int
          BY <5>1, CountsAreInt
        <5> QED
          BY <5>1, <5>2 DEF MarchDay
      <4>2. s = Mktime(u) + 0
        BY <1>4, <2>1
      <4> HIDE DEF s
      <4> QED
        BY <2>1, <4>1, <4>2
    <3> QED
      BY <3>1, <2>1, NoLeapDay
  <2>5. MonthLength(w, 3) = 31
    BY MonthLengthIs
  <2>6. Valid(Date(w, 3, 1)) /\ Date(w, 3, 1).y = w
    BY <2>5 DEF Valid, Date
  <2>7. s \in Int /\ ~(s < 0)
    <3>1. Mktime(Date(w, 3, 1)) \in Int /\ ~(Mktime(Date(w, 3, 1)) < 0)
      BY <1>3, <2>2, <2>6, Signs
    <3> QED
      BY <3>1, <2>4
  <2>8. CDiv(24 * s + h, 24) = Mktime(Date(w, 3, 1))
    <3> HIDE DEF s
    <3>1. CDiv(24 * s + h, 24) = s
      <4>1. DayTaken(s, h)
        BY <2>7, Truncates
      <4> QED
        BY <2>7, <4>1 DEF DayTaken
    <3> QED
      BY <3>1, <2>4
  <2>9. ToDate(24 * s + h, 1920) = Date(w + 20, 3, 1)
    <3>1. 3 \in 1 .. 12 /\ 1 \in 1 .. MonthLength(w, 3)
      BY <2>5
    <3> HIDE DEF s
    <3> QED
      BY <1>5, <2>7, <2>8, <3>1
  <2>10. NextDate(t) = Date(y, 3, 1)
    <3>1. MonthLength(y, 2) = 29
      BY <2>1, MonthLengthIs
    <3> QED
      BY <1>1, <2>1, <3>1 DEF NextDate
  <2> QED
    BY <1>3, <2>3, <2>9, <2>10
<1> QED
  BY <1>6, <1>7

(* DateVerify and lastday have their own months.                           *)
Verifies(y, m, d) ==
  DateVerify(y, m, d) <=>
    /\ y \in 1990 .. 2169
    /\ m \in 1 .. 12 /\ d \in 1 .. MonthLength(y, m)
    /\ y = 2169 => m < 6 \/ (m = 6 /\ d <= 6)

LEMMA VerifiesOf ==
  ASSUME NEW y \in Nat, NEW m \in 0 .. 13, NEW d \in 0 .. 32
  PROVE  Verifies(y, m, d)
<1>1. CASE m \notin 1 .. 12
  BY <1>1 DEF Verifies, DateVerify
<1>2. CASE m = 2
  <2>1. MonthLength(y, m) = IF (y % 4 = 0 /\ y % 100 # 0) \/ y % 400 = 0 THEN 29 ELSE 28
    BY <1>2 DEF MonthLength, Leap
  <2> QED
    BY <1>2, <2>1 DEF Verifies, DateVerify
<1>3. CASE m \in {4, 6, 9, 11}
  <2>1. MonthLength(y, m) = 30
    BY <1>3, MonthLengthIs
  <2> QED
    BY <1>3, <2>1 DEF Verifies, DateVerify
<1>4. CASE m \in {1, 3, 5, 7, 8, 10, 12}
  <2>1. MonthLength(y, m) = 31
    BY <1>4, MonthLengthIs
  <2> QED
    BY <1>4, <2>1 DEF Verifies, DateVerify
<1> QED
  BY <1>1, <1>2, <1>3, <1>4

LEMMA LastDayIs ==
  ASSUME NEW y \in Nat, NEW m \in 1 .. 12
  PROVE  LastDay(y, m) = MonthLength(y, m)
BY DEF LastDay, MonthLength, Leap

LEMMA AheadOf ==
  ASSUME NEW t, Valid(t), NEW h \in 0 .. 23
  PROVE  UTCToBeijing(t, h) = IF h < 16 THEN <<t, h + 8>> ELSE <<NextDate(t), h - 16>>
<1>1. t.y \in Nat /\ t.m \in 1 .. 12 /\ t.d \in 1 .. MonthLength(t.y, t.m)
  BY DEF Valid
<1>2. LastDay(t.y, t.m) = MonthLength(t.y, t.m) /\ MonthLength(t.y, t.m) \in 28 .. 31
  BY <1>1, LastDayIs, MonthLengthIs
<1>3. t.d \in Nat /\ t.d <= MonthLength(t.y, t.m)
  BY <1>1, <1>2
<1>4. CASE h < 16
  <2>1. h + 8 < 24
    BY <1>4
  <2> QED
    BY <1>4, <2>1 DEF UTCToBeijing
<1>5. CASE ~(h < 16)
  <2>1. ~(h + 8 < 24)
    BY <1>5
  <2>2. CASE t.d < MonthLength(t.y, t.m)
    <3>1. t.d + 1 <= LastDay(t.y, t.m)
      BY <1>2, <1>3, <2>2
    <3> QED
      BY <1>5, <2>1, <2>2, <3>1 DEF UTCToBeijing, NextDate
  <2>3. CASE ~(t.d < MonthLength(t.y, t.m))
    <3>1. ~(t.d + 1 <= LastDay(t.y, t.m)) /\ (t.d + 1) - LastDay(t.y, t.m) = 1
      BY <1>2, <1>3, <2>3
    <3> QED
      BY <1>5, <2>1, <2>3, <3>1 DEF UTCToBeijing, NextDate
  <2> QED
    BY <2>2, <2>3
<1> QED
  BY <1>4, <1>5

GoesBack(t, h) ==
  LET there == UTCToBeijing(t, h)
      back == BeijingToUTC(there[1], there[2])
  IN  IF h >= 16 /\ t.d = MonthLength(t.y, t.m)
         /\ t.d # MonthLength(there[1].y, there[1].m)
        THEN back = <<Date(t.y, t.m, MonthLength(there[1].y, there[1].m)), h>>
        ELSE back = <<t, h>>

LEMMA BackOf ==
  ASSUME NEW t, Valid(t), NEW h \in 0 .. 23
  PROVE  GoesBack(t, h)
<1>1. t.y \in Nat /\ t.m \in 1 .. 12 /\ t.d \in 1 .. MonthLength(t.y, t.m) /\ t = Date(t.y, t.m, t.d)
  BY DEF Valid
<1>2. MonthLength(t.y, t.m) \in 28 .. 31 /\ (t.m = 12 => MonthLength(t.y, t.m) = 31)
  BY <1>1, MonthLengthIs
<1>3. t.d \in Nat /\ t.d >= 1 /\ t.d <= MonthLength(t.y, t.m)
  BY <1>1, <1>2
<1> DEFINE there == UTCToBeijing(t, h)
           back == BeijingToUTC(there[1], there[2])
<1>4. CASE h < 16
  <2>1. there[1] = t /\ there[2] = h + 8
    BY <1>4, AheadOf
  <2>2. h + 8 >= 8 /\ (h + 8) - 8 = h /\ ~(h >= 16)
    BY <1>4
  <2>3. back = <<t, h>>
    BY <2>1, <2>2 DEF BeijingToUTC
  <2> QED
    BY <2>2, <2>3 DEF GoesBack
<1>5. CASE ~(h < 16)
  <2> DEFINE n == NextDate(t)
  <2>1. there[1] = n /\ there[2] = h - 16
    BY <1>5, AheadOf
  <2>2. h >= 16 /\ ~(h - 16 >= 8) /\ (h - 16) + 16 = h
    BY <1>5
  <2>3. CASE t.d < MonthLength(t.y, t.m)
    <3>1. n = Date(t.y, t.m, t.d + 1)
      BY <2>3 DEF NextDate
    <3>2. n.y = t.y /\ n.m = t.m /\ n.d = t.d + 1
      BY <3>1 DEF Date
    <3>3. t.d + 1 > 1 /\ (t.d + 1) - 1 = t.d /\ t.d # MonthLength(t.y, t.m)
      BY <1>2, <1>3, <2>3
    <3> HIDE DEF n
    <3>4. back = <<t, h>>
      BY <1>1, <2>1, <2>2, <3>2, <3>3 DEF BeijingToUTC
    <3> QED
      BY <3>3, <3>4 DEF GoesBack
  <2>4. CASE ~(t.d < MonthLength(t.y, t.m)) /\ t.m < 12
    <3>1. n = Date(t.y, t.m + 1, 1)
      BY <2>4 DEF NextDate
    <3>2. n.y = t.y /\ n.m = t.m + 1 /\ n.d = 1
      BY <3>1 DEF Date
    <3>3. t.m + 1 > 1 /\ (t.m + 1) - 1 = t.m /\ t.m + 1 \in 1 .. 12 /\ ~(1 > 1)
      BY <1>1, <2>4
    <3>4. LastDay(n.y, n.m) = MonthLength(n.y, n.m)
      BY <1>1, <3>2, <3>3, LastDayIs
    <3> HIDE DEF n
    <3>5. back = <<Date(t.y, t.m, MonthLength(n.y, n.m)), h>>
      BY <2>1, <2>2, <3>2, <3>3, <3>4 DEF BeijingToUTC
    <3>6. t.d = MonthLength(t.y, t.m)
      BY <1>2, <1>3, <2>4
    <3>7. CASE t.d = MonthLength(n.y, n.m)
      BY <1>1, <2>1, <3>5, <3>7 DEF GoesBack
    <3>8. CASE t.d # MonthLength(n.y, n.m)
      BY <2>1, <2>2, <3>5, <3>6, <3>8 DEF GoesBack
    <3> QED
      BY <3>7, <3>8
  <2>5. CASE ~(t.d < MonthLength(t.y, t.m)) /\ t.m = 12
    <3>1. n = Date(t.y + 1, 1, 1)
      BY <2>5 DEF NextDate
    <3>2. n.y = t.y + 1 /\ n.m = 1 /\ n.d = 1
      BY <3>1 DEF Date
    <3>3. t.y + 1 \in Nat /\ (t.y + 1) - 1 = t.y /\ ~(1 > 1)
      BY <1>1
    <3>4. LastDay(n.y, n.m) = 31 /\ MonthLength(n.y, n.m) = 31
      BY <3>2, <3>3, LastDayIs, MonthLengthIs
    <3> HIDE DEF n
    <3>5. back = <<Date(t.y, 12, 31), h>>
      BY <2>1, <2>2, <3>2, <3>3, <3>4 DEF BeijingToUTC
    <3>6. t.d = 31
      BY <1>2, <1>3, <2>5
    <3>7. back = <<t, h>>
      BY <1>1, <2>5, <3>5, <3>6
    <3> QED
      BY <2>1, <3>4, <3>6, <3>7 DEF GoesBack
  <2> QED
    <3>1. t.m < 12 \/ t.m = 12
      BY <1>1
    <3> QED
      BY <2>3, <2>4, <2>5, <3>1
<1> QED
  BY <1>4, <1>5

(* Whatever the day and the year, up to the last that minutes in an int    *)
(* reach, days are numbered, checked and moved between zones by the        *)
(* calendar, but for the days the parts of CalendarSound name.             *)
THEOREM CalendarIsSound == CalendarSpec => []CalendarSound
<1>1. CalendarInv => CalendarSound
  <2> SUFFICES ASSUME CalendarInv, date # NoDate
               PROVE  StampsNumberDays /\ ShiftedStampsReturn /\ VerifiesCalendar
                      /\ BeijingIsAhead /\ BackToUTC
    BY DEF CalendarSound
  <2>1. Valid(date) /\ date.y >= 1970 /\ day = Mktime(date)
    BY DEF CalendarInv
  <2>2. \A h \in Hours : h \in 0 .. 23
    BY CalendarAssumption
  <2>3. StampsNumberDays
    <3>1. \A h \in Hours : ToDate(24 * day + h, 1900) = date
      BY <2>1, <2>2, StampsOf
    <3>2. Stamp(date) = day + IF date.y % 4 = 0 /\ ~Leap(date.y) /\ date.m > 2 THEN 1 ELSE 0
      <4>1. 0 \in 0 .. 23
        OBVIOUS
      <4> QED
        BY <2>1, <4>1, StampsOf
    <3> QED
      BY <2>1, <3>1, <3>2 DEF StampsNumberDays
  <2>4. ShiftedStampsReturn
    BY <2>1, <2>2, ShiftedStampsOf DEF ShiftedStampsReturn
  <2>5. VerifiesCalendar
    <3>1. date.y \in Nat
      BY <2>1 DEF Valid
    <3> SUFFICES ASSUME NEW m \in 0 .. 13, NEW d \in 0 .. 32
                 PROVE  DateVerify(date.y, m, d) <=>
                          /\ date.y \in 1990 .. 2169
                          /\ m \in 1 .. 12 /\ d \in 1 .. MonthLength(date.y, m)
                          /\ date.y = 2169 => m < 6 \/ (m = 6 /\ d <= 6)
      BY DEF VerifiesCalendar
    <3>2. Verifies(date.y, m, d)
      BY <3>1, VerifiesOf
    <3> QED
      BY <3>2 DEF Verifies
  <2>6. BeijingIsAhead
    BY <2>1, <2>2, AheadOf DEF BeijingIsAhead
  <2>7. BackToUTC
    <3> SUFFICES ASSUME NEW h \in Hours
                 PROVE  LET there == UTCToBeijing(date, h)
                            back == BeijingToUTC(there[1], there[2])
                        IN  IF h >= 16 /\ date.d = MonthLength(date.y, date.m)
                               /\ date.d # MonthLength(there[1].y, there[1].m)
                              THEN back = <<Date(date.y, date.m, MonthLength(there[1].y, there[1].m)), h>>
                              ELSE back = <<date, h>>
      BY Zenon DEF BackToUTC
    <3>1. h \in 0 .. 23
      BY <2>2
    <3>2. GoesBack(date, h)
      BY <2>1, <3>1, BackOf
    <3> QED
      BY <3>2 DEF GoesBack
  <2> QED
    BY <2>3, <2>4, <2>5, <2>6, <2>7
<1> QED
  BY <1>1, CalendarStarts, CalendarGoesOn, PTL DEF CalendarSpec

-----------------------------------------------------------------------------
(* The texts                                                                *)

TextsOf == Seq(0 .. 7)

(* No character reaches over position p.                                    *)
Boundary(s, p) == \A q \in DOMAIN s : q < p /\ Char(s, q) => q + s[q] <= p

(* What starts has to be for the text to be well-formed.                    *)
Covered(s, starts) ==
  /\ starts \subseteq DOMAIN s
  /\ \A p \in starts : Char(s, p)
  /\ \A i \in DOMAIN s : \E p \in starts : i \in CharAt(s, p)
  /\ \A p, q \in starts : CharAt(s, p) \cap CharAt(s, q) # {} => p = q

LEMMA TextFacts ==
  ASSUME NEW s \in TextsOf
  PROVE  /\ Len(s) \in Nat /\ DOMAIN s = 1 .. Len(s)
         /\ \A i \in DOMAIN s : i \in Nat \ {0} /\ i <= Len(s) /\ s[i] \in Int /\ 0 <= s[i] /\ s[i] <= 7
BY DEF TextsOf

(* A character lies in the text and is followed by no part of another:     *)
(* what continues one begins none.                                          *)
LEMMA CharsApart ==
  ASSUME NEW s \in TextsOf, NEW p \in DOMAIN s, NEW q \in DOMAIN s, Char(s, p), Char(s, q), p < q
  PROVE  p + s[p] <= q
<1>1. s[p] \in 1 .. 6 /\ s[q] \in 1 .. 6 /\ p \in Int /\ q \in Int
  BY TextFacts DEF Char
<1>2. ASSUME q < p + s[p] PROVE FALSE
  <2>1. q \in p + 1 .. p + s[p] - 1
    BY <1>1, <1>2
  <2>2. s[q] = 0
    BY <2>1 DEF Char
  <2> QED
    BY <1>1, <2>2
<1> QED
  BY <1>1, <1>2

LEMMA CharBounds ==
  ASSUME NEW s \in TextsOf, NEW p \in DOMAIN s, Char(s, p)
  PROVE  /\ s[p] \in 1 .. 6 /\ p + s[p] <= Len(s) + 1
         /\ \A i \in Int : i \in CharAt(s, p) <=> p <= i /\ i < p + s[p]
         /\ \A i \in CharAt(s, p) : i \in DOMAIN s /\ (i # p => s[i] = 0)
<1>1. s[p] \in 1 .. 6 /\ p \in Nat \ {0} /\ p + s[p] - 1 <= Len(s) /\ Len(s) \in Nat /\ DOMAIN s = 1 .. Len(s)
  BY TextFacts DEF Char
<1>2. \A i \in Int : i \in CharAt(s, p) <=> p <= i /\ i < p + s[p]
  BY <1>1 DEF CharAt
<1>3. ASSUME NEW i \in CharAt(s, p) PROVE i \in DOMAIN s /\ (i # p => s[i] = 0)
  <2>1. i \in Int /\ p <= i /\ i <= p + s[p] - 1
    BY <1>1, <1>3 DEF CharAt
  <2>2. i \in 1 .. Len(s)
    BY <1>1, <2>1
  <2>3. ASSUME i # p PROVE s[i] = 0
    <3>1. i \in p + 1 .. p + s[p] - 1
      BY <1>1, <2>1, <2>3
    <3> QED
      BY <3>1 DEF Char
  <2> QED
    BY <1>1, <2>2, <2>3
<1> QED
  BY <1>1, <1>2, <1>3

(* In well-formed text every byte that continues none begins one, and so   *)
(* does every byte after a character.                                       *)
LEMMA LeadsBegin ==
  ASSUME NEW s \in TextsOf, WellFormed(s), NEW p \in DOMAIN s, s[p] # 0
  PROVE  Char(s, p)
<1>1. PICK q \in DOMAIN s : Char(s, q) /\ p \in CharAt(s, q)
  BY DEF WellFormed
<1>2. p = q
  BY <1>1, CharBounds
<1> QED
  BY <1>1, <1>2

LEMMA BoundariesBegin ==
  ASSUME NEW s \in TextsOf, WellFormed(s), NEW p \in DOMAIN s, Boundary(s, p)
  PROVE  Char(s, p)
<1>1. PICK q \in DOMAIN s : Char(s, q) /\ p \in CharAt(s, q)
  BY DEF WellFormed
<1>2. p \in Int /\ q \in Int /\ s[q] \in Int /\ q <= p /\ p < q + s[q]
  <2>1. p \in Int /\ q \in Int
    BY TextFacts
  <2> QED
    BY <1>1, <2>1, CharBounds
<1>3. ~(q < p)
  BY <1>1, <1>2 DEF Boundary
<1>4. p = q
  BY <1>2, <1>3
<1> QED
  BY <1>1, <1>4

(* From a boundary the walk goes to a boundary.                             *)
LEMMA WalkOverChar ==
  ASSUME NEW s \in TextsOf, NEW p \in DOMAIN s, Boundary(s, p), Char(s, p)
  PROVE  Boundary(s, p + s[p])
<1>1. s[p] \in Int /\ p \in Int
  BY TextFacts
<1> SUFFICES ASSUME NEW q \in DOMAIN s, q < p + s[p], Char(s, q) PROVE q + s[q] <= p + s[p]
  BY DEF Boundary
<1>2. q \in Int /\ s[q] \in Int /\ s[p] \in 1 .. 6
  BY TextFacts DEF Char
<1>3. CASE q < p
  BY <1>1, <1>2, <1>3 DEF Boundary
<1>4. CASE q = p
  BY <1>1, <1>4
<1>5. CASE p < q
  <2>1. p + s[p] <= q
    BY <1>5, CharsApart
  <2> QED
    BY <1>1, <1>2, <2>1
<1> QED
  BY <1>1, <1>2, <1>3, <1>4, <1>5

LEMMA WalkOverByte ==
  ASSUME NEW s \in TextsOf, NEW p \in DOMAIN s, Boundary(s, p), ~Char(s, p)
  PROVE  Boundary(s, p + 1)
<1> SUFFICES ASSUME NEW q \in DOMAIN s, q < p + 1, Char(s, q) PROVE q + s[q] <= p + 1
  BY DEF Boundary
<1>1. q \in Int /\ p \in Int /\ s[q] \in Int /\ q # p
  BY TextFacts
<1>2. q < p
  BY <1>1
<1> QED
  BY <1>1, <1>2 DEF Boundary

-----------------------------------------------------------------------------
(* Parts of a text                                                          *)

LEMMA PrefixFacts ==
  ASSUME NEW s \in TextsOf, NEW n \in 0 .. Len(s)
  PROVE  /\ Prefix(s, n) \in TextsOf /\ Len(Prefix(s, n)) = n
         /\ \A i \in 1 .. n : i \in DOMAIN s /\ Prefix(s, n)[i] = s[i]
BY DEF TextsOf, Prefix

LEMMA PrefixChars ==
  ASSUME NEW s \in TextsOf, NEW n \in 0 .. Len(s), NEW p \in 1 .. n
  PROVE  Char(Prefix(s, n), p) <=> Char(s, p) /\ p + s[p] - 1 <= n
<1>1. /\ Len(Prefix(s, n)) = n /\ \A i \in 1 .. n : Prefix(s, n)[i] = s[i]
      /\ Len(s) \in Nat /\ s[p] \in Int
  BY PrefixFacts, TextFacts
<1>2. ASSUME s[p] \in 1 .. 6, p + s[p] - 1 <= n
      PROVE  \A i \in p + 1 .. p + s[p] - 1 : Prefix(s, n)[i] = s[i]
  BY <1>1, <1>2
<1>3. Prefix(s, n)[p] = s[p]
  BY <1>1
<1>4. n <= Len(s) /\ n \in Int
  OBVIOUS
<1>5. ASSUME Char(Prefix(s, n), p) PROVE Char(s, p) /\ p + s[p] - 1 <= n
  <2>1. s[p] \in 1 .. 6 /\ p + s[p] - 1 <= n
    BY <1>1, <1>3, <1>5 DEF Char
  <2>2. p + s[p] - 1 <= Len(s)
    BY <1>1, <1>4, <2>1
  <2> QED
    BY <1>2, <1>3, <1>5, <2>1, <2>2 DEF Char
<1>6. ASSUME Char(s, p), p + s[p] - 1 <= n PROVE Char(Prefix(s, n), p)
  BY <1>1, <1>2, <1>3, <1>6 DEF Char
<1> QED
  BY <1>5, <1>6

(* A well-formed text is so up to its boundaries, and nowhere else.         *)
LEMMA BoundariesCut ==
  ASSUME NEW s \in TextsOf, WellFormed(s), NEW n \in 0 .. Len(s)
  PROVE  WellFormed(Prefix(s, n)) <=> Boundary(s, n + 1)
<1>1. /\ Prefix(s, n) \in TextsOf /\ DOMAIN Prefix(s, n) = 1 .. n
      /\ \A i \in 1 .. n : i \in DOMAIN s /\ Prefix(s, n)[i] = s[i]
  BY PrefixFacts, TextFacts
<1>2. ASSUME Boundary(s, n + 1) PROVE WellFormed(Prefix(s, n))
  <2> DEFINE starts == {p \in 1 .. n : Char(s, p)}
  <2>1. ASSUME NEW p \in starts
        PROVE  Char(Prefix(s, n), p) /\ CharAt(Prefix(s, n), p) = CharAt(s, p) /\ p \in DOMAIN s
    <3>1. p \in DOMAIN s /\ p \in Int /\ s[p] \in Int /\ p < n + 1 /\ n \in Int
      BY <1>1, TextFacts
    <3>2. p + s[p] <= n + 1
      BY <1>2, <3>1 DEF Boundary
    <3> QED
      BY <1>1, <3>1, <3>2, PrefixChars DEF CharAt
  <2>2. ASSUME NEW i \in 1 .. n PROVE \E p \in starts : i \in CharAt(s, p)
    <3>1. PICK p \in DOMAIN s : Char(s, p) /\ i \in CharAt(s, p)
      BY <1>1 DEF WellFormed
    <3>2. p \in Int /\ p >= 1 /\ p <= i
      BY <3>1, TextFacts, CharBounds
    <3> QED
      BY <3>1, <3>2
  <2>3. ASSUME NEW p \in starts, NEW q \in starts, CharAt(s, p) \cap CharAt(s, q) # {} PROVE p = q
    <3>1. /\ p \in DOMAIN s /\ q \in DOMAIN s /\ p \in Int /\ q \in Int
          /\ Char(s, p) /\ Char(s, q) /\ s[p] \in Int /\ s[q] \in Int
      BY <2>1, TextFacts
    <3>2. PICK i : i \in CharAt(s, p) /\ i \in CharAt(s, q)
      BY <2>3
    <3>3. i \in Int /\ p <= i /\ i < p + s[p] /\ q <= i /\ i < q + s[q]
      BY <3>1, <3>2 DEF CharAt
    <3>4. ~(p < q) /\ ~(q < p)
      BY <3>1, <3>3, CharsApart
    <3> QED
      BY <3>1, <3>4
  <2> HIDE DEF starts
  <2>4. starts \in SUBSET DOMAIN Prefix(s, n)
    BY <1>1 DEF starts
  <2>5. /\ \A p \in starts : Char(Prefix(s, n), p)
        /\ \A i \in DOMAIN Prefix(s, n) : \E p \in starts : i \in CharAt(Prefix(s, n), p)
    BY <1>1, <2>1, <2>2
  <2>6. \A p, q \in starts : CharAt(Prefix(s, n), p) \cap CharAt(Prefix(s, n), q) # {} => p = q
    BY <2>1, <2>3
  <2> QED
    BY <2>4, <2>5, <2>6 DEF WellFormed
<1>3. ASSUME WellFormed(Prefix(s, n)), NEW q \in DOMAIN s, q < n + 1, Char(s, q)
      PROVE  q + s[q] <= n + 1
  <2>1. q \in 1 .. n /\ q \in Int /\ s[q] \in Int /\ n \in Int
    BY <1>3, TextFacts
  <2>2. PICK r \in 1 .. n : Char(Prefix(s, n), r) /\ q \in CharAt(Prefix(s, n), r)
    BY <1>1, <1>3, <2>1 DEF WellFormed
  <2>3. Char(s, r) /\ r + s[r] - 1 <= n /\ q \in CharAt(s, r) /\ r \in DOMAIN s
    BY <1>1, <2>2, PrefixChars DEF CharAt
  <2>4. r = q
    BY <1>3, <2>3, CharBounds
  <2> QED
    BY <2>1, <2>3, <2>4
<1> QED
  BY <1>2, <1>3 DEF Boundary

-----------------------------------------------------------------------------
(* What the filter copies                                                   *)

LEMMA EmptyIsWellFormed == WellFormed(<<>>)
<1>1. DOMAIN <<>> = {}
  OBVIOUS
<1> QED
  BY <1>1 DEF WellFormed

(* A character behind a well-formed text makes a well-formed text.          *)
LEMMA AppendedChar ==
  ASSUME NEW t \in TextsOf, WellFormed(t), NEW c \in TextsOf, c # <<>>, Char(c, 1), c[1] = Len(c)
  PROVE  WellFormed(t \o c)
<1> DEFINE u == t \o c
           n == Len(t)
<1>1. /\ u \in TextsOf /\ Len(u) = n + Len(c) /\ n \in Nat /\ DOMAIN u = 1 .. n + Len(c)
      /\ \A i \in 1 .. n + Len(c) : u[i] = IF i <= n THEN t[i] ELSE c[i - n]
      /\ DOMAIN t = 1 .. n
  BY ConcatProperties, TextFacts DEF TextsOf
<1>2. Len(c) \in 1 .. 6 /\ \A i \in 2 .. Len(c) : c[i] = 0
  BY DEF Char
<1> HIDE DEF u, n
<1>3. PICK starts : Covered(t, starts)
  BY DEF WellFormed, Covered
<1>4. ASSUME NEW p \in starts
      PROVE  p \in Int /\ p >= 1 /\ p <= n /\ Char(u, p) /\ CharAt(u, p) = CharAt(t, p) /\ \A i \in CharAt(t, p) : i \in Int /\ i <= n
  <2>1. p \in DOMAIN t /\ Char(t, p)
    BY <1>3 DEF Covered
  <2>2. p \in Int /\ p >= 1 /\ p <= n /\ t[p] \in 1 .. 6 /\ p + t[p] - 1 <= n
    BY <1>1, <2>1, TextFacts DEF Char, n
  <2>3. u[p] = t[p]
    BY <1>1, <1>2, <2>2
  <2>4. \A i \in p + 1 .. p + t[p] - 1 : u[i] = t[i]
    BY <1>1, <1>2, <2>2
  <2>5. Char(u, p)
    BY <1>1, <1>2, <2>1, <2>2, <2>3, <2>4 DEF Char
  <2> QED
    BY <1>1, <2>2, <2>3, <2>5 DEF CharAt
<1>5. Char(u, n + 1) /\ CharAt(u, n + 1) = n + 1 .. n + Len(c) /\ n + 1 \in DOMAIN u
  <2>1. u[n + 1] = Len(c) /\ n + 1 \in DOMAIN u
    BY <1>1, <1>2
  <2>2. \A i \in n + 2 .. n + Len(c) : u[i] = 0
    BY <1>1, <1>2
  <2>3. PICK k \in 1 .. 6 : k = Len(c)
    BY <1>2
  <2>4. PICK p \in Nat : p = n + 1
    BY <1>1
  <2>5. u[p] = k /\ p + k - 1 = n + k /\ p + 1 = n + 2 /\ Len(u) = n + k
    BY <1>1, <2>1, <2>3, <2>4
  <2>6. \A i \in p + 1 .. p + k - 1 : u[i] = 0
    BY <2>2, <2>3, <2>5
  <2>7. p + k - 1 <= Len(u)
    BY <1>1, <2>5
  <2>8. Char(u, p)
    BY <2>5, <2>6, <2>7 DEF Char
  <2>9. CharAt(u, p) = n + 1 .. n + Len(c)
    BY <2>3, <2>4, <2>5 DEF CharAt
  <2> QED
    BY <2>1, <2>4, <2>8, <2>9
<1> DEFINE all == starts \cup {n + 1}
<1>6. all \in SUBSET DOMAIN u /\ \A p \in all : Char(u, p)
  BY <1>1, <1>2, <1>4, <1>5
<1>7. ASSUME NEW i \in DOMAIN u PROVE \E p \in all : i \in CharAt(u, p)
  <2>1. CASE i <= n
    <3>1. i \in DOMAIN t
      BY <1>1, <1>2, <2>1
    <3>2. PICK p \in starts : i \in CharAt(t, p)
      BY <1>3, <3>1 DEF Covered
    <3> QED
      BY <1>4, <3>2
  <2>2. CASE i > n
    BY <1>1, <1>2, <1>5, <2>2
  <2> QED
    BY <1>1, <1>2, <2>1, <2>2
<1>8. ASSUME NEW p \in all, NEW q \in all, CharAt(u, p) \cap CharAt(u, q) # {} PROVE p = q
  <2>1. CASE p \in starts /\ q \in starts
    BY <1>3, <1>4, <1>8, <2>1 DEF Covered
  <2>2. ASSUME NEW r \in starts PROVE CharAt(u, r) \cap CharAt(u, n + 1) = {}
    <3>1. CharAt(u, r) = CharAt(t, r) /\ \A i \in CharAt(t, r) : i \in Int /\ i <= n
      BY <1>4
    <3> QED
      BY <1>1, <1>5, <3>1
  <2> QED
    BY <1>8, <2>1, <2>2
<1> HIDE DEF all
<1>9. WellFormed(u)
  BY <1>6, <1>7, <1>8 DEF WellFormed
<1> QED
  BY <1>9 DEF u

(* Counting the bytes of whole characters.                                  *)
LEMMA WholeFacts ==
  ASSUME NEW s \in TextsOf, NEW i \in Int
  PROVE  /\ IsFiniteSet(Whole(s) \cap 1 .. i) /\ WholeUpTo(s, i) \in Nat
         /\ i <= 0 => WholeUpTo(s, i) = 0
         /\ i > 0 => WholeUpTo(s, i) = WholeUpTo(s, i - 1) + (IF i \in Whole(s) THEN 1 ELSE 0)
<1>1. \A j \in Int : IsFiniteSet(Whole(s) \cap 1 .. j) /\ Cardinality(Whole(s) \cap 1 .. j) \in Nat
  <2> SUFFICES ASSUME NEW j \in Int
               PROVE  IsFiniteSet(Whole(s) \cap 1 .. j) /\ Cardinality(Whole(s) \cap 1 .. j) \in Nat
    OBVIOUS
  <2>1. IsFiniteSet(1 .. j)
    BY FS_Interval
  <2>2. IsFiniteSet(Whole(s) \cap 1 .. j)
    BY <2>1, FS_Intersection
  <2> QED
    BY <2>2, FS_CardinalityType
<1>2. CASE i <= 0
  <2>1. Whole(s) \cap 1 .. i = {}
    BY <1>2
  <2> QED
    BY <1>1, <1>2, <2>1, FS_EmptySet DEF WholeUpTo
<1>3. CASE i > 0
  <2>1. i - 1 \in Int /\ i \notin 1 .. i - 1
    OBVIOUS
  <2>2. CASE i \in Whole(s)
    <3>1. Whole(s) \cap 1 .. i = (Whole(s) \cap 1 .. i - 1) \cup {i}
      BY <1>3, <2>2
    <3>2. PICK A : A = Whole(s) \cap 1 .. i - 1
      OBVIOUS
    <3>3. IsFiniteSet(A) /\ i \notin A
      BY <1>1, <2>1, <3>2
    <3>4. Cardinality(A \cup {i}) = Cardinality(A) + 1
      BY <3>3, FS_AddElement
    <3>5. WholeUpTo(s, i) = WholeUpTo(s, i - 1) + 1
      BY <3>1, <3>2, <3>4 DEF WholeUpTo
    <3>6. WholeUpTo(s, i) \in Nat
      BY <1>1 DEF WholeUpTo
    <3> QED
      BY <1>1, <1>3, <2>2, <3>5, <3>6
  <2>3. CASE i \notin Whole(s)
    <3>1. Whole(s) \cap 1 .. i = Whole(s) \cap 1 .. i - 1
      BY <1>3, <2>3
    <3>2. WholeUpTo(s, i) = WholeUpTo(s, i - 1) + 0
      BY <1>1, <2>1, <3>1 DEF WholeUpTo
    <3> QED
      BY <1>1, <1>3, <2>1, <2>3, <3>2 DEF WholeUpTo
  <2> QED
    BY <2>2, <2>3
<1> QED
  BY <1>2, <1>3

LEMMA WholeGrows ==
  ASSUME NEW s \in TextsOf, NEW i \in Int, NEW j \in Int, i <= j
  PROVE  WholeUpTo(s, i) <= WholeUpTo(s, j)
<1>1. Whole(s) \cap 1 .. i \subseteq Whole(s) \cap 1 .. j
  OBVIOUS
<1> QED
  BY <1>1, WholeFacts, FS_Subset DEF WholeUpTo

(* The bytes of a character count one after the other.                      *)
LEMMA CharCounts ==
  ASSUME NEW s \in TextsOf, NEW p \in DOMAIN s, Char(s, p), NEW i \in CharAt(s, p)
  PROVE  i \in Whole(s) /\ WholeUpTo(s, i) = WholeUpTo(s, p - 1) + i - p + 1
<1>1. \A j \in CharAt(s, p) : j \in Whole(s)
  BY CharBounds DEF Whole
<1>2. s[p] \in 1 .. 6 /\ p \in Int
  BY TextFacts, CharBounds
<1>3. \A j \in Int : p <= j /\ j < p + s[p] => j \in Whole(s)
  BY <1>1, CharBounds
<1>4. Whole(s) \cap 1 .. i = (Whole(s) \cap 1 .. p - 1) \cup p .. i
  <2>1. i \in Int /\ p <= i /\ i < p + s[p] /\ p >= 1
    BY <1>2, CharBounds, TextFacts DEF CharAt
  <2>2. \A j \in p .. i : j \in Whole(s) /\ j \in 1 .. i
    BY <1>2, <1>3, <2>1
  <2>3. \A j \in 1 .. i : j \in 1 .. p - 1 \/ j \in p .. i
    BY <1>2, <2>1
  <2>4. 1 .. p - 1 \subseteq 1 .. i
    BY <1>2, <2>1
  <2> QED
    BY <2>2, <2>3, <2>4
<1>5. (Whole(s) \cap 1 .. p - 1) \cap p .. i = {}
  BY <1>2
<1>6. i \in Int /\ p <= i
  BY <1>2 DEF CharAt
<1>7. IsFiniteSet(Whole(s) \cap 1 .. p - 1) /\ WholeUpTo(s, p - 1) \in Nat
  <2>1. p - 1 \in Int
    BY <1>2
  <2> QED
    BY <2>1, WholeFacts
<1>8. IsFiniteSet(p .. i) /\ Cardinality(p .. i) = i - p + 1
  BY <1>2, <1>6, FS_Interval
<1>9. PICK A : A = Whole(s) \cap 1 .. p - 1
  OBVIOUS
<1>10. PICK B : B = p .. i
  OBVIOUS
<1>11. Cardinality(A \cup B) = Cardinality(A) + Cardinality(B) - Cardinality(A \cap B)
  <2>1. IsFiniteSet(A) /\ IsFiniteSet(B)
    BY <1>7, <1>8, <1>9, <1>10
  <2> QED
    BY <2>1, FS_Union
<1>12. Cardinality(A \cap B) = 0
  BY <1>5, <1>9, <1>10, FS_EmptySet
<1>13. Cardinality(A) = WholeUpTo(s, p - 1) /\ Cardinality(A \cup B) = WholeUpTo(s, i)
  BY <1>4, <1>9, <1>10 DEF WholeUpTo
<1> QED
  BY <1>1, <1>2, <1>6, <1>7, <1>8, <1>10, <1>11, <1>12, <1>13

LEMMA SkippedCounts ==
  ASSUME NEW s \in TextsOf, NEW p \in DOMAIN s, Boundary(s, p), ~Char(s, p)
  PROVE  p \notin Whole(s) /\ WholeUpTo(s, p) = WholeUpTo(s, p - 1)
<1>1. ASSUME NEW q \in DOMAIN s, Char(s, q), p \in CharAt(s, q) PROVE FALSE
  <2>1. p \in Int /\ q \in Int /\ s[q] \in Int /\ q <= p /\ p < q + s[q]
    BY <1>1, TextFacts DEF CharAt
  <2>2. q < p
    BY <1>1, <2>1
  <2> QED
    BY <1>1, <2>1, <2>2 DEF Boundary
<1>2. p \notin Whole(s)
  BY <1>1 DEF Whole
<1>3. p \in Int /\ p > 0 /\ p - 1 \in Int
  BY TextFacts
<1>4. WholeUpTo(s, p - 1) \in Nat
  BY <1>3, WholeFacts
<1>5. WholeUpTo(s, p) = WholeUpTo(s, p - 1) + 0
  BY <1>2, <1>3, WholeFacts
<1> QED
  BY <1>2, <1>4, <1>5

(* What FilterNoneUtf8Chars has copied when it stands at place.             *)
Filters(s, at_, copy) ==
  /\ at_ <= Len(s) + 1 /\ Boundary(s, at_)
  /\ WellFormed(copy) /\ Len(copy) = WholeUpTo(s, at_ - 1)
  /\ \A i \in Whole(s) : i < at_ => copy[WholeUpTo(s, i)] = s[i]

CharText(s, p) == SubSeq(s, p, p + s[p] - 1)

Copies(s, p, c) ==
  /\ c \in TextsOf /\ c # <<>> /\ Char(c, 1) /\ Len(c) = s[p] /\ c[1] = Len(c)
  /\ \A i \in CharAt(s, p) : i - p + 1 \in 1 .. Len(c) /\ c[i - p + 1] = s[i]

LEMMA CopiedChar ==
  ASSUME NEW s \in TextsOf, NEW p \in DOMAIN s, Char(s, p)
  PROVE  Copies(s, p, CharText(s, p))
<1>0. PICK c : c = CharText(s, p)
  OBVIOUS
<1>1. PICK k \in 1 .. 6 : k = s[p]
  BY DEF Char
<1>2. p \in Nat \ {0} /\ p + k - 1 <= Len(s) /\ Len(s) \in Nat /\ DOMAIN s = 1 .. Len(s) /\ k \in Nat \ {0}
  BY <1>1, TextFacts DEF Char
<1>3. PICK e \in Int : e = p + k - 1
  BY <1>2
<1>4. p <= e /\ e - p + 1 = k /\ \A i \in p .. e : s[i] \in 0 .. 7
  BY <1>2, <1>3 DEF TextsOf
<1>5. c = SubSeq(s, p, e)
  BY <1>0, <1>1, <1>3 DEF CharText
<1>6. /\ c \in Seq(0 .. 7) /\ Len(c) = e - p + 1
      /\ \A j \in 1 .. e - p + 1 : c[j] = s[p + j - 1]
  <2>1. PICK S : S = 0 .. 7
    OBVIOUS
  <2>2. \A i \in p .. e : s[i] \in S
    BY <1>4, <2>1
  <2>3. p \in Int /\ e \in Int
    BY <1>2
  <2>4. /\ SubSeq(s, p, e) \in Seq(S) /\ Len(SubSeq(s, p, e)) = IF p <= e THEN e - p + 1 ELSE 0
        /\ \A j \in 1 .. e - p + 1 : SubSeq(s, p, e)[j] = s[p + j - 1]
    BY <2>2, <2>3, SubSeqProperties
  <2> QED
    BY <1>4, <1>5, <2>1, <2>4
<1>7. c \in TextsOf /\ Len(c) = k /\ \A j \in 1 .. k : c[j] = s[p + j - 1]
  BY <1>4, <1>6 DEF TextsOf
<1>8. c[1] = k
  BY <1>1, <1>2, <1>7
<1>9. ASSUME NEW i \in CharAt(s, p) PROVE i - p + 1 \in 1 .. k /\ c[i - p + 1] = s[i]
  <2>1. i \in Int /\ p <= i /\ i <= p + k - 1
    BY <1>1, <1>2 DEF CharAt
  <2>2. PICK j \in 1 .. k : j = i - p + 1
    BY <1>2, <2>1
  <2>3. c[j] = s[p + j - 1]
    BY <1>7
  <2>4. p + j - 1 = i
    BY <1>2, <2>1, <2>2
  <2> QED
    BY <2>2, <2>3, <2>4
<1>10. ASSUME NEW j \in 2 .. k PROVE c[j] = 0
  <2>1. PICK i \in p + 1 .. p + k - 1 : i = p + j - 1
    BY <1>2
  <2>2. s[i] = 0
    BY <1>1, <2>1 DEF Char
  <2>3. j \in 1 .. k
    BY <1>2
  <2>4. c[j] = s[i]
    BY <1>7, <2>1, <2>3
  <2> QED
    BY <2>2, <2>4
<1>11. Char(c, 1)
  <2>1. 1 + k - 1 = k /\ 1 + 1 = 2
    BY <1>2
  <2> QED
    BY <1>7, <1>8, <1>10, <2>1 DEF Char
<1>12. c # <<>>
  BY <1>2, <1>7
<1> QED
  BY <1>0, <1>1, <1>7, <1>8, <1>9, <1>11, <1>12 DEF Copies

LEMMA CopyingFilters ==
  ASSUME NEW s \in TextsOf, NEW p \in DOMAIN s, NEW copy \in TextsOf, Filters(s, p, copy), Char(s, p)
  PROVE  /\ copy \o CharText(s, p) \in TextsOf
         /\ Filters(s, p + s[p], copy \o CharText(s, p))
<1>1. PICK c : c = CharText(s, p)
  OBVIOUS
<1>2. /\ c \in TextsOf /\ c # <<>> /\ Char(c, 1) /\ Len(c) = s[p] /\ c[1] = Len(c)
      /\ \A i \in CharAt(s, p) : i - p + 1 \in 1 .. Len(c) /\ c[i - p + 1] = s[i]
  BY <1>1, CopiedChar DEF Copies
<1>3. PICK e : e = p + s[p]
  OBVIOUS
<1>4. PICK more : more = copy \o c
  OBVIOUS
<1>5. /\ p \in Nat \ {0} /\ Len(c) \in Nat \ {0} /\ Len(copy) \in Nat /\ e = p + Len(c) /\ e \in Nat
      /\ e <= Len(s) + 1
  BY <1>2, <1>3, TextFacts, CharBounds
<1>6. /\ more \in TextsOf /\ Len(more) = Len(copy) + Len(c)
      /\ \A i \in 1 .. Len(copy) + Len(c) : more[i] = IF i <= Len(copy) THEN copy[i] ELSE c[i - Len(copy)]
  BY <1>2, <1>4, ConcatProperties DEF TextsOf
<1>7. WellFormed(more)
  BY <1>2, <1>4, AppendedChar DEF Filters
<1>8. Boundary(s, e)
  BY <1>3, WalkOverChar DEF Filters
<1>9. Len(copy) = WholeUpTo(s, p - 1)
  BY DEF Filters
<1>10. \A i \in CharAt(s, p) : i \in Whole(s) /\ WholeUpTo(s, i) = Len(copy) + i - p + 1
  BY <1>9, CharCounts
<1>11. \A i \in Int : i \in CharAt(s, p) <=> p <= i /\ i < e
  BY <1>3, CharBounds
<1>12. Len(more) = WholeUpTo(s, e - 1)
  <2>1. e - 1 \in CharAt(s, p)
    BY <1>5, <1>11
  <2>2. WholeUpTo(s, e - 1) = Len(copy) + (e - 1) - p + 1
    BY <1>10, <2>1
  <2>3. PICK a \in Nat, b \in Nat : a = Len(copy) /\ b = Len(c)
    BY <1>5
  <2>4. Len(more) = a + b
    BY <1>6, <2>3
  <2>5. PICK q \in Nat : q = p /\ e = q + b
    BY <1>5, <2>3
  <2>6. a + (e - 1) - q + 1 = a + b
    BY <2>5
  <2> QED
    BY <2>2, <2>3, <2>4, <2>5, <2>6
<1>13. ASSUME NEW i \in Whole(s), i < e PROVE more[WholeUpTo(s, i)] = s[i]
  <2>1. i \in Int /\ i > 0
    BY TextFacts DEF Whole
  <2>2. CASE i < p
    <3>1. i - 1 \in Int
      BY <2>1
    <3>2. WholeUpTo(s, i) = WholeUpTo(s, i - 1) + 1 /\ WholeUpTo(s, i - 1) \in Nat
      BY <2>1, <3>1, WholeFacts
    <3>3. WholeUpTo(s, i) <= WholeUpTo(s, p - 1)
      <4>1. p - 1 \in Int /\ i <= p - 1
        BY <1>5, <2>1, <2>2
      <4> QED
        BY <2>1, <4>1, WholeGrows
    <3>4. copy[WholeUpTo(s, i)] = s[i]
      BY <2>2 DEF Filters
    <3>5. PICK w \in 1 .. Len(copy) : w = WholeUpTo(s, i)
      BY <1>5, <1>9, <3>2, <3>3
    <3>6. more[w] = copy[w]
      BY <1>5, <1>6, <3>5
    <3> QED
      BY <3>4, <3>5, <3>6
  <2>3. CASE p <= i
    <3>1. i \in CharAt(s, p)
      BY <1>11, <1>13, <2>1, <2>3
    <3>2. PICK j \in 1 .. Len(c) : j = i - p + 1 /\ c[j] = s[i]
      BY <1>2, <3>1
    <3>3. PICK w \in Int : w = Len(copy) + j
      BY <1>5
    <3>4. more[w] = c[w - Len(copy)] /\ w - Len(copy) = j
      BY <1>5, <1>6, <3>3
    <3>5. WholeUpTo(s, i) = w
      BY <1>5, <1>10, <2>1, <3>1, <3>2, <3>3
    <3> QED
      BY <3>2, <3>4, <3>5
  <2> QED
    BY <1>5, <2>1, <2>2, <2>3
<1>14. Filters(s, e, more)
  BY <1>5, <1>7, <1>8, <1>12, <1>13 DEF Filters
<1> QED
  BY <1>1, <1>3, <1>4, <1>6, <1>14

LEMMA SkippingFilters ==
  ASSUME NEW s \in TextsOf, NEW p \in DOMAIN s, NEW copy \in TextsOf, Filters(s, p, copy), ~Char(s, p)
  PROVE  Filters(s, p + 1, copy)
<1>1. p \in Nat \ {0} /\ p <= Len(s) /\ Len(s) \in Nat
  BY TextFacts
<1>2. p \notin Whole(s) /\ WholeUpTo(s, p) = WholeUpTo(s, p - 1)
  BY SkippedCounts DEF Filters
<1>3. Boundary(s, p + 1)
  BY WalkOverByte DEF Filters
<1>4. p + 1 <= Len(s) + 1 /\ p + 1 - 1 = p
  BY <1>1
<1>5. ASSUME NEW i \in Whole(s), i < p + 1 PROVE i < p
  <2>1. i \in Int /\ i # p
    BY <1>2, TextFacts DEF Whole
  <2> QED
    BY <1>1, <1>5, <2>1
<1> QED
  BY <1>2, <1>3, <1>4, <1>5 DEF Filters

(* At the end the filter has kept the whole characters, and all of a text  *)
(* that has no other bytes.                                                 *)
LEMMA FilteredAll ==
  ASSUME NEW s \in TextsOf, NEW copy \in TextsOf, Filters(s, Len(s) + 1, copy)
  PROVE  /\ WellFormed(copy) /\ Len(copy) = WholeUpTo(s, Len(s))
         /\ \A i \in Whole(s) : copy[WholeUpTo(s, i)] = s[i]
         /\ WellFormed(s) => copy = s
<1>1. Len(s) \in Nat /\ DOMAIN s = 1 .. Len(s) /\ Len(s) + 1 - 1 = Len(s)
  BY TextFacts
<1>2. Len(copy) = WholeUpTo(s, Len(s))
  BY <1>1 DEF Filters
<1>3. \A i \in Whole(s) : copy[WholeUpTo(s, i)] = s[i]
  <2>1. \A i \in Whole(s) : i < Len(s) + 1
    BY <1>1 DEF Whole
  <2> QED
    BY <2>1 DEF Filters
<1>4. ASSUME WellFormed(s) PROVE copy = s
  <2>1. Whole(s) = 1 .. Len(s)
    BY <1>1, <1>4 DEF WellFormed, Whole
  <2>2. ASSUME NEW i \in 0 .. Len(s) PROVE WholeUpTo(s, i) = i
    <3>1. Whole(s) \cap 1 .. i = 1 .. i
      BY <1>1, <2>1
    <3>2. Cardinality(1 .. i) = i
      BY FS_Interval
    <3> QED
      BY <3>1, <3>2 DEF WholeUpTo
  <2>3. Len(copy) = Len(s)
    BY <1>1, <1>2, <2>2
  <2>4. \A i \in 1 .. Len(s) : copy[i] = s[i]
    BY <1>1, <1>3, <2>1, <2>2
  <2> QED
    BY <2>3, <2>4, SeqEqual DEF TextsOf
<1> QED
  BY <1>2, <1>3, <1>4 DEF Filters

-----------------------------------------------------------------------------
(* Cutting                                                                  *)

(* The largest element of a set that has one.                               *)
LEMMA LargestIs ==
  ASSUME NEW T, T \subseteq Int, NEW m \in T, \A n \in T : n <= m
  PROVE  Max(T) = m
<1>1. \A x \in T : (\A y \in T : x >= y) => x = m
  <2> SUFFICES ASSUME NEW x \in T, \A y \in T : x >= y PROVE x = m
    OBVIOUS
  <2>1. x \in Int /\ m \in Int /\ x >= m /\ x <= m
    OBVIOUS
  <2> QED
    BY <2>1
<1>2. \A y \in T : m >= y
  OBVIOUS
<1> QED
  BY <1>1, <1>2 DEF Max

(* ... as every set of positions of a text has.                             *)
LEMMA LargestExists ==
  ASSUME NEW n \in Nat, NEW T, T # {}, T \subseteq 0 .. n
  PROVE  Max(T) \in T /\ \A i \in T : i <= Max(T)
<1> DEFINE Above == {k \in Nat : \A i \in T : i <= k}
<1>1. n \in Above
  OBVIOUS
<1>2. PICK m \in Above : \A k \in Above : m <= k
  <2>1. Above \subseteq Nat /\ Above # {}
    BY <1>1
  <2> HIDE DEF Above
  <2> QED
    BY <2>1, LeastNumber
<1>3. m \in Nat /\ \A i \in T : i <= m
  BY <1>2
<1>4. m \in T
  <2> SUFFICES ASSUME m \notin T PROVE FALSE
    OBVIOUS
  <2>1. PICK t \in T : TRUE
    OBVIOUS
  <2>2. \A i \in T : i \in Nat /\ i # m /\ i <= m
    BY <1>3
  <2>3. m - 1 \in Nat /\ \A i \in T : i <= m - 1
    BY <1>3, <2>1, <2>2
  <2>4. m <= m - 1
    BY <1>2, <2>3
  <2> QED
    BY <1>3, <2>4
<1>5. T \subseteq Int
  OBVIOUS
<1>6. Max(T) = m
  BY <1>3, <1>4, <1>5, LargestIs
<1> QED
  BY <1>3, <1>4, <1>6

(* GetSubStrLen stops at the last place where the text can be cut.          *)
LEMMA CountStopsLast ==
  ASSUME NEW s \in TextsOf, WellFormed(s), NEW l \in 0 .. Len(s), NEW p \in Nat \ {0},
         p - 1 <= l, Boundary(s, p), p - 1 + CharLength(s, p) > l
  PROVE  p - 1 = Max({i \in 0 .. l : WellFormed(Prefix(s, i))})
<1> DEFINE cuts == {i \in 0 .. l : WellFormed(Prefix(s, i))}
<1>1. Len(s) \in Nat /\ DOMAIN s = 1 .. Len(s) /\ l <= Len(s) /\ l \in Nat
  BY TextFacts
<1>2. p - 1 \in cuts
  <2>1. p - 1 \in 0 .. l /\ p - 1 \in 0 .. Len(s) /\ (p - 1) + 1 = p
    BY <1>1
  <2>2. Boundary(s, (p - 1) + 1)
    BY <2>1
  <2> QED
    BY <2>1, <2>2, BoundariesCut
<1>3. ASSUME NEW i \in cuts PROVE i <= p - 1
  <2> SUFFICES ASSUME i >= p PROVE FALSE
    BY <1>1
  <2>1. i \in 0 .. Len(s) /\ i <= l /\ p \in DOMAIN s /\ i + 1 \in Int
    BY <1>1
  <2>2. Char(s, p)
    BY <2>1, BoundariesBegin
  <2>3. s[p] \in 1 .. 6
    BY <2>2 DEF Char
  <2>4. CharLength(s, p) = s[p]
    BY <1>1, <2>1, <2>3 DEF CharLength
  <2>5. Boundary(s, i + 1)
    BY <2>1, BoundariesCut
  <2>6. p + s[p] <= i + 1
    BY <2>1, <2>2, <2>5 DEF Boundary
  <2> QED
    BY <1>1, <2>1, <2>3, <2>4, <2>6
<1>4. cuts \subseteq Int
  OBVIOUS
<1> HIDE DEF cuts
<1>5. Max(cuts) = p - 1
  BY <1>2, <1>3, <1>4, LargestIs
<1> QED
  BY <1>5 DEF cuts

LEMMA CountsOverChar ==
  ASSUME NEW s \in TextsOf, WellFormed(s), NEW p \in Nat \ {0}, p <= Len(s), Boundary(s, p)
  PROVE  Boundary(s, p + CharLength(s, p))
<1>1. p \in DOMAIN s
  BY TextFacts
<1>2. Char(s, p)
  BY <1>1, BoundariesBegin
<1>3. CharLength(s, p) = s[p]
  BY <1>1, <1>2, TextFacts DEF Char, CharLength
<1> QED
  BY <1>1, <1>2, <1>3, WalkOverChar

LEMMA HalvesCut ==
  ASSUME NEW s \in TextsOf, WellFormed(s), NEW n \in DOMAIN s
  PROVE  WellFormed(HalfChinese_UTF8(s, n)) \/ s[n] \in 2 .. 6
<1>1. n \in Nat \ {0} /\ n <= Len(s) /\ DOMAIN s = 1 .. Len(s) /\ Len(s) \in Nat /\ s[n] \in Int
  BY TextFacts
<1>2. CASE s[n] # 0
  <2>1. Char(s, n)
    BY <1>2, LeadsBegin
  <2> SUFFICES ASSUME s[n] \notin 2 .. 6 PROVE WellFormed(Prefix(s, n))
    BY <1>2 DEF HalfChinese_UTF8
  <2>2. s[n] = 1
    BY <2>1 DEF Char
  <2>3. Boundary(s, n + 1)
    <3> SUFFICES ASSUME NEW q \in DOMAIN s, q < n + 1, Char(s, q) PROVE q + s[q] <= n + 1
      BY DEF Boundary
    <3>1. q \in Int /\ s[q] \in Int
      BY TextFacts
    <3>2. CASE q = n
      BY <1>1, <2>2, <3>2
    <3>3. CASE q < n
      BY <1>1, <2>1, <3>1, <3>3, CharsApart
    <3> QED
      BY <1>1, <3>1, <3>2, <3>3
  <2> QED
    BY <1>1, <2>3, BoundariesCut
<1>3. CASE s[n] = 0
  <2> DEFINE leads == {i \in 1 .. n : s[i] # 0}
  <2>1. PICK q \in DOMAIN s : Char(s, q) /\ n \in CharAt(s, q)
    BY DEF WellFormed
  <2>2. q \in leads
    BY <1>1, <2>1, TextFacts, CharBounds
  <2>3. leads \subseteq 0 .. n
    OBVIOUS
  <2>4. PICK m : m = Max(leads)
    OBVIOUS
  <2>5. m \in 1 .. n /\ s[m] # 0
    <3>1. Max(leads) \in leads
      <4> HIDE DEF leads
      <4> QED
        BY <1>1, <2>2, <2>3, LargestExists
    <3> QED
      BY <2>4, <3>1
  <2>6. m \in DOMAIN s /\ m \in Int /\ m - 1 \in 0 .. Len(s) /\ (m - 1) + 1 = m
    BY <1>1, <2>5
  <2>7. Char(s, m)
    BY <2>5, <2>6, LeadsBegin
  <2>8. Boundary(s, m)
    BY <2>6, <2>7, CharsApart DEF Boundary
  <2>9. Boundary(s, (m - 1) + 1)
    BY <2>6, <2>8
  <2>10. WellFormed(Prefix(s, m - 1))
    BY <2>6, <2>9, BoundariesCut
  <2> QED
    BY <1>3, <2>4, <2>10 DEF HalfChinese_UTF8
<1> QED
  BY <1>2, <1>3

-----------------------------------------------------------------------------
(* Pairs                                                                    *)

Pairs(s, firsts) ==
  /\ firsts \subseteq 1 .. Len(s) - 1
  /\ \A i \in DOMAIN s :
       IF IsChinese(s[i]) THEN (i \in firsts) # (i - 1 \in firsts)
       ELSE i \notin firsts /\ i - 1 \notin firsts

English(s, n) == {i \in 1 .. n : ~IsChinese(s[i])}

LEMMA EnglishCounts ==
  ASSUME NEW s, NEW n \in Nat
  PROVE  /\ MoveEnglish(s, n) \in Nat
         /\ n = 0 => MoveEnglish(s, n) = 0
         /\ MoveEnglish(s, n + 1) = MoveEnglish(s, n) + (IF IsChinese(s[n + 1]) THEN 1 ELSE 2)
<1>1. MoveEnglish(s, n) = n + Cardinality(English(s, n))
  BY DEF MoveEnglish, English
<1>2. MoveEnglish(s, n + 1) = (n + 1) + Cardinality(English(s, n + 1))
  BY DEF MoveEnglish, English
<1>3. IsFiniteSet(English(s, n)) /\ Cardinality(English(s, n)) \in Nat
  <2>1. English(s, n) \in SUBSET (1 .. n)
    BY DEF English
  <2> QED
    <3>1. IsFiniteSet(1 .. n)
      BY FS_Interval
    <3>2. IsFiniteSet(English(s, n))
      BY <2>1, <3>1, FS_Subset
    <3> QED
      BY <3>2, FS_CardinalityType
<1>4. n = 0 => English(s, n) = {}
  BY DEF English
<1>5. CASE IsChinese(s[n + 1])
  <2>1. English(s, n + 1) = English(s, n)
    BY <1>5 DEF English
  <2> QED
    BY <1>1, <1>2, <1>3, <1>4, <1>5, <2>1, FS_EmptySet
<1>6. CASE ~IsChinese(s[n + 1])
  <2>1. English(s, n + 1) = English(s, n) \cup {n + 1} /\ n + 1 \notin English(s, n)
    BY <1>6 DEF English
  <2>2. Cardinality(English(s, n + 1)) = Cardinality(English(s, n)) + 1
    BY <1>3, <2>1, FS_AddElement
  <2> QED
    BY <1>1, <1>2, <1>3, <1>4, <1>6, <2>2, FS_EmptySet
<1> QED
  BY <1>5, <1>6

(* What MoveEnglish counts is odd where a pair has begun and not ended.     *)
Splits(s, firsts, n) == (MoveEnglish(s, n) % 2 = 0) <=> (n \notin firsts)

LEMMA OddInPairs ==
  ASSUME NEW s \in TextsOf, NEW firsts, Pairs(s, firsts), NEW n \in 0 .. Len(s)
  PROVE  Splits(s, firsts, n)
<1> DEFINE Bad == {k \in Nat : k <= Len(s) /\ ~Splits(s, firsts, k)}
<1> SUFFICES ASSUME Bad # {} PROVE FALSE
  BY TextFacts
<1>1. PICK m \in Bad : \A k \in Bad : m <= k
  <2>1. Bad \subseteq Nat
    OBVIOUS
  <2> HIDE DEF Bad
  <2> QED
    BY <2>1, LeastNumber
<1>2. m \in Nat /\ m <= Len(s) /\ Len(s) \in Nat /\ DOMAIN s = 1 .. Len(s) /\ ~Splits(s, firsts, m)
  BY TextFacts
<1>3. m # 0
  <2>1. MoveEnglish(s, 0) = 0 /\ 0 \notin firsts
    BY EnglishCounts, <1>2 DEF Pairs
  <2>2. Splits(s, firsts, 0)
    BY <2>1 DEF Splits
  <2> QED
    BY <1>2, <2>2
<1>4. PICK k \in Nat : m = k + 1
  BY <1>2, <1>3
<1>5. Splits(s, firsts, k)
  BY <1>1, <1>2, <1>4
<1>6. /\ MoveEnglish(s, k) \in Nat
      /\ MoveEnglish(s, m) = MoveEnglish(s, k) + (IF IsChinese(s[m]) THEN 1 ELSE 2)
  BY <1>4, EnglishCounts
<1>7. m \in DOMAIN s /\ m - 1 = k
  BY <1>2, <1>3, <1>4
<1>8. IF IsChinese(s[m]) THEN (m \in firsts) # (k \in firsts) ELSE m \notin firsts /\ k \notin firsts
  BY <1>7 DEF Pairs
<1>9. CASE IsChinese(s[m])
  <2>1. (MoveEnglish(s, m) % 2 = 0) <=> ~(MoveEnglish(s, k) % 2 = 0)
    BY <1>6, <1>9
  <2> QED
    BY <1>2, <1>5, <1>8, <1>9, <2>1 DEF Splits
<1>10. CASE ~IsChinese(s[m])
  <2>1. (MoveEnglish(s, m) % 2 = 0) <=> (MoveEnglish(s, k) % 2 = 0)
    BY <1>6, <1>10
  <2> QED
    BY <1>2, <1>5, <1>8, <1>10, <2>1 DEF Splits
<1> QED
  BY <1>9, <1>10

LEMMA PairsCut ==
  ASSUME NEW s \in TextsOf, Paired(s), NEW n \in DOMAIN s
  PROVE  HalfChinese_GBK(s, n) = Prefix(s, IF Paired(Prefix(s, n)) THEN n ELSE n - 1)
<1>1. PICK firsts : Pairs(s, firsts)
  BY DEF Paired, Pairs
<1>2. n \in Nat \ {0} /\ n <= Len(s) /\ Len(s) \in Nat /\ DOMAIN s = 1 .. Len(s) /\ n \in 0 .. Len(s)
  BY TextFacts
<1>3. PICK t : t = Prefix(s, n)
  OBVIOUS
<1>4. t \in TextsOf /\ Len(t) = n /\ DOMAIN t = 1 .. n /\ \A i \in 1 .. n : i \in DOMAIN s /\ t[i] = s[i]
  BY <1>2, <1>3, PrefixFacts, TextFacts
<1>5. Splits(s, firsts, n)
  BY <1>1, <1>2, OddInPairs
<1>6. Paired(t) <=> n \notin firsts
  <2>1. ASSUME n \notin firsts PROVE Paired(t)
    <3>1. PICK part : part = firsts \cap 1 .. n - 1
      OBVIOUS
    <3>2. part \in SUBSET (1 .. Len(t) - 1)
      BY <1>4, <3>1
    <3>3. ASSUME NEW i \in DOMAIN t
          PROVE  IF IsChinese(t[i]) THEN (i \in part) # (i - 1 \in part)
                 ELSE i \notin part /\ i - 1 \notin part
      <4>1. i \in Int /\ 1 <= i /\ i <= n /\ i \in DOMAIN s /\ t[i] = s[i]
        BY <1>4
      <4>2. i \in firsts <=> i \in part
        <5>1. i = n \/ i \in 1 .. n - 1
          BY <1>2, <4>1
        <5> QED
          BY <1>2, <2>1, <3>1, <5>1
      <4>3. i - 1 \in firsts <=> i - 1 \in part
        <5>1. i - 1 \in firsts => i - 1 \in 1 .. n - 1
          BY <1>1, <1>2, <4>1 DEF Pairs
        <5> QED
          BY <3>1, <5>1
      <4>4. IF IsChinese(s[i]) THEN (i \in firsts) # (i - 1 \in firsts)
            ELSE i \notin firsts /\ i - 1 \notin firsts
        BY <1>1, <4>1 DEF Pairs
      <4> QED
        BY <4>1, <4>2, <4>3, <4>4
    <3> QED
      BY <3>2, <3>3 DEF Paired
  <2>2. ASSUME Paired(t) PROVE n \notin firsts
    <3>1. PICK others : Pairs(t, others)
      BY <2>2 DEF Paired, Pairs
    <3>2. Splits(t, others, n)
      BY <1>2, <1>4, <3>1, OddInPairs
    <3>3. n \notin others
      BY <1>2, <1>4, <3>1 DEF Pairs
    <3>4. MoveEnglish(t, n) = MoveEnglish(s, n)
      <4>1. {i \in 1 .. n : ~IsChinese(t[i])} = {i \in 1 .. n : ~IsChinese(s[i])}
        BY <1>4
      <4> QED
        BY <4>1 DEF MoveEnglish
    <3> QED
      BY <1>5, <3>2, <3>3, <3>4 DEF Splits
  <2> QED
    BY <2>1, <2>2
<1>7. n \in firsts => IsChinese(s[n])
  BY <1>1 DEF Pairs
<1>8. CASE n \in firsts
  BY <1>3, <1>5, <1>6, <1>7, <1>8 DEF Splits, HalfChinese_GBK
<1>9. CASE n \notin firsts
  BY <1>3, <1>5, <1>6, <1>9 DEF Splits, HalfChinese_GBK
<1> QED
  BY <1>8, <1>9

-----------------------------------------------------------------------------
(* The loops                                                                *)

TextInv ==
  /\ text \in TextsOf /\ place \in Nat \ {0} /\ filtered \in TextsOf /\ len \in Nat
  /\ reading \in {"none", "filter", "length"}
  /\ reading = "none" => place = 1 /\ filtered = <<>>
  /\ reading = "filter" => Filters(text, place, filtered)
  /\ reading = "length" =>
       /\ len <= Len(text) /\ place - 1 <= len
       /\ WellFormed(text) => Boundary(text, place)

LEMMA StartsAtBoundary ==
  ASSUME NEW s \in TextsOf
  PROVE  Boundary(s, 1) /\ Filters(s, 1, <<>>)
<1>1. \A q \in DOMAIN s : q \in Int /\ q >= 1
  BY TextFacts
<1>2. Boundary(s, 1)
  BY <1>1 DEF Boundary
<1>3. WholeUpTo(s, 1 - 1) = 0
  <2>1. Whole(s) \cap 1 .. 1 - 1 = {}
    OBVIOUS
  <2> QED
    BY <2>1, FS_EmptySet DEF WholeUpTo
<1>4. \A i \in Whole(s) : ~(i < 1)
  BY <1>1 DEF Whole
<1>5. Len(s) \in Nat
  BY TextFacts
<1> QED
  BY <1>2, <1>3, <1>4, <1>5, EmptyIsWellFormed DEF Filters

LEMMA TextInvInit == TextInit => TextInv
BY DEF TextInit, TextInv, TextsOf

LEMMA TextInvStep == TextInv /\ [TextNext]_textVars => TextInv'
<1> SUFFICES ASSUME TextInv, [TextNext]_textVars PROVE TextInv'
  OBVIOUS
<1>0. Len(text) \in Nat /\ DOMAIN text = 1 .. Len(text)
  BY TextFacts DEF TextInv
<1>1. CASE MoreText
  <2>1. PICK b \in TextBytes : text' = Append(text, b)
    BY <1>1 DEF MoreText
  <2>2. b \in 0 .. 7
    BY TextsAssumption
  <2>3. text' \in TextsOf
    BY <2>1, <2>2 DEF TextInv, TextsOf
  <2> QED
    BY <1>1, <2>3 DEF MoreText, TextInv
<1>2. CASE FilterNoneUtf8Chars
  <2>1. Filters(text, 1, <<>>)
    BY StartsAtBoundary DEF TextInv
  <2> QED
    BY <1>2, <2>1 DEF FilterNoneUtf8Chars, TextInv
<1>3. CASE CopyChar
  <2>1. place \in DOMAIN text /\ Char(text, place) /\ reading = "filter" /\ Filters(text, place, filtered)
    BY <1>0, <1>3 DEF CopyChar, Keeps, Char, TextInv
  <2>2. /\ filtered' = filtered \o CharText(text, place) /\ place' = place + text[place]
        /\ text' = text /\ reading' = reading /\ len' = len
    BY <1>3 DEF CopyChar, CharText
  <2>3. filtered' \in TextsOf /\ Filters(text, place', filtered')
    BY <2>1, <2>2, CopyingFilters DEF TextInv
  <2>4. place' \in Nat \ {0}
    BY <2>1, <2>2 DEF TextInv, Char
  <2> QED
    BY <2>1, <2>2, <2>3, <2>4 DEF TextInv
<1>4. CASE SkipByte
  <2>1. place \in DOMAIN text /\ ~Char(text, place) /\ reading = "filter" /\ Filters(text, place, filtered)
    BY <1>0, <1>4 DEF SkipByte, Keeps, Char, TextInv
  <2>2. Filters(text, place + 1, filtered)
    BY <2>1, SkippingFilters DEF TextInv
  <2> QED
    BY <1>4, <2>1, <2>2 DEF SkipByte, TextInv
<1>5. CASE GetSubStrLen
  <2>1. Boundary(text, 1)
    BY StartsAtBoundary DEF TextInv
  <2> QED
    BY <1>0, <1>5, <2>1 DEF GetSubStrLen, TextInv
<1>6. CASE CountChar
  <2>1. /\ reading = "length" /\ place - 1 + CharLength(text, place) <= len /\ place' = place + CharLength(text, place)
        /\ text' = text /\ reading' = reading /\ filtered' = filtered /\ len' = len
    BY <1>6 DEF CountChar
  <2>2. CharLength(text, place) \in Nat \ {0}
    <3>1. CASE place > Len(text) \/ text[place] = 0
      BY <3>1 DEF CharLength
    <3>2. CASE place <= Len(text) /\ text[place] # 0
      <4>1. text[place] \in Nat \ {0}
        BY <1>0, <3>2, TextFacts DEF TextInv
      <4> QED
        BY <1>0, <3>2, <4>1 DEF CharLength, TextInv
    <3> QED
      BY <1>0, <3>1, <3>2 DEF TextInv
  <2>3. place <= Len(text) /\ place' \in Nat \ {0} /\ place' - 1 <= len
    BY <1>0, <2>1, <2>2 DEF TextInv
  <2>4. WellFormed(text) => Boundary(text, place')
    BY <2>1, <2>3, CountsOverChar DEF TextInv
  <2> QED
    BY <2>1, <2>3, <2>4 DEF TextInv
<1>7. CASE UNCHANGED textVars
  BY <1>7 DEF textVars, TextInv
<1> QED
  BY <1>1, <1>2, <1>3, <1>4, <1>5, <1>6, <1>7 DEF TextNext

LEMMA TextsSoundInv == TextInv => TextsSound
<1> SUFFICES ASSUME TextInv PROVE TextsSound
  OBVIOUS
<1>0. text \in TextsOf /\ filtered \in TextsOf /\ place \in Nat \ {0} /\ Len(text) \in Nat /\ len \in Nat
  BY TextFacts DEF TextInv
<1>1. FilterYieldsUtf8
  <2> SUFFICES ASSUME FilterDone
               PROVE  /\ WellFormed(filtered) /\ Len(filtered) = WholeUpTo(text, Len(text))
                      /\ \A i \in Whole(text) : filtered[WholeUpTo(text, i)] = text[i]
                      /\ WellFormed(text) => filtered = text
    BY DEF FilterYieldsUtf8
  <2>1. Filters(text, place, filtered) /\ place > Len(text)
    BY DEF FilterDone, TextInv
  <2>2. place = Len(text) + 1
    BY <1>0, <2>1 DEF Filters
  <2>3. Filters(text, Len(text) + 1, filtered)
    BY <2>1, <2>2
  <2> QED
    BY <1>0, <2>3, FilteredAll
<1>2. CutsBetweenCharacters
  <2> SUFFICES ASSUME WellFormed(text)
               PROVE  /\ CountDone => place - 1 = Max({i \in 0 .. len : WellFormed(Prefix(text, i))})
                      /\ \A n \in DOMAIN text : WellFormed(HalfChinese_UTF8(text, n)) \/ text[n] \in 2 .. 6
    BY DEF CutsBetweenCharacters
  <2>1. ASSUME CountDone PROVE place - 1 = Max({i \in 0 .. len : WellFormed(Prefix(text, i))})
    <3>1. len <= Len(text) /\ place - 1 <= len /\ Boundary(text, place) /\ place - 1 + CharLength(text, place) > len
      BY <2>1 DEF CountDone, TextInv
    <3>2. len \in 0 .. Len(text)
      BY <1>0, <3>1
    <3> QED
      BY <1>0, <3>1, <3>2, CountStopsLast
  <2> QED
    BY <1>0, <2>1, HalvesCut
<1>3. CutsBetweenPairs
  BY <1>0, PairsCut DEF CutsBetweenPairs
<1> QED
  BY <1>1, <1>2, <1>3 DEF TextsSound

(* Whatever text they are given, the functions on texts leave whole        *)
(* characters and keep all that fit: of texts of any length, of any bytes. *)
THEOREM TextsAreSound == TextsSpec => []TextsSound
<1>1. TextInv /\ [TextNext]_textVars => TextInv'
  BY TextInvStep
<1>2. TextsSpec => []TextInv
  BY TextInvInit, <1>1, PTL DEF TextsSpec
<1> QED
  BY <1>2, TextsSoundInv, PTL

-----------------------------------------------------------------------------
(* Configuration files                                                      *)

Chars == {"k", "v", "=", "#", "SP", "CR", "LF"}
Strings == Seq(Chars)

LEMMA StringFacts ==
  ASSUME NEW s \in Strings
  PROVE  /\ Len(s) \in Nat /\ DOMAIN s = 1 .. Len(s) /\ (s # <<>> <=> Len(s) > 0)
         /\ \A c : Append(s, c)[Len(s) + 1] = c
         /\ \A c \in Chars : /\ Append(s, c) \in Strings /\ Append(s, c) # <<>>
                             /\ Len(Append(s, c)) = Len(s) + 1
                             /\ \A i \in 1 .. Len(s) : Append(s, c)[i] = s[i]
BY DEF Strings

LEMMA SmallestIs ==
  ASSUME NEW T, T \subseteq Int, NEW m \in T, \A n \in T : m <= n
  PROVE  Min(T) = m
<1>1. \A x \in T : (\A y \in T : x <= y) => x = m
  <2> SUFFICES ASSUME NEW x \in T, \A y \in T : x <= y PROVE x = m
    OBVIOUS
  <2>1. x \in Int /\ m \in Int /\ x <= m /\ m <= x
    OBVIOUS
  <2> QED
    BY <2>1
<1> QED
  BY <1>1 DEF Min

LEMMA SmallestExists ==
  ASSUME NEW T, T # {}, T \subseteq Nat
  PROVE  Min(T) \in T /\ \A i \in T : Min(T) <= i
<1>1. PICK m \in T : \A n \in T : m <= n
  BY LeastNumber
<1>2. T \subseteq Int
  OBVIOUS
<1>3. Min(T) = m
  BY <1>1, <1>2, SmallestIs
<1> QED
  BY <1>1, <1>3

(* What is stripped of a string, in front and behind.                       *)
LEMMA OthersFacts ==
  ASSUME NEW s \in Strings, NEW c
  PROVE  /\ Others(s, c) \subseteq 1 .. Len(s) /\ Others(s, c) \subseteq Nat /\ Others(s, c) \subseteq 0 .. Len(s)
         /\ \A i \in 1 .. Len(s) : i \in Others(s, c) <=> s[i] # c
         /\ \A i \in Others(s, c) : i \in Nat \ {0} /\ i <= Len(s) /\ s[i] # c
BY StringFacts DEF Others

LEMMA PartFacts ==
  ASSUME NEW s \in Strings, NEW m \in Nat \ {0}, NEW n \in Nat, n <= Len(s)
  PROVE  /\ SubSeq(s, m, n) \in Strings
         /\ Len(SubSeq(s, m, n)) = IF m <= n THEN n - m + 1 ELSE 0
         /\ \A i \in 1 .. n - m + 1 : SubSeq(s, m, n)[i] = s[m + i - 1]
<1>1. PICK S : S = Chars
  OBVIOUS
<1>2. m \in Int /\ n \in Int /\ \A i \in m .. n : s[i] \in S
  BY <1>1, StringFacts DEF Strings
<1>3. /\ SubSeq(s, m, n) \in Seq(S) /\ Len(SubSeq(s, m, n)) = IF m <= n THEN n - m + 1 ELSE 0
      /\ \A i \in 1 .. n - m + 1 : SubSeq(s, m, n)[i] = s[m + i - 1]
  BY <1>2, SubSeqProperties
<1> QED
  BY <1>1, <1>3 DEF Strings

LEMMA SameString ==
  ASSUME NEW s \in Strings, NEW t \in Strings, Len(s) = Len(t), \A i \in 1 .. Len(s) : s[i] = t[i]
  PROVE  s = t
BY SeqEqual DEF Strings

(* Nothing is stripped where the last character is another.                 *)
LEMMA NothingBehind ==
  ASSUME NEW s \in Strings, NEW c, s = <<>> \/ s[Len(s)] # c
  PROVE  StripBack(s, c) = s
<1>1. Len(s) \in Nat /\ (s # <<>> <=> Len(s) > 0)
  BY StringFacts
<1>2. CASE s = <<>>
  <2>1. Others(s, c) = {}
    BY <1>2 DEF Others
  <2> QED
    BY <1>2, <2>1 DEF StripBack
<1>3. CASE s # <<>> /\ s[Len(s)] # c
  <2>1. Len(s) \in Others(s, c) /\ \A i \in Others(s, c) : i <= Len(s)
    BY <1>1, <1>3, OthersFacts
  <2>2. Others(s, c) \subseteq Int
    BY <1>1, OthersFacts
  <2>3. Max(Others(s, c)) = Len(s)
    BY <2>1, <2>2, LargestIs
  <2>4. SubSeq(s, 1, Len(s)) = s
    BY SubSeqFull DEF Strings
  <2> QED
    BY <2>1, <2>3, <2>4 DEF StripBack
<1> QED
  BY <1>2, <1>3

LEMMA SomethingBehind ==
  ASSUME NEW s \in Strings, NEW c, s # <<>>, s[Len(s)] = c
  PROVE  /\ StripBack(s, c) # s
         /\ Others(s, c) # {} => StripBack(s, c) # <<>>
<1>1. Len(s) \in Nat \ {0}
  BY StringFacts
<1>2. CASE Others(s, c) = {}
  BY <1>2 DEF StripBack
<1>3. CASE Others(s, c) # {}
  <2>1. PICK m : m = Max(Others(s, c))
    OBVIOUS
  <2>2. m \in Others(s, c)
    BY <1>1, <1>3, <2>1, OthersFacts, LargestExists
  <2>3. m \in Nat \ {0} /\ m <= Len(s) /\ m # Len(s)
    BY <1>1, <2>2, OthersFacts
  <2>4. Len(SubSeq(s, 1, m)) = m
    BY <2>3, PartFacts
  <2>5. StripBack(s, c) = SubSeq(s, 1, m)
    BY <1>3, <2>1 DEF StripBack
  <2>6. Len(<<>>) = 0
    OBVIOUS
  <2> QED
    BY <2>3, <2>4, <2>5, <2>6
<1> QED
  BY <1>2, <1>3

(* A carriage return at the end is stripped, and nothing else.              *)
LEMMA ReturnBehind ==
  ASSUME NEW s \in Strings, s = <<>> \/ s[Len(s)] # "CR"
  PROVE  StripBack(Append(s, "CR"), "CR") = s
<1>1. PICK t : t = Append(s, "CR")
  OBVIOUS
<1>2. "CR" \in Chars
  BY DEF Chars
<1>3. /\ t \in Strings /\ Len(t) = Len(s) + 1 /\ Len(s) \in Nat /\ t[Len(s) + 1] = "CR"
      /\ (\A i \in 1 .. Len(s) : t[i] = s[i]) /\ (s # <<>> <=> Len(s) > 0)
  BY <1>1, <1>2, StringFacts
<1>4. CASE s = <<>>
  <2>1. \A i \in 1 .. Len(t) : t[i] = "CR"
    BY <1>3, <1>4
  <2>2. Others(t, "CR") = {}
    BY <1>3, <2>1, OthersFacts
  <2> QED
    BY <1>1, <1>4, <2>2 DEF StripBack
<1>5. CASE s # <<>> /\ s[Len(s)] # "CR"
  <2>1. Len(s) \in Others(t, "CR")
    BY <1>3, <1>5, OthersFacts
  <2>2. \A i \in Others(t, "CR") : i \in Int /\ i <= Len(s)
    <3>1. \A i \in Others(t, "CR") : i \in 1 .. Len(t) /\ i # Len(s) + 1
      BY <1>3, OthersFacts
    <3> QED
      BY <1>3, <3>1
  <2>3. Others(t, "CR") \subseteq Int
    BY <2>2
  <2>4. Max(Others(t, "CR")) = Len(s)
    BY <2>1, <2>2, <2>3, LargestIs
  <2>5. StripBack(t, "CR") = SubSeq(t, 1, Len(s))
    BY <2>1, <2>4 DEF StripBack
  <2>6. PICK r : r = SubSeq(t, 1, Len(s))
    OBVIOUS
  <2>7. r \in Strings /\ Len(r) = Len(s) /\ \A i \in 1 .. Len(s) : r[i] = t[1 + i - 1]
    BY <1>3, <1>5, <2>6, PartFacts
  <2>8. \A i \in 1 .. Len(s) : r[i] = s[i]
    BY <1>3, <2>7
  <2>9. r = s
    BY <2>7, <2>8, SameString
  <2> QED
    BY <1>1, <2>5, <2>6, <2>9
<1> QED
  BY <1>4, <1>5

(* What StripFront leaves, with and without a carriage return behind.       *)
LEMMA FrontFacts ==
  ASSUME NEW s \in Strings
  PROVE  /\ StripFront(s, "SP") \in Strings
         /\ StripFront(s, "SP") # <<>> =>
              /\ s # <<>> /\ StripFront(s, "SP")[Len(StripFront(s, "SP"))] = s[Len(s)]
              /\ Others(StripFront(s, "SP"), "SP") # {}
         /\ StripFront(s, "SP") = <<>> => s = <<>> \/ s[Len(s)] = "SP"
         /\ \A i \in DOMAIN StripFront(s, "SP") : \E j \in DOMAIN s : StripFront(s, "SP")[i] = s[j]
         /\ StripFront(Append(s, "CR"), "SP") = Append(StripFront(s, "SP"), "CR")
<1>1. PICK w : w = StripFront(s, "SP")
  OBVIOUS
<1>2. PICK t : t = Append(s, "CR")
  OBVIOUS
<1>3. "CR" \in Chars /\ "CR" # "SP" /\ <<>> \in Strings /\ Len(<<>>) = 0
  BY DEF Chars, Strings
<1>4. /\ t \in Strings /\ Len(t) = Len(s) + 1 /\ Len(s) \in Nat /\ t[Len(s) + 1] = "CR"
      /\ (\A i \in 1 .. Len(s) : t[i] = s[i]) /\ (s # <<>> <=> Len(s) > 0) /\ DOMAIN s = 1 .. Len(s)
  BY <1>2, <1>3, StringFacts
<1>5. Len(s) + 1 \in Others(t, "SP") /\ \A i \in 1 .. Len(s) : i \in Others(t, "SP") <=> i \in Others(s, "SP")
  BY <1>3, <1>4, OthersFacts
<1>6. CASE Others(s, "SP") = {}
  <2>1. w = <<>>
    BY <1>1, <1>6 DEF StripFront
  <2>2. \A i \in Others(t, "SP") : i = Len(s) + 1
    <3>1. \A i \in Others(t, "SP") : i \in 1 .. Len(s) + 1 /\ i \notin 1 .. Len(s)
      BY <1>4, <1>5, <1>6, OthersFacts
    <3> QED
      BY <1>4, <3>1
  <2>3. Min(Others(t, "SP")) = Len(s) + 1
    <3>1. Others(t, "SP") \subseteq Int /\ \A i \in Others(t, "SP") : Len(s) + 1 <= i
      BY <1>4, <2>2
    <3> QED
      BY <1>5, <3>1, SmallestIs
  <2>4. StripFront(t, "SP") = SubSeq(t, Len(s) + 1, Len(t))
    BY <1>5, <2>3 DEF StripFront
  <2>5. PICK r : r = SubSeq(t, Len(s) + 1, Len(t))
    OBVIOUS
  <2>6. PICK m \in Nat \ {0} : m = Len(s) + 1
    BY <1>4
  <2>7. r \in Strings /\ Len(r) = 1 /\ r[1] = "CR"
    <3>1. r = SubSeq(t, m, m) /\ Len(t) = m
      BY <1>4, <2>5, <2>6
    <3>2. r \in Strings /\ Len(r) = m - m + 1 /\ \A i \in 1 .. m - m + 1 : r[i] = t[m + i - 1]
      BY <1>4, <2>6, <3>1, PartFacts
    <3>3. m - m + 1 = 1 /\ m + 1 - 1 = m
      OBVIOUS
    <3> QED
      BY <1>4, <2>6, <3>2, <3>3
  <2>8. PICK u : u = Append(<<>>, "CR")
    OBVIOUS
  <2>9. u \in Strings /\ Len(u) = 1 /\ u[1] = "CR"
    BY <1>3, <2>8 DEF Strings
  <2>10. r = u
    <3>1. \A i \in 1 .. 1 : i = 1
      OBVIOUS
    <3> QED
      BY <2>7, <2>9, <3>1, SameString
  <2>11. s = <<>> \/ s[Len(s)] = "SP"
    BY <1>4, <1>6, OthersFacts
  <2>12. DOMAIN w = {}
    BY <2>1
  <2> QED
    BY <1>1, <1>2, <1>3, <2>1, <2>4, <2>5, <2>8, <2>10, <2>11, <2>12
<1>7. CASE Others(s, "SP") # {}
  <2>1. PICK m : m = Min(Others(s, "SP"))
    OBVIOUS
  <2>2. m \in Others(s, "SP") /\ \A i \in Others(s, "SP") : m <= i
    BY <1>7, <2>1, OthersFacts, SmallestExists
  <2>3. m \in Nat \ {0} /\ m <= Len(s) /\ s[m] # "SP"
    BY <2>2, OthersFacts
  <2>4. w = SubSeq(s, m, Len(s))
    BY <1>1, <1>7, <2>1 DEF StripFront
  <2>5. PICK k \in Nat \ {0} : k = Len(s) - m + 1
    BY <1>4, <2>3
  <2>a. PICK n \in Nat : n = Len(s) /\ n = m + k - 1 /\ m <= n
    <3>1. Len(s) = m + k - 1 /\ m <= Len(s) /\ Len(s) \in Nat
      BY <1>4, <2>3, <2>5
    <3> QED
      BY <3>1
  <2>6. w \in Strings /\ Len(w) = k /\ \A i \in 1 .. k : w[i] = s[m + i - 1]
    <3>1. m <= Len(s)
      BY <2>3
    <3>2. w \in Strings /\ Len(w) = Len(s) - m + 1 /\ \A i \in 1 .. Len(s) - m + 1 : w[i] = s[m + i - 1]
      BY <1>4, <2>3, <2>4, <3>1, PartFacts
    <3> QED
      BY <2>5, <3>2
  <2>7. w # <<>> /\ w[Len(w)] = s[Len(s)] /\ s # <<>>
    <3>1. m + k - 1 = Len(s) /\ k \in 1 .. k
      BY <1>4, <2>3, <2>5
    <3>2. w[Len(w)] = s[Len(s)]
      BY <2>6, <3>1
    <3>3. Len(w) = k /\ Len(s) # 0
      BY <2>3, <2>6
    <3>4. Len(<<>>) = 0
      OBVIOUS
    <3> QED
      BY <3>2, <3>3, <3>4
  <2>8. Others(w, "SP") # {}
    <3>1. 1 \in 1 .. k /\ m + 1 - 1 = m
      BY <2>3
    <3>2. w[1] = s[m]
      BY <2>6, <3>1
    <3>3. 1 \in 1 .. Len(w) /\ w[1] # "SP" /\ w \in Strings
      BY <2>3, <2>6, <3>1, <3>2
    <3>4. 1 \in Others(w, "SP")
      BY <3>3, OthersFacts
    <3> QED
      BY <3>4
  <2>9. \A i \in DOMAIN w : \E j \in DOMAIN s : w[i] = s[j]
    <3> SUFFICES ASSUME NEW i \in 1 .. k PROVE \E j \in DOMAIN s : w[i] = s[j]
      BY <2>6, StringFacts
    <3>1. PICK j \in 1 .. Len(s) : j = m + i - 1
      <4>1. m + i - 1 \in 1 .. n
        BY <2>3, <2>a
      <4> QED
        BY <2>a, <4>1
    <3> QED
      BY <1>4, <2>6, <3>1
  <2>10. Min(Others(t, "SP")) = m
    <3>1. m \in Others(t, "SP")
      BY <1>4, <1>5, <2>2, <2>3
    <3>2. \A i \in Others(t, "SP") : i \in Int /\ m <= i
      <4>1. \A i \in Others(t, "SP") : i \in 1 .. Len(s) + 1
        BY <1>4, OthersFacts
      <4>2. \A i \in Others(t, "SP") : i = Len(s) + 1 \/ i \in Others(s, "SP")
        BY <1>4, <1>5, <4>1
      <4> QED
        BY <1>4, <2>2, <2>3, <4>1, <4>2
    <3>3. Others(t, "SP") \subseteq Int
      BY <3>2
    <3> QED
      BY <3>1, <3>2, <3>3, SmallestIs
  <2>11. PICK r : r = SubSeq(t, m, Len(t))
    OBVIOUS
  <2>12. StripFront(t, "SP") = r
    BY <1>5, <2>10, <2>11 DEF StripFront
  <2>13. r \in Strings /\ Len(r) = k + 1 /\ \A i \in 1 .. k + 1 : r[i] = t[m + i - 1]
    <3>1. Len(t) \in Nat /\ m <= Len(t) /\ Len(t) - m + 1 = k + 1
      BY <1>4, <2>3, <2>5
    <3>2. r \in Strings /\ Len(r) = Len(t) - m + 1 /\ \A i \in 1 .. Len(t) - m + 1 : r[i] = t[m + i - 1]
      BY <1>4, <2>3, <2>11, <3>1, PartFacts
    <3> QED
      BY <3>1, <3>2
  <2>14. PICK u : u = Append(w, "CR")
    OBVIOUS
  <2>15. u \in Strings /\ Len(u) = k + 1 /\ u[k + 1] = "CR" /\ \A i \in 1 .. k : u[i] = w[i]
    BY <1>3, <2>6, <2>14, StringFacts
  <2>16. ASSUME NEW i \in 1 .. k + 1 PROVE r[i] = u[i]
    <3>1. CASE i = k + 1
      <4>1. m + i - 1 = Len(s) + 1
        BY <1>4, <2>3, <2>5, <3>1
      <4> QED
        BY <1>4, <2>13, <2>15, <3>1, <4>1
    <3>2. CASE i \in 1 .. k
      <4>1. PICK j \in 1 .. Len(s) : j = m + i - 1
        <5>1. i \in Int /\ 1 <= i /\ i <= k
          BY <3>2
        <5>2. m + i - 1 \in 1 .. n
          BY <2>3, <2>a, <5>1
        <5> QED
          BY <2>a, <5>2
      <4> QED
        BY <1>4, <2>6, <2>13, <2>15, <3>2, <4>1
    <3> QED
      BY <3>1, <3>2
  <2>17. r = u
    BY <2>13, <2>15, <2>16, SameString
  <2> QED
    BY <1>1, <1>2, <2>6, <2>7, <2>8, <2>9, <2>12, <2>14, <2>17
<1> QED
  BY <1>6, <1>7

(* Trimming with a carriage return behind, or without.                      *)
LEMMA TrimFacts ==
  ASSUME NEW s \in Strings, \A i \in DOMAIN s : s[i] # "CR"
  PROVE  /\ StringTrim(Append(s, "CR")) = StripFront(s, "SP")
         /\ StringTrim(s) = StripBack(StripFront(s, "SP"), "SP")
<1>1. PICK w : w = StripFront(s, "SP")
  OBVIOUS
<1>2. w \in Strings /\ \A i \in DOMAIN w : w[i] # "CR"
  BY <1>1, FrontFacts
<1>3. Len(w) \in Nat /\ DOMAIN w = 1 .. Len(w) /\ (w # <<>> <=> Len(w) > 0)
  BY <1>2, StringFacts
<1>4. w = <<>> \/ w[Len(w)] # "CR"
  BY <1>2, <1>3
<1>5. StringTrim(Append(s, "CR")) = w
  <2>1. PICK u : u = Append(w, "CR")
    OBVIOUS
  <2>2. "CR" \in Chars /\ "CR" # "SP"
    BY DEF Chars
  <2>3. u \in Strings /\ u # <<>> /\ u[Len(u)] # "SP"
    BY <1>2, <2>1, <2>2, StringFacts
  <2>4. StripBack(u, "SP") = u
    BY <2>3, NothingBehind
  <2>5. StripBack(u, "CR") = w
    BY <1>2, <1>4, <2>1, ReturnBehind
  <2>6. StripFront(Append(s, "CR"), "SP") = u
    BY <1>1, <2>1, FrontFacts
  <2> QED
    BY <2>4, <2>5, <2>6 DEF StringTrim
<1>6. PICK v : v = StripBack(w, "SP")
  OBVIOUS
<1>7. StripBack(v, "CR") = v
  <2>1. CASE Others(w, "SP") = {}
    <3>1. v = <<>>
      BY <1>6, <2>1 DEF StripBack
    <3>2. v \in Strings
      BY <3>1 DEF Strings
    <3> QED
      BY <3>1, <3>2, NothingBehind
  <2>2. CASE Others(w, "SP") # {}
    <3>1. PICK m : m = Max(Others(w, "SP"))
      OBVIOUS
    <3>2. m \in Others(w, "SP")
      BY <1>2, <1>3, <2>2, <3>1, OthersFacts, LargestExists
    <3>3. m \in Nat \ {0} /\ m <= Len(w)
      BY <1>2, <3>2, OthersFacts
    <3>4. v = SubSeq(w, 1, m)
      BY <1>6, <2>2, <3>1 DEF StripBack
    <3>5. v \in Strings /\ Len(v) = m /\ \A i \in 1 .. m : v[i] = w[1 + i - 1]
      BY <1>2, <3>3, <3>4, PartFacts
    <3>6. 1 + m - 1 = m /\ m \in 1 .. m /\ m \in DOMAIN w
      BY <1>3, <3>3
    <3>7. v[Len(v)] # "CR"
      BY <1>2, <3>5, <3>6
    <3> QED
      BY <3>5, <3>7, NothingBehind
  <2> QED
    BY <2>1, <2>2
<1> QED
  BY <1>1, <1>5, <1>6, <1>7 DEF StringTrim

-----------------------------------------------------------------------------
(* Lines                                                                    *)

LEMMA EqualsFacts ==
  ASSUME NEW line \in Strings
  PROVE  /\ Equals(line) \subseteq Nat
         /\ \A i \in Equals(line) : i \in Nat \ {0} /\ i <= Len(line)
         /\ Equals(Append(line, "CR")) = Equals(line)
<1>1. "CR" \in Chars /\ "CR" # "="
  BY DEF Chars
<1>2. PICK t : t = Append(line, "CR")
  OBVIOUS
<1>3. /\ DOMAIN t = 1 .. Len(line) + 1 /\ t[Len(line) + 1] = "CR" /\ \A i \in 1 .. Len(line) : t[i] = line[i]
      /\ Len(line) \in Nat /\ DOMAIN line = 1 .. Len(line)
  BY <1>1, <1>2, StringFacts
<1>4. Equals(t) = Equals(line)
  BY <1>1, <1>3 DEF Equals
<1>5. \A i \in Equals(line) : i \in Nat \ {0} /\ i <= Len(line)
  BY <1>3 DEF Equals
<1> QED
  BY <1>2, <1>4, <1>5

(* A carriage return behind a line changes only what a blank before it     *)
(* hides.                                                                   *)
LEMMA ReturnChangesBlanks ==
  ASSUME NEW line \in Strings, \A i \in DOMAIN line : line[i] # "CR"
  PROVE  /\ IsItem(Append(line, "CR")) <=> IsItem(line)
         /\ IsItem(line) => (Item(Append(line, "CR")) = Item(line) <=> ~BlankAfterValue(line))
<1>1. PICK t : t = Append(line, "CR")
  OBVIOUS
<1>2. "CR" \in Chars /\ "CR" # "=" /\ "SP" # "="
  BY DEF Chars
<1>3. /\ t \in Strings /\ t # <<>> /\ Len(t) = Len(line) + 1 /\ DOMAIN t = 1 .. Len(line) + 1
      /\ t[Len(line) + 1] = "CR" /\ \A i \in 1 .. Len(line) : t[i] = line[i]
      /\ Len(line) \in Nat /\ DOMAIN line = 1 .. Len(line) /\ (line # <<>> <=> Len(line) > 0)
  BY <1>1, <1>2, StringFacts
<1>4. Equals(t) = Equals(line)
  BY <1>1, EqualsFacts
<1>5. CASE Equals(line) = {}
  BY <1>1, <1>4, <1>5 DEF IsItem
<1>6. CASE Equals(line) # {}
  <2>1. PICK f \in Nat \ {0} : f = Min(Equals(line)) /\ f \in Equals(line)
    <3>1. Min(Equals(line)) \in Equals(line)
      BY <1>6, EqualsFacts, SmallestExists
    <3> QED
      BY <3>1, EqualsFacts
  <2>3. f <= Len(line)
    BY <2>1, EqualsFacts
  <2>4. line # <<>> /\ t[1] = line[1]
    BY <1>3, <2>3
  <2>5. IsItem(t) <=> IsItem(line)
    BY <1>3, <1>4, <2>4 DEF IsItem
  <2>6. PICK n \in Nat \ {0} : n = Len(line) /\ f <= n /\ Len(t) = n + 1
    <3>1. Len(line) \in Nat \ {0}
      BY <1>3, <2>3
    <3> QED
      BY <1>3, <2>3, <3>1
  <2>7. PICK k : k = SubSeq(line, 1, f - 1)
    OBVIOUS
  <2>8. PICK v : v = SubSeq(line, f + 1, n)
    OBVIOUS
  <2>9. SubSeq(t, 1, f - 1) = k
    <3>1. PICK g \in Nat : g = f - 1 /\ g <= Len(line) /\ g <= Len(t)
      BY <1>3, <2>3
    <3>2. PICK r : r = SubSeq(t, 1, g)
      OBVIOUS
    <3>3. k \in Strings /\ Len(k) = (IF 1 <= g THEN g - 1 + 1 ELSE 0) /\ \A i \in 1 .. g - 1 + 1 : k[i] = line[1 + i - 1]
      BY <2>7, <3>1, PartFacts
    <3>4. r \in Strings /\ Len(r) = (IF 1 <= g THEN g - 1 + 1 ELSE 0) /\ \A i \in 1 .. g - 1 + 1 : r[i] = t[1 + i - 1]
      BY <1>3, <3>1, <3>2, PartFacts
    <3>5. Len(k) = g /\ Len(r) = g
      BY <3>3, <3>4
    <3>6. \A i \in 1 .. g : r[i] = k[i]
      <4> SUFFICES ASSUME NEW i \in 1 .. g PROVE r[i] = k[i]
        OBVIOUS
      <4>1. i \in 1 .. g - 1 + 1 /\ 1 + i - 1 = i /\ i \in 1 .. Len(line)
        BY <1>3, <3>1
      <4> QED
        BY <1>3, <3>3, <3>4, <4>1
    <3> QED
      BY <3>1, <3>2, <3>3, <3>4, <3>5, <3>6, SameString
  <2>10. v \in Strings /\ Len(v) = n - f /\ \A i \in 1 .. n - f : v[i] = line[f + i]
    <3>1. PICK m \in Nat \ {0} : m = f + 1
      OBVIOUS
    <3>2. v \in Strings /\ Len(v) = (IF m <= n THEN n - m + 1 ELSE 0) /\ \A i \in 1 .. n - m + 1 : v[i] = line[m + i - 1]
      BY <2>6, <2>8, <3>1, PartFacts
    <3>3. Len(v) = n - f
      BY <2>6, <3>1, <3>2
    <3>4. ASSUME NEW i \in 1 .. n - f PROVE v[i] = line[f + i]
      <4>1. i \in 1 .. n - m + 1 /\ m + i - 1 = f + i
        BY <2>6, <3>1
      <4> QED
        BY <3>2, <4>1
    <3> QED
      BY <3>2, <3>3, <3>4
  <2>11. SubSeq(t, f + 1, Len(t)) = Append(v, "CR")
    <3>1. PICK m \in Nat \ {0} : m = f + 1
      OBVIOUS
    <3>2. PICK r : r = SubSeq(t, m, n + 1)
      OBVIOUS
    <3>3. PICK u : u = Append(v, "CR")
      OBVIOUS
    <3>4. r \in Strings /\ Len(r) = (IF m <= n + 1 THEN (n + 1) - m + 1 ELSE 0) /\ \A i \in 1 .. (n + 1) - m + 1 : r[i] = t[m + i - 1]
      <4>1. n + 1 \in Nat /\ n + 1 <= Len(t)
        BY <2>6
      <4> QED
        BY <1>3, <3>2, <4>1, PartFacts
    <3>5. PICK d \in Nat : d = n - f
      <4>1. f <= n
        BY <2>6
      <4> QED
        BY <4>1
    <3>6. Len(r) = d + 1 /\ (n + 1) - m + 1 = d + 1
      BY <2>6, <3>1, <3>4, <3>5
    <3>7. u \in Strings /\ Len(u) = d + 1 /\ u[d + 1] = "CR" /\ \A i \in 1 .. d : u[i] = v[i]
      <4>1. Len(v) = d
        BY <2>10, <3>5
      <4>2. /\ u \in Strings /\ Len(u) = Len(v) + 1 /\ u[Len(v) + 1] = "CR"
            /\ \A i \in 1 .. Len(v) : u[i] = v[i]
        BY <1>2, <2>10, <3>3, StringFacts
      <4> QED
        BY <4>1, <4>2
    <3>8. ASSUME NEW i \in 1 .. d + 1 PROVE r[i] = u[i]
      <4>1. r[i] = t[m + i - 1] /\ m + i - 1 = f + i
        BY <3>1, <3>4, <3>6
      <4>2. CASE i = d + 1
        <5>1. f + i = Len(line) + 1
          BY <2>6, <3>5, <4>2
        <5> QED
          BY <1>3, <3>7, <4>1, <4>2, <5>1
      <4>3. CASE i \in 1 .. d
        <5>1. f + i \in 1 .. Len(line) /\ i \in 1 .. n - f
          BY <2>6, <3>5, <4>3
        <5> QED
          BY <1>3, <2>10, <3>7, <4>1, <4>3, <5>1
      <4> QED
        BY <4>2, <4>3
    <3>9. r = u
      BY <3>4, <3>6, <3>7, <3>8, SameString
    <3> QED
      BY <2>6, <3>1, <3>2, <3>3, <3>9
  <2>12. \A i \in DOMAIN v : v[i] # "CR"
    <3> SUFFICES ASSUME NEW i \in 1 .. n - f PROVE v[i] # "CR"
      BY <2>10, StringFacts
    <3>1. f + i \in 1 .. Len(line)
      BY <2>6
    <3> QED
      BY <1>3, <2>10, <3>1
  <2>13. PICK w : w = StripFront(v, "SP")
    OBVIOUS
  <2>14. Item(line) = [key |-> StringTrim(k), value |-> StripBack(w, "SP")]
    BY <2>1, <2>6, <2>7, <2>8, <2>10, <2>12, <2>13, TrimFacts DEF Item
  <2>15. Item(t) = [key |-> StringTrim(k), value |-> w]
    <3>1. StringTrim(Append(v, "CR")) = w
      BY <2>10, <2>12, <2>13, TrimFacts
    <3> QED
      BY <1>4, <2>1, <2>9, <2>11, <3>1 DEF Item
  <2>16. Item(t) = Item(line) <=> StripBack(w, "SP") = w
    BY <2>14, <2>15
  <2>17. /\ w \in Strings /\ (w # <<>> => /\ v # <<>> /\ w[Len(w)] = v[Len(v)] /\ Others(w, "SP") # {})
         /\ (w = <<>> => v = <<>> \/ v[Len(v)] = "SP")
    BY <2>10, <2>13, FrontFacts
  <2>18. v # <<>> => v[Len(v)] = line[n]
    <3> SUFFICES ASSUME v # <<>> PROVE v[Len(v)] = line[n]
      OBVIOUS
    <3>1. PICK d \in Nat \ {0} : d = n - f /\ Len(v) = d
      <4>1. Len(v) \in Nat /\ Len(v) > 0
        BY <2>10, StringFacts
      <4> QED
        BY <2>10, <4>1
    <3>2. d \in 1 .. n - f /\ f + d = n
      BY <2>6, <3>1
    <3> QED
      BY <2>10, <3>1, <3>2
  <2>19. CASE w = <<>>
    <3>1. StripBack(w, "SP") = w
      BY <2>17, <2>19, NothingBehind
    <3>2. ~BlankAfterValue(line)
      BY <2>14, <2>19, <3>1 DEF BlankAfterValue
    <3> QED
      BY <1>1, <2>5, <2>16, <3>1, <3>2
  <2>20. CASE w # <<>> /\ line[n] # "SP"
    <3>1. StripBack(w, "SP") = w
      BY <2>17, <2>18, <2>20, NothingBehind
    <3>2. ~BlankAfterValue(line)
      BY <2>6, <2>20 DEF BlankAfterValue
    <3> QED
      BY <1>1, <2>5, <2>16, <3>1, <3>2
  <2>21. CASE w # <<>> /\ line[n] = "SP"
    <3>1. StripBack(w, "SP") # w /\ StripBack(w, "SP") # <<>>
      BY <2>17, <2>18, <2>21, SomethingBehind
    <3>2. BlankAfterValue(line)
      BY <2>6, <2>14, <2>21, <3>1 DEF BlankAfterValue
    <3> QED
      BY <1>1, <2>5, <2>16, <3>1, <3>2
  <2> QED
    BY <2>19, <2>20, <2>21
<1> QED
  BY <1>5, <1>6

-----------------------------------------------------------------------------
(* Loading                                                                  *)

Key(i) == Item(LineAt(i)).key
Value(i) == Item(LineAt(i)).value
First(i) == \A j \in Items : Key(j) = Key(i) => i <= j

FileInv ==
  /\ file \in Strings /\ readTo \in Nat /\ readTo <= Len(file) + 1
  /\ readTo = 0 => m_mapConfig = <<>>
  /\ readTo = 0 \/ readTo = Len(file) + 1 \/ file[readTo] = "LF"
  /\ m_mapConfig = [key \in {Key(i) : i \in Items} |-> m_mapConfig[key]]
  /\ \A i \in Items : First(i) => m_mapConfig[Key(i)] = Value(i)

LEMMA LineEndFacts ==
  ASSUME file \in Strings, NEW i \in 1 .. Len(file)
  PROVE  /\ LineEnd(i) \in i .. Len(file) + 1
         /\ LineEnd(i) = Len(file) + 1 \/ file[LineEnd(i)] = "LF"
         /\ \A j \in i .. LineEnd(i) - 1 : file[j] # "LF"
<1> DEFINE ends == {j \in i .. Len(file) : file[j] = "LF"} \cup {Len(file) + 1}
<1>1. Len(file) \in Nat
  BY StringFacts
<1>2. ends # {} /\ ends \subseteq Nat
  BY <1>1
<1>3. PICK m : m = Min(ends)
  OBVIOUS
<1>4. m \in ends /\ \A j \in ends : m <= j
  <2> HIDE DEF ends
  <2> QED
    BY <1>2, <1>3, SmallestExists
<1>5. m \in i .. Len(file) + 1 /\ (m = Len(file) + 1 \/ file[m] = "LF")
  BY <1>1, <1>4
<1>6. ASSUME NEW j \in i .. m - 1 PROVE file[j] # "LF"
  <2>1. j \in i .. Len(file) /\ ~(m <= j)
    BY <1>1, <1>5
  <2> QED
    BY <1>4, <2>1
<1>7. LineEnd(i) = m
  BY <1>3 DEF LineEnd
<1> QED
  BY <1>5, <1>6, <1>7

LEMMA LineIsString ==
  ASSUME file \in Strings, NEW i \in 1 .. Len(file)
  PROVE  LineAt(i) \in Strings
<1>1. PICK e \in Nat : e = LineEnd(i) - 1 /\ e <= Len(file)
  BY LineEndFacts, StringFacts
<1>2. i \in Nat \ {0}
  OBVIOUS
<1>3. SubSeq(file, i, e) \in Strings
  BY <1>1, <1>2, PartFacts
<1> QED
  BY <1>1, <1>3 DEF LineAt

LEMMA FileInvInit == FileInit => FileInv
<1> SUFFICES ASSUME FileInit PROVE FileInv
  OBVIOUS
<1>1. file = <<>> /\ readTo = 0 /\ m_mapConfig = <<>>
  BY DEF FileInit
<1>2. Items = {}
  BY <1>1 DEF Items, LinesRead
<1>3. file \in Strings /\ Len(file) = 0
  BY <1>1 DEF Strings
<1>4. <<>> = [key \in {} |-> m_mapConfig[key]]
  OBVIOUS
<1> QED
  BY <1>1, <1>2, <1>3, <1>4 DEF FileInv

(* Reading a line adds its first position to those read.                    *)
LEMMA LineIsAdded ==
  ASSUME FileInv, LoadLine
  PROVE  /\ file' = file /\ readTo + 1 \in 1 .. Len(file) /\ readTo' = LineEnd(readTo + 1)
         /\ LinesRead' = LinesRead \cup {readTo + 1} /\ \A i \in LinesRead : i <= readTo
<1>1. /\ file' = file /\ readTo < Len(file) /\ readTo' = LineEnd(readTo + 1)
      /\ readTo \in Nat /\ Len(file) \in Nat /\ file \in Strings
  BY StringFacts DEF FileInv, LoadLine
<1>2. PICK i \in 1 .. Len(file) : i = readTo + 1
  BY <1>1
<1>3. PICK e \in Nat : e = LineEnd(i) /\ i <= e
  BY <1>1, LineEndFacts
<1>4. \A j \in i .. e - 1 : file[j] # "LF"
  BY <1>1, <1>3, LineEndFacts
<1>5. readTo' = e
  BY <1>1, <1>2, <1>3
<1>6. i = 1 \/ file[i - 1] = "LF"
  <2>1. readTo # Len(file) + 1 /\ i - 1 = readTo
    BY <1>1, <1>2
  <2>2. readTo = 0 \/ file[readTo] = "LF"
    BY <2>1 DEF FileInv
  <2> QED
    BY <1>1, <1>2, <2>1, <2>2
<1>7. LinesRead' = {j \in 1 .. e : j = 1 \/ file[j - 1] = "LF"}
  BY <1>1, <1>5 DEF LinesRead
<1>8. LinesRead = {j \in 1 .. readTo : j = 1 \/ file[j - 1] = "LF"}
  BY DEF LinesRead
<1>9. ASSUME NEW j \in LinesRead' PROVE j \in LinesRead \cup {i}
  <2>1. j \in 1 .. e /\ (j = 1 \/ file[j - 1] = "LF")
    BY <1>7
  <2>2. CASE j <= readTo
    <3>1. j \in 1 .. readTo
      BY <1>1, <2>1, <2>2
    <3> QED
      BY <1>8, <2>1, <3>1
  <2>3. CASE j = i
    BY <2>3
  <2>4. CASE j > i
    <3>1. j # 1 /\ j - 1 \in i .. e - 1
      BY <1>2, <1>3, <2>1, <2>4
    <3> QED
      BY <1>4, <2>1, <3>1
  <2> QED
    BY <1>1, <1>2, <2>1, <2>2, <2>3, <2>4
<1>10. i \in LinesRead'
  <2>1. i \in 1 .. e
    BY <1>2, <1>3
  <2> QED
    BY <1>6, <1>7, <2>1
<1>11. LinesRead \subseteq LinesRead'
  <2>1. 1 .. readTo \subseteq 1 .. e
    BY <1>1, <1>2, <1>3
  <2> QED
    BY <1>7, <1>8, <2>1
<1>12. \A j \in LinesRead : j <= readTo
  BY <1>1, <1>8
<1> QED
  BY <1>1, <1>2, <1>9, <1>10, <1>11, <1>12

LEMMA LinesStay ==
  ASSUME file' = file
  PROVE  \A i : LineAt(i)' = LineAt(i) /\ Key(i)' = Key(i) /\ Value(i)' = Value(i)
<1> SUFFICES ASSUME NEW i PROVE LineAt(i)' = LineAt(i) /\ Key(i)' = Key(i) /\ Value(i)' = Value(i)
  OBVIOUS
<1>1. LineAt(i)' = LineAt(i)
  BY DEF LineAt, LineEnd
<1> QED
  BY <1>1 DEF Key, Value

LEMMA LoadsFirst ==
  ASSUME FileInv, LoadLine
  PROVE  FileInv'
<1>1. /\ file' = file /\ readTo + 1 \in 1 .. Len(file) /\ readTo' = LineEnd(readTo + 1)
      /\ LinesRead' = LinesRead \cup {readTo + 1} /\ \A i \in LinesRead : i <= readTo
  BY LineIsAdded
<1>2. file \in Strings /\ readTo \in Nat /\ Len(file) \in Nat
  BY StringFacts DEF FileInv
<1>3. PICK n \in 1 .. Len(file) : n = readTo + 1
  BY <1>1
<1>4. readTo' \in n .. Len(file) + 1 /\ (readTo' = Len(file) + 1 \/ file[readTo'] = "LF")
  BY <1>1, <1>2, <1>3, LineEndFacts
<1>5. readTo' \in Nat /\ readTo' <= Len(file) + 1 /\ readTo' # 0
  BY <1>2, <1>4
<1>6. \A i : LineAt(i)' = LineAt(i) /\ Key(i)' = Key(i) /\ Value(i)' = Value(i)
  BY <1>1, LinesStay
<1>7. Items' = {i \in LinesRead \cup {n} : i <= Len(file) /\ IsItem(LineAt(i))}
  BY <1>1, <1>3, <1>6 DEF Items
<1>8. n \notin Items /\ \A i \in Items : i \in Int /\ i < n
  BY <1>1, <1>2, <1>3 DEF Items, LinesRead
<1>9. n <= Len(file)
  BY <1>2
<1>10. m_mapConfig' = Insert(m_mapConfig, LineAt(n))
  BY <1>3 DEF LoadLine
<1> DEFINE K == {Key(i) : i \in Items}
<1>11. m_mapConfig = [key \in K |-> m_mapConfig[key]]
  BY DEF FileInv
<1>12. CASE ~IsItem(LineAt(n))
  <2>1. Items' = Items
    BY <1>7, <1>12 DEF Items
  <2>2. m_mapConfig' = m_mapConfig
    BY <1>10, <1>12 DEF Insert
  <2>3. {Key(i) : i \in Items}' = K
    BY <1>6, <2>1
  <2>4. m_mapConfig' = [key \in {Key(i) : i \in Items}' |-> m_mapConfig'[key]]
    BY <1>11, <2>2, <2>3
  <2>5. \A i \in Items' : First(i)' => m_mapConfig'[Key(i)'] = Value(i)'
    BY <1>6, <2>1, <2>2 DEF FileInv, First
  <2> QED
    BY <1>1, <1>2, <1>4, <1>5, <2>4, <2>5 DEF FileInv
<1>13. CASE IsItem(LineAt(n))
  <2>1. Items' = Items \cup {n}
    BY <1>7, <1>9, <1>13 DEF Items
  <2>2. {Key(i) : i \in Items}' = K \cup {Key(n)}
    BY <1>6, <2>1
  <2>3. m_mapConfig' = [key \in K \cup {Key(n)} |-> IF key \in K THEN m_mapConfig[key] ELSE Value(n)]
    <3>1. DOMAIN m_mapConfig = K
      BY <1>11
    <3> HIDE DEF K
    <3> QED
      BY <1>10, <1>13, <3>1 DEF Insert, Key, Value
  <2>4. m_mapConfig' = [key \in {Key(i) : i \in Items}' |-> m_mapConfig'[key]]
    <3> HIDE DEF K
    <3> QED
      BY <2>2, <2>3
  <2>5. ASSUME NEW i \in Items', First(i)' PROVE m_mapConfig'[Key(i)'] = Value(i)'
    <3>1. \A j \in Items \cup {n} : Key(j) = Key(i) => i <= j
      BY <1>6, <2>1, <2>5 DEF First
    <3>2. CASE i \in Items
      <4>1. First(i)
        BY <3>1 DEF First
      <4>2. m_mapConfig[Key(i)] = Value(i) /\ Key(i) \in K
        BY <3>2, <4>1 DEF FileInv
      <4> HIDE DEF K
      <4> QED
        BY <1>6, <2>3, <4>2
    <3>3. CASE i = n
      <4>1. Key(n) \notin K
        <5> SUFFICES ASSUME NEW j \in Items, Key(j) = Key(n) PROVE FALSE
          OBVIOUS
        <5>1. n <= j
          BY <3>1, <3>3
        <5> QED
          BY <1>8, <5>1
      <4> HIDE DEF K
      <4> QED
        BY <1>6, <2>3, <3>3, <4>1
    <3> QED
      BY <2>1, <3>2, <3>3
  <2> QED
    BY <1>1, <1>2, <1>4, <1>5, <2>4, <2>5 DEF FileInv
<1> QED
  BY <1>12, <1>13

LEMMA FileInvStep == FileInv /\ [FileNext]_fileVars => FileInv'
<1> SUFFICES ASSUME FileInv, [FileNext]_fileVars PROVE FileInv'
  OBVIOUS
<1>1. CASE MoreFile
  <2>1. PICK c \in FileChars : file' = Append(file, c)
    BY <1>1 DEF MoreFile
  <2>2. c \in Chars
    BY FileAssumption DEF Chars
  <2>3. file' \in Strings /\ Len(file') \in Nat
    BY <2>1, <2>2, StringFacts DEF FileInv
  <2>4. readTo = 0 /\ readTo' = 0 /\ m_mapConfig = <<>> /\ m_mapConfig' = <<>>
    BY <1>1 DEF MoreFile, FileInv
  <2>5. Items' = {}
    BY <2>4 DEF Items, LinesRead
  <2>6. {Key(i) : i \in Items}' = {}
    BY <2>5
  <2>7. m_mapConfig' = [key \in {Key(i) : i \in Items}' |-> m_mapConfig'[key]]
    BY <2>4, <2>6
  <2> QED
    BY <2>3, <2>4, <2>5, <2>7 DEF FileInv
<1>2. CASE LoadLine
  BY <1>2, LoadsFirst
<1>3. CASE UNCHANGED fileVars
  <2>1. file' = file /\ readTo' = readTo /\ m_mapConfig' = m_mapConfig
    BY <1>3 DEF fileVars
  <2>2. \A i : LineAt(i)' = LineAt(i) /\ Key(i)' = Key(i) /\ Value(i)' = Value(i)
    BY <2>1, LinesStay
  <2>3. Items' = Items
    BY <2>1, <2>2 DEF Items, LinesRead
  <2>4. {Key(i) : i \in Items}' = {Key(i) : i \in Items}
    BY <2>2, <2>3
  <2>5. \A i \in Items' : First(i)' => m_mapConfig'[Key(i)'] = Value(i)'
    BY <2>1, <2>2, <2>3 DEF FileInv, First
  <2>6. m_mapConfig' = [key \in {Key(i) : i \in Items}' |-> m_mapConfig'[key]]
    BY <2>1, <2>4 DEF FileInv
  <2> QED
    BY <2>1, <2>5, <2>6 DEF FileInv
<1> QED
  BY <1>1, <1>2, <1>3 DEF FileNext

LEMMA ConfigSoundInv == FileInv => ConfigSound
<1> SUFFICES ASSUME FileInv PROVE ConfigSound
  OBVIOUS
<1>1. file \in Strings /\ Len(file) \in Nat /\ readTo \in Nat
  BY StringFacts DEF FileInv
<1>2. LineEndsAgree
  <2> SUFFICES ASSUME NEW i \in LinesRead, i <= Len(file),
                      "CR" \notin {LineAt(i)[j] : j \in DOMAIN LineAt(i)}
               PROVE  /\ IsItem(Append(LineAt(i), "CR")) <=> IsItem(LineAt(i))
                      /\ IsItem(LineAt(i)) =>
                           (Item(Append(LineAt(i), "CR")) = Item(LineAt(i)) <=> ~BlankAfterValue(LineAt(i)))
    BY DEF LineEndsAgree
  <2>1. i \in 1 .. Len(file)
    BY <1>1 DEF LinesRead
  <2>2. LineAt(i) \in Strings
    BY <1>1, <2>1, LineIsString
  <2> QED
    BY <2>2, ReturnChangesBlanks
<1>3. FirstSettingStands
  <2>1. m_mapConfig = [key \in {Key(i) : i \in Items} |-> m_mapConfig[key]]
    BY DEF FileInv
  <2>2. DOMAIN m_mapConfig = {Key(i) : i \in Items}
    BY <2>1
  <2>3. ASSUME NEW i \in Items, \A j \in Items : Sets(j, Item(LineAt(i)).key) => i <= j
        PROVE  Setting(m_mapConfig, Item(LineAt(i)).key, Default) =
                 IF Item(LineAt(i)).value = <<>> THEN Default ELSE Item(LineAt(i)).value
    <3>1. First(i)
      BY <2>3 DEF First, Key, Sets
    <3>2. m_mapConfig[Key(i)] = Value(i)
      BY <3>1 DEF FileInv
    <3>3. Key(i) \in DOMAIN m_mapConfig
      BY <2>2
    <3> QED
      BY <3>2, <3>3 DEF Setting, Key, Value
  <2>4. \A key \in DOMAIN m_mapConfig : \E i \in Items : Sets(i, key)
    BY <2>2 DEF Sets, Key
  <2> QED
    BY <2>3, <2>4 DEF FirstSettingStands
<1> QED
  BY <1>2, <1>3 DEF ConfigSound

(* What a file sets depends neither on the platform that wrote it, but for *)
(* the lines with a blank at the end, nor on the lines that follow: of      *)
(* files of any length.                                                     *)
THEOREM ConfigIsSound == FileSpec => []ConfigSound
<1>1. FileInv /\ [FileNext]_fileVars => FileInv'
  BY FileInvStep
<1>2. FileSpec => []FileInv
  BY FileInvInit, <1>1, PTL DEF FileSpec
<1> QED
  BY <1>2, ConfigSoundInv, PTL

-----------------------------------------------------------------------------
-----------------------------------------------------------------------------
(* The checksum                                                             *)

Byte == SUBSET (0 .. 7)

Sum(a0, a1, a2, a3, a4, a5, a6, a7) ==
  a0 + 2 * a1 + 4 * a2 + 8 * a3 + 16 * a4 + 32 * a5 + 64 * a6 + 128 * a7

Digit(n, i) == (n \div Weights[i + 1]) % 2

Written(n, a0, a1, a2, a3, a4, a5, a6, a7) ==
  /\ n \in 0 .. 255 /\ Bits(n) \in Byte
  /\ (0 \in Bits(n)) <=> (a0 = 1)
  /\ (1 \in Bits(n)) <=> (a1 = 1)
  /\ (2 \in Bits(n)) <=> (a2 = 1)
  /\ (3 \in Bits(n)) <=> (a3 = 1)
  /\ (4 \in Bits(n)) <=> (a4 = 1)
  /\ (5 \in Bits(n)) <=> (a5 = 1)
  /\ (6 \in Bits(n)) <=> (a6 = 1)
  /\ (7 \in Bits(n)) <=> (a7 = 1)

(* The bits of a number written in binary.                                  *)
LEMMA BitsOf ==
  ASSUME NEW a0 \in {0, 1}, NEW a1 \in {0, 1}, NEW a2 \in {0, 1}, NEW a3 \in {0, 1},
         NEW a4 \in {0, 1}, NEW a5 \in {0, 1}, NEW a6 \in {0, 1}, NEW a7 \in {0, 1},
         NEW n, n = Sum(a0, a1, a2, a3, a4, a5, a6, a7)
  PROVE  Written(n, a0, a1, a2, a3, a4, a5, a6, a7)
<1>1. n \in 0 .. 255
  BY DEF Sum
<1>2. \A i \in 0 .. 7 : i \in Bits(n) <=> Digit(n, i) = 1
  BY DEF Bits, Digit
<1>3. /\ Weights[0 + 1] = 1 /\ Weights[1 + 1] = 2 /\ Weights[2 + 1] = 4 /\ Weights[3 + 1] = 8
      /\ Weights[4 + 1] = 16 /\ Weights[5 + 1] = 32 /\ Weights[6 + 1] = 64 /\ Weights[7 + 1] = 128
  BY DEF Weights
<1>4. /\ Digit(n, 0) = a0 /\ Digit(n, 1) = a1 /\ Digit(n, 2) = a2 /\ Digit(n, 3) = a3
      /\ Digit(n, 4) = a4 /\ Digit(n, 5) = a5 /\ Digit(n, 6) = a6 /\ Digit(n, 7) = a7
  BY <1>3 DEF Sum, Digit
<1>5. Bits(n) \in Byte
  BY DEF Bits, Byte
<1> QED
  BY <1>1, <1>2, <1>4, <1>5 DEF Written

(* A byte is the set of the bits of its number.                             *)
One(byte, i) == IF i \in byte THEN 1 ELSE 0

LEMMA NumberIs ==
  ASSUME NEW x \in Byte
  PROVE  Number(x) = Sum(One(x, 0), One(x, 1), One(x, 2), One(x, 3),
                         One(x, 4), One(x, 5), One(x, 6), One(x, 7))
BY DEF Number, Weight, Weights, Sum, One

(* What the tables hold: the parity of the index, and the index moved up   *)
(* and down by two bits and by one.                                         *)
HiEntry(a0, a1, a2, a3, a4, a5, a6, a7) ==
  Sum((a0 + a1 + a2 + a3 + a4 + a5 + a6 + a7) % 2, 0, 0, 0, 0, 0, a0, (a0 + a1) % 2)

LoEntry(a0, a1, a2, a3, a4, a5, a6, a7) ==
  Sum((a1 + a2) % 2, (a2 + a3) % 2, (a3 + a4) % 2, (a4 + a5) % 2, (a5 + a6) % 2, (a6 + a7) % 2,
      (a0 + a1 + a2 + a3 + a4 + a5 + a6) % 2, (a0 + a1 + a2 + a3 + a4 + a5 + a6 + a7) % 2)

LEMMA TablesHold ==
  ASSUME NEW a0 \in {0, 1}, NEW a1 \in {0, 1}, NEW a2 \in {0, 1}, NEW a3 \in {0, 1},
         NEW a4 \in {0, 1}, NEW a5 \in {0, 1}, NEW a6 \in {0, 1}, NEW a7 \in {0, 1}
  PROVE  LET n == Sum(a0, a1, a2, a3, a4, a5, a6, a7) IN
         /\ AucCRCHi[n + 1] = HiEntry(a0, a1, a2, a3, a4, a5, a6, a7)
         /\ AucCRCLo[n + 1] = LoEntry(a0, a1, a2, a3, a4, a5, a6, a7)
<1>1. AucCRCHi[Sum(a0, a1, a2, a3, a4, a5, a6, a7) + 1] = HiEntry(a0, a1, a2, a3, a4, a5, a6, a7)
  BY DEF AucCRCHi, HiEntry, Sum
<1>2. AucCRCLo[Sum(a0, a1, a2, a3, a4, a5, a6, a7) + 1] = LoEntry(a0, a1, a2, a3, a4, a5, a6, a7)
  BY DEF AucCRCLo, LoEntry, Sum
<1> QED
  BY <1>1, <1>2

(* Whether of the first bits of a byte an odd number is one.               *)
Odd1(x) == (0 \in x) # (1 \in x)
Odd2(x) == Odd1(x) # (2 \in x)
Odd3(x) == Odd2(x) # (3 \in x)
Odd4(x) == Odd3(x) # (4 \in x)
Odd5(x) == Odd4(x) # (5 \in x)
Odd6(x) == Odd5(x) # (6 \in x)
Odd7(x) == Odd6(x) # (7 \in x)

(* Binary digits, and what is odd of them.                                  *)
LEMMA DigitsOf ==
  ASSUME NEW x \in Byte
  PROVE  \E a0 \in {0, 1}, a1 \in {0, 1}, a2 \in {0, 1}, a3 \in {0, 1},
            a4 \in {0, 1}, a5 \in {0, 1}, a6 \in {0, 1}, a7 \in {0, 1} :
           /\ Number(x) = Sum(a0, a1, a2, a3, a4, a5, a6, a7)
           /\ (a0 = 1) <=> (0 \in x)
           /\ (a1 = 1) <=> (1 \in x)
           /\ (a2 = 1) <=> (2 \in x)
           /\ (a3 = 1) <=> (3 \in x)
           /\ (a4 = 1) <=> (4 \in x)
           /\ (a5 = 1) <=> (5 \in x)
           /\ (a6 = 1) <=> (6 \in x)
           /\ (a7 = 1) <=> (7 \in x)
           /\ ((a0 + a1 + a2 + a3 + a4 + a5 + a6) % 2 = 1) <=> Odd6(x)
           /\ ((a0 + a1 + a2 + a3 + a4 + a5 + a6 + a7) % 2 = 1) <=> Odd7(x)
<1>1. PICK a0 \in {0, 1}, a1 \in {0, 1}, a2 \in {0, 1}, a3 \in {0, 1},
           a4 \in {0, 1}, a5 \in {0, 1}, a6 \in {0, 1}, a7 \in {0, 1} :
        /\ a0 = One(x, 0) /\ a1 = One(x, 1) /\ a2 = One(x, 2) /\ a3 = One(x, 3)
        /\ a4 = One(x, 4) /\ a5 = One(x, 5) /\ a6 = One(x, 6) /\ a7 = One(x, 7)
  BY DEF One
<1>2. Number(x) = Sum(a0, a1, a2, a3, a4, a5, a6, a7)
  BY <1>1, NumberIs
<1>3. /\ (a0 = 1) <=> (0 \in x)
      /\ (a1 = 1) <=> (1 \in x)
      /\ (a2 = 1) <=> (2 \in x)
      /\ (a3 = 1) <=> (3 \in x)
      /\ (a4 = 1) <=> (4 \in x)
      /\ (a5 = 1) <=> (5 \in x)
      /\ (a6 = 1) <=> (6 \in x)
      /\ (a7 = 1) <=> (7 \in x)
  BY <1>1 DEF One
<1>4. ((a0 + a1 + a2 + a3 + a4 + a5 + a6) % 2 = 1) <=>
        (((((((a0 = 1) # (a1 = 1)) # (a2 = 1)) # (a3 = 1)) # (a4 = 1)) # (a5 = 1)) # (a6 = 1))
  OBVIOUS
<1>5. ((a0 + a1 + a2 + a3 + a4 + a5 + a6 + a7) % 2 = 1) <=>
        ((((((((a0 = 1) # (a1 = 1)) # (a2 = 1)) # (a3 = 1)) # (a4 = 1)) # (a5 = 1)) # (a6 = 1)) # (a7 = 1))
  OBVIOUS
<1>6. /\ ((a0 + a1 + a2 + a3 + a4 + a5 + a6) % 2 = 1) <=> Odd6(x)
      /\ ((a0 + a1 + a2 + a3 + a4 + a5 + a6 + a7) % 2 = 1) <=> Odd7(x)
  BY <1>3, <1>4, <1>5 DEF Odd1, Odd2, Odd3, Odd4, Odd5, Odd6, Odd7
<1> QED
  BY <1>2, <1>3, <1>6

(* Two digits are odd together where they differ.                           *)
LEMMA OddPair == \A a, b \in {0, 1} : (a + b) % 2 \in {0, 1} /\ (((a + b) % 2 = 1) <=> ((a = 1) # (b = 1)))
OBVIOUS

LEMMA HiBits ==
  ASSUME NEW x \in Byte, NEW e, e = Bits(AucCRCHi[Number(x) + 1])
  PROVE  /\ e \in Byte
         /\ (0 \in e) <=> Odd7(x)
         /\ 1 \notin e /\ 2 \notin e /\ 3 \notin e /\ 4 \notin e /\ 5 \notin e
         /\ (6 \in e) <=> (0 \in x)
         /\ (7 \in e) <=> Odd1(x)
<1>1. PICK a0 \in {0, 1}, a1 \in {0, 1}, a2 \in {0, 1}, a3 \in {0, 1},
           a4 \in {0, 1}, a5 \in {0, 1}, a6 \in {0, 1}, a7 \in {0, 1} :
        /\ Number(x) = Sum(a0, a1, a2, a3, a4, a5, a6, a7)
        /\ (a0 = 1) <=> (0 \in x)
        /\ (a1 = 1) <=> (1 \in x)
        /\ ((a0 + a1 + a2 + a3 + a4 + a5 + a6 + a7) % 2 = 1) <=> Odd7(x)
  BY DigitsOf
<1>2. PICK p \in {0, 1}, q \in {0, 1} :
        /\ p = (a0 + a1 + a2 + a3 + a4 + a5 + a6 + a7) % 2
        /\ q = (a0 + a1) % 2
  OBVIOUS
<1>3. PICK n : n = Sum(p, 0, 0, 0, 0, 0, a0, q) /\ AucCRCHi[Number(x) + 1] = n
  BY <1>1, <1>2, TablesHold DEF HiEntry
<1>4. Written(n, p, 0, 0, 0, 0, 0, a0, q)
  BY <1>3, BitsOf
<1>5. (q = 1) <=> ((a0 = 1) # (a1 = 1))
  BY <1>2, OddPair
<1>6. e = Bits(n)
  BY <1>3
<1> QED
  BY <1>1, <1>2, <1>4, <1>5, <1>6 DEF Odd1, Written

LEMMA LoBits ==
  ASSUME NEW x \in Byte, NEW e, e = Bits(AucCRCLo[Number(x) + 1])
  PROVE  /\ e \in Byte
         /\ (0 \in e) <=> ((1 \in x) # (2 \in x))
         /\ (1 \in e) <=> ((2 \in x) # (3 \in x))
         /\ (2 \in e) <=> ((3 \in x) # (4 \in x))
         /\ (3 \in e) <=> ((4 \in x) # (5 \in x))
         /\ (4 \in e) <=> ((5 \in x) # (6 \in x))
         /\ (5 \in e) <=> ((6 \in x) # (7 \in x))
         /\ (6 \in e) <=> Odd6(x)
         /\ (7 \in e) <=> Odd7(x)
<1>1. PICK a0 \in {0, 1}, a1 \in {0, 1}, a2 \in {0, 1}, a3 \in {0, 1},
           a4 \in {0, 1}, a5 \in {0, 1}, a6 \in {0, 1}, a7 \in {0, 1} :
        /\ Number(x) = Sum(a0, a1, a2, a3, a4, a5, a6, a7)
        /\ (a1 = 1) <=> (1 \in x)
        /\ (a2 = 1) <=> (2 \in x)
        /\ (a3 = 1) <=> (3 \in x)
        /\ (a4 = 1) <=> (4 \in x)
        /\ (a5 = 1) <=> (5 \in x)
        /\ (a6 = 1) <=> (6 \in x)
        /\ (a7 = 1) <=> (7 \in x)
        /\ ((a0 + a1 + a2 + a3 + a4 + a5 + a6) % 2 = 1) <=> Odd6(x)
        /\ ((a0 + a1 + a2 + a3 + a4 + a5 + a6 + a7) % 2 = 1) <=> Odd7(x)
  BY DigitsOf
<1>2. PICK p \in {0, 1}, q \in {0, 1} :
        /\ p = (a0 + a1 + a2 + a3 + a4 + a5 + a6) % 2
        /\ q = (a0 + a1 + a2 + a3 + a4 + a5 + a6 + a7) % 2
  OBVIOUS
<1>3. PICK b0 \in {0, 1}, b1 \in {0, 1}, b2 \in {0, 1}, b3 \in {0, 1}, b4 \in {0, 1}, b5 \in {0, 1} :
        /\ b0 = (a1 + a2) % 2 /\ b1 = (a2 + a3) % 2 /\ b2 = (a3 + a4) % 2
        /\ b3 = (a4 + a5) % 2 /\ b4 = (a5 + a6) % 2 /\ b5 = (a6 + a7) % 2
  BY OddPair
<1>4. PICK n : n = Sum(b0, b1, b2, b3, b4, b5, p, q) /\ AucCRCLo[Number(x) + 1] = n
  BY <1>1, <1>2, <1>3, TablesHold DEF LoEntry
<1>5. Written(n, b0, b1, b2, b3, b4, b5, p, q)
  BY <1>4, BitsOf
<1>6. /\ (b0 = 1) <=> ((a1 = 1) # (a2 = 1))
      /\ (b1 = 1) <=> ((a2 = 1) # (a3 = 1))
      /\ (b2 = 1) <=> ((a3 = 1) # (a4 = 1))
      /\ (b3 = 1) <=> ((a4 = 1) # (a5 = 1))
      /\ (b4 = 1) <=> ((a5 = 1) # (a6 = 1))
      /\ (b5 = 1) <=> ((a6 = 1) # (a7 = 1))
  BY <1>3, OddPair
<1>7. e = Bits(n)
  BY <1>4
<1> QED
  BY <1>1, <1>2, <1>5, <1>6, <1>7 DEF Written

Word == SUBSET (0 .. 15)

(* The polynomial joins where a bit leaves the register.                    *)
LEMMA ShiftOf ==
  ASSUME NEW r \in Word, NEW s, s = ShiftBit(r)
  PROVE  /\ s \in Word
         /\ \A i \in 0 .. 15 : (i \in s) <=> ((i + 1 \in r) # (0 \in r /\ i \in {0, 13, 15}))
BY DEF ShiftBit, Xor, Polynomial, Word

LEMMA ShiftIs ==
  ASSUME NEW r \in Word, NEW s, s = ShiftBit(r)
  PROVE  /\ s \in Word
         /\ (0 \in s) <=> ((1 \in r) # (0 \in r))
         /\ (1 \in s) <=> (2 \in r)
         /\ (2 \in s) <=> (3 \in r)
         /\ (3 \in s) <=> (4 \in r)
         /\ (4 \in s) <=> (5 \in r)
         /\ (5 \in s) <=> (6 \in r)
         /\ (6 \in s) <=> (7 \in r)
         /\ (7 \in s) <=> (8 \in r)
         /\ (8 \in s) <=> (9 \in r)
         /\ (9 \in s) <=> (10 \in r)
         /\ (10 \in s) <=> (11 \in r)
         /\ (11 \in s) <=> (12 \in r)
         /\ (12 \in s) <=> (13 \in r)
         /\ (13 \in s) <=> ((14 \in r) # (0 \in r))
         /\ (14 \in s) <=> (15 \in r)
         /\ (15 \in s) <=> (0 \in r)
<1>1. s \in Word
  BY ShiftOf
<1>2. \A i \in 0 .. 15 : (i \in s) <=> ((i + 1 \in r) # (0 \in r /\ i \in {0, 13, 15}))
  BY ShiftOf
<1>3. 16 \notin r
  BY DEF Word
<1> QED
  BY <1>1, <1>2, <1>3

(* What eight shifts make of a register.                                    *)
LEMMA ShiftsAre ==
  ASSUME NEW r \in Word, NEW s, s = ShiftBits(ShiftBits(r))
  PROVE  /\ s \in Word
         /\ (0 \in s) <=> ((8 \in r) # Odd7(r))
         /\ (1 \in s) <=> (9 \in r)
         /\ (2 \in s) <=> (10 \in r)
         /\ (3 \in s) <=> (11 \in r)
         /\ (4 \in s) <=> (12 \in r)
         /\ (5 \in s) <=> (13 \in r)
         /\ (6 \in s) <=> ((14 \in r) # (0 \in r))
         /\ (7 \in s) <=> ((15 \in r) # Odd1(r))
         /\ (8 \in s) <=> ((1 \in r) # (2 \in r))
         /\ (9 \in s) <=> ((2 \in r) # (3 \in r))
         /\ (10 \in s) <=> ((3 \in r) # (4 \in r))
         /\ (11 \in s) <=> ((4 \in r) # (5 \in r))
         /\ (12 \in s) <=> ((5 \in r) # (6 \in r))
         /\ (13 \in s) <=> ((6 \in r) # (7 \in r))
         /\ (14 \in s) <=> Odd6(r)
         /\ (15 \in s) <=> Odd7(r)
<1>1. PICK r1 : r1 = ShiftBit(r)
  OBVIOUS
<1>2. PICK r2 : r2 = ShiftBit(r1)
  OBVIOUS
<1>3. PICK r3 : r3 = ShiftBit(r2)
  OBVIOUS
<1>4. PICK r4 : r4 = ShiftBit(r3)
  OBVIOUS
<1>5. PICK r5 : r5 = ShiftBit(r4)
  OBVIOUS
<1>6. PICK r6 : r6 = ShiftBit(r5)
  OBVIOUS
<1>7. PICK r7 : r7 = ShiftBit(r6)
  OBVIOUS
<1>8. s = ShiftBit(r7)
  BY <1>1, <1>2, <1>3, <1>4, <1>5, <1>6, <1>7 DEF ShiftBits
<1>9. r1 \in Word /\ r2 \in Word /\ r3 \in Word /\ r4 \in Word
  BY <1>1, <1>2, <1>3, <1>4, ShiftIs
<1>10. r5 \in Word /\ r6 \in Word /\ r7 \in Word /\ s \in Word
  BY <1>5, <1>6, <1>7, <1>8, <1>9, ShiftIs
<1> QED
  BY <1>1, <1>2, <1>3, <1>4, <1>5, <1>6, <1>7, <1>8, <1>9, <1>10, ShiftIs DEF Odd1, Odd2, Odd3, Odd4, Odd5, Odd6, Odd7

Halves == Byte \X Byte

(* One turn of the loop is eight shifts of the register.                    *)
LEMMA TurnShifts ==
  ASSUME NEW c \in Halves, NEW y \in Byte
  PROVE  CrcStep(c, y) \in Halves /\ Register(CrcStep(c, y)) = ShiftByte(Register(c), y)
<1>1. PICK x : x = Xor(c[2], y)
  OBVIOUS
<1>2. c[1] \in Byte /\ c[2] \in Byte /\ x \in Byte
  BY <1>1 DEF Halves, Byte, Xor
<1>3. PICK h : h = Bits(AucCRCHi[Number(x) + 1])
  OBVIOUS
<1>4. PICK l : l = Bits(AucCRCLo[Number(x) + 1])
  OBVIOUS
<1>5. h \in Byte /\ l \in Byte
  BY <1>2, <1>3, <1>4, HiBits, LoBits
<1>6. CrcStep(c, y) = <<l, Xor(c[1], h)>> /\ CrcStep(c, y) \in Halves
  BY <1>1, <1>2, <1>3, <1>4, <1>5 DEF CrcStep, Halves, Byte, Xor
<1>7. PICK r : r = Xor(Register(c), y)
  OBVIOUS
<1>8. r \in Word
  <2>1. Register(c) \in Word
    BY DEF Register, Word
  <2>2. y \in Word
    BY DEF Byte, Word
  <2> QED
    BY <1>7, <2>1, <2>2 DEF Xor, Word
<1>9. /\ \A i \in 0 .. 7 : (i \in r) <=> (i \in x)
      /\ \A i \in 8 .. 15 : (i \in r) <=> (i - 8 \in c[1])
  BY <1>1, <1>2, <1>7 DEF Register, Xor, Byte
<1>10. PICK s : s = ShiftBits(ShiftBits(r))
  OBVIOUS
<1>11. PICK t : t = Register(CrcStep(c, y))
  OBVIOUS
<1>12. t \in Word
  BY <1>11 DEF Register, Word
<1>13. /\ \A i \in 0 .. 7 : (i \in t) <=> ((i \in c[1]) # (i \in h))
       /\ \A i \in 8 .. 15 : (i \in t) <=> (i - 8 \in l)
  BY <1>2, <1>5, <1>6, <1>11 DEF Register, Xor, Byte
<1>14. s \in Word
  BY <1>8, <1>10, ShiftsAre
<1>15. \A i \in 0 .. 7 : (i \in r) <=> (i \in x)
  BY <1>9
<1>16. /\ Odd1(r) = Odd1(x) /\ Odd6(r) = Odd6(x) /\ Odd7(r) = Odd7(x)
       /\ Odd1(x) \in BOOLEAN /\ Odd7(x) \in BOOLEAN
  BY <1>15 DEF Odd1, Odd2, Odd3, Odd4, Odd5, Odd6, Odd7
<1>17. /\ (0 \in t) <=> (0 \in s)
       /\ (1 \in t) <=> (1 \in s)
       /\ (2 \in t) <=> (2 \in s)
       /\ (3 \in t) <=> (3 \in s)
       /\ (4 \in t) <=> (4 \in s)
       /\ (5 \in t) <=> (5 \in s)
       /\ (6 \in t) <=> (6 \in s)
       /\ (7 \in t) <=> (7 \in s)
  <2>1. /\ (0 \in h) <=> Odd7(x)
        /\ 1 \notin h /\ 2 \notin h /\ 3 \notin h /\ 4 \notin h /\ 5 \notin h
        /\ (6 \in h) <=> (0 \in x)
        /\ (7 \in h) <=> Odd1(x)
    BY <1>2, <1>3, HiBits
  <2>2. /\ (0 \in s) <=> ((8 \in r) # Odd7(r))
        /\ (1 \in s) <=> (9 \in r)
        /\ (2 \in s) <=> (10 \in r)
        /\ (3 \in s) <=> (11 \in r)
        /\ (4 \in s) <=> (12 \in r)
        /\ (5 \in s) <=> (13 \in r)
        /\ (6 \in s) <=> ((14 \in r) # (0 \in r))
        /\ (7 \in s) <=> ((15 \in r) # Odd1(r))
    BY <1>8, <1>10, ShiftsAre
  <2>3. /\ (8 \in r) <=> (0 \in c[1])
        /\ (9 \in r) <=> (1 \in c[1])
        /\ (10 \in r) <=> (2 \in c[1])
        /\ (11 \in r) <=> (3 \in c[1])
        /\ (12 \in r) <=> (4 \in c[1])
        /\ (13 \in r) <=> (5 \in c[1])
        /\ (14 \in r) <=> (6 \in c[1])
        /\ (15 \in r) <=> (7 \in c[1])
    BY <1>9
  <2>4. /\ (0 \in t) <=> ((0 \in c[1]) # (0 \in h))
        /\ (1 \in t) <=> ((1 \in c[1]) # (1 \in h))
        /\ (2 \in t) <=> ((2 \in c[1]) # (2 \in h))
        /\ (3 \in t) <=> ((3 \in c[1]) # (3 \in h))
        /\ (4 \in t) <=> ((4 \in c[1]) # (4 \in h))
        /\ (5 \in t) <=> ((5 \in c[1]) # (5 \in h))
        /\ (6 \in t) <=> ((6 \in c[1]) # (6 \in h))
        /\ (7 \in t) <=> ((7 \in c[1]) # (7 \in h))
    BY <1>13
  <2>5. (0 \in r) <=> (0 \in x)
    BY <1>9
  <2>6. /\ (0 \in t) <=> (0 \in s)
        /\ (6 \in t) <=> (6 \in s)
        /\ (7 \in t) <=> (7 \in s)
    BY <1>16, <2>1, <2>2, <2>3, <2>4, <2>5
  <2>7. /\ (1 \in t) <=> (1 \in s)
        /\ (2 \in t) <=> (2 \in s)
        /\ (3 \in t) <=> (3 \in s)
        /\ (4 \in t) <=> (4 \in s)
        /\ (5 \in t) <=> (5 \in s)
    BY <2>1, <2>2, <2>3, <2>4
  <2> QED
    BY <2>6, <2>7
<1>18. /\ (8 \in t) <=> (8 \in s)
       /\ (9 \in t) <=> (9 \in s)
       /\ (10 \in t) <=> (10 \in s)
       /\ (11 \in t) <=> (11 \in s)
       /\ (12 \in t) <=> (12 \in s)
       /\ (13 \in t) <=> (13 \in s)
       /\ (14 \in t) <=> (14 \in s)
       /\ (15 \in t) <=> (15 \in s)
  <2>1. /\ (0 \in l) <=> ((1 \in x) # (2 \in x))
        /\ (1 \in l) <=> ((2 \in x) # (3 \in x))
        /\ (2 \in l) <=> ((3 \in x) # (4 \in x))
        /\ (3 \in l) <=> ((4 \in x) # (5 \in x))
        /\ (4 \in l) <=> ((5 \in x) # (6 \in x))
        /\ (5 \in l) <=> ((6 \in x) # (7 \in x))
        /\ (6 \in l) <=> Odd6(x)
        /\ (7 \in l) <=> Odd7(x)
    BY <1>2, <1>4, LoBits
  <2>2. /\ (8 \in s) <=> ((1 \in r) # (2 \in r))
        /\ (9 \in s) <=> ((2 \in r) # (3 \in r))
        /\ (10 \in s) <=> ((3 \in r) # (4 \in r))
        /\ (11 \in s) <=> ((4 \in r) # (5 \in r))
        /\ (12 \in s) <=> ((5 \in r) # (6 \in r))
        /\ (13 \in s) <=> ((6 \in r) # (7 \in r))
        /\ (14 \in s) <=> Odd6(r)
        /\ (15 \in s) <=> Odd7(r)
    BY <1>8, <1>10, ShiftsAre
  <2> QED
    BY <1>9, <1>13, <1>16, <2>1, <2>2
<1>19. t = s
  <2>1. ASSUME NEW i \in 0 .. 15 PROVE (i \in t) <=> (i \in s)
    BY <1>17, <1>18
  <2> QED
    BY <1>12, <1>14, <2>1 DEF Word
<1> QED
  BY <1>6, <1>7, <1>10, <1>11, <1>19 DEF ShiftByte

(* The registers of the definition: a recursive function is the one that    *)
(* its equation has.                                                        *)
Registers(bytes, n, g) ==
  g = [i \in 0 .. n |-> IF i = 0 THEN 0 .. 15 ELSE ShiftByte(g[i - 1], bytes[i])]

LEMMA RegistersExist ==
  ASSUME NEW bytes, NEW n \in Nat
  PROVE  \E g : Registers(bytes, n, g)
<1> DEFINE Bad == {k \in Nat : ~\E g : Registers(bytes, k, g)}
<1> SUFFICES ASSUME Bad # {} PROVE FALSE
  OBVIOUS
<1>1. PICK m \in Bad : \A k \in Bad : m <= k
  <2>1. Bad \subseteq Nat
    OBVIOUS
  <2> HIDE DEF Bad
  <2> QED
    BY <2>1, LeastNumber
<1>2. m \in Nat /\ ~\E g : Registers(bytes, m, g)
  OBVIOUS
<1>3. CASE m = 0
  <2> DEFINE g == [i \in 0 .. 0 |-> 0 .. 15]
  <2>1. g = [i \in 0 .. 0 |-> IF i = 0 THEN 0 .. 15 ELSE ShiftByte(g[i - 1], bytes[i])]
    OBVIOUS
  <2> QED
    BY <1>2, <1>3, <2>1 DEF Registers
<1>4. CASE m # 0
  <2>1. PICK k \in Nat : m = k + 1
    BY <1>2, <1>4
  <2>2. k \notin Bad
    BY <1>1, <2>1
  <2>3. PICK g : Registers(bytes, k, g)
    BY <2>2
  <2>4. g = [i \in 0 .. k |-> IF i = 0 THEN 0 .. 15 ELSE ShiftByte(g[i - 1], bytes[i])]
    BY <2>3 DEF Registers
  <2> DEFINE h == [i \in 0 .. m |-> IF i = m THEN ShiftByte(g[k], bytes[m]) ELSE g[i]]
  <2>5. ASSUME NEW i \in 0 .. m
        PROVE  h[i] = IF i = 0 THEN 0 .. 15 ELSE ShiftByte(h[i - 1], bytes[i])
    <3>1. CASE i = m
      <4>1. h[i] = ShiftByte(g[k], bytes[m])
        BY <3>1
      <4>2. i - 1 = k /\ i - 1 \in 0 .. m /\ i - 1 # m
        BY <2>1, <3>1
      <4>3. h[i - 1] = g[k]
        BY <4>2
      <4> QED
        BY <1>4, <3>1, <4>1, <4>3
    <3>2. CASE i # m
      <4>1. i \in 0 .. k /\ h[i] = g[i]
        BY <2>1, <3>2
      <4>2. i # 0 => i - 1 \in 0 .. m /\ i - 1 # m
        BY <2>1, <4>1
      <4>3. i # 0 => h[i - 1] = g[i - 1]
        BY <4>2
      <4> QED
        BY <2>4, <4>1, <4>3
    <3> QED
      BY <3>1, <3>2
  <2>6. h = [i \in 0 .. m |-> IF i = 0 THEN 0 .. 15 ELSE ShiftByte(h[i - 1], bytes[i])]
    <3>1. h = [i \in 0 .. m |-> h[i]]
      OBVIOUS
    <3> HIDE DEF h
    <3> QED
      BY <2>5, <3>1
  <2>7. Registers(bytes, m, h)
    BY <2>6 DEF Registers
  <2> QED
    BY <1>2, <2>7
<1> QED
  BY <1>3, <1>4

LEMMA CrcIs ==
  ASSUME NEW bytes, NEW n \in Nat
  PROVE  \E g : Registers(bytes, n, g) /\ ModbusCrc(bytes, n) = g[n]
<1>1. PICK g : g = CHOOSE f : f = [i \in 0 .. n |-> IF i = 0 THEN 0 .. 15
                                                   ELSE ShiftByte(f[i - 1], bytes[i])]
  OBVIOUS
<1>2. \E f : f = [i \in 0 .. n |-> IF i = 0 THEN 0 .. 15 ELSE ShiftByte(f[i - 1], bytes[i])]
  BY RegistersExist DEF Registers
<1>3. g = [i \in 0 .. n |-> IF i = 0 THEN 0 .. 15 ELSE ShiftByte(g[i - 1], bytes[i])]
  BY <1>1, <1>2
<1>4. ModbusCrc(bytes, n) = g[n]
  BY <1>1 DEF ModbusCrc
<1> QED
  BY <1>3, <1>4 DEF Registers

(* Two such functions agree as far as both go.                              *)
LEMMA RegistersAgree ==
  ASSUME NEW bytes, NEW k \in Nat, NEW g, Registers(bytes, k, g), NEW h, Registers(bytes, k + 1, h)
  PROVE  g[k] = h[k]
<1> DEFINE Bad == {i \in Nat : i <= k /\ g[i] # h[i]}
<1> SUFFICES ASSUME Bad # {} PROVE FALSE
  OBVIOUS
<1>1. PICK m \in Bad : \A i \in Bad : m <= i
  <2>1. Bad \subseteq Nat
    OBVIOUS
  <2> HIDE DEF Bad
  <2> QED
    BY <2>1, LeastNumber
<1>2. m \in 0 .. k /\ m \in 0 .. k + 1 /\ g[m] # h[m]
  OBVIOUS
<1>3. /\ g[m] = IF m = 0 THEN 0 .. 15 ELSE ShiftByte(g[m - 1], bytes[m])
      /\ h[m] = IF m = 0 THEN 0 .. 15 ELSE ShiftByte(h[m - 1], bytes[m])
  BY <1>2 DEF Registers
<1>4. m # 0 /\ m - 1 \in Nat /\ m - 1 <= k /\ ~(m <= m - 1)
  BY <1>2, <1>3
<1>5. g[m - 1] = h[m - 1]
  BY <1>1, <1>4
<1> QED
  BY <1>2, <1>3, <1>4, <1>5

(* The definition, an equation for each byte.                               *)
LEMMA CrcStarts == \A bytes : ModbusCrc(bytes, 0) = 0 .. 15
<1> TAKE bytes
<1>1. PICK g : Registers(bytes, 0, g) /\ ModbusCrc(bytes, 0) = g[0]
  BY CrcIs
<1> QED
  BY <1>1 DEF Registers

LEMMA CrcGoesOn ==
  ASSUME NEW bytes, NEW n \in Nat
  PROVE  ModbusCrc(bytes, n + 1) = ShiftByte(ModbusCrc(bytes, n), bytes[n + 1])
<1>1. PICK g : Registers(bytes, n, g) /\ ModbusCrc(bytes, n) = g[n]
  BY CrcIs
<1>2. PICK m \in Nat : m = n + 1
  OBVIOUS
<1>3. PICK h : Registers(bytes, m, h) /\ ModbusCrc(bytes, m) = h[m]
  BY CrcIs
<1>4. h[m] = ShiftByte(h[n], bytes[m])
  <2>1. \A i \in 0 .. m : h[i] = IF i = 0 THEN 0 .. 15 ELSE ShiftByte(h[i - 1], bytes[i])
    BY <1>3 DEF Registers
  <2>2. m \in 0 .. m /\ m # 0 /\ m - 1 = n
    BY <1>2
  <2> QED
    BY <2>1, <2>2
<1>5. g[n] = h[n]
  BY <1>1, <1>2, <1>3, RegistersAgree
<1> QED
  BY <1>1, <1>2, <1>3, <1>4, <1>5

(* Shifting loses nothing, so that different registers stay different.     *)
LEMMA ShiftBitApart ==
  ASSUME NEW r \in Word, NEW q \in Word, ShiftBit(r) = ShiftBit(q)
  PROVE  r = q
<1>1. PICK s : s = ShiftBit(r) /\ s = ShiftBit(q)
  OBVIOUS
<1>2. (0 \in r) <=> (0 \in q)
  BY <1>1, ShiftIs
<1>3. ASSUME NEW i \in 0 .. 14 PROVE (i + 1 \in r) <=> (i + 1 \in q)
  <2>1. i + 1 \in 0 .. 15 /\ i \in 0 .. 15
    OBVIOUS
  <2>2. /\ (i \in s) <=> ((i + 1 \in r) # (0 \in r /\ i \in {0, 13, 15}))
        /\ (i \in s) <=> ((i + 1 \in q) # (0 \in q /\ i \in {0, 13, 15}))
    BY <1>1, <2>1, ShiftOf
  <2> QED
    BY <1>2, <2>2
<1>4. ASSUME NEW i \in 0 .. 15 PROVE (i \in r) <=> (i \in q)
  <2>1. CASE i = 0
    BY <1>2, <2>1
  <2>2. CASE i # 0
    <3>1. PICK k \in 0 .. 14 : i = k + 1
      BY <2>2
    <3> QED
      BY <1>3, <3>1
  <2> QED
    BY <2>1, <2>2
<1> QED
  BY <1>4 DEF Word

LEMMA ShiftsApart ==
  ASSUME NEW r \in Word, NEW q \in Word, ShiftBits(ShiftBits(r)) = ShiftBits(ShiftBits(q))
  PROVE  r = q
<1>1. \A t \in Word : ShiftBit(t) \in Word
  BY ShiftIs
<1>2. \A t, u \in Word : ShiftBit(t) = ShiftBit(u) => t = u
  BY ShiftBitApart
<1>3. \A t, u \in Word : ShiftBits(t) = ShiftBits(u) => t = u
  BY <1>1, <1>2 DEF ShiftBits
<1>4. \A t \in Word : ShiftBits(t) \in Word
  BY <1>1 DEF ShiftBits
<1> QED
  BY <1>3, <1>4

LEMMA XorFacts ==
  ASSUME NEW r \in Word, NEW y \in Byte
  PROVE  /\ y \in Word /\ Xor(r, y) \in Word
         /\ \A i \in 8 .. 15 : (i \in Xor(r, y)) <=> (i \in r)
         /\ \A i \in 0 .. 7 : (i \in Xor(r, y)) <=> ((i \in r) # (i \in y))
<1>1. y \in Word
  BY DEF Byte, Word
<1>2. \A i \in 8 .. 15 : i \notin y
  BY DEF Byte
<1> QED
  BY <1>1, <1>2 DEF Xor, Word

LEMMA ShiftByteApart ==
  ASSUME NEW r \in Word, NEW q \in Word, NEW y \in Byte, ShiftByte(r, y) = ShiftByte(q, y)
  PROVE  r = q
<1>1. Xor(r, y) = Xor(q, y)
  BY ShiftsApart, XorFacts DEF ShiftByte
<1> QED
  BY <1>1 DEF Xor

LEMMA ShiftByteIsWord ==
  ASSUME NEW r \in Word, NEW y \in Byte
  PROVE  ShiftByte(r, y) \in Word
<1>1. Xor(r, y) \in Word
  BY XorFacts
<1> QED
  BY <1>1, ShiftsAre DEF ShiftByte

LEMMA BytesApart ==
  ASSUME NEW r \in Word, NEW y \in Byte, NEW z \in Byte, ShiftByte(r, y) = ShiftByte(r, z)
  PROVE  y = z
<1>1. Xor(r, y) = Xor(r, z)
  BY ShiftsApart, XorFacts DEF ShiftByte
<1> QED
  BY <1>1 DEF Xor

(* What leaves the lower half decides the upper one, and the next byte      *)
(* cannot undo it.                                                          *)
LEMMA UpperTellsLower ==
  ASSUME NEW r \in Word, NEW q \in Word, NEW s, NEW t,
         s = ShiftBits(ShiftBits(r)), t = ShiftBits(ShiftBits(q)),
         \A i \in 8 .. 15 : (i \in s) <=> (i \in t)
  PROVE  \A i \in 0 .. 7 : (i \in r) <=> (i \in q)
<1>1. /\ (8 \in s) <=> (8 \in t)
      /\ (9 \in s) <=> (9 \in t)
      /\ (10 \in s) <=> (10 \in t)
      /\ (11 \in s) <=> (11 \in t)
      /\ (12 \in s) <=> (12 \in t)
      /\ (13 \in s) <=> (13 \in t)
      /\ (14 \in s) <=> (14 \in t)
      /\ (15 \in s) <=> (15 \in t)
  OBVIOUS
<1>2. /\ (8 \in s) <=> ((1 \in r) # (2 \in r))
      /\ (9 \in s) <=> ((2 \in r) # (3 \in r))
      /\ (10 \in s) <=> ((3 \in r) # (4 \in r))
      /\ (11 \in s) <=> ((4 \in r) # (5 \in r))
      /\ (12 \in s) <=> ((5 \in r) # (6 \in r))
      /\ (13 \in s) <=> ((6 \in r) # (7 \in r))
      /\ (14 \in s) <=> Odd6(r)
      /\ (15 \in s) <=> Odd7(r)
  BY ShiftsAre
<1>3. /\ (8 \in t) <=> ((1 \in q) # (2 \in q))
      /\ (9 \in t) <=> ((2 \in q) # (3 \in q))
      /\ (10 \in t) <=> ((3 \in q) # (4 \in q))
      /\ (11 \in t) <=> ((4 \in q) # (5 \in q))
      /\ (12 \in t) <=> ((5 \in q) # (6 \in q))
      /\ (13 \in t) <=> ((6 \in q) # (7 \in q))
      /\ (14 \in t) <=> Odd6(q)
      /\ (15 \in t) <=> Odd7(q)
  BY ShiftsAre
<1>4. /\ (0 \in r) <=> (0 \in q)
      /\ (1 \in r) <=> (1 \in q)
      /\ (2 \in r) <=> (2 \in q)
      /\ (3 \in r) <=> (3 \in q)
      /\ (4 \in r) <=> (4 \in q)
      /\ (5 \in r) <=> (5 \in q)
      /\ (6 \in r) <=> (6 \in q)
      /\ (7 \in r) <=> (7 \in q)
  BY <1>1, <1>2, <1>3 DEF Odd1, Odd2, Odd3, Odd4, Odd5, Odd6, Odd7
<1> QED
  BY <1>4

LEMMA PairsApart ==
  ASSUME NEW r \in Word, NEW a \in Byte, NEW b \in Byte, NEW y \in Byte, NEW z \in Byte,
         ShiftByte(ShiftByte(r, a), b) = ShiftByte(ShiftByte(r, y), z)
  PROVE  a = y /\ b = z
<1>1. PICK u \in Word : u = ShiftByte(r, a)
  BY ShiftByteIsWord
<1>2. PICK v \in Word : v = ShiftByte(r, y)
  BY ShiftByteIsWord
<1>3. Xor(u, b) = Xor(v, z)
  BY <1>1, <1>2, ShiftsApart, XorFacts DEF ShiftByte
<1>4. \A i \in 8 .. 15 : (i \in u) <=> (i \in v)
  BY <1>3, XorFacts
<1>5. \A i \in 0 .. 7 : (i \in Xor(r, a)) <=> (i \in Xor(r, y))
  <2>1. PICK e \in Word : e = Xor(r, a)
    BY XorFacts
  <2>2. PICK f \in Word : f = Xor(r, y)
    BY XorFacts
  <2>3. u = ShiftBits(ShiftBits(e)) /\ v = ShiftBits(ShiftBits(f))
    BY <1>1, <1>2, <2>1, <2>2 DEF ShiftByte
  <2> QED
    BY <1>4, <2>1, <2>2, <2>3, UpperTellsLower
<1>6. a = y
  <2>1. \A i \in 0 .. 7 : (i \in a) <=> (i \in y)
    BY <1>5 DEF Xor
  <2> QED
    BY <2>1 DEF Byte
<1> QED
  BY <1>1, <1>2, <1>6, BytesApart

(* Frames of bytes have registers.                                          *)
LEMMA CrcIsWord ==
  ASSUME NEW bytes, NEW n \in Nat, \A i \in 1 .. n : bytes[i] \in Byte
  PROVE  ModbusCrc(bytes, n) \in Word
<1> DEFINE Bad == {k \in Nat : k <= n /\ ModbusCrc(bytes, k) \notin Word}
<1> SUFFICES ASSUME Bad # {} PROVE FALSE
  OBVIOUS
<1>1. PICK m \in Bad : \A k \in Bad : m <= k
  <2>1. Bad \subseteq Nat
    OBVIOUS
  <2> HIDE DEF Bad
  <2> QED
    BY <2>1, LeastNumber
<1>2. m \in Nat /\ m <= n /\ ModbusCrc(bytes, m) \notin Word
  OBVIOUS
<1>3. CASE m = 0
  BY <1>2, <1>3, CrcStarts DEF Word
<1>4. CASE m # 0
  <2>1. PICK k \in Nat : m = k + 1
    BY <1>2, <1>4
  <2>2. k <= n /\ k \notin Bad
    BY <1>1, <1>2, <2>1
  <2>3. ModbusCrc(bytes, k) \in Word /\ bytes[m] \in Byte
    BY <1>2, <1>4, <2>2
  <2> QED
    BY <1>2, <2>1, <2>3, CrcGoesOn, ShiftByteIsWord
<1> QED
  BY <1>3, <1>4

(* The checksum of what two frames have in common.                          *)
LEMMA SameStart ==
  ASSUME NEW f, NEW g, NEW n \in Nat, \A i \in 1 .. n : f[i] = g[i]
  PROVE  ModbusCrc(f, n) = ModbusCrc(g, n)
<1> DEFINE Bad == {k \in Nat : k <= n /\ ModbusCrc(f, k) # ModbusCrc(g, k)}
<1> SUFFICES ASSUME Bad # {} PROVE FALSE
  OBVIOUS
<1>1. PICK m \in Bad : \A k \in Bad : m <= k
  <2>1. Bad \subseteq Nat
    OBVIOUS
  <2> HIDE DEF Bad
  <2> QED
    BY <2>1, LeastNumber
<1>2. m \in Nat /\ m <= n /\ ModbusCrc(f, m) # ModbusCrc(g, m)
  OBVIOUS
<1>3. m # 0
  BY <1>2, CrcStarts
<1>4. PICK k \in Nat : m = k + 1
  BY <1>2, <1>3
<1>5. k <= n /\ k \notin Bad
  BY <1>1, <1>2, <1>4
<1>6. ModbusCrc(f, k) = ModbusCrc(g, k) /\ f[m] = g[m]
  BY <1>2, <1>3, <1>5
<1> QED
  BY <1>2, <1>4, <1>6, CrcGoesOn

(* Where the same bytes follow, a difference stays.                         *)
LEMMA SameEnd ==
  ASSUME NEW f, NEW g, NEW n \in Nat, NEW i \in 0 .. n,
         \A j \in 1 .. n : f[j] \in Byte /\ g[j] \in Byte,
         \A j \in i + 1 .. n : f[j] = g[j],
         ModbusCrc(f, i) # ModbusCrc(g, i)
  PROVE  ModbusCrc(f, n) # ModbusCrc(g, n)
<1> DEFINE Bad == {k \in Nat : i <= k /\ k <= n /\ ModbusCrc(f, k) = ModbusCrc(g, k)}
<1> SUFFICES ASSUME Bad # {} PROVE FALSE
  OBVIOUS
<1>1. PICK m \in Bad : \A k \in Bad : m <= k
  <2>1. Bad \subseteq Nat
    OBVIOUS
  <2> HIDE DEF Bad
  <2> QED
    BY <2>1, LeastNumber
<1>2. m \in Nat /\ m <= n /\ i <= m /\ ModbusCrc(f, m) = ModbusCrc(g, m)
  OBVIOUS
<1>3. i < m
  BY <1>2
<1>4. PICK k \in Nat : m = k + 1
  BY <1>2, <1>3
<1>5. k <= n /\ i <= k /\ k \notin Bad
  BY <1>1, <1>2, <1>3, <1>4
<1>6. ModbusCrc(f, k) # ModbusCrc(g, k) /\ f[m] = g[m] /\ f[m] \in Byte
  BY <1>2, <1>3, <1>5
<1>7. \A j \in 1 .. k : f[j] \in Byte /\ g[j] \in Byte
  BY <1>5
<1>8. ModbusCrc(f, k) \in Word /\ ModbusCrc(g, k) \in Word
  BY <1>7, CrcIsWord
<1> QED
  BY <1>2, <1>4, <1>6, <1>8, CrcGoesOn, ShiftByteApart

(* Two frames that are the same but for one byte, or two in a row.         *)
LEMMA BurstsApart ==
  ASSUME NEW f, NEW g, NEW n \in Nat, NEW i \in 1 .. n,
         \A j \in 1 .. n : f[j] \in Byte /\ g[j] \in Byte,
         \A j \in 1 .. n : j # i /\ j # i + 1 => f[j] = g[j],
         \E j \in 1 .. n : f[j] # g[j]
  PROVE  ModbusCrc(f, n) # ModbusCrc(g, n)
<1>1. PICK k \in Nat : i = k + 1
  OBVIOUS
<1>2. ModbusCrc(f, k) = ModbusCrc(g, k)
  <2>1. \A j \in 1 .. k : f[j] = g[j]
    BY <1>1
  <2> QED
    BY <2>1, SameStart
<1>3. ModbusCrc(f, k) \in Word
  <2>1. \A j \in 1 .. k : f[j] \in Byte
    BY <1>1
  <2> QED
    BY <2>1, CrcIsWord
<1>4. /\ ModbusCrc(f, i) = ShiftByte(ModbusCrc(f, k), f[i])
      /\ ModbusCrc(g, i) = ShiftByte(ModbusCrc(g, k), g[i])
  BY <1>1, CrcGoesOn
<1>5. CASE i = n
  <2>1. f[i] # g[i]
    BY <1>5
  <2> QED
    BY <1>2, <1>3, <1>4, <1>5, <2>1, BytesApart
<1>6. CASE i # n
  <2>1. PICK m \in 1 .. n : m = i + 1
    BY <1>6
  <2>2. /\ ModbusCrc(f, m) = ShiftByte(ModbusCrc(f, i), f[m])
        /\ ModbusCrc(g, m) = ShiftByte(ModbusCrc(g, i), g[m])
    BY <2>1, CrcGoesOn
  <2>3. f[i] # g[i] \/ f[m] # g[m]
    BY <2>1
  <2>4. ModbusCrc(f, m) # ModbusCrc(g, m)
    BY <1>2, <1>3, <1>4, <2>2, <2>3, PairsApart
  <2>5. \A j \in m + 1 .. n : f[j] = g[j]
    BY <2>1
  <2> QED
    BY <2>4, <2>5, SameEnd
<1> QED
  BY <1>5, <1>6

(* Before the call nothing has been read; in the loop the register is that *)
(* of the bytes before pucFrame, and usLen counts what is left.             *)
FrameInv ==
  /\ frame \in Seq(Byte) /\ crc \in Halves /\ pucFrame \in Nat /\ usLen \in Nat
  /\ pucFrame = 0 => usLen = 0 /\ crc = <<0 .. 7, 0 .. 7>>
  /\ pucFrame # 0 => /\ pucFrame - 1 + usLen = Len(frame) % 256
                     /\ Register(crc) = ModbusCrc(frame, pucFrame - 1)

LEMMA BitsAreByte == \A n : Bits(n) \in Byte
BY DEF Bits, Byte

LEMMA FrameInvInit == FrameInit => FrameInv
<1> SUFFICES ASSUME FrameInit PROVE FrameInv
  OBVIOUS
<1>1. frame = <<>> /\ pucFrame = 0 /\ usLen = 0 /\ crc = <<0 .. 7, 0 .. 7>>
  BY DEF FrameInit
<1>2. crc \in Halves
  BY <1>1 DEF Halves, Byte
<1>3. frame \in Seq(Byte)
  BY <1>1
<1> QED
  BY <1>1, <1>2, <1>3 DEF FrameInv

LEMMA FrameInvStep == FrameInv /\ [FrameNext]_frameVars => FrameInv'
<1> SUFFICES ASSUME FrameInv, [FrameNext]_frameVars PROVE FrameInv'
  OBVIOUS
<1> USE DEF FrameInv
<1>1. CASE MoreFrame
  <2>1. PICK n : frame' = Append(frame, Bits(n))
    BY <1>1 DEF MoreFrame
  <2>2. frame' \in Seq(Byte)
    BY <2>1, BitsAreByte
  <2> QED
    BY <1>1, <2>2 DEF MoreFrame
<1>2. CASE UsMBCRC16
  <2>1. /\ pucFrame = 0 /\ pucFrame' = 1 /\ usLen' = Len(frame) % 256
        /\ UNCHANGED <<frame, crc>>
    BY <1>2 DEF UsMBCRC16
  <2>2. Len(frame) % 256 \in Nat
    OBVIOUS
  <2>3. Register(crc) = 0 .. 15
    BY <2>1 DEF Register
  <2>4. pucFrame' - 1 = 0
    BY <2>1
  <2>5. Register(crc)' = ModbusCrc(frame, pucFrame - 1)'
    BY <2>1, <2>3, <2>4, CrcStarts
  <2> QED
    BY <2>1, <2>2, <2>5
<1>3. CASE ReadByte
  <2>1. /\ usLen # 0 /\ usLen' = usLen - 1 /\ frame' = frame
        /\ crc' = CrcStep(crc, frame[pucFrame]) /\ pucFrame' = pucFrame + 1
    BY <1>3 DEF ReadByte
  <2>2. pucFrame # 0 /\ Len(frame) \in Nat
    BY <2>1
  <2>3. PICK k \in Nat : pucFrame = k + 1
    BY <2>2
  <2>4. k + usLen = Len(frame) % 256 /\ Register(crc) = ModbusCrc(frame, k)
    BY <2>2, <2>3
  <2>5. pucFrame \in 1 .. Len(frame)
    BY <2>1, <2>2, <2>3, <2>4
  <2>6. frame[pucFrame] \in Byte
    BY <2>5
  <2>7. crc' \in Halves /\ Register(crc') = ShiftByte(Register(crc), frame[pucFrame])
    BY <2>1, <2>6, TurnShifts
  <2>8. ModbusCrc(frame, pucFrame) = ShiftByte(ModbusCrc(frame, k), frame[pucFrame])
    BY <2>3, CrcGoesOn
  <2>9. pucFrame' # 0 /\ pucFrame' - 1 = pucFrame /\ pucFrame' \in Nat /\ usLen' \in Nat
    BY <2>1, <2>2
  <2>10. Register(crc)' = ModbusCrc(frame, pucFrame - 1)'
    BY <2>1, <2>4, <2>7, <2>8, <2>9
  <2>11. (pucFrame - 1 + usLen = Len(frame) % 256)'
    BY <2>1, <2>3, <2>4, <2>9
  <2> QED
    BY <2>1, <2>7, <2>9, <2>10, <2>11
<1>4. CASE UNCHANGED frameVars
  BY <1>4 DEF frameVars
<1> QED
  BY <1>1, <1>2, <1>3, <1>4 DEF FrameNext

LEMMA ChecksToZero ==
  ASSUME NEW c \in Halves
  PROVE  CrcStep(CrcStep(c, c[2]), c[1]) = <<{}, {}>>
<1>1. Number({}) = 0
  BY DEF Number, Weight
<1>2. AucCRCHi[0 + 1] = 0 /\ AucCRCLo[0 + 1] = 0
  BY DEF AucCRCHi, AucCRCLo
<1>3. Bits(0) = {}
  <2>1. {} \in Byte
    BY DEF Byte
  <2>2. 0 = Sum(0, 0, 0, 0, 0, 0, 0, 0)
    BY DEF Sum
  <2>3. Written(0, 0, 0, 0, 0, 0, 0, 0, 0)
    BY <2>2, BitsOf
  <2>4. \A i \in 0 .. 7 : i \notin Bits(0)
    BY <2>3 DEF Written
  <2> QED
    BY <2>4, BitsAreByte DEF Byte
<1>4. \A x : Xor(x, x) = {} /\ Xor(x, {}) = x
  BY DEF Xor
<1>5. \A h, l : CrcStep(<<h, l>>, l) = <<{}, h>>
  BY <1>1, <1>2, <1>3, <1>4 DEF CrcStep
<1>6. c = <<c[1], c[2]>>
  BY DEF Halves
<1>7. CrcStep(c, c[2]) = <<{}, c[1]>>
  BY <1>5, <1>6
<1> QED
  BY <1>5, <1>7

LEMMA ChecksumInv == FrameInv => ChecksumIsModbus
<1> SUFFICES ASSUME FrameInv PROVE ChecksumIsModbus
  OBVIOUS
<1> USE DEF FrameInv
<1>1. TablesArePolynomial
  BY DEF TablesArePolynomial, CrcDone
<1>2. SentFramesCheck
  BY ChecksToZero DEF SentFramesCheck
<1>3. BurstsAreDetected
  <2> SUFFICES ASSUME CrcDone, NEW i \in 1 .. pucFrame - 1, NEW m \in FrameBytes, NEW n \in FrameBytes,
                      \E j \in 1 .. pucFrame - 1 : Changed(i, m, n)[j] # frame[j]
               PROVE  ModbusCrc(Changed(i, m, n), pucFrame - 1) # Register(crc)
    BY DEF BurstsAreDetected
  <2>1. PICK k \in Nat : pucFrame - 1 = k
    BY DEF CrcDone
  <2>2. k = Len(frame) % 256 /\ k <= Len(frame) /\ Register(crc) = ModbusCrc(frame, k)
    BY <2>1 DEF CrcDone
  <2>3. PICK g : g = Changed(i, m, n)
    OBVIOUS
  <2>4. \A j \in 1 .. k : j \in DOMAIN frame /\ frame[j] \in Byte
    BY <2>2
  <2>5. \A j \in 1 .. k : g[j] = IF j = i THEN Bits(m) ELSE IF j = i + 1 THEN Bits(n) ELSE frame[j]
    BY <2>3, <2>4 DEF Changed
  <2>6. \A j \in 1 .. k : g[j] \in Byte
    BY <2>4, <2>5, BitsAreByte
  <2>7. \A j \in 1 .. k : j # i /\ j # i + 1 => g[j] = frame[j]
    BY <2>5
  <2>8. (\E j \in 1 .. k : g[j] # frame[j]) /\ i \in 1 .. k
    BY <2>1, <2>3
  <2>9. ModbusCrc(g, k) # ModbusCrc(frame, k)
    <3>1. \A j \in 1 .. k : g[j] \in Byte /\ frame[j] \in Byte
      BY <2>4, <2>6
    <3>2. i \in 1 .. k /\ \E j \in 1 .. k : g[j] # frame[j]
      BY <2>8
    <3> HIDE DEF FrameInv
    <3> QED
      BY <2>7, <3>1, <3>2, BurstsApart
  <2> QED
    BY <2>1, <2>2, <2>3, <2>9
<1> QED
  BY <1>1, <1>2, <1>3 DEF ChecksumIsModbus

(* For frames of any length usMBCRC16 computes the checksum of the Modbus   *)
(* protocol over as many bytes as its argument usLen can count; a frame     *)
(* that is followed by its checksum checks to zero, and what changes one of *)
(* its bytes, or two in a row, changes the checksum.                        *)
THEOREM ChecksumIsCorrect == FrameSpec => []ChecksumIsModbus
<1>1. FrameSpec => []FrameInv
  BY FrameInvInit, FrameInvStep, PTL DEF FrameSpec
<1> QED
  BY <1>1, ChecksumInv, PTL
=============================================================================
