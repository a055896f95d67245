------------------------ MODULE ReorderBufferProofs ------------------------
(***************************************************************************)
(* Proofs about ReorderBuffer for every ring size, every number of         *)
(* sequence numbers that is a multiple of it, and every threshold and hold *)
(* time: the type invariant, the window invariant and what follows from    *)
(* it, and that the buffer implements Resequencer.                         *)
(***************************************************************************)
EXTENDS ReorderBuffer, Facts, FiniteSetTheorems, TLAPS

----------------------------------------------------------------------------
(* The greatest element is what Max names. *)
LEMMA MaxOfBounded ==
  ASSUME NEW b \in Nat, NEW T \in SUBSET (0..b), T # {}
  PROVE  Max(T) \in T /\ \A y \in T : y <= Max(T)
<1>1. PICK x \in T : \A y \in T : y <= x
  BY GreatestNatural, Zenon
<1>2. \A y \in T : x >= y
  BY <1>1
<1>3. Max(T) \in T /\ \A y \in T : Max(T) >= y
  BY <1>2, Zenon DEF Max
<1> QED BY <1>3

----------------------------------------------------------------------------
(* Sequence numbers. *)

(* The distance of s ahead of ne, without the remainder. *)
LEMMA OffValue ==
  ASSUME NEW s \in Seqs, NEW ne \in Seqs
  PROVE  /\ Off(s, ne) = IF s >= ne THEN s - ne ELSE s - ne + SeqSpace
         /\ Off(s, ne) \in Seqs
<1>1. SeqSpace \in Nat \ {0} /\ s \in 0..(SeqSpace - 1) /\ ne \in 0..(SeqSpace - 1)
  BY ReorderAssumption DEF Seqs
<1>2. s - ne \in Int /\ -SeqSpace <= s - ne /\ s - ne < 2 * SeqSpace /\ s - ne < SeqSpace
  BY <1>1
<1>3. (s - ne) % SeqSpace = IF s - ne < 0 THEN s - ne + SeqSpace ELSE s - ne
  BY <1>1, <1>2, ModNear, Zenon
<1> QED BY <1>1, <1>3 DEF Off, Seqs

(* Stepping forward from ne, without the remainder. *)
LEMMA StepValue ==
  ASSUME NEW ne \in Seqs, NEW n \in 0..SeqSpace
  PROVE  /\ (ne + n) % SeqSpace = IF ne + n < SeqSpace THEN ne + n ELSE ne + n - SeqSpace
         /\ (ne + n) % SeqSpace \in Seqs
<1>1. SeqSpace \in Nat \ {0} /\ ne \in 0..(SeqSpace - 1)
  BY ReorderAssumption DEF Seqs
<1>2. ne + n \in Int /\ 0 <= ne + n /\ -SeqSpace <= ne + n /\ ne + n < 2 * SeqSpace
  BY <1>1
<1> DEFINE a == ne + n
<1>3. a % SeqSpace = IF a < SeqSpace THEN a ELSE a - SeqSpace
  <2> HIDE DEF a
  <2>1. a \in Int /\ 0 <= a /\ -SeqSpace <= a /\ a < 2 * SeqSpace
    BY <1>2 DEF a
  <2>2. a % SeqSpace = IF a < 0 THEN a + SeqSpace ELSE IF a < SeqSpace THEN a ELSE a - SeqSpace
    BY <1>1, <2>1, ModNear, Zenon
  <2> QED BY <1>1, <2>1, <2>2
<1> QED BY <1>1, <1>2, <1>3 DEF Seqs

(* Off measures steps: stepping by the distance reaches s, and the         *)
(* distance shrinks by what the release point advances.                    *)
LEMMA OffStep ==
  ASSUME NEW s \in Seqs, NEW ne \in Seqs
  PROVE  /\ (ne + Off(s, ne)) % SeqSpace = s
         /\ \A n \in 0..Off(s, ne) :
              Off(s, (ne + n) % SeqSpace) = Off(s, ne) - n
         /\ \A n \in Seqs : (ne + n) % SeqSpace = s => n = Off(s, ne)
<1>1. SeqSpace \in Nat \ {0} /\ s \in 0..(SeqSpace - 1) /\ ne \in 0..(SeqSpace - 1)
  BY ReorderAssumption DEF Seqs
<1>2. /\ Off(s, ne) = IF s >= ne THEN s - ne ELSE s - ne + SeqSpace
      /\ Off(s, ne) \in 0..(SeqSpace - 1)
  BY OffValue DEF Seqs
<1>3. (ne + Off(s, ne)) % SeqSpace = s
  BY <1>1, <1>2, StepValue
<1>4. ASSUME NEW n \in 0..Off(s, ne)
      PROVE  Off(s, (ne + n) % SeqSpace) = Off(s, ne) - n
  <2> DEFINE t == (ne + n) % SeqSpace
  <2>0. n \in 0..SeqSpace
    BY <1>1, <1>2
  <2>1. t = (IF ne + n < SeqSpace THEN ne + n ELSE ne + n - SeqSpace) /\ t \in Seqs
    BY <2>0, StepValue
  <2> HIDE DEF t
  <2>2. Off(s, t) = IF s >= t THEN s - t ELSE s - t + SeqSpace
    BY <2>1, OffValue
  <2>3. Off(s, t) = Off(s, ne) - n
    BY <1>1, <1>2, <2>1, <2>2
  <2> QED BY <2>3 DEF t
<1>5. ASSUME NEW n \in Seqs, (ne + n) % SeqSpace = s
      PROVE  n = Off(s, ne)
  <2>1. n \in 0..(SeqSpace - 1)
    BY DEF Seqs
  <2>2. s = IF ne + n < SeqSpace THEN ne + n ELSE ne + n - SeqSpace
    BY <1>5, <1>1, <2>1, StepValue
  <2> QED BY <1>1, <1>2, <2>1, <2>2
<1> QED BY <1>3, <1>4, <1>5

(* Size divides SeqSpace, so the ring position of a sequence number is found *)
(* by stepping from any release point.                                     *)
LEMMA RingPosition ==
  ASSUME NEW ne \in Seqs, NEW n \in 0..SeqSpace
  PROVE  ((ne + n) % SeqSpace) % Size = (ne + n) % Size
<1>1. Size \in Nat \ {0} /\ SeqSpace \in Nat \ {0} /\ SeqSpace % Size = 0 /\ ne \in Nat
  BY ReorderAssumption DEF Seqs
<1>2. PICK c \in Int : SeqSpace = Size * c
  BY <1>1, ModZero
<1>3. CASE ne + n < SeqSpace
  BY <1>3, StepValue
<1>4. CASE ~(ne + n < SeqSpace)
  <2>1. (ne + n) % SeqSpace = ne + n - SeqSpace
    BY <1>4, StepValue
  <2>2. ne + n = (ne + n - SeqSpace) + Size * c
    BY <1>1, <1>2
  <2> DEFINE a == ne + n - SeqSpace
  <2>3. (a + Size * c) % Size = a % Size
    <3>1. a \in Int
      BY <1>1
    <3> HIDE DEF a
    <3> QED BY <1>1, <1>2, <3>1, ModShift, Zenon
  <2> QED BY <2>1, <2>2, <2>3
<1> QED BY <1>3, <1>4

(* The ring position of a number is the one its distance leads to. *)
LEMMA PositionOfSeq ==
  ASSUME NEW s \in Seqs, NEW ne \in Seqs
  PROVE  (ne + Off(s, ne)) % Size = s % Size
<1> DEFINE d == Off(s, ne)
<1>0. d \in Seqs
  BY OffValue
<1>1. d \in 0..SeqSpace
  BY <1>0, ReorderAssumption DEF Seqs
<1>2. (ne + d) % SeqSpace = s
  BY OffStep
<1> HIDE DEF d
<1>3. ((ne + d) % SeqSpace) % Size = (ne + d) % Size
  BY <1>1, RingPosition
<1> QED BY <1>2, <1>3 DEF d

(* Positions of one window are distinct. *)
LEMMA PositionsDistinct ==
  ASSUME NEW ne \in Seqs, NEW i \in Ring, NEW j \in Ring,
         (ne + i) % Size = (ne + j) % Size
  PROVE  i = j
<1>1. Size \in Nat \ {0} /\ ne \in Nat /\ i \in 0..(Size - 1) /\ j \in 0..(Size - 1)
  BY ReorderAssumption DEF Seqs, Ring
<1> DEFINE a == ne + i
           b == ne + j
<1>2. a \in Int /\ b \in Int /\ a - b < Size /\ b - a < Size /\ a % Size = b % Size
  BY <1>1
<1>3. a = b
  <2> HIDE DEF a, b
  <2> QED BY <1>1, <1>2, ModInjective, Zenon
<1> QED BY <1>1, <1>3

(* Every position computed from the release point is one of the ring. *)
LEMMA PositionInRing ==
  ASSUME NEW n \in Int
  PROVE  n % Size \in Ring
BY ReorderAssumption, ModSpec DEF Ring

----------------------------------------------------------------------------
(* The ring. *)

(* Every waiting packet is at its own position, lo..Size-1 ahead of ne. *)
InWindow(ring, ne, lo) ==
  \A i \in Ring : ring[i].occupied =>
    /\ ring[i].seq % Size = i
    /\ Off(ring[i].seq, ne) \in lo..(Size - 1)

(* The ring is smaller than the sequence space. *)
LEMMA SizeFacts == Size \in Nat \ {0} /\ SeqSpace \in Nat \ {0} /\ Size < SeqSpace
BY ReorderAssumption

(* A waiting packet is found at its distance from the release point. *)
LEMMA FoundAt ==
  ASSUME NEW ring \in [Ring -> Slot], NEW ne \in Seqs, NEW i \in Ring,
         ring[i].seq % Size = i
  PROVE  /\ (ne + Off(ring[i].seq, ne)) % Size = i
         /\ At(ring, ne, Off(ring[i].seq, ne)) = ring[i]
<1>1. ring[i].seq \in Seqs
  BY DEF Slot
<1>2. (ne + Off(ring[i].seq, ne)) % Size = i
  BY <1>1, PositionOfSeq
<1> QED BY <1>2 DEF At

(* insertLocked keeps the waiting packets inside the window. *)
LEMMA InsertWindow ==
  ASSUME NEW ring \in [Ring -> Slot], NEW ne \in Seqs, NEW s \in Seqs,
         InWindow(ring, ne, 0), Off(s, ne) \in 0..(Size - 1)
  PROVE  Insert(ring, s) \in [Ring -> Slot] /\ InWindow(Insert(ring, s), ne, 0)
<1>1. s % Size \in Ring
  BY PositionInRing DEF Seqs
<1> DEFINE r == [occupied |-> TRUE, seq |-> s, age |-> 0]
<1>2. r \in Slot
  BY ReorderAssumption DEF Slot
<1>3. CASE ring[s % Size].occupied
  BY <1>3 DEF Insert
<1>4. CASE ~ring[s % Size].occupied
  <2>1. Insert(ring, s) = [ring EXCEPT ![s % Size] = r]
    BY <1>4 DEF Insert
  <2>2. Insert(ring, s) \in [Ring -> Slot]
    BY <1>1, <1>2, <2>1
  <2>3. ASSUME NEW i \in Ring, Insert(ring, s)[i].occupied
        PROVE  /\ Insert(ring, s)[i].seq % Size = i
               /\ Off(Insert(ring, s)[i].seq, ne) \in 0..(Size - 1)
    <3>1. CASE i = s % Size
      BY <1>1, <2>1, <3>1
    <3>2. CASE i # s % Size
      BY <1>1, <2>1, <2>3, <3>2 DEF InWindow
    <3> QED BY <3>1, <3>2
  <2> QED BY <2>2, <2>3 DEF InWindow
<1> QED BY <1>3, <1>4

(* The run that drainLocked releases is well defined. *)
LEMMA RunLengthSpec ==
  ASSUME NEW ring, NEW ne
  PROVE  /\ RunLength(ring, ne) \in 0..Size
         /\ \A i \in 0..(RunLength(ring, ne) - 1) : Holds(ring, ne, i)
         /\ RunLength(ring, ne) = Size \/ ~Holds(ring, ne, RunLength(ring, ne))
<1> DEFINE T == {n \in 0..Size : n = Size \/ ~Holds(ring, ne, n)}
           P(n) == /\ \A i \in 0..(n - 1) : Holds(ring, ne, i)
                   /\ n = Size \/ ~Holds(ring, ne, n)
<1>1. T \in SUBSET Nat /\ Size \in T
  BY SizeFacts
<1>2. PICK n \in T : \A y \in T : n <= y
  <2> HIDE DEF T
  <2> QED BY <1>1, LeastNatural
<1>3. n \in 0..Size /\ P(n)
  <2>1. ASSUME NEW i \in 0..(n - 1) PROVE Holds(ring, ne, i)
    <3>1. i \in 0..Size /\ i # Size /\ ~(n <= i)
      BY <1>2, SizeFacts
    <3> QED BY <1>2, <3>1
  <2> QED BY <1>2, <2>1
<1>4. \E k \in 0..Size : P(k)
  BY <1>3
<1>5. RunLength(ring, ne) \in 0..Size /\ P(RunLength(ring, ne))
  <2>1. RunLength(ring, ne) = CHOOSE k \in 0..Size : P(k)
    BY DEF RunLength
  <2> HIDE DEF P
  <2> QED BY <1>4, <2>1
<1> QED BY <1>5

(* drainLocked keeps what it leaves inside the window. *)
LEMMA DrainWindow ==
  ASSUME NEW ring \in [Ring -> Slot], NEW ne \in Seqs, InWindow(ring, ne, 0)
  PROVE  /\ Drain(ring, ne).ring \in [Ring -> Slot]
         /\ Drain(ring, ne).next \in Seqs
         /\ InWindow(Drain(ring, ne).ring, Drain(ring, ne).next, 1)
         /\ \A i \in Ring : Drain(ring, ne).ring[i] \in {Free, ring[i]}
<1> DEFINE n == RunLength(ring, ne)
           d == Drain(ring, ne).ring
           nx == Drain(ring, ne).next
<1>1. n \in 0..Size /\ (n = Size \/ ~Holds(ring, ne, n))
  BY RunLengthSpec
<1>2. /\ d = [i \in Ring |-> IF \E k \in 0..(n - 1) : i = (ne + k) % Size
                             THEN Free ELSE ring[i]]
      /\ nx = (ne + n) % SeqSpace
  BY DEF Drain
<1> HIDE DEF n, d, nx
<1>3. Free \in Slot
  BY ReorderAssumption DEF Free, Slot, Seqs
<1>4. d \in [Ring -> Slot] /\ \A i \in Ring : d[i] \in {Free, ring[i]}
  BY <1>2, <1>3
<1>5. n \in 0..SeqSpace
  BY <1>1, SizeFacts
<1>6. nx \in Seqs
  BY <1>2, <1>5, StepValue
<1>7. ASSUME NEW i \in Ring, d[i].occupied
      PROVE  d[i].seq % Size = i /\ Off(d[i].seq, nx) \in 1..(Size - 1)
  <2>1. d[i] = ring[i] /\ ~(\E k \in 0..(n - 1) : i = (ne + k) % Size)
    BY <1>2, <1>7 DEF Free
  <2> DEFINE o == Off(ring[i].seq, ne)
  <2>2. ring[i].seq % Size = i /\ o \in 0..(Size - 1) /\ ring[i].occupied
    BY <1>7, <2>1 DEF InWindow
  <2>3. (ne + o) % Size = i /\ At(ring, ne, o) = ring[i]
    BY <2>2, FoundAt
  <2>4. ring[i].seq \in Seqs
    BY DEF Slot
  <2>5. (ne + o) % SeqSpace = ring[i].seq
    BY <2>4, OffStep
  <2>6. Holds(ring, ne, o)
    BY <2>2, <2>3, <2>5 DEF Holds
  <2>7. \A k \in 0..o : Off(ring[i].seq, (ne + k) % SeqSpace) = o - k
    BY <2>4, OffStep
  <2> HIDE DEF o
  <2>8. ~(o \in 0..(n - 1)) /\ o # n
    BY <2>1, <2>2, <2>3, <2>6, <1>1, SizeFacts
  <2>9. n \in 0..o /\ o - n \in 1..(Size - 1)
    BY <2>2, <2>8, <1>1, SizeFacts
  <2>10. Off(ring[i].seq, nx) = o - n
    BY <2>7, <2>9, <1>2
  <2> QED BY <2>1, <2>2, <2>9, <2>10
<1>8. InWindow(d, nx, 1)
  BY <1>7 DEF InWindow
<1> QED BY <1>4, <1>6, <1>8 DEF d, nx

(* A packet drained at its own release point does not stay. *)
LEMMA DrainHead ==
  ASSUME NEW ring \in [Ring -> Slot], NEW ne \in Seqs,
         ring[ne % Size].occupied, ring[ne % Size].seq = ne
  PROVE  Drain(ring, ne).ring[ne % Size] = Free
<1> DEFINE n == RunLength(ring, ne)
<1>1. n \in 0..Size /\ (n = Size \/ ~Holds(ring, ne, n))
  BY RunLengthSpec
<1>2. ne + 0 = ne /\ ne % SeqSpace = ne /\ ne % Size \in Ring
  <2>1. 0 \in 0..SeqSpace /\ ne \in Int /\ ne + 0 = ne /\ ne < SeqSpace
    BY SizeFacts DEF Seqs
  <2> QED BY <2>1, StepValue, PositionInRing
<1>3. Holds(ring, ne, 0)
  BY <1>2 DEF Holds, At
<1>4. n # 0 /\ 0 \in 0..(n - 1)
  BY <1>1, <1>3, SizeFacts
<1> HIDE DEF n
<1>5. \E k \in 0..(n - 1) : ne % Size = (ne + k) % Size
  BY <1>2, <1>4
<1> QED BY <1>2, <1>5 DEF Drain, n

(* expireLocked keeps what it leaves inside the window. *)
LEMMA ExpireWindow ==
  ASSUME NEW ring \in [Ring -> Slot], NEW ne \in Seqs, NEW h,
         InWindow(ring, ne, 1)
  PROVE  /\ Expire(ring, ne, h).ring \in [Ring -> Slot]
         /\ Expire(ring, ne, h).next \in Seqs
         /\ InWindow(Expire(ring, ne, h).ring, Expire(ring, ne, h).next, 1)
         /\ \A i \in Ring : Expire(ring, ne, h).ring[i] \in {Free, ring[i]}
<1> DEFINE W == Waits(ring, ne)
           E == Expirable(ring, ne, h)
           x == Expire(ring, ne, h).ring
           nx == Expire(ring, ne, h).next
           b == Size - 1
<1>1. /\ x = [i \in Ring |-> IF \E k \in E : i = (ne + k) % Size
                             THEN Free ELSE ring[i]]
      /\ nx = IF E = {} THEN ne ELSE (ne + Max(E) + 1) % SeqSpace
  BY DEF Expire
<1>2. /\ W = {i \in 0..b : At(ring, ne, i).occupied}
      /\ E = {i \in W : \A j \in W : (j <= i /\ (j - 1) \notin W) => At(ring, ne, j).age >= h}
  BY DEF Expirable, Waits, Ring
<1>3. Free \in Slot
  BY ReorderAssumption DEF Free, Slot, Seqs
<1> HIDE DEF W, E, x, nx
<1>4. x \in [Ring -> Slot] /\ \A i \in Ring : x[i] \in {Free, ring[i]}
  BY <1>1, <1>3
<1>5. CASE E = {}
  <2>1. x = ring /\ nx = ne
    BY <1>1, <1>5
  <2> QED BY <2>1, <1>4 DEF x, nx
<1>6. CASE E # {}
  <2> DEFINE m == Max(E)
  <2>1. b \in Nat /\ E \in SUBSET (0..b)
    BY <1>2, SizeFacts
  <2>2. m \in E
    <3> HIDE DEF b
    <3> QED BY <1>6, <2>1, MaxOfBounded, Zenon
  <2>a. nx = (ne + m + 1) % SeqSpace
    BY <1>1, <1>6
  <2> HIDE DEF m
  <2>3. m \in 0..(Size - 1) /\ m + 1 \in 0..SeqSpace /\ nx = (ne + (m + 1)) % SeqSpace
    <3>0. m \in 0..(Size - 1)
      BY <2>1, <2>2
    <3>1. m + 1 \in 0..SeqSpace
      BY <3>0, SizeFacts
    <3>2. ne \in Int /\ ne + m + 1 = ne + (m + 1)
      BY <3>0 DEF Seqs
    <3> QED BY <2>a, <3>0, <3>1, <3>2
  <2>4. nx \in Seqs
    BY <2>3, StepValue
  <2>5. ASSUME NEW i \in Ring, x[i].occupied
        PROVE  x[i].seq % Size = i /\ Off(x[i].seq, nx) \in 1..(Size - 1)
    <3>1. x[i] = ring[i] /\ ~(\E k \in E : i = (ne + k) % Size)
      BY <1>1, <2>5 DEF Free
    <3> DEFINE o == Off(ring[i].seq, ne)
    <3>2. ring[i].seq % Size = i /\ o \in 1..(Size - 1) /\ ring[i].occupied
      BY <2>5, <3>1 DEF InWindow
    <3>3. (ne + o) % Size = i /\ At(ring, ne, o) = ring[i]
      BY <3>2, FoundAt
    <3>4. ring[i].seq \in Seqs
      BY DEF Slot
    <3>5. \A k \in 0..o : Off(ring[i].seq, (ne + k) % SeqSpace) = o - k
      BY <3>4, OffStep
    <3> HIDE DEF o
    <3>6. o \in W /\ o \notin E
      <4>1. o \in 0..b
        BY <3>2, SizeFacts
      <4>2. o \in W
        BY <1>2, <4>1, <3>2, <3>3
      <4>3. o \notin E
        BY <3>1, <3>3
      <4> QED BY <4>2, <4>3
    <3>7. m \in W /\ \A j \in W : (j <= m /\ (j - 1) \notin W) => At(ring, ne, j).age >= h
      BY <1>2, <2>2
    <3>8. PICK j \in W : j <= o /\ (j - 1) \notin W /\ ~(At(ring, ne, j).age >= h)
      BY <1>2, <3>6
    <3>9. j \in Int /\ ~(j <= m) /\ j - 1 # m
      <4>1. j \in Int
        BY <1>2
      <4> QED BY <4>1, <3>7, <3>8
    <3>10. m + 1 \in 0..o /\ o - (m + 1) \in 1..(Size - 1)
      BY <2>3, <3>2, <3>8, <3>9, SizeFacts
    <3>11. Off(ring[i].seq, nx) = o - (m + 1)
      BY <2>3, <3>5, <3>10
    <3> QED BY <3>1, <3>2, <3>10, <3>11
  <2>6. InWindow(x, nx, 1)
    BY <2>5 DEF InWindow
  <2> QED BY <1>4, <2>4, <2>6 DEF x, nx
<1> QED BY <1>5, <1>6

(* Counting the slots a step frees. *)
LEMMA OccFinite ==
  ASSUME NEW ring
  PROVE  IsFiniteSet(Occ(ring)) /\ Cardinality(Occ(ring)) \in Nat
<1>1. IsFiniteSet(Ring)
  BY SizeFacts, FS_Interval DEF Ring
<1>2. Occ(ring) \in SUBSET Ring
  BY DEF Occ
<1>3. IsFiniteSet(Occ(ring))
  BY <1>1, <1>2, FS_Subset
<1> QED BY <1>3, FS_CardinalityType

(* b.occupied goes down by the number of slots freed. *)
LEMMA FreedCount ==
  ASSUME NEW a, NEW b, Occ(b) \subseteq Occ(a)
  PROVE  /\ Cardinality(Occ(b)) = Cardinality(Occ(a)) - Cardinality(Freed(a, b))
         /\ Cardinality(Freed(a, b)) \in Nat
<1>1. Occ(b) = Occ(a) \ Freed(a, b) /\ Occ(a) \cap Freed(a, b) = Freed(a, b)
  BY DEF Freed
<1>2. IsFiniteSet(Occ(a))
  BY OccFinite
<1>3. Cardinality(Occ(a) \ Freed(a, b)) = Cardinality(Occ(a)) - Cardinality(Occ(a) \cap Freed(a, b))
  BY <1>2, FS_Difference
<1>4. IsFiniteSet(Freed(a, b))
  BY <1>2, FS_Difference DEF Freed
<1> QED BY <1>1, <1>3, <1>4, FS_CardinalityType, Zenon

(* Slots that are freed or kept: no slot becomes occupied. *)
LEMMA OccShrinks ==
  ASSUME NEW a, NEW b, \A i \in Ring : b[i] \in {Free, a[i]}
  PROVE  Occ(b) \subseteq Occ(a)
BY DEF Occ, Free

(* insertLocked occupies one more slot, or none for a duplicate. *)
LEMMA InsertCount ==
  ASSUME NEW ring \in [Ring -> Slot], NEW s \in Seqs
  PROVE  Cardinality(Occ(Insert(ring, s))) =
           Cardinality(Occ(ring)) + (IF ring[s % Size].occupied THEN 0 ELSE 1)
<1>1. s % Size \in Ring
  BY PositionInRing DEF Seqs
<1>2. CASE ring[s % Size].occupied
  BY <1>2, OccFinite DEF Insert
<1>3. CASE ~ring[s % Size].occupied
  <2>1. Insert(ring, s) = [ring EXCEPT ![s % Size] = [occupied |-> TRUE, seq |-> s, age |-> 0]]
    BY <1>3 DEF Insert
  <2>2. Occ(Insert(ring, s)) = Occ(ring) \cup {s % Size} /\ s % Size \notin Occ(ring)
    BY <1>1, <1>3, <2>1 DEF Occ
  <2> QED BY <1>3, <2>2, OccFinite, FS_AddElement, Zenon
<1> QED BY <1>2, <1>3

(* flushLocked leaves an empty ring. *)
LEMMA FlushRing == Flush \in [Ring -> Slot] /\ Occ(Flush) = {}
BY ReorderAssumption DEF Flush, Free, Slot, Seqs, Occ

(* What is released are sequence numbers. *)
LEMMA ReleasedType ==
  ASSUME NEW a \in [Ring -> Slot], NEW b
  PROVE  Released(a, b) \in SUBSET Seqs
BY DEF Released, Freed, Occ, Slot

(* insertLocked and drainLocked of a packet inside the window. *)
LEMMA AcceptRing ==
  ASSUME NEW ring \in [Ring -> Slot], NEW ne \in Seqs, NEW s \in Seqs,
         InWindow(ring, ne, 0), Off(s, ne) \in 0..(Size - 1),
         NEW ins, ins = Insert(ring, s),
         NEW d, d = Drain(ins, ne).ring,
         NEW nx, nx = Drain(ins, ne).next
  PROVE  /\ d \in [Ring -> Slot] /\ nx \in Seqs /\ InWindow(d, nx, 1)
         /\ Released(ins, d) \in SUBSET Seqs
         /\ Cardinality(Freed(ins, d)) \in Nat
         /\ Cardinality(Occ(d)) = Cardinality(Occ(ring))
              + (IF ring[s % Size].occupied THEN 0 ELSE 1) - Cardinality(Freed(ins, d))
<1>1. ins \in [Ring -> Slot] /\ InWindow(ins, ne, 0)
  BY InsertWindow
<1>2. /\ d \in [Ring -> Slot] /\ nx \in Seqs /\ InWindow(d, nx, 1)
      /\ \A i \in Ring : d[i] \in {Free, ins[i]}
  BY <1>1, DrainWindow
<1>3. Occ(d) \subseteq Occ(ins)
  BY <1>2, OccShrinks
<1>4. /\ Cardinality(Occ(d)) = Cardinality(Occ(ins)) - Cardinality(Freed(ins, d))
      /\ Cardinality(Freed(ins, d)) \in Nat
  BY <1>3, FreedCount
<1>5. Cardinality(Occ(ins)) = Cardinality(Occ(ring)) + (IF ring[s % Size].occupied THEN 0 ELSE 1)
  BY InsertCount
<1>6. Released(ins, d) \in SUBSET Seqs
  BY <1>1, ReleasedType
<1>7. Cardinality(Occ(d)) = Cardinality(Occ(ring))
        + (IF ring[s % Size].occupied THEN 0 ELSE 1) - Cardinality(Freed(ins, d))
  <2>1. Cardinality(Occ(ring)) \in Nat
    BY OccFinite
  <2> QED BY <2>1, <1>4, <1>5
<1> QED BY <1>2, <1>4, <1>6, <1>7

(* The distance to a release point is 0 at the release point itself. *)
LEMMA OffSelf == ASSUME NEW s \in Seqs PROVE Off(s, s) = 0 /\ 0 \in 0..(Size - 1)
BY OffValue, SizeFacts DEF Seqs

(* The tests of Push on the signed difference, as a distance. *)
LEMMA DiffInWindow ==
  ASSUME NEW s \in Seqs, NEW ne \in Seqs, Diff(s, ne) \in 0..(Size - 1)
  PROVE  Off(s, ne) \in 0..(Size - 1)
<1>1. Off(s, ne) \in 0..(SeqSpace - 1)
  BY OffValue DEF Seqs
<1> DEFINE o == Off(s, ne)
<1>2. Diff(s, ne) = IF 2 * o < SeqSpace THEN o ELSE o - SeqSpace
  BY DEF Diff
<1>3. o \in 0..(SeqSpace - 1) /\ SeqSpace \in Nat /\ Size \in Nat
  BY <1>1, SizeFacts
<1> HIDE DEF o
<1>4. o \in 0..(Size - 1)
  BY <1>2, <1>3
<1> QED BY <1>4 DEF o

(* A slot that is occupied holds a copy of the packet pushed. *)
LEMMA OccupiedIsCopy ==
  ASSUME NEW ring \in [Ring -> Slot], NEW ne \in Seqs, InWindow(ring, ne, 0),
         NEW s \in Seqs, Off(s, ne) \in 0..(Size - 1)
  PROVE  ring[s % Size].occupied <=> s \in Pending(ring)
<1> DEFINE i == s % Size
           t == ring[i].seq
<1>1. i \in Ring
  BY PositionInRing DEF Seqs
<1>2. ASSUME ring[i].occupied PROVE s \in Pending(ring)
  <2>1. t % Size = i /\ Off(t, ne) \in 0..(Size - 1) /\ t \in Seqs
    BY <1>1, <1>2 DEF InWindow, Slot
  <2>2. (ne + Off(s, ne)) % Size = i /\ (ne + Off(t, ne)) % Size = i
    BY <2>1, PositionOfSeq
  <2>3. Off(s, ne) = Off(t, ne)
    BY <2>1, <2>2, PositionsDistinct DEF Ring
  <2>4. (ne + Off(s, ne)) % SeqSpace = s /\ (ne + Off(t, ne)) % SeqSpace = t
    BY <2>1, OffStep
  <2>5. s = t
    BY <2>3, <2>4
  <2> QED BY <1>1, <1>2, <2>5 DEF Pending, Occ
<1>3. ASSUME s \in Pending(ring) PROVE ring[i].occupied
  BY <1>3 DEF Pending, Occ, InWindow
<1> QED BY <1>2, <1>3

----------------------------------------------------------------------------
(* The inductive invariant. *)
(* Before the first packet the ring is empty, so the first packet may put  *)
(* the release point anywhere.                                             *)
EmptyUntilStarted == ~started => Occ(slots) = {}

IInv == TypeOK /\ WindowInv /\ NothingStranded /\ EmptyUntilStarted

(* The invariant holds of a new buffer (New). *)
LEMMA InitIInv == Init => IInv
<1> SUFFICES ASSUME Init PROVE IInv
  OBVIOUS
<1>1. slots = Flush
  BY DEF Init, Flush
<1>2. slots \in [Ring -> Slot] /\ Occ(slots) = {}
  BY <1>1, FlushRing
<1>3. Cardinality(Occ(slots)) = 0
  BY <1>2, FS_EmptySet
<1>4. TypeOK
  <2>1. Nothing \in Outcome
    BY DEF Nothing, Outcome
  <2>2. 0 \in Seqs /\ DefaultHold \in MinHold..MaxHold
    BY ReorderAssumption DEF Seqs
  <2>3. 0 \in 0..(ResetThreshold - 1) /\ NoTimer \in NoTimer..MaxHold
    BY ReorderAssumption DEF NoTimer
  <2>4. slots \in [Ring -> Slot] /\ started \in BOOLEAN /\ closed \in BOOLEAN /\ out \in Outcome
    BY <1>2, <2>1, Zenon DEF Init
  <2>5. /\ nextExpected \in Seqs /\ occupied \in Int /\ hold \in MinHold..MaxHold
        /\ farLate \in 0..(ResetThreshold - 1) /\ timer \in NoTimer..MaxHold /\ stale \in Nat
    BY <2>2, <2>3 DEF Init
  <2> QED BY <2>4, <2>5 DEF TypeOK
<1>5. WindowInv
  BY <1>2 DEF WindowInv, Occ
<1>6. NothingStranded
  BY <1>3 DEF Init, NothingStranded
<1> QED BY <1>2, <1>4, <1>5, <1>6 DEF IInv, EmptyUntilStarted

(* Facts of a state in which IInv holds, in the form the steps use. *)
LEMMA IInvFacts ==
  ASSUME IInv
  PROVE  /\ slots \in [Ring -> Slot] /\ nextExpected \in Seqs
         /\ InWindow(slots, nextExpected, 1) /\ InWindow(slots, nextExpected, 0)
         /\ occupied = Cardinality(Occ(slots)) /\ occupied \in Nat
<1>1. /\ slots \in [Ring -> Slot] /\ nextExpected \in Seqs
      /\ occupied = Cardinality(Occ(slots))
  BY DEF IInv, TypeOK, NothingStranded
<1>2. InWindow(slots, nextExpected, 1)
  BY DEF IInv, WindowInv, InWindow
<1>3. InWindow(slots, nextExpected, 0)
  BY <1>2, SizeFacts DEF InWindow
<1> QED BY <1>1, <1>2, <1>3, OccFinite

(* The release point Push works with: the window holds relative to it. *)
LEMMA ReleasePointFacts ==
  ASSUME IInv, NEW s \in Seqs
  PROVE  ReleasePoint(s) \in Seqs /\ InWindow(slots, ReleasePoint(s), 0)
<1>1. CASE started
  BY <1>1, IInvFacts DEF ReleasePoint
<1>2. CASE ~started
  <2>1. Occ(slots) = {}
    BY <1>2 DEF IInv, EmptyUntilStarted
  <2> QED BY <1>2, <2>1 DEF ReleasePoint, InWindow, Occ
<1> QED BY <1>1, <1>2

(* Assembling IInv after a step from its parts. *)
LEMMA IInvIntro ==
  ASSUME TypeOK', InWindow(slots', nextExpected', 1),
         occupied' = Cardinality(Occ(slots')), occupied' > 0 => timer' # NoTimer,
         started' \/ Occ(slots') = {}
  PROVE  IInv'
BY DEF IInv, WindowInv, InWindow, NothingStranded, EmptyUntilStarted, Occ

(* A counted far packet keeps the invariant. *)
LEMMA PushFarIInv == ASSUME IInv, NEW s \in Seqs, PushFar(s) PROVE IInv'
<1>1. TypeOK'
  <2>1. out' \in Outcome
    BY DEF PushFar, Nothing, Outcome
  <2>2. farLate' \in 0..(ResetThreshold - 1)
    BY ReorderAssumption DEF PushFar, IInv, TypeOK
  <2> QED BY <2>1, <2>2 DEF PushFar, IInv, TypeOK
<1> QED BY <1>1 DEF PushFar, IInv, WindowInv, NothingStranded, EmptyUntilStarted, Occ, Off

(* A straggler keeps the invariant. *)
LEMMA PushLateIInv == ASSUME IInv, NEW s \in Seqs, PushLate(s) PROVE IInv'
<1>1. out' \in Outcome
  BY DEF PushLate, Nothing, Outcome
<1>2. TypeOK'
  BY <1>1, Zenon DEF PushLate, IInv, TypeOK
<1> QED BY <1>2 DEF PushLate, IInv, WindowInv, NothingStranded, EmptyUntilStarted, Occ, Off

(* What Accept does to the ring, the count and the outcome, when `ring' is *)
(* the ring itself or the flushed ring.                                    *)
LEMMA AcceptStep ==
  ASSUME IInv, NEW s \in Seqs, NEW ne \in Seqs, NEW ring, ring \in {slots, Flush},
         InWindow(ring, ne, 0), Off(s, ne) \in 0..(Size - 1),
         Accept(ring, ne, s)
  PROVE  /\ slots' \in [Ring -> Slot] /\ nextExpected' \in Seqs /\ out' \in Outcome
         /\ InWindow(slots', nextExpected', 1)
         /\ occupied' = Cardinality(Occ(slots')) /\ occupied' \in Nat
         /\ slots' = Drain(Insert(ring, s), ne).ring
<1> DEFINE ins == Insert(ring, s)
           d == Drain(ins, ne).ring
           nx == Drain(ins, ne).next
           e == IF ring[s % Size].occupied THEN 0 ELSE 1
<1>1. /\ slots' = d /\ nextExpected' = nx
      /\ out' = [rel |-> Released(slots, ring) \union Released(ins, d), late |-> {},
                 drop |-> IF ring[s % Size].occupied THEN {s} ELSE {}]
      /\ occupied' = occupied - Cardinality(Freed(slots, ring)) + e - Cardinality(Freed(ins, d))
  BY DEF Accept
<1>2. ring \in [Ring -> Slot] /\ Occ(ring) \subseteq Occ(slots)
  BY IInvFacts, FlushRing
<1>3. /\ d \in [Ring -> Slot] /\ nx \in Seqs /\ InWindow(d, nx, 1)
      /\ Released(ins, d) \in SUBSET Seqs
      /\ Cardinality(Freed(ins, d)) \in Nat
      /\ Cardinality(Occ(d)) = Cardinality(Occ(ring)) + e - Cardinality(Freed(ins, d))
  BY <1>2, AcceptRing
<1>4. /\ Cardinality(Occ(ring)) = Cardinality(Occ(slots)) - Cardinality(Freed(slots, ring))
      /\ Cardinality(Freed(slots, ring)) \in Nat
  BY <1>2, FreedCount
<1>5. Released(slots, ring) \in SUBSET Seqs
  BY IInvFacts, ReleasedType, Zenon
<1>6. out' \in Outcome
  BY <1>1, <1>3, <1>5 DEF Outcome
<1>7. occupied' = Cardinality(Occ(d)) /\ occupied' \in Nat
  <2>1. occupied = Cardinality(Occ(slots)) /\ occupied \in Nat /\ Cardinality(Occ(d)) \in Nat
    BY IInvFacts, OccFinite
  <2>2. e \in Nat
    OBVIOUS
  <2> HIDE DEF ins, d, nx, e
  <2> QED BY <2>1, <2>2, <1>1, <1>3, <1>4, Zenon
<1> QED BY <1>1, <1>3, <1>6, <1>7, Zenon

(* After a flush only the packet that caused it is in the ring, and it is  *)
(* released at once.                                                       *)
LEMMA AcceptFlushed ==
  ASSUME NEW s \in Seqs
  PROVE  InWindow(Flush, s, 0) /\ Occ(Drain(Insert(Flush, s), s).ring) = {}
<1> DEFINE ins == Insert(Flush, s)
           d == Drain(ins, s).ring
<1>1. InWindow(Flush, s, 0)
  BY FlushRing DEF InWindow, Occ
<1>2. s % Size \in Ring
  BY PositionInRing DEF Seqs
<1>3. Off(s, s) \in 0..(Size - 1)
  BY OffSelf
<1>4. ins \in [Ring -> Slot] /\ InWindow(ins, s, 0)
  BY <1>1, <1>3, FlushRing, InsertWindow
<1>5. ins = [Flush EXCEPT ![s % Size] = [occupied |-> TRUE, seq |-> s, age |-> 0]]
  BY <1>2 DEF Insert, Flush, Free
<1>6. ins[s % Size].occupied /\ ins[s % Size].seq = s
  BY <1>2, <1>5 DEF Flush
<1>7. \A i \in Ring : i # s % Size => ~ins[i].occupied
  BY <1>2, <1>5 DEF Flush, Free
<1> HIDE DEF ins
<1>8. d[s % Size] = Free /\ \A i \in Ring : d[i] \in {Free, ins[i]}
  BY <1>4, <1>6, DrainHead, DrainWindow
<1>9. Occ(d) = {}
  BY <1>7, <1>8 DEF Occ, Free
<1> QED BY <1>1, <1>9 DEF ins

(* A reset keeps the invariant. *)
LEMMA PushResetIInv == ASSUME IInv, NEW s \in Seqs, PushReset(s) PROVE IInv'
<1>1. Accept(Flush, s, s) /\ InWindow(Flush, s, 0) /\ Off(s, s) \in 0..(Size - 1)
  BY AcceptFlushed, OffSelf DEF PushReset
<1>2. /\ slots' \in [Ring -> Slot] /\ nextExpected' \in Seqs /\ out' \in Outcome
      /\ InWindow(slots', nextExpected', 1)
      /\ occupied' = Cardinality(Occ(slots')) /\ occupied' \in Nat
      /\ slots' = Drain(Insert(Flush, s), s).ring
  BY <1>1, AcceptStep
<1>3. Occ(slots') = {}
  BY <1>2, AcceptFlushed
<1>4. occupied' = 0
  BY <1>2, <1>3, FS_EmptySet
<1>5. TypeOK'
  BY <1>2, ReorderAssumption DEF PushReset, IInv, TypeOK
<1> QED BY <1>2, <1>3, <1>4, <1>5, IInvIntro

(* armTimerLocked leaves a timer when anything waits. *)
LEMMA ArmTimerFacts ==
  ASSUME IInv, occupied' \in Nat, ArmTimer
  PROVE  timer' \in NoTimer..MaxHold /\ (occupied' > 0 => timer' # NoTimer)
<1>1. timer \in -1..MaxHold /\ hold \in MinHold..MaxHold
  BY DEF IInv, TypeOK, NoTimer
<1> QED BY <1>1, ReorderAssumption DEF ArmTimer, NoTimer

(* A jump of the window keeps the invariant. *)
LEMMA PushOverrunIInv == ASSUME IInv, NEW s \in Seqs, PushOverrun(s) PROVE IInv'
<1>1. Accept(Flush, s, s) /\ InWindow(Flush, s, 0) /\ Off(s, s) \in 0..(Size - 1)
  BY AcceptFlushed, OffSelf, Zenon DEF PushOverrun
<1>2. /\ slots' \in [Ring -> Slot] /\ nextExpected' \in Seqs /\ out' \in Outcome
      /\ InWindow(slots', nextExpected', 1)
      /\ occupied' = Cardinality(Occ(slots')) /\ occupied' \in Nat
      /\ slots' = Drain(Insert(Flush, s), s).ring
  BY <1>1, AcceptStep
<1>3. Occ(slots') = {}
  BY <1>2, AcceptFlushed
<1>4. timer' \in NoTimer..MaxHold /\ (occupied' > 0 => timer' # NoTimer)
  BY <1>2, ArmTimerFacts DEF PushOverrun
<1>5. TypeOK'
  BY <1>2, <1>4, ReorderAssumption DEF PushOverrun, IInv, TypeOK
<1> QED BY <1>2, <1>3, <1>4, <1>5, IInvIntro

(* A push inside the window keeps the invariant. *)
LEMMA PushInWindowIInv == ASSUME IInv, NEW s \in Seqs, PushInWindow(s) PROVE IInv'
<1> DEFINE ne == ReleasePoint(s)
<1>1. ne \in Seqs /\ InWindow(slots, ne, 0)
  BY ReleasePointFacts
<1>2. Accept(slots, ne, s) /\ Diff(s, ne) \in 0..(Size - 1)
  BY DEF PushInWindow
<1> HIDE DEF ne
<1>3. Off(s, ne) \in 0..(Size - 1)
  BY <1>1, <1>2, DiffInWindow, Zenon
<1>4. /\ slots' \in [Ring -> Slot] /\ nextExpected' \in Seqs /\ out' \in Outcome
      /\ InWindow(slots', nextExpected', 1)
      /\ occupied' = Cardinality(Occ(slots')) /\ occupied' \in Nat
  BY <1>1, <1>2, <1>3, AcceptStep
<1>5. timer' \in NoTimer..MaxHold /\ (occupied' > 0 => timer' # NoTimer)
  BY <1>4, ArmTimerFacts DEF PushInWindow
<1>6. TypeOK'
  BY <1>4, <1>5, ReorderAssumption DEF PushInWindow, IInv, TypeOK
<1> QED BY <1>4, <1>5, <1>6, IInvIntro DEF PushInWindow

(* What an expiry pass does. *)
LEMMA ExpirePassStep ==
  ASSUME IInv, ExpirePass
  PROVE  /\ slots' \in [Ring -> Slot] /\ nextExpected' \in Seqs /\ out' \in Outcome
         /\ InWindow(slots', nextExpected', 1)
         /\ occupied' = Cardinality(Occ(slots')) /\ occupied' \in Nat /\ occupied' <= occupied
         /\ Occ(slots') \subseteq Occ(slots)
<1> DEFINE x == Expire(slots, nextExpected, hold).ring
           nx == Expire(slots, nextExpected, hold).next
<1>1. /\ slots' = x /\ nextExpected' = nx
      /\ out' = [Nothing EXCEPT !.rel = Released(slots, x)]
      /\ occupied' = occupied - Cardinality(Freed(slots, x))
  BY DEF ExpirePass
<1>2. /\ x \in [Ring -> Slot] /\ nx \in Seqs /\ InWindow(x, nx, 1)
      /\ \A i \in Ring : x[i] \in {Free, slots[i]}
  BY IInvFacts, ExpireWindow
<1> HIDE DEF x, nx
<1>3. Occ(x) \subseteq Occ(slots)
  BY <1>2, OccShrinks
<1>4. /\ Cardinality(Occ(x)) = Cardinality(Occ(slots)) - Cardinality(Freed(slots, x))
      /\ Cardinality(Freed(slots, x)) \in Nat /\ Cardinality(Occ(x)) \in Nat
  BY <1>3, FreedCount, OccFinite
<1>5. Released(slots, x) \in SUBSET Seqs
  BY IInvFacts, ReleasedType
<1>6. out' \in Outcome
  BY <1>1, <1>5 DEF Outcome, Nothing
<1>7. occupied' = Cardinality(Occ(x)) /\ occupied' \in Nat /\ occupied' <= occupied
  BY <1>1, <1>4, IInvFacts
<1> QED BY <1>1, <1>2, <1>3, <1>6, <1>7

(* onTimer re-arms the timer while anything waits. *)
LEMMA RearmFacts ==
  ASSUME IInv, occupied' \in Nat, timer' = IF occupied' > 0 THEN hold ELSE NoTimer
  PROVE  timer' \in NoTimer..MaxHold /\ (occupied' > 0 => timer' # NoTimer)
<1>1. hold \in MinHold..MaxHold
  BY DEF IInv, TypeOK
<1> QED BY <1>1, ReorderAssumption DEF NoTimer

(* onTimer keeps the invariant. *)
LEMMA OnTimerIInv == ASSUME IInv, OnTimer PROVE IInv'
<1>1. /\ slots' \in [Ring -> Slot] /\ nextExpected' \in Seqs /\ out' \in Outcome
      /\ InWindow(slots', nextExpected', 1)
      /\ occupied' = Cardinality(Occ(slots')) /\ occupied' \in Nat
      /\ Occ(slots') \subseteq Occ(slots)
  BY ExpirePassStep DEF OnTimer
<1>2. timer' \in NoTimer..MaxHold /\ (occupied' > 0 => timer' # NoTimer)
  BY <1>1, RearmFacts DEF OnTimer
<1>3. TypeOK'
  BY <1>1, <1>2 DEF OnTimer, IInv, TypeOK
<1>4. started' \/ Occ(slots') = {}
  BY <1>1 DEF OnTimer, IInv, EmptyUntilStarted
<1> QED BY <1>1, <1>2, <1>3, <1>4, IInvIntro

(* A late callback of onTimer keeps the invariant. *)
LEMMA OnStaleTimerIInv == ASSUME IInv, OnStaleTimer PROVE IInv'
<1>1. /\ slots' \in [Ring -> Slot] /\ nextExpected' \in Seqs /\ out' \in Outcome
      /\ InWindow(slots', nextExpected', 1)
      /\ occupied' = Cardinality(Occ(slots')) /\ occupied' \in Nat
      /\ Occ(slots') \subseteq Occ(slots)
  BY ExpirePassStep DEF OnStaleTimer
<1>2. timer' \in NoTimer..MaxHold /\ (occupied' > 0 => timer' # NoTimer)
  BY <1>1, RearmFacts DEF OnStaleTimer
<1>3. stale' \in Nat
  BY DEF OnStaleTimer, IInv, TypeOK
<1>4. TypeOK'
  BY <1>1, <1>2, <1>3 DEF OnStaleTimer, IInv, TypeOK
<1>5. started' \/ Occ(slots') = {}
  BY <1>1 DEF OnStaleTimer, IInv, EmptyUntilStarted
<1> QED BY <1>1, <1>2, <1>4, <1>5, IInvIntro

(* Tick keeps the invariant. *)
LEMMA TickIInv == ASSUME IInv, Tick PROVE IInv'
<1>1. /\ slots' \in [Ring -> Slot] /\ nextExpected' \in Seqs /\ out' \in Outcome
      /\ InWindow(slots', nextExpected', 1)
      /\ occupied' = Cardinality(Occ(slots')) /\ occupied' \in Nat /\ occupied' <= occupied
      /\ Occ(slots') \subseteq Occ(slots)
  BY ExpirePassStep DEF Tick
<1>2. TypeOK'
  BY <1>1 DEF Tick, IInv, TypeOK
<1>3. occupied' > 0 => timer' # NoTimer
  <2>1. occupied \in Nat
    BY IInvFacts
  <2> QED BY <1>1, <2>1 DEF Tick, IInv, NothingStranded
<1>4. started' \/ Occ(slots') = {}
  BY <1>1 DEF Tick, IInv, EmptyUntilStarted
<1> QED BY <1>1, <1>2, <1>3, <1>4, IInvIntro

(* SetHold keeps the invariant. *)
LEMMA SetHoldIInv == ASSUME IInv, NEW d \in 0..(MaxHold + 1), SetHold(d) PROVE IInv'
<1>1. hold' \in MinHold..MaxHold
  BY ReorderAssumption DEF SetHold
<1>2. out' \in Outcome
  BY DEF SetHold, Nothing, Outcome
<1>3. TypeOK'
  BY <1>1, <1>2 DEF SetHold, IInv, TypeOK
<1> QED BY <1>3 DEF SetHold, IInv, WindowInv, NothingStranded, EmptyUntilStarted, Occ, Off

(* Close keeps the invariant. *)
LEMMA CloseIInv == ASSUME IInv, Close PROVE IInv'
<1>1. slots' = Flush /\ Occ(slots') = {} /\ slots' \in [Ring -> Slot]
  BY FlushRing DEF Close
<1>2. /\ Cardinality(Occ(Flush)) = Cardinality(Occ(slots)) - Cardinality(Freed(slots, Flush))
      /\ Cardinality(Occ(Flush)) = 0
  <2>1. Occ(Flush) \subseteq Occ(slots)
    BY FlushRing
  <2> QED BY <2>1, FreedCount, FlushRing, FS_EmptySet
<1>3. occupied' = 0 /\ occupied' = Cardinality(Occ(slots'))
  BY <1>1, <1>2, IInvFacts DEF Close
<1>4. out' \in Outcome
  <2>1. Released(slots, Flush) \in SUBSET Seqs
    BY IInvFacts, ReleasedType
  <2> QED BY <2>1 DEF Close, Nothing, Outcome
<1>5. stale' \in Nat /\ timer' \in NoTimer..MaxHold
  BY ReorderAssumption DEF Close, IInv, TypeOK, NoTimer
<1>6. TypeOK'
  BY <1>1, <1>3, <1>4, <1>5 DEF Close, IInv, TypeOK
<1>7. InWindow(slots', nextExpected', 1)
  BY <1>1 DEF InWindow, Occ
<1> QED BY <1>1, <1>3, <1>6, <1>7, IInvIntro

(* A tick of the clock keeps the invariant. *)
LEMMA ElapseIInv == ASSUME IInv, Elapse PROVE IInv'
<1>1. slots \in [Ring -> Slot]
  BY IInvFacts
<1>2. /\ slots' \in [Ring -> Slot]
      /\ \A i \in Ring : slots'[i].occupied = slots[i].occupied /\ slots'[i].seq = slots[i].seq
  <2>1. ASSUME NEW i \in Ring
        PROVE  /\ slots'[i] \in Slot
               /\ slots'[i].occupied = slots[i].occupied /\ slots'[i].seq = slots[i].seq
    <3>1. slots'[i] = IF slots[i].occupied /\ slots[i].age < MaxAge
                      THEN [slots[i] EXCEPT !.age = @ + 1] ELSE slots[i]
      BY DEF Elapse
    <3>2. slots[i] \in Slot
      BY <1>1
    <3> QED BY <3>1, <3>2, ReorderAssumption DEF Slot
  <2>2. slots' = [i \in Ring |-> slots'[i]]
    BY DEF Elapse
  <2> QED BY <2>1, <2>2
<1>3. Occ(slots') = Occ(slots)
  BY <1>2 DEF Occ
<1>4. timer' \in NoTimer..MaxHold /\ (timer # NoTimer => timer' # NoTimer)
  BY ReorderAssumption DEF Elapse, IInv, TypeOK, NoTimer
<1>5. out' \in Outcome
  BY DEF Elapse, Nothing, Outcome
<1>6. TypeOK'
  BY <1>2, <1>4, <1>5 DEF Elapse, IInv, TypeOK
<1>7. InWindow(slots', nextExpected', 1)
  BY <1>2, IInvFacts DEF Elapse, InWindow
<1>8. occupied' = Cardinality(Occ(slots')) /\ (occupied' > 0 => timer' # NoTimer)
  BY <1>3, <1>4 DEF Elapse, IInv, NothingStranded
<1>9. started' \/ Occ(slots') = {}
  BY <1>3 DEF Elapse, IInv, EmptyUntilStarted
<1> QED BY <1>6, <1>7, <1>8, <1>9, IInvIntro

(* The invariant is inductive: one step per action. *)
LEMMA NextIInv == IInv /\ [Next]_vars => IInv'
<1> SUFFICES ASSUME IInv, [Next]_vars PROVE IInv'
  OBVIOUS
<1>1. ASSUME NEW s \in Seqs, Push(s) PROVE IInv'
  BY <1>1, PushFarIInv, PushResetIInv, PushLateIInv, PushOverrunIInv, PushInWindowIInv DEF Push
<1>2. ASSUME NEW d \in 0..(MaxHold + 1), SetHold(d) PROVE IInv'
  BY <1>2, SetHoldIInv
<1>3. CASE OnTimer
  BY <1>3, OnTimerIInv
<1>4. CASE OnStaleTimer
  BY <1>4, OnStaleTimerIInv
<1>5. CASE Tick
  BY <1>5, TickIInv
<1>6. CASE Close
  BY <1>6, CloseIInv
<1>7. CASE Elapse
  BY <1>7, ElapseIInv
<1>8. CASE UNCHANGED vars
  BY <1>8 DEF vars, IInv, TypeOK, WindowInv, NothingStranded, EmptyUntilStarted, Occ, Off
<1> QED BY <1>1, <1>2, <1>3, <1>4, <1>5, <1>6, <1>7, <1>8 DEF Next

(* The invariant holds in every reachable state. *)
LEMMA SpecIInv == Spec => []IInv
BY InitIInv, NextIInv, PTL DEF Spec

(* Every field of the buffer keeps its type, for every ring size, sequence *)
(* space, threshold and hold time.                                         *)
THEOREM TypeCorrect == Spec => []TypeOK
<1>1. IInv => TypeOK
  BY DEF IInv
<1> QED BY <1>1, SpecIInv, PTL

(* A waiting packet is always at its own position and inside the window    *)
(* (buffer.go: Push, drainLocked, expireLocked), wrap-around included.     *)
THEOREM WindowCorrect == Spec => []WindowInv
<1>1. IInv => WindowInv
  BY DEF IInv
<1> QED BY <1>1, SpecIInv, PTL

(* b.occupied is exact and a waiting packet always has an armed timer      *)
(* (armTimerLocked, onTimer, the early returns of Push, Close).            *)
THEOREM NoPacketStranded == Spec => []NothingStranded
<1>1. IInv => NothingStranded
  BY DEF IInv
<1> QED BY <1>1, SpecIInv, PTL

(* insertLocked: an occupied position inside the window holds a copy of    *)
(* the packet being pushed, so dropping it loses nothing.                  *)
THEOREM DuplicatesAreCopies == Spec => DuplicateIsCopy
<1>1. ASSUME IInv, NEW s \in out'.drop, PushInWindow(s), s \in Seqs
      PROVE  s \in Pending(slots)
  <2> DEFINE ne == ReleasePoint(s)
  <2>1. ne \in Seqs /\ InWindow(slots, ne, 0) /\ slots \in [Ring -> Slot]
    BY <1>1, ReleasePointFacts, IInvFacts
  <2>2. Diff(s, ne) \in 0..(Size - 1) /\ Accept(slots, ne, s)
    BY <1>1, Zenon DEF PushInWindow
  <2>3. slots[s % Size].occupied
    BY <1>1, <2>2 DEF Accept
  <2> HIDE DEF ne
  <2>4. Off(s, ne) \in 0..(Size - 1)
    BY <1>1, <2>1, <2>2, DiffInWindow
  <2> QED BY <1>1, <2>1, <2>3, <2>4, OccupiedIsCopy
<1>2. ASSUME IInv, IInv', [Next]_vars
      PROVE  [\A s \in out'.drop : PushInWindow(s) => s \in Pending(slots)]_vars
  <2>1. out'.drop \in SUBSET Seqs
    BY <1>2 DEF IInv, TypeOK, Outcome
  <2> QED BY <1>1, <1>2, <2>1
<1> QED BY <1>2, SpecIInv, PTL DEF Spec, DuplicateIsCopy

----------------------------------------------------------------------------
(* The refinement: which step of Resequencer each action takes. *)

(* The packets of S less than n ahead of ne, and the others. *)
Nearer(S, ne, n) == {x \in S : Off(x, ne) < n}
Beyond(S, ne, n) == {x \in S : Off(x, ne) >= n}

(* A ring of which the slots less than n ahead were freed has released     *)
(* exactly the packets less than n ahead.                                  *)
LEMMA SplitAt ==
  ASSUME NEW a \in [Ring -> Slot], NEW b, \A i \in Ring : b[i] \in {Free, a[i]},
         NEW ne, NEW n \in Int,
         \A i \in Occ(a) : Off(a[i].seq, ne) \in Int /\ (i \in Occ(b) <=> Off(a[i].seq, ne) >= n)
  PROVE  /\ Released(a, b) = Nearer(Pending(a), ne, n)
         /\ Pending(b) = Beyond(Pending(a), ne, n)
<1>1. \A i \in Occ(a) : i \in Freed(a, b) <=> Off(a[i].seq, ne) < n
  BY DEF Freed
<1>2. Occ(b) \subseteq Occ(a) /\ \A i \in Occ(b) : b[i] = a[i]
  BY DEF Occ, Free
<1>3. Freed(a, b) \subseteq Occ(a)
  BY DEF Freed
<1>4. Released(a, b) = Nearer(Pending(a), ne, n)
  BY <1>1, <1>3 DEF Released, Pending, Nearer
<1>5. Pending(b) = Beyond(Pending(a), ne, n)
  BY <1>2, Zenon DEF Pending, Beyond
<1> QED BY <1>4, <1>5

(* drainLocked releases what lies less than the length of the run ahead. *)
LEMMA DrainSplit ==
  ASSUME NEW ring \in [Ring -> Slot], NEW ne \in Seqs, InWindow(ring, ne, 0),
         NEW n, n = RunLength(ring, ne), NEW d, d = Drain(ring, ne).ring
  PROVE  /\ Released(ring, d) = Nearer(Pending(ring), ne, n)
         /\ Pending(d) = Beyond(Pending(ring), ne, n)
         /\ n \in 0..Size /\ Drain(ring, ne).next = (ne + n) % SeqSpace
<1>1. n \in 0..Size
  BY RunLengthSpec
<1>2. d = [i \in Ring |-> IF \E k \in 0..(n - 1) : i = (ne + k) % Size THEN Free ELSE ring[i]]
  BY DEF Drain
<1>3. \A i \in Ring : d[i] \in {Free, ring[i]}
  BY <1>2
<1>4. ASSUME NEW i \in Occ(ring)
      PROVE  Off(ring[i].seq, ne) \in Int /\ (i \in Occ(d) <=> Off(ring[i].seq, ne) >= n)
  <2> DEFINE o == Off(ring[i].seq, ne)
  <2>1. i \in Ring /\ ring[i].occupied /\ ring[i].seq % Size = i /\ o \in 0..(Size - 1)
    BY DEF Occ, InWindow
  <2>2. (ne + o) % Size = i
    BY <2>1, FoundAt
  <2> HIDE DEF o
  <2>3. o < n => ~d[i].occupied
    <3>1. o < n => o \in 0..(n - 1)
      BY <1>1, <2>1, SizeFacts
    <3> QED BY <1>2, <2>1, <2>2, <3>1 DEF Free
  <2>4. ASSUME o >= n, NEW k \in 0..(n - 1) PROVE i # (ne + k) % Size
    <3>1. k \in Ring /\ o \in Ring /\ k # o
      BY <1>1, <2>1, <2>4, SizeFacts DEF Ring
    <3> QED BY <2>2, <3>1, PositionsDistinct
  <2>5. o >= n => d[i] = ring[i]
    BY <1>2, <2>1, <2>4
  <2>6. o \in Int /\ n \in Int
    BY <1>1, <2>1
  <2> QED BY <2>1, <2>3, <2>5, <2>6 DEF Occ, o
<1>5. n \in Int
  BY <1>1
<1>6. Drain(ring, ne).next = (ne + n) % SeqSpace
  BY Zenon DEF Drain
<1>7. /\ Released(ring, d) = Nearer(Pending(ring), ne, n)
      /\ Pending(d) = Beyond(Pending(ring), ne, n)
  BY <1>3, <1>4, <1>5, SplitAt
<1> QED BY <1>1, <1>6, <1>7

(* How far expireLocked moves the release point. *)
ExpireLength(ring, ne, h) ==
  IF Expirable(ring, ne, h) = {} THEN 0 ELSE Max(Expirable(ring, ne, h)) + 1

(* expireLocked releases what lies up to the last packet it may release. *)
LEMMA ExpireSplit ==
  ASSUME NEW ring \in [Ring -> Slot], NEW ne \in Seqs, NEW h, InWindow(ring, ne, 1),
         NEW n, n = ExpireLength(ring, ne, h), NEW x, x = Expire(ring, ne, h).ring
  PROVE  /\ Released(ring, x) = Nearer(Pending(ring), ne, n)
         /\ Pending(x) = Beyond(Pending(ring), ne, n)
         /\ n \in 0..Size /\ Expire(ring, ne, h).next = (ne + n) % SeqSpace
<1> DEFINE W == Waits(ring, ne)
           E == Expirable(ring, ne, h)
           b == Size - 1
<1>1. x = [i \in Ring |-> IF \E k \in E : i = (ne + k) % Size THEN Free ELSE ring[i]]
  BY DEF Expire
<1>2. /\ W = {i \in 0..b : At(ring, ne, i).occupied}
      /\ E = {i \in W : \A j \in W : (j <= i /\ (j - 1) \notin W) => At(ring, ne, j).age >= h}
  BY DEF Expirable, Waits, Ring
<1>a. /\ Expire(ring, ne, h).next = IF E = {} THEN ne ELSE (ne + Max(E) + 1) % SeqSpace
      /\ n = IF E = {} THEN 0 ELSE Max(E) + 1
  BY DEF Expire, ExpireLength
<1>3. b \in Nat /\ E \in SUBSET (0..b)
  BY <1>2, SizeFacts
<1> HIDE DEF W, E
<1>4. E # {} => Max(E) \in E /\ \A y \in E : y <= Max(E)
  <2> HIDE DEF b
  <2> QED BY <1>3, MaxOfBounded, Zenon
<1>5. n \in 0..Size
  <2> DEFINE m == Max(E)
  <2>1. E # {} => m \in E /\ n = m + 1
    BY <1>4, <1>a
  <2>2. E = {} => n = 0
    BY <1>a
  <2> HIDE DEF m
  <2>3. E # {} => m \in 0..b
    BY <1>3, <2>1, Zenon
  <2>4. E # {} => m + 1 \in 0..Size
    BY <2>3, SizeFacts
  <2>5. 0 \in 0..Size
    BY SizeFacts
  <2> QED BY <2>1, <2>2, <2>4, <2>5
<1>6. ASSUME NEW o \in W PROVE o \in E <=> o < n
  <2>1. o \in 0..b /\ n \in Int
    BY <1>2, <1>5
  <2>2. CASE E = {}
    BY <2>1, <2>2, <1>a
  <2>3. CASE E # {}
    <3> DEFINE m == Max(E)
    <3>1. m \in E /\ n = m + 1 /\ \A y \in E : y <= m
      BY <2>3, <1>4, <1>a
    <3> HIDE DEF m
    <3>2. m \in 0..b
      BY <1>3, <3>1
    <3>3. o \in E => o < n
      BY <2>1, <3>1, <3>2
    <3>4. ASSUME o < n, NEW j \in W, j <= o, (j - 1) \notin W
          PROVE  At(ring, ne, j).age >= h
      <4>1. j \in Int
        BY <1>2
      <4>2. j <= m
        BY <2>1, <3>1, <3>2, <3>4, <4>1
      <4> QED BY <1>2, <3>1, <3>4, <4>2
    <3>5. o < n => o \in E
      BY <1>2, <3>4
    <3> QED BY <3>3, <3>5
  <2> QED BY <2>2, <2>3
<1>7. ASSUME NEW i \in Occ(ring)
      PROVE  Off(ring[i].seq, ne) \in Int /\ (i \in Occ(x) <=> Off(ring[i].seq, ne) >= n)
  <2> DEFINE o == Off(ring[i].seq, ne)
  <2>1. i \in Ring /\ ring[i].occupied /\ ring[i].seq % Size = i /\ o \in 1..(Size - 1)
    BY DEF Occ, InWindow
  <2>2. (ne + o) % Size = i /\ At(ring, ne, o) = ring[i]
    BY <2>1, FoundAt
  <2> HIDE DEF o
  <2>3. o \in 0..b /\ o \in Ring
    BY <2>1, SizeFacts DEF Ring
  <2>4. o \in W
    BY <1>2, <2>1, <2>2, <2>3
  <2>5. o \in E <=> o < n
    BY <1>6, <2>4
  <2>6. o \in E => ~x[i].occupied
    BY <1>1, <2>1, <2>2 DEF Free
  <2>7. ASSUME o \notin E, NEW k \in E PROVE i # (ne + k) % Size
    <3>1. k \in Ring /\ k # o
      BY <1>3, <2>7 DEF Ring
    <3> QED BY <2>2, <2>3, <3>1, PositionsDistinct
  <2>8. o \notin E => x[i] = ring[i]
    BY <1>1, <2>1, <2>7
  <2>9. o \in Int /\ n \in Int
    BY <1>5, <2>1
  <2> QED BY <2>1, <2>5, <2>6, <2>8, <2>9 DEF Occ, o
<1>8. \A i \in Ring : x[i] \in {Free, ring[i]}
  BY <1>1
<1>9. Expire(ring, ne, h).next = (ne + n) % SeqSpace
  <2>1. CASE E = {}
    <3>1. ne + 0 = ne /\ ne % SeqSpace = ne
      <4>1. 0 \in 0..SeqSpace /\ ne \in Int /\ ne + 0 = ne /\ ne < SeqSpace
        BY SizeFacts DEF Seqs
      <4> QED BY <4>1, StepValue
    <3> QED BY <2>1, <3>1, <1>a
  <2>2. CASE E # {}
    <3> DEFINE m == Max(E)
    <3>1. m \in E /\ n = m + 1 /\ Expire(ring, ne, h).next = (ne + m + 1) % SeqSpace
      BY <2>2, <1>4, <1>a
    <3> HIDE DEF m
    <3>a. m \in Int
      BY <3>1, <1>3
    <3>2. ne + m + 1 = ne + n
      BY <3>1, <3>a DEF Seqs
    <3> QED BY <3>1, <3>2
  <2> QED BY <2>1, <2>2
<1>10. n \in Int
  BY <1>5
<1>11. /\ Released(ring, x) = Nearer(Pending(ring), ne, n)
       /\ Pending(x) = Beyond(Pending(ring), ne, n)
  BY <1>7, <1>8, <1>10, SplitAt
<1> QED BY <1>5, <1>9, <1>11

(* The number after s, counted from any release point. *)
LEMMA NextAfter ==
  ASSUME NEW s \in Seqs, NEW ne \in Seqs
  PROVE  (s + 1) % SeqSpace = (ne + (Off(s, ne) + 1)) % SeqSpace
<1> DEFINE o == Off(s, ne)
<1>1. o \in 0..(SeqSpace - 1) /\ o = IF s >= ne THEN s - ne ELSE s - ne + SeqSpace
  BY OffValue DEF Seqs
<1> HIDE DEF o
<1>2. /\ 1 \in 0..SeqSpace /\ o + 1 \in 0..SeqSpace
      /\ s \in 0..(SeqSpace - 1) /\ ne \in 0..(SeqSpace - 1) /\ SeqSpace \in Nat
  BY <1>1, SizeFacts DEF Seqs
<1>3. (s + 1) % SeqSpace = IF s + 1 < SeqSpace THEN s + 1 ELSE s + 1 - SeqSpace
  BY <1>2, StepValue
<1>4. (ne + (o + 1)) % SeqSpace =
        IF ne + (o + 1) < SeqSpace THEN ne + (o + 1) ELSE ne + (o + 1) - SeqSpace
  BY <1>2, StepValue
<1>5. (s + 1) % SeqSpace = (ne + (o + 1)) % SeqSpace
  BY <1>1, <1>2, <1>3, <1>4
<1> QED BY <1>5 DEF o

(* In an empty ring the packet at the release point is a run of one. *)
LEMMA AloneDrained ==
  ASSUME NEW ring \in [Ring -> Slot], Occ(ring) = {}, NEW s \in Seqs,
         NEW ins, ins = Insert(ring, s), NEW d, d = Drain(ins, s).ring
  PROVE  /\ Drain(ins, s).next = (s + 1) % SeqSpace
         /\ Pending(d) = {} /\ Released(ins, d) = {s} /\ ~ring[s % Size].occupied
<1>1. s % Size \in Ring /\ s \in Int /\ s + 0 = s
  BY PositionInRing DEF Seqs
<1>2. ~ring[s % Size].occupied
  BY <1>1 DEF Occ
<1>3. ins = [ring EXCEPT ![s % Size] = [occupied |-> TRUE, seq |-> s, age |-> 0]]
  BY <1>2 DEF Insert
<1>4. /\ ins[s % Size].occupied /\ ins[s % Size].seq = s
      /\ \A i \in Ring : ins[i].occupied => i = s % Size
  BY <1>1, <1>3 DEF Occ
<1>5. Off(s, s) = 0 /\ Off(s, s) \in 0..(Size - 1)
  BY OffSelf
<1>6. InWindow(ring, s, 0)
  BY DEF InWindow, Occ
<1>7. ins \in [Ring -> Slot] /\ InWindow(ins, s, 0)
  BY <1>5, <1>6, InsertWindow
<1> DEFINE n == RunLength(ins, s)
<1>8. /\ n \in 0..Size /\ (n = Size \/ ~Holds(ins, s, n))
      /\ \A i \in 0..(n - 1) : Holds(ins, s, i)
  BY RunLengthSpec, Zenon
<1>9. /\ Released(ins, d) = Nearer(Pending(ins), s, n) /\ Pending(d) = Beyond(Pending(ins), s, n)
      /\ Drain(ins, s).next = (s + n) % SeqSpace
  BY <1>7, DrainSplit
<1> HIDE DEF n
<1>10. Holds(ins, s, 0)
  <2>1. s % SeqSpace = s
    <3>1. 0 \in 0..SeqSpace /\ s < SeqSpace
      BY SizeFacts DEF Seqs
    <3> QED BY <1>1, <3>1, StepValue
  <2> QED BY <1>1, <1>4, <2>1 DEF Holds, At
<1>11. n # 0
  BY <1>8, <1>10, SizeFacts
<1>12. ASSUME n > 1 PROVE FALSE
  <2>1. 1 \in 0..(n - 1) /\ 0 \in Ring /\ 1 \in Ring
    BY <1>8, <1>12, SizeFacts DEF Ring
  <2>2. (s + 1) % Size \in Ring
    BY <1>1, PositionInRing
  <2>3. ins[(s + 1) % Size].occupied
    BY <1>8, <2>1 DEF Holds, At
  <2>4. (s + 1) % Size = (s + 0) % Size
    BY <1>1, <1>4, <2>2, <2>3
  <2>5. 1 = 0
    BY <2>1, <2>4, PositionsDistinct
  <2> QED BY <2>5
<1>13. n = 1
  BY <1>8, <1>11, <1>12
<1>14. Pending(ins) = {s}
  BY <1>1, <1>4 DEF Pending, Occ
<1>15. Nearer({s}, s, 1) = {s} /\ Beyond({s}, s, 1) = {}
  BY <1>5 DEF Nearer, Beyond
<1> QED BY <1>2, <1>9, <1>13, <1>14, <1>15, Zenon

(* The tests of Push, as distances ahead of the release point. *)
LEMMA DiffCases ==
  ASSUME NEW s \in Seqs, NEW ne \in Seqs
  PROVE  /\ Far(Diff(s, ne)) => Off(s, ne) > 4 * Size /\ Off(s, ne) < SeqSpace - Size
         /\ Diff(s, ne) \in -Size..(-1) => Off(s, ne) >= SeqSpace - Size
         /\ Diff(s, ne) \in Size..(4 * Size) => Off(s, ne) \in Size..(4 * Size)
         /\ Diff(s, s) = 0
<1> DEFINE o == Off(s, ne)
<1>1. o \in 0..(SeqSpace - 1)
  BY OffValue DEF Seqs
<1>2. Diff(s, ne) = IF 2 * o < SeqSpace THEN o ELSE o - SeqSpace
  BY DEF Diff
<1>3. Size \in Nat \ {0} /\ SeqSpace \in Nat /\ 8 * Size < SeqSpace
  BY ReorderAssumption
<1>4. Diff(s, s) = 0
  BY OffSelf, <1>3 DEF Diff
<1> HIDE DEF o
<1> DEFINE f == Diff(s, ne)
<1>5. f = IF 2 * o < SeqSpace THEN o ELSE o - SeqSpace
  BY <1>2
<1> HIDE DEF f
<1>6. (f < -Size \/ f > 4 * Size) => o > 4 * Size /\ o < SeqSpace - Size
  BY <1>1, <1>3, <1>5
<1>7. f \in -Size..(-1) => o >= SeqSpace - Size
  BY <1>1, <1>3, <1>5
<1>8. f \in Size..(4 * Size) => o \in Size..(4 * Size)
  BY <1>1, <1>3, <1>5
<1> QED BY <1>4, <1>6, <1>7, <1>8 DEF f, o, Far

(* Resequencer's release point and distances are the buffer's. *)
LEMMA AheadIsOff == ASSUME NEW x PROVE Reseq!Ahead(x) = Off(x, nextExpected)
BY DEF Reseq!Ahead, Off

(* What waits in the ring are sequence numbers inside the window. *)
LEMMA PendingFacts ==
  ASSUME NEW ring \in [Ring -> Slot], NEW ne \in Seqs, NEW lo, InWindow(ring, ne, lo),
         NEW x \in Pending(ring)
  PROVE  x \in Seqs /\ Off(x, ne) \in lo..(Size - 1)
<1>1. PICK i \in Occ(ring) : x = ring[i].seq
  BY DEF Pending
<1> QED BY <1>1 DEF Occ, InWindow, Slot

(* A packet put into a free slot joins what waits. *)
LEMMA InsertJoins ==
  ASSUME NEW ring \in [Ring -> Slot], NEW s \in Seqs, ~ring[s % Size].occupied
  PROVE  Pending(Insert(ring, s)) = Pending(ring) \union {s}
<1> DEFINE ins == Insert(ring, s)
<1>1. s % Size \in Ring
  BY PositionInRing DEF Seqs
<1>2. ins = [ring EXCEPT ![s % Size] = [occupied |-> TRUE, seq |-> s, age |-> 0]]
  BY DEF Insert
<1>3. Occ(ins) = Occ(ring) \union {s % Size}
  BY <1>1, <1>2 DEF Occ
<1>4. ins[s % Size].seq = s /\ \A i \in Occ(ring) : ins[i] = ring[i]
  BY <1>1, <1>2 DEF Occ
<1> HIDE DEF ins
<1>5. Pending(ins) = Pending(ring) \union {s}
  BY <1>3, <1>4 DEF Pending
<1> QED BY <1>5 DEF ins

(* Freeing every slot releases what waits, freeing none releases nothing. *)
LEMMA ReleasedAll ==
  ASSUME NEW a, NEW b
  PROVE  /\ Occ(b) = {} => Released(a, b) = Pending(a) /\ Pending(b) = {}
         /\ Released(a, a) = {}
BY DEF Released, Freed, Pending

(* An outcome with nothing but releases, as Resequencer writes it. *)
LEMMA QuietRelease ==
  ASSUME NEW R
  PROVE  [Reseq!Quiet EXCEPT !.rel = R] = [rel |-> R, late |-> {}, drop |-> {}]
BY DEF Reseq!Quiet

(* The release point advances by n, `new' joins and the packets less than  *)
(* n ahead go out: a step of Join.                                         *)
LEMMA JoinStep ==
  ASSUME IInv, IInv', NEW new \in SUBSET Seqs, NEW n \in 0..SeqSpace,
         Pending(slots) \intersect new = {},
         nextExpected' = (nextExpected + n) % SeqSpace,
         out' = [rel |-> Nearer(Pending(slots) \union new, nextExpected, n), late |-> {}, drop |-> {}],
         Pending(slots') = Beyond(Pending(slots) \union new, nextExpected, n)
  PROVE  Reseq!Join(new, n)
<1> DEFINE all == Pending(slots) \union new
<1>1. out' = [Reseq!Quiet EXCEPT !.rel = {x \in all : Reseq!Ahead(x) < n}]
  <2> DEFINE R == {x \in all : Reseq!Ahead(x) < n}
  <2>1. R = Nearer(all, nextExpected, n)
    BY AheadIsOff DEF Nearer
  <2> HIDE DEF R
  <2>2. out' = [rel |-> R, late |-> {}, drop |-> {}]
    BY <2>1
  <2>3. out' = [Reseq!Quiet EXCEPT !.rel = R]
    BY <2>2, QuietRelease, Zenon
  <2> QED BY <2>3, Zenon DEF R
<1>2. Pending(slots') = {x \in all : Reseq!Ahead(x) >= n}
  BY AheadIsOff DEF Beyond
<1>3. ASSUME NEW x \in Pending(slots') PROVE Reseq!Ahead(x) - n \in 1..(Size - 1)
  <2>1. /\ slots' \in [Ring -> Slot] /\ nextExpected' \in Seqs /\ nextExpected \in Seqs
        /\ InWindow(slots', nextExpected', 1)
    BY IInvFacts DEF IInv, TypeOK, WindowInv, InWindow
  <2>2. x \in Seqs /\ Off(x, nextExpected') \in 1..(Size - 1)
    BY <2>1, PendingFacts
  <2>3. Off(x, nextExpected) \in Seqs /\ Off(x, nextExpected) >= n
    BY <2>1, <2>2, OffValue DEF Beyond
  <2>4. n \in 0..Off(x, nextExpected)
    BY <2>3 DEF Seqs
  <2>5. Off(x, nextExpected') = Off(x, nextExpected) - n
    BY <2>1, <2>2, <2>4, OffStep
  <2> QED BY <2>2, <2>5, AheadIsOff, ZenonT(30)
<1> QED BY <1>1, <1>2, <1>3, Zenon DEF Reseq!Join

(* Far packets are counted and discarded. *)
LEMMA PushFarStep == ASSUME IInv, NEW s \in Seqs, PushFar(s) PROVE Reseq!Discard(s)
<1>1. nextExpected \in Seqs
  BY IInvFacts
<1>2. started /\ Far(Diff(s, nextExpected))
  <2>1. ~Far(0)
    BY SizeFacts DEF Far
  <2>2. Far(Diff(s, ReleasePoint(s))) /\ Diff(s, s) = 0
    BY DiffCases DEF PushFar
  <2> QED BY <2>1, <2>2 DEF ReleasePoint
<1>3. Reseq!IsFarOut(s)
  BY <1>1, <1>2, DiffCases, AheadIsOff DEF Reseq!IsFarOut
<1>4. out' = [Reseq!Quiet EXCEPT !.drop = {s}]
  BY DEF PushFar, Reseq!Quiet, Nothing
<1>5. UNCHANGED <<started, nextExpected, Pending(slots), closed>>
  BY DEF PushFar, Pending, Occ
<1> QED BY <1>2, <1>3, <1>4, <1>5 DEF Reseq!Discard

(* Stragglers pass through. *)
LEMMA PushLateStep == ASSUME IInv, NEW s \in Seqs, PushLate(s) PROVE Reseq!PassLate(s)
<1>1. nextExpected \in Seqs
  BY IInvFacts
<1>2. started /\ Diff(s, nextExpected) \in -Size..(-1)
  <2>1. ~(0 \in -Size..(-1))
    OBVIOUS
  <2>2. Diff(s, ReleasePoint(s)) \in -Size..(-1) /\ Diff(s, s) = 0
    BY DiffCases DEF PushLate
  <2> QED BY <2>1, <2>2 DEF ReleasePoint
<1>3. Reseq!Ahead(s) >= SeqSpace - Size
  BY <1>1, <1>2, DiffCases, AheadIsOff
<1>4. out' = [Reseq!Quiet EXCEPT !.late = {s}]
  BY DEF PushLate, Reseq!Quiet, Nothing
<1>5. UNCHANGED <<started, nextExpected, Pending(slots), closed>>
  BY DEF PushLate, Pending, Occ
<1> QED BY <1>2, <1>3, <1>4, <1>5 DEF Reseq!PassLate

(* Push of a packet after a flush: everything goes out, and it too. *)
LEMMA FlushedStep ==
  ASSUME NEW s \in Seqs, Accept(Flush, s, s)
  PROVE  /\ nextExpected' = (s + 1) % SeqSpace /\ Pending(slots') = {}
         /\ out' = [rel |-> Pending(slots) \union {s}, late |-> {}, drop |-> {}]
<1> DEFINE ins == Insert(Flush, s)
           d == Drain(ins, s).ring
<1>1. Flush \in [Ring -> Slot] /\ Occ(Flush) = {}
  BY FlushRing
<1>2. /\ Drain(ins, s).next = (s + 1) % SeqSpace
      /\ Pending(d) = {} /\ Released(ins, d) = {s} /\ ~Flush[s % Size].occupied
  BY <1>1, AloneDrained, Zenon
<1>3. Released(slots, Flush) = Pending(slots)
  BY <1>1, ReleasedAll, ZenonT(30)
<1>4. /\ slots' = d /\ nextExpected' = Drain(ins, s).next
      /\ out' = [rel |-> Released(slots, Flush) \union Released(ins, d), late |-> {},
                 drop |-> IF Flush[s % Size].occupied THEN {s} ELSE {}]
  BY DEF Accept
<1> HIDE DEF ins, d
<1> QED BY <1>2, <1>3, <1>4

(* The packet that resets the buffer begins a new sequence. *)
LEMMA PushResetStep == ASSUME IInv, NEW s \in Seqs, PushReset(s) PROVE Reseq!Begin(s)
<1>1. nextExpected \in Seqs /\ Flush \in [Ring -> Slot] /\ Occ(Flush) = {}
  BY IInvFacts, FlushRing
<1>2. started /\ Far(Diff(s, nextExpected))
  <2>1. ~Far(0)
    BY SizeFacts DEF Far
  <2>2. Far(Diff(s, ReleasePoint(s))) /\ Diff(s, s) = 0
    BY DiffCases DEF PushReset
  <2> QED BY <2>1, <2>2 DEF ReleasePoint
<1>3. Reseq!IsFarOut(s)
  BY <1>1, <1>2, DiffCases, AheadIsOff, ZenonT(30) DEF Reseq!IsFarOut
<1>4. /\ nextExpected' = (s + 1) % SeqSpace /\ Pending(slots') = {}
      /\ out' = [rel |-> Pending(slots) \union {s}, late |-> {}, drop |-> {}]
  BY <1>1, FlushedStep DEF PushReset
<1>5. out' = [Reseq!Quiet EXCEPT !.rel = Pending(slots) \union {s}]
  BY <1>4, QuietRelease, Zenon
<1>6. started' = TRUE /\ UNCHANGED closed
  BY <1>2 DEF PushReset, IInv, TypeOK
<1> QED BY <1>3, <1>4, <1>5, <1>6, Zenon DEF Reseq!Begin

(* A packet past the window: everything up to it goes out, and it too. *)
LEMMA PushOverrunStep ==
  ASSUME IInv, IInv', NEW s \in Seqs, PushOverrun(s)
  PROVE  \E n \in 0..(4 * Size + 1) : Reseq!Advance(n)
<1> DEFINE o == Off(s, nextExpected)
           n == o + 1
<1>1. /\ nextExpected \in Seqs /\ slots \in [Ring -> Slot]
      /\ InWindow(slots, nextExpected, 1)
  BY IInvFacts
<1>2. started /\ Diff(s, nextExpected) \in Size..(4 * Size)
  <2>1. ~(0 \in Size..(4 * Size))
    BY SizeFacts
  <2>2. Diff(s, ReleasePoint(s)) \in Size..(4 * Size) /\ Diff(s, s) = 0
    BY DiffCases DEF PushOverrun
  <2> QED BY <2>1, <2>2 DEF ReleasePoint
<1>3. o \in Size..(4 * Size) /\ o \in Seqs
  BY <1>1, <1>2, DiffCases, OffValue
<1>4. /\ nextExpected' = (s + 1) % SeqSpace /\ Pending(slots') = {}
      /\ out' = [rel |-> Pending(slots) \union {s}, late |-> {}, drop |-> {}]
  BY FlushedStep, Zenon DEF PushOverrun
<1>5. nextExpected' = (nextExpected + n) % SeqSpace
  BY <1>1, <1>4, NextAfter
<1> HIDE DEF o
<1>6. n \in 0..(4 * Size + 1) /\ n \in 0..SeqSpace /\ n \in Int
  BY <1>3, SizeFacts DEF Seqs
<1>7. \A x \in Pending(slots) : Off(x, nextExpected) \in 1..(Size - 1)
  BY <1>1, PendingFacts
<1>8. Pending(slots) \intersect {s} = {}
  BY <1>3, <1>7, SizeFacts DEF o
<1>9. \A x \in Pending(slots) \union {s} :
        Off(x, nextExpected) < n /\ ~(Off(x, nextExpected) >= n)
  <2>1. ASSUME NEW x \in Pending(slots)
        PROVE  Off(x, nextExpected) < n /\ ~(Off(x, nextExpected) >= n)
    <3> DEFINE p == Off(x, nextExpected)
    <3>1. p \in 1..(Size - 1)
      BY <1>7
    <3> HIDE DEF p
    <3>2. p < n /\ ~(p >= n)
      BY <1>3, <3>1, SizeFacts
    <3> QED BY <3>2 DEF p
  <2>2. o < n /\ ~(o >= n)
    BY <1>3
  <2> QED BY <2>1, <2>2 DEF o
<1> HIDE DEF n
<1>10. /\ Nearer(Pending(slots) \union {s}, nextExpected, n) = Pending(slots) \union {s}
       /\ Beyond(Pending(slots) \union {s}, nextExpected, n) = {}
  BY <1>9 DEF Nearer, Beyond
<1>11. Reseq!Join({s}, n)
  BY <1>4, <1>5, <1>6, <1>8, <1>10, JoinStep, Zenon
<1>12. UNCHANGED <<started, closed>>
  BY DEF PushOverrun
<1>13. Reseq!Advance(n)
  <2>1. s \in out'.rel
    BY <1>4
  <2>2. s \in Reseq!Handled
    BY <2>1, Zenon DEF Reseq!Handled, Reseq!Numbers, Seqs
  <2> QED BY <1>2, <1>5, <1>11, <1>12, <2>2, Zenon DEF Reseq!Advance
<1> QED BY <1>6, <1>13

(* A packet inside the window begins the sequence, is a copy of one that   *)
(* waits, or joins what waits.                                             *)
LEMMA PushInWindowStep ==
  ASSUME IInv, IInv', NEW s \in Seqs, PushInWindow(s)
  PROVE  \/ Reseq!Begin(s) \/ Reseq!Discard(s)
         \/ \E n \in 0..(4 * Size + 1) : Reseq!Advance(n)
<1> DEFINE ne == ReleasePoint(s)
           ins == Insert(slots, s)
           d == Drain(ins, ne).ring
           n == RunLength(ins, ne)
<1>1. /\ ne \in Seqs /\ InWindow(slots, ne, 0) /\ slots \in [Ring -> Slot]
      /\ InWindow(slots, nextExpected, 1) /\ nextExpected \in Seqs
  BY ReleasePointFacts, IInvFacts
<1>2. /\ Diff(s, ne) \in 0..(Size - 1)
      /\ slots' = d /\ nextExpected' = Drain(ins, ne).next
      /\ out' = [rel |-> Released(slots, slots) \union Released(ins, d), late |-> {},
                 drop |-> IF slots[s % Size].occupied THEN {s} ELSE {}]
      /\ started' = TRUE /\ UNCHANGED closed
  BY Zenon DEF PushInWindow, Accept
<1>3. Released(slots, slots) = {}
  BY ReleasedAll
<1>4. started => ne = nextExpected
  BY DEF ReleasePoint
<1>5. CASE ~started
  <2>1. ne = s /\ Occ(slots) = {}
    BY <1>5, Zenon DEF ReleasePoint, IInv, EmptyUntilStarted
  <2>2. /\ Drain(ins, ne).next = (s + 1) % SeqSpace
        /\ Pending(d) = {} /\ Released(ins, d) = {s} /\ ~slots[s % Size].occupied
    <3>1. /\ Drain(ins, s).next = (s + 1) % SeqSpace
          /\ Pending(Drain(ins, s).ring) = {} /\ Released(ins, Drain(ins, s).ring) = {s}
          /\ ~slots[s % Size].occupied
      BY <1>1, <2>1, AloneDrained, Zenon
    <3> QED BY <2>1, <3>1
  <2>3. Pending(slots) = {}
    BY <2>1, ZenonT(30) DEF Pending
  <2> HIDE DEF ne, ins, d, n
  <2>4. out' = [rel |-> {s}, late |-> {}, drop |-> {}] /\ Pending(slots') = {}
    BY <1>2, <1>3, <2>2
  <2>5. out' = [Reseq!Quiet EXCEPT !.rel = Pending(slots) \union {s}]
    BY <2>3, <2>4, QuietRelease
  <2>6. Reseq!Begin(s)
    BY <1>2, <1>5, <2>2, <2>4, <2>5, Zenon DEF Reseq!Begin
  <2> QED BY <2>6
<1>6. CASE started /\ slots[s % Size].occupied
  <2>1. s \in Pending(slots) /\ ins = slots
    <3>1. Off(s, ne) \in 0..(Size - 1)
      BY <1>1, <1>2, DiffInWindow, Zenon
    <3> QED BY <1>1, <1>6, <3>1, OccupiedIsCopy DEF Insert
  <2>2. ~Holds(slots, ne, 0)
    <3>1. ne \in Int /\ ne + 0 = ne /\ ne % Size \in Ring
      BY <1>1, PositionInRing DEF Seqs
    <3>2. ne % SeqSpace = ne
      <4>1. 0 \in 0..SeqSpace /\ ne < SeqSpace
        BY <1>1, SizeFacts DEF Seqs
      <4> QED BY <1>1, <3>1, <4>1, StepValue
    <3>3. Off(ne, ne) = 0
      BY <1>1, OffSelf
    <3>4. ~(0 \in 1..(Size - 1))
      OBVIOUS
    <3>5. slots[ne % Size].occupied => slots[ne % Size].seq # ne
      BY <1>1, <1>4, <1>6, <3>1, <3>3, <3>4 DEF InWindow
    <3> QED BY <3>1, <3>2, <3>5 DEF Holds, At
  <2>3. n = 0
    <3>1. n \in 0..Size /\ \A i \in 0..(n - 1) : Holds(ins, ne, i)
      BY RunLengthSpec
    <3> HIDE DEF n
    <3> QED BY <2>1, <2>2, <3>1, SizeFacts
  <2>4. d = slots /\ Drain(ins, ne).next = ne
    <3>1. d = [i \in Ring |-> IF \E k \in 0..(n - 1) : i = (ne + k) % Size THEN Free ELSE ins[i]]
      BY DEF Drain
    <3>2. Drain(ins, ne).next = (ne + n) % SeqSpace
      BY DEF Drain
    <3>3. (ne + 0) % SeqSpace = ne
      <4>1. 0 \in 0..SeqSpace /\ ne \in Int /\ ne + 0 = ne /\ ne < SeqSpace
        BY <1>1, SizeFacts DEF Seqs
      <4> QED BY <1>1, <4>1, StepValue
    <3> HIDE DEF n, d, ins
    <3>4. d = [i \in Ring |-> slots[i]]
      BY <2>1, <2>3, <3>1
    <3> QED BY <1>1, <2>1, <2>3, <3>2, <3>3, <3>4
  <2>5. Released(ins, d) = {}
    BY <2>1, <2>4, <1>3
  <2> HIDE DEF ne, ins, d, n
  <2>6. out' = [Reseq!Quiet EXCEPT !.drop = {s}]
    <3>1. out' = [rel |-> {}, late |-> {}, drop |-> {s}]
      BY <1>2, <1>3, <1>6, <2>5
    <3> QED BY <3>1 DEF Reseq!Quiet
  <2>7. UNCHANGED <<started, nextExpected, Pending(slots), closed>>
    BY <1>2, <1>4, <1>6, <2>4, Zenon DEF IInv, TypeOK, Pending, Occ
  <2>8. Reseq!Discard(s)
    BY <1>6, <2>1, <2>6, <2>7 DEF Reseq!Discard
  <2> QED BY <2>8, Zenon
<1>7. CASE started /\ ~slots[s % Size].occupied
  <2>1. Off(s, ne) \in 0..(Size - 1)
    BY <1>1, <1>2, DiffInWindow
  <2>2. ins \in [Ring -> Slot] /\ InWindow(ins, ne, 0)
    BY <1>1, <2>1, InsertWindow
  <2>3. Pending(ins) = Pending(slots) \union {s}
    BY <1>1, <1>7, InsertJoins
  <2>4. Pending(slots) \intersect {s} = {}
    <3>1. s \notin Pending(slots)
      BY <1>1, <1>7, <2>1, OccupiedIsCopy
    <3> QED BY <3>1
  <2>5. /\ Released(ins, d) = Nearer(Pending(ins), ne, n)
        /\ Pending(d) = Beyond(Pending(ins), ne, n)
        /\ n \in 0..Size /\ Drain(ins, ne).next = (ne + n) % SeqSpace
    BY <1>1, <2>2, DrainSplit, Zenon
  <2> HIDE DEF ne, ins, d, n
  <2>6. n \in 0..(4 * Size + 1) /\ n \in 0..SeqSpace
    BY <2>5, SizeFacts
  <2>7. nextExpected' = (nextExpected + n) % SeqSpace
    BY <1>2, <1>4, <1>7, <2>5, Zenon
  <2>8. out' = [rel |-> Nearer(Pending(slots) \union {s}, nextExpected, n), late |-> {}, drop |-> {}]
    BY <1>2, <1>3, <1>4, <1>7, <2>3, <2>5
  <2>9. Pending(slots') = Beyond(Pending(slots) \union {s}, nextExpected, n)
    BY <1>2, <1>4, <1>7, <2>3, <2>5
  <2>10. Reseq!Join({s}, n)
    BY <2>4, <2>6, <2>7, <2>8, <2>9, JoinStep, Zenon
  <2>11. UNCHANGED <<started, closed>>
    BY <1>2, <1>7 DEF IInv, TypeOK
  <2>12. Reseq!Advance(n)
    <3>1. s \in out'.rel \/ s \in Pending(slots')
      <4>1. out'.rel = Nearer(Pending(slots) \union {s}, nextExpected, n)
        BY <2>8
      <4>2. Off(s, nextExpected) \in Nat
        BY <1>7, <2>1 DEF ne, ReleasePoint
      <4>3. Off(s, nextExpected) < n \/ Off(s, nextExpected) >= n
        BY <2>6, <4>2
      <4> QED BY <2>9, <4>1, <4>3, Zenon DEF Nearer, Beyond
    <3>2. s \in Reseq!Handled
      BY <3>1, Zenon DEF Reseq!Handled, Reseq!Numbers, Seqs
    <3> QED BY <1>7, <2>7, <2>10, <2>11, <3>2, Zenon DEF Reseq!Advance
  <2> QED BY <2>6, <2>12
<1> QED BY <1>5, <1>6, <1>7

(* An expiry pass advances the release point past what it releases.  A     *)
(* buffer that has not started has nothing to release.                     *)
LEMMA ExpirePassRefines ==
  ASSUME IInv, IInv', ExpirePass, UNCHANGED <<started, closed>>
  PROVE  Reseq!Idle \/ \E n \in 0..(4 * Size + 1) : Reseq!Advance(n)
<1> DEFINE n == ExpireLength(slots, nextExpected, hold)
           x == Expire(slots, nextExpected, hold).ring
<1>1. /\ slots \in [Ring -> Slot] /\ nextExpected \in Seqs
      /\ InWindow(slots, nextExpected, 1)
  BY IInvFacts, Zenon
<1>2. /\ Released(slots, x) = Nearer(Pending(slots), nextExpected, n)
      /\ Pending(x) = Beyond(Pending(slots), nextExpected, n)
      /\ n \in 0..Size
      /\ Expire(slots, nextExpected, hold).next = (nextExpected + n) % SeqSpace
  BY <1>1, ExpireSplit
<1>3. /\ slots' = x /\ nextExpected' = Expire(slots, nextExpected, hold).next
      /\ out' = [rel |-> Released(slots, x), late |-> {}, drop |-> {}]
  BY DEF ExpirePass, Nothing
<1>4. CASE started
  <2> HIDE DEF n, x
  <2>1. n \in 0..(4 * Size + 1) /\ n \in 0..SeqSpace
    BY <1>2, SizeFacts
  <2>2. Pending(slots) \union {} = Pending(slots) /\ Pending(slots) \intersect {} = {}
    OBVIOUS
  <2>3. nextExpected' = (nextExpected + n) % SeqSpace
    BY <1>2, <1>3, Zenon
  <2>4. out' = [rel |-> Nearer(Pending(slots) \union {}, nextExpected, n), late |-> {}, drop |-> {}]
    BY <1>2, <1>3, <2>2, Zenon
  <2>5. Pending(slots') = Beyond(Pending(slots) \union {}, nextExpected, n)
    BY <1>2, <1>3, <2>2
  <2>6. Reseq!Join({}, n)
    BY <2>1, <2>2, <2>3, <2>4, <2>5, JoinStep, Zenon
  <2>7. Reseq!Advance(n)
    BY <1>4, <2>3, <2>6 DEF Reseq!Advance
  <2> QED BY <2>1, <2>7
<1>5. CASE ~started
  <2>1. Occ(slots) = {}
    BY <1>5 DEF IInv, EmptyUntilStarted
  <2>2. Waits(slots, nextExpected) = {}
    <3>1. ASSUME NEW i \in Ring PROVE ~At(slots, nextExpected, i).occupied
      <4>1. (nextExpected + i) % Size \in Ring
        <5>1. nextExpected + i \in Int
          BY <1>1 DEF Ring, Seqs
        <5> QED BY <5>1, PositionInRing
      <4> QED BY <2>1, <4>1 DEF At, Occ
    <3> QED BY <3>1 DEF Waits
  <2>3. Expirable(slots, nextExpected, hold) = {}
    BY <2>2, Zenon DEF Expirable
  <2>4. nextExpected' = nextExpected
    BY <1>3, <2>3 DEF Expire
  <2> HIDE DEF n, x
  <2>5. Pending(slots) = {} /\ Released(slots, x) = {}
    BY <2>1, Zenon DEF Pending, Released, Freed
  <2>6. Pending(slots') = {}
    BY <1>2, <1>3, <2>5, Zenon DEF Beyond
  <2>7. out' = Reseq!Quiet
    BY <1>3, <2>5 DEF Reseq!Quiet
  <2>8. UNCHANGED <<started, nextExpected, Pending(slots), closed>>
    BY <2>4, <2>5, <2>6, Zenon DEF Pending, Occ
  <2> QED BY <2>7, <2>8 DEF Reseq!Idle
<1> QED BY <1>4, <1>5

(* Close flushes once. *)
LEMMA CloseStep == ASSUME IInv, Close PROVE Reseq!FlushAll
<1>1. Released(slots, Flush) = Pending(slots) /\ Pending(Flush) = {}
  BY FlushRing, ReleasedAll
<1>2. Pending(slots') = {}
  BY <1>1 DEF Close
<1>3. out' = [Reseq!Quiet EXCEPT !.rel = Pending(slots)]
  BY <1>1 DEF Close, Nothing, Reseq!Quiet
<1> QED BY <1>2, <1>3, Zenon DEF Close, Reseq!FlushAll

(* Setting the hold time and the passing of time release nothing. *)
LEMMA QuietStep ==
  ASSUME IInv, Elapse \/ \E d \in 0..(MaxHold + 1) : SetHold(d)
  PROVE  Reseq!Idle
<1>1. out' = Reseq!Quiet /\ UNCHANGED <<started, nextExpected, closed>>
  BY DEF Elapse, SetHold, Nothing, Reseq!Quiet
<1>2. ASSUME Elapse PROVE Pending(slots') = Pending(slots)
  <2>1. ASSUME NEW i \in Ring
        PROVE  slots'[i].occupied = slots[i].occupied /\ slots'[i].seq = slots[i].seq
    <3>1. slots'[i] = IF slots[i].occupied /\ slots[i].age < MaxAge
                      THEN [slots[i] EXCEPT !.age = @ + 1] ELSE slots[i]
      BY <1>2 DEF Elapse
    <3>2. slots[i] \in Slot
      BY IInvFacts
    <3> QED BY <3>1, <3>2 DEF Slot
  <2>2. Occ(slots') = Occ(slots) /\ \A i \in Occ(slots) : slots'[i].seq = slots[i].seq
    BY <2>1 DEF Occ
  <2> QED BY <2>2 DEF Pending
<1>3. ASSUME NEW d, SetHold(d) PROVE Pending(slots') = Pending(slots)
  BY <1>3 DEF SetHold
<1>4. Pending(slots)' = Pending(slots)
  BY <1>2, <1>3, Zenon DEF Pending, Occ
<1> QED BY <1>1, <1>4 DEF Reseq!Idle

(* Every step of the buffer is a step of Resequencer. *)
LEMMA NextRefines ==
  ASSUME IInv, IInv', [Next]_vars
  PROVE  [Reseq!RNext]_(Reseq!rvars)
<1> DEFINE A == \E n \in 0..(4 * Size + 1) : Reseq!Advance(n)
<1>0. Reseq!Numbers = Seqs
  BY DEF Reseq!Numbers, Seqs
<1>1. ASSUME NEW s \in Seqs, Push(s) PROVE Reseq!RNext
  <2>1. Reseq!Begin(s) \/ Reseq!PassLate(s) \/ Reseq!Discard(s) \/ A
    <3> HIDE DEF A
    <3>1. PushOverrun(s) => A
      BY PushOverrunStep DEF A
    <3>2. PushInWindow(s) => Reseq!Begin(s) \/ Reseq!Discard(s) \/ A
      BY PushInWindowStep DEF A
    <3> QED BY <1>1, <3>1, <3>2, PushFarStep, PushResetStep, PushLateStep DEF Push
  <2>2. /\ Reseq!Begin(s) => s \in out'.rel
        /\ Reseq!PassLate(s) => s \in out'.late
        /\ Reseq!Discard(s) => s \in out'.drop
    BY DEF Reseq!Begin, Reseq!PassLate, Reseq!Discard, Reseq!Quiet
  <2> QED BY <1>0, <1>1, <2>1, <2>2, Zenon DEF Reseq!RNext, Reseq!Handled
<1>2. ASSUME OnTimer \/ OnStaleTimer \/ Tick PROVE Reseq!RNext
  <2>1. ExpirePass /\ UNCHANGED <<started, closed>>
    BY <1>2 DEF OnTimer, OnStaleTimer, Tick
  <2>2. Reseq!Idle \/ A
    BY <2>1, ExpirePassRefines
  <2> QED BY <2>2 DEF Reseq!RNext
<1>3. ASSUME Elapse \/ \E d \in 0..(MaxHold + 1) : SetHold(d) PROVE Reseq!RNext
  BY <1>3, QuietStep DEF Reseq!RNext
<1>4. CASE Close
  BY <1>4, CloseStep DEF Reseq!RNext
<1>5. CASE UNCHANGED vars
  <2>1. UNCHANGED <<started, nextExpected, Pending(slots), closed, out>>
    BY <1>5 DEF vars, Pending, Occ
  <2> QED BY <2>1, Zenon DEF Reseq!rvars
<1> QED BY <1>1, <1>2, <1>3, <1>4, <1>5 DEF Next

(* The reorder buffer implements Resequencer, for every ring size,         *)
(* sequence space, threshold and hold time (buffer.go: Push, onTimer,      *)
(* Tick, SetHold, Close): a packet is taken once and leaves once, what is  *)
(* released in one call is exactly what waited below the new release       *)
(* point, and nothing else is thrown away than far packets and copies.     *)
THEOREM BufferResequences == Spec => Resequences
<1>1. Init => Reseq!RInit
  <2> SUFFICES ASSUME Init PROVE Reseq!RInit
    OBVIOUS
  <2>1. Occ(slots) = {}
    BY DEF Init, Occ, Free
  <2>2. Pending(slots) = {}
    BY <2>1 DEF Pending
  <2> QED BY <2>2, Zenon DEF Init, Reseq!RInit, Reseq!Quiet, Nothing
<1>2. IInv /\ IInv' /\ [Next]_vars => [Reseq!RNext]_(Reseq!rvars)
  BY NextRefines
<1> QED BY <1>1, <1>2, SpecIInv, PTL DEF Spec, Resequences, Reseq!RSpec

============================================================================
