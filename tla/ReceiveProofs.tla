---------------------------- MODULE ReceiveProofs ----------------------------
(***************************************************************************)
(* Proofs about the receiving side.  Feedback: for every size of the       *)
(* counters and any number of reports, losses and bytes are counted once.  *)
(* The bound MaxSent on the packets stays: the differences OnCtrl takes    *)
(* mean something only while less than half the sequence numbers separate  *)
(* two reports.  Delivery: for every set of slabs and readers, every       *)
(* length of the queue and any number of opens, a slab is in one place.    *)
(***************************************************************************)
EXTENDS Delivery, Feedback, Facts, TLAPS

(* Feedback.                                                               *)

(* The count that a counter w stands for, if counting began at s. *)
Un(s, w) == s + ((w - s) % SeqSpace)

(* Those of T, the packets lost, below h. *)
Below(T, h) == {n \in T : n < h}

(* Those between a and c. *)
Between(T, a, c) == {n \in T : a < n /\ n < c}

(* r holds the counters as they were at one time, when r.highest stood for *)
(* the highest number received, at most top by now, and r.pkts and r.bytes *)
(* for the packets received, got by now.  In order, every packet below the *)
(* highest one was received or is lost.                                    *)
Counters(s, r, top, got, T, ord) ==
  /\ r.highest \in 0..(SeqSpace - 1) /\ r.pkts \in 0..(SeqSpace - 1)
  /\ Un(s, r.highest) \in s..top
  /\ r.bytes = Un(s, r.pkts) /\ r.bytes \in s..got
  /\ ord => /\ Un(s, r.highest) \notin T
            /\ r.bytes = Un(s, r.highest) - Cardinality(Below(T, Un(s, r.highest)))

(* The number the receiver's highest stands for. *)
Top(s) == Un(s, rx.highest)

(* The packets: every one above the highest received is in flight or lost. *)
Packets(s) ==
  /\ sent \in s..(s + MaxSent)
  /\ flight \subseteq (s + 1)..sent /\ lost \subseteq (s + 1)..sent
  /\ flight \intersect lost = {}
  /\ received \in Nat
  /\ received + Cardinality(flight) + Cardinality(lost) = sent
  /\ Top(s) <= sent
  /\ \A k \in (Top(s) + 1)..sent : k \in flight \union lost
  /\ inOrder => \A k \in flight : Top(s) < k

(* The reports: later ones hold later counters. *)
Reports(s) ==
  /\ Counters(s, rx, Top(s), received, lost, inOrder) /\ rx.bytes = received
  /\ ~rx.started => Top(s) = s
  /\ \A i \in 1..Len(ctrls) : Counters(s, ctrls[i], Top(s), received, lost, inOrder)
  /\ \A i, j \in 1..Len(ctrls) : i <= j =>
       /\ Un(s, ctrls[i].highest) <= Un(s, ctrls[j].highest)
       /\ ctrls[i].bytes <= ctrls[j].bytes

(* The sender's view. *)
View(s) ==
  IF link.haveCtrl
  THEN /\ lastCtrl \in 1..Len(ctrls)
       /\ link.highest = ctrls[lastCtrl].highest
       /\ link.pkts = ctrls[lastCtrl].pkts
       /\ link.bytes = ctrls[lastCtrl].bytes
       /\ orderly => credited \in 0..link.bytes
       /\ (orderly /\ inOrder) =>
            /\ base \in 0..(SeqSpace - 1)
            /\ Un(s, base) \in s..Un(s, link.highest) /\ Un(s, base) \notin lost
            /\ accounted = Cardinality(Between(lost, Un(s, base), Un(s, link.highest)))
  ELSE credited = 0 /\ accounted = 0 /\ lastCtrl = 0

Core(s) == Packets(s) /\ Reports(s) /\ View(s) /\ CleanIsNotLossy

(* The inductive invariant.  A receiver that starts over voids it. *)
IInv ==
  /\ restarts \in Nat /\ sent \in Nat /\ flight \subseteq Nat
  /\ rx \in [started : BOOLEAN, highest : Nat, pkts : Nat, bytes : Nat]
  /\ ctrls \in Seq([highest : Nat, pkts : Nat, bytes : Nat])
  /\ inOrder \in BOOLEAN /\ orderly \in BOOLEAN
  /\ restarts = 0 => \E s \in Starts : Core(s)

----------------------------------------------------------------------------
(* Arithmetic of the counters. *)

(* A count in the window of s is what its counter stands for. *)
LEMMA Unwrap ==
  ASSUME NEW s \in Starts, NEW a \in s..(s + MaxSent)
  PROVE  a % SeqSpace \in 0..(SeqSpace - 1) /\ Un(s, a % SeqSpace) = a
<1>1. SeqSpace \in Nat \ {0} /\ s \in Nat /\ a \in Int /\ a - s \in 0..(SeqSpace - 1)
  BY FeedbackAssumption
<1>2. /\ a % SeqSpace \in 0..(SeqSpace - 1) /\ a \div SeqSpace \in Int
      /\ a = SeqSpace * (a \div SeqSpace) + (a % SeqSpace)
  BY <1>1, ModSpec
<1> DEFINE d == a - s
           c == -(a \div SeqSpace)
<1>3. d \in Int /\ c \in Int /\ d \in 0..(SeqSpace - 1)
  BY <1>1, <1>2
<1>4. (a % SeqSpace) - s = d + SeqSpace * c
  BY <1>1, <1>2
<1> HIDE DEF c
<1>5. (d + SeqSpace * c) % SeqSpace = d % SeqSpace
  BY <1>1, <1>3, ModShift, Zenon
<1>6. d % SeqSpace = d
  <2>1. -SeqSpace <= d /\ d < 2 * SeqSpace /\ ~(d < 0) /\ d < SeqSpace
    BY <1>1, <1>3
  <2> QED BY <1>1, <1>3, <2>1, ModNear, Zenon
<1>7. ((a % SeqSpace) - s) % SeqSpace = a - s
  BY <1>4, <1>5, <1>6
<1> QED BY <1>1, <1>2, <1>7 DEF Un

(* A counter holds the remainder of the count it stands for. *)
LEMMA Wrapped ==
  ASSUME NEW s \in Starts, NEW w \in 0..(SeqSpace - 1)
  PROVE  Un(s, w) \in Nat /\ Un(s, w) % SeqSpace = w
<1>1. SeqSpace \in Nat \ {0} /\ s \in Nat /\ w \in Int /\ w - s \in Int
  BY FeedbackAssumption
<1>2. /\ (w - s) % SeqSpace \in 0..(SeqSpace - 1) /\ (w - s) \div SeqSpace \in Int
      /\ w - s = SeqSpace * ((w - s) \div SeqSpace) + ((w - s) % SeqSpace)
  BY <1>1, ModSpec
<1> DEFINE c == -((w - s) \div SeqSpace)
<1>3. c \in Int /\ Un(s, w) = w + SeqSpace * c
  BY <1>1, <1>2 DEF Un
<1> HIDE DEF c
<1>4. (w + SeqSpace * c) % SeqSpace = w % SeqSpace
  BY <1>1, <1>3, ModShift, Zenon
<1>5. w % SeqSpace = w
  <2>1. -SeqSpace <= w /\ w < 2 * SeqSpace /\ ~(w < 0) /\ w < SeqSpace
    BY <1>1
  <2> QED BY <1>1, <2>1, ModNear
<1>6. Un(s, w) \in Nat
  BY <1>1, <1>2 DEF Un
<1> QED BY <1>3, <1>4, <1>5, <1>6

(* The signed difference of a number less than half the space away. *)
LEMMA SignedDiff ==
  ASSUME NEW a \in Int, NEW b \in Int, 2 * (a - b) < SeqSpace, 2 * (b - a) < SeqSpace
  PROVE  Signed(a - (b % SeqSpace), SeqSpace) = a - b
<1>1. SeqSpace \in Nat \ {0}
  BY FeedbackAssumption
<1>2. /\ b % SeqSpace \in 0..(SeqSpace - 1) /\ b \div SeqSpace \in Int
      /\ b = SeqSpace * (b \div SeqSpace) + (b % SeqSpace)
  BY <1>1, ModSpec
<1> DEFINE d == a - b
           c == b \div SeqSpace
<1>3. d \in Int /\ c \in Int /\ a - (b % SeqSpace) = d + SeqSpace * c
  BY <1>1, <1>2
<1>4. 2 * d < SeqSpace /\ 2 * (-d) < SeqSpace
  OBVIOUS
<1> HIDE DEF c, d
<1>5. (a - (b % SeqSpace)) % SeqSpace = d % SeqSpace
  BY <1>1, <1>3, ModShift, ZenonT(30)
<1>6. d % SeqSpace = IF d < 0 THEN d + SeqSpace ELSE d
  <2>1. -SeqSpace <= d /\ d < 2 * SeqSpace /\ d < SeqSpace
    BY <1>1, <1>3, <1>4
  <2> QED BY <1>1, <1>3, <2>1, ModNear, Zenon
<1>7. Signed(a - (b % SeqSpace), SeqSpace) = d
  BY <1>1, <1>3, <1>4, <1>5, <1>6 DEF Signed
<1> QED BY <1>7 DEF d

(* The signed difference of two counters, and of a number and a counter,   *)
(* is the difference of the counts.                                        *)
LEMMA SignedCounters ==
  ASSUME NEW s \in Starts, NEW w \in 0..(SeqSpace - 1), NEW v \in 0..(SeqSpace - 1),
         Un(s, w) \in s..(s + MaxSent), Un(s, v) \in s..(s + MaxSent)
  PROVE  Signed(w - v, SeqSpace) = Un(s, w) - Un(s, v)
<1>1. SeqSpace \in Nat \ {0} /\ s \in Nat /\ MaxSent \in Nat /\ 2 * MaxSent < SeqSpace
  BY FeedbackAssumption
<1>2. /\ Un(s, w) \in Nat /\ Un(s, w) % SeqSpace = w
      /\ Un(s, v) \in Nat /\ Un(s, v) % SeqSpace = v
  BY Wrapped
<1> DEFINE a == Un(s, w)
           b == Un(s, v)
<1>3. a \in Int /\ b \in Int /\ a - b <= MaxSent /\ b - a <= MaxSent
  BY <1>1, <1>2
<1>4. Signed(a - (b % SeqSpace), SeqSpace) = a - b
  <2>1. 2 * (a - b) < SeqSpace /\ 2 * (b - a) < SeqSpace
    BY <1>1, <1>3
  <2> HIDE DEF a, b
  <2> QED BY <1>3, <2>1, SignedDiff
<1>5. Signed(a - v, SeqSpace) = a - b
  BY <1>2, <1>4
<1>6. (w - v) % SeqSpace = (a - v) % SeqSpace
  <2>1. /\ a \div SeqSpace \in Int
        /\ a = SeqSpace * (a \div SeqSpace) + (a % SeqSpace)
    BY <1>1, <1>3, ModSpec, Zenon
  <2> DEFINE c == a \div SeqSpace
             d == w - v
  <2>2. c \in Int /\ d \in Int /\ a % SeqSpace = w /\ a \in Int
    BY <1>1, <1>2, <1>3, <2>1
  <2>3. a - v = d + SeqSpace * c
    <3> HIDE DEF a
    <3> QED BY <1>1, <2>1, <2>2
  <2> HIDE DEF a, c, d
  <2>4. (a - v) % SeqSpace = d % SeqSpace
    BY <1>1, <2>2, <2>3, ModShift, Zenon
  <2> QED BY <2>4 DEF d
<1> QED BY <1>5, <1>6 DEF Signed

(* The signed difference of two counters is a number. *)
LEMMA SignedNumber ==
  ASSUME NEW s \in Starts, NEW n \in s..(s + MaxSent), NEW v \in 0..(SeqSpace - 1),
         Un(s, v) \in s..(s + MaxSent)
  PROVE  Signed(n - v, SeqSpace) = n - Un(s, v)
<1>1. SeqSpace \in Nat \ {0} /\ s \in Nat /\ MaxSent \in Nat /\ 2 * MaxSent < SeqSpace
  BY FeedbackAssumption
<1>2. Un(s, v) \in Nat /\ Un(s, v) % SeqSpace = v
  BY Wrapped
<1> DEFINE b == Un(s, v)
<1>3. n \in Int /\ b \in Int /\ 2 * (n - b) < SeqSpace /\ 2 * (b - n) < SeqSpace
  BY <1>1, <1>2
<1>4. Signed(n - (b % SeqSpace), SeqSpace) = n - b
  <2> HIDE DEF b
  <2> QED BY <1>3, SignedDiff
<1> QED BY <1>2, <1>4

----------------------------------------------------------------------------
(* Counting lost packets. *)

(* The packets of T below c are those below a and those between. *)
LEMMA BelowSplits ==
  ASSUME NEW T, IsFiniteSet(T), T \subseteq Nat, NEW a \in Nat, NEW c \in Nat,
         a <= c, a \notin T
  PROVE  /\ Cardinality(Below(T, a)) \in Nat
         /\ Cardinality(Between(T, a, c)) \in Nat
         /\ Cardinality(Below(T, c)) = Cardinality(Below(T, a))
                                       + Cardinality(Between(T, a, c))
<1> DEFINE A == Below(T, a)
           B == Between(T, a, c)
<1>1. A \subseteq T /\ B \subseteq T
  BY DEF Below, Between
<1>2. IsFiniteSet(A) /\ IsFiniteSet(B)
  BY <1>1, FS_Subset
<1>3. A \union B = Below(T, c)
  <2>1. \A n \in T : n \in Nat /\ n # a
    OBVIOUS
  <2>2. ASSUME NEW n \in T PROVE n < c <=> (n < a \/ (a < n /\ n < c))
    BY <2>1
  <2>3. \A n : n \in A \union B <=> n \in Below(T, c)
    BY <2>2, Zenon DEF Below, Between
  <2> QED BY <2>3, Zenon
<1>4. A \intersect B = {}
  <2>1. ASSUME NEW n \in T PROVE ~(n < a /\ a < n)
    OBVIOUS
  <2> QED BY <2>1, Zenon DEF Below, Between
<1> HIDE DEF A, B
<1>5. Cardinality(A) \in Nat /\ Cardinality(B) \in Nat
  BY <1>2, FS_CardinalityType
<1>6. Cardinality(A \union B) = Cardinality(A) + Cardinality(B) - Cardinality(A \intersect B)
  BY <1>2, FS_Union
<1>7. Cardinality(A \intersect B) = 0
  BY <1>4, FS_EmptySet
<1>8. Cardinality(A \union B) = Cardinality(A) + Cardinality(B)
  BY <1>5, <1>6, <1>7
<1>9. Cardinality(A \union B) = Cardinality(Below(T, c))
  BY <1>3
<1> QED BY <1>5, <1>8, <1>9 DEF A, B

(* What is between a and c is what is between a and b and between b and c. *)
LEMMA BetweenJoins ==
  ASSUME NEW T, IsFiniteSet(T), T \subseteq Nat,
         NEW a \in Nat, NEW b \in Nat, NEW c \in Nat,
         a <= b, b <= c, a \notin T, b \notin T
  PROVE  Cardinality(Between(T, a, c)) = Cardinality(Between(T, a, b))
                                         + Cardinality(Between(T, b, c))
<1>1. /\ Cardinality(Below(T, a)) \in Nat /\ Cardinality(Between(T, a, b)) \in Nat
      /\ Cardinality(Below(T, b)) = Cardinality(Below(T, a)) + Cardinality(Between(T, a, b))
  BY BelowSplits, Zenon
<1>2. /\ Cardinality(Between(T, b, c)) \in Nat
      /\ Cardinality(Below(T, c)) = Cardinality(Below(T, b)) + Cardinality(Between(T, b, c))
  BY BelowSplits, Zenon
<1>3. /\ Cardinality(Between(T, a, c)) \in Nat
      /\ Cardinality(Below(T, c)) = Cardinality(Below(T, a)) + Cardinality(Between(T, a, c))
  <2>1. a <= c
    OBVIOUS
  <2> QED BY <2>1, BelowSplits, Zenon
<1> QED BY <1>1, <1>2, <1>3

(* Counters keep their meaning while more is received. *)
LEMMA CountersGrow ==
  ASSUME NEW s \in Nat, NEW r, NEW top \in Nat, NEW got \in Nat, NEW T, NEW ord,
         NEW top2 \in Nat, NEW got2 \in Nat, NEW ord2,
         Counters(s, r, top, got, T, ord), top <= top2, got <= got2, ord2 => ord
  PROVE  Counters(s, r, top2, got2, T, ord2)
BY DEF Counters

(* They keep it when a packet above the highest is lost. *)
LEMMA CountersLose ==
  ASSUME NEW s \in Nat, NEW r, NEW top \in Nat, NEW got, NEW T, NEW ord, NEW n \in Nat,
         T \subseteq Nat,
         Counters(s, r, top, got, T, ord), ord => top < n
  PROVE  Counters(s, r, top, got, T \union {n}, ord)
<1>1. SUFFICES ASSUME ord
               PROVE  /\ Un(s, r.highest) \notin T \union {n}
                      /\ Below(T \union {n}, Un(s, r.highest)) = Below(T, Un(s, r.highest))
  BY DEF Counters
<1>2. Un(s, r.highest) \in Nat /\ Un(s, r.highest) < n /\ Un(s, r.highest) \notin T
  BY <1>1 DEF Counters
<1> QED BY <1>2 DEF Below

----------------------------------------------------------------------------
(* The steps. *)

(* Both sets of packets are finite and no more is received than was sent. *)
LEMMA PacketFacts ==
  ASSUME NEW s \in Starts, Packets(s)
  PROVE  /\ s \in Nat /\ sent \in Nat
         /\ IsFiniteSet(flight) /\ flight \subseteq Nat /\ Cardinality(flight) \in Nat
         /\ IsFiniteSet(lost) /\ lost \subseteq Nat /\ Cardinality(lost) \in Nat
         /\ received \in 0..sent
<1>1. s \in Nat /\ sent \in Nat /\ MaxSent \in Nat
  BY FeedbackAssumption DEF Packets
<1>2. flight \subseteq (s + 1)..sent /\ lost \subseteq (s + 1)..sent
  BY DEF Packets
<1>3. IsFiniteSet((s + 1)..sent)
  BY <1>1, FS_Interval
<1>4. IsFiniteSet(flight) /\ IsFiniteSet(lost)
  BY <1>2, <1>3, FS_Subset, Zenon
<1>5. Cardinality(flight) \in Nat /\ Cardinality(lost) \in Nat
  BY <1>4, FS_CardinalityType
<1>6. flight \subseteq Nat /\ lost \subseteq Nat
  BY <1>1, <1>2
<1>7. received \in 0..sent
  BY <1>1, <1>5 DEF Packets
<1> QED BY <1>1, <1>4, <1>5, <1>6, <1>7

(* The receiver and the sender start with the same counts. *)
LEMMA InitCore == Init => IInv
<1> SUFFICES ASSUME Init PROVE IInv
  OBVIOUS
<1>1. sent \in Starts /\ sent \in Nat /\ MaxSent \in Nat /\ sent + MaxSent < ByteMod
      /\ ByteMod \in Nat \ {0}
  BY FeedbackAssumption DEF Init
<1> DEFINE w == sent % SeqSpace
<1>2. w \in 0..(SeqSpace - 1) /\ Un(sent, w) = sent
  BY <1>1, Unwrap
<1>3. rx.started = (sent > 0) /\ rx.highest = w /\ rx.pkts = w /\ rx.bytes = sent % ByteMod
  BY DEF Init
<1>4. sent % ByteMod = sent
  <2>1. -ByteMod <= sent /\ sent < 2 * ByteMod /\ ~(sent < 0) /\ sent < ByteMod
    BY <1>1
  <2> QED BY <1>1, <2>1, ModNear
<1> HIDE DEF w
<1>5. Cardinality({}) = 0
  BY FS_EmptySet
<1>6. Packets(sent)
  BY <1>1, <1>2, <1>3, <1>5 DEF Init, Packets, Top
<1>7. Below(lost, sent) = {} /\ lost = {}
  BY DEF Init, Below
<1>8. Counters(sent, rx, sent, sent, lost, inOrder)
  <2>1. Un(sent, rx.highest) = sent /\ Un(sent, rx.pkts) = sent /\ rx.bytes = sent
    BY <1>2, <1>3, <1>4
  <2>2. sent = sent - Cardinality(Below(lost, sent)) /\ sent \notin lost
    BY <1>1, <1>5, <1>7
  <2>3. sent \in sent..sent
    BY <1>1
  <2> QED BY <1>2, <1>3, <2>1, <2>2, <2>3 DEF Counters
<1>9. Reports(sent)
  <2>1. Top(sent) = sent /\ received = sent /\ rx.bytes = sent
    BY <1>2, <1>3, <1>4 DEF Top, Init
  <2>2. 1..Len(ctrls) = {}
    BY DEF Init
  <2> QED BY <1>8, <2>1, <2>2 DEF Reports
<1>10. View(sent) /\ CleanIsNotLossy
  BY DEF Init, View, NoLink, CleanIsNotLossy
<1>11. rx \in [started : BOOLEAN, highest : Nat, pkts : Nat, bytes : Nat]
  BY <1>1, <1>2, <1>4, FeedbackAssumption DEF Init, w
<1> QED BY <1>1, <1>6, <1>9, <1>10, <1>11 DEF IInv, Core, Init

(* SendData: the new number is above all others. *)
LEMMA SendCore ==
  ASSUME NEW s \in Starts, Core(s), SendData
  PROVE  Core(s)'
<1>1. s \in Nat /\ MaxSent \in Nat /\ sent \in s..(s + MaxSent)
  BY FeedbackAssumption DEF Core, Packets
<1>2. sent + 1 \in s..(s + MaxSent)
  <2>1. PICK t \in Starts : sent - t \in 0..(MaxSent - 1)
    BY DEF SendData
  <2>2. t \in Nat
    BY FeedbackAssumption
  <2>3. (t < s => t + MaxSent < s) /\ (s < t => s + MaxSent < t)
    BY FeedbackAssumption
  <2>4. t = s
    BY <1>1, <2>1, <2>2, <2>3
  <2> QED BY <1>1, <2>1, <2>4
<1>3. /\ sent' = sent + 1 /\ flight' = flight \union {sent + 1}
      /\ UNCHANGED <<rx, ctrls, link, verdict, received, lost, lastCtrl, base,
                     accounted, credited, orderly, inOrder, restarts>>
  BY DEF SendData
<1>4. /\ IsFiniteSet(flight) /\ Cardinality(flight) \in Nat /\ Cardinality(lost) \in Nat
      /\ flight \subseteq (s + 1)..sent /\ lost \subseteq (s + 1)..sent
      /\ sent + 1 \notin flight /\ sent + 1 \notin lost
  BY <1>1, PacketFacts DEF Core, Packets
<1>5. Cardinality(flight') = Cardinality(flight) + 1
  BY <1>3, <1>4, FS_AddElement, Zenon
<1>6. Top(s) \in Nat /\ Top(s) \in s..Top(s) /\ Top(s)' = Top(s)
  BY <1>1, <1>3, Wrapped DEF Core, Reports, Counters, Top
<1>7. Packets(s)'
  <2>1. (sent \in s..(s + MaxSent))' /\ (received \in Nat)'
    BY <1>1, <1>2, <1>3 DEF Core, Packets
  <2>2. (flight \subseteq (s + 1)..sent /\ lost \subseteq (s + 1)..sent
         /\ flight \intersect lost = {})'
    BY <1>1, <1>3, <1>4 DEF Core, Packets
  <2>3. (received + Cardinality(flight) + Cardinality(lost) = sent)'
    BY <1>1, <1>3, <1>4, <1>5 DEF Core, Packets
  <2>4. (Top(s) <= sent)'
    BY <1>1, <1>3, <1>6 DEF Core, Packets
  <2>5. (\A k \in (Top(s) + 1)..sent : k \in flight \union lost)'
    BY <1>1, <1>3, <1>6 DEF Core, Packets
  <2>6. (inOrder => \A k \in flight : Top(s) < k)'
    BY <1>1, <1>3, <1>6 DEF Core, Packets
  <2> QED BY <2>1, <2>2, <2>3, <2>4, <2>5, <2>6 DEF Packets
<1>8. Reports(s)'
  BY <1>3, <1>6 DEF Core, Reports
<1>9. View(s)' /\ CleanIsNotLossy'
  BY <1>3 DEF Core, View, CleanIsNotLossy
<1> QED BY <1>7, <1>8, <1>9 DEF Core

(* LoseData: in order, what is in flight is above all that was counted. *)
LEMMA LoseCore ==
  ASSUME NEW s \in Starts, Core(s), NEW n \in flight, LoseData(n)
  PROVE  Core(s)'
<1>1. /\ s \in Nat /\ sent \in Nat /\ IsFiniteSet(flight) /\ IsFiniteSet(lost)
      /\ Cardinality(flight) \in Nat /\ Cardinality(lost) \in Nat
      /\ flight \subseteq Nat /\ lost \subseteq Nat /\ n \in Nat /\ n \notin lost
  BY PacketFacts DEF Core, Packets
<1>2. /\ flight' = flight \ {n} /\ lost' = lost \union {n}
      /\ UNCHANGED <<sent, rx, ctrls, link, verdict, received, lastCtrl, base,
                     accounted, credited, orderly, inOrder, restarts>>
  BY DEF LoseData
<1>3. Cardinality(flight') = Cardinality(flight) - 1
  BY <1>1, <1>2, FS_RemoveElement, Zenon
<1>4. Cardinality(lost') = Cardinality(lost) + 1
  BY <1>1, <1>2, FS_AddElement, Zenon
<1>5. Top(s) \in Nat /\ Top(s)' = Top(s) /\ (inOrder => Top(s) < n)
  BY <1>1, <1>2, Wrapped DEF Core, Reports, Counters, Top, Packets
<1>6. Packets(s)'
  <2>1. (flight \subseteq (s + 1)..sent /\ lost \subseteq (s + 1)..sent
         /\ flight \intersect lost = {})'
    BY <1>1, <1>2 DEF Core, Packets
  <2>2. (received + Cardinality(flight) + Cardinality(lost) = sent)'
    BY <1>1, <1>2, <1>3, <1>4 DEF Core, Packets
  <2>3. (\A k \in (Top(s) + 1)..sent : k \in flight \union lost)'
    BY <1>2, <1>5 DEF Core, Packets
  <2> QED BY <1>2, <1>5, <2>1, <2>2, <2>3 DEF Core, Packets
<1>7. ASSUME NEW r, Counters(s, r, Top(s), received, lost, inOrder)
      PROVE  Counters(s, r, Top(s), received, lost \union {n}, inOrder)
  BY <1>1, <1>5, <1>7, CountersLose, Zenon
<1>8. Reports(s)'
  BY <1>2, <1>5, <1>7, Zenon DEF Core, Reports
<1>9. View(s)'
  <2>1. CASE ~link.haveCtrl
    BY <1>2, <2>1 DEF Core, View
  <2>2. CASE link.haveCtrl
    <3>1. SUFFICES ASSUME orderly, inOrder
                   PROVE  /\ Un(s, base) \notin lost \union {n}
                          /\ Between(lost \union {n}, Un(s, base), Un(s, link.highest))
                               = Between(lost, Un(s, base), Un(s, link.highest))
      BY <1>2, <2>2 DEF Core, View
    <3>2. /\ Un(s, link.highest) \in s..Top(s)
          /\ Un(s, base) \in s..Un(s, link.highest) /\ Un(s, base) \notin lost
      BY <2>2, <3>1 DEF Core, View, Reports, Counters
    <3>3. Un(s, base) # n /\ ~(n < Un(s, link.highest))
      BY <1>1, <1>5, <3>1, <3>2
    <3> QED BY <3>2, <3>3 DEF Between
  <2> QED BY <2>1, <2>2
<1>10. CleanIsNotLossy'
  BY <1>2 DEF CleanIsNotLossy
<1> QED BY <1>6, <1>8, <1>9, <1>10 DEF Core

(* RxStats.OnData: the highest number goes to n exactly when n is above it. *)
LEMMA OnDataTop ==
  ASSUME NEW s \in Starts, Core(s), NEW n \in flight, OnData(n)
  PROVE  /\ Top(s) \in s..sent /\ n \in (s + 1)..sent
         /\ rx'.highest \in 0..(SeqSpace - 1)
         /\ Top(s)' = IF Top(s) < n THEN n ELSE Top(s)
<1>1. /\ s \in Nat /\ MaxSent \in Nat /\ sent \in s..(s + MaxSent)
      /\ n \in (s + 1)..sent
  BY FeedbackAssumption DEF Core, Packets
<1>2. /\ rx.highest \in 0..(SeqSpace - 1) /\ Top(s) \in Nat /\ Top(s) \in s..sent
      /\ ~rx.started => Top(s) = s
  BY <1>1, Wrapped DEF Core, Reports, Counters, Top, Packets
<1>3. n \in s..(s + MaxSent) /\ Un(s, rx.highest) \in s..(s + MaxSent)
  BY <1>1, <1>2 DEF Top
<1>4. Signed(n - rx.highest, SeqSpace) = n - Top(s)
  BY <1>2, <1>3, SignedNumber DEF Top
<1>5. Newer(n) <=> Top(s) < n
  BY <1>1, <1>2, <1>4 DEF Newer
<1>6. rx'.highest = IF Newer(n) THEN n % SeqSpace ELSE rx.highest
  BY DEF OnData
<1>7. n % SeqSpace \in 0..(SeqSpace - 1) /\ Un(s, n % SeqSpace) = n
  BY <1>3, Unwrap
<1>8. Top(s)' = Un(s, rx'.highest)
  BY DEF Top
<1>9. CASE Newer(n)
  BY <1>1, <1>2, <1>5, <1>6, <1>7, <1>8, <1>9
<1>10. CASE ~Newer(n)
  <2>1. rx'.highest = rx.highest /\ Top(s)' = Top(s)
    BY <1>6, <1>8, <1>10 DEF Top
  <2> QED BY <1>1, <1>2, <1>5, <1>10, <2>1
<1> QED BY <1>9, <1>10

(* RxStats.OnData: the counters stand for one packet more. *)
LEMMA OnDataCount ==
  ASSUME NEW s \in Starts, Core(s), NEW n \in flight, OnData(n)
  PROVE  /\ received \in s..sent /\ received + 1 \in s..sent
         /\ Cardinality(flight') = Cardinality(flight) - 1
         /\ rx'.pkts \in 0..(SeqSpace - 1) /\ Un(s, rx'.pkts) = received + 1
         /\ rx'.bytes = received + 1
<1>1. /\ s \in Nat /\ MaxSent \in Nat /\ sent \in s..(s + MaxSent)
      /\ SeqSpace \in Nat \ {0} /\ ByteMod \in Nat \ {0} /\ s + MaxSent < ByteMod
  BY FeedbackAssumption DEF Core, Packets
<1>2. /\ IsFiniteSet(flight) /\ Cardinality(flight) \in Nat /\ Cardinality(lost) \in Nat
      /\ received + Cardinality(flight) + Cardinality(lost) = sent /\ received \in Nat
  BY PacketFacts DEF Core, Packets
<1>3. /\ rx.pkts \in 0..(SeqSpace - 1) /\ rx.bytes = received
      /\ received = Un(s, rx.pkts) /\ received \in s..received
  BY DEF Core, Reports, Counters
<1>4. /\ flight' = flight \ {n} /\ rx'.pkts = (rx.pkts + 1) % SeqSpace
      /\ rx'.bytes = (rx.bytes + 1) % ByteMod
  BY DEF OnData
<1>5. Cardinality(flight') = Cardinality(flight) - 1 /\ Cardinality(flight') \in Nat
  <2>1. IsFiniteSet(flight')
    BY <1>2, <1>4, FS_Subset
  <2> QED BY <1>2, <1>4, <2>1, FS_RemoveElement, FS_CardinalityType
<1>6. received \in s..sent /\ received + 1 \in s..sent /\ received + 1 \in s..(s + MaxSent)
  BY <1>1, <1>2, <1>3, <1>5
<1>7. rx'.pkts = (received + 1) % SeqSpace
  <2>1. received % SeqSpace = rx.pkts
    BY <1>3, Wrapped
  <2>2. /\ received \div SeqSpace \in Int
        /\ received = SeqSpace * (received \div SeqSpace) + (received % SeqSpace)
    BY <1>1, <1>2, ModSpec
  <2> DEFINE a == rx.pkts + 1
             c == received \div SeqSpace
  <2>3. a \in Int /\ c \in Int /\ received = SeqSpace * c + rx.pkts
    <3>1. a \in Int
      BY <1>1, <1>3
    <3>2. c \in Int /\ received = SeqSpace * c + rx.pkts
      BY <2>1, <2>2, Zenon
    <3> QED BY <3>1, <3>2
  <2> HIDE DEF c
  <2>4. received + 1 = a + SeqSpace * c
    BY <1>1, <1>3, <2>3
  <2> HIDE DEF a
  <2>5. (received + 1) % SeqSpace = a % SeqSpace
    BY <1>1, <2>3, <2>4, ModShift, Zenon
  <2> QED BY <1>4, <2>5 DEF a
<1>8. rx'.pkts \in 0..(SeqSpace - 1) /\ Un(s, rx'.pkts) = received + 1
  BY <1>6, <1>7, Unwrap
<1>9. rx'.bytes = received + 1
  <2> DEFINE b == received + 1
  <2>1. b \in Int /\ -ByteMod <= b /\ b < 2 * ByteMod /\ ~(b < 0) /\ b < ByteMod
    BY <1>1, <1>6
  <2>2. b % ByteMod = b
    <3> HIDE DEF b
    <3> QED BY <1>1, <2>1, ModNear
  <2> QED BY <1>3, <1>4, <2>2
<1> QED BY <1>5, <1>6, <1>8, <1>9

(* RxStats.OnData, in order: what is between the old and the new highest   *)
(* number is lost.                                                         *)
LEMMA OnDataInOrder ==
  ASSUME NEW s \in Starts, Core(s), NEW n \in flight, OnData(n), inOrder'
  PROVE  /\ Top(s)' = n /\ n \notin lost
         /\ received + 1 = n - Cardinality(Below(lost, n))
         /\ \A k \in flight' : n < k
<1>1. /\ s \in Nat /\ sent \in Nat /\ IsFiniteSet(lost) /\ lost \subseteq Nat
      /\ flight \subseteq Nat
  BY PacketFacts DEF Core
<1>2. /\ Top(s) \in s..sent /\ n \in (s + 1)..sent
      /\ Top(s)' = IF Top(s) < n THEN n ELSE Top(s)
  BY OnDataTop
<1>3. inOrder /\ (\A k \in flight : n <= k) /\ flight' = flight \ {n}
  BY Zenon DEF OnData
<1>4. Top(s) < n /\ n \notin lost
  BY <1>3 DEF Core, Packets
<1>5. \A k \in flight' : n < k
  BY <1>1, <1>2, <1>3
<1>6. /\ Top(s) \notin lost
      /\ received = Top(s) - Cardinality(Below(lost, Top(s)))
  BY <1>3 DEF Core, Reports, Counters, Top
<1> DEFINE h == Top(s)
<1>7. /\ Cardinality(Below(lost, h)) \in Nat
      /\ Cardinality(Below(lost, n)) = Cardinality(Below(lost, h))
                                       + Cardinality(Between(lost, h, n))
  <2>1. h \in Nat /\ n \in Nat /\ h <= n /\ h \notin lost
    BY <1>1, <1>2, <1>4, <1>6
  <2> HIDE DEF h
  <2> QED BY <1>1, <2>1, BelowSplits, Zenon
<1>8. Between(lost, h, n) = (h + 1)..(n - 1)
  <2>1. ASSUME NEW k \in (h + 1)..(n - 1)
        PROVE  k \in Between(lost, h, n)
    <3>1. k \in (Top(s) + 1)..sent /\ k \in Int /\ h < k /\ k < n /\ ~(n <= k)
      BY <1>1, <1>2
    <3>2. k \in flight \union lost
      BY <3>1 DEF Core, Packets
    <3>3. k \notin flight
      BY <1>3, <3>1
    <3> QED BY <3>1, <3>2, <3>3 DEF Between
  <2>2. ASSUME NEW k \in Between(lost, h, n)
        PROVE  k \in (h + 1)..(n - 1)
    BY <1>1, <1>2 DEF Between
  <2> QED BY <2>1, <2>2, Zenon
<1>9. Cardinality((h + 1)..(n - 1)) = n - 1 - h
  <2> DEFINE a == h + 1
             b == n - 1
  <2>1. a \in Int /\ b \in Int
    BY <1>1, <1>2
  <2>2. Cardinality(a..b) = IF a > b THEN 0 ELSE b - a + 1
    <3> HIDE DEF a, b
    <3> QED BY <2>1, FS_Interval
  <2> QED BY <1>1, <1>2, <1>4, <2>2
<1>10. received + 1 = n - Cardinality(Below(lost, n))
  <2>1. Cardinality(Below(lost, n)) = Cardinality(Below(lost, h)) + (n - 1 - h)
    BY <1>7, <1>8, <1>9
  <2> HIDE DEF h
  <2>2. h \in Int /\ n \in Int /\ received = h - Cardinality(Below(lost, h))
    BY <1>1, <1>2, <1>6 DEF h
  <2> QED BY <1>7, <2>1, <2>2
<1> QED BY <1>2, <1>4, <1>5, <1>10

(* RxStats.OnData *)
LEMMA OnDataCore ==
  ASSUME NEW s \in Starts, Core(s), NEW n \in flight, OnData(n), inOrder \in BOOLEAN
  PROVE  Core(s)'
<1>1. /\ s \in Nat /\ sent \in Nat /\ MaxSent \in Nat
      /\ Cardinality(flight) \in Nat /\ Cardinality(lost) \in Nat
  BY PacketFacts, FeedbackAssumption DEF Core
<1>2. /\ flight' = flight \ {n} /\ received' = received + 1 /\ rx'.started
      /\ inOrder' => inOrder
      /\ UNCHANGED <<sent, ctrls, link, verdict, lost, lastCtrl, base, accounted,
                     credited, orderly, restarts>>
  BY DEF OnData
<1>3. /\ Top(s) \in s..sent /\ n \in (s + 1)..sent
      /\ rx'.highest \in 0..(SeqSpace - 1)
      /\ Top(s)' = IF Top(s) < n THEN n ELSE Top(s)
  BY OnDataTop
<1>4. /\ received \in s..sent /\ received + 1 \in s..sent
      /\ Cardinality(flight') = Cardinality(flight) - 1
      /\ rx'.pkts \in 0..(SeqSpace - 1) /\ Un(s, rx'.pkts) = received + 1
      /\ rx'.bytes = received + 1
  BY OnDataCount
<1>5. inOrder' => /\ Top(s)' = n /\ n \notin lost
                  /\ received + 1 = n - Cardinality(Below(lost, n))
                  /\ \A k \in flight' : n < k
  BY OnDataInOrder
<1>6. Top(s)' \in s..sent /\ Top(s)' \in Nat /\ Top(s) \in Nat /\ Top(s) <= Top(s)'
      /\ n <= Top(s)'
  BY <1>1, <1>3
<1>7. Packets(s)'
  <2>1. (flight \subseteq (s + 1)..sent /\ flight \intersect lost = {})'
    BY <1>2 DEF Core, Packets
  <2>2. (received + Cardinality(flight) + Cardinality(lost) = sent)'
    BY <1>1, <1>2, <1>4 DEF Core, Packets
  <2>3. \A k \in (Top(s)' + 1)..sent : k \in flight' \union lost
    <3>1. ASSUME NEW k \in (Top(s)' + 1)..sent
          PROVE  k \in (Top(s) + 1)..sent /\ k # n
      BY <1>1, <1>3, <1>6
    <3> QED BY <1>2, <3>1 DEF Core, Packets
  <2>4. (received \in Nat)' /\ (Top(s) <= sent)'
    BY <1>1, <1>2, <1>4, <1>6
  <2> QED BY <1>2, <1>5, <2>1, <2>2, <2>3, <2>4 DEF Core, Packets
<1>8. ASSUME NEW r, Counters(s, r, Top(s), received, lost, inOrder)
      PROVE  Counters(s, r, Top(s)', received', lost, inOrder')
  <2> DEFINE top2 == Top(s)'
             got2 == received'
             ord2 == inOrder'
             top == Top(s)
  <2>1. /\ top \in Nat /\ top2 \in Nat /\ top <= top2 /\ received \in Nat /\ got2 \in Nat
        /\ received <= got2 /\ (ord2 => inOrder) /\ Counters(s, r, top, received, lost, inOrder)
    BY <1>1, <1>2, <1>4, <1>6, <1>8
  <2> HIDE DEF top2, got2, ord2, top
  <2>2. Counters(s, r, top2, got2, lost, ord2)
    BY <1>1, <2>1, CountersGrow
  <2> QED BY <2>2 DEF top2, got2, ord2
<1>9. Counters(s, rx', Top(s)', received', lost, inOrder')
  <2>1. Un(s, rx'.highest) = Top(s)'
    BY DEF Top
  <2>2. Top(s)' \in s..Top(s)' /\ received + 1 \in s..(received + 1)
    BY <1>1, <1>4, <1>6
  <2>3. inOrder' => /\ Un(s, rx'.highest) \notin lost
                    /\ rx'.bytes = Un(s, rx'.highest)
                                   - Cardinality(Below(lost, Un(s, rx'.highest)))
    BY <1>4, <1>5, <2>1
  <2> QED BY <1>2, <1>3, <1>4, <2>1, <2>2, <2>3 DEF Counters
<1>10. Reports(s)'
  <2>1. \A i \in 1..Len(ctrls) : Counters(s, ctrls[i], Top(s)', received', lost, inOrder')
    BY <1>8 DEF Core, Reports
  <2> QED BY <1>2, <1>4, <1>9, <2>1, ZenonT(30) DEF Core, Reports
<1>11. View(s)'
  BY <1>2, Zenon DEF Core, View
<1>12. CleanIsNotLossy'
  BY <1>2 DEF Core, CleanIsNotLossy
<1> QED BY <1>7, <1>10, <1>11, <1>12 DEF Core

(* RxStats.Report: the new report holds the newest counters. *)
LEMMA ReportCore ==
  ASSUME NEW s \in Starts, Core(s), Report,
         ctrls \in Seq([highest : Nat, pkts : Nat, bytes : Nat])
  PROVE  Core(s)' /\ ctrls' \in Seq([highest : Nat, pkts : Nat, bytes : Nat])
<1> DEFINE r == [highest |-> rx.highest, pkts |-> rx.pkts, bytes |-> rx.bytes]
           S == [highest : Nat, pkts : Nat, bytes : Nat]
<1>1. /\ ctrls' = Append(ctrls, r)
      /\ UNCHANGED <<sent, flight, rx, link, verdict, received, lost, lastCtrl,
                     base, accounted, credited, orderly, inOrder, restarts>>
  BY DEF Report
<1>2. /\ Counters(s, rx, Top(s), received, lost, inOrder) /\ rx.bytes = received
      /\ SeqSpace \in Nat /\ received \in Nat
  BY FeedbackAssumption, Zenon DEF Core, Reports, Packets
<1>3. r \in S
  BY <1>2 DEF Counters
<1>4. Counters(s, r, Top(s), received, lost, inOrder) /\ r.bytes = received
      /\ Un(s, r.highest) = Top(s)
  BY <1>2, ZenonT(30) DEF Counters, Top
<1> HIDE DEF r
<1>5. /\ ctrls' \in Seq(S) /\ Len(ctrls') = Len(ctrls) + 1 /\ Len(ctrls) \in Nat
      /\ \A i \in 1..Len(ctrls) : ctrls'[i] = ctrls[i]
      /\ ctrls'[Len(ctrls) + 1] = r
  BY <1>1, <1>3
<1>6. \A i \in 1..Len(ctrls') : i \in 1..Len(ctrls) \/ i = Len(ctrls) + 1
  BY <1>5
<1>7. Top(s)' = Top(s) /\ Packets(s)'
  BY <1>1 DEF Core, Packets, Top
<1>8. Reports(s)'
  <2>1. \A i \in 1..Len(ctrls') : Counters(s, ctrls'[i], Top(s), received, lost, inOrder)
    BY <1>4, <1>5, <1>6, Zenon DEF Core, Reports
  <2>2. ASSUME NEW i \in 1..Len(ctrls'), NEW j \in 1..Len(ctrls'), i <= j
        PROVE  /\ Un(s, ctrls'[i].highest) <= Un(s, ctrls'[j].highest)
               /\ ctrls'[i].bytes <= ctrls'[j].bytes
    <3>1. CASE j \in 1..Len(ctrls)
      <4>1. i \in 1..Len(ctrls)
        BY <1>5, <2>2, <3>1
      <4> QED BY <1>5, <2>2, <3>1, <4>1, Zenon DEF Core, Reports
    <3>2. CASE j = Len(ctrls) + 1
      <4>1. /\ Un(s, ctrls'[i].highest) \in s..Top(s)
            /\ ctrls'[i].bytes \in s..received
        BY <2>1 DEF Counters
      <4> QED BY <1>4, <1>5, <3>2, <4>1
    <3> QED BY <1>6, <3>1, <3>2
  <2> QED BY <1>1, <1>7, <2>1, <2>2, ZenonT(30) DEF Core, Reports
<1>9. View(s)'
  <2>1. CASE ~link.haveCtrl
    BY <1>1, <2>1, Zenon DEF Core, View
  <2>2. CASE link.haveCtrl
    <3>1. lastCtrl \in 1..Len(ctrls)
      BY <2>2 DEF Core, View
    <3>2. lastCtrl \in 1..Len(ctrls') /\ ctrls'[lastCtrl] = ctrls[lastCtrl]
      BY <1>5, <3>1
    <3> QED BY <1>1, <2>2, <3>2, Zenon DEF Core, View
  <2> QED BY <2>1, <2>2, Zenon
<1>10. CleanIsNotLossy'
  BY <1>1, Zenon DEF Core, CleanIsNotLossy
<1> QED BY <1>5, <1>7, <1>8, <1>9, <1>10, Zenon DEF Core

(* OnCtrl: the differences it takes are those of the counts. *)
LEMMA Differences ==
  ASSUME NEW s \in Starts, Core(s), link.haveCtrl, NEW i \in 1..Len(ctrls)
  PROVE  /\ Counters(s, ctrls[i], Top(s), received, lost, inOrder)
         /\ Counters(s, link, Top(s), received, lost, inOrder)
         /\ Expected(ctrls[i]) = Un(s, ctrls[i].highest) - Un(s, link.highest)
         /\ Received(ctrls[i]) = ctrls[i].bytes - link.bytes
         /\ link.bytes <= ctrls[i].bytes => DeltaBytes(ctrls[i]) = ctrls[i].bytes - link.bytes
<1> DEFINE r == ctrls[i]
<1>1. Counters(s, r, Top(s), received, lost, inOrder)
  BY Zenon DEF Core, Reports
<1>2. Counters(s, link, Top(s), received, lost, inOrder)
  <2>1. /\ lastCtrl \in 1..Len(ctrls) /\ link.highest = ctrls[lastCtrl].highest
        /\ link.pkts = ctrls[lastCtrl].pkts /\ link.bytes = ctrls[lastCtrl].bytes
    BY DEF Core, View
  <2>2. Counters(s, ctrls[lastCtrl], Top(s), received, lost, inOrder)
    BY <2>1 DEF Core, Reports
  <2> QED BY <2>1, <2>2, Zenon DEF Counters
<1> HIDE DEF r
<1>3. /\ s \in Nat /\ MaxSent \in Nat /\ sent \in s..(s + MaxSent) /\ Top(s) <= sent
      /\ received \in 0..sent /\ s + MaxSent < ByteMod /\ ByteMod \in Nat \ {0}
      /\ Top(s) \in Nat
  <2>1. Top(s) \in Nat
    BY Wrapped DEF Top, Core, Reports, Counters
  <2> QED BY <2>1, FeedbackAssumption, PacketFacts DEF Core, Packets
<1>4. /\ r.highest \in 0..(SeqSpace - 1) /\ r.pkts \in 0..(SeqSpace - 1)
      /\ Un(s, r.highest) \in s..(s + MaxSent)
      /\ r.bytes = Un(s, r.pkts) /\ r.bytes \in s..(s + MaxSent)
  BY <1>1, <1>3 DEF Counters
<1>5. /\ link.highest \in 0..(SeqSpace - 1) /\ link.pkts \in 0..(SeqSpace - 1)
      /\ Un(s, link.highest) \in s..(s + MaxSent)
      /\ link.bytes = Un(s, link.pkts) /\ link.bytes \in s..(s + MaxSent)
  BY <1>2, <1>3 DEF Counters
<1>6. Expected(r) = Un(s, r.highest) - Un(s, link.highest)
  BY <1>4, <1>5, SignedCounters, Zenon DEF Expected
<1>7. Received(r) = r.bytes - link.bytes
  BY <1>4, <1>5, SignedCounters DEF Received
<1>8. ASSUME link.bytes <= r.bytes PROVE DeltaBytes(r) = r.bytes - link.bytes
  <2> DEFINE d == r.bytes - link.bytes
  <2>1. r.bytes \in Nat /\ link.bytes \in Nat /\ r.bytes < ByteMod
    BY <1>3, <1>4, <1>5
  <2>2. d \in Int /\ -ByteMod <= d /\ d < 2 * ByteMod /\ ~(d < 0) /\ d < ByteMod
    BY <1>3, <1>8, <2>1
  <2>3. d % ByteMod = d
    <3> HIDE DEF d
    <3> QED BY <1>3, <2>2, ModNear, ZenonT(30)
  <2> QED BY <2>3 DEF DeltaBytes
<1> QED BY <1>1, <1>2, <1>6, <1>7, <1>8, Zenon DEF r

(* OnCtrl, in order: the losses it counts are those between the reports. *)
LEMMA ForwardCounts ==
  ASSUME NEW s \in Starts, Core(s), link.haveCtrl, NEW i \in 1..Len(ctrls),
         NEW long \in BOOLEAN, ForwardCtrl(i, long), orderly \in BOOLEAN,
         orderly'
  PROVE  /\ credited' \in 0..ctrls[i].bytes
         /\ inOrder =>
              /\ Un(s, base) \in s..Un(s, ctrls[i].highest)
              /\ accounted' = Cardinality(Between(lost, Un(s, base), Un(s, ctrls[i].highest)))
<1> DEFINE r == ctrls[i]
           h == Un(s, r.highest)
           g == Un(s, link.highest)
           b == Un(s, base)
           x == Cardinality(Between(lost, g, h))
<1>1. /\ Counters(s, r, Top(s), received, lost, inOrder)
      /\ Counters(s, link, Top(s), received, lost, inOrder)
      /\ Expected(r) = h - g
      /\ Received(r) = r.bytes - link.bytes
      /\ link.bytes <= r.bytes => DeltaBytes(r) = r.bytes - link.bytes
  BY Differences
<1>2. /\ s \in Nat /\ Top(s) \in Nat /\ IsFiniteSet(lost) /\ lost \subseteq Nat
      /\ received \in Nat
  BY PacketFacts, Wrapped, Zenon DEF Core, Packets, Top, Reports, Counters
<1>3. orderly /\ i >= lastCtrl
  BY ZenonT(30) DEF ForwardCtrl
<1>4. /\ g <= h /\ link.bytes <= r.bytes
  <2>1. /\ lastCtrl \in 1..Len(ctrls) /\ link.highest = ctrls[lastCtrl].highest
        /\ link.bytes = ctrls[lastCtrl].bytes
    BY ZenonT(30) DEF Core, View
  <2>2. lastCtrl <= i
    BY <1>3, <2>1, Zenon
  <2> QED BY <2>1, <2>2, Zenon DEF Core, Reports
<1>5. /\ h \in Nat /\ g \in Nat /\ r.bytes \in Nat /\ link.bytes \in Nat /\ s <= g
  BY <1>1, <1>2 DEF Counters
<1>6. credited' \in 0..r.bytes
  <2>1. credited \in 0..link.bytes
    BY <1>3 DEF Core, View
  <2>2. credited' = credited + (IF long THEN r.bytes - link.bytes ELSE 0)
    BY <1>1, <1>4, Zenon DEF ForwardCtrl
  <2> HIDE DEF r
  <2> QED BY <1>4, <1>5, <2>1, <2>2
<1>7. ASSUME inOrder
      PROVE  b \in s..h /\ accounted' = Cardinality(Between(lost, b, h))
  <2>1. /\ b \in s..g /\ b \notin lost
        /\ accounted = Cardinality(Between(lost, b, g))
    BY <1>3, <1>7, ZenonT(30) DEF Core, View
  <2>2. g \notin lost
    BY <1>1, <1>7 DEF Counters
  <2>3. x \in Nat /\ (h - g) - (r.bytes - link.bytes) = x
    <3>1. /\ r.bytes = h - Cardinality(Below(lost, h))
          /\ link.bytes = g - Cardinality(Below(lost, g))
      BY <1>1, <1>7, Zenon DEF Counters
    <3> HIDE DEF r, h, g
    <3>2. g \in Nat /\ h \in Nat /\ g <= h /\ g \notin lost
      BY <1>4, <1>5, <2>2
    <3>3. /\ Cardinality(Below(lost, g)) \in Nat
          /\ Cardinality(Between(lost, g, h)) \in Nat
          /\ Cardinality(Below(lost, h)) = Cardinality(Below(lost, g))
                                           + Cardinality(Between(lost, g, h))
      BY <1>2, <3>2, BelowSplits, Zenon
    <3> QED BY <3>1, <3>2, <3>3
  <2>4. accounted' = accounted + IF Expected(r) > 0 /\ Expected(r) > Received(r)
                                 THEN Expected(r) - Received(r) ELSE 0
    BY DEF ForwardCtrl
  <2> HIDE DEF r, h, g, x, b
  <2>5. (IF Expected(r) > 0 /\ Expected(r) > Received(r)
         THEN Expected(r) - Received(r) ELSE 0) = x
    BY <1>1, <1>4, <1>5, <2>3
  <2>6. b \in Nat /\ b <= g /\ b \in s..h
    BY <1>2, <1>4, <1>5, <2>1
  <2>7. Cardinality(Between(lost, b, h)) = Cardinality(Between(lost, b, g))
                                           + Cardinality(Between(lost, g, h))
    <3>1. /\ IsFiniteSet(lost) /\ lost \subseteq Nat /\ b \in Nat /\ g \in Nat /\ h \in Nat
          /\ b <= g /\ g <= h /\ b \notin lost /\ g \notin lost
      BY <1>2, <1>4, <1>5, <2>1, <2>2, <2>6
    <3> QED BY <3>1, BetweenJoins, ZenonT(30)
  <2> QED BY <2>1, <2>4, <2>5, <2>6, <2>7 DEF x
<1> QED BY <1>6, <1>7, Zenon

(* OnCtrl: without a loss two reports differ by as many numbers as packets. *)
LEMMA CleanVerdict ==
  ASSUME NEW s \in Starts, Core(s), link.haveCtrl, NEW i \in 1..Len(ctrls),
         lost = {}, inOrder
  PROVE  Verdict(ctrls[i]) # "lossy"
<1> DEFINE r == ctrls[i]
<1>1. /\ Counters(s, r, Top(s), received, lost, inOrder)
      /\ Counters(s, link, Top(s), received, lost, inOrder)
      /\ Expected(r) = Un(s, r.highest) - Un(s, link.highest)
      /\ Received(r) = r.bytes - link.bytes
  BY Differences, ZenonT(30)
<1>2. s \in Nat /\ Top(s) \in Nat
  BY PacketFacts, Wrapped DEF Core, Top, Reports, Counters
<1> HIDE DEF r
<1>3. \A h : Below(lost, h) = {}
  BY DEF Below
<1>4. Cardinality({}) = 0
  BY FS_EmptySet
<1>5. /\ r.bytes = Un(s, r.highest) - 0 /\ link.bytes = Un(s, link.highest) - 0
      /\ Un(s, r.highest) \in Nat /\ Un(s, link.highest) \in Nat
  <2>1. \A h : Cardinality(Below(lost, h)) = 0
    BY <1>3, <1>4
  <2>2. Un(s, r.highest) \in s..Top(s) /\ Un(s, link.highest) \in s..Top(s)
    BY <1>1 DEF Counters
  <2>3. /\ r.bytes = Un(s, r.highest) - Cardinality(Below(lost, Un(s, r.highest)))
        /\ link.bytes = Un(s, link.highest) - Cardinality(Below(lost, Un(s, link.highest)))
    BY <1>1 DEF Counters
  <2> QED BY <1>2, <2>1, <2>2, <2>3
<1>6. Expected(r) \in Int /\ Received(r) = Expected(r)
  BY <1>1, <1>5
<1>7. Expected(r) > 0 => ~Lossy(r)
  BY <1>6 DEF Lossy
<1>8. Verdict(r) # "lossy"
  BY <1>7, Zenon DEF Verdict
<1> QED BY <1>8 DEF r

(* OnCtrl *)
LEMMA OnCtrlCore ==
  ASSUME NEW s \in Starts, Core(s), NEW i \in 1..Len(ctrls), OnCtrl(i),
         orderly \in BOOLEAN, inOrder \in BOOLEAN
  PROVE  Core(s)' /\ orderly' \in BOOLEAN
<1> DEFINE r == ctrls[i]
<1>1. /\ link' = [haveCtrl |-> TRUE, highest |-> r.highest, pkts |-> r.pkts,
                  bytes |-> r.bytes]
      /\ lastCtrl' = i
      /\ UNCHANGED <<sent, flight, rx, ctrls, received, lost, inOrder, restarts>>
  BY DEF OnCtrl, Record
<1>2. Top(s)' = Top(s) /\ Packets(s)' /\ Reports(s)'
  BY <1>1, ZenonT(30) DEF Core, Packets, Reports, Top
<1>3. Counters(s, r, Top(s), received, lost, inOrder)
  BY ZenonT(30) DEF Core, Reports
<1>4. /\ s \in Nat /\ Top(s) \in Nat /\ received \in Nat
  BY PacketFacts, Wrapped, ZenonT(30) DEF Core, Packets, Top, Reports, Counters
<1>5. /\ r.highest \in 0..(SeqSpace - 1) /\ r.bytes \in Nat
      /\ Un(s, r.highest) \in Nat /\ s <= Un(s, r.highest)
      /\ inOrder => Un(s, r.highest) \notin lost
  BY <1>3, <1>4 DEF Counters
<1>6. SUFFICES /\ orderly' \in BOOLEAN
               /\ orderly' => credited' \in 0..r.bytes
               /\ (orderly' /\ inOrder) =>
                    /\ base' \in 0..(SeqSpace - 1)
                    /\ Un(s, base') \in s..Un(s, r.highest) /\ Un(s, base') \notin lost
                    /\ accounted' = Cardinality(Between(lost, Un(s, base'), Un(s, r.highest)))
               /\ (lost = {} /\ inOrder) => verdict' # "lossy"
  BY <1>1, <1>2, Zenon DEF Core, View, CleanIsNotLossy
<1>7. CASE FirstCtrl(i)
  <2>1. /\ base' = r.highest /\ verdict' = "none" /\ accounted' = 0 /\ credited' = 0
        /\ orderly' = orderly
    BY <1>7 DEF FirstCtrl, Core, View
  <2>2. Cardinality(Between(lost, Un(s, r.highest), Un(s, r.highest))) = 0
    <3>1. Between(lost, Un(s, r.highest), Un(s, r.highest)) = {}
      <4>1. lost \subseteq Nat
        BY PacketFacts DEF Core
      <4> DEFINE h == Un(s, r.highest)
      <4>2. h \in Nat
        BY <1>5
      <4> HIDE DEF h
      <4>3. ASSUME NEW n \in lost PROVE ~(h < n /\ n < h)
        BY <4>1, <4>2
      <4>4. Between(lost, h, h) = {}
        BY <4>3, Zenon DEF Between
      <4> QED BY <4>4 DEF h
    <3> QED BY <3>1, FS_EmptySet
  <2>3. Un(s, r.highest) \in s..Un(s, r.highest) /\ 0 \in 0..r.bytes
    BY <1>4, <1>5
  <2> HIDE DEF r
  <2> QED BY <1>5, <2>1, <2>2, <2>3
<1>8. CASE BackwardCtrl(i)
  BY <1>8, Zenon DEF BackwardCtrl
<1>9. ASSUME NEW long \in BOOLEAN, ForwardCtrl(i, long)
      PROVE  /\ orderly' \in BOOLEAN
             /\ orderly' => credited' \in 0..r.bytes
             /\ (orderly' /\ inOrder) =>
                  /\ base' \in 0..(SeqSpace - 1)
                  /\ Un(s, base') \in s..Un(s, r.highest) /\ Un(s, base') \notin lost
                  /\ accounted' = Cardinality(Between(lost, Un(s, base'), Un(s, r.highest)))
             /\ (lost = {} /\ inOrder) => verdict' # "lossy"
  <2>1. link.haveCtrl /\ base' = base /\ verdict' = Verdict(r) /\ (orderly' => orderly)
        /\ orderly' \in BOOLEAN
    BY <1>9 DEF ForwardCtrl
  <2>2. (lost = {} /\ inOrder) => verdict' # "lossy"
    BY <2>1, CleanVerdict
  <2>3. orderly' =>
         /\ credited' \in 0..r.bytes
         /\ inOrder =>
              /\ Un(s, base) \in s..Un(s, r.highest)
              /\ accounted' = Cardinality(Between(lost, Un(s, base), Un(s, r.highest)))
    BY <1>9, <2>1, ForwardCounts
  <2>4. (orderly' /\ inOrder) => base \in 0..(SeqSpace - 1) /\ Un(s, base) \notin lost
    BY <2>1 DEF Core, View
  <2> HIDE DEF r
  <2> QED BY <2>1, <2>2, <2>3, <2>4
<1> QED BY <1>7, <1>8, <1>9 DEF OnCtrl

(* Every step keeps the invariant. *)
LEMMA NextInv == IInv /\ [Next]_vars => IInv'
<1> SUFFICES ASSUME IInv, [Next]_vars PROVE IInv'
  OBVIOUS
<1> DEFINE S == [highest : Nat, pkts : Nat, bytes : Nat]
           R == [started : BOOLEAN, highest : Nat, pkts : Nat, bytes : Nat]
<1>1. /\ restarts \in Nat /\ sent \in Nat /\ flight \subseteq Nat /\ rx \in R
      /\ ctrls \in Seq(S) /\ inOrder \in BOOLEAN /\ orderly \in BOOLEAN
  BY DEF IInv
<1>2. ASSUME restarts = 0 PROVE \E s \in Starts : Core(s)
  BY <1>2 DEF IInv
<1>3. CASE SendData
  <2>1. /\ UNCHANGED <<restarts, rx, ctrls, inOrder, orderly>>
        /\ sent' \in Nat /\ flight' \subseteq Nat
    BY <1>1, <1>3 DEF SendData
  <2> QED BY <1>1, <1>2, <1>3, <2>1, SendCore DEF IInv
<1>4. CASE Report
  <2>1. /\ UNCHANGED <<restarts, sent, flight, inOrder, orderly, rx>>
        /\ ctrls' = Append(ctrls, [highest |-> rx.highest, pkts |-> rx.pkts, bytes |-> rx.bytes])
    BY <1>4 DEF Report
  <2>2. ctrls' \in Seq(S)
    BY <1>1, <2>1
  <2> QED BY <1>1, <1>2, <1>4, <2>1, <2>2, ReportCore DEF IInv
<1>5. CASE Restart
  <2>1. restarts' = restarts + 1 /\ UNCHANGED <<sent, flight, ctrls, inOrder, orderly>>
    BY <1>5 DEF Restart
  <2>2. rx' \in R
    BY <1>5 DEF Restart
  <2> QED BY <1>1, <2>1, <2>2 DEF IInv
<1>6. ASSUME NEW n \in flight, LoseData(n) PROVE IInv'
  <2>1. UNCHANGED <<restarts, sent, rx, ctrls, inOrder, orderly>> /\ flight' \subseteq Nat
    BY <1>1, <1>6 DEF LoseData
  <2> QED BY <1>1, <1>2, <1>6, <2>1, LoseCore DEF IInv
<1>7. ASSUME NEW n \in flight, OnData(n) PROVE IInv'
  <2>1. /\ UNCHANGED <<restarts, sent, ctrls, orderly>> /\ inOrder' \in BOOLEAN
        /\ flight' \subseteq Nat
    BY <1>1, <1>7 DEF OnData
  <2>2. rx' \in R
    <3>1. SeqSpace \in Nat \ {0} /\ ByteMod \in Nat \ {0} /\ n \in Nat
      BY <1>1, FeedbackAssumption
    <3> DEFINE p == rx.pkts + 1
               b == rx.bytes + 1
    <3>2. p \in Int /\ b \in Int
      BY <1>1
    <3>3. n % SeqSpace \in Nat /\ p % SeqSpace \in Nat /\ b % ByteMod \in Nat
      <4> HIDE DEF p, b
      <4> QED BY <3>1, <3>2, ModSpec
    <3> QED BY <1>1, <1>7, <3>3 DEF OnData
  <2> QED BY <1>1, <1>2, <1>7, <2>1, <2>2, OnDataCore, Zenon DEF IInv
<1>8. ASSUME NEW i \in DOMAIN ctrls, OnCtrl(i) PROVE IInv'
  <2>1. UNCHANGED <<restarts, sent, flight, rx, ctrls, inOrder>> /\ i \in 1..Len(ctrls)
    BY <1>1, <1>8 DEF OnCtrl
  <2>2. orderly' \in BOOLEAN
    BY <1>1, <1>8, Zenon DEF OnCtrl, FirstCtrl, BackwardCtrl, ForwardCtrl
  <2> QED BY <1>1, <1>2, <1>8, <2>1, <2>2, OnCtrlCore DEF IInv
<1>9. CASE UNCHANGED vars
  BY <1>1, <1>2, <1>9, ZenonT(30) DEF vars, IInv, Core, Packets, Reports, View, Top, CleanIsNotLossy
<1> QED BY <1>3, <1>4, <1>5, <1>6, <1>7, <1>8, <1>9 DEF Next

(* The counters of the two ends correspond as long as the receiver does    *)
(* not start over.                                                         *)
LEMMA CountersCorrespond == Spec => []IInv
<1> QED BY InitCore, NextInv, PTL DEF Spec

(* CleanIsNotLossy: for any number of reports, lost, repeated, late or out *)
(* of order, OnCtrl never takes a path that lost nothing for lossy.        *)
THEOREM CleanStaysClean == Spec => []CleanIsNotLossy
<1>1. IInv => CleanIsNotLossy
  BY DEF IInv, Core, CleanIsNotLossy
<1> QED BY <1>1, CountersCorrespond, PTL

(* BytesCreditedOnce: OnCtrl credits no byte twice while the reports are   *)
(* applied in order.                                                       *)
THEOREM CreditIsReceived == Spec => []BytesCreditedOnce
<1>1. ASSUME IInv, orderly, restarts = 0
      PROVE  credited <= received
  <2>1. PICK s \in Starts : Core(s)
    BY <1>1 DEF IInv
  <2>2. received \in Nat
    BY <2>1 DEF Core, Packets
  <2>3. CASE link.haveCtrl
    <3>1. /\ lastCtrl \in 1..Len(ctrls) /\ link.bytes = ctrls[lastCtrl].bytes
          /\ credited \in 0..link.bytes
      BY <1>1, <2>1, <2>3, ZenonT(30) DEF Core, View
    <3>2. ctrls[lastCtrl].bytes \in s..received /\ s \in Nat
      BY <2>1, <3>1, FeedbackAssumption, Zenon DEF Core, Reports, Counters
    <3> QED BY <2>2, <3>1, <3>2
  <2>4. CASE ~link.haveCtrl
    <3>1. View(s)
      BY <2>1 DEF Core
    <3>2. credited = 0
      BY <2>4, <3>1, Zenon DEF View
    <3> QED BY <2>2, <3>2
  <2> QED BY <2>3, <2>4
<1>2. IInv => BytesCreditedOnce
  BY <1>1 DEF BytesCreditedOnce
<1> QED BY <1>2, CountersCorrespond, PTL

(* LossCountedOnce: what OnCtrl counts as lost is exactly what was lost    *)
(* between the first and the last report, across wrap-around.              *)
THEOREM LossIsCounted == Spec => []LossCountedOnce
<1>1. ASSUME IInv, link.haveCtrl, orderly, inOrder, restarts = 0
      PROVE  accounted = Cardinality({n \in lost : /\ Signed(n - base, SeqSpace) > 0
                                                   /\ Signed(n - link.highest, SeqSpace) < 0})
  <2>1. PICK s \in Starts : Core(s)
    BY <1>1 DEF IInv
  <2>2. /\ s \in Nat /\ MaxSent \in Nat /\ sent \in s..(s + MaxSent)
        /\ lost \subseteq (s + 1)..sent /\ Top(s) <= sent
    BY <2>1, FeedbackAssumption, Zenon DEF Core, Packets
  <2>3. /\ lastCtrl \in 1..Len(ctrls) /\ link.highest = ctrls[lastCtrl].highest
        /\ base \in 0..(SeqSpace - 1) /\ Un(s, base) \in s..Un(s, link.highest)
        /\ accounted = Cardinality(Between(lost, Un(s, base), Un(s, link.highest)))
    BY <1>1, <2>1 DEF Core, View
  <2>4. link.highest \in 0..(SeqSpace - 1) /\ Un(s, link.highest) \in s..Top(s)
    BY <2>1, <2>3, ZenonT(30) DEF Core, Reports, Counters
  <2>5. Top(s) \in Nat
    BY <2>1, Wrapped DEF Core, Reports, Counters, Top
  <2>6. Un(s, link.highest) \in s..(s + MaxSent) /\ Un(s, base) \in s..(s + MaxSent)
    <3> DEFINE t == Top(s)
               h == Un(s, link.highest)
               b == Un(s, base)
    <3>1. t \in Nat /\ t <= sent /\ h \in s..t /\ b \in s..h
      BY <2>2, <2>3, <2>4, <2>5, Zenon
    <3> HIDE DEF t, h, b
    <3>2. h \in s..(s + MaxSent) /\ b \in s..(s + MaxSent)
      BY <2>2, <3>1
    <3> QED BY <3>2 DEF h, b
  <2>7. ASSUME NEW n \in lost
        PROVE  /\ Signed(n - base, SeqSpace) > 0 <=> Un(s, base) < n
               /\ Signed(n - link.highest, SeqSpace) < 0 <=> n < Un(s, link.highest)
    <3>1. n \in s..(s + MaxSent)
      BY <2>2
    <3>2. /\ Signed(n - base, SeqSpace) = n - Un(s, base)
          /\ Signed(n - link.highest, SeqSpace) = n - Un(s, link.highest)
      BY <2>3, <2>4, <2>6, <3>1, SignedNumber, Zenon
    <3> QED BY <2>2, <2>6, <3>1, <3>2
  <2>8. Between(lost, Un(s, base), Un(s, link.highest))
          = {n \in lost : /\ Signed(n - base, SeqSpace) > 0
                          /\ Signed(n - link.highest, SeqSpace) < 0}
    BY <2>7 DEF Between
  <2> QED BY <2>3, <2>8, Zenon
<1>2. IInv => LossCountedOnce
  BY <1>1 DEF LossCountedOnce
<1> QED BY <1>2, CountersCorrespond, PTL

----------------------------------------------------------------------------
(* Delivery.                                                               *)

(* The kinds of places.  (The pool may have a slab only once.) *)
InPool(s) == pool[s] = 1
InHand(s) == \E r \in Readers : held[r] = s
InQueue(s) == \E c \in DOMAIN chans : Has(chans[c].q, s)
InWireGuard(s) == \E c \in 1..MaxOpens : wg[c] = s

(* No slab is twice in places of one kind, *)
PoolOnce == \A s \in Slabs : pool[s] <= 1
HandOnce == \A r, q \in Readers : held[r] # None /\ held[r] = held[q] => r = q
QueueOnce ==
  /\ \A c \in DOMAIN chans : NoRepeat(chans[c].q)
  /\ \A c, d \in DOMAIN chans, s \in Slabs :
       Has(chans[c].q, s) /\ Has(chans[d].q, s) => c = d
WireGuardOnce == \A c, d \in 1..MaxOpens : wg[c] # None /\ wg[c] = wg[d] => c = d

(* and every slab is in places of exactly one kind. *)
OneKind ==
  \A s \in Slabs :
    \/ /\ InPool(s) /\ ~InHand(s) /\ s \notin ring
       /\ s \notin leaving /\ ~InQueue(s) /\ ~InWireGuard(s)
    \/ /\ ~InPool(s) /\ InHand(s) /\ s \notin ring
       /\ s \notin leaving /\ ~InQueue(s) /\ ~InWireGuard(s)
    \/ /\ ~InPool(s) /\ ~InHand(s) /\ s \in ring
       /\ s \notin leaving /\ ~InQueue(s) /\ ~InWireGuard(s)
    \/ /\ ~InPool(s) /\ ~InHand(s) /\ s \notin ring
       /\ s \in leaving /\ ~InQueue(s) /\ ~InWireGuard(s)
    \/ /\ ~InPool(s) /\ ~InHand(s) /\ s \notin ring
       /\ s \notin leaving /\ InQueue(s) /\ ~InWireGuard(s)
    \/ /\ ~InPool(s) /\ ~InHand(s) /\ s \notin ring
       /\ s \notin leaving /\ ~InQueue(s) /\ InWireGuard(s)

(* The inductive invariant. *)
DeliveryInv == DeliveryTypeOK /\ PoolOnce /\ HandOnce /\ QueueOnce /\ WireGuardOnce /\ OneKind

----------------------------------------------------------------------------
(* The places, one kind at a time. *)

(* Packet.Release of a slab that is not in the pool. *)
LEMMA PutInPool ==
  ASSUME DeliveryTypeOK, PoolOnce, NEW t \in Slabs, ~InPool(t), pool' = Put(pool, t)
  PROVE  /\ pool' \in [Slabs -> Nat] /\ PoolOnce'
         /\ \A s \in Slabs : InPool(s)' <=> InPool(s) \/ s = t
<1>1. pool \in [Slabs -> Nat] /\ pool[t] = 0
  BY DEF DeliveryTypeOK, PoolOnce, InPool
<1>2. pool' = [pool EXCEPT ![t] = 1]
  BY <1>1 DEF Put
<1> QED BY <1>1, <1>2 DEF PoolOnce, InPool

(* buffers.Get *)
LEMMA GetFromPool ==
  ASSUME DeliveryTypeOK, PoolOnce, NEW t \in Slabs, pool[t] > 0
  PROVE  InPool(t) /\ [pool EXCEPT ![t] = @ - 1] = [pool EXCEPT ![t] = 0]
<1>1. pool \in [Slabs -> Nat] /\ pool[t] = 1
  BY DEF DeliveryTypeOK, PoolOnce
<1> QED BY <1>1 DEF InPool

(* A reader is done with its slab. *)
LEMMA LetGo ==
  ASSUME DeliveryTypeOK, HandOnce, NEW r \in Readers, held[r] # None, held' = [held EXCEPT ![r] = None]
  PROVE  /\ held[r] \in Slabs /\ InHand(held[r])
         /\ held' \in [Readers -> Slabs \union {None}] /\ HandOnce'
         /\ \A s \in Slabs : InHand(s)' <=> InHand(s) /\ s # held[r]
<1>1. held \in [Readers -> Slabs \union {None}] /\ None \notin Slabs
  BY DeliveryAssumption DEF DeliveryTypeOK
<1>2. held'[r] = None /\ \A q \in Readers \ {r} : held'[q] = held[q]
  BY <1>1
<1>3. HandOnce'
  BY <1>2 DEF HandOnce
<1>4. \A s \in Slabs : InHand(s)' <=> InHand(s) /\ s # held[r]
  BY <1>1, <1>2 DEF InHand, HandOnce
<1> QED BY <1>1, <1>3, <1>4 DEF InHand

----------------------------------------------------------------------------
(* The queues. *)

(* What the type of the channels says of one of them. *)
LEMMA ChannelType ==
  ASSUME DeliveryTypeOK, NEW c \in DOMAIN chans
  PROVE  /\ chans[c] \in Channel /\ chans[c].q \in Seq(Slabs) /\ chans[c].open \in BOOLEAN
         /\ Len(chans[c].q) \in Nat /\ Len(chans[c].q) <= QueueLen
<1>1. chans \in Seq(Channel) /\ Len(chans[c].q) <= QueueLen
  BY DEF DeliveryTypeOK
<1>2. chans[c] \in Channel
  BY <1>1
<1> QED BY <1>1, <1>2 DEF Channel

(* The queue of channel c becomes x. *)
LEMMA QueueBecomes ==
  ASSUME DeliveryTypeOK, NEW c \in DOMAIN chans, NEW x \in Seq(Slabs), Len(x) <= QueueLen,
         chans' = [chans EXCEPT ![c].q = x]
  PROVE  /\ chans' \in Seq(Channel)
         /\ Len(chans') = Len(chans) /\ DOMAIN chans' = DOMAIN chans
         /\ chans'[c].q = x /\ chans'[c].open = chans[c].open
         /\ \A d \in DOMAIN chans \ {c} : chans'[d] = chans[d]
         /\ \A d \in DOMAIN chans' : Len(chans'[d].q) <= QueueLen
<1>1. /\ chans \in Seq(Channel) /\ chans[c] \in Channel
      /\ [chans[c] EXCEPT !.q = x] \in Channel
  BY ChannelType, Zenon DEF DeliveryTypeOK, Channel
<1>2. [chans[c] EXCEPT !.q = x].q = x /\ [chans[c] EXCEPT !.q = x].open = chans[c].open
  BY <1>1 DEF Channel
<1>3. chans' = [chans EXCEPT ![c] = [chans[c] EXCEPT !.q = x]]
  OBVIOUS
<1>4. /\ chans' \in Seq(Channel)
      /\ Len(chans') = Len(chans) /\ DOMAIN chans' = DOMAIN chans
      /\ chans'[c] = [chans[c] EXCEPT !.q = x]
      /\ \A d \in DOMAIN chans \ {c} : chans'[d] = chans[d]
  BY <1>1, <1>3
<1> QED BY <1>2, <1>4, Zenon DEF DeliveryTypeOK

(* Deliver, for a slab that is neither in the pool nor in a queue. *)
LEMMA DeliverMoves ==
  ASSUME DeliveryTypeOK, PoolOnce, QueueOnce, NEW t \in Slabs, ~InPool(t), ~InQueue(t), Deliver(t)
  PROVE  /\ pool' \in [Slabs -> Nat] /\ PoolOnce' /\ QueueOnce'
         /\ chans' \in Seq(Channel)
         /\ Len(chans') = Len(chans) /\ DOMAIN chans' = DOMAIN chans
         /\ \A d \in DOMAIN chans' : Len(chans'[d].q) <= QueueLen
         /\ \/ \A s \in Slabs : (InPool(s)' <=> InPool(s)) /\ (InQueue(s)' <=> InQueue(s) \/ s = t)
            \/ \A s \in Slabs : (InPool(s)' <=> InPool(s) \/ s = t) /\ (InQueue(s)' <=> InQueue(s))
<1>1. CASE ~(IsOpen /\ Room)
  <2>1. pool' = Put(pool, t) /\ UNCHANGED chans
    BY <1>1 DEF Deliver
  <2>2. pool' \in [Slabs -> Nat] /\ PoolOnce' /\ \A s \in Slabs : InPool(s)' <=> InPool(s) \/ s = t
    BY <2>1, PutInPool
  <2> QED BY <2>1, <2>2 DEF DeliveryTypeOK, QueueOnce, InQueue
<1>2. CASE IsOpen /\ Room
  <2> DEFINE c == Len(chans)
             x == Append(chans[c].q, t)
  <2>1. chans' = [chans EXCEPT ![c].q = x] /\ UNCHANGED pool
    BY <1>2, Zenon DEF Deliver, Enqueue
  <2>2. c \in DOMAIN chans /\ chans[c].q \in Seq(Slabs) /\ Len(chans[c].q) \in Nat
        /\ Len(chans[c].q) < QueueLen
    <3>1. c \in DOMAIN chans
      BY <1>2 DEF IsOpen, DeliveryTypeOK
    <3> QED BY <1>2, <3>1, ChannelType DEF Room
  <2>3. /\ x \in Seq(Slabs) /\ Len(x) = Len(chans[c].q) + 1
        /\ \A s : Has(x, s) <=> Has(chans[c].q, s) \/ s = t
        /\ (NoRepeat(chans[c].q) /\ ~Has(chans[c].q, t)) => NoRepeat(x)
    BY <2>2, HasAppend
  <2>4. Len(x) <= QueueLen
    BY <2>2, <2>3, DeliveryAssumption
  <2> HIDE DEF c, x
  <2>5. /\ chans' \in Seq(Channel)
        /\ Len(chans') = Len(chans) /\ DOMAIN chans' = DOMAIN chans
        /\ chans'[c].q = x
        /\ \A d \in DOMAIN chans \ {c} : chans'[d] = chans[d]
        /\ \A d \in DOMAIN chans' : Len(chans'[d].q) <= QueueLen
    BY <2>1, <2>2, <2>3, <2>4, QueueBecomes, Zenon
  <2>6. \A d \in DOMAIN chans : ~Has(chans[d].q, t)
    BY DEF InQueue
  <2>7. \A d \in DOMAIN chans, s \in Slabs :
          Has(chans'[d].q, s) <=> Has(chans[d].q, s) \/ (d = c /\ s = t)
    BY <2>3, <2>5, Zenon
  <2>8. QueueOnce'
    <3>1. \A d \in DOMAIN chans' : NoRepeat(chans'[d].q)
      BY <2>2, <2>3, <2>5, <2>6, Zenon DEF QueueOnce
    <3> QED BY <2>5, <2>6, <2>7, <3>1, ZenonT(30) DEF QueueOnce
  <2>9. \A s \in Slabs : InQueue(s)' <=> InQueue(s) \/ s = t
    BY <2>2, <2>5, <2>7 DEF InQueue
  <2>10. pool' \in [Slabs -> Nat] /\ PoolOnce' /\ \A s \in Slabs : InPool(s)' <=> InPool(s)
    BY <2>1 DEF DeliveryTypeOK, PoolOnce, InPool
  <2> QED BY <2>5, <2>8, <2>9, <2>10, Zenon
<1> QED BY <1>1, <1>2, ZenonT(30)

(* The receive function of channel c takes the first slab. *)
LEMMA RecvMoves ==
  ASSUME DeliveryTypeOK, QueueOnce, NEW c \in DOMAIN chans, chans[c].q # <<>>,
         NEW t, t = Head(chans[c].q), chans' = [chans EXCEPT ![c].q = Tail(@)]
  PROVE  /\ t \in Slabs /\ InQueue(t) /\ QueueOnce'
         /\ chans' \in Seq(Channel)
         /\ Len(chans') = Len(chans) /\ DOMAIN chans' = DOMAIN chans
         /\ \A d \in DOMAIN chans' : Len(chans'[d].q) <= QueueLen
         /\ \A s \in Slabs : InQueue(s)' <=> InQueue(s) /\ s # t
<1> DEFINE x == Tail(chans[c].q)
<1>1. chans[c].q \in Seq(Slabs) /\ Len(chans[c].q) <= QueueLen
  BY ChannelType
<1>2. /\ t \in Slabs /\ x \in Seq(Slabs) /\ Has(chans[c].q, t)
      /\ \A s : Has(x, s) => Has(chans[c].q, s)
      /\ \A s : Has(chans[c].q, s) => Has(x, s) \/ s = t
      /\ NoRepeat(chans[c].q) => NoRepeat(x) /\ ~Has(x, t)
  BY <1>1, HasTail
<1>3. Len(x) <= QueueLen
  BY <1>1, DeliveryAssumption
<1>4. chans' = [chans EXCEPT ![c].q = x]
  OBVIOUS
<1> HIDE DEF x
<1>5. /\ chans' \in Seq(Channel)
      /\ Len(chans') = Len(chans) /\ DOMAIN chans' = DOMAIN chans
      /\ chans'[c].q = x
      /\ \A d \in DOMAIN chans \ {c} : chans'[d] = chans[d]
      /\ \A d \in DOMAIN chans' : Len(chans'[d].q) <= QueueLen
  BY <1>2, <1>3, <1>4, QueueBecomes, Zenon
<1>6. NoRepeat(x) /\ ~Has(x, t)
  BY <1>2 DEF QueueOnce
<1>7. \A d \in DOMAIN chans \ {c} : ~Has(chans[d].q, t)
  BY <1>2 DEF QueueOnce
<1>8. \A d \in DOMAIN chans, s \in Slabs :
        Has(chans'[d].q, s) <=> Has(chans[d].q, s) /\ s # t
  BY <1>2, <1>5, <1>6, <1>7, Zenon
<1>9. QueueOnce'
  <2>1. \A d \in DOMAIN chans' : NoRepeat(chans'[d].q)
    BY <1>5, <1>6, Zenon DEF QueueOnce
  <2> QED BY <1>5, <1>8, <2>1 DEF QueueOnce
<1>10. \A s \in Slabs : InQueue(s)' <=> InQueue(s) /\ s # t
  BY <1>5, <1>8 DEF InQueue
<1> QED BY <1>2, <1>5, <1>9, <1>10 DEF InQueue

----------------------------------------------------------------------------
(* The initial state, and one lemma for each step. *)

(* The invariant holds before anything is read. *)
LEMMA InitDeliveryInv == DeliveryInit => DeliveryInv
<1> SUFFICES ASSUME DeliveryInit PROVE DeliveryInv
  OBVIOUS
<1>1. None \notin Slabs /\ MaxOpens \in Nat
  BY DeliveryAssumption
<1>2. chans = <<>> /\ chans \in Seq(Channel) /\ Len(chans) = 0 /\ DOMAIN chans = {}
  BY DEF DeliveryInit
<1>3. DeliveryTypeOK
  <2>1. pool \in [Slabs -> Nat] /\ held \in [Readers -> Slabs \union {None}]
        /\ wg \in [1..MaxOpens -> Slabs \union {None}]
    BY DEF DeliveryInit
  <2>2. ring \subseteq Slabs /\ leaving \subseteq Slabs /\ gone \subseteq DOMAIN chans /\ down \in BOOLEAN
    BY ZenonT(30) DEF DeliveryInit
  <2> QED BY <1>1, <1>2, <2>1, <2>2 DEF DeliveryTypeOK
<1>4. PoolOnce /\ HandOnce /\ WireGuardOnce /\ QueueOnce
  BY <1>2 DEF DeliveryInit, PoolOnce, HandOnce, WireGuardOnce, QueueOnce
<1>5. OneKind
  BY <1>1, <1>2, ZenonT(30) DEF DeliveryInit, OneKind, InPool, InHand, InQueue, InWireGuard
<1> QED BY <1>3, <1>4, <1>5 DEF DeliveryInv

(* Open makes an empty channel. *)
LEMMA OpenKeeps == ASSUME DeliveryInv, Open PROVE DeliveryInv'
<1> DEFINE new == [q |-> <<>>, open |-> TRUE]
           n == Len(chans)
<1>1. chans' = Append(chans, new) /\ UNCHANGED <<pool, held, ring, leaving, wg, gone, down>>
      /\ n < MaxOpens
  BY DEF Open
<1>2. new \in Channel /\ new.q = <<>> /\ chans \in Seq(Channel) /\ Len(new.q) = 0
  BY DEF Channel, DeliveryInv, DeliveryTypeOK
<1> HIDE DEF new
<1>3. /\ chans' \in Seq(Channel) /\ Len(chans') = n + 1 /\ n \in Nat
      /\ DOMAIN chans' = 1..(n + 1) /\ DOMAIN chans = 1..n
      /\ chans'[n + 1] = new /\ \A c \in 1..n : chans'[c] = chans[c]
  BY <1>1, <1>2
<1>4. \A s : ~Has(new.q, s)
  BY <1>2 DEF Has
<1>5. NoRepeat(new.q)
  BY <1>2 DEF NoRepeat
<1> HIDE DEF n
<1>6. DeliveryTypeOK'
  <2>1. MaxOpens \in Nat /\ QueueLen \in Nat
    BY DeliveryAssumption
  <2>2. Len(chans') <= MaxOpens
    BY <1>1, <1>3, <2>1
  <2>3. \A c \in DOMAIN chans' : Len(chans'[c].q) <= QueueLen
    <3>1. \A c \in DOMAIN chans : Len(chans[c].q) <= QueueLen
      BY Zenon DEF DeliveryInv, DeliveryTypeOK
    <3>2. Len(new.q) <= QueueLen
      BY <1>2, <2>1
    <3>3. \A c \in DOMAIN chans' : c = n + 1 \/ c \in DOMAIN chans
      BY <1>3
    <3> QED BY <1>3, <3>1, <3>2, <3>3, Zenon
  <2>4. gone' \subseteq DOMAIN chans'
    <3>1. gone' = gone /\ gone \subseteq DOMAIN chans
      BY <1>1, Zenon DEF DeliveryInv, DeliveryTypeOK
    <3>2. DOMAIN chans \subseteq DOMAIN chans'
      BY <1>3
    <3> QED BY <3>1, <3>2, Zenon
  <2> QED BY <1>1, <1>3, <2>2, <2>3, <2>4 DEF DeliveryInv, DeliveryTypeOK
<1>7. \A c \in DOMAIN chans', s \in Slabs :
        Has(chans'[c].q, s) => c \in DOMAIN chans /\ Has(chans[c].q, s)
  <2>1. \A c \in DOMAIN chans' : c = n + 1 \/ c \in DOMAIN chans
    BY <1>3
  <2>2. \A c \in DOMAIN chans : chans'[c] = chans[c]
    BY <1>3, Zenon
  <2> QED BY <1>3, <1>4, <2>1, <2>2, Zenon
<1>8. QueueOnce'
  <2>1. \A c \in DOMAIN chans' : NoRepeat(chans'[c].q)
    BY <1>3, <1>5 DEF DeliveryInv, QueueOnce
  <2> QED BY <1>7, <2>1, Zenon DEF DeliveryInv, QueueOnce
<1>9. \A s \in Slabs : InQueue(s)' <=> InQueue(s)
  BY <1>3, <1>7 DEF InQueue
<1>10. OneKind'
  BY <1>1, <1>9, ZenonT(30) DEF DeliveryInv, OneKind, InPool, InHand, InWireGuard
<1> QED BY <1>1, <1>6, <1>8, <1>10, Zenon DEF DeliveryInv, PoolOnce, HandOnce, WireGuardOnce

(* Close of the bind moves no slab. *)
LEMMA CloseBindKeeps == ASSUME DeliveryInv, CloseBind PROVE DeliveryInv'
<1> DEFINE n == Len(chans)
<1>1. chans' = [chans EXCEPT ![n].open = FALSE] /\ UNCHANGED <<pool, held, ring, leaving, wg, gone, down>>
  BY DEF CloseBind
<1>2. n \in DOMAIN chans /\ chans \in Seq(Channel)
  BY DEF CloseBind, IsOpen, DeliveryInv, DeliveryTypeOK
<1>3. chans[n] \in Channel
  BY <1>2
<1> DEFINE shut == [chans[n] EXCEPT !.open = FALSE]
<1>4. shut \in Channel /\ shut.q = chans[n].q
  BY <1>3, Zenon DEF Channel
<1>5. chans' = [chans EXCEPT ![n] = shut]
  BY <1>1
<1> HIDE DEF shut, n
<1>6. /\ chans' \in Seq(Channel) /\ Len(chans') = Len(chans) /\ DOMAIN chans' = DOMAIN chans
      /\ chans'[n] = shut /\ \A c \in DOMAIN chans \ {n} : chans'[c] = chans[c]
  BY <1>2, <1>4, <1>5
<1>7. \A c \in DOMAIN chans : chans'[c].q = chans[c].q
  BY <1>4, <1>6
<1>8. DeliveryTypeOK'
  BY <1>1, <1>6, <1>7 DEF DeliveryInv, DeliveryTypeOK
<1>9. QueueOnce'
  BY <1>6, <1>7, Zenon DEF DeliveryInv, QueueOnce
<1>10. OneKind'
  BY <1>1, <1>6, <1>7 DEF DeliveryInv, OneKind, InPool, InHand, InQueue, InWireGuard
<1> QED BY <1>1, <1>8, <1>9, <1>10 DEF DeliveryInv, PoolOnce, HandOnce, WireGuardOnce

(* The receive function takes the slab at the head of its queue. *)
LEMMA RecvKeeps == ASSUME DeliveryInv, NEW c \in DOMAIN chans, Recv(c) PROVE DeliveryInv'
<1> DEFINE t == Head(chans[c].q)
<1>1. /\ wg[c] = None /\ chans[c].q # <<>> /\ wg' = [wg EXCEPT ![c] = t]
      /\ chans' = [chans EXCEPT ![c].q = Tail(@)] /\ UNCHANGED <<pool, held, ring, leaving, gone, down>>
  BY DEF Recv
<1>2. /\ t \in Slabs /\ InQueue(t) /\ QueueOnce'
      /\ chans' \in Seq(Channel)
      /\ Len(chans') = Len(chans) /\ DOMAIN chans' = DOMAIN chans
      /\ \A d \in DOMAIN chans' : Len(chans'[d].q) <= QueueLen
      /\ \A s \in Slabs : InQueue(s)' <=> InQueue(s) /\ s # t
  BY <1>1, RecvMoves, Zenon DEF DeliveryInv
<1> HIDE DEF t
<1>3. c \in 1..MaxOpens /\ wg \in [1..MaxOpens -> Slabs \union {None}] /\ None \notin Slabs
  BY DeliveryAssumption DEF DeliveryInv, DeliveryTypeOK
<1>4. wg'[c] = t /\ \A d \in (1..MaxOpens) \ {c} : wg'[d] = wg[d]
  BY <1>1, <1>3
<1>5. wg' \in [1..MaxOpens -> Slabs \union {None}]
  BY <1>1, <1>2, <1>3
<1>6. DeliveryTypeOK'
  BY <1>1, <1>2, <1>5 DEF DeliveryInv, DeliveryTypeOK
<1>7. ~InWireGuard(t)
  BY <1>2, Zenon DEF DeliveryInv, OneKind
<1>8. WireGuardOnce'
  BY <1>4, <1>7 DEF DeliveryInv, WireGuardOnce, InWireGuard
<1>9. \A s \in Slabs : InWireGuard(s)' <=> InWireGuard(s) \/ s = t
  BY <1>1, <1>3, <1>4 DEF InWireGuard
<1>10. \A s \in Slabs : (InPool(s)' <=> InPool(s)) /\ (InHand(s)' <=> InHand(s))
  BY <1>1 DEF InPool, InHand
<1>11. OneKind'
  BY <1>1, <1>2, <1>9, <1>10, Zenon DEF DeliveryInv, OneKind
<1> QED BY <1>1, <1>2, <1>6, <1>8, <1>11 DEF DeliveryInv, PoolOnce, HandOnce

(* The receive function releases the slab it has copied. *)
LEMMA ReleaseKeeps == ASSUME DeliveryInv, NEW c \in DOMAIN chans, Release(c) PROVE DeliveryInv'
<1> DEFINE t == wg[c]
<1>1. /\ t # None /\ pool' = Put(pool, t) /\ wg' = [wg EXCEPT ![c] = None]
      /\ UNCHANGED <<held, ring, leaving, chans, gone, down>>
  BY DEF Release
<1>2. c \in 1..MaxOpens /\ wg \in [1..MaxOpens -> Slabs \union {None}] /\ None \notin Slabs
  BY DeliveryAssumption DEF DeliveryInv, DeliveryTypeOK
<1>3. t \in Slabs /\ InWireGuard(t)
  BY <1>1, <1>2 DEF InWireGuard
<1>4. \A d \in (1..MaxOpens) \ {c} : wg[d] # t
  BY <1>1, <1>2 DEF DeliveryInv, WireGuardOnce
<1> HIDE DEF t
<1>5. wg'[c] = None /\ \A d \in (1..MaxOpens) \ {c} : wg'[d] = wg[d]
  BY <1>1, <1>2
<1>6. ~InPool(t)
  BY <1>3 DEF DeliveryInv, OneKind
<1>7. pool' \in [Slabs -> Nat] /\ PoolOnce' /\ \A s \in Slabs : InPool(s)' <=> InPool(s) \/ s = t
  BY <1>1, <1>3, <1>6, PutInPool DEF DeliveryInv
<1>8. wg' \in [1..MaxOpens -> Slabs \union {None}]
  BY <1>1, <1>2
<1>9. DeliveryTypeOK'
  BY <1>1, <1>7, <1>8, Zenon DEF DeliveryInv, DeliveryTypeOK
<1>10. WireGuardOnce'
  BY <1>5 DEF DeliveryInv, WireGuardOnce
<1>11. \A s \in Slabs : InWireGuard(s)' <=> InWireGuard(s) /\ s # t
  BY <1>2, <1>4, <1>5 DEF InWireGuard, t
<1>12. \A s \in Slabs : (InQueue(s)' <=> InQueue(s)) /\ (InHand(s)' <=> InHand(s))
  BY <1>1 DEF InQueue, InHand
<1>13. OneKind'
  BY <1>1, <1>3, <1>7, <1>11, <1>12, ZenonT(30) DEF DeliveryInv, OneKind
<1> QED BY <1>1, <1>7, <1>9, <1>10, <1>13 DEF DeliveryInv, HandOnce, QueueOnce

(* A step that moves no slab. *)
LEMMA PlacesKept ==
  ASSUME DeliveryInv, DeliveryTypeOK', UNCHANGED <<pool, held, ring, leaving, chans, wg>>
  PROVE  DeliveryInv'
<1>1. pool' = pool /\ held' = held /\ ring' = ring /\ leaving' = leaving /\ chans' = chans /\ wg' = wg
  BY Zenon
<1>2. PoolOnce' /\ HandOnce' /\ QueueOnce' /\ WireGuardOnce'
  BY <1>1, Zenon DEF DeliveryInv, PoolOnce, HandOnce, QueueOnce, WireGuardOnce
<1>3. \A s \in Slabs :
        /\ InPool(s)' <=> InPool(s)
        /\ InHand(s)' <=> InHand(s)
        /\ InQueue(s)' <=> InQueue(s)
        /\ InWireGuard(s)' <=> InWireGuard(s)
  BY <1>1, Zenon DEF InPool, InHand, InQueue, InWireGuard
<1>4. OneKind'
  BY <1>1, <1>3, Zenon DEF DeliveryInv, OneKind
<1> QED BY <1>2, <1>4, Zenon DEF DeliveryInv

(* A receive function that returns holds no slab. *)
LEMMA RecvClosedKeeps == ASSUME DeliveryInv, NEW c \in DOMAIN chans, RecvClosed(c) PROVE DeliveryInv'
<1>1. gone' = gone \union {c} /\ UNCHANGED <<pool, held, ring, leaving, chans, wg, down>>
  BY DEF RecvClosed
<1>2. DeliveryTypeOK'
  BY <1>1, Zenon DEF DeliveryInv, DeliveryTypeOK
<1>3. UNCHANGED <<pool, held, ring, leaving, chans, wg>>
  BY <1>1, Zenon
<1> QED BY <1>2, <1>3, PlacesKept, Zenon

(* A reader takes a slab from the pool. *)
LEMMA ReadKeeps == ASSUME DeliveryInv, NEW r \in Readers, NEW t \in Slabs, Read(r, t) PROVE DeliveryInv'
<1>1. /\ held[r] = None /\ pool[t] > 0 /\ held' = [held EXCEPT ![r] = t]
      /\ pool' = [pool EXCEPT ![t] = @ - 1]
      /\ UNCHANGED <<ring, leaving, chans, wg, gone, down>>
  BY DEF Read
<1>2. InPool(t) /\ pool' = [pool EXCEPT ![t] = 0]
  BY <1>1, GetFromPool, Zenon DEF DeliveryInv
<1>3. pool \in [Slabs -> Nat] /\ held \in [Readers -> Slabs \union {None}] /\ None \notin Slabs
  BY DeliveryAssumption DEF DeliveryInv, DeliveryTypeOK
<1>4. held'[r] = t /\ \A q \in Readers \ {r} : held'[q] = held[q]
  BY <1>1, <1>3
<1>5. pool' \in [Slabs -> Nat] /\ PoolOnce' /\ \A s \in Slabs : InPool(s)' <=> InPool(s) /\ s # t
  BY <1>2, <1>3 DEF DeliveryInv, PoolOnce, InPool
<1>6. DeliveryTypeOK'
  BY <1>1, <1>3, <1>5, Zenon DEF DeliveryInv, DeliveryTypeOK
<1>7. ~InHand(t)
  BY <1>2 DEF DeliveryInv, OneKind
<1>8. HandOnce'
  BY <1>4, <1>7 DEF DeliveryInv, HandOnce, InHand
<1>9. \A s \in Slabs : InHand(s)' <=> InHand(s) \/ s = t
  BY <1>1, <1>3, <1>4 DEF InHand
<1>10. \A s \in Slabs : (InQueue(s)' <=> InQueue(s)) /\ (InWireGuard(s)' <=> InWireGuard(s))
  BY <1>1 DEF InQueue, InWireGuard
<1>11. OneKind'
  BY <1>1, <1>2, <1>5, <1>9, <1>10, Zenon DEF DeliveryInv, OneKind
<1> QED BY <1>1, <1>5, <1>6, <1>8, <1>11 DEF DeliveryInv, QueueOnce, WireGuardOnce

(* A reader puts its slab back. *)
LEMMA DiscardKeeps == ASSUME DeliveryInv, NEW r \in Readers, Discard(r) PROVE DeliveryInv'
<1> DEFINE t == held[r]
<1>1. /\ held[r] # None /\ pool' = Put(pool, t) /\ held' = [held EXCEPT ![r] = None]
      /\ UNCHANGED <<ring, leaving, chans, wg, gone, down>>
  BY DEF Discard
<1>2. /\ t \in Slabs /\ InHand(t)
      /\ held' \in [Readers -> Slabs \union {None}] /\ HandOnce'
      /\ \A s \in Slabs : InHand(s)' <=> InHand(s) /\ s # t
  BY <1>1, LetGo, Zenon DEF DeliveryInv
<1> HIDE DEF t
<1>3. ~InPool(t)
  BY <1>2 DEF DeliveryInv, OneKind
<1>4. pool' \in [Slabs -> Nat] /\ PoolOnce' /\ \A s \in Slabs : InPool(s)' <=> InPool(s) \/ s = t
  BY <1>1, <1>2, <1>3, PutInPool, Zenon DEF DeliveryInv
<1>5. DeliveryTypeOK'
  BY <1>1, <1>2, <1>4 DEF DeliveryInv, DeliveryTypeOK
<1>6. \A s \in Slabs : (InQueue(s)' <=> InQueue(s)) /\ (InWireGuard(s)' <=> InWireGuard(s))
  BY <1>1, Zenon DEF InQueue, InWireGuard
<1>7. OneKind'
  BY <1>1, <1>2, <1>4, <1>6 DEF DeliveryInv, OneKind
<1> QED BY <1>1, <1>2, <1>4, <1>5, <1>7 DEF DeliveryInv, QueueOnce, WireGuardOnce

(* A reader delivers its slab itself. *)
LEMMA BypassKeeps == ASSUME DeliveryInv, NEW r \in Readers, Bypass(r) PROVE DeliveryInv'
<1> DEFINE t == held[r]
<1>1. /\ held[r] # None /\ Deliver(t) /\ held' = [held EXCEPT ![r] = None]
      /\ UNCHANGED <<ring, leaving, wg, gone, down>>
  BY DEF Bypass
<1>2. /\ t \in Slabs /\ InHand(t)
      /\ held' \in [Readers -> Slabs \union {None}] /\ HandOnce'
      /\ \A s \in Slabs : InHand(s)' <=> InHand(s) /\ s # t
  BY <1>1, LetGo, ZenonT(30) DEF DeliveryInv
<1> HIDE DEF t
<1>3. ~InPool(t) /\ ~InQueue(t)
  BY <1>2, Zenon DEF DeliveryInv, OneKind
<1>4. /\ pool' \in [Slabs -> Nat] /\ PoolOnce' /\ QueueOnce'
      /\ chans' \in Seq(Channel)
      /\ Len(chans') = Len(chans) /\ DOMAIN chans' = DOMAIN chans
      /\ \A d \in DOMAIN chans' : Len(chans'[d].q) <= QueueLen
      /\ \/ \A s \in Slabs : (InPool(s)' <=> InPool(s)) /\ (InQueue(s)' <=> InQueue(s) \/ s = t)
         \/ \A s \in Slabs : (InPool(s)' <=> InPool(s) \/ s = t) /\ (InQueue(s)' <=> InQueue(s))
  BY <1>1, <1>2, <1>3, DeliverMoves, Zenon DEF DeliveryInv
<1>5. DeliveryTypeOK'
  BY <1>1, <1>2, <1>4, Zenon DEF DeliveryInv, DeliveryTypeOK
<1>6. \A s \in Slabs : InWireGuard(s)' <=> InWireGuard(s)
  BY <1>1 DEF InWireGuard
<1>7. OneKind'
  BY <1>1, <1>2, <1>4, <1>6, ZenonT(30) DEF DeliveryInv, OneKind
<1> QED BY <1>1, <1>2, <1>4, <1>5, <1>7, Zenon DEF DeliveryInv, WireGuardOnce

(* A slab that left a buffer is delivered. *)
LEMMA DeliverNextKeeps == ASSUME DeliveryInv, NEW t \in Slabs, DeliverNext(t) PROVE DeliveryInv'
<1>1. /\ t \in leaving /\ Deliver(t) /\ leaving' = leaving \ {t}
      /\ UNCHANGED <<held, ring, wg, gone, down>>
  BY DEF DeliverNext
<1>2. ~InPool(t) /\ ~InQueue(t)
  BY <1>1 DEF DeliveryInv, OneKind
<1>3. /\ pool' \in [Slabs -> Nat] /\ PoolOnce' /\ QueueOnce'
      /\ chans' \in Seq(Channel)
      /\ Len(chans') = Len(chans) /\ DOMAIN chans' = DOMAIN chans
      /\ \A d \in DOMAIN chans' : Len(chans'[d].q) <= QueueLen
      /\ \/ \A s \in Slabs : (InPool(s)' <=> InPool(s)) /\ (InQueue(s)' <=> InQueue(s) \/ s = t)
         \/ \A s \in Slabs : (InPool(s)' <=> InPool(s) \/ s = t) /\ (InQueue(s)' <=> InQueue(s))
  BY <1>1, <1>2, DeliverMoves, ZenonT(30) DEF DeliveryInv
<1>4. DeliveryTypeOK'
  BY <1>1, <1>3, ZenonT(30) DEF DeliveryInv, DeliveryTypeOK
<1>5. \A s \in Slabs : (InHand(s)' <=> InHand(s)) /\ (InWireGuard(s)' <=> InWireGuard(s))
  BY <1>1 DEF InHand, InWireGuard
<1>6. OneKind'
  BY <1>1, <1>3, <1>5, ZenonT(30) DEF DeliveryInv, OneKind
<1> QED BY <1>1, <1>3, <1>4, <1>6, Zenon DEF DeliveryInv, HandOnce, WireGuardOnce

(* What the buffers let go is still in one place. *)
LEMMA PushKeeps == ASSUME DeliveryInv, NEW r \in Readers, Push(r) PROVE DeliveryInv'
<1> DEFINE t == held[r]
<1>1. held[r] # None /\ held' = [held EXCEPT ![r] = None]
  BY DEF Push
<1>2. /\ t \in Slabs /\ InHand(t)
      /\ held' \in [Readers -> Slabs \union {None}] /\ HandOnce'
      /\ \A s \in Slabs : InHand(s)' <=> InHand(s) /\ s # t
  BY <1>1, LetGo, Zenon DEF DeliveryInv, Push
<1> HIDE DEF t
<1>3. ~InPool(t)
  BY <1>2 DEF DeliveryInv, OneKind
<1>4. \A s \in Slabs : (InQueue(s)' <=> InQueue(s)) /\ (InWireGuard(s)' <=> InWireGuard(s))
  BY DEF Push, InQueue, InWireGuard
<1>5. QueueOnce' /\ WireGuardOnce'
  BY DEF Push, DeliveryInv, QueueOnce, WireGuardOnce
<1>6. CASE PushDrop(t, pool)
  <2>1. pool' \in [Slabs -> Nat] /\ PoolOnce' /\ \A s \in Slabs : InPool(s)' <=> InPool(s) \/ s = t
    BY <1>2, <1>3, <1>6, PutInPool DEF DeliveryInv, PushDrop
  <2>2. DeliveryTypeOK'
    BY <1>2, <1>6, <2>1, Zenon DEF DeliveryInv, DeliveryTypeOK, PushDrop, Push
  <2>3. OneKind'
    BY <1>2, <1>4, <1>6, <2>1 DEF DeliveryInv, OneKind, PushDrop
  <2> QED BY <1>2, <1>5, <2>1, <2>2, <2>3 DEF DeliveryInv
<1>7. CASE PushKeep(t, pool)
  <2>1. PICK out \in SUBSET (ring \union {t}) : Emit(ring \union {t}, out)
    BY <1>7 DEF PushKeep
  <2>2. pool' = pool
    BY <1>7 DEF PushKeep
  <2>3. \A s \in Slabs : InPool(s)' <=> InPool(s)
    BY <2>2, Zenon DEF InPool
  <2>4. DeliveryTypeOK'
    BY <1>2, <2>1, <2>2 DEF DeliveryInv, DeliveryTypeOK, Emit, Push
  <2>5. OneKind'
    BY <1>2, <1>4, <2>1, <2>3 DEF DeliveryInv, OneKind, Emit
  <2> QED BY <1>2, <1>5, <2>2, <2>4, <2>5 DEF DeliveryInv, PoolOnce
<1> QED BY <1>6, <1>7 DEF Push, t

(* A repaired packet comes in a slab of its own. *)
LEMMA RecoverKeeps ==
  ASSUME DeliveryInv, NEW r \in Readers, NEW t \in Slabs, Recover(r, t) PROVE DeliveryInv'
<1> DEFINE p == [pool EXCEPT ![t] = 0]
<1>1. InPool(t) /\ [pool EXCEPT ![t] = @ - 1] = p
  BY GetFromPool, Zenon DEF DeliveryInv, Recover
<1>2. PushDrop(t, p) \/ PushKeep(t, p)
  BY <1>1 DEF Recover
<1>3. UNCHANGED <<held, chans, wg, gone, down>>
  BY DEF Recover
<1>4. pool \in [Slabs -> Nat] /\ pool[t] = 1
  BY <1>1 DEF DeliveryInv, DeliveryTypeOK, InPool
<1>5. \A s \in Slabs : /\ InQueue(s)' <=> InQueue(s)
                       /\ InWireGuard(s)' <=> InWireGuard(s)
                       /\ InHand(s)' <=> InHand(s)
  BY <1>3, Zenon DEF InQueue, InWireGuard, InHand
<1>6. HandOnce' /\ QueueOnce' /\ WireGuardOnce'
  BY <1>3, Zenon DEF DeliveryInv, HandOnce, QueueOnce, WireGuardOnce
<1>7. CASE PushDrop(t, p)
  <2>1. pool' = pool
    BY <1>4, <1>7 DEF PushDrop, Put
  <2>2. UNCHANGED <<ring, leaving>>
    BY <1>7, Zenon DEF PushDrop
  <2>3. DeliveryTypeOK'
    BY <1>3, <2>1, <2>2, Zenon DEF DeliveryInv, DeliveryTypeOK
  <2>4. OneKind'
    BY <1>5, <2>1, <2>2 DEF DeliveryInv, OneKind, InPool
  <2> QED BY <1>6, <2>1, <2>3, <2>4 DEF DeliveryInv, PoolOnce
<1>8. CASE PushKeep(t, p)
  <2>1. PICK out \in SUBSET (ring \union {t}) : Emit(ring \union {t}, out)
    BY <1>8 DEF PushKeep
  <2>2. pool' = p
    BY <1>8 DEF PushKeep
  <2>3. PoolOnce' /\ \A s \in Slabs : InPool(s)' <=> InPool(s) /\ s # t
    BY <1>4, <2>2 DEF DeliveryInv, PoolOnce, InPool
  <2>4. DeliveryTypeOK'
    BY <1>3, <1>4, <2>1, <2>2 DEF DeliveryInv, DeliveryTypeOK, Emit
  <2>5. OneKind'
    BY <1>1, <1>5, <2>1, <2>3, Zenon DEF DeliveryInv, OneKind, Emit
  <2> QED BY <1>6, <2>3, <2>4, <2>5 DEF DeliveryInv
<1> QED BY <1>2, <1>7, <1>8

(* The gap timer and the flush of Close. *)
LEMMA EmitKeeps ==
  ASSUME DeliveryInv, NEW out \in SUBSET ring, Emit(ring, out), UNCHANGED <<pool, held, chans, wg, gone>>,
         down' \in BOOLEAN
  PROVE  DeliveryInv'
<1>1. DeliveryTypeOK'
  BY Zenon DEF DeliveryInv, DeliveryTypeOK, Emit
<1>2. \A s \in Slabs : /\ InPool(s)' <=> InPool(s)
                       /\ InHand(s)' <=> InHand(s)
                       /\ InQueue(s)' <=> InQueue(s)
                       /\ InWireGuard(s)' <=> InWireGuard(s)
  BY DEF InPool, InHand, InQueue, InWireGuard
<1>3. OneKind'
  BY <1>2, ZenonT(30) DEF DeliveryInv, OneKind, Emit
<1> QED BY <1>1, <1>3, ZenonT(30) DEF DeliveryInv, PoolOnce, HandOnce, QueueOnce, WireGuardOnce

(* Every step keeps the invariant. *)
LEMMA NextDeliveryInv == DeliveryInv /\ [DeliveryNext]_deliveryVars => DeliveryInv'
<1> SUFFICES ASSUME DeliveryInv, [DeliveryNext]_deliveryVars PROVE DeliveryInv'
  OBVIOUS
<1>1. ASSUME NEW s \in Slabs, Timer(s) PROVE DeliveryInv'
  BY <1>1, EmitKeeps, Zenon DEF Timer, DeliveryInv, DeliveryTypeOK
<1>2. CASE CloseEngine
  BY <1>2, EmitKeeps, Zenon DEF CloseEngine
<1>3. CASE UNCHANGED deliveryVars
  <2>1. DeliveryTypeOK'
    BY <1>3, Zenon DEF deliveryVars, DeliveryInv, DeliveryTypeOK
  <2>2. UNCHANGED <<pool, held, ring, leaving, chans, wg>>
    BY <1>3, Zenon DEF deliveryVars
  <2> QED BY <2>1, <2>2, PlacesKept, Zenon
<1> QED BY <1>1, <1>2, <1>3, OpenKeeps, CloseBindKeeps, RecvKeeps, ReleaseKeeps, RecvClosedKeeps, ReadKeeps,
           DiscardKeeps, BypassKeeps, DeliverNextKeeps, PushKeeps, RecoverKeeps DEF DeliveryNext

----------------------------------------------------------------------------
(* From kinds of places to places. *)

(* The places of a slab in the queues, by queue. *)
LEMMA QueuedIsInQueue ==
  ASSUME DeliveryInv, NEW s \in Slabs
  PROVE  /\ ~InQueue(s) => Queued(s) = {}
         /\ InQueue(s) => \E x : Queued(s) = {x}
<1>1. DOMAIN chans = 1..Len(chans) /\ chans \in Seq(Channel)
  BY DEF DeliveryInv, DeliveryTypeOK
<1>2. ASSUME NEW c \in DOMAIN chans
      PROVE  /\ Len(chans[c].q) \in Nat /\ Len(chans[c].q) <= QueueLen
             /\ DOMAIN chans[c].q = 1..Len(chans[c].q)
  BY ChannelType DEF DeliveryInv
<1>3. ASSUME NEW x \in Queued(s)
      PROVE  /\ x[1] \in DOMAIN chans /\ x[2] \in 1..Len(chans[x[1]].q)
             /\ chans[x[1]].q[x[2]] = s /\ x = <<x[1], x[2]>>
  <2>1. /\ x \in (1..Len(chans)) \X (1..QueueLen)
        /\ x[2] <= Len(chans[x[1]].q) /\ chans[x[1]].q[x[2]] = s
    BY Zenon DEF Queued
  <2>2. \A m, n : x \in (1..m) \X (1..n) =>
          x[1] \in 1..m /\ x[2] \in 1..n /\ x = <<x[1], x[2]>>
    OBVIOUS
  <2>3. x[1] \in DOMAIN chans /\ x[2] \in 1..QueueLen /\ x = <<x[1], x[2]>>
    BY <1>1, <2>1, <2>2, Zenon
  <2>4. Len(chans[x[1]].q) \in Nat
    BY <1>2, <2>3, Zenon
  <2>5. x[2] \in 1..Len(chans[x[1]].q)
    <3>1. \A k, m : k \in 1..QueueLen /\ m \in Nat /\ k <= m => k \in 1..m
      BY DeliveryAssumption
    <3> QED BY <2>1, <2>3, <2>4, <3>1, Zenon
  <2> QED BY <2>1, <2>3, <2>5, Zenon
<1>4. ASSUME ~InQueue(s) PROVE Queued(s) = {}
  BY <1>3, <1>4 DEF InQueue, Has
<1>5. ASSUME InQueue(s) PROVE \E x : Queued(s) = {x}
  <2>1. PICK c \in DOMAIN chans : Has(chans[c].q, s)
    BY <1>5 DEF InQueue
  <2>2. PICK i \in 1..Len(chans[c].q) : chans[c].q[i] = s
    BY <2>1 DEF Has
  <2>3. i \in 1..QueueLen /\ i <= Len(chans[c].q)
    BY <1>2, DeliveryAssumption
  <2>4. <<c, i>> \in Queued(s)
    BY <1>1, <2>2, <2>3 DEF Queued
  <2>5. ASSUME NEW x \in Queued(s) PROVE x = <<c, i>>
    <3>1. Has(chans[x[1]].q, s)
      BY <1>3, Zenon DEF Has
    <3>2. x[1] = c
      BY <1>3, <2>1, <3>1, Zenon DEF DeliveryInv, QueueOnce
    <3>3. x[2] \in DOMAIN chans[c].q /\ i \in DOMAIN chans[c].q /\ chans[c].q[x[2]] = chans[c].q[i]
      BY <1>2, <1>3, <2>2, <3>2
    <3>4. x[2] = i
      BY <3>3, Zenon DEF DeliveryInv, QueueOnce, NoRepeat
    <3> QED BY <1>3, <3>2, <3>4, Zenon
  <2>6. Queued(s) = {<<c, i>>}
    BY <2>4, <2>5
  <2> QED BY <2>6, Zenon
<1> QED BY <1>4, <1>5

(* The counts of the invariant say that a slab is in one place. *)
LEMMA OnePlace == DeliveryInv => SlabInOnePlace
<1> SUFFICES ASSUME DeliveryInv, NEW s \in Slabs PROVE \E x : Places(s) = {x}
  BY ZenonT(30) DEF SlabInOnePlace
<1> DEFINE A == {<<"pool", k>> : k \in 1..pool[s]}
           B == {<<"reader", r>> : r \in {q \in Readers : held[q] = s}}
           C == {<<"buffer", x>> : x \in ring \intersect {s}}
           D == {<<"leaving", x>> : x \in leaving \intersect {s}}
           E == {<<"queue", x>> : x \in Queued(s)}
           F == {<<"wireguard", c>> : c \in {d \in 1..MaxOpens : wg[d] = s}}
<1>1. Places(s) = A \union B \union C \union D \union E \union F
  BY ZenonT(30) DEF Places
<1>2. (~InPool(s) => A = {}) /\ (InPool(s) => \E x : A = {x})
  <2>1. pool[s] = 0 \/ pool[s] = 1
    BY DEF DeliveryInv, DeliveryTypeOK, PoolOnce
  <2>2. CASE pool[s] = 0
    BY <2>2 DEF InPool
  <2>3. CASE pool[s] = 1
    <3>1. A = {<<"pool", 1>>}
      BY <2>3
    <3> QED BY <2>3, <3>1, Zenon DEF InPool
  <2> QED BY <2>1, <2>2, <2>3
<1>3. (~InHand(s) => B = {}) /\ (InHand(s) => \E x : B = {x})
  <2>1. ASSUME NEW r \in Readers, held[r] = s PROVE B = {<<"reader", r>>}
    <3>1. held[r] # None
      BY <2>1, DeliveryAssumption
    <3>2. \A q \in Readers : held[q] = s => q = r
      BY <2>1, <3>1 DEF DeliveryInv, HandOnce
    <3> QED BY <2>1, <3>2
  <2> QED BY <2>1, Zenon DEF InHand
<1>4. (s \notin ring => C = {}) /\ (s \in ring => \E x : C = {x})
  <2>1. s \in ring => C = {<<"buffer", s>>}
    OBVIOUS
  <2> QED BY <2>1, Zenon
<1>5. (s \notin leaving => D = {}) /\ (s \in leaving => \E x : D = {x})
  <2>1. s \in leaving => D = {<<"leaving", s>>}
    OBVIOUS
  <2> QED BY <2>1, Zenon
<1>6. (~InQueue(s) => E = {}) /\ (InQueue(s) => \E x : E = {x})
  <2>1. ASSUME InQueue(s) PROVE \E x : E = {x}
    <3>1. PICK y : Queued(s) = {y}
      BY <2>1, QueuedIsInQueue, ZenonT(30)
    <3>2. E = {<<"queue", y>>}
      BY <3>1
    <3> QED BY <3>2, Zenon
  <2>2. ASSUME ~InQueue(s) PROVE E = {}
    BY <2>2, QueuedIsInQueue
  <2> QED BY <2>1, <2>2
<1>7. (~InWireGuard(s) => F = {}) /\ (InWireGuard(s) => \E x : F = {x})
  <2>1. ASSUME NEW c \in 1..MaxOpens, wg[c] = s PROVE F = {<<"wireguard", c>>}
    <3>1. wg[c] # None
      BY <2>1, DeliveryAssumption
    <3>2. \A d \in 1..MaxOpens : wg[d] = s => d = c
      BY <2>1, <3>1, Zenon DEF DeliveryInv, WireGuardOnce
    <3> QED BY <2>1, <3>2
  <2> QED BY <2>1, ZenonT(30) DEF InWireGuard
<1> HIDE DEF A, B, C, D, E, F
<1>8. \/ InPool(s) /\ ~InHand(s) /\ s \notin ring /\ s \notin leaving /\ ~InQueue(s) /\ ~InWireGuard(s)
      \/ ~InPool(s) /\ InHand(s) /\ s \notin ring /\ s \notin leaving /\ ~InQueue(s) /\ ~InWireGuard(s)
      \/ ~InPool(s) /\ ~InHand(s) /\ s \in ring /\ s \notin leaving /\ ~InQueue(s) /\ ~InWireGuard(s)
      \/ ~InPool(s) /\ ~InHand(s) /\ s \notin ring /\ s \in leaving /\ ~InQueue(s) /\ ~InWireGuard(s)
      \/ ~InPool(s) /\ ~InHand(s) /\ s \notin ring /\ s \notin leaving /\ InQueue(s) /\ ~InWireGuard(s)
      \/ ~InPool(s) /\ ~InHand(s) /\ s \notin ring /\ s \notin leaving /\ ~InQueue(s) /\ InWireGuard(s)
  BY DEF DeliveryInv, OneKind
<1>9. \E x : A \union B \union C \union D \union E \union F = {x}
  BY <1>2, <1>3, <1>4, <1>5, <1>6, <1>7, <1>8, Zenon
<1> QED BY <1>1, <1>9

----------------------------------------------------------------------------
(* What a step does to the channels. *)
LEMMA ChannelsKept == ASSUME DeliveryInv, UNCHANGED chans PROVE NothingSent
<1>1. \A c \in DOMAIN chans : Len(chans[c].q) \in Nat
  BY ChannelType DEF DeliveryInv
<1> QED BY <1>1 DEF NothingSent

(* Only the last channel is sent on, and only while it is open. *)
LEMMA DeliverSends == ASSUME DeliveryInv, NEW s \in Slabs, Deliver(s) PROVE NothingSent
<1>1. CASE UNCHANGED chans
  BY <1>1, ChannelsKept
<1>2. CASE IsOpen /\ Room /\ Enqueue(s)
  <2> DEFINE n == Len(chans)
  <2>1. n \in DOMAIN chans /\ chans[n].open
    BY <1>2 DEF IsOpen, DeliveryInv, DeliveryTypeOK
  <2>2. \A c \in DOMAIN chans \ {n} : chans'[c] = chans[c]
    BY <1>2, <2>1, Zenon DEF Enqueue
  <2>3. \A c \in DOMAIN chans : Len(chans[c].q) \in Nat
    BY ChannelType, Zenon DEF DeliveryInv
  <2> QED BY <2>1, <2>2, <2>3 DEF NothingSent
<1> QED BY <1>1, <1>2 DEF Deliver

(* No step sends on a closed channel. *)
LEMMA NextSends == ASSUME DeliveryInv, DeliveryNext PROVE NothingSent
<1>0. \A c \in DOMAIN chans : Len(chans[c].q) \in Nat
  BY ChannelType, ZenonT(30) DEF DeliveryInv
<1>1. CASE Open
  <2>1. chans \in Seq(Channel) /\ chans' = Append(chans, [q |-> <<>>, open |-> TRUE])
    BY <1>1, Zenon DEF DeliveryInv, DeliveryTypeOK, Open
  <2>2. \A c \in DOMAIN chans : chans'[c] = chans[c]
    BY <2>1
  <2> QED BY <1>0, <2>2 DEF NothingSent
<1>2. CASE CloseBind
  <2> DEFINE n == Len(chans)
  <2>1. n \in DOMAIN chans /\ chans[n].open
    BY <1>2 DEF CloseBind, IsOpen, DeliveryInv, DeliveryTypeOK
  <2>2. \A c \in DOMAIN chans \ {n} : chans'[c] = chans[c]
    BY <1>2, <2>1, Zenon DEF CloseBind
  <2> QED BY <1>0, <2>1, <2>2 DEF NothingSent
<1>3. ASSUME NEW c \in DOMAIN chans, Recv(c) PROVE NothingSent
  <2>1. chans[c] \in Channel /\ chans[c].q \in Seq(Slabs) /\ chans[c].q # <<>>
    BY <1>3, ChannelType DEF DeliveryInv, Recv
  <2>2. chans' = [chans EXCEPT ![c] = [chans[c] EXCEPT !.q = Tail(chans[c].q)]]
    BY <1>3 DEF Recv
  <2>3. chans'[c] = [chans[c] EXCEPT !.q = Tail(chans[c].q)]
        /\ \A d \in DOMAIN chans \ {c} : chans'[d] = chans[d]
    BY <2>2
  <2>4. chans'[c].open = chans[c].open /\ chans'[c].q = Tail(chans[c].q)
    BY <2>1, <2>3, Zenon DEF Channel
  <2>5. Len(Tail(chans[c].q)) <= Len(chans[c].q)
    BY <2>1
  <2> SUFFICES ASSUME NEW d \in DOMAIN chans, ~chans[d].open
               PROVE  ~chans'[d].open /\ Len(chans'[d].q) <= Len(chans[d].q)
    BY DEF NothingSent
  <2>6. CASE d = c
    BY <2>4, <2>5, <2>6, ZenonT(30)
  <2>7. CASE d # c
    BY <1>0, <2>3, <2>7
  <2> QED BY <2>6, <2>7
<1>4. ASSUME NEW r \in Readers, Bypass(r) PROVE NothingSent
  <2>1. held[r] \in Slabs /\ Deliver(held[r])
    BY <1>4 DEF Bypass, DeliveryInv, DeliveryTypeOK
  <2> QED BY <2>1, DeliverSends, Zenon
<1>5. ASSUME NEW s \in Slabs, DeliverNext(s) PROVE NothingSent
  BY <1>5, DeliverSends DEF DeliverNext
<1>6. CASE UNCHANGED chans
  BY <1>6, ChannelsKept, Zenon
<1>7. ASSUME NEW c \in DOMAIN chans, Release(c) \/ RecvClosed(c) PROVE UNCHANGED chans
  BY <1>7, Zenon DEF Release, RecvClosed
<1>8. ASSUME NEW r \in Readers, NEW s \in Slabs, Read(r, s) \/ Recover(r, s) PROVE UNCHANGED chans
  BY <1>8 DEF Read, Recover
<1>9. ASSUME NEW r \in Readers, Discard(r) \/ Push(r) PROVE UNCHANGED chans
  BY <1>9 DEF Discard, Push
<1>10. ASSUME NEW s \in Slabs, Timer(s) PROVE UNCHANGED chans
  BY <1>10 DEF Timer
<1>11. CASE CloseEngine
  BY <1>6, <1>11 DEF CloseEngine
<1> QED BY <1>1, <1>2, <1>3, <1>4, <1>5, <1>6, <1>7, <1>8, <1>9, <1>10, <1>11 DEF DeliveryNext

(* The invariant holds in every behaviour. *)
LEMMA InvariantCorrect == Safe => []DeliveryInv
BY InitDeliveryInv, NextDeliveryInv, PTL DEF Safe

(* Whatever readers, timers, WireGuard and Close do at once, a slab is in  *)
(* one place: it is never released twice, lost, or read into while in use  *)
(* (Packet.Release, EngineBind.Deliver, the recv function).                *)
THEOREM SlabsAccounted == Safe => []SlabInOnePlace
BY InvariantCorrect, OnePlace, PTL

(* No packet is sent on a channel that Close has closed, which would       *)
(* panic, whichever packets of a run are still to be delivered             *)
(* (EngineBind.Deliver and EngineBind.Close).                              *)
THEOREM NeverSendsOnClosed == Safe => NoSendOnClosed
<1>1. DeliveryInv /\ [DeliveryNext]_deliveryVars => [NothingSent]_deliveryVars
  BY NextSends
<1> QED BY <1>1, InvariantCorrect, PTL DEF Safe, NoSendOnClosed

==============================================================================
