--------------------------- MODULE OutboundProofs ---------------------------
(***************************************************************************)
(* Proofs about Outbound for every set of packets and rules, every size of *)
(* the flow table and the FIFO, every scan-ahead and any number of drops:  *)
(* the FIFO agrees with the packets under way, and a flow keeps its class. *)
(***************************************************************************)
EXTENDS Outbound, Facts, TLAPS

(* What is known of the constants. *)
LEMMA OutConstants ==
  /\ ScanAhead \in Nat \ {0} /\ FifoCap \in Nat \ {0}
  /\ RealtimeMaxUDPSize \in Nat /\ InteractiveMaxTCP \in Nat
  /\ Bulk # Realtime /\ Bulk # Interactive
  /\ \A pkt \in Packets : pkt.ok \in BOOLEAN /\ pkt.len \in Nat /\ pkt.payload \in Nat
BY CorrelatorAssumption, ClassifierAssumption, OutboundAssumption, ClassesDiffer

----------------------------------------------------------------------------
(* The flow table.                                                         *)

(* The threshold of a protocol, and the two sides of it. *)
Threshold(proto) == IF proto = UDP THEN RealtimeMaxUDPSize ELSE InteractiveMaxTCP

AllSmall(f) == \A q \in Packets : q.ok /\ Flow(q) = f => q.payload <= Threshold(q.proto)
AllLarge(f) == \A q \in Packets : q.ok /\ Flow(q) = f => q.payload >= Threshold(q.proto) + 1

(* An entry of a flow whose packets lie on one side of the threshold does. *)
FlowOK(f, e) ==
  /\ e.pkts \in Nat \ {0} /\ e.payload \in Nat
  /\ AllSmall(f) => e.payload <= Threshold(f[1]) * e.pkts
  /\ AllLarge(f) => e.payload >= (Threshold(f[1]) + 1) * e.pkts

FlowsOK == \A f \in DOMAIN flows : FlowOK(f, flows[f])

(* Learnt counts the packet in its flow and leaves the others, or drops    *)
(* them.                                                                   *)
LEMMA LearntIs ==
  ASSUME NEW pkt
  PROVE  /\ Flow(pkt) \in DOMAIN Learnt(pkt)
         /\ \A f \in DOMAIN Learnt(pkt) : f # Flow(pkt) =>
               f \in DOMAIN flows /\ Learnt(pkt)[f] = flows[f]
         /\ Learnt(pkt)[Flow(pkt)] =
               IF Flow(pkt) \in DOMAIN flows
               THEN [pkts |-> flows[Flow(pkt)].pkts + 1,
                     payload |-> flows[Flow(pkt)].payload + pkt.payload]
               ELSE [pkts |-> 0 + 1, payload |-> 0 + pkt.payload]
<1> DEFINE g == Flow(pkt)
           known == g \in DOMAIN flows
           table == IF ~known /\ Cardinality(DOMAIN flows) >= FlowTableCap THEN <<>> ELSE flows
           old == IF known THEN flows[g] ELSE [pkts |-> 0, payload |-> 0]
           new == [pkts |-> old.pkts + 1, payload |-> old.payload + pkt.payload]
<1>1. Learnt(pkt) = [f \in DOMAIN table \union {g} |-> IF f = g THEN new ELSE table[f]]
  BY DEF Learnt
<1>2. DOMAIN table \subseteq DOMAIN flows /\ \A f \in DOMAIN table : table[f] = flows[f]
  OBVIOUS
<1>3. new = IF known THEN [pkts |-> flows[g].pkts + 1, payload |-> flows[g].payload + pkt.payload]
            ELSE [pkts |-> 0 + 1, payload |-> 0 + pkt.payload]
  OBVIOUS
<1> HIDE DEF table, new, g
<1> QED BY <1>1, <1>2, <1>3 DEF g

(* A packet that the table is asked for has parsed; the flow has its       *)
(* protocol.                                                               *)
LEMMA LearntParses ==
  ASSUME NEW pkt \in Packets, Preset(pkt) = {}
  PROVE  pkt.ok /\ Flow(pkt)[1] = pkt.proto
BY OutConstants DEF Preset, Flow

(* Multiples of the threshold. *)
LEMMA Multiples ==
  ASSUME NEW t \in Nat, NEW n \in Nat
  PROVE  /\ t * n \in Nat /\ (t + 1) * n \in Nat
         /\ t * (n + 1) = t * n + t
         /\ (t + 1) * (n + 1) = (t + 1) * n + (t + 1)
         /\ t * (0 + 1) = t /\ (t + 1) * (0 + 1) = t + 1
OBVIOUS

(* Counting one more packet keeps the side. *)
LEMMA LearntOK ==
  ASSUME FlowsOK, NEW pkt \in Packets, Preset(pkt) = {}
  PROVE  \A f \in DOMAIN Learnt(pkt) : FlowOK(f, Learnt(pkt)[f])
<1> DEFINE g == Flow(pkt)
           e == Learnt(pkt)[g]
           t == Threshold(g[1])
<1>1. pkt.ok /\ g[1] = pkt.proto /\ pkt.payload \in Nat /\ t \in Nat
  BY LearntParses, OutConstants DEF Threshold
<1>2. (AllSmall(g) => pkt.payload <= t) /\ (AllLarge(g) => pkt.payload >= t + 1)
  BY <1>1 DEF AllSmall, AllLarge
<1>3. FlowOK(g, e)
  <2>1. CASE g \in DOMAIN flows
    <3> DEFINE n == flows[g].pkts
               p == flows[g].payload
    <3>1. /\ n \in Nat \ {0} /\ p \in Nat
          /\ AllSmall(g) => p <= t * n
          /\ AllLarge(g) => p >= (t + 1) * n
      BY <2>1 DEF FlowsOK, FlowOK
    <3>2. e.pkts = n + 1 /\ e.payload = p + pkt.payload
      <4>1. e = [pkts |-> flows[g].pkts + 1, payload |-> flows[g].payload + pkt.payload]
        BY <2>1, LearntIs, Zenon
      <4> HIDE DEF e, g
      <4> QED BY <4>1
    <3> HIDE DEF n, p, e, t
    <3>3. /\ t * n \in Nat /\ (t + 1) * n \in Nat /\ t * (n + 1) = t * n + t
          /\ (t + 1) * (n + 1) = (t + 1) * n + (t + 1)
      BY <1>1, <3>1, Multiples
    <3>4. /\ e.pkts \in Nat \ {0} /\ e.payload \in Nat
      BY <1>1, <3>1, <3>2
    <3>5. AllSmall(g) => e.payload <= t * e.pkts
      BY <1>1, <1>2, <3>1, <3>2, <3>3
    <3>6. AllLarge(g) => e.payload >= (t + 1) * e.pkts
      BY <1>1, <1>2, <3>1, <3>2, <3>3
    <3> QED BY <3>4, <3>5, <3>6 DEF FlowOK, t
  <2>2. CASE g \notin DOMAIN flows
    <3>1. e.pkts = 0 + 1 /\ e.payload = 0 + pkt.payload
      <4>1. e = [pkts |-> 0 + 1, payload |-> 0 + pkt.payload]
        BY <2>2, LearntIs, Zenon
      <4> HIDE DEF e, g
      <4> QED BY <4>1
    <3> HIDE DEF e, t
    <3>2. t * (0 + 1) = t /\ (t + 1) * (0 + 1) = t + 1
      BY <1>1, Multiples
    <3>3. /\ e.pkts \in Nat \ {0} /\ e.payload \in Nat
      BY <1>1, <3>1
    <3>4. AllSmall(g) => e.payload <= t * e.pkts
      BY <1>1, <1>2, <3>1, <3>2
    <3>5. AllLarge(g) => e.payload >= (t + 1) * e.pkts
      BY <1>1, <1>2, <3>1, <3>2
    <3> QED BY <3>3, <3>4, <3>5 DEF FlowOK, t
  <2> QED BY <2>1, <2>2
<1>4. ASSUME NEW f \in DOMAIN Learnt(pkt), f # g PROVE FlowOK(f, Learnt(pkt)[f])
  BY <1>4, LearntIs, Zenon DEF FlowsOK
<1> QED BY <1>3, <1>4

(* An average on one side of the threshold. *)
LEMMA AverageSide ==
  ASSUME NEW n \in Nat \ {0}, NEW p \in Nat, NEW t \in Nat
  PROVE  /\ p \div n \in Nat
         /\ p <= t * n => p \div n <= t
         /\ p >= (t + 1) * n => ~(p \div n <= t)
<1> DEFINE q == p \div n
           r == p % n
<1>1. q \in Int /\ r \in 0..(n - 1) /\ p = n * q + r
  BY ModSpec
<1>2. q \in Nat
  OBVIOUS
<1> HIDE DEF q, r
<1>3. ASSUME p <= t * n PROVE q <= t
  <2> SUFFICES ASSUME q >= t + 1 PROVE FALSE
    BY <1>2
  <2>1. PICK k \in Nat : q = (t + 1) + k
    <3>1. q - (t + 1) \in Nat /\ q = (t + 1) + (q - (t + 1))
      BY <1>2
    <3> QED BY <3>1, Zenon
  <2>2. n * q = t * n + n + n * k /\ n * k \in Nat /\ t * n \in Nat
    BY <2>1
  <2> QED BY <1>1, <1>3, <2>2
<1>4. ASSUME p >= (t + 1) * n PROVE ~(q <= t)
  <2> SUFFICES ASSUME q <= t PROVE FALSE
    OBVIOUS
  <2>1. PICK k \in Nat : t = q + k
    <3>1. t - q \in Nat /\ t = q + (t - q)
      BY <1>2
    <3> QED BY <3>1
  <2>2. (t + 1) * n = n * q + n * k + n /\ n * k \in Nat /\ n * q \in Nat
    BY <1>2, <2>1
  <2> QED BY <1>1, <1>4, <2>2
<1> QED BY <1>2, <1>3, <1>4 DEF q

(* The class of a packet its flow table decides. *)
LEMMA ClassOfSide ==
  ASSUME FlowsOK, NEW pkt \in Packets, Preset(pkt) = {}, NEW c,
         \A q \in Packets : q.ok /\ Flow(q) = Flow(pkt) => BySize(q.proto, q.payload) = c
  PROVE  Classify(pkt) = c
<1> DEFINE g == Flow(pkt)
           e == Learnt(pkt)[g]
           t == Threshold(g[1])
           avg == e.payload \div e.pkts
<1>1. pkt.ok /\ g[1] = pkt.proto /\ pkt.payload \in Nat /\ t \in Nat
  BY LearntParses, OutConstants DEF Threshold
<1>2. FlowOK(g, e)
  BY LearntOK, LearntIs, Zenon
<1>3. \A q \in Packets : q.ok /\ Flow(q) = g => q.proto = pkt.proto /\ q.payload \in Nat
  BY <1>1, OutConstants DEF Flow
<1>4. \A x \in Nat : BySize(pkt.proto, x) =
        IF x <= t THEN IF pkt.proto = UDP THEN Realtime ELSE Interactive ELSE Bulk
  BY <1>1 DEF BySize, Threshold
<1>5. BySize(pkt.proto, pkt.payload) = c
  BY <1>1
<1>6. Classify(pkt) = BySize(pkt.proto, avg)
  BY DEF Classify
<1> HIDE DEF t, g, e
<1>7. CASE pkt.payload <= t
  <2>1. AllSmall(g)
    <3> SUFFICES ASSUME NEW q \in Packets, q.ok, Flow(q) = g PROVE q.payload <= Threshold(q.proto)
      BY DEF AllSmall
    <3>1. BySize(pkt.proto, q.payload) = BySize(pkt.proto, pkt.payload)
      BY <1>3, <1>5 DEF g
    <3>2. q.payload \in Nat /\ q.proto = pkt.proto /\ t = Threshold(q.proto)
      BY <1>1, <1>3 DEF t
    <3> QED BY <1>1, <1>4, <1>7, <3>1, <3>2, OutConstants
  <2>2. e.pkts \in Nat \ {0} /\ e.payload \in Nat /\ e.payload <= t * e.pkts
    BY <1>2, <2>1 DEF FlowOK, t
  <2>3. avg \in Nat /\ avg <= t
    BY <1>1, <2>2, AverageSide
  <2> HIDE DEF avg
  <2> QED BY <1>1, <1>4, <1>5, <1>6, <1>7, <2>3
<1>8. CASE ~(pkt.payload <= t)
  <2>1. AllLarge(g)
    <3> SUFFICES ASSUME NEW q \in Packets, q.ok, Flow(q) = g PROVE q.payload >= Threshold(q.proto) + 1
      BY DEF AllLarge
    <3>1. BySize(pkt.proto, q.payload) = BySize(pkt.proto, pkt.payload)
      BY <1>3, <1>5 DEF g
    <3>2. q.payload \in Nat /\ q.proto = pkt.proto /\ t = Threshold(q.proto)
      BY <1>1, <1>3 DEF t
    <3>3. ~(q.payload <= t)
      BY <1>1, <1>4, <1>8, <3>1, <3>2, OutConstants
    <3> QED BY <1>1, <3>2, <3>3
  <2>2. e.pkts \in Nat \ {0} /\ e.payload \in Nat /\ e.payload >= (t + 1) * e.pkts
    BY <1>2, <2>1 DEF FlowOK, t
  <2>3. avg \in Nat /\ ~(avg <= t)
    BY <1>1, <2>2, AverageSide, Zenon
  <2> HIDE DEF avg
  <2> QED BY <1>1, <1>4, <1>5, <1>6, <1>8, <2>3
<1> QED BY <1>7, <1>8

(* Every packet is given the class its flow should keep. *)
LEMMA ClassIsPlain ==
  ASSUME FlowsOK, NEW pkt \in Packets
  PROVE  Plain(pkt) \subseteq {Classify(pkt)}
<1> DEFINE alike == {q \in Packets : q.ok /\ Flow(q) = Flow(pkt)}
           sizes == {BySize(q.proto, q.payload) : q \in alike}
<1>1. Plain(pkt) = IF Preset(pkt) # {} THEN Preset(pkt)
                   ELSE IF Cardinality(sizes) = 1 THEN sizes ELSE {}
  BY DEF Plain
<1>2. CASE Preset(pkt) # {}
  <2>1. \E c : Preset(pkt) = {c}
    BY <1>2, Zenon DEF Preset, RuleFor
  <2>2. PICK c : Preset(pkt) = {c}
    BY <2>1
  <2>3. Classify(pkt) = c
    BY <1>2, <2>2 DEF Classify
  <2> QED BY <1>1, <1>2, <2>2, <2>3
<1>3. CASE Preset(pkt) = {} /\ Cardinality(sizes) = 1
  <2>1. sizes \subseteq {Bulk, Realtime, Interactive}
    BY DEF BySize
  <2> HIDE DEF sizes
  <2>2. IsFiniteSet({Bulk, Realtime, Interactive})
    <3>1. IsFiniteSet({}) /\ {} \union {Bulk} = {Bulk}
      BY FS_EmptySet
    <3>2. IsFiniteSet({Bulk})
      BY <3>1, FS_AddElement, ZenonT(30)
    <3>3. {Bulk} \union {Realtime} = {Bulk, Realtime}
      OBVIOUS
    <3>4. IsFiniteSet({Bulk, Realtime})
      BY <3>2, <3>3, FS_AddElement, ZenonT(30)
    <3>5. {Bulk, Realtime} \union {Interactive} = {Bulk, Realtime, Interactive}
      OBVIOUS
    <3> QED BY <3>4, <3>5, FS_AddElement, ZenonT(30)
  <2>3. IsFiniteSet(sizes)
    BY <2>1, <2>2, FS_Subset
  <2>4. PICK c : sizes = {c}
    BY <1>3, <2>3, FS_Singleton, Zenon
  <2>5. \A q \in Packets : q.ok /\ Flow(q) = Flow(pkt) => BySize(q.proto, q.payload) = c
    BY <2>4 DEF sizes
  <2>6. Classify(pkt) = c
    BY <1>3, <2>5, ClassOfSide
  <2> QED BY <1>1, <1>3, <2>4, <2>6
<1>4. CASE Preset(pkt) = {} /\ Cardinality(sizes) # 1
  BY <1>1, <1>4
<1> QED BY <1>2, <1>3, <1>4

----------------------------------------------------------------------------
(* Counting: how many of 1..j are in S.                                    *)

Count(S, j) == Cardinality({k \in 1..j : k \in S})

(* Induction over the naturals, for a set. *)
LEMMA NatSteps ==
  ASSUME NEW G, 0 \in G, \A n \in Nat : n \in G => n + 1 \in G
  PROVE  \A n \in Nat : n \in G
<1> DEFINE T == {n \in Nat : n \notin G}
<1> SUFFICES ASSUME T # {} PROVE FALSE
  OBVIOUS
<1>1. PICK x \in T : \A y \in T : x <= y
  BY LeastNatural, Zenon
<1>2. x \in Nat /\ x # 0 /\ x - 1 \in Nat /\ (x - 1) + 1 = x
  OBVIOUS
<1>3. x - 1 \notin T
  BY <1>1, <1>2
<1> QED BY <1>2, <1>3

(* What is counted is finite. *)
LEMMA CountFinite ==
  ASSUME NEW S, NEW j \in Nat
  PROVE  IsFiniteSet({k \in 1..j : k \in S})
<1>1. IsFiniteSet(1..j)
  BY FS_Interval
<1>2. {k \in 1..j : k \in S} \in SUBSET (1..j)
  OBVIOUS
<1> QED BY <1>1, <1>2, FS_Subset

(* The count is a number; nothing is counted at 0. *)
LEMMA CountNat ==
  ASSUME NEW S, NEW j \in Nat
  PROVE  Count(S, j) \in Nat /\ Count(S, 0) = 0
<1>1. {k \in 1..0 : k \in S} = {}
  OBVIOUS
<1>2. Count(S, 0) = 0
  BY <1>1, FS_EmptySet DEF Count
<1>3. Count(S, j) \in Nat
  BY CountFinite, FS_CardinalityType, Zenon DEF Count
<1> QED BY <1>2, <1>3

(* Counting one further. *)
LEMMA CountStep ==
  ASSUME NEW S, NEW j \in Nat
  PROVE  Count(S, j + 1) = IF j + 1 \in S THEN Count(S, j) + 1 ELSE Count(S, j)
<1> DEFINE A(i) == {k \in 1..i : k \in S}
<1>1. IsFiniteSet(A(j))
  BY CountFinite
<1>2. CASE j + 1 \in S
  <2>1. A(j + 1) = A(j) \union {j + 1} /\ j + 1 \notin A(j)
    BY <1>2
  <2>2. Count(S, j + 1) = Cardinality(A(j + 1)) /\ Count(S, j) = Cardinality(A(j))
    BY Zenon DEF Count
  <2> HIDE DEF A
  <2>3. Cardinality(A(j) \union {j + 1}) = Cardinality(A(j)) + 1
    BY <1>1, <2>1, FS_AddElement, Zenon
  <2> QED BY <1>2, <2>1, <2>2, <2>3
<1>3. CASE j + 1 \notin S
  <2>1. A(j + 1) = A(j)
    BY <1>3
  <2> QED BY <1>3, <2>1 DEF Count
<1> QED BY <1>2, <1>3

(* The same, looking back. *)
LEMMA CountLast ==
  ASSUME NEW S, NEW j \in Nat \ {0}
  PROVE  /\ Count(S, j) = IF j \in S THEN Count(S, j - 1) + 1 ELSE Count(S, j - 1)
         /\ Count(S, j - 1) \in Nat
<1> DEFINE i == j - 1
<1>1. i \in Nat /\ i + 1 = j
  OBVIOUS
<1> HIDE DEF i
<1>2. Count(S, i + 1) = IF i + 1 \in S THEN Count(S, i) + 1 ELSE Count(S, i)
  BY <1>1, CountStep
<1>3. Count(S, i) \in Nat
  BY <1>1, CountNat
<1> QED BY <1>1, <1>2, <1>3 DEF i

(* The count depends on the numbers counted only. *)
LEMMA CountSame ==
  ASSUME NEW S, NEW T, NEW j \in Nat, \A k \in 1..j : k \in S <=> k \in T
  PROVE  Count(S, j) = Count(T, j)
<1>1. {k \in 1..j : k \in S} = {k \in 1..j : k \in T}
  OBVIOUS
<1> QED BY <1>1, Zenon DEF Count

(* The count grows, and no faster than the numbers. *)
LEMMA CountGrows ==
  ASSUME NEW S, NEW i \in Nat, NEW j \in Nat, i <= j
  PROVE  Count(S, i) <= Count(S, j) /\ Count(S, j) - Count(S, i) <= j - i
<1> DEFINE G == {n \in Nat : Count(S, i) <= Count(S, i + n) /\ Count(S, i + n) - Count(S, i) <= n}
<1>0. Count(S, i) \in Nat
  BY CountNat
<1>1. 0 \in G
  BY <1>0
<1>2. ASSUME NEW n \in Nat, n \in G PROVE n + 1 \in G
  <2>1. i + n \in Nat /\ (i + n) + 1 = i + (n + 1) /\ n + 1 \in Nat
    OBVIOUS
  <2>2. /\ Count(S, i + n) \in Nat
        /\ Count(S, i + (n + 1)) = Count(S, i + n) \/ Count(S, i + (n + 1)) = Count(S, i + n) + 1
    BY <2>1, CountStep, CountNat
  <2>3. Count(S, i) <= Count(S, i + n) /\ Count(S, i + n) - Count(S, i) <= n
    BY <1>2
  <2>4. Count(S, i) <= Count(S, i + (n + 1)) /\ Count(S, i + (n + 1)) - Count(S, i) <= n + 1
    BY <1>0, <2>2, <2>3
  <2> QED BY <2>1, <2>4
<1>3. \A n \in Nat : n \in G
  <2> HIDE DEF G
  <2> QED BY <1>1, <1>2, NatSteps
<1>4. j - i \in Nat /\ i + (j - i) = j
  OBVIOUS
<1>5. j - i \in G
  BY <1>3, <1>4
<1> QED BY <1>4, <1>5

(* Two members have different counts. *)
LEMMA CountStrict ==
  ASSUME NEW S, NEW i \in Nat, NEW j \in Nat, i < j, j \in S
  PROVE  Count(S, i) < Count(S, j) /\ Count(S, i) \in Nat /\ Count(S, j) \in Nat
<1>1. j - 1 \in Nat /\ i <= j - 1 /\ (j - 1) + 1 = j
  OBVIOUS
<1>2. Count(S, i) <= Count(S, j - 1)
  BY <1>1, CountGrows
<1>3. /\ Count(S, j) = Count(S, j - 1) + 1
      /\ Count(S, j - 1) \in Nat /\ Count(S, i) \in Nat /\ Count(S, j) \in Nat
  BY <1>1, CountLast, CountNat
<1> QED BY <1>2, <1>3

(* The i-th member. *)
LEMMA CountFind ==
  ASSUME NEW S, NEW n \in Nat, NEW i \in Nat \ {0}, i <= Count(S, n)
  PROVE  \E p \in 1..n : p \in S /\ Count(S, p) = i
<1> DEFINE T == {j \in Nat : i <= Count(S, j)}
<1>1. n \in T /\ T \in SUBSET Nat
  OBVIOUS
<1>2. PICK p \in T : \A y \in T : p <= y
  BY <1>1, LeastNatural, Zenon
<1>3. p \in Nat /\ p <= n /\ i <= Count(S, p)
  BY <1>1, <1>2
<1>4. p # 0
  BY <1>3, CountNat
<1>5. p - 1 \in Nat /\ (p - 1) + 1 = p /\ ~(p <= p - 1)
  BY <1>3, <1>4
<1>6. Count(S, p - 1) \in Nat /\ ~(i <= Count(S, p - 1))
  BY <1>2, <1>5, CountNat
<1>7. Count(S, p) = IF p \in S THEN Count(S, p - 1) + 1 ELSE Count(S, p - 1)
  BY <1>3, <1>4, CountLast
<1>8. p \in S /\ Count(S, p) = i
  BY <1>3, <1>6, <1>7
<1> QED BY <1>3, <1>4, <1>8

(* Up to n, T is S without p; and T is S moved down by r. *)
LessOne(S, T, n, p) == \A k \in 1..n : k \in T <=> k \in S /\ k # p
Moved(S, T, n, r) == \A k \in 1..n : k \in T <=> k + r \in S

(* A member leaves. *)
LEMMA CountLess ==
  ASSUME NEW S, NEW T, NEW n \in Nat, NEW p \in 1..n, p \in S, LessOne(S, T, n, p),
         NEW j \in 0..n
  PROVE  Count(T, j) = IF j < p THEN Count(S, j) ELSE Count(S, j) - 1
<1>1. CASE j < p
  <2>1. \A k \in 1..j : k \in T <=> k \in S
    BY <1>1 DEF LessOne
  <2> QED BY <1>1, <2>1, CountSame
<1>2. CASE ~(j < p)
  <2> DEFINE A == {k \in 1..j : k \in S}
  <2>1. p \in A
    BY <1>2
  <2>2. {k \in 1..j : k \in T} = A \ {p}
    BY DEF LessOne
  <2>3. IsFiniteSet(A) /\ Cardinality(A) = Count(S, j)
    <3>1. j \in Nat
      OBVIOUS
    <3> QED BY <3>1, CountFinite, Zenon DEF Count
  <2> HIDE DEF A
  <2>4. Cardinality(A \ {p}) = Cardinality(A) - 1
    BY <2>1, <2>3, FS_RemoveElement, Zenon
  <2> QED BY <1>2, <2>2, <2>3, <2>4 DEF Count
<1> QED BY <1>1, <1>2

(* The first r numbers leave. *)
LEMMA CountShift ==
  ASSUME NEW S, NEW T, NEW n \in Nat, NEW r \in Nat, Moved(S, T, n, r), NEW m \in 0..n
  PROVE  Count(T, m) = Count(S, m + r) - Count(S, r)
<1> DEFINE G == {j \in Nat : j <= n => Count(T, j) = Count(S, j + r) - Count(S, r)}
<1>0. Count(S, r) \in Nat /\ Count(T, 0) = 0
  BY CountNat
<1>1. 0 \in G
  BY <1>0
<1>2. ASSUME NEW j \in Nat, j \in G PROVE j + 1 \in G
  <2> SUFFICES ASSUME j + 1 <= n PROVE Count(T, j + 1) = Count(S, (j + 1) + r) - Count(S, r)
    OBVIOUS
  <2>1. j + r \in Nat /\ (j + r) + 1 = (j + 1) + r /\ j + 1 \in 1..n
    OBVIOUS
  <2>2. Count(T, j) = Count(S, j + r) - Count(S, r)
    BY <1>2
  <2>3. j + 1 \in T <=> (j + 1) + r \in S
    BY <2>1 DEF Moved
  <2>4. /\ Count(T, j) \in Nat /\ Count(S, j + r) \in Nat
        /\ Count(T, j + 1) = IF j + 1 \in T THEN Count(T, j) + 1 ELSE Count(T, j)
        /\ Count(S, (j + 1) + r) =
             IF (j + 1) + r \in S THEN Count(S, j + r) + 1 ELSE Count(S, j + r)
    BY <2>1, CountStep, CountNat
  <2> QED BY <1>0, <2>2, <2>3, <2>4
<1>3. \A j \in Nat : j \in G
  <2> HIDE DEF G
  <2> QED BY <1>1, <1>2, NatSteps
<1> QED BY <1>3

----------------------------------------------------------------------------
(* The FIFO q fits the packets u under way: the i-th live entry is that of *)
(* the i-th packet.                                                        *)

Entry == [class: Classes, ctLen: Int, live: BOOLEAN]
Datagram == [class: Classes, ctLen: Int, plain: BOOLEAN]

Lives(q) == {k \in 1..Len(q) : q[k].live}
IsFor(e, d) == e.class = d.class /\ e.ctLen = d.ctLen

Fits(q, u) ==
  /\ Count(Lives(q), Len(q)) = Len(u)
  /\ \A j \in Lives(q) : IsFor(q[j], u[Count(Lives(q), j)])

(* t is s without its i-th element. *)
Without(s, i, t) ==
  /\ Len(t) = Len(s) - 1
  /\ \A k \in 1..Len(t) : (k < i => t[k] = s[k]) /\ (~(k < i) => t[k] = s[k + 1])

(* q without the life of its i-th live entry. *)
Killed(q, i, r) ==
  /\ Len(r) = Len(q)
  /\ \A j \in 1..Len(q) : IsFor(r[j], q[j])
  /\ \A j \in 1..Len(q) : r[j].live <=> q[j].live /\ Count(Lives(q), j) # i

(* The counts of live entries. *)
LEMMA LivesCount ==
  ASSUME NEW q \in Seq(Entry), NEW j \in Lives(q)
  PROVE  /\ j \in 1..Len(q) /\ j \in Nat /\ Len(q) \in Nat
         /\ Count(Lives(q), j) \in 1..Count(Lives(q), Len(q))
<1> DEFINE S == Lives(q)
<1>1. j \in 1..Len(q) /\ j \in Nat \ {0} /\ Len(q) \in Nat
  BY DEF Lives
<1>2. j \in S
  OBVIOUS
<1> HIDE DEF S
<1>3. Count(S, j) = Count(S, j - 1) + 1 /\ Count(S, j - 1) \in Nat
  BY <1>1, <1>2, CountLast
<1>4. Count(S, j) <= Count(S, Len(q)) /\ Count(S, Len(q)) \in Nat
  BY <1>1, CountGrows, CountNat
<1> QED BY <1>1, <1>3, <1>4 DEF S

(* An entry is pushed for a packet that enters. *)
LEMMA FitsPush ==
  ASSUME NEW q \in Seq(Entry), NEW u \in Seq(Datagram), Fits(q, u),
         NEW e \in Entry, NEW d \in Datagram, e.live, IsFor(e, d)
  PROVE  Fits(Append(q, e), Append(u, d))
<1> DEFINE r == Append(q, e)
           v == Append(u, d)
           n == Len(q)
           S == Lives(q)
           T == Lives(r)
<1>1. /\ n \in Nat /\ Len(r) = n + 1 /\ r[n + 1] = e /\ \A k \in 1..n : r[k] = q[k]
      /\ Len(u) \in Nat /\ Len(v) = Len(u) + 1 /\ v[Len(u) + 1] = d
      /\ \A k \in 1..Len(u) : v[k] = u[k]
  OBVIOUS
<1>2. T = S \union {n + 1} /\ \A k \in 1..n : k \in T <=> k \in S
  <2> HIDE DEF r
  <2>1. 1..(n + 1) = (1..n) \union {n + 1} /\ n + 1 \notin 1..n
    BY <1>1
  <2> QED BY <1>1, <2>1 DEF Lives
<1>3. Count(S, n) = Len(u)
  BY DEF Fits
<1>4. ASSUME NEW j \in S PROVE Count(S, j) \in 1..Len(u) /\ j \in 1..n
  BY <1>3, LivesCount
<1>5. \A j \in S : IsFor(q[j], u[Count(S, j)])
  BY DEF Fits
<1> HIDE DEF r, v, S, T
<1>6. ASSUME NEW j \in 0..n PROVE Count(T, j) = Count(S, j)
  <2>1. j \in Nat /\ \A k \in 1..j : k \in T <=> k \in S
    BY <1>1, <1>2
  <2> QED BY <2>1, CountSame
<1>7. Count(T, n + 1) = Len(u) + 1
  <2>1. Count(T, n + 1) = Count(T, n) + 1
    BY <1>1, <1>2, CountStep
  <2>2. Count(T, n) = Count(S, n)
    BY <1>1, <1>6
  <2> QED BY <1>3, <2>1, <2>2
<1>8. ASSUME NEW j \in T PROVE IsFor(r[j], v[Count(T, j)])
  <2>1. CASE j = n + 1
    BY <1>1, <1>7, <2>1
  <2>2. CASE j \in S
    <3>1. Count(T, j) = Count(S, j) /\ Count(S, j) \in 1..Len(u) /\ j \in 1..n
      BY <1>4, <1>6, <2>2
    <3>2. r[j] = q[j] /\ v[Count(S, j)] = u[Count(S, j)]
      BY <1>1, <3>1
    <3> QED BY <1>5, <2>2, <3>1, <3>2
  <2> QED BY <1>2, <2>1, <2>2
<1> QED BY <1>1, <1>7, <1>8, Zenon DEF Fits, r, v, T

(* A packet goes, and its entry with it. *)
LEMMA FitsKill ==
  ASSUME NEW q \in Seq(Entry), NEW u \in Seq(Datagram), Fits(q, u),
         NEW i \in 1..Len(u), NEW r \in Seq(Entry), Killed(q, i, r),
         NEW v \in Seq(Datagram), Without(u, i, v)
  PROVE  /\ Fits(r, v)
         /\ \E p \in Lives(q) : /\ Count(Lives(q), p) = i
                                /\ Lives(r) = Lives(q) \ {p}
<1> DEFINE n == Len(q)
           S == Lives(q)
           T == Lives(r)
<1>1. n \in Nat /\ Len(u) \in Nat /\ i \in Nat \ {0} /\ S \subseteq 1..n
  BY DEF Lives
<1>2. Count(S, n) = Len(u) /\ \A j \in S : IsFor(q[j], u[Count(S, j)])
  BY DEF Fits
<1>3. ASSUME NEW j \in S PROVE Count(S, j) \in 1..Len(u) /\ j \in 1..n
  BY <1>2, LivesCount
<1>4. T = {j \in S : Count(S, j) # i}
  <2> HIDE DEF S
  <2>1. \A j \in 1..n : j \in T <=> j \in S /\ Count(S, j) # i
    BY DEF Killed, Lives, S
  <2>2. T \subseteq 1..n
    BY DEF Killed, Lives
  <2> QED BY <1>1, <2>1, <2>2, Zenon
<1>5. Len(r) = n /\ \A j \in 1..n : IsFor(r[j], q[j])
  BY DEF Killed
<1>6. /\ Len(v) = Len(u) - 1
      /\ \A k \in 1..(Len(u) - 1) : (k < i => v[k] = u[k]) /\ (~(k < i) => v[k] = u[k + 1])
  BY DEF Without
<1> HIDE DEF S, T
<1>7. PICK p \in 1..n : p \in S /\ Count(S, p) = i
  <2>1. i <= Count(S, n)
    BY <1>2
  <2> QED BY <1>1, <2>1, CountFind
<1>8. ASSUME NEW j \in S PROVE /\ j < p => Count(S, j) < i
                               /\ p < j => i < Count(S, j)
  <2>1. j \in Nat /\ p \in Nat
    BY <1>1
  <2> QED BY <1>7, <2>1, CountStrict
<1>9. T = S \ {p} /\ \A k \in 1..n : k \in T <=> k \in S /\ k # p
  <2>1. ASSUME NEW j \in S PROVE Count(S, j) = i <=> j = p
    <3>1. j \in Nat /\ p \in Nat /\ Count(S, j) \in Nat
      BY <1>1, CountNat
    <3> QED BY <1>1, <1>7, <1>8, <3>1
  <2> QED BY <1>4, <1>7, <2>1, Zenon
<1>10. ASSUME NEW j \in 0..n
       PROVE  Count(T, j) = IF j < p THEN Count(S, j) ELSE Count(S, j) - 1
  <2>1. LessOne(S, T, n, p)
    BY <1>9 DEF LessOne
  <2> QED BY <1>1, <1>7, <2>1, CountLess
<1>11. Count(T, n) = Len(v)
  <2>1. n \in 0..n /\ ~(n < p)
    BY <1>1
  <2> QED BY <1>2, <1>6, <1>10, <2>1
<1>12. ASSUME NEW j \in T PROVE IsFor(r[j], v[Count(T, j)])
  <2>1. j \in S /\ j # p /\ j \in 1..n /\ j \in 0..n /\ p \in Nat /\ j \in Nat
    BY <1>1, <1>9
  <2>2. IsFor(r[j], u[Count(S, j)])
    BY <1>2, <1>5, <2>1 DEF IsFor
  <2>3. Count(S, j) \in 1..Len(u)
    BY <1>3, <2>1
  <2>4. CASE j < p
    <3>1. Count(T, j) = Count(S, j) /\ Count(S, j) < i
      BY <1>8, <1>10, <2>1, <2>4
    <3>2. v[Count(S, j)] = u[Count(S, j)]
      <4>1. Count(S, j) \in 1..(Len(u) - 1)
        BY <1>1, <2>3, <3>1
      <4> QED BY <1>6, <3>1, <4>1, Zenon
    <3> QED BY <2>2, <3>1, <3>2
  <2>5. CASE p < j
    <3>1. Count(T, j) = Count(S, j) - 1 /\ i < Count(S, j)
      BY <1>8, <1>10, <2>1, <2>5
    <3>2. v[Count(S, j) - 1] = u[(Count(S, j) - 1) + 1] /\ (Count(S, j) - 1) + 1 = Count(S, j)
      <4>1. Count(S, j) - 1 \in 1..(Len(u) - 1) /\ ~(Count(S, j) - 1 < i)
        BY <1>1, <2>3, <3>1
      <4>2. (Count(S, j) - 1) + 1 = Count(S, j)
        BY <2>3
      <4> QED BY <1>6, <4>1, <4>2, Zenon
    <3> QED BY <2>2, <3>1, <3>2
  <2> QED BY <2>1, <2>4, <2>5
<1>13. Fits(r, v)
  BY <1>5, <1>11, <1>12 DEF Fits, T
<1> QED BY <1>7, <1>9, <1>13 DEF S, T

(* Entries in front of all live ones go. *)
LEMMA FitsPop ==
  ASSUME NEW q \in Seq(Entry), NEW u \in Seq(Datagram), Fits(q, u),
         NEW k \in 0..Len(q), \A j \in 1..k : j \notin Lives(q)
  PROVE  Fits(SubSeq(q, k + 1, Len(q)), u)
<1> DEFINE n == Len(q)
           r == SubSeq(q, k + 1, n)
           S == Lives(q)
           T == Lives(r)
<1>1. /\ n \in Nat /\ k \in Nat /\ k <= n /\ n - k \in Nat
      /\ Len(r) = n - k /\ \A j \in 1..(n - k) : r[j] = q[j + k]
  OBVIOUS
<1>2. Count(S, n) = Len(u) /\ \A j \in S : IsFor(q[j], u[Count(S, j)])
  BY DEF Fits
<1>3. \A j \in 1..(n - k) : j \in T <=> j + k \in S
  <2> HIDE DEF r
  <2>1. \A j \in 1..(n - k) : j + k \in 1..n
    BY <1>1
  <2> QED BY <1>1, <2>1 DEF Lives
<1>4. T \subseteq 1..(n - k)
  BY <1>1 DEF Lives
<1>5. \A j \in 1..k : j \in S <=> j \in {}
  OBVIOUS
<1> HIDE DEF r, S, T
<1>6. Count(S, k) = 0
  <2>1. Count(S, k) = Count({}, k)
    BY <1>1, <1>5, CountSame
  <2>2. {j \in 1..k : j \in {}} = {}
    OBVIOUS
  <2>3. Count({}, k) = 0
    BY <2>2, FS_EmptySet, Zenon DEF Count
  <2> QED BY <2>1, <2>3
<1>7. ASSUME NEW j \in 0..(n - k) PROVE Count(T, j) = Count(S, j + k)
  <2>1. Moved(S, T, n - k, k)
    BY <1>3 DEF Moved
  <2>2. Count(T, j) = Count(S, j + k) - Count(S, k)
    BY <1>1, <2>1, CountShift
  <2>3. j + k \in Nat
    BY <1>1
  <2>4. Count(S, j + k) \in Nat
    BY <2>3, CountNat
  <2> QED BY <1>6, <2>2, <2>4
<1>8. Count(T, n - k) = Len(u)
  <2>1. n - k \in 0..(n - k) /\ (n - k) + k = n
    BY <1>1
  <2> QED BY <1>2, <1>7, <2>1
<1>9. ASSUME NEW j \in T PROVE IsFor(r[j], u[Count(T, j)])
  <2>1. j \in 1..(n - k) /\ j \in 0..(n - k) /\ j + k \in S
    BY <1>1, <1>3, <1>4
  <2> QED BY <1>1, <1>2, <1>7, <2>1
<1> QED BY <1>1, <1>8, <1>9, Zenon DEF Fits, r, T

----------------------------------------------------------------------------
(* The sequences of Outbound.                                              *)

(* x is a followed by b. *)
Joins(a, b, x) ==
  /\ Len(x) = Len(a) + Len(b)
  /\ \A k \in 1..(Len(a) + Len(b)) :
       (k <= Len(a) => x[k] = a[k]) /\ (~(k <= Len(a)) => x[k] = b[k - Len(a)])

(* The packets held and those inside WireGuard. *)
LEMMA Joined ==
  ASSUME NEW a \in Seq(Datagram), NEW b \in Seq(Datagram)
  PROVE  /\ a \o b \in Seq(Datagram) /\ Joins(a, b, a \o b)
         /\ Len(a) \in Nat /\ Len(b) \in Nat
BY DEF Joins

(* An element is taken out. *)
LEMMA RemovedAt ==
  ASSUME NEW s \in Seq(Datagram), NEW i \in 1..Len(s),
         NEW t, t = SubSeq(s, 1, i - 1) \o SubSeq(s, i + 1, Len(s))
  PROVE  t \in Seq(Datagram) /\ Without(s, i, t)
<1> DEFINE a == SubSeq(s, 1, i - 1)
           b == SubSeq(s, i + 1, Len(s))
           x == a \o b
<1>1. /\ a \in Seq(Datagram) /\ Len(a) = i - 1 /\ \A k \in 1..(i - 1) : a[k] = s[k]
      /\ b \in Seq(Datagram) /\ Len(b) = Len(s) - i
      /\ \A k \in 1..(Len(s) - i) : b[k] = s[k + i]
  <2>1. a \in Seq(Datagram) /\ b \in Seq(Datagram)
    OBVIOUS
  <2>2. Len(a) = i - 1 /\ \A k \in 1..(i - 1) : a[k] = s[k]
    OBVIOUS
  <2>3. Len(b) = Len(s) - i
    OBVIOUS
  <2>4. ASSUME NEW k \in 1..(Len(s) - i) PROVE b[k] = s[k + i]
    OBVIOUS
  <2> QED BY <2>1, <2>2, <2>3, <2>4
<1>2. t = x /\ Len(s) \in Nat
  OBVIOUS
<1> HIDE DEF a, b
<1>3. x \in Seq(Datagram) /\ Joins(a, b, x)
  BY <1>1, Joined
<1> HIDE DEF x
<1>4. Len(a) + Len(b) = Len(s) - 1
  BY <1>1, <1>2
<1>5. ASSUME NEW k \in 1..(Len(s) - 1)
      PROVE  (k < i => x[k] = s[k]) /\ (~(k < i) => x[k] = s[k + 1])
  <2>1. CASE k < i
    <3>1. k <= i - 1 /\ k \in 1..(i - 1)
      BY <2>1
    <3>2. x[k] = a[k]
      BY <1>1, <1>3, <1>4, <3>1 DEF Joins
    <3> QED BY <1>1, <2>1, <3>1, <3>2
  <2>2. CASE ~(k < i)
    <3>1. ~(k <= i - 1) /\ k - (i - 1) \in 1..(Len(s) - i) /\ (k - (i - 1)) + i = k + 1
      BY <1>2, <2>2
    <3>2. x[k] = b[k - (i - 1)]
      BY <1>1, <1>3, <1>4, <3>1 DEF Joins
    <3> QED BY <1>1, <2>2, <3>1, <3>2
  <2> QED BY <2>1, <2>2
<1>6. Len(x) = Len(s) - 1
  BY <1>3, <1>4 DEF Joins
<1>7. x \in Seq(Datagram) /\ Without(s, i, x)
  <2>1. \A k \in 1..Len(x) : (k < i => x[k] = s[k]) /\ (~(k < i) => x[k] = s[k + 1])
    BY <1>5, <1>6, Zenon
  <2> QED BY <1>3, <1>6, <2>1, Zenon DEF Without
<1> QED BY <1>2, <1>7, Zenon

(* Tail. *)
LEMMA TailWithout ==
  ASSUME NEW s \in Seq(Datagram), s # <<>>
  PROVE  /\ Tail(s) \in Seq(Datagram) /\ Without(s, 1, Tail(s))
         /\ Len(s) \in Nat /\ 1 \in 1..Len(s) /\ Head(s) = s[1] /\ s[1] \in Datagram
<1>1. /\ Tail(s) \in Seq(Datagram) /\ Len(s) \in Nat \ {0} /\ Len(Tail(s)) = Len(s) - 1
      /\ \A k \in 1..(Len(s) - 1) : Tail(s)[k] = s[k + 1]
      /\ Head(s) = s[1] /\ s[1] \in Datagram
  OBVIOUS
<1>2. \A k \in 1..(Len(s) - 1) : ~(k < 1)
  BY <1>1
<1> QED BY <1>1, <1>2 DEF Without

(* A packet goes from the second part,  *)
LEMMA WithoutLater ==
  ASSUME NEW a \in Seq(Datagram), NEW b \in Seq(Datagram), NEW c \in Seq(Datagram),
         NEW i \in 1..Len(b), Without(b, i, c)
  PROVE  Without(a \o b, Len(a) + i, a \o c) /\ (a \o b)[Len(a) + i] = b[i]
<1> DEFINE n == Len(a)
           m == Len(b)
           x == a \o b
           y == a \o c
<1>1. n \in Nat /\ m \in Nat /\ Len(c) = m - 1 /\ i \in 1..m
  BY Joined DEF Without
<1>2. \A k \in 1..(m - 1) : (k < i => c[k] = b[k]) /\ (~(k < i) => c[k] = b[k + 1])
  BY <1>1 DEF Without
<1>3. Joins(a, b, x) /\ Joins(a, c, y)
  BY Joined
<1> HIDE DEF x, y, n, m
<1>4. /\ Len(x) = n + m /\ Len(y) = n + (m - 1)
      /\ \A k \in 1..(n + m) : (k <= n => x[k] = a[k]) /\ (~(k <= n) => x[k] = b[k - n])
      /\ \A k \in 1..(n + (m - 1)) : (k <= n => y[k] = a[k]) /\ (~(k <= n) => y[k] = c[k - n])
  BY <1>1, <1>3 DEF Joins, n, m
<1>5. ASSUME NEW k \in 1..(n + (m - 1))
      PROVE  (k < n + i => y[k] = x[k]) /\ (~(k < n + i) => y[k] = x[k + 1])
  <2>1. k \in 1..(n + m) /\ k + 1 \in 1..(n + m)
    BY <1>1
  <2>2. CASE k <= n
    <3>1. k < n + i
      BY <1>1, <2>2
    <3> QED BY <1>4, <2>1, <2>2, <3>1
  <2>3. CASE ~(k <= n) /\ k < n + i
    <3>1. k - n \in 1..(m - 1) /\ k - n < i
      BY <1>1, <2>3
    <3>2. y[k] = c[k - n] /\ x[k] = b[k - n]
      BY <1>4, <2>1, <2>3
    <3> QED BY <1>2, <2>3, <3>1, <3>2
  <2>4. CASE ~(k < n + i)
    <3>1. /\ k - n \in 1..(m - 1) /\ ~(k - n < i) /\ ~(k <= n) /\ ~(k + 1 <= n)
          /\ (k + 1) - n = (k - n) + 1
      BY <1>1, <2>4
    <3>2. y[k] = c[k - n] /\ x[k + 1] = b[(k + 1) - n]
      BY <1>4, <2>1, <3>1
    <3> QED BY <1>2, <2>4, <3>1, <3>2
  <2> QED BY <2>2, <2>3, <2>4
<1>6. Len(y) = Len(x) - 1
  BY <1>1, <1>4, SMTT(30)
<1>7. x[n + i] = b[i]
  <2>1. n + i \in 1..(n + m) /\ ~(n + i <= n) /\ (n + i) - n = i
    BY <1>1
  <2> QED BY <1>4, <2>1
<1>8. Without(x, n + i, y)
  BY <1>4, <1>5, <1>6 DEF Without
<1> QED BY <1>7, <1>8 DEF x, y, n

(* or the first of the first part.                                         *)
LEMMA WithoutFirst ==
  ASSUME NEW a \in Seq(Datagram), NEW b \in Seq(Datagram), a # <<>>
  PROVE  Without(a \o b, 1, Tail(a) \o b) /\ (a \o b)[1] = a[1]
<1> DEFINE c == Tail(a)
           n == Len(a)
           m == Len(b)
           x == a \o b
           y == c \o b
<1>1. c \in Seq(Datagram) /\ n \in Nat \ {0} /\ Len(c) = n - 1 /\ m \in Nat
  OBVIOUS
<1>2. \A k \in 1..(n - 1) : c[k] = a[k + 1]
  OBVIOUS
<1> HIDE DEF c
<1>3. Joins(a, b, x) /\ Joins(c, b, y)
  BY <1>1, Joined
<1> HIDE DEF x, y, n, m
<1>4. /\ Len(x) = n + m /\ Len(y) = (n - 1) + m
      /\ \A k \in 1..(n + m) : (k <= n => x[k] = a[k]) /\ (~(k <= n) => x[k] = b[k - n])
      /\ \A k \in 1..((n - 1) + m) :
           (k <= n - 1 => y[k] = c[k]) /\ (~(k <= n - 1) => y[k] = b[k - (n - 1)])
  BY <1>1, <1>3 DEF Joins, n, m
<1>5. ASSUME NEW k \in 1..((n - 1) + m) PROVE y[k] = x[k + 1] /\ ~(k < 1)
  <2>1. k + 1 \in 1..(n + m) /\ ~(k < 1)
    BY <1>1
  <2>2. CASE k <= n - 1
    <3>1. k + 1 <= n /\ k \in 1..(n - 1)
      BY <1>1, <2>2
    <3> QED BY <1>2, <1>4, <2>1, <2>2, <3>1
  <2>3. CASE ~(k <= n - 1)
    <3>1. ~(k + 1 <= n) /\ (k + 1) - n = k - (n - 1)
      BY <1>1, <2>3
    <3> QED BY <1>4, <2>1, <2>3, <3>1
  <2> QED BY <2>2, <2>3
<1>6. Len(y) = Len(x) - 1
  BY <1>1, <1>4, SMTT(30)
<1>7. x[1] = a[1]
  <2>1. 1 \in 1..(n + m) /\ 1 <= n
    BY <1>1
  <2> QED BY <1>4, <2>1
<1>8. Without(x, 1, y)
  BY <1>4, <1>5, <1>6 DEF Without
<1> QED BY <1>7, <1>8 DEF x, y, c

----------------------------------------------------------------------------
(* The inductive invariant: types; the flow table; while in order the FIFO *)
(* fits the packets under way; with no drop so far every entry is live;    *)
(* and there are no more dead entries than drops.                          *)

OutTypes ==
  /\ inWg \in Seq(Datagram) /\ pending \in Seq(Datagram) /\ fifo \in Seq(Entry)
  /\ drops \in 0..ScanAhead
  /\ inOrder \in BOOLEAN /\ missed \in BOOLEAN /\ right \in BOOLEAN

InOrderFits == inOrder => Fits(fifo, UnderWay)
NoDropNoDead == (drops = 0 /\ inOrder) => right /\ \A j \in 1..Len(fifo) : fifo[j].live
FewDead == (drops < ScanAhead /\ inOrder) => ~missed /\ Len(fifo) <= Len(UnderWay) + drops

OutInv ==
  OutTypes /\ FlowsOK /\ FlowKeepsClass /\ InOrderFits /\ NoDropNoDead /\ FewDead

(* LiveUpTo counts the live entries. *)
LEMMA LiveUpToIs ==
  ASSUME NEW j \in 0..Len(fifo), fifo \in Seq(Entry)
  PROVE  LiveUpTo(j) = Count(Lives(fifo), j)
<1>1. \A k \in 1..j : k \in 1..Len(fifo)
  OBVIOUS
<1>2. {k \in 1..j : fifo[k].live} = {k \in 1..j : k \in Lives(fifo)}
  BY <1>1 DEF Lives
<1> QED BY <1>2, Zenon DEF LiveUpTo, Count

(* An entry with its life set. *)
LEMMA LifeSet ==
  ASSUME NEW e \in Entry, NEW b \in BOOLEAN, NEW x, x = [e EXCEPT !.live = b]
  PROVE  x \in Entry /\ x.live = b /\ IsFor(x, e)
<1>1. e = [class |-> e.class, ctLen |-> e.ctLen, live |-> e.live]
  BY DEF Entry
<1>2. e.class \in Classes /\ e.ctLen \in Int
  BY DEF Entry
<1>3. x = [class |-> e.class, ctLen |-> e.ctLen, live |-> b]
  BY <1>1
<1> QED BY <1>2, <1>3 DEF Entry, IsFor

(* A function on 1..n is a sequence. *)
LEMMA AsEntries ==
  ASSUME NEW n \in Nat, NEW q \in [1..n -> Entry]
  PROVE  q \in Seq(Entry) /\ Len(q) = n
OBVIOUS

(* Gone ends the life of an entry,  *)
LEMMA GoneKills ==
  ASSUME fifo \in Seq(Entry), NEW i
  PROVE  Gone(i) \in Seq(Entry) /\ Killed(fifo, i, Gone(i))
<1> DEFINE n == Len(fifo)
<1>1. n \in Nat /\ DOMAIN fifo = 1..n /\ \A j \in 1..n : fifo[j] \in Entry
  OBVIOUS
<1>2. Gone(i) = [j \in 1..n |-> [fifo[j] EXCEPT !.live = @ /\ LiveUpTo(j) # i]]
  BY <1>1 DEF Gone
<1>3. ASSUME NEW j \in 1..n
      PROVE  /\ Gone(i)[j] \in Entry /\ IsFor(Gone(i)[j], fifo[j])
             /\ Gone(i)[j].live <=> fifo[j].live /\ Count(Lives(fifo), j) # i
  <2>1. LiveUpTo(j) = Count(Lives(fifo), j)
    BY <1>1, LiveUpToIs
  <2>2. Gone(i)[j] = [fifo[j] EXCEPT !.live = fifo[j].live /\ LiveUpTo(j) # i]
    BY <1>2
  <2> DEFINE b == fifo[j].live /\ LiveUpTo(j) # i
  <2>3. b \in BOOLEAN /\ fifo[j] \in Entry
    BY <1>1
  <2>4. b <=> fifo[j].live /\ Count(Lives(fifo), j) # i
    BY <2>1
  <2> HIDE DEF b
  <2>5. Gone(i)[j] = [fifo[j] EXCEPT !.live = b]
    BY <2>2 DEF b
  <2>6. Gone(i)[j] \in Entry /\ Gone(i)[j].live = b /\ IsFor(Gone(i)[j], fifo[j])
    BY <2>3, <2>5, LifeSet
  <2> QED BY <2>4, <2>6
<1>4. Gone(i) \in Seq(Entry) /\ Len(Gone(i)) = n
  <2>1. DOMAIN Gone(i) = 1..n /\ Gone(i) = [j \in 1..n |-> Gone(i)[j]]
    BY <1>2, Zenon
  <2>2. \A j \in 1..n : Gone(i)[j] \in Entry
    BY <1>3
  <2>3. Gone(i) \in [1..n -> Entry]
    BY <2>1, <2>2
  <2> QED BY <1>1, <2>3, AsEntries
<1> QED BY <1>3, <1>4 DEF Killed

(* and Unsure that of all. *)
LEMMA UnsureType ==
  ASSUME NEW q \in Seq(Entry)
  PROVE  Unsure(q) \in Seq(Entry) /\ Len(Unsure(q)) = Len(q)
<1> DEFINE n == Len(q)
<1>1. n \in Nat /\ DOMAIN q = 1..n /\ \A j \in 1..n : q[j] \in Entry
  OBVIOUS
<1>2. Unsure(q) = [j \in 1..n |-> [q[j] EXCEPT !.live = FALSE]]
  BY <1>1 DEF Unsure
<1>3. \A j \in 1..n : [q[j] EXCEPT !.live = FALSE] \in Entry
  <2> SUFFICES ASSUME NEW j \in 1..n PROVE [q[j] EXCEPT !.live = FALSE] \in Entry
    OBVIOUS
  <2>1. q[j] \in Entry /\ FALSE \in BOOLEAN
    BY <1>1
  <2> QED BY <2>1, LifeSet, Zenon
<1>4. Unsure(q) \in [1..n -> Entry]
  BY <1>2, <1>3, Zenon
<1> QED BY <1>1, <1>4, AsEntries

(* The class of a packet. *)
LEMMA ClassType ==
  ASSUME NEW pkt \in Packets
  PROVE  Classify(pkt) \in Classes
<1>1. CASE Preset(pkt) = {}
  BY <1>1 DEF Classify, BySize, Classes
<1>2. CASE Preset(pkt) # {}
  <2>1. \A c \in Preset(pkt) : c \in Classes
    <3>1. \A c \in RuleFor(pkt) : c \in Classes
      <4> DEFINE keys == <<<<pkt.proto, pkt.sport>>, <<pkt.proto, pkt.dport>>,
                           <<AnyProto, pkt.sport>>, <<AnyProto, pkt.dport>>>>
                 hits == {i \in DOMAIN keys : keys[i] \in DOMAIN Rules}
      <4>1. RuleFor(pkt) = IF hits = {} THEN {} ELSE {Rules[keys[Min(hits)]]}
        BY Zenon DEF RuleFor
      <4> SUFFICES ASSUME hits # {} PROVE Rules[keys[Min(hits)]] \in Classes
        BY <4>1, Zenon
      <4>2. \A i \in hits : i \in Nat /\ keys[i] \in DOMAIN Rules
        BY SMTT(30)
      <4> HIDE DEF hits, keys
      <4>3. hits \in SUBSET Nat
        BY <4>2
      <4>4. \E x \in hits : \A y \in hits : x <= y
        BY <4>3, LeastNatural
      <4>5. Min(hits) \in hits
        BY <4>4 DEF Min
      <4> QED BY <4>2, <4>5, ClassifierAssumption, Zenon
    <3> QED BY <3>1 DEF Preset, Classes
  <2>2. Classify(pkt) \in Preset(pkt)
    BY <1>2 DEF Classify
  <2> QED BY <2>1, <2>2
<1> QED BY <1>1, <1>2

(* Nothing is under way at the start. *)
LEMMA InitOutInv == OutInit => OutInv
<1> SUFFICES ASSUME OutInit PROVE OutInv
  OBVIOUS
<1>1. OutTypes
  <2>1. <<>> \in Seq(Datagram) /\ <<>> \in Seq(Entry) /\ 0 \in 0..ScanAhead
    BY OutConstants
  <2> QED BY <2>1, Zenon DEF OutInit, OutTypes
<1>2. FlowsOK /\ FlowKeepsClass
  BY DEF OutInit, FlowsOK, FlowKeepsClass
<1>3. fifo = <<>> /\ UnderWay = <<>> /\ right /\ ~missed /\ drops = 0
  BY DEF OutInit, UnderWay
<1>4. Fits(<<>>, <<>>)
  <2>1. Lives(<<>>) = {}
    BY DEF Lives
  <2> QED BY <2>1, CountNat DEF Fits
<1>5. InOrderFits /\ NoDropNoDead /\ FewDead
  BY <1>3, <1>4 DEF InOrderFits, NoDropNoDead, FewDead
<1> QED BY <1>1, <1>2, <1>5 DEF OutInv

(* The i-th packet under way is dropped. *)
LEMMA DropKeeps ==
  ASSUME OutInv, NEW i \in 1..Len(UnderWay), Drop(i),
         UnderWay \in Seq(Datagram), UnderWay' \in Seq(Datagram), Without(UnderWay, i, UnderWay')
  PROVE  /\ fifo' \in Seq(Entry) /\ drops' \in 0..ScanAhead
         /\ InOrderFits' /\ NoDropNoDead' /\ FewDead'
<1>1. fifo \in Seq(Entry) /\ drops \in 0..ScanAhead /\ ScanAhead \in Nat \ {0}
  BY OutConstants DEF OutInv, OutTypes
<1>2. /\ fifo' = Gone(i) /\ inOrder' = inOrder /\ missed' = missed /\ right' = right
      /\ drops' = IF inOrder /\ drops < ScanAhead THEN drops + 1 ELSE drops
  BY DEF Drop
<1>3. fifo' \in Seq(Entry) /\ Killed(fifo, i, fifo')
  BY <1>1, <1>2, GoneKills
<1>4. drops' \in 0..ScanAhead
  BY <1>1, <1>2
<1>5. InOrderFits'
  <2> SUFFICES ASSUME inOrder PROVE Fits(fifo', UnderWay')
    BY <1>2 DEF InOrderFits
  <2>1. Fits(fifo, UnderWay)
    BY DEF OutInv, InOrderFits
  <2> QED BY <1>1, <1>3, <2>1, FitsKill
<1>6. NoDropNoDead'
  <2> SUFFICES ASSUME inOrder PROVE drops' # 0
    BY <1>2 DEF NoDropNoDead
  <2> QED BY <1>1, <1>2
<1>7. FewDead'
  <2> SUFFICES ASSUME inOrder, drops' < ScanAhead
               PROVE  ~missed /\ Len(fifo') <= Len(UnderWay') + drops'
    BY <1>2 DEF FewDead
  <2>1. drops < ScanAhead /\ drops' = drops + 1
    BY <1>1, <1>2
  <2>2. ~missed /\ Len(fifo) <= Len(UnderWay) + drops
    BY <2>1 DEF OutInv, FewDead
  <2>3. Len(fifo') = Len(fifo) /\ Len(UnderWay') = Len(UnderWay) - 1
    BY <1>3 DEF Killed, Without
  <2>4. Len(fifo) \in Nat /\ Len(UnderWay) \in Nat
    BY <1>1
  <2> QED BY <1>1, <2>1, <2>2, <2>3, <2>4
<1> QED BY <1>3, <1>4, <1>5, <1>6, <1>7

(* What Match takes: nothing, or the first entry of the length among those *)
(* it looks at.                                                            *)
LEMMA MatchIs ==
  ASSUME NEW l, fifo \in Seq(Entry)
  PROVE  /\ Hits(l) = {} => Match(l) = [class |-> Bulk, pop |-> 0]
         /\ Hits(l) # {} =>
              \E h \in Hits(l) : /\ Match(l) = [class |-> fifo[h].class, pop |-> h]
                                 /\ \A k \in Hits(l) : h <= k
         /\ \A h \in Hits(l) : h \in 1..Len(fifo) /\ h <= ScanAhead
<1>1. \A h \in Hits(l) : h \in 1..Len(fifo) /\ h <= ScanAhead
  BY DEF Hits
<1>2. Hits(l) = {} => Match(l) = [class |-> Bulk, pop |-> 0]
  BY DEF Match
<1>3. ASSUME Hits(l) # {}
      PROVE  \E h \in Hits(l) : /\ Match(l) = [class |-> fifo[h].class, pop |-> h]
                                /\ \A k \in Hits(l) : h <= k
  <2> DEFINE H == Hits(l)
  <2>1. Match(l) = [class |-> fifo[Min(H)].class, pop |-> Min(H)]
    BY <1>3 DEF Match
  <2>2. H \in SUBSET Nat /\ H # {}
    BY <1>1, <1>3
  <2> HIDE DEF H
  <2>3. \E x \in H : \A y \in H : x <= y
    BY <2>2, LeastNatural
  <2>4. Min(H) \in H /\ \A y \in H : Min(H) <= y
    BY <2>3 DEF Min
  <2> QED BY <2>1, <2>4 DEF H
<1> QED BY <1>1, <1>2, <1>3

(* The first packet under way and its entry p: nothing in front of p is    *)
(* live, and no match takes more than p.                                   *)
LEMMA OldestEntry ==
  ASSUME OutInv, inOrder, UnderWay \in Seq(Datagram), NEW v \in Seq(Datagram),
         1 \in 1..Len(UnderWay), Without(UnderWay, 1, v),
         NEW pop, pop = Match(UnderWay[1].ctLen).pop
  PROVE  \E p \in Lives(fifo) :
           /\ Count(Lives(fifo), p) = 1 /\ IsFor(fifo[p], UnderWay[1])
           /\ pop \in 0..p
           /\ p <= ScanAhead => p \in Hits(UnderWay[1].ctLen) /\ pop # 0
           /\ \A j \in 1..pop : j \notin Lives(Gone(1))
           /\ Fits(Gone(1), v)
<1> DEFINE S == Lives(fifo)
           T == Lives(Gone(1))
           l == UnderWay[1].ctLen
<1>1. fifo \in Seq(Entry) /\ ScanAhead \in Nat \ {0} /\ Fits(fifo, UnderWay)
  BY OutConstants DEF OutInv, OutTypes, InOrderFits
<1>2. Gone(1) \in Seq(Entry) /\ Killed(fifo, 1, Gone(1))
  BY <1>1, GoneKills
<1>3. Fits(Gone(1), v) /\ \E p \in S : Count(S, p) = 1 /\ T = S \ {p}
  BY <1>1, <1>2, FitsKill
<1>4. PICK p \in S : Count(S, p) = 1 /\ T = S \ {p}
  BY <1>3
<1>5. p \in 1..Len(fifo) /\ Len(fifo) \in Nat /\ \A j \in S : j \in 1..Len(fifo) /\ Count(S, j) >= 1
  BY <1>1, LivesCount
<1>6. IsFor(fifo[p], UnderWay[1])
  BY <1>1, <1>4 DEF Fits
<1>7. p <= ScanAhead => p \in Hits(l)
  BY <1>1, <1>5, <1>6 DEF Hits, IsFor
<1>8. pop \in 0..p /\ (p <= ScanAhead => pop # 0)
  <2>1. CASE Hits(l) = {}
    <3>1. pop = 0
      BY <1>1, <2>1, MatchIs, SMTT(30)
    <3> QED BY <1>5, <1>7, <2>1, <3>1
  <2>2. CASE Hits(l) # {}
    <3>1. PICK h \in Hits(l) : pop = h /\ \A k \in Hits(l) : h <= k
      BY <1>1, <2>2, MatchIs, SMTT(30)
    <3>2. h \in 1..Len(fifo) /\ h <= ScanAhead
      BY <1>1, MatchIs
    <3>3. h <= p
      BY <1>1, <1>5, <1>7, <3>1, <3>2
    <3> QED BY <1>5, <3>1, <3>2, <3>3
  <2> QED BY <2>1, <2>2
<1> HIDE DEF S, T, l
<1>9. ASSUME NEW j \in 1..pop PROVE j \notin T
  <2>1. CASE j = p
    BY <1>4, <2>1
  <2>2. CASE j # p
    <3>1. j \in Nat /\ p \in Nat /\ j < p
      BY <1>5, <1>8, <2>2
    <3>2. Count(S, j) < 1 /\ Count(S, j) \in Nat
      BY <1>4, <3>1, CountStrict
    <3>3. j \notin S
      BY <1>5, <3>2
    <3> QED BY <1>4, <3>3
  <2> QED BY <2>1, <2>2
<1> QED BY <1>3, <1>4, <1>6, <1>7, <1>8, <1>9 DEF S, T, l

(* With no drop so far the first entry is that of the oldest packet, and   *)
(* the others stay live.                                                   *)
LEMMA OldestIsFirst ==
  ASSUME fifo \in Seq(Entry), \A j \in 1..Len(fifo) : fifo[j].live,
         NEW p \in Lives(fifo), Count(Lives(fifo), p) = 1
  PROVE  /\ p = 1
         /\ \A j \in 2..Len(fifo) : Gone(1)[j].live
<1> DEFINE S == Lives(fifo)
           n == Len(fifo)
<1>1. n \in Nat /\ p \in 1..n /\ \A j \in 1..n : j \in S
  BY LivesCount DEF Lives
<1>2. Killed(fifo, 1, Gone(1))
  BY GoneKills
<1>3. \A j \in 1..n : Gone(1)[j].live <=> fifo[j].live /\ Count(S, j) # 1
  BY <1>2 DEF Killed
<1> HIDE DEF S
<1>4. Count(S, 1) = 1
  <2>1. 1 \in 1..n /\ 1 \in Nat \ {0} /\ 1 - 1 = 0 /\ 0 \in Nat
    BY <1>1
  <2>2. 1 \in S
    BY <1>1, <2>1
  <2>3. Count(S, 1) = Count(S, 0) + 1
    BY <2>1, <2>2, CountLast
  <2>4. Count(S, 0) = 0
    BY <2>1, CountNat
  <2> QED BY <2>3, <2>4
<1>5. ASSUME NEW j \in 2..n PROVE Count(S, j) # 1 /\ j \in 1..n
  <2>1. j \in Nat /\ 1 \in Nat /\ 1 < j /\ j \in 1..n
    BY <1>1
  <2>2. Count(S, 1) < Count(S, j) /\ Count(S, j) \in Nat
    BY <1>1, <2>1, CountStrict
  <2> QED BY <1>4, <2>1, <2>2
<1>6. p = 1
  <2>1. p # 1 => p \in 2..n
    BY <1>1
  <2> QED BY <1>5, <2>1 DEF S
<1>7. ASSUME NEW j \in 2..n PROVE Gone(1)[j].live
  BY <1>3, <1>5
<1> QED BY <1>6, <1>7

(* The i-th packet under way is sent. *)
LEMMA MatchKeeps ==
  ASSUME OutInv, NEW i \in 1..Len(UnderWay), ClassifyCt(i),
         UnderWay \in Seq(Datagram), UnderWay' \in Seq(Datagram), Without(UnderWay, i, UnderWay')
  PROVE  /\ fifo' \in Seq(Entry) /\ drops' \in 0..ScanAhead
         /\ right' \in BOOLEAN /\ inOrder' \in BOOLEAN /\ missed' \in BOOLEAN
         /\ InOrderFits' /\ NoDropNoDead' /\ FewDead'
<1> DEFINE l == UnderWay[i].ctLen
           pop == Match(l).pop
           rest == SubSeq(Gone(i), pop + 1, Len(fifo))
<1>1. /\ fifo' = (IF i = 1 THEN rest ELSE Unsure(rest))
      /\ inOrder' = (inOrder /\ i = 1)
      /\ drops' = IF inOrder /\ i = 1 THEN drops ELSE 0
      /\ missed' = (inOrder /\ i = 1 /\ (missed \/ Hits(l) = {}))
      /\ right' = (inOrder /\ i = 1 => Match(l).class = UnderWay[i].class)
  BY DEF ClassifyCt
<1>2. /\ fifo \in Seq(Entry) /\ drops \in 0..ScanAhead /\ ScanAhead \in Nat \ {0}
      /\ missed \in BOOLEAN /\ inOrder \in BOOLEAN
  BY OutConstants DEF OutInv, OutTypes
<1>3. Gone(i) \in Seq(Entry) /\ Killed(fifo, i, Gone(i)) /\ Len(Gone(i)) = Len(fifo)
  BY <1>2, GoneKills DEF Killed
<1>4. pop \in 0..Len(fifo) /\ Len(fifo) \in Nat
  <2>1. Hits(l) = {} => pop = 0
    BY <1>2, MatchIs
  <2>2. Hits(l) # {} => pop \in 1..Len(fifo)
    <3>1. ASSUME Hits(l) # {} PROVE pop \in 1..Len(fifo)
      <4>1. PICK h \in Hits(l) : Match(l) = [class |-> fifo[h].class, pop |-> h]
        BY <1>2, <3>1, MatchIs, Zenon
      <4>2. h \in 1..Len(fifo)
        BY <1>2, MatchIs
      <4> QED BY <4>1, <4>2
    <3> QED BY <3>1
  <2> HIDE DEF pop
  <2> QED BY <1>2, <2>1, <2>2
<1> HIDE DEF pop
<1>5. /\ rest \in Seq(Entry) /\ Len(rest) = Len(fifo) - pop
      /\ \A j \in 1..(Len(fifo) - pop) : rest[j] = Gone(i)[j + pop]
  BY <1>3, <1>4, SMTT(30)
<1> HIDE DEF rest
<1>6. fifo' \in Seq(Entry)
  <2>1. Unsure(rest) \in Seq(Entry)
    BY <1>5, UnsureType
  <2> QED BY <1>1, <1>5, <2>1, Zenon
<1>7. /\ right' \in BOOLEAN /\ inOrder' \in BOOLEAN /\ missed' \in BOOLEAN
      /\ drops' \in 0..ScanAhead
  <2>1. right' \in BOOLEAN /\ inOrder' \in BOOLEAN /\ missed' \in BOOLEAN
    BY <1>1, Zenon
  <2>2. 0 \in 0..ScanAhead
    BY <1>2
  <2>3. drops' \in 0..ScanAhead
    BY <1>1, <1>2, <2>2, Zenon
  <2> QED BY <2>1, <2>3
<1>8. CASE ~(inOrder /\ i = 1)
  <2>1. ~inOrder'
    BY <1>1, <1>8, Zenon
  <2>2. InOrderFits' /\ NoDropNoDead' /\ FewDead'
    BY <2>1 DEF InOrderFits, NoDropNoDead, FewDead
  <2> QED BY <1>6, <1>7, <2>2
<1>9. CASE inOrder /\ i = 1
  <2> DEFINE S == Lives(fifo)
             n == Len(fifo)
  <2>1. PICK p \in S :
           /\ Count(S, p) = 1 /\ IsFor(fifo[p], UnderWay[1])
           /\ pop \in 0..p
           /\ p <= ScanAhead => p \in Hits(l) /\ pop # 0
           /\ \A j \in 1..pop : j \notin Lives(Gone(1))
           /\ Fits(Gone(1), UnderWay')
    BY <1>9, OldestEntry DEF pop
  <2>2. /\ p \in 1..n /\ fifo' = rest /\ drops' = drops
        /\ Len(UnderWay') = Len(UnderWay) - 1 /\ Len(UnderWay) \in Nat
    BY <1>1, <1>2, <1>9, LivesCount DEF Without
  <2>3. Fits(fifo', UnderWay')
    <3>1. Fits(SubSeq(Gone(1), pop + 1, Len(Gone(1))), UnderWay')
      BY <1>3, <1>4, <1>9, <2>1, FitsPop
    <3> QED BY <1>3, <1>9, <2>2, <3>1 DEF rest
  <2>4. ASSUME drops' = 0 PROVE right' /\ \A j \in 1..Len(fifo') : fifo'[j].live
    <3>1. \A j \in 1..n : fifo[j].live
      BY <1>9, <2>2, <2>4 DEF OutInv, NoDropNoDead
    <3>2. p = 1 /\ \A j \in 2..n : Gone(1)[j].live
      BY <1>2, <2>1, <3>1, OldestIsFirst
    <3>3. p <= ScanAhead /\ 1 \in Hits(l) /\ pop = 1
      BY <1>2, <2>1, <3>2
    <3>4. Match(l).class = fifo[1].class
      <4>1. PICK h \in Hits(l) : Match(l) = [class |-> fifo[h].class, pop |-> h]
        BY <1>2, <3>3, MatchIs, Zenon
      <4>2. h = 1
        BY <3>3, <4>1 DEF pop
      <4> QED BY <4>1, <4>2
    <3>5. right'
      <4>1. Match(l).class = UnderWay[i].class
        BY <1>9, <2>1, <3>2, <3>4 DEF IsFor
      <4> QED BY <1>1, <4>1, Zenon
    <3>6. ASSUME NEW j \in 1..(n - 1) PROVE rest[j].live
      <4>1. j + 1 \in 2..n
        BY <1>4
      <4>2. rest[j] = Gone(1)[j + 1]
        BY <1>5, <1>9, <3>3, Zenon
      <4> QED BY <3>2, <4>1, <4>2
    <3> QED BY <1>5, <2>2, <3>3, <3>5, <3>6
  <2>5. ASSUME drops' < ScanAhead PROVE ~missed' /\ Len(fifo') <= Len(UnderWay') + drops'
    <3>1. ~missed /\ n <= Len(UnderWay) + drops
      BY <1>9, <2>2, <2>5 DEF OutInv, FewDead
    <3>2. p <= ScanAhead
      <4>1. Count(S, n) = Len(UnderWay)
        BY <1>9 DEF OutInv, InOrderFits, Fits
      <4>2. p \in Nat /\ n \in Nat /\ p <= n
        BY <1>4, <2>2
      <4>3. Count(S, n) - Count(S, p) <= n - p
        BY <4>2, CountGrows
      <4>4. Len(UnderWay) - 1 <= n - p
        BY <2>1, <4>1, <4>3
      <4> QED BY <1>2, <2>2, <2>5, <3>1, <4>2, <4>4
    <3>3. Hits(l) # {} /\ pop # 0
      BY <2>1, <3>2
    <3>4. ~missed'
      BY <1>1, <3>1, <3>3, Zenon
    <3>5. Len(fifo') <= n - 1 /\ Len(fifo') \in Int
      BY <1>4, <1>5, <2>2, <3>3, SMTT(30)
    <3> QED BY <1>2, <1>4, <2>2, <3>1, <3>4, <3>5, SMTT(30)
  <2>6. InOrderFits' /\ NoDropNoDead' /\ FewDead'
    BY <2>3, <2>4, <2>5 DEF InOrderFits, NoDropNoDead, FewDead
  <2> QED BY <1>6, <1>7, <2>6
<1> QED BY <1>8, <1>9

(* A packet at the end of the second part is at the end of the whole. *)
LEMMA AppendLast ==
  ASSUME NEW a \in Seq(Datagram), NEW b \in Seq(Datagram), NEW d \in Datagram
  PROVE  a \o Append(b, d) = Append(a \o b, d)
OBVIOUS

(* One that moves from the second part to the first keeps its place. *)
LEMMA HeadMoves ==
  ASSUME NEW a \in Seq(Datagram), NEW b \in Seq(Datagram), b # <<>>
  PROVE  Append(a, Head(b)) \o Tail(b) = a \o b
<1> DEFINE c == Append(a, Head(b))
           t == Tail(b)
           n == Len(a)
           m == Len(b)
           x == c \o t
           y == a \o b
<1>1. /\ c \in Seq(Datagram) /\ Len(c) = n + 1 /\ t \in Seq(Datagram) /\ Len(t) = m - 1
      /\ n \in Nat /\ m \in Nat \ {0}
      /\ \A k \in 1..n : c[k] = a[k]
      /\ c[n + 1] = b[1]
      /\ \A k \in 1..(m - 1) : t[k] = b[k + 1]
  OBVIOUS
<1> HIDE DEF c, t
<1>2. Joins(c, t, x) /\ Joins(a, b, y) /\ x \in Seq(Datagram) /\ y \in Seq(Datagram)
  BY <1>1, Joined
<1> HIDE DEF x, y, n, m
<1>3. /\ Len(x) = (n + 1) + (m - 1) /\ Len(y) = n + m
      /\ \A k \in 1..(n + m) : (k <= n => y[k] = a[k]) /\ (~(k <= n) => y[k] = b[k - n])
      /\ \A k \in 1..((n + 1) + (m - 1)) :
            (k <= n + 1 => x[k] = c[k]) /\ (~(k <= n + 1) => x[k] = t[k - (n + 1)])
  BY <1>1, <1>2 DEF Joins, n, m
<1>4. Len(x) = Len(y)
  BY <1>1, <1>3
<1>5. ASSUME NEW k \in 1..(n + m) PROVE x[k] = y[k]
  <2>1. k \in 1..((n + 1) + (m - 1))
    BY <1>1
  <2>2. CASE k <= n
    <3>1. k \in 1..n /\ k <= n + 1
      BY <1>1, <2>2
    <3> QED BY <1>1, <1>3, <2>1, <2>2, <3>1, Zenon
  <2>3. CASE k = n + 1
    <3>1. ~(k <= n) /\ k <= n + 1 /\ k - n = 1
      BY <1>1, <2>3
    <3> QED BY <1>1, <1>3, <2>1, <2>3, <3>1, Zenon
  <2>4. CASE ~(k <= n + 1)
    <3>1. ~(k <= n) /\ k - (n + 1) \in 1..(m - 1) /\ (k - (n + 1)) + 1 = k - n
      BY <1>1, <2>4
    <3>2. x[k] = t[k - (n + 1)] /\ y[k] = b[k - n]
      BY <1>3, <2>1, <2>4, <3>1
    <3> QED BY <1>1, <3>1, <3>2
  <2> QED BY <1>1, <2>2, <2>3, <2>4
<1>6. x = y
  BY <1>2, <1>3, <1>4, <1>5
<1> QED BY <1>6 DEF x, y, c, t

(* The packet that Inspect lets into WireGuard, and its entry. *)
LEMMA InspectedIs ==
  ASSUME OutInv, NEW pkt \in Packets, Inspect(pkt)
  PROVE  \E d \in Datagram : \E e \in Entry :
           /\ d.plain /\ IsFor(e, d)
           /\ e.live <=> ((fifo = <<>> /\ UnderWay = <<>>) \/ inOrder)
           /\ inWg' = Append(inWg, d)
           /\ fifo' = IF Len(fifo) < FifoCap THEN Append(fifo, e) ELSE Unsure(fifo)
<1> DEFINE c == Classify(pkt)
           n == ExpectedCtLen(pkt.len)
           p == <<pkt, c>> \in Plainly
           o == (fifo = <<>> /\ UnderWay = <<>>) \/ inOrder
           d == [class |-> c, ctLen |-> n, plain |-> p]
           e == [class |-> c, ctLen |-> n, live |-> o]
<1>1. inWg' = Append(inWg, d) /\ fifo' = IF Len(fifo) < FifoCap THEN Append(fifo, e) ELSE Unsure(fifo)
  BY Zenon DEF Inspect, Pushed
<1>2. c \in Classes
  BY ClassType
<1>3. n \in Int
  BY OutConstants DEF ExpectedCtLen
<1>4. p
  <2>1. Plain(pkt) \subseteq {c}
    BY ClassIsPlain DEF OutInv
  <2> HIDE DEF c
  <2> QED BY <1>2, <2>1 DEF Plainly
<1>5. o \in BOOLEAN
  BY Zenon DEF OutInv, OutTypes
<1>6. p \in BOOLEAN
  <2> DEFINE S == Plainly
  <2> HIDE DEF S, c
  <2>1. (<<pkt, c>> \in S) \in BOOLEAN
    OBVIOUS
  <2> QED BY <2>1 DEF S
<1> HIDE DEF c, n, p, o
<1>7. d \in Datagram /\ e \in Entry
  BY <1>2, <1>3, <1>5, <1>6, Zenon DEF Datagram, Entry
<1>8. d.plain = p /\ e.live = o /\ d.class = e.class /\ d.ctLen = e.ctLen
  OBVIOUS
<1> HIDE DEF d, e
<1> QED BY <1>1, <1>4, <1>7, <1>8, Zenon DEF IsFor, o

(* A packet enters. *)
LEMMA InspectKeeps ==
  ASSUME OutInv, NEW pkt \in Packets, Inspect(pkt)
  PROVE  OutInv'
<1> DEFINE fresh == fifo = <<>> /\ UnderWay = <<>>
           room == Len(fifo) < FifoCap
<1>1. PICK d \in Datagram, e \in Entry :
           /\ d.plain /\ IsFor(e, d)
           /\ e.live <=> (fresh \/ inOrder)
           /\ inWg' = Append(inWg, d)
           /\ fifo' = IF room THEN Append(fifo, e) ELSE Unsure(fifo)
  BY InspectedIs, Zenon
<1>2. /\ flows' = Counted(pkt) /\ pending' = pending
      /\ inOrder' = ((fresh \/ inOrder) /\ room)
      /\ drops' = IF fresh \/ ~room THEN 0 ELSE drops
      /\ missed' = (missed /\ ~(fresh \/ ~room))
      /\ right' = (right \/ fresh \/ ~room)
  BY DEF Inspect
<1>3. /\ inWg \in Seq(Datagram) /\ pending \in Seq(Datagram) /\ fifo \in Seq(Entry)
      /\ drops \in 0..ScanAhead /\ ScanAhead \in Nat \ {0}
  BY OutConstants DEF OutInv, OutTypes
<1>4. UnderWay \in Seq(Datagram) /\ UnderWay' = Append(UnderWay, d)
  <2>1. UnderWay' = pending \o Append(inWg, d)
    BY <1>1, <1>2 DEF UnderWay
  <2> QED BY <1>3, <2>1, AppendLast, Joined DEF UnderWay
<1>5. (fresh \/ inOrder) => Fits(fifo, UnderWay)
  <2>1. Fits(<<>>, <<>>)
    <3>1. Lives(<<>>) = {}
      BY DEF Lives
    <3> QED BY <3>1, CountNat DEF Fits
  <2> QED BY <2>1, Zenon DEF OutInv, InOrderFits
<1> DEFINE u == UnderWay
<1>6. /\ Len(fifo) \in Nat /\ Len(u) \in Nat
      /\ Append(fifo, e) \in Seq(Entry) /\ Len(Append(fifo, e)) = Len(fifo) + 1
      /\ Append(u, d) \in Seq(Datagram) /\ Len(Append(u, d)) = Len(u) + 1
      /\ \A j \in 1..Len(fifo) : Append(fifo, e)[j] = fifo[j]
      /\ Append(fifo, e)[Len(fifo) + 1] = e
      /\ fresh => Len(fifo) = 0 /\ Len(u) = 0
  <2> HIDE DEF u
  <2>1. u \in Seq(Datagram)
    BY <1>4 DEF u
  <2> QED BY <1>3, <2>1 DEF u
<1> HIDE DEF fresh, room, u
<1>7. inOrder' => (fresh \/ inOrder) /\ e.live /\ fifo' = Append(fifo, e)
  BY <1>1, <1>2, Zenon
<1>8. OutTypes'
  <2>1. Unsure(fifo) \in Seq(Entry)
    BY <1>3, UnsureType
  <2>2. fifo' \in Seq(Entry)
    BY <1>1, <1>6, <2>1, Zenon
  <2>3. inWg' \in Seq(Datagram)
    BY <1>1, <1>3
  <2>4. drops' \in 0..ScanAhead
    BY <1>2, <1>3
  <2>5. inOrder' \in BOOLEAN /\ missed' \in BOOLEAN /\ right' \in BOOLEAN
    BY <1>2, Zenon
  <2> QED BY <1>2, <1>3, <2>2, <2>3, <2>4, <2>5, Zenon DEF OutTypes
<1>9. FlowsOK'
  <2>1. CASE Preset(pkt) = {}
    <3>1. flows' = Learnt(pkt)
      BY <1>2, <2>1 DEF Counted
    <3>2. \A f \in DOMAIN Learnt(pkt) : FlowOK(f, Learnt(pkt)[f])
      BY <2>1, LearntOK DEF OutInv
    <3> QED BY <3>1, <3>2, Zenon DEF FlowsOK
  <2>2. CASE Preset(pkt) # {}
    <3>1. flows' = flows
      BY <1>2, <2>2 DEF Counted
    <3> QED BY <3>1, Zenon DEF FlowsOK, OutInv
  <2> QED BY <2>1, <2>2
<1>10. FlowKeepsClass'
  <2>1. \A j \in 1..Len(inWg) : inWg[j].plain
    BY <1>3 DEF OutInv, FlowKeepsClass
  <2>2. /\ DOMAIN Append(inWg, d) = 1..(Len(inWg) + 1)
        /\ \A j \in 1..Len(inWg) : Append(inWg, d)[j] = inWg[j]
        /\ Append(inWg, d)[Len(inWg) + 1] = d
        /\ Len(inWg) \in Nat
    BY <1>3
  <2>3. ASSUME NEW j \in 1..(Len(inWg) + 1) PROVE Append(inWg, d)[j].plain
    <3>1. j \in 1..Len(inWg) \/ j = Len(inWg) + 1
      BY <2>2
    <3> QED BY <1>1, <2>1, <2>2, <3>1, Zenon
  <2> QED BY <1>1, <2>2, <2>3, Zenon DEF FlowKeepsClass
<1>11. InOrderFits'
  <2> SUFFICES ASSUME inOrder' PROVE Fits(fifo', UnderWay')
    BY Zenon DEF InOrderFits
  <2>1. Fits(Append(fifo, e), Append(u, d))
    BY <1>1, <1>3, <1>4, <1>5, <1>7, FitsPush DEF u
  <2> QED BY <1>4, <1>7, <2>1, Zenon DEF u
<1>12. NoDropNoDead'
  <2> SUFFICES ASSUME drops' = 0, inOrder'
               PROVE  right' /\ \A j \in 1..Len(fifo') : fifo'[j].live
    BY Zenon DEF NoDropNoDead
  <2>1. (fresh \/ right) /\ \A j \in 1..Len(fifo) : fifo[j].live
    <3>1. CASE fresh
      BY <1>6, <3>1
    <3>2. CASE ~fresh
      <4>1. drops = 0 /\ inOrder
        BY <1>2, <1>7, <3>2, Zenon
      <4> QED BY <4>1, Zenon DEF OutInv, NoDropNoDead
    <3> QED BY <3>1, <3>2
  <2>2. right'
    BY <1>2, <2>1, Zenon
  <2>3. ASSUME NEW j \in 1..(Len(fifo) + 1) PROVE Append(fifo, e)[j].live
    <3>1. j \in 1..Len(fifo) \/ j = Len(fifo) + 1
      BY <1>6
    <3> QED BY <1>6, <1>7, <2>1, <3>1, Zenon
  <2>4. Len(fifo') = Len(fifo) + 1 /\ fifo' = Append(fifo, e)
    BY <1>6, <1>7, Zenon
  <2> QED BY <2>2, <2>3, <2>4, Zenon
<1>13. FewDead'
  <2> SUFFICES ASSUME drops' < ScanAhead, inOrder'
               PROVE  ~missed' /\ Len(fifo') <= Len(UnderWay') + drops'
    BY Zenon DEF FewDead
  <2>1. Len(fifo') = Len(fifo) + 1 /\ Len(UnderWay') = Len(u) + 1
    BY <1>4, <1>6, <1>7, Zenon DEF u
  <2>2. CASE fresh
    <3>1. drops' = 0 /\ ~missed'
      BY <1>2, <2>2, Zenon
    <3> QED BY <1>6, <2>1, <2>2, <3>1
  <2>3. CASE ~fresh
    <3>1. drops' = drops /\ inOrder
      BY <1>2, <1>7, <2>3, Zenon
    <3>2. ~missed /\ Len(fifo) <= Len(u) + drops
      BY <3>1, Zenon DEF OutInv, FewDead, u
    <3>3. ~missed'
      BY <1>2, <3>2, Zenon
    <3> QED BY <1>3, <1>6, <2>1, <3>1, <3>2, <3>3
  <2> QED BY <2>2, <2>3
<1> QED BY <1>8, <1>9, <1>10, <1>11, <1>12, <1>13, Zenon DEF OutInv

(* A packet leaves WireGuard: the others there keep their place. *)
LEMMA LeavesWg ==
  ASSUME OutTypes, FlowKeepsClass, NEW i \in 1..Len(inWg), NEW c \in Seq(Datagram),
         Without(inWg, i, c), inWg' = c, pending' = pending
  PROVE  /\ UnderWay \in Seq(Datagram) /\ UnderWay' \in Seq(Datagram)
         /\ Len(pending) + i \in 1..Len(UnderWay)
         /\ Without(UnderWay, Len(pending) + i, UnderWay')
         /\ FlowKeepsClass'
<1>1. inWg \in Seq(Datagram) /\ pending \in Seq(Datagram)
  BY Zenon DEF OutTypes
<1>2. UnderWay = pending \o inWg /\ UnderWay' = pending \o c
  BY DEF UnderWay
<1>3. Without(pending \o inWg, Len(pending) + i, pending \o c)
  BY <1>1, WithoutLater, Zenon
<1>4. /\ UnderWay \in Seq(Datagram) /\ UnderWay' \in Seq(Datagram)
      /\ Len(UnderWay) = Len(pending) + Len(inWg) /\ Len(pending) \in Nat /\ Len(inWg) \in Nat
  BY <1>1, <1>2, Joined DEF Joins
<1>5. Len(pending) + i \in 1..Len(UnderWay)
  BY <1>4
<1>6. FlowKeepsClass'
  <2>1. \A j \in 1..Len(inWg) : inWg[j].plain
    BY <1>1 DEF FlowKeepsClass
  <2>2. /\ Len(c) = Len(inWg) - 1 /\ DOMAIN c = 1..Len(c)
        /\ \A k \in 1..Len(c) : (k < i => c[k] = inWg[k]) /\ (~(k < i) => c[k] = inWg[k + 1])
    BY DEF Without
  <2>3. ASSUME NEW k \in 1..Len(c) PROVE c[k].plain
    <3>1. k \in 1..Len(inWg) /\ k + 1 \in 1..Len(inWg)
      BY <1>4, <2>2
    <3> QED BY <2>1, <2>2, <3>1, Zenon
  <2> QED BY <2>2, <2>3, Zenon DEF FlowKeepsClass
<1> QED BY <1>2, <1>3, <1>4, <1>5, <1>6, Zenon

(* WireGuard drops a packet, or no path takes it. *)
LEMMA DroppedKeeps ==
  ASSUME OutInv, NEW i \in 1..Len(inWg), NEW c \in Seq(Datagram), Without(inWg, i, c),
         inWg' = c, pending' = pending, Drop(Len(pending) + i)
  PROVE  OutInv'
<1>1. OutTypes /\ FlowsOK /\ FlowKeepsClass
  BY Zenon DEF OutInv
<1>2. /\ UnderWay \in Seq(Datagram) /\ UnderWay' \in Seq(Datagram)
      /\ Len(pending) + i \in 1..Len(UnderWay)
      /\ Without(UnderWay, Len(pending) + i, UnderWay')
      /\ FlowKeepsClass'
  BY <1>1, LeavesWg, Zenon
<1>3. /\ fifo' \in Seq(Entry) /\ drops' \in 0..ScanAhead
      /\ InOrderFits' /\ NoDropNoDead' /\ FewDead'
  BY <1>2, DropKeeps
<1>4. flows' = flows /\ inOrder' = inOrder /\ missed' = missed /\ right' = right
  BY DEF Drop
<1>5. OutTypes'
  BY <1>1, <1>3, <1>4, Zenon DEF OutTypes
<1>6. FlowsOK'
  BY <1>1, <1>4, Zenon DEF FlowsOK
<1> QED BY <1>2, <1>3, <1>5, <1>6, Zenon DEF OutInv

(* The next datagram is sent. *)
LEMMA SendKeeps == ASSUME OutInv, Send PROVE OutInv'
<1>1. OutTypes /\ FlowsOK /\ FlowKeepsClass
  BY Zenon DEF OutInv
<1>2. /\ inWg # <<>> /\ inWg' = Tail(inWg) /\ pending' = pending
      /\ ClassifyCt(Len(pending) + 1)
  BY DEF Send
<1>3. inWg \in Seq(Datagram)
  BY <1>1, Zenon DEF OutTypes
<1>4. Tail(inWg) \in Seq(Datagram) /\ Without(inWg, 1, Tail(inWg)) /\ 1 \in 1..Len(inWg)
  BY <1>2, <1>3, TailWithout
<1>5. /\ UnderWay \in Seq(Datagram) /\ UnderWay' \in Seq(Datagram)
      /\ Len(pending) + 1 \in 1..Len(UnderWay)
      /\ Without(UnderWay, Len(pending) + 1, UnderWay')
      /\ FlowKeepsClass'
  BY <1>1, <1>2, <1>4, LeavesWg, Zenon
<1>6. /\ fifo' \in Seq(Entry)
      /\ right' \in BOOLEAN /\ inOrder' \in BOOLEAN /\ missed' \in BOOLEAN
      /\ drops' \in 0..ScanAhead
      /\ InOrderFits' /\ NoDropNoDead' /\ FewDead'
  BY <1>2, <1>5, MatchKeeps
<1>7. flows' = flows
  BY <1>2 DEF ClassifyCt
<1>8. OutTypes'
  BY <1>1, <1>2, <1>4, <1>6, <1>7, Zenon DEF OutTypes
<1>9. FlowsOK'
  BY <1>1, <1>7, Zenon DEF FlowsOK
<1> QED BY <1>5, <1>6, <1>8, <1>9, Zenon DEF OutInv

(* The oldest held datagram is sent. *)
LEMMA ReplayKeeps == ASSUME OutInv, Replay PROVE OutInv'
<1>1. OutTypes /\ FlowsOK /\ FlowKeepsClass
  BY Zenon DEF OutInv
<1>2. /\ pending # <<>> /\ inWg' = inWg /\ pending' = Tail(pending) /\ ClassifyCt(1)
  BY DEF Replay
<1>3. inWg \in Seq(Datagram) /\ pending \in Seq(Datagram)
  BY <1>1, Zenon DEF OutTypes
<1>4. Tail(pending) \in Seq(Datagram) /\ 1 \in 1..Len(pending)
  BY <1>2, <1>3, TailWithout
<1>5. UnderWay = pending \o inWg /\ UnderWay' = Tail(pending) \o inWg
  BY <1>2 DEF UnderWay
<1>6. UnderWay \in Seq(Datagram) /\ UnderWay' \in Seq(Datagram) /\ Without(UnderWay, 1, UnderWay')
  BY <1>2, <1>3, <1>4, <1>5, Joined, WithoutFirst
<1>7. 1 \in 1..Len(UnderWay)
  <2>1. Len(UnderWay) = Len(pending) + Len(inWg) /\ Len(pending) \in Nat /\ Len(inWg) \in Nat
    BY <1>3, <1>5, Joined DEF Joins
  <2> QED BY <1>4, <2>1
<1>8. /\ fifo' \in Seq(Entry)
      /\ right' \in BOOLEAN /\ inOrder' \in BOOLEAN /\ missed' \in BOOLEAN
      /\ drops' \in 0..ScanAhead
      /\ InOrderFits' /\ NoDropNoDead' /\ FewDead'
  BY <1>2, <1>6, <1>7, MatchKeeps
<1>9. flows' = flows
  BY <1>2 DEF ClassifyCt
<1>10. OutTypes'
  BY <1>1, <1>2, <1>4, <1>8, <1>9, Zenon DEF OutTypes
<1>11. FlowsOK' /\ FlowKeepsClass'
  BY <1>1, <1>2, <1>9, Zenon DEF FlowsOK, FlowKeepsClass
<1> QED BY <1>8, <1>10, <1>11, Zenon DEF OutInv

(* The client holds a datagram. *)
LEMMA HoldKeeps == ASSUME OutInv, HoldPending PROVE OutInv'
<1>1. OutTypes /\ FlowsOK /\ FlowKeepsClass /\ InOrderFits /\ NoDropNoDead /\ FewDead
  BY Zenon DEF OutInv
<1>2. /\ inWg # <<>> /\ pending' = Append(pending, Head(inWg)) /\ inWg' = Tail(inWg)
      /\ flows' = flows /\ fifo' = fifo /\ drops' = drops
      /\ inOrder' = inOrder /\ missed' = missed /\ right' = right
  BY DEF HoldPending, history
<1>3. inWg \in Seq(Datagram) /\ pending \in Seq(Datagram)
  BY <1>1, Zenon DEF OutTypes
<1>4. /\ Tail(inWg) \in Seq(Datagram) /\ Len(inWg) \in Nat /\ Without(inWg, 1, Tail(inWg))
      /\ Head(inWg) \in Datagram
  BY <1>2, <1>3, TailWithout
<1>5. UnderWay' = UnderWay
  BY <1>2, <1>3, HeadMoves, Zenon DEF UnderWay
<1>6. OutTypes'
  <2>1. pending' \in Seq(Datagram)
    BY <1>2, <1>3, <1>4
  <2> QED BY <1>1, <1>2, <1>4, <2>1, Zenon DEF OutTypes
<1>7. FlowKeepsClass'
  <2> DEFINE c == Tail(inWg)
  <2>1. \A j \in 1..Len(inWg) : inWg[j].plain
    BY <1>1, <1>3 DEF FlowKeepsClass
  <2>2. /\ Len(c) = Len(inWg) - 1 /\ DOMAIN c = 1..Len(c)
        /\ \A k \in 1..Len(c) : ~(k < 1) => c[k] = inWg[k + 1]
    BY <1>4 DEF Without
  <2> HIDE DEF c
  <2>3. ASSUME NEW k \in 1..Len(c) PROVE c[k].plain
    <3>1. ~(k < 1) /\ k + 1 \in 1..Len(inWg)
      BY <1>4, <2>2
    <3> QED BY <2>1, <2>2, <3>1, Zenon
  <2> QED BY <1>2, <2>2, <2>3, Zenon DEF FlowKeepsClass, c
<1>8. FlowsOK' /\ InOrderFits' /\ NoDropNoDead' /\ FewDead'
  BY <1>1, <1>2, <1>5, Zenon DEF FlowsOK, InOrderFits, NoDropNoDead, FewDead
<1> QED BY <1>6, <1>7, <1>8, Zenon DEF OutInv

(* Every step keeps the invariant. *)
LEMMA NextOutInv == OutInv /\ [OutNext]_outVars => OutInv'
<1> SUFFICES ASSUME OutInv, [OutNext]_outVars PROVE OutInv'
  OBVIOUS
<1>1. inWg \in Seq(Datagram)
  BY Zenon DEF OutInv, OutTypes
<1>2. ASSUME NEW pkt \in Packets, Inspect(pkt) PROVE OutInv'
  BY <1>2, InspectKeeps
<1>3. ASSUME NEW i \in DOMAIN inWg, WgDrop(i) PROVE OutInv'
  <2>1. i \in 1..Len(inWg)
    BY <1>1
  <2>2. /\ inWg' = SubSeq(inWg, 1, i - 1) \o SubSeq(inWg, i + 1, Len(inWg))
        /\ pending' = pending /\ Drop(Len(pending) + i)
    BY <1>3 DEF WgDrop
  <2>3. inWg' \in Seq(Datagram) /\ Without(inWg, i, inWg')
    BY <1>1, <2>1, <2>2, RemovedAt, Zenon
  <2> QED BY <2>1, <2>2, <2>3, DroppedKeeps, Zenon
<1>4. CASE HoldPending
  BY <1>4, HoldKeeps
<1>5. CASE NoPath
  <2>1. inWg # <<>> /\ inWg' = Tail(inWg) /\ pending' = pending /\ Drop(Len(pending) + 1)
    BY <1>5 DEF NoPath
  <2>2. Tail(inWg) \in Seq(Datagram) /\ Without(inWg, 1, Tail(inWg)) /\ 1 \in 1..Len(inWg)
    BY <1>1, <2>1, TailWithout
  <2> QED BY <2>1, <2>2, DroppedKeeps, Zenon
<1>6. CASE Send
  BY <1>6, SendKeeps
<1>7. CASE Replay
  BY <1>7, ReplayKeeps
<1>8. CASE UNCHANGED outVars
  <2>1. /\ flows' = flows /\ fifo' = fifo /\ inWg' = inWg /\ pending' = pending
        /\ drops' = drops /\ inOrder' = inOrder /\ missed' = missed /\ right' = right
    BY <1>8 DEF outVars, history
  <2>2. UnderWay' = UnderWay
    BY <2>1, Zenon DEF UnderWay
  <2> QED BY <2>1, <2>2, Zenon
          DEF OutInv, OutTypes, FlowsOK, FlowKeepsClass, InOrderFits, NoDropNoDead, FewDead
<1> QED BY <1>2, <1>3, <1>4, <1>5, <1>6, <1>7, <1>8, Zenon DEF OutNext

(* So it always holds. *)
THEOREM OutInvariant == OutSpec => []OutInv
BY InitOutInv, NextOutInv, PTL DEF OutSpec

(* The i-th live entry of the FIFO is always that of the i-th packet under *)
(* way: Match never takes the entry of a packet that has yet to come.      *)
THEOREM EntriesKept == OutSpec => []EntriesStay
<1>1. OutInv => EntriesStay
  <2> SUFFICES ASSUME OutInv, inOrder
               PROVE  /\ LiveUpTo(Len(fifo)) = Len(UnderWay)
                      /\ \A j \in DOMAIN fifo : fifo[j].live =>
                           /\ fifo[j].class = UnderWay[LiveUpTo(j)].class
                           /\ fifo[j].ctLen = UnderWay[LiveUpTo(j)].ctLen
    BY Zenon DEF EntriesStay
  <2>1. fifo \in Seq(Entry) /\ Fits(fifo, UnderWay)
    BY Zenon DEF OutInv, OutTypes, InOrderFits
  <2>2. Len(fifo) \in 0..Len(fifo) /\ DOMAIN fifo = 1..Len(fifo)
        /\ \A j \in 1..Len(fifo) : j \in 0..Len(fifo)
    BY <2>1
  <2>3. LiveUpTo(Len(fifo)) = Len(UnderWay)
    BY <2>1, <2>2, LiveUpToIs DEF Fits
  <2>4. ASSUME NEW j \in 1..Len(fifo), fifo[j].live
        PROVE  IsFor(fifo[j], UnderWay[LiveUpTo(j)])
    <3>1. LiveUpTo(j) = Count(Lives(fifo), j) /\ j \in Lives(fifo)
      BY <2>1, <2>2, <2>4, LiveUpToIs DEF Lives
    <3> QED BY <2>1, <3>1, Zenon DEF Fits
  <2> QED BY <2>2, <2>3, <2>4, Zenon DEF IsFor
<1> QED BY <1>1, OutInvariant, PTL

(* Correlate without a drop: while nothing is dropped, the FIFO has room   *)
(* and nothing is overtaken, every datagram gets the class of its packet.  *)
THEOREM RightInOrder == OutSpec => []RightWithoutDrops
<1>1. OutInv => RightWithoutDrops
  BY Zenon DEF OutInv, NoDropNoDead, RightWithoutDrops
<1> QED BY <1>1, OutInvariant, PTL

(* With fewer drops than MatchCiphertext looks ahead, every datagram finds *)
(* an entry.                                                               *)
THEOREM DropsHandled == OutSpec => []DropsAbsorbed
<1>1. OutInv => DropsAbsorbed
  BY Zenon DEF OutInv, FewDead, DropsAbsorbed
<1> QED BY <1>1, OutInvariant, PTL

(* A flow whose packets lie on one side of its threshold keeps its class   *)
(* through every clearing of the table, and so does one with a preset one. *)
THEOREM FlowsKeepClass == OutSpec => []FlowKeepsClass
<1>1. OutInv => FlowKeepsClass
  BY Zenon DEF OutInv
<1> QED BY <1>1, OutInvariant, PTL

=============================================================================
