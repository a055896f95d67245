-------------------------- MODULE FecStreamProofs --------------------------
(***************************************************************************)
(* Proofs about FecStream for every set of geometries, every size of the   *)
(* decoder's table, sweep interval and expiry, and any number of restarts, *)
(* as long as group ids do not repeat.                                     *)
(***************************************************************************)
EXTENDS FecStream, Facts, FiniteSetTheorems, TLAPS

Datagram == [group: Nat, index: Nat, k: Nat, m: Nat]
Log(s) == {s[i] : i \in DOMAIN s}

(* The encoder: every group takes at least one packet. *)
EncInv ==
  /\ params \in Geometries /\ m \in Nat /\ shards \in Seq(Nat)
  /\ nextGroup \in Nat /\ base \in 0..nextGroup
  /\ globalSeq \in nextGroup..MaxPackets
  /\ shards # <<>> => base < nextGroup

(* The groups so far; the last one may still be open. *)
ContentInv ==
  /\ DOMAIN content = 0..(nextGroup - 1)
  /\ \A n \in 0..(nextGroup - 1) : content[n] \in Seq(Nat) /\ Len(content[n]) > 0
  /\ shards # <<>> => content[OpenGroup] = shards

(* What is on the wire belongs to this run of the sender, and parity to a  *)
(* closed group, all of it with one geometry.                              *)
Honest(d) ==
  /\ d.group \in base..(nextGroup - 1)
  /\ d.k = 0 => d.index < Len(content[d.group])
  /\ d.k > 0 => /\ Closed(d.group) /\ d.k = Len(content[d.group])
                /\ d.index \in d.k..(d.k + d.m - 1)

NetInv ==
  /\ net \in Seq(Datagram)
  /\ \A d \in Log(net) : Honest(d)
  /\ \A d, e \in Log(net) : (d.group = e.group /\ d.k > 0 /\ e.k > 0) => d.m = e.m

(* An entry of the decoder's table. *)
Entry(g) ==
  /\ g = [shards |-> g.shards, k |-> g.k, m |-> g.m, age |-> g.age]
  /\ g.k \in Nat /\ g.m \in Nat
  /\ DOMAIN g.shards \subseteq Nat /\ IsFiniteSet(DOMAIN g.shards) /\ DOMAIN g.shards # {}
  /\ \A i \in DOMAIN g.shards : g.shards[i] \in Nat

(* Entry g holds shards of group n of the current run and of no other, and *)
(* not enough of them to be repaired once the geometry is known.           *)
Clean(g, n) ==
  /\ n < nextGroup
  /\ \A i \in DOMAIN g.shards : g.shards[i] = n
  /\ g.k = 0 => \A i \in DOMAIN g.shards : i < Len(content[n])
  /\ g.k > 0 => /\ \E d \in Log(net) : d.group = n /\ d.k = g.k /\ d.m = g.m
                /\ \A i \in DOMAIN g.shards : i < g.k + g.m
                /\ Cardinality(DOMAIN g.shards) < g.k

(* Entry g was there at a restart. *)
Tainted(g, n) == Heir(n) /\ \A i \in DOMAIN g.shards : LeftOver(g.shards[i])

TableInv ==
  /\ DOMAIN groups \subseteq GroupIds /\ IsFiniteSet(DOMAIN groups) /\ GroupsBounded
  /\ \A id \in DOMAIN groups :
       Entry(groups[id]) /\ (Clean(groups[id], base + id) \/ Tainted(groups[id], base + id))

(* The receiver has all packets of group n, some of them repaired. *)
Restored(n) ==
  Closed(n) /\ \A i \in 0..(Len(content[n]) - 1) : <<n, i>> \in arrived \/ <<{n}, i>> \in recovered

(* What arrived of group n is what the decoder holds of it. *)
ArrivedOf(n) == {a \in arrived : a[1] = n}
HeldOf(n) == IF n - base \in DOMAIN groups THEN DOMAIN groups[n - base].shards ELSE {}
Tag(n, S) == {<<n, i>> : i \in S}
Tracked(n) == ArrivedOf(n) = Tag(n, HeldOf(n))

(* A group of a run that ended, of which too little arrived. *)
Short(n) == ~(Cardinality(ArrivedOf(n)) >= Len(content[n]))

RepairInv ==
  /\ arrived \subseteq (0..(nextGroup - 1)) \X Nat
  /\ \A n \in 0..(nextGroup - 1) :
       (n \notin forgotten /\ ~Heir(n)) =>
         Restored(n) \/ (n >= base /\ Tracked(n)) \/ (n < base /\ Short(n))

RecoveredInv == RecoveredIsSent /\ \A r \in recovered : r[1] \subseteq Nat

(* The inductive invariant. *)
IInv == EncInv /\ ContentInv /\ NetInv /\ TableInv /\ RepairInv /\ RecoveredInv

----------------------------------------------------------------------------
(* Lemmas on sequences and counting. *)

(* What a log holds after more is appended to it. *)
LEMMA LogConcat ==
  ASSUME NEW S, NEW s \in Seq(S), NEW t \in Seq(S)
  PROVE  s \o t \in Seq(S) /\ Log(s \o t) = Log(s) \union Log(t)
<1>1. /\ Len(s) \in Nat /\ Len(t) \in Nat /\ Len(s \o t) = Len(s) + Len(t) /\ s \o t \in Seq(S)
      /\ DOMAIN s = 1..Len(s) /\ DOMAIN t = 1..Len(t) /\ DOMAIN (s \o t) = 1..(Len(s) + Len(t))
      /\ \A i \in 1..(Len(s) + Len(t)) : (s \o t)[i] = IF i <= Len(s) THEN s[i] ELSE t[i - Len(s)]
  OBVIOUS
<1>2. ASSUME NEW i \in DOMAIN (s \o t) PROVE (s \o t)[i] \in Log(s) \union Log(t)
  <2>1. CASE i <= Len(s)
    BY <1>1, <2>1 DEF Log
  <2>2. CASE ~(i <= Len(s))
    <3>1. i - Len(s) \in 1..Len(t) /\ (s \o t)[i] = t[i - Len(s)]
      BY <1>1, <2>2
    <3> QED BY <1>1, <3>1 DEF Log
  <2> QED BY <2>1, <2>2
<1>3. ASSUME NEW i \in DOMAIN s PROVE s[i] \in Log(s \o t)
  <2>1. i \in 1..(Len(s) + Len(t)) /\ (s \o t)[i] = s[i]
    BY <1>1
  <2> QED BY <1>1, <2>1 DEF Log
<1>4. ASSUME NEW i \in DOMAIN t PROVE t[i] \in Log(s \o t)
  <2>1. /\ i + Len(s) \in 1..(Len(s) + Len(t)) /\ ~(i + Len(s) <= Len(s))
        /\ i + Len(s) - Len(s) = i
    BY <1>1
  <2>2. (s \o t)[i + Len(s)] = t[i]
    BY <1>1, <2>1
  <2> QED BY <1>1, <2>1, <2>2 DEF Log
<1> QED BY <1>1, <1>2, <1>3, <1>4, Zenon DEF Log

(* Tagging the members of a finite set does not change their number. *)
LEMMA TagCount ==
  ASSUME NEW S, IsFiniteSet(S), NEW n
  PROVE  Cardinality(Tag(n, S)) = Cardinality(S)
<1> USE DEF Tag
<1> DEFINE T == Tag(n, S)
           f == [i \in S |-> <<n, i>>]
<1>1. f \in Bijection(S, T)
  <2>1. f \in [S -> T] /\ \A i, j \in S : f[i] = f[j] => i = j
    OBVIOUS
  <2>2. \A t \in T : \E i \in S : f[i] = t
    OBVIOUS
  <2> QED BY <2>1, <2>2, Zenon DEF Bijection, Injection, IsInjective, Surjection
<1> HIDE DEF f, T
<1>2. ExistsBijection(S, T)
  BY <1>1 DEF ExistsBijection
<1>3. Cardinality(T) = Cardinality(S)
  BY <1>2, FS_Bijection
<1> QED BY <1>3 DEF T

(* A longer interval holds a shorter one. *)
LEMMA Widens ==
  ASSUME NEW a \in Nat, NEW b \in Nat, b >= a
  PROVE  0..(a - 1) \subseteq 0..(b - 1)
OBVIOUS

(* k distinct indices below k are all of them. *)
LEMMA AllIndices ==
  ASSUME NEW c \in Nat, NEW S, S \subseteq 0..(c - 1), Cardinality(S) >= c
  PROVE  S = 0..(c - 1)
<1> DEFINE T == 0..(c - 1)
<1>1. IsFiniteSet(T) /\ Cardinality(T) = c
  <2>1. 0 \in Int /\ c - 1 \in Int
    OBVIOUS
  <2>2. IsFiniteSet(T) /\ Cardinality(T) = IF 0 > c - 1 THEN 0 ELSE (c - 1) - 0 + 1
    BY <2>1, FS_Interval
  <2> HIDE DEF T
  <2> QED BY <2>2
<1>2. S \subseteq T
  OBVIOUS
<1> HIDE DEF T
<1>3. IsFiniteSet(S) /\ Cardinality(S) \in Nat /\ Cardinality(S) <= Cardinality(T)
  BY <1>1, <1>2, FS_Subset, FS_CardinalityType, Zenon
<1>4. Cardinality(S) = Cardinality(T)
  BY <1>1, <1>3
<1>5. S = T
  BY <1>1, <1>2, <1>4, FS_Subset, Zenon
<1> QED BY <1>5 DEF T

(* Group ids do not repeat. *)
LEMMA IdOfGroup ==
  ASSUME EncInv, NEW n \in base..(nextGroup - 1)
  PROVE  GroupID(n) = n - base /\ n - base \in GroupIds /\ base + (n - base) = n
<1>1. /\ GroupMod \in Nat \ {0} /\ GroupIds = 0..(GroupMod - 1)
      /\ MaxPackets \in Nat /\ MaxPackets <= GroupMod
  BY EncoderAssumption, StreamAssumption
<1>2. n - base \in Int /\ 0 <= n - base /\ n - base < GroupMod /\ base + (n - base) = n
  BY <1>1 DEF EncInv
<1>3. (n - base) % GroupMod = n - base
  <2> DEFINE a == n - base
  <2>1. a \in Int /\ 0 <= a /\ a < GroupMod
    BY <1>2
  <2> HIDE DEF a
  <2>2. a % GroupMod = a
    BY <1>1, <2>1, ModUnique
  <2> QED BY <2>2 DEF a
<1> QED BY <1>1, <1>2, <1>3 DEF GroupID

----------------------------------------------------------------------------
(* The initial state. *)

(* The invariant holds before the first packet. *)
LEMMA InitIInv == StreamInit => IInv
<1> SUFFICES ASSUME StreamInit PROVE IInv
  OBVIOUS
<1> USE DEF StreamInit, EncInit, DecInit
<1>1. EncInv
  BY StreamAssumption DEF EncInv
<1>2. ContentInv
  BY DEF ContentInv
<1>3. NetInv
  <2>1. net \in Seq(Datagram) /\ Log(net) = {}
    BY DEF Log
  <2> QED BY <2>1 DEF NetInv
<1>4. TableInv
  <2>1. DOMAIN groups = {}
    OBVIOUS
  <2>2. IsFiniteSet({}) /\ Cardinality({}) = 0
    BY FS_EmptySet
  <2> QED BY <2>1, <2>2, DecoderAssumption DEF TableInv, GroupsBounded
<1>5. RepairInv
  BY DEF RepairInv
<1>6. RecoveredInv
  BY DEF RecoveredInv, RecoveredIsSent
<1> QED BY <1>1, <1>2, <1>3, <1>4, <1>5, <1>6 DEF IInv

----------------------------------------------------------------------------
(* Steps of the sender and of the clock. *)

(* What such a step does not undo: groups stay closed and keep their       *)
(* packets, datagrams stay on the wire, entries keep their shards.         *)
Evolves ==
  /\ base' = base /\ nextGroup' \in Nat /\ nextGroup' >= nextGroup
  /\ \A n \in 0..(nextGroup - 1) :
       /\ Closed(n) => Closed(n)' /\ content'[n] = content[n]
       /\ Len(content'[n]) \in Nat /\ Len(content'[n]) >= Len(content[n])
  /\ Log(net) \subseteq Log(net')
  /\ DOMAIN groups' = DOMAIN groups
  /\ \A id \in DOMAIN groups :
       /\ Entry(groups'[id]) /\ groups'[id].shards = groups[id].shards
       /\ groups'[id].k = groups[id].k /\ groups'[id].m = groups[id].m
  /\ UNCHANGED <<recovered, arrived, forgotten, left>>

(* A group of an earlier run is closed. *)
LEMMA OldIsClosed ==
  ASSUME EncInv, NEW n \in 0..(base - 1)
  PROVE  Closed(n) /\ n \in 0..(nextGroup - 1)
BY DEF EncInv, Closed, OpenGroup

(* The decoder's table after such a step. *)
LEMMA EvolvesTable ==
  ASSUME EncInv, ContentInv, TableInv, Evolves
  PROVE  TableInv'
<1>1. DOMAIN groups' = DOMAIN groups /\ base' = base /\ left' = left
  BY DEF Evolves
<1>2. DOMAIN groups' \subseteq GroupIds /\ IsFiniteSet(DOMAIN groups') /\ GroupsBounded'
  BY <1>1 DEF TableInv, GroupsBounded
<1>3. ASSUME NEW id \in DOMAIN groups
      PROVE  Entry(groups'[id]) /\ (Clean(groups[id], base + id)' \/ Tainted(groups[id], base + id)')
  <2> DEFINE n == base + id
             g == groups[id]
             h == groups'[id]
  <2>1. Entry(h) /\ h.shards = g.shards /\ h.k = g.k /\ h.m = g.m
    BY DEF Evolves
  <2>2. CASE Tainted(g, n)
    BY <1>1, <2>1, <2>2 DEF Tainted, Heir, LeftOver
  <2>3. CASE Clean(g, n)
    <3>1. n \in 0..(nextGroup - 1)
      BY <2>3, StreamAssumption, EncoderAssumption DEF Clean, EncInv, TableInv
    <3>2. /\ nextGroup \in Nat /\ nextGroup' \in Nat /\ nextGroup' >= nextGroup
          /\ Len(content[n]) \in Nat /\ Len(content'[n]) \in Nat
          /\ Len(content'[n]) >= Len(content[n])
      BY <3>1 DEF Evolves, EncInv, ContentInv
    <3>3. n < nextGroup'
      BY <3>1, <3>2
    <3>4. ASSUME h.k = 0, NEW i \in DOMAIN h.shards PROVE i < Len(content'[n])
      <4>1. i < Len(content[n]) /\ i \in Nat
        BY <2>1, <2>3, <3>4 DEF Clean, Entry
      <4> QED BY <3>2, <4>1
    <3>5. h.k > 0 => \E d \in Log(net') : d.group = n /\ d.k = h.k /\ d.m = h.m
      BY <2>1, <2>3 DEF Clean, Evolves
    <3>6. /\ \A i \in DOMAIN h.shards : h.shards[i] = n
          /\ h.k > 0 => /\ \A i \in DOMAIN h.shards : i < h.k + h.m
                        /\ Cardinality(DOMAIN h.shards) < h.k
      BY <2>1, <2>3 DEF Clean
    <3> QED BY <1>1, <2>1, <3>3, <3>4, <3>5, <3>6 DEF Clean
  <2> QED BY <2>1, <2>2, <2>3 DEF TableInv
<1> QED BY <1>1, <1>2, <1>3 DEF TableInv

(* What was recovered is still what was sent. *)
LEMMA EvolvesRecovered ==
  ASSUME EncInv, RecoveredInv, Evolves
  PROVE  RecoveredInv'
<1> SUFFICES ASSUME NEW r \in recovered
             PROVE  \/ \E n \in r[1] : r[1] = {n} /\ Closed(n)' /\ <<n, r[2]>> \in PacketsOf(n)'
                    \/ \E n \in r[1] : LeftOver(n)'
  BY Zenon DEF RecoveredInv, RecoveredIsSent, Evolves
<1>1. CASE \E n \in r[1] : LeftOver(n)
  BY <1>1 DEF LeftOver, Evolves
<1>2. ASSUME NEW n \in r[1], r[1] = {n}, Closed(n), <<n, r[2]>> \in PacketsOf(n)
      PROVE  Closed(n)' /\ <<n, r[2]>> \in PacketsOf(n)'
  <2>1. n \in 0..(nextGroup - 1)
    BY <1>2 DEF RecoveredInv, Closed, EncInv
  <2>2. Closed(n)' /\ content'[n] = content[n]
    BY <1>2, <2>1 DEF Evolves
  <2> QED BY <1>2, <2>2 DEF PacketsOf
<1> QED BY <1>1, <1>2, Zenon DEF RecoveredInv, RecoveredIsSent

(* An entry for an id that no group of this run has yet is left over. *)
LEMMA EntryOfNext ==
  ASSUME EncInv, TableInv, NEW n \in Nat, n >= nextGroup, n - base \in DOMAIN groups
  PROVE  Heir(n)
<1>1. base + (n - base) = n /\ ~(n < nextGroup)
  BY DEF EncInv
<1> QED BY <1>1 DEF TableInv, Clean, Tainted

(* What arrived, after such a step. *)
LEMMA EvolvesRepair ==
  ASSUME EncInv, ContentInv, TableInv, RepairInv, Evolves
  PROVE  RepairInv'
<1>1. /\ nextGroup \in Nat /\ nextGroup' \in Nat /\ nextGroup' >= nextGroup /\ base' = base
      /\ base \in 0..nextGroup
      /\ arrived' = arrived /\ left' = left /\ forgotten' = forgotten /\ recovered' = recovered
  BY DEF Evolves, EncInv
<1>2. arrived' \subseteq (0..(nextGroup' - 1)) \X Nat
  <2>1. 0..(nextGroup - 1) \subseteq 0..(nextGroup' - 1)
    BY <1>1, Widens, Zenon
  <2> QED BY <1>1, <2>1 DEF RepairInv
<1>3. ASSUME NEW n PROVE HeldOf(n)' = HeldOf(n) /\ ArrivedOf(n)' = ArrivedOf(n)
                         /\ Heir(n)' = Heir(n)
  BY <1>1 DEF HeldOf, ArrivedOf, Heir, Evolves
<1>4. ASSUME NEW n \in 0..(nextGroup' - 1), n \notin forgotten, ~Heir(n)
      PROVE  Restored(n)' \/ (n >= base /\ Tracked(n)') \/ (n < base /\ Short(n)')
  <2>1. CASE n \in 0..(nextGroup - 1)
    <3>1. CASE Restored(n)
      BY <1>1, <2>1, <3>1, Zenon DEF Restored, Evolves
    <3>2. CASE n >= base /\ Tracked(n)
      BY <1>3, <3>2 DEF Tracked
    <3>3. CASE n < base /\ Short(n)
      <4>1. n \in 0..(base - 1)
        BY <1>1, <2>1, <3>3
      <4>2. content'[n] = content[n]
        BY <2>1, <4>1, OldIsClosed DEF Evolves
      <4> QED BY <1>3, <3>3, <4>2 DEF Short
    <3> QED BY <1>4, <2>1, <3>1, <3>2, <3>3 DEF RepairInv
  <2>2. CASE ~(n \in 0..(nextGroup - 1))
    <3>1. n \in Nat /\ n >= nextGroup /\ n >= base
      BY <1>1, <2>2
    <3>2. n - base \notin DOMAIN groups
      BY <1>4, <3>1, EntryOfNext
    <3>3. HeldOf(n) = {}
      BY <3>2 DEF HeldOf
    <3>4. ArrivedOf(n) = {}
      BY <2>2 DEF ArrivedOf, RepairInv
    <3>5. Tracked(n)'
      BY <1>3, <3>3, <3>4 DEF Tracked, Tag
    <3> QED BY <3>1, <3>5
  <2> QED BY <2>1, <2>2
<1> QED BY <1>1, <1>2, <1>3, <1>4, Zenon DEF RepairInv

(* Datagrams of group a, which was not closed, join the wire. *)
LEMMA NetGrows ==
  ASSUME EncInv, ContentInv, NetInv, Evolves, NEW a, ~Closed(a),
         NEW t \in Seq(Datagram), net' = net \o t,
         \A d \in Log(t) : d.group = a /\ Honest(d)',
         \A d, e \in Log(t) : (d.k > 0 /\ e.k > 0) => d.m = e.m
  PROVE  NetInv'
<1>1. net' \in Seq(Datagram) /\ Log(net') = Log(net) \union Log(t)
  BY LogConcat DEF NetInv
<1>2. ASSUME NEW d \in Log(net) PROVE Honest(d)'
  <2>1. Honest(d) /\ d \in Datagram
    BY DEF NetInv, Log
  <2>2. /\ d.group \in 0..(nextGroup - 1) /\ d.group \in base'..(nextGroup' - 1)
        /\ nextGroup \in Nat
    BY <2>1 DEF Honest, EncInv, Evolves
  <2>3. /\ Closed(d.group) => Closed(d.group)' /\ content'[d.group] = content[d.group]
        /\ Len(content'[d.group]) \in Nat /\ Len(content'[d.group]) >= Len(content[d.group])
        /\ Len(content[d.group]) \in Nat /\ d.index \in Nat
    <3>1. ASSUME NEW n \in 0..(nextGroup - 1)
          PROVE  /\ Closed(n) => Closed(n)' /\ content'[n] = content[n]
                 /\ Len(content'[n]) \in Nat /\ Len(content'[n]) >= Len(content[n])
      BY DEF Evolves
    <3>2. Len(content[d.group]) \in Nat
      BY <2>2 DEF ContentInv
    <3>3. d.index \in Nat
      BY <2>1 DEF Datagram
    <3> QED BY <2>2, <3>1, <3>2, <3>3
  <2>4. d.k = 0 => d.index < Len(content'[d.group])
    BY <2>1, <2>3 DEF Honest
  <2> QED BY <2>1, <2>2, <2>3, <2>4 DEF Honest
<1>3. \A d \in Log(net) : d.k > 0 => d.group # a
  BY DEF NetInv, Honest
<1>4. \A d, e \in Log(net') : (d.group = e.group /\ d.k > 0 /\ e.k > 0) => d.m = e.m
  BY <1>1, <1>3 DEF NetInv
<1> QED BY <1>1, <1>2, <1>4 DEF NetInv

(* The parity shards of a group. *)
LEMMA ParityLog ==
  ASSUME NEW n \in Nat, NEW all \in Seq(Nat), NEW c \in Nat
  PROVE  /\ Parity(n, all, c) \in Seq(Datagram)
         /\ \A d \in Log(Parity(n, all, c)) :
              d.group = n /\ d.k = Len(all) /\ d.m = c /\ d.index \in d.k..(d.k + d.m - 1)
<1> DEFINE e(i) == [group |-> n, index |-> Len(all) + i - 1, k |-> Len(all), m |-> c]
<1>1. Len(all) \in Nat
  OBVIOUS
<1>2. ASSUME NEW i \in 1..c
      PROVE  /\ e(i) \in Datagram
             /\ e(i).group = n /\ e(i).k = Len(all) /\ e(i).m = c
             /\ e(i).index \in e(i).k..(e(i).k + e(i).m - 1)
  <2>1. Len(all) + i - 1 \in Nat /\ Len(all) + i - 1 \in Len(all)..(Len(all) + c - 1)
    BY <1>1
  <2> QED BY <1>1, <2>1 DEF Datagram
<1>3. Parity(n, all, c) = [i \in 1..c |-> e(i)]
  BY DEF Parity
<1> HIDE DEF e
<1>4. Parity(n, all, c) \in Seq(Datagram)
  BY <1>2, <1>3
<1> QED BY <1>2, <1>3, <1>4 DEF Log

(* Assembling the invariant after a step of the sender. *)
LEMMA EvolvesIInv ==
  ASSUME IInv, Evolves, EncInv', ContentInv', NetInv'
  PROVE  IInv'
BY EvolvesTable, EvolvesRecovered, EvolvesRepair DEF IInv

(* A step that leaves groups and datagrams alone. *)
LEMMA QuietEvolves ==
  ASSUME EncInv, ContentInv, TableInv,
         UNCHANGED <<nextGroup, base, shards, net, content, groups>>,
         UNCHANGED <<recovered, arrived, forgotten, left>>
  PROVE  Evolves
<1>1. ASSUME NEW n \in 0..(nextGroup - 1)
      PROVE  /\ Closed(n)' = Closed(n) /\ content'[n] = content[n]
             /\ Len(content'[n]) \in Nat /\ Len(content'[n]) >= Len(content[n])
  <2>1. Len(content[n]) \in Nat
    BY DEF ContentInv
  <2>2. Len(content[n]) >= Len(content[n])
    BY <2>1
  <2> QED BY <2>1, <2>2 DEF Closed, OpenGroup
<1>2. nextGroup' \in Nat /\ nextGroup' >= nextGroup
  BY DEF EncInv
<1> QED BY <1>1, <1>2 DEF Evolves, TableInv

(* A packet that is sent while FEC is on. *)
SendOn ==
  /\ Send /\ AddOn(globalSeq')
  /\ net' = net \o AddEmits(globalSeq') \o <<Data(AddGroup, Len(shards))>>
  /\ content' = [o \in 0..AddGroup |->
                   IF o = AddGroup THEN Append(shards, globalSeq') ELSE content[o]]

(* It keeps the invariant. *)
LEMMA SendOnIInv == ASSUME IInv, SendOn PROVE IInv'
<1>a. PICK a : a = AddGroup
  OBVIOUS
<1>b. PICK all : all = Append(shards, globalSeq')
  BY Zenon
<1>c. PICK c : c = AddM
  OBVIOUS
<1>d. PICK E : E = AddEmits(globalSeq')
  OBVIOUS
<1>e. PICK D : D = Data(a, Len(shards))
  OBVIOUS
<1>f. net' = net \o E \o <<D>> /\ content' = [o \in 0..a |-> IF o = a THEN all ELSE content[o]]
  BY <1>a, <1>b, <1>d, <1>e DEF SendOn
<1>1. /\ EncInv /\ ContentInv /\ NetInv /\ TableInv
      /\ globalSeq \in Nat /\ nextGroup \in Nat /\ base \in 0..nextGroup /\ nextGroup <= globalSeq
      /\ shards \in Seq(Nat) /\ m \in Nat /\ params \in Geometries /\ globalSeq < MaxPackets
      /\ globalSeq' = globalSeq + 1 /\ (shards # <<>> => base < nextGroup)
  BY StreamAssumption DEF IInv, EncInv, Send, SendOn
<1>2. /\ all \in Seq(Nat) /\ Len(all) = Len(shards) + 1 /\ Len(shards) \in Nat /\ Len(all) > 0
  BY <1>1, <1>b
<1>3. /\ a \in base..nextGroup /\ a \in Nat
      /\ shards = <<>> => a = nextGroup
      /\ shards # <<>> => a = nextGroup - 1
      /\ nextGroup' = a + 1 /\ base' = base
  BY <1>1, <1>a DEF AddGroup, Opens, OpenGroup, AddOn, SendOn
<1>4. c \in Nat /\ m' = c
  BY <1>1, <1>c, EncoderAssumption DEF AddM, Opens, AddOn, SendOn
<1>5. shards' = (IF Fills(globalSeq') THEN <<>> ELSE all) /\ params' = params
  BY <1>b DEF AddOn, SendOn
<1>6. ~Closed(a)
  BY <1>3 DEF Closed, OpenGroup
<1>7. content' = [o \in 0..a |-> IF o = a THEN all ELSE content[o]]
  BY <1>f
<1>8. EncInv'
  <2>1. globalSeq' \in nextGroup'..MaxPackets /\ nextGroup' \in Nat /\ base' \in 0..nextGroup'
        /\ base' < nextGroup'
    <3>1. a <= nextGroup /\ a >= base
      BY <1>1, <1>3
    <3> QED BY <1>1, <1>3, <3>1, StreamAssumption
  <2>2. shards' \in Seq(Nat)
    BY <1>2, <1>5
  <2> QED BY <1>1, <1>4, <1>5, <2>1, <2>2 DEF EncInv
<1>9. ContentInv'
  <2>1. nextGroup' - 1 = a /\ OpenGroup' = a
    BY <1>3 DEF OpenGroup
  <2>2. DOMAIN content' = 0..(nextGroup' - 1)
    BY <1>7, <2>1
  <2>3. ASSUME NEW n \in 0..(nextGroup' - 1)
        PROVE  content'[n] \in Seq(Nat) /\ Len(content'[n]) > 0
    <3>1. n = a \/ n \in 0..(nextGroup - 1)
      BY <1>1, <1>3, <2>1
    <3> QED BY <1>1, <1>2, <1>7, <2>1, <3>1 DEF ContentInv
  <2>4. shards' # <<>> => content'[a] = shards'
    BY <1>3, <1>5, <1>7
  <2> QED BY <2>1, <2>2, <2>3, <2>4 DEF ContentInv
<1>10. E \in Seq(Datagram) /\ <<D>> \in Seq(Datagram)
  <2>1. E \in Seq(Datagram)
    <3>1. Parity(a, all, c) \in Seq(Datagram)
      BY <1>2, <1>3, <1>4, ParityLog
    <3>2. E = IF Fills(globalSeq') THEN Parity(a, all, c) ELSE <<>>
      BY <1>a, <1>b, <1>c, <1>d DEF AddEmits
    <3> QED BY <3>1, <3>2
  <2>2. D \in Datagram
    BY <1>2, <1>3, <1>e DEF Data, Datagram
  <2> QED BY <2>1, <2>2
<1>11. ASSUME NEW d \in Log(E)
       PROVE  /\ d.group = a /\ d.k = Len(all) /\ d.m = c /\ d.index \in d.k..(d.k + d.m - 1)
              /\ Fills(globalSeq')
  <2>1. Fills(globalSeq')
    BY <1>d DEF AddEmits, Log
  <2>2. E = Parity(a, all, c)
    BY <1>a, <1>b, <1>c, <1>d, <2>1 DEF AddEmits
  <2>3. d \in Log(Parity(a, all, c))
    BY <2>2
  <2>4. /\ d.group = a /\ d.k = Len(all) /\ d.m = c /\ d.index \in d.k..(d.k + d.m - 1)
    <3>1. \A e \in Log(Parity(a, all, c)) :
            e.group = a /\ e.k = Len(all) /\ e.m = c /\ e.index \in e.k..(e.k + e.m - 1)
      <4>1. a \in Nat /\ all \in Seq(Nat) /\ c \in Nat
        BY <1>2, <1>3, <1>4
      <4> QED BY <4>1, ParityLog
    <3> QED BY <2>3, <3>1
  <2> QED BY <2>1, <2>4
<1>12. Log(<<D>>) = {D} /\ D.group = a /\ D.k = 0 /\ D.index = Len(shards)
  BY <1>e DEF Log, Data
<1>13. Evolves
  <2>1. nextGroup' \in Nat /\ nextGroup' >= nextGroup
    BY <1>1, <1>3
  <2>2. ASSUME NEW n \in 0..(nextGroup - 1)
        PROVE  /\ Closed(n) => Closed(n)' /\ content'[n] = content[n]
               /\ Len(content'[n]) \in Nat /\ Len(content'[n]) >= Len(content[n])
    <3>1. CASE n = a
      <4>1. shards # <<>>
        BY <1>1, <1>3, <3>1
      <4>2. content[n] = shards /\ content'[n] = all
        BY <1>1, <1>3, <1>7, <3>1, <4>1 DEF ContentInv, OpenGroup
      <4> QED BY <1>2, <1>6, <3>1, <4>2
    <3>2. CASE n # a
      <4>1. n \in 0..a /\ n < a
        BY <1>1, <1>3, <3>2
      <4>2. content'[n] = content[n] /\ Len(content[n]) \in Nat /\ Len(content[n]) >= Len(content[n])
        BY <1>1, <1>7, <3>2, <4>1 DEF ContentInv
      <4>3. Closed(n)'
        BY <1>3, <4>1 DEF Closed, OpenGroup
      <4> QED BY <4>2, <4>3
    <3> QED BY <3>1, <3>2
  <2>3. Log(net) \subseteq Log(net')
    <3>1. net \o E \in Seq(Datagram) /\ Log(net \o E) = Log(net) \union Log(E)
      BY <1>1, <1>10, LogConcat DEF NetInv
    <3>2. \A s, t \in Seq(Datagram) : Log(s \o t) = Log(s) \union Log(t)
      BY LogConcat
    <3>3. Log(net') = Log(net \o E) \union Log(<<D>>)
      BY <1>10, <1>f, <3>1, <3>2, Zenon
    <3> QED BY <3>1, <3>3
  <2>4. UNCHANGED <<groups, recovered, arrived, forgotten, left>>
    BY DEF Send, SendOn, decVars
  <2> QED BY <1>1, <1>3, <2>1, <2>2, <2>3, <2>4 DEF Evolves, TableInv
<1>14. NetInv'
  <2>0. PICK t : t = E \o <<D>>
    BY Zenon
  <2>1. t \in Seq(Datagram) /\ Log(t) = Log(E) \union {D}
    <3>1. \A u, v \in Seq(Datagram) : u \o v \in Seq(Datagram) /\ Log(u \o v) = Log(u) \union Log(v)
      BY LogConcat
    <3> QED BY <1>10, <1>12, <2>0, <3>1, ZenonT(30)
  <2>2. net' = net \o t
    <3>1. net \in Seq(Datagram)
      BY <1>1 DEF NetInv
    <3> QED BY <1>10, <1>f, <2>0, <3>1
  <2>3. content'[a] = all /\ a \in base'..(nextGroup' - 1)
    BY <1>1, <1>3, <1>7
  <2>4. ASSUME NEW d \in Log(E) PROVE Honest(d)'
    <3>1. shards' = <<>>
      BY <1>5, <1>11
    <3>2. Closed(a)'
      BY <1>3, <3>1 DEF Closed
    <3>3. d.k > 0 /\ ~(d.k = 0)
      BY <1>2, <1>11
    <3> QED BY <1>11, <2>3, <3>2, <3>3 DEF Honest
  <2>5. Honest(D)'
    <3>1. ~(D.k > 0) /\ D.index < Len(all)
      BY <1>2, <1>12
    <3> QED BY <1>12, <2>3, <3>1 DEF Honest
  <2>6. \A d \in Log(t) : d.group = a /\ Honest(d)'
    BY <1>11, <1>12, <2>1, <2>4, <2>5
  <2>7. \A d, e \in Log(t) : (d.k > 0 /\ e.k > 0) => d.m = e.m
    BY <1>11, <1>12, <2>1
  <2> QED BY <1>1, <1>6, <1>13, <2>1, <2>2, <2>6, <2>7, NetGrows, Zenon
<1> QED BY <1>8, <1>9, <1>13, <1>14, EvolvesIInv

(* Send. *)
LEMMA SendIInv == ASSUME IInv, Send PROVE IInv'
<1>1. CASE /\ AddOff /\ UNCHANGED <<net, content>>
  <2>1. /\ UNCHANGED <<params, nextGroup, base, shards, m, net, content, groups, recovered>>
        /\ UNCHANGED <<arrived, forgotten, left>>
        /\ globalSeq' = globalSeq + 1 /\ globalSeq < MaxPackets
    BY <1>1 DEF Send, AddOff, encVars, decVars
  <2>2. EncInv' /\ ContentInv' /\ NetInv'
    <3>1. globalSeq' \in nextGroup..MaxPackets
      BY <2>1, StreamAssumption DEF IInv, EncInv
    <3>2. EncInv'
      BY <2>1, <3>1 DEF IInv, EncInv
    <3> QED BY <2>1, <3>2 DEF IInv, ContentInv, OpenGroup, NetInv, Honest, Closed
  <2>3. Evolves
    BY <2>1, QuietEvolves DEF IInv, OpenGroup
  <2> QED BY <2>2, <2>3, EvolvesIInv
<1>2. CASE /\ AddOn(globalSeq')
           /\ net' = net \o AddEmits(globalSeq') \o <<Data(AddGroup, Len(shards))>>
           /\ content' = [o \in 0..AddGroup |->
                            IF o = AddGroup THEN Append(shards, globalSeq') ELSE content[o]]
  BY <1>2, SendOnIInv DEF SendOn
<1> QED BY <1>1, <1>2 DEF Send

(* FlushLoop closes the open group. *)
LEMMA FlushIInv == ASSUME IInv, FlushLoop PROVE IInv'
<1>1. /\ EncInv /\ ContentInv /\ NetInv /\ TableInv
      /\ nextGroup \in Nat /\ base \in 0..nextGroup /\ base < nextGroup
      /\ shards \in Seq(Nat) /\ shards # <<>> /\ m \in Nat
  BY DEF IInv, EncInv, FlushLoop, Flush
<1>2. /\ shards' = <<>> /\ UNCHANGED <<params, nextGroup, base, m, globalSeq, content>>
      /\ UNCHANGED <<groups, recovered, arrived, forgotten, left>>
      /\ net' = net \o Parity(OpenGroup, shards, m)
  BY DEF FlushLoop, Flush, FlushEmits, decVars, history
<1>3. PICK a : a = OpenGroup
  OBVIOUS
<1>4. PICK t : t = Parity(OpenGroup, shards, m)
  OBVIOUS
<1>5. a \in Nat /\ a = nextGroup - 1 /\ a \in base..(nextGroup - 1)
  BY <1>1, <1>3 DEF OpenGroup
<1>6. ~Closed(a)
  BY <1>1, <1>3 DEF Closed
<1>7. content[a] = shards /\ Len(shards) \in Nat /\ Len(shards) > 0
  BY <1>1, <1>3 DEF ContentInv
<1>8. /\ t \in Seq(Datagram)
      /\ \A d \in Log(t) :
           d.group = a /\ d.k = Len(shards) /\ d.m = m /\ d.index \in d.k..(d.k + d.m - 1)
  BY <1>1, <1>3, <1>4, <1>5, ParityLog, Zenon
<1>9. \A n : n < nextGroup => Closed(n)'
  BY <1>2 DEF Closed
<1>10. Evolves
  <2>1. ASSUME NEW n \in 0..(nextGroup - 1)
        PROVE  /\ Closed(n)' /\ content'[n] = content[n]
               /\ Len(content'[n]) \in Nat /\ Len(content'[n]) >= Len(content[n])
    <3>1. n < nextGroup /\ Len(content[n]) \in Nat
      BY <1>1 DEF ContentInv
    <3>2. Len(content[n]) >= Len(content[n])
      BY <3>1
    <3> QED BY <1>2, <1>9, <3>1, <3>2
  <2>2. Log(net) \subseteq Log(net')
    <3>1. \A u, v \in Seq(Datagram) : Log(u \o v) = Log(u) \union Log(v)
      BY LogConcat
    <3> QED BY <1>1, <1>2, <1>4, <1>8, <3>1 DEF NetInv
  <2>3. nextGroup' \in Nat /\ nextGroup' >= nextGroup
    BY <1>1, <1>2
  <2> QED BY <1>1, <1>2, <2>1, <2>2, <2>3 DEF Evolves, TableInv
<1>11. EncInv' /\ ContentInv'
  BY <1>1, <1>2 DEF EncInv, ContentInv
<1>12. NetInv'
  <2>1. ASSUME NEW d \in Log(t) PROVE d.group = a /\ Honest(d)'
    <3>1. d.group = a /\ d.k = Len(shards) /\ d.index \in d.k..(d.k + d.m - 1)
      BY <1>8
    <3>2. Closed(a)' /\ d.k > 0 /\ ~(d.k = 0)
      BY <1>1, <1>5, <1>7, <1>9, <3>1
    <3> QED BY <1>2, <1>5, <1>7, <3>1, <3>2 DEF Honest
  <2>2. \A d, e \in Log(t) : (d.k > 0 /\ e.k > 0) => d.m = e.m
    BY <1>8
  <2> QED BY <1>1, <1>2, <1>4, <1>6, <1>8, <1>10, <2>1, <2>2, NetGrows, Zenon
<1> QED BY <1>10, <1>11, <1>12, EvolvesIInv

(* RetuneFEC only changes the geometry of the groups to come. *)
LEMMA RetuneIInv == ASSUME IInv, NEW p \in Geometries, RetuneFEC(p) PROVE IInv'
<1>1. /\ UNCHANGED <<nextGroup, base, shards, m, globalSeq, net, content, groups, recovered>>
      /\ UNCHANGED <<arrived, forgotten, left>> /\ params' = p
  BY Zenon DEF RetuneFEC, SetParams, decVars, history
<1>2. EncInv' /\ ContentInv' /\ NetInv'
  BY <1>1 DEF IInv, EncInv, ContentInv, OpenGroup, NetInv, Honest, Closed
<1>3. Evolves
  BY <1>1, QuietEvolves DEF IInv, OpenGroup
<1> QED BY <1>2, <1>3, EvolvesIInv

(* A step that changes nothing. *)
LEMMA StutterIInv == ASSUME IInv, UNCHANGED streamVars PROVE IInv'
<1>1. /\ UNCHANGED <<params, nextGroup, base, shards, m, globalSeq, net, content, groups>>
      /\ UNCHANGED <<recovered, arrived, forgotten, left>>
  BY DEF streamVars, encVars, decVars, history
<1>2. EncInv' /\ ContentInv' /\ NetInv'
  BY <1>1 DEF IInv, EncInv, ContentInv, OpenGroup, NetInv, Honest, Closed
<1>3. Evolves
  BY <1>1, QuietEvolves DEF IInv, OpenGroup
<1> QED BY <1>2, <1>3, EvolvesIInv

(* Elapse only changes ages. *)
LEMMA ElapseIInv == ASSUME IInv, Elapse PROVE IInv'
<1>1. /\ UNCHANGED <<params, nextGroup, base, shards, m, globalSeq, net, content, recovered>>
      /\ UNCHANGED <<arrived, forgotten, left>>
      /\ groups' = [id \in DOMAIN groups |->
                      [groups[id] EXCEPT !.age = IF @ > Expiry THEN @ ELSE @ + 1]]
  BY DEF Elapse, EncElapse, DecElapse, history
<1>2. EncInv' /\ ContentInv' /\ NetInv'
  BY <1>1 DEF IInv, EncInv, ContentInv, OpenGroup, NetInv, Honest, Closed
<1>3. DOMAIN groups' = DOMAIN groups
  BY <1>1
<1>4. ASSUME NEW id \in DOMAIN groups
      PROVE  /\ Entry(groups'[id]) /\ groups'[id].shards = groups[id].shards
             /\ groups'[id].k = groups[id].k /\ groups'[id].m = groups[id].m
  <2>1. PICK g : g = groups[id]
    OBVIOUS
  <2>2. PICK t : t = IF g.age > Expiry THEN g.age ELSE g.age + 1
    OBVIOUS
  <2>3. Entry(g)
    BY <2>1 DEF IInv, TableInv
  <2>4. groups'[id] = [g EXCEPT !.age = t]
    BY <1>1, <2>1, <2>2
  <2>5. [g EXCEPT !.age = t] = [shards |-> g.shards, k |-> g.k, m |-> g.m, age |-> t]
    BY <2>3 DEF Entry
  <2> QED BY <2>1, <2>3, <2>4, <2>5 DEF Entry
<1>5. Evolves
  <2>1. ASSUME NEW n \in 0..(nextGroup - 1)
        PROVE  /\ Closed(n)' = Closed(n) /\ content'[n] = content[n]
               /\ Len(content'[n]) \in Nat /\ Len(content'[n]) >= Len(content[n])
    <3>1. Len(content[n]) \in Nat
      BY DEF IInv, ContentInv
    <3>2. Len(content[n]) >= Len(content[n])
      BY <3>1
    <3> QED BY <1>1, <3>1, <3>2 DEF Closed, OpenGroup
  <2>2. nextGroup' \in Nat /\ nextGroup' >= nextGroup
    BY <1>1 DEF IInv, EncInv
  <2> QED BY <1>1, <1>3, <1>4, <2>1, <2>2 DEF Evolves
<1> QED BY <1>2, <1>5, EvolvesIInv

----------------------------------------------------------------------------
(* A restart of the sender. *)

(* Of a group the decoder follows, all packets arrived or too few shards. *)
LEMMA TrackedEnds ==
  ASSUME IInv, NEW n \in base..(nextGroup - 1), ~Heir(n), Tracked(n)
  PROVE  Short(n) \/ \A i \in 0..(Len(content[n]) - 1) : <<n, i>> \in arrived
<1>1. /\ base \in Nat /\ nextGroup \in Nat /\ n \in Nat /\ n \in 0..(nextGroup - 1)
      /\ base + (n - base) = n
  BY DEF IInv, EncInv
<1>2. Len(content[n]) \in Nat /\ Len(content[n]) > 0
  BY <1>1 DEF IInv, ContentInv
<1>3. PICK H : H = HeldOf(n)
  OBVIOUS
<1>4. ArrivedOf(n) = Tag(n, H)
  BY <1>3 DEF Tracked
<1>5. CASE n - base \notin DOMAIN groups
  <2>1. ArrivedOf(n) = {}
    BY <1>3, <1>4, <1>5 DEF HeldOf, Tag
  <2>2. Cardinality(ArrivedOf(n)) = 0
    BY <2>1, FS_EmptySet
  <2> QED BY <1>2, <2>2 DEF Short
<1>6. CASE n - base \in DOMAIN groups
  <2>1. PICK g : g = groups[n - base]
    OBVIOUS
  <2>2. H = DOMAIN g.shards
    BY <1>3, <1>6, <2>1 DEF HeldOf
  <2>3. Entry(g) /\ Clean(g, n)
    BY <1>1, <1>6, <2>1 DEF IInv, TableInv, Tainted
  <2>4. IsFiniteSet(H) /\ H \subseteq Nat /\ g.k \in Nat
    BY <2>2, <2>3 DEF Entry
  <2>5. Cardinality(ArrivedOf(n)) = Cardinality(H) /\ Cardinality(H) \in Nat
    <3>1. Cardinality(H) \in Nat
      BY <2>4, FS_CardinalityType
    <3>2. Cardinality(Tag(n, H)) = Cardinality(H)
      BY <2>4, TagCount
    <3> QED BY <1>4, <3>1, <3>2
  <2>6. CASE g.k > 0
    <3>1. PICK d \in Log(net) : d.group = n /\ d.k = g.k
      BY <2>3, <2>6 DEF Clean
    <3>2. g.k = Len(content[n])
      BY <2>6, <3>1 DEF IInv, NetInv, Honest
    <3>3. Cardinality(H) < g.k
      BY <2>2, <2>3, <2>6 DEF Clean
    <3> QED BY <1>2, <2>5, <3>2, <3>3 DEF Short
  <2>7. CASE g.k = 0
    <3>1. ASSUME NEW i \in H PROVE i \in 0..(Len(content[n]) - 1)
      <4>1. i \in Nat /\ i < Len(content[n])
        BY <2>2, <2>3, <2>4, <2>7 DEF Clean
      <4> QED BY <1>2, <4>1
    <3>2. CASE Cardinality(H) < Len(content[n])
      BY <1>2, <2>5, <3>2 DEF Short
    <3>3. CASE ~(Cardinality(H) < Len(content[n]))
      <4>1. Cardinality(H) >= Len(content[n])
        BY <1>2, <2>5, <3>3
      <4>2. H = 0..(Len(content[n]) - 1)
        BY <1>2, <3>1, <4>1, AllIndices
      <4> QED BY <1>4, <4>2 DEF ArrivedOf, Tag
    <3> QED BY <3>2, <3>3
  <2> QED BY <2>4, <2>6, <2>7
<1> QED BY <1>5, <1>6

(* Restart. *)
LEMMA RestartIInv == ASSUME IInv, Restart PROVE IInv'
<1>1. /\ base' = nextGroup /\ shards' = <<>> /\ m' = 0 /\ net' = <<>>
      /\ UNCHANGED <<params, nextGroup, groups, recovered, globalSeq, content, arrived, forgotten>>
  BY DEF Restart, NewEncoder, decVars
<1>2. /\ EncInv /\ ContentInv /\ TableInv /\ RepairInv /\ RecoveredInv
      /\ nextGroup \in Nat /\ base \in 0..nextGroup
  BY DEF IInv, EncInv
<1>3. EncInv'
  BY <1>1, <1>2 DEF EncInv
<1>4. ContentInv'
  BY <1>1, <1>2 DEF ContentInv
<1>5. NetInv'
  <2>1. net' \in Seq(Datagram) /\ Log(net') = {}
    BY <1>1 DEF Log
  <2> QED BY <2>1 DEF NetInv
<1>6. \A n : n < nextGroup => Closed(n)'
  BY <1>1 DEF Closed
<1>7. \A n : (Heir(n) => Heir(n)') /\ (LeftOver(n) => LeftOver(n)')
  BY DEF Restart, Heir, LeftOver
<1>8. ASSUME NEW id \in DOMAIN groups, NEW i \in DOMAIN groups[id].shards
      PROVE  Heir(nextGroup + id)' /\ LeftOver(groups[id].shards[i])'
  <2>1. PICK o : o = groups[id].shards[i]
    OBVIOUS
  <2>2. PICK q : q = <<o, nextGroup + id>>
    BY Zenon
  <2>3. o \in Held({id})
    BY <2>1 DEF Held
  <2>4. q \in left'
    <3> DEFINE P(x) == Held({x}) \X {nextGroup + x}
    <3>1. q \in P(id)
      BY <2>2, <2>3
    <3>2. left' = left \union UNION {P(x) : x \in DOMAIN groups}
      BY DEF Restart
    <3> HIDE DEF P
    <3> QED BY <3>1, <3>2
  <2>5. q[1] = o /\ q[2] = nextGroup + id
    BY <2>2
  <2>6. PICK n : n = nextGroup + id
    OBVIOUS
  <2>7. Heir(n)' /\ LeftOver(o)'
    BY <2>4, <2>5, <2>6 DEF Heir, LeftOver
  <2>8. (nextGroup + id)' = n
    BY <1>1, <2>6
  <2>9. (groups[id].shards[i])' = o
    BY <1>1, <2>1
  <2> QED BY <2>7, <2>8, <2>9 DEF Heir, LeftOver
<1>9. TableInv'
  <2>1. DOMAIN groups' \subseteq GroupIds /\ IsFiniteSet(DOMAIN groups') /\ GroupsBounded'
    BY <1>1, <1>2, Zenon DEF TableInv, GroupsBounded
  <2>2. ASSUME NEW id \in DOMAIN groups
        PROVE  Entry(groups[id])' /\ Tainted(groups[id], base + id)'
    <3>1. Entry(groups[id])
      BY <1>2, Zenon DEF TableInv
    <3>2. PICK i : i \in DOMAIN groups[id].shards
      BY <3>1 DEF Entry
    <3>3. Heir(base + id)'
      BY <1>1, <1>8, <3>2 DEF Heir
    <3>4. \A j \in DOMAIN groups[id].shards : LeftOver(groups[id].shards[j])'
      BY <1>8
    <3> QED BY <1>1, <3>1, <3>3, <3>4 DEF Tainted, Entry, LeftOver
  <2> QED BY <1>1, <2>1, <2>2 DEF TableInv
<1>10. RecoveredInv'
  <2> SUFFICES ASSUME NEW r \in recovered
               PROVE  \/ \E n \in r[1] : r[1] = {n} /\ Closed(n)' /\ <<n, r[2]>> \in PacketsOf(n)'
                      \/ \E n \in r[1] : LeftOver(n)'
    BY <1>1, <1>2, Zenon DEF RecoveredInv, RecoveredIsSent
  <2>1. \A n : Closed(n) => Closed(n)'
    BY <1>6 DEF Closed
  <2>2. \A n : PacketsOf(n)' = PacketsOf(n)
    BY <1>1 DEF PacketsOf
  <2> QED BY <1>2, <1>7, <2>1, <2>2, Zenon DEF RecoveredInv, RecoveredIsSent
<1>11. RepairInv'
  <2>1. ASSUME NEW n \in 0..(nextGroup - 1), n \notin forgotten, ~Heir(n)'
        PROVE  Restored(n)' \/ (n < base' /\ Short(n)')
    <3>1. n < nextGroup /\ n < base' /\ n \in Nat /\ Closed(n)' /\ ~Heir(n)
      BY <1>1, <1>2, <1>6, <1>7, <2>1
    <3>2. Short(n)' = Short(n)
      BY <1>1 DEF Short, ArrivedOf
    <3>3. CASE Restored(n)
      BY <1>1, <3>1, <3>3 DEF Restored
    <3>4. CASE n < base /\ Short(n)
      BY <3>1, <3>2, <3>4
    <3>5. CASE n >= base /\ Tracked(n)
      <4>1. n \in base..(nextGroup - 1)
        BY <1>2, <3>5
      <4>2. CASE Short(n)
        BY <3>1, <3>2, <4>2
      <4>3. CASE \A i \in 0..(Len(content[n]) - 1) : <<n, i>> \in arrived
        BY <1>1, <3>1, <4>3, Zenon DEF Restored
      <4> QED BY <3>1, <3>5, <4>1, <4>2, <4>3, TrackedEnds
    <3> QED BY <1>2, <2>1, <3>1, <3>3, <3>4, <3>5 DEF RepairInv
  <2> QED BY <1>1, <1>2, <2>1 DEF RepairInv
<1> QED BY <1>3, <1>4, <1>5, <1>9, <1>10, <1>11 DEF IInv

----------------------------------------------------------------------------
(* A datagram is received. *)

(* What a step of the decoder leaves alone. *)
LEMMA RoomFacts ==
  ASSUME TableInv, NEW id, NEW room \in Rooms(Swept(groups), id)
  PROVE  /\ DOMAIN room \subseteq DOMAIN groups /\ \A x \in DOMAIN room : room[x] = groups[x]
         /\ id \in DOMAIN room => id \in DOMAIN Swept(groups)
         /\ id \in DOMAIN Swept(groups) => id \in DOMAIN room
         /\ IsFiniteSet(DOMAIN room \union {id})
         /\ Cardinality(DOMAIN room \union {id}) <= MaxGroups
<1>1. PICK gs : gs = Swept(groups)
  OBVIOUS
<1>2. ASSUME NEW h, NEW gone
      PROVE  /\ DOMAIN Without(h, gone) = DOMAIN h \ gone
             /\ \A x \in DOMAIN h \ gone : Without(h, gone)[x] = h[x]
  BY DEF Without
<1>3. DOMAIN gs \subseteq DOMAIN groups /\ \A x \in DOMAIN gs : gs[x] = groups[x]
  <2>1. CASE gs = groups
    BY <2>1
  <2>2. CASE gs = Without(groups, Expired(groups))
    <3>1. PICK gone : gone = Expired(groups)
      OBVIOUS
    <3>2. DOMAIN gs = DOMAIN groups \ gone /\ \A x \in DOMAIN groups \ gone : gs[x] = groups[x]
      BY <1>2, <2>2, <3>1, Zenon
    <3> QED BY <3>2
  <2> QED BY <1>1, <2>1, <2>2 DEF Swept
<1>4. /\ IsFiniteSet(DOMAIN groups) /\ Cardinality(DOMAIN groups) \in Nat /\ MaxGroups \in Nat
      /\ Cardinality(DOMAIN groups) <= MaxGroups
  BY FS_CardinalityType, DecoderAssumption, Zenon DEF TableInv, GroupsBounded
<1>5. /\ IsFiniteSet(DOMAIN gs) /\ Cardinality(DOMAIN gs) \in Nat
      /\ Cardinality(DOMAIN gs) <= MaxGroups
  <2>1. IsFiniteSet(DOMAIN gs) /\ Cardinality(DOMAIN gs) <= Cardinality(DOMAIN groups)
    BY <1>3, <1>4, FS_Subset
  <2>2. Cardinality(DOMAIN gs) \in Nat
    BY <2>1, FS_CardinalityType, Zenon
  <2> QED BY <1>4, <2>1, <2>2
<1>6. CASE id \notin DOMAIN gs /\ Cardinality(DOMAIN gs) >= MaxGroups
  <2>1. PICK v \in DOMAIN gs : room = Without(gs, Expired(gs) \union {v})
    BY <1>1, <1>6 DEF Rooms, ForcedSweeps
  <2>2. /\ DOMAIN room \subseteq DOMAIN gs \ {v} /\ id \notin DOMAIN room
        /\ \A x \in DOMAIN room : room[x] = gs[x]
    <3>1. PICK gone : gone = Expired(gs) \union {v}
      BY Zenon
    <3>2. DOMAIN room = DOMAIN gs \ gone /\ \A x \in DOMAIN gs \ gone : room[x] = gs[x]
      BY <1>2, <2>1, <3>1, Zenon
    <3> QED BY <1>6, <3>1, <3>2
  <2>3. IsFiniteSet(DOMAIN gs \ {v}) /\ Cardinality(DOMAIN gs \ {v}) = Cardinality(DOMAIN gs) - 1
    BY <1>5, FS_RemoveElement
  <2>4. /\ IsFiniteSet(DOMAIN room)
        /\ Cardinality(DOMAIN room) <= Cardinality(DOMAIN gs \ {v})
    BY <2>2, <2>3, FS_Subset
  <2>5. /\ IsFiniteSet(DOMAIN room \union {id}) /\ Cardinality(DOMAIN room) \in Nat
        /\ Cardinality(DOMAIN room \union {id}) = Cardinality(DOMAIN room) + 1
    BY <2>2, <2>4, FS_AddElement, FS_CardinalityType, Zenon
  <2>6. Cardinality(DOMAIN room \union {id}) <= MaxGroups
    BY <1>4, <1>5, <2>3, <2>4, <2>5
  <2> QED BY <1>1, <1>3, <1>6, <2>2, <2>5, <2>6
<1>7. CASE ~(id \notin DOMAIN gs /\ Cardinality(DOMAIN gs) >= MaxGroups)
  <2>1. room = gs
    BY <1>1, <1>7 DEF Rooms
  <2>2. IsFiniteSet(DOMAIN gs \union {id}) /\ Cardinality(DOMAIN gs \union {id}) <= MaxGroups
    <3>1. CASE id \in DOMAIN gs
      <4>1. DOMAIN gs \union {id} = DOMAIN gs
        BY <3>1
      <4> QED BY <1>5, <4>1
    <3>2. CASE id \notin DOMAIN gs
      <4>1. /\ IsFiniteSet(DOMAIN gs \union {id})
            /\ Cardinality(DOMAIN gs \union {id}) = Cardinality(DOMAIN gs) + 1
        BY <1>5, <3>2, FS_AddElement, Zenon
      <4> QED BY <1>4, <1>5, <1>7, <3>2, <4>1
    <3> QED BY <3>1, <3>2
  <2> QED BY <1>1, <1>3, <2>1, <2>2
<1> QED BY <1>6, <1>7

(* An entry, or the fresh group that becomes one. *)
Basic(g) ==
  /\ g = [shards |-> g.shards, k |-> g.k, m |-> g.m, age |-> g.age]
  /\ g.k \in Nat /\ g.m \in Nat
  /\ DOMAIN g.shards \subseteq Nat /\ IsFiniteSet(DOMAIN g.shards)
  /\ \A i \in DOMAIN g.shards : g.shards[i] \in Nat

(* The group g is `old' with one more shard. *)
Inserted(g, old, j, o, gk, gm) ==
  /\ Entry(g) /\ DOMAIN g.shards = DOMAIN old.shards \union {j}
  /\ \A i \in DOMAIN g.shards :
       g.shards[i] = IF i \in DOMAIN old.shards THEN old.shards[i] ELSE o
  /\ g.k = (IF gk > 0 THEN gk ELSE old.k) /\ g.m = (IF gk > 0 THEN gm ELSE old.m)

(* Insert makes such a group. *)
LEMMA InsertShape ==
  ASSUME NEW old, Basic(old), NEW j \in Nat, NEW o \in Nat, NEW gk \in Nat, NEW gm \in Nat,
         NEW g, g = Insert(old, j, o, gk, gm)
  PROVE  Inserted(g, old, j, o, gk, gm)
<1>1. PICK sh : sh = IF j \in DOMAIN old.shards THEN old.shards
                     ELSE [i \in DOMAIN old.shards \union {j} |->
                             IF i = j THEN o ELSE old.shards[i]]
  BY Zenon
<1>2. PICK k1 : k1 = IF gk > 0 THEN gk ELSE old.k
  OBVIOUS
<1>3. PICK m1 : m1 = IF gk > 0 THEN gm ELSE old.m
  OBVIOUS
<1>4. g = [shards |-> sh, k |-> k1, m |-> m1, age |-> 0]
  BY <1>1, <1>2, <1>3 DEF Insert
<1>5. g.shards = sh /\ g.k = k1 /\ g.m = m1 /\ g.age = 0
  BY <1>4
<1>6. DOMAIN sh = DOMAIN old.shards \union {j}
  BY <1>1
<1>7. \A i \in DOMAIN sh : sh[i] = IF i \in DOMAIN old.shards THEN old.shards[i] ELSE o
  BY <1>1
<1>8. k1 \in Nat /\ m1 \in Nat
  BY <1>2, <1>3 DEF Basic
<1>9. DOMAIN sh \subseteq Nat /\ \A i \in DOMAIN sh : sh[i] \in Nat
  BY <1>6, <1>7 DEF Basic
<1>10. IsFiniteSet(DOMAIN sh)
  <2>1. IsFiniteSet(DOMAIN old.shards)
    BY DEF Basic
  <2>2. IsFiniteSet(DOMAIN old.shards \union {j})
    BY <2>1, FS_AddElement, Zenon
  <2> QED BY <1>6, <2>2
<1>11. Entry(g)
  BY <1>4, <1>5, <1>6, <1>8, <1>9, <1>10 DEF Entry
<1> QED BY <1>2, <1>3, <1>5, <1>6, <1>7, <1>11 DEF Inserted

(* The datagram completes the group. *)
Out(d, old, g) == d.index \notin DOMAIN old.shards /\ (Complete(g) \/ Decodable(g))

(* The shape of a step of the decoder that handles datagram d. *)
Took(d, id, room, old, g) ==
  /\ DOMAIN room \subseteq DOMAIN groups /\ \A x \in DOMAIN room : room[x] = groups[x]
  /\ \A x \in DOMAIN groups \ DOMAIN room :
       \A i \in DOMAIN groups[x].shards : groups[x].shards[i] \in forgotten'
  /\ IsFiniteSet(DOMAIN room \union {id}) /\ Cardinality(DOMAIN room \union {id}) <= MaxGroups
  /\ old = Group(room, id)
  /\ g = Insert(old, d.index, d.group, d.k, d.m)
  /\ DOMAIN groups' = (IF Out(d, old, g) THEN DOMAIN room \ {id} ELSE DOMAIN room \union {id})
  /\ \A x \in DOMAIN groups' : groups'[x] = IF x = id THEN g ELSE room[x]
  /\ recovered' = recovered \union (IF Out(d, old, g) /\ ~Complete(g) THEN Decoded(g) ELSE {})
  /\ arrived' = arrived \union {<<d.group, d.index>>} /\ forgotten \subseteq forgotten'
  /\ UNCHANGED <<params, nextGroup, base, shards, m, globalSeq, net, content, left>>

(* Every Receive is such a step. *)
LEMMA ReceiveTook ==
  ASSUME IInv, NEW d \in Log(net), Receive(d)
  PROVE  \E room, old, g : Took(d, d.group - base, room, old, g)
<1>1. TableInv /\ EncInv /\ d \in Datagram /\ Honest(d)
  BY DEF IInv, NetInv, Log
<1>2. PICK id : id = d.group - base
  OBVIOUS
<1>3. GroupID(d.group) = id
  <2>1. d.group \in base..(nextGroup - 1)
    BY <1>1 DEF Honest
  <2> QED BY <1>1, <1>2, <2>1, IdOfGroup
<1>4. PICK gm : AddShard(id, d.index, d.group, d.k, gm) /\ (d.k # 0 => gm = d.m)
  BY <1>3 DEF Receive, AddData, AddParity
<1>5. PICK room \in Rooms(Swept(groups), id) :
        LET old == Group(room, id)
            g   == Insert(old, d.index, d.group, d.k, gm)
            dup == d.index \in DOMAIN old.shards
            out == ~dup /\ (Complete(g) \/ Decodable(g))
        IN  /\ adds' = (adds + 1) % SweepEvery
            /\ groups' = IF out
                         THEN Without(room, {id})
                         ELSE [x \in DOMAIN room \union {id} |-> IF x = id THEN g ELSE room[x]]
            /\ recovered' = recovered \union (IF out /\ ~Complete(g) THEN Decoded(g) ELSE {})
  BY <1>4, Zenon DEF AddShard
<1>6. PICK old : old = Group(room, id)
  OBVIOUS
<1>7. PICK g : g = Insert(old, d.index, d.group, d.k, d.m)
  OBVIOUS
<1>8. g = Insert(old, d.index, d.group, d.k, gm)
  <2>1. CASE d.k = 0
    BY <1>7, <2>1 DEF Insert
  <2>2. CASE d.k # 0
    BY <1>4, <1>7, <2>2
  <2> QED BY <2>1, <2>2, Zenon
<1>10. /\ groups' = (IF Out(d, old, g) THEN Without(room, {id})
                     ELSE [x \in DOMAIN room \union {id} |-> IF x = id THEN g ELSE room[x]])
       /\ recovered' = recovered \union (IF Out(d, old, g) /\ ~Complete(g) THEN Decoded(g) ELSE {})
  BY <1>5, <1>6, <1>8, Zenon DEF Out
<1>11. /\ DOMAIN room \subseteq DOMAIN groups /\ \A x \in DOMAIN room : room[x] = groups[x]
       /\ id \in DOMAIN Swept(groups) => id \in DOMAIN room
       /\ IsFiniteSet(DOMAIN room \union {id})
       /\ Cardinality(DOMAIN room \union {id}) <= MaxGroups
  BY <1>1, <1>5, RoomFacts, ZenonT(30)
<1>12. /\ DOMAIN groups' = (IF Out(d, old, g) THEN DOMAIN room \ {id} ELSE DOMAIN room \union {id})
       /\ \A x \in DOMAIN groups' : groups'[x] = IF x = id THEN g ELSE room[x]
  <2>1. CASE Out(d, old, g)
    BY <1>10, <2>1 DEF Without
  <2>2. CASE ~Out(d, old, g)
    BY <1>10, <2>2
  <2> QED BY <2>1, <2>2
<1>13. /\ arrived' = arrived \union {<<d.group, d.index>>}
       /\ forgotten' = forgotten \union Discarded(id)
       /\ UNCHANGED <<params, nextGroup, base, shards, m, globalSeq, net, content, left>>
  BY <1>3 DEF Receive, encVars
<1>14. ASSUME NEW x \in DOMAIN groups \ DOMAIN room, NEW i \in DOMAIN groups[x].shards
       PROVE  groups[x].shards[i] \in forgotten'
  <2>1. CASE x # id
    <3>1. x \in DOMAIN groups \ (DOMAIN groups' \union {id})
      BY <1>12, <2>1, Zenon
    <3> QED BY <1>13, <3>1 DEF Discarded, Held
  <2>2. CASE x = id
    <3>1. x \in {id} \intersect (DOMAIN groups \ DOMAIN Swept(groups))
      BY <1>11, <2>2
    <3> QED BY <1>13, <3>1 DEF Discarded, Held
  <2> QED BY <2>1, <2>2
<1>15. Took(d, id, room, old, g)
  BY <1>6, <1>7, <1>10, <1>11, <1>12, <1>13, <1>14, Zenon DEF Took
<1> QED BY <1>2, <1>15

(* All shards of g are of group n; once the geometry is known they are     *)
(* usable, and too few when the last one was a duplicate.                  *)
Grown(g, n, dup) ==
  /\ \A i \in DOMAIN g.shards : g.shards[i] = n
  /\ g.k = 0 => \A i \in DOMAIN g.shards : i < Len(content[n])
  /\ g.k > 0 => /\ Closed(n) /\ g.k = Len(content[n])
                /\ \E e \in Log(net) : e.group = n /\ e.k = g.k /\ e.m = g.m
                /\ \A i \in DOMAIN g.shards : i < g.k + g.m
                /\ dup => Cardinality(DOMAIN g.shards) < g.k

(* Once its geometry is known, a clean group with one more shard has the   *)
(* packets of a closed group of the sender, all of its shards usable.      *)
LEMMA CleanInsert ==
  ASSUME IInv, NEW d \in Log(net), NEW old, Basic(old), Clean(old, d.group),
         NEW g, g = Insert(old, d.index, d.group, d.k, d.m)
  PROVE  Grown(g, d.group, d.index \in DOMAIN old.shards)
<1>1. /\ d \in Datagram /\ Honest(d)
      /\ d.group \in Nat /\ d.index \in Nat /\ d.k \in Nat /\ d.m \in Nat
  <2>1. d \in Datagram /\ Honest(d)
    BY DEF IInv, NetInv, Log
  <2>2. d.group \in Nat /\ d.index \in Nat /\ d.k \in Nat /\ d.m \in Nat
    BY <2>1 DEF Datagram
  <2> QED BY <2>1, <2>2
<1>2. PICK n : n = d.group
  OBVIOUS
<1>3. PICK L : L = Len(content[n])
  BY Zenon
<1>4. L \in Nat
  <2>1. n \in 0..(nextGroup - 1)
    BY <1>1, <1>2 DEF Honest, IInv, EncInv
  <2> QED BY <1>3, <2>1 DEF IInv, ContentInv
<1>5. /\ Entry(g) /\ DOMAIN g.shards = DOMAIN old.shards \union {d.index}
      /\ \A i \in DOMAIN g.shards :
           g.shards[i] = IF i \in DOMAIN old.shards THEN old.shards[i] ELSE n
      /\ g.k = (IF d.k > 0 THEN d.k ELSE old.k) /\ g.m = (IF d.k > 0 THEN d.m ELSE old.m)
  <2>1. Inserted(g, old, d.index, d.group, d.k, d.m)
    BY <1>1, InsertShape
  <2> QED BY <1>2, <2>1 DEF Inserted
<1>6. /\ old.k \in Nat /\ old.m \in Nat /\ DOMAIN old.shards \subseteq Nat
  BY Zenon DEF Basic
<1>7. /\ \A i \in DOMAIN old.shards : old.shards[i] = n
      /\ old.k = 0 => \A i \in DOMAIN old.shards : i < L
      /\ old.k > 0 => /\ \A i \in DOMAIN old.shards : i < old.k + old.m
                      /\ Cardinality(DOMAIN old.shards) < old.k
  BY <1>2, <1>3 DEF Clean
<1>8. ASSUME old.k > 0
      PROVE  \E e \in Log(net) : e.group = n /\ e.k = old.k /\ e.m = old.m
  BY <1>2, <1>8 DEF Clean
<1>9. \A e \in Log(net) : (e.group = n /\ e.k > 0) => Closed(n) /\ e.k = L
  BY <1>3 DEF IInv, NetInv, Honest
<1>10. /\ d.k = 0 => d.index < L
       /\ d.k > 0 => d.index \in d.k..(d.k + d.m - 1) /\ d.k = L /\ Closed(n)
  BY <1>1, <1>2, <1>3 DEF Honest
<1>11. old.k > 0 => old.k = L /\ Closed(n)
  BY <1>8, <1>9, Zenon
<1>12. (old.k > 0 /\ d.k > 0) => old.m = d.m
  BY <1>2, <1>8, Zenon DEF IInv, NetInv
<1>13. \A i \in DOMAIN g.shards : g.shards[i] = n
  BY <1>5, <1>7, Zenon
<1>14. ASSUME g.k = 0, NEW i \in DOMAIN g.shards PROVE i < L
  <2>1. ~(d.k > 0)
    BY <1>5, <1>14
  <2>2. d.k = 0
    BY <1>1, <2>1
  <2>3. old.k = 0 /\ d.index < L
    BY <1>5, <1>10, <1>14, <2>1, <2>2, Zenon
  <2>4. \A j \in DOMAIN old.shards : j < L
    BY <1>7, <2>3
  <2> QED BY <1>5, <2>3, <2>4, Zenon
<1>15. CASE d.k > 0
  <2>1. /\ g.k = d.k /\ g.m = d.m /\ g.k = L /\ Closed(n) /\ d.group = n
        /\ d.index < g.k + g.m /\ d.index >= L
    <3>1. /\ g.k = d.k /\ g.m = d.m /\ d.k = L /\ Closed(n) /\ d.group = n
          /\ d.index \in d.k..(d.k + d.m - 1)
      BY <1>2, <1>5, <1>10, <1>15, Zenon
    <3>2. d.index < d.k + d.m /\ d.index >= d.k
      BY <1>1, <3>1
    <3> QED BY <3>1, <3>2, Zenon
  <2>2. ASSUME NEW i \in DOMAIN old.shards PROVE i < g.k + g.m
    <3>1. i \in Nat
      BY <1>6, Zenon
    <3>2. CASE old.k > 0
      <4>1. i < old.k + old.m
        BY <1>7, <3>2, Zenon
      <4> QED BY <1>11, <1>12, <1>15, <2>1, <3>2, <4>1, Zenon
    <3>3. CASE old.k = 0
      <4>1. i < L
        BY <1>7, <3>3, Zenon
      <4> QED BY <1>1, <1>4, <2>1, <3>1, <4>1
    <3> QED BY <1>6, <3>2, <3>3
  <2>3. \A i \in DOMAIN g.shards : i < g.k + g.m
    BY <1>5, <2>1, <2>2, Zenon
  <2>4. ASSUME d.index \in DOMAIN old.shards PROVE Cardinality(DOMAIN g.shards) < g.k
    <3>1. DOMAIN g.shards = DOMAIN old.shards
      BY <1>5, <2>4
    <3>2. old.k > 0
      <4>1. CASE old.k = 0
        <5>1. d.index < L
          BY <1>7, <2>4, <4>1, Zenon
        <5> QED BY <1>1, <1>4, <2>1, <5>1
      <4> QED BY <1>6, <4>1
    <3> QED BY <1>7, <1>11, <2>1, <3>1, <3>2, ZenonT(30)
  <2> QED BY <1>2, <1>3, <1>13, <1>14, <2>1, <2>3, <2>4, Zenon DEF Grown
<1>16. CASE ~(d.k > 0)
  <2>1. g.k = old.k /\ g.m = old.m /\ d.index < L
    <3>1. d.k = 0
      BY <1>1, <1>16
    <3>2. g.k = old.k /\ g.m = old.m
      BY <1>5, <1>16, Zenon
    <3>3. d.index < L
      BY <1>10, <3>1, Zenon
    <3> QED BY <3>2, <3>3
  <2>2. CASE g.k > 0
    <3>1. /\ g.k = L /\ Closed(n)
          /\ \E e \in Log(net) : e.group = n /\ e.k = g.k /\ e.m = g.m
      BY <1>8, <1>11, <2>1, <2>2, ZenonT(30)
    <3>2. d.index < g.k + g.m
      BY <1>1, <1>4, <1>6, <2>1, <3>1
    <3>3. \A i \in DOMAIN g.shards : i < g.k + g.m
      BY <1>5, <1>7, <2>1, <2>2, <3>2, Zenon
    <3>4. ASSUME d.index \in DOMAIN old.shards PROVE Cardinality(DOMAIN g.shards) < g.k
      <4>1. DOMAIN g.shards = DOMAIN old.shards
        BY <1>5, <3>4
      <4> QED BY <1>7, <2>1, <2>2, <4>1
    <3> QED BY <1>2, <1>3, <1>13, <1>14, <3>1, <3>3, <3>4, Zenon DEF Grown
  <2>3. CASE ~(g.k > 0)
    BY <1>2, <1>3, <1>13, <1>14, <2>3 DEF Grown
  <2> QED BY <2>2, <2>3, Zenon
<1> QED BY <1>15, <1>16, Zenon

(* The entry that a datagram meets, or the fresh group, is clean or was    *)
(* there at a restart.                                                     *)
LEMMA OldKind ==
  ASSUME IInv, NEW d \in Log(net), NEW id, id = d.group - base,
         NEW room, NEW old, NEW g, Took(d, id, room, old, g)
  PROVE  /\ Basic(old) /\ (Clean(old, d.group) \/ Tainted(old, d.group))
         /\ d.group \in base..(nextGroup - 1) /\ d.group \in 0..(nextGroup - 1)
         /\ id \in GroupIds /\ base + id = d.group
<1>1. d.group \in base..(nextGroup - 1) /\ EncInv /\ base \in Nat /\ nextGroup \in Nat
  BY DEF IInv, NetInv, Honest, EncInv
<1>2. id \in GroupIds /\ base + id = d.group
  BY <1>1, IdOfGroup
<1>3. d.group \in 0..(nextGroup - 1) /\ d.group < nextGroup
  BY <1>1
<1>4. old = Group(room, id) /\ DOMAIN room \subseteq DOMAIN groups
      /\ \A x \in DOMAIN room : room[x] = groups[x]
  BY DEF Took
<1>5. CASE id \in DOMAIN room
  <2>1. old = groups[id] /\ id \in DOMAIN groups
    BY <1>4, <1>5 DEF Group
  <2>2. Entry(old) /\ (Clean(old, d.group) \/ Tainted(old, d.group))
    BY <1>2, <2>1 DEF IInv, TableInv
  <2>3. Basic(old)
    BY <2>2 DEF Entry, Basic
  <2> QED BY <1>1, <1>2, <1>3, <2>2, <2>3
<1>6. CASE id \notin DOMAIN room
  <2>1. old = [shards |-> << >>, k |-> 0, m |-> 0, age |-> 0]
    BY <1>4, <1>6 DEF Group, Fresh
  <2>2. old.shards = << >> /\ old.k = 0 /\ old.m = 0 /\ old.age = 0
    BY <2>1
  <2>3. DOMAIN old.shards = {}
    BY <2>2
  <2>4. Basic(old)
    BY <2>1, <2>2, <2>3, FS_EmptySet, Zenon DEF Basic
  <2>5. Clean(old, d.group)
    BY <1>3, <2>2, <2>3 DEF Clean
  <2> QED BY <1>1, <1>2, <1>3, <2>4, <2>5, Zenon
<1> QED BY <1>5, <1>6, Zenon

(* All shards of g are of group n, and usable once the geometry is known. *)
Ready(g, n) ==
  /\ \A i \in DOMAIN g.shards : g.shards[i] = n
  /\ g.k > 0 => Closed(n) /\ g.k = Len(content[n]) /\ UsableIn(g) = DOMAIN g.shards

(* The group a datagram makes of the one it met. *)
LEMMA NewKind ==
  ASSUME IInv, NEW d \in Log(net), NEW id, id = d.group - base,
         NEW room, NEW old, NEW g, Took(d, id, room, old, g)
  PROVE  /\ Entry(g) /\ DOMAIN g.shards = DOMAIN old.shards \union {d.index}
         /\ \/ Clean(old, d.group) /\ Ready(g, d.group) /\ (~Out(d, old, g) => Clean(g, d.group))
            \/ Tainted(old, d.group) /\ Tainted(g, d.group)
<1>1. /\ Basic(old) /\ (Clean(old, d.group) \/ Tainted(old, d.group))
      /\ d.group \in 0..(nextGroup - 1)
  BY OldKind
<1>2. d \in Datagram /\ nextGroup \in Nat
  BY DEF IInv, NetInv, Log, EncInv
<1>3. d.group \in Nat /\ d.index \in Nat /\ d.k \in Nat /\ d.m \in Nat /\ d.group < nextGroup
  BY <1>1, <1>2 DEF Datagram
<1>4. /\ g = Insert(old, d.index, d.group, d.k, d.m)
      BY Zenon DEF Took
<1>5. Inserted(g, old, d.index, d.group, d.k, d.m)
  BY <1>1, <1>3, <1>4, InsertShape, Zenon
<1>6. Entry(g) /\ DOMAIN g.shards = DOMAIN old.shards \union {d.index}
  BY <1>5, ZenonT(30) DEF Inserted
<1>7. CASE Tainted(old, d.group)
  <2>1. LeftOver(d.group) /\ Heir(d.group)
    BY <1>7, Zenon DEF Tainted, Heir, LeftOver
  <2>2. \A i \in DOMAIN g.shards : g.shards[i] = IF i \in DOMAIN old.shards THEN old.shards[i] ELSE d.group
    BY <1>5, Zenon DEF Inserted
  <2>3. Tainted(g, d.group)
    BY <1>7, <2>1, <2>2, Zenon DEF Tainted
  <2> QED BY <1>6, <1>7, <2>3, Zenon
<1>8. CASE Clean(old, d.group)
  <2>1. Grown(g, d.group, d.index \in DOMAIN old.shards)
    BY <1>1, <1>4, <1>8, CleanInsert, ZenonT(30)
  <2>2. g.k > 0 => UsableIn(g) = DOMAIN g.shards
    BY <2>1, ZenonT(30) DEF UsableIn, Grown
  <2>3. Ready(g, d.group)
    BY <2>1, <2>2 DEF Ready, Grown
  <2>4. ASSUME ~Out(d, old, g), g.k > 0 PROVE Cardinality(DOMAIN g.shards) < g.k
    <3>1. CASE d.index \in DOMAIN old.shards
      BY <2>1, <2>4, <3>1 DEF Grown
    <3>2. CASE d.index \notin DOMAIN old.shards
      <4>1. ~(Cardinality(DOMAIN g.shards) >= g.k)
        BY <1>4, <2>2, <2>4, <3>2 DEF Decodable, Out
      <4>2. Cardinality(DOMAIN g.shards) \in Nat /\ g.k \in Nat
        BY <1>6, FS_CardinalityType DEF Entry
      <4> QED BY <4>1, <4>2
    <3> QED BY <3>1, <3>2, ZenonT(30)
  <2>5. ~Out(d, old, g) => Clean(g, d.group)
    BY <1>3, <2>1, <2>4, ZenonT(30) DEF Clean, Grown
  <2> QED BY <1>6, <1>8, <2>3, <2>5
<1> QED BY <1>1, <1>7, <1>8, Zenon

(* The table after a datagram. *)
LEMMA TookTable ==
  ASSUME IInv, NEW d \in Log(net), NEW id, id = d.group - base,
         NEW room, NEW old, NEW g, Took(d, id, room, old, g)
  PROVE  TableInv'
<1>1. id \in GroupIds /\ base + id = d.group
  BY OldKind
<1>2. Entry(g) /\ (~Out(d, old, g) => Clean(g, d.group) \/ Tainted(g, d.group))
  BY NewKind, Zenon
<1>3. /\ DOMAIN room \subseteq DOMAIN groups /\ \A x \in DOMAIN room : room[x] = groups[x]
      /\ IsFiniteSet(DOMAIN room \union {id}) /\ Cardinality(DOMAIN room \union {id}) <= MaxGroups
      /\ DOMAIN groups' = (IF Out(d, old, g) THEN DOMAIN room \ {id} ELSE DOMAIN room \union {id})
      /\ \A x \in DOMAIN groups' : groups'[x] = IF x = id THEN g ELSE room[x]
      /\ UNCHANGED <<nextGroup, base, net, content, left>>
  BY Zenon DEF Took
<1>4. DOMAIN groups' \subseteq DOMAIN room \union {id}
  BY <1>3, Zenon
<1>5. DOMAIN groups' \subseteq GroupIds
  BY <1>1, <1>3, <1>4, Zenon DEF IInv, TableInv
<1>6. IsFiniteSet(DOMAIN groups') /\ GroupsBounded'
  <2>1. /\ IsFiniteSet(DOMAIN groups')
        /\ Cardinality(DOMAIN groups') <= Cardinality(DOMAIN room \union {id})
    BY <1>3, <1>4, FS_Subset, ZenonT(30)
  <2>2. Cardinality(DOMAIN groups') \in Nat /\ Cardinality(DOMAIN room \union {id}) \in Nat
    BY <1>3, <2>1, FS_CardinalityType, Zenon
  <2>3. Cardinality(DOMAIN groups') <= MaxGroups
    <3>1. Cardinality(DOMAIN room \union {id}) <= MaxGroups /\ MaxGroups \in Nat
      BY <1>3, DecoderAssumption, Zenon
    <3> QED BY <2>1, <2>2, <3>1
  <2> QED BY <2>1, <2>3 DEF GroupsBounded
<1>7. \A e, n : /\ Clean(e, n) => Clean(e, n)'
                /\ Tainted(e, n) => Tainted(e, n)'
  BY <1>3, Zenon DEF Clean, Tainted, Heir, LeftOver
<1>8. ASSUME NEW x \in DOMAIN groups'
      PROVE  Entry(groups'[x]) /\ (Clean(groups[x], base + x)' \/ Tainted(groups[x], base + x)')
  <2>1. PICK e : e = groups'[x]
    OBVIOUS
  <2>2. PICK n : n = base + x
    OBVIOUS
  <2>3. Entry(e) /\ (Clean(e, n) \/ Tainted(e, n))
    <3>1. CASE x = id
      <4>1. e = g /\ n = d.group /\ ~Out(d, old, g)
        BY <1>1, <1>3, <2>1, <2>2, <3>1, Zenon
      <4> QED BY <1>2, <4>1
    <3>2. CASE x # id
      <4>1. e = groups[x] /\ x \in DOMAIN groups
        BY <1>3, <1>4, <2>1, <3>2
      <4> QED BY <2>2, <4>1, ZenonT(30) DEF IInv, TableInv
    <3> QED BY <3>1, <3>2
  <2>4. Clean(e, n)' \/ Tainted(e, n)'
    BY <1>7, <2>3
  <2> QED BY <1>3, <2>1, <2>2, <2>3, <2>4, Zenon DEF Clean, Tainted, Heir, LeftOver
<1> QED BY <1>5, <1>6, <1>8, Zenon DEF TableInv, Entry

(* What a datagram lets the decoder recover. *)
LEMMA TookRecovered ==
  ASSUME IInv, NEW d \in Log(net), NEW id, id = d.group - base,
         NEW room, NEW old, NEW g, Took(d, id, room, old, g)
  PROVE  RecoveredInv'
<1>1. /\ recovered' = recovered \union (IF Out(d, old, g) /\ ~Complete(g) THEN Decoded(g) ELSE {})
      /\ UNCHANGED <<nextGroup, base, shards, content, left>>
  BY Zenon DEF Took
<1>2. Entry(g) /\ (Ready(g, d.group) \/ Tainted(g, d.group))
  BY NewKind, ZenonT(30)
<1>3. \A n : /\ Closed(n) => Closed(n)'
             /\ LeftOver(n) => LeftOver(n)'
             /\ PacketsOf(n)' = PacketsOf(n)
  BY <1>1, Zenon DEF Closed, OpenGroup, LeftOver, PacketsOf
<1>4. ASSUME NEW r \in recovered
      PROVE  /\ r[1] \subseteq Nat
             /\ \/ \E n \in r[1] : r[1] = {n} /\ Closed(n)' /\ <<n, r[2]>> \in PacketsOf(n)'
                \/ \E n \in r[1] : LeftOver(n)'
  BY <1>3 DEF IInv, RecoveredInv, RecoveredIsSent
<1>5. ASSUME Out(d, old, g), ~Complete(g), NEW r \in Decoded(g)
      PROVE  /\ r[1] \subseteq Nat
             /\ \/ \E n \in r[1] : r[1] = {n} /\ Closed(n)' /\ <<n, r[2]>> \in PacketsOf(n)'
                \/ \E n \in r[1] : LeftOver(n)'
  <2>1. PICK U : U = UsableIn(g)
    BY Zenon
  <2>2. PICK from : from = {g.shards[i] : i \in U}
    BY Zenon
  <2>3. PICK i \in (0..(g.k - 1)) \ DOMAIN g.shards : r = <<from, i>>
    BY <1>5, <2>1, <2>2 DEF Decoded
  <2>4. g.k > 0 /\ Cardinality(U) >= g.k /\ g.k \in Nat
    BY <1>1, <1>2, <1>5, <2>1 DEF Decodable, Entry, Out
  <2>5. U # {}
    <3>1. Cardinality({}) = 0
      BY FS_EmptySet, Zenon
    <3> QED BY <2>4, <3>1
  <2>6. U \subseteq DOMAIN g.shards /\ from \subseteq Nat
    BY <1>2, <2>1, <2>2, Zenon DEF UsableIn, Entry
  <2>7. CASE Tainted(g, d.group)
    <3>1. PICK j \in U : j \in DOMAIN g.shards
      BY <2>5, <2>6
    <3>2. g.shards[j] \in from /\ LeftOver(g.shards[j])
      BY <2>2, <2>7, <3>1, ZenonT(30) DEF Tainted
    <3>3. PICK o : o = g.shards[j]
      OBVIOUS
    <3>4. o \in from /\ LeftOver(o)'
      BY <1>3, <3>2, <3>3, Zenon
    <3> QED BY <2>3, <2>6, <3>4, Zenon
  <2>8. CASE Ready(g, d.group)
    <3>1. PICK n : n = d.group
      OBVIOUS
    <3>2. from = {n}
      BY <2>2, <2>5, <2>6, <2>8, <3>1, Zenon DEF Ready
    <3>3. Closed(n) /\ g.k = Len(content[n])
      BY <2>4, <2>8, <3>1, Zenon DEF Ready
    <3>4. <<n, i>> \in PacketsOf(n)
      BY <2>3, <3>3, Zenon DEF PacketsOf
    <3>5. Closed(n)' /\ <<n, i>> \in PacketsOf(n)'
      BY <1>3, <3>3, <3>4, Zenon
    <3>6. r[1] = {n} /\ r[2] = i
      BY <2>3, <3>2, Zenon
    <3>7. n \in Nat
      BY <2>6, <3>2
    <3> QED BY <3>5, <3>6, <3>7, Zenon
  <2> QED BY <1>2, <2>7, <2>8, Zenon
<1> QED BY <1>1, <1>4, <1>5, Zenon DEF RecoveredInv, RecoveredIsSent

(* The decoder's entry for a group that it did not forget was not swept. *)
LEMMA NotSwept ==
  ASSUME IInv, NEW d \in Log(net), NEW id, id = d.group - base,
         NEW room, NEW old, NEW g, Took(d, id, room, old, g),
         NEW n \in base..(nextGroup - 1), n \notin forgotten', ~Heir(n),
         n - base \in DOMAIN groups
  PROVE  n - base \in DOMAIN room
<1>1. PICK x : x = n - base
  OBVIOUS
<1>2. base + x = n
  BY <1>1 DEF IInv, EncInv
<1>3. Entry(groups[x]) /\ Clean(groups[x], n)
  BY <1>1, <1>2 DEF IInv, TableInv, Tainted
<1>4. PICK i \in DOMAIN groups[x].shards : groups[x].shards[i] = n
  <2>1. DOMAIN groups[x].shards # {}
    BY <1>3, Zenon DEF Entry
  <2>2. \A i \in DOMAIN groups[x].shards : groups[x].shards[i] = n
    BY <1>3, ZenonT(30) DEF Clean
  <2> QED BY <2>1, <2>2, ZenonT(30)
<1>5. \A y \in DOMAIN groups \ DOMAIN room :
        \A j \in DOMAIN groups[y].shards : groups[y].shards[j] \in forgotten'
  BY Zenon DEF Took
<1>6. CASE x \notin DOMAIN room
  <2>1. x \in DOMAIN groups \ DOMAIN room
    BY <1>1, <1>6
  <2>2. n \in forgotten'
    BY <1>4, <1>5, <2>1, Zenon
  <2> QED BY <2>2
<1> QED BY <1>1, <1>6

(* What arrived of the group of the datagram, and what it completes. *)
LEMMA TookOwn ==
  ASSUME IInv, NEW d \in Log(net), NEW id, id = d.group - base,
         NEW room, NEW old, NEW g, Took(d, id, room, old, g),
         NEW n, n = d.group, n \notin forgotten', ~Heir(n), Tracked(n)
  PROVE  Restored(n)' \/ Tracked(n)'
<1>1. n \in base..(nextGroup - 1) /\ n \in 0..(nextGroup - 1) /\ base + id = n
  BY OldKind
<1>2. /\ Entry(g) /\ DOMAIN g.shards = DOMAIN old.shards \union {d.index}
      /\ Ready(g, n)
  <2>1. /\ Entry(g) /\ DOMAIN g.shards = DOMAIN old.shards \union {d.index}
        /\ \/ Clean(old, d.group) /\ Ready(g, d.group) /\ (~Out(d, old, g) => Clean(g, d.group))
           \/ Tainted(old, d.group) /\ Tainted(g, d.group)
    BY NewKind, Zenon
  <2> QED BY <2>1, Zenon DEF Tainted
<1>3. HeldOf(n) = DOMAIN old.shards
  <2>1. old = Group(room, id) /\ DOMAIN room \subseteq DOMAIN groups
        /\ \A x \in DOMAIN room : room[x] = groups[x]
    BY Zenon DEF Took
  <2>2. CASE id \in DOMAIN room
    BY <2>1, <2>2, ZenonT(30) DEF HeldOf, Group
  <2>3. CASE id \notin DOMAIN room
    <3>1. id \notin DOMAIN groups
      BY <1>1, <2>3, NotSwept, ZenonT(30)
    <3>2. old.shards = << >>
      BY <2>1, <2>3 DEF Group, Fresh
    <3> QED BY <3>1, <3>2 DEF HeldOf
  <2> QED BY <2>2, <2>3
<1>4. ArrivedOf(n)' = Tag(n, DOMAIN g.shards)
  <2>1. arrived' = arrived \union {<<n, d.index>>}
    BY Zenon DEF Took
  <2>2. <<n, d.index>>[1] = n
    OBVIOUS
  <2>3. ArrivedOf(n)' = ArrivedOf(n) \union {<<n, d.index>>}
    BY <2>1, <2>2 DEF ArrivedOf
  <2>4. ArrivedOf(n) = Tag(n, DOMAIN old.shards)
    BY <1>3 DEF Tracked
  <2> QED BY <1>2, <2>3, <2>4, Zenon DEF Tag
<1>5. CASE ~Out(d, old, g)
  <2>1. id \in DOMAIN groups' /\ groups'[id] = g /\ base' = base
    BY <1>5, Zenon DEF Took
  <2>2. HeldOf(n)' = DOMAIN g.shards
    BY <2>1 DEF HeldOf
  <2> QED BY <1>4, <2>2 DEF Tracked
<1>6. CASE Out(d, old, g)
  <2>1. g.k > 0 /\ g.k \in Nat
    BY <1>2, <1>6 DEF Out, Complete, Decodable, Entry
  <2>2. Closed(n) /\ g.k = Len(content[n]) /\ UsableIn(g) = DOMAIN g.shards
    BY <1>2, <2>1, Zenon DEF Ready
  <2>3. content' = content /\ Closed(n)'
    BY <2>2, Zenon DEF Took, Closed, OpenGroup
  <2>4. ASSUME NEW i \in 0..(g.k - 1) PROVE <<n, i>> \in arrived' \/ <<{n}, i>> \in recovered'
    <3>1. CASE i \in DOMAIN g.shards
      BY <1>4, <3>1 DEF ArrivedOf, Tag
    <3>2. CASE i \notin DOMAIN g.shards
      <4>1. ~Complete(g)
        <5> SUFFICES ASSUME Complete(g) PROVE FALSE
          OBVIOUS
        <5>1. PICK D : D = DataIn(g)
          OBVIOUS
        <5>2. Cardinality(D) >= g.k
          BY <5>1, ZenonT(30) DEF Complete
        <5>3. D \subseteq 0..(g.k - 1) /\ D \subseteq DOMAIN g.shards
          BY <1>2, <2>1, <5>1 DEF DataIn, Entry
        <5>4. D = 0..(g.k - 1)
          BY <2>1, <5>2, <5>3, AllIndices, Zenon
        <5> QED BY <3>2, <5>3, <5>4, Zenon
      <4>2. recovered' = recovered \union Decoded(g) /\ Decodable(g)
        BY <1>6, <4>1, Zenon DEF Took, Out
      <4>3. PICK U : U = DOMAIN g.shards
        OBVIOUS
      <4>4. U # {}
        BY <1>2, <4>3, ZenonT(30)
      <4>5. {g.shards[j] : j \in U} = {n}
        BY <1>2, <4>3, <4>4, ZenonT(30) DEF Ready
      <4>6. <<{g.shards[j] : j \in U}, i>> \in Decoded(g)
        BY <2>2, <3>2, <4>3, Zenon DEF Decoded
      <4> QED BY <4>2, <4>5, <4>6, Zenon
    <3> QED BY <3>1, <3>2, Zenon
  <2>5. Restored(n)'
    BY <2>2, <2>3, <2>4 DEF Restored
  <2> QED BY <2>5, Zenon
<1> QED BY <1>5, <1>6, Zenon

(* What arrived, after a datagram. *)
LEMMA TookRepair ==
  ASSUME IInv, NEW d \in Log(net), NEW id, id = d.group - base,
         NEW room, NEW old, NEW g, Took(d, id, room, old, g)
  PROVE  RepairInv'
<1>1. /\ arrived' = arrived \union {<<d.group, d.index>>} /\ forgotten \subseteq forgotten'
      /\ recovered \subseteq recovered'
      /\ UNCHANGED <<nextGroup, base, shards, net, content, left>>
  BY Zenon DEF Took
<1>2. /\ d.group \in base..(nextGroup - 1) /\ d.group \in 0..(nextGroup - 1)
      /\ base \in Nat /\ nextGroup \in Nat /\ base + id = d.group
  <2>1. /\ d.group \in base..(nextGroup - 1) /\ d.group \in 0..(nextGroup - 1)
        /\ base + id = d.group
    BY OldKind
  <2>2. base \in Nat /\ nextGroup \in Nat
    BY DEF IInv, EncInv
  <2> QED BY <2>1, <2>2
<1>3. d.index \in Nat
  <2>1. d \in Datagram
    BY DEF IInv, NetInv, Log
  <2> QED BY <2>1 DEF Datagram
<1>4. arrived' \subseteq (0..(nextGroup' - 1)) \X Nat
  <2>1. arrived \subseteq (0..(nextGroup - 1)) \X Nat
    BY Zenon DEF IInv, RepairInv
  <2> QED BY <1>1, <1>2, <1>3, <2>1
<1>5. ASSUME NEW n \in 0..(nextGroup - 1), n \notin forgotten', ~Heir(n)
      PROVE  Restored(n)' \/ (n >= base /\ Tracked(n)') \/ (n < base /\ Short(n)')
  <2>1. n \notin forgotten
    BY <1>1, <1>5
  <2>2. n # d.group => ArrivedOf(n)' = ArrivedOf(n)
    <3>1. <<d.group, d.index>>[1] = d.group
      OBVIOUS
    <3> QED BY <1>1, <3>1 DEF ArrivedOf
  <2>3. CASE Restored(n)
    BY <1>1, <2>3 DEF Restored, Closed, OpenGroup
  <2>4. CASE n < base /\ Short(n)
    <3>1. n # d.group
      BY <1>2, <2>4
    <3> QED BY <1>1, <2>2, <2>4, <3>1 DEF Short
  <2>5. CASE n >= base /\ Tracked(n)
    <3>1. n \in base..(nextGroup - 1) /\ base + (n - base) = n
      BY <1>2, <2>5
    <3>2. CASE n = d.group
      BY <1>5, <2>5, <3>2, TookOwn, Zenon
    <3>3. CASE n # d.group
      <4>1. PICK x : x = n - base
        OBVIOUS
      <4>2. x # id
        BY <1>2, <3>1, <3>3, <4>1
      <4>3. /\ DOMAIN groups' = (IF Out(d, old, g) THEN DOMAIN room \ {id} ELSE DOMAIN room \union {id})
            /\ \A y \in DOMAIN groups' : groups'[y] = IF y = id THEN g ELSE room[y]
            /\ DOMAIN room \subseteq DOMAIN groups /\ \A y \in DOMAIN room : room[y] = groups[y]
        BY Zenon DEF Took
      <4>4. x \in DOMAIN groups' => x \in DOMAIN groups /\ groups'[x] = groups[x]
        BY <4>2, <4>3, ZenonT(30)
      <4>5. x \in DOMAIN groups => x \in DOMAIN groups'
        <5>1. x \in DOMAIN groups => x \in DOMAIN room
          BY <1>5, <3>1, <4>1, NotSwept, Zenon
        <5> QED BY <4>2, <4>3, <5>1
      <4>6. HeldOf(n)' = HeldOf(n)
        BY <1>1, <4>1, <4>4, <4>5 DEF HeldOf
      <4> QED BY <2>2, <2>5, <3>3, <4>6 DEF Tracked
    <3> QED BY <3>2, <3>3
  <2> QED BY <1>5, <2>1, <2>3, <2>4, <2>5 DEF IInv, RepairInv
<1>6. \A n : Heir(n)' = Heir(n)
  BY <1>1 DEF Heir
<1> QED BY <1>1, <1>4, <1>5, <1>6 DEF RepairInv

(* Receive. *)
LEMMA ReceiveIInv == ASSUME IInv, NEW d \in Log(net), Receive(d) PROVE IInv'
<1>1. PICK room, old, g : Took(d, d.group - base, room, old, g)
  BY ReceiveTook
<1>2. TableInv' /\ RecoveredInv' /\ RepairInv'
  BY <1>1, TookTable, TookRecovered, TookRepair
<1>3. UNCHANGED <<params, nextGroup, base, shards, m, globalSeq, net, content>>
  BY <1>1, ZenonT(30) DEF Took
<1>4. EncInv' /\ ContentInv' /\ NetInv'
  BY <1>3, Zenon DEF IInv, EncInv, ContentInv, OpenGroup, NetInv, Honest, Closed
<1> QED BY <1>2, <1>4 DEF IInv

----------------------------------------------------------------------------
(* The theorems. *)

(* Every step keeps the invariant. *)
LEMMA NextIInv == ASSUME IInv, [StreamNext]_streamVars PROVE IInv'
<1>1. ASSUME NEW i \in DOMAIN net, Receive(net[i]) PROVE IInv'
  <2>1. PICK d : d = net[i]
    OBVIOUS
  <2>2. d \in Log(net)
    BY <2>1 DEF Log
  <2> QED BY <1>1, <2>1, <2>2, ReceiveIInv
<1> QED BY <1>1, SendIInv, FlushIInv, ElapseIInv, RestartIInv, RetuneIInv, StutterIInv
        DEF StreamNext

(* The invariant holds in every behaviour. *)
LEMMA AlwaysIInv == StreamSpec => []IInv
BY InitIInv, NextIInv, PTL DEF StreamSpec

(* The decoder (tryReconstructLocked) never gives back a packet that the   *)
(* sender did not put into the group, whatever is lost, duplicated or      *)
(* reordered and whenever the geometry changes; restarts damage only the   *)
(* groups whose shards or ids the decoder held.                            *)
THEOREM RepairedIsSent == StreamSpec => []RecoveredIsSent
<1>1. IInv => RecoveredIsSent
  BY DEF IInv, RecoveredInv
<1> QED BY <1>1, AlwaysIInv, PTL

(* "the receiver repairs up to m losses per group" (fec.go): with any k    *)
(* shards of a closed group of k packets the receiver has them all.        *)
THEOREM LossesRepaired == StreamSpec => []RepairsUpToM
<1>1. ASSUME IInv PROVE RepairsUpToM
  <2> SUFFICES ASSUME NEW n \in 0..(nextGroup - 1), n \notin forgotten, ~Heir(n),
                      Cardinality(ArrivedOf(n)) >= Len(content[n])
               PROVE  \A q \in PacketsOf(n) : q \in arrived \/ <<{n}, q[2]>> \in recovered
    BY DEF RepairsUpToM, ArrivedOf
  <2>1. \A i \in 0..(Len(content[n]) - 1) : <<n, i>> \in arrived \/ <<{n}, i>> \in recovered
    <3>1. ~Short(n)
      BY DEF Short
    <3>2. CASE Restored(n)
      BY <3>2 DEF Restored
    <3>3. CASE n >= base /\ Tracked(n)
      <4>1. n \in base..(nextGroup - 1)
        BY <1>1, <3>3 DEF IInv, EncInv
      <4> QED BY <1>1, <3>1, <3>3, <4>1, TrackedEnds
    <3> QED BY <1>1, <3>1, <3>2, <3>3 DEF IInv, RepairInv
  <2> QED BY <2>1 DEF PacketsOf
<1> QED BY <1>1, AlwaysIInv, PTL

(* The decoder's table (group, sweepLocked) never outgrows its limit. *)
THEOREM TableBounded == StreamSpec => []GroupsBounded
<1>1. IInv => GroupsBounded
  BY DEF IInv, TableInv
<1> QED BY <1>1, AlwaysIInv, PTL

=============================================================================
