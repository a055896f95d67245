----------------------------- MODULE LinkProofs -----------------------------
(***************************************************************************)
(* Proofs about Link and ProbeLoop, for every probe interval, timeout      *)
(* ceiling, number of remembered probes, number of acks and sequence space,*)
(* and about DelayBaseline, for every clock width, window and spread of    *)
(* delays.                                                                 *)
(*                                                                         *)
(* TypeOK, OutstandingIsSuffix and UpIsEarned together are inductive: the  *)
(* bound on consecAcked + Len(outstanding) needs the other two.            *)
(***************************************************************************)
EXTENDS ProbeLoop, DelayBaseline, Facts, TLAPS

IInv == TypeOK /\ OutstandingIsSuffix /\ UpIsEarned

(* What the assumption says of the constants, one fact at a time. *)
LEMMA Constants ==
  /\ MaxOutstanding \in Nat \ {0} /\ SeqSpace \in Nat \ {0} /\ MaxOutstanding < SeqSpace
  /\ ProbeAckUp \in Nat \ {0} /\ MaxAge \in Nat \ {0}
  /\ HistoryCap \in Nat /\ HistoryCap = ProbeAckUp + MaxOutstanding
<1>1. MaxOutstanding # 0
  BY LinkAssumption
<1> QED BY <1>1, LinkAssumption DEF HistoryCap

(* The invariant holds of a new link (NewLink). *)
LEMMA InitIInv == Init => IInv
<1> SUFFICES ASSUME Init PROVE IInv
  OBVIOUS
<1>1. Len(outstanding) = 0 /\ outstanding \in Seq(Probe)
  <2>1. outstanding = <<>>
    BY DEF Init
  <2> QED BY <2>1
<1>2. TypeOK
  <2>1. up \in BOOLEAN /\ hasRTT \in BOOLEAN /\ lossFactor \in {FullFactor, DownFactor}
    BY Zenon DEF Init
  <2>2. 0 \in 0..MaxAge /\ 0 \in 0..ProbeAckUp /\ 0 \in Seqs /\ 0 \in 0..HistoryCap
    BY Constants DEF Seqs
  <2> QED BY <1>1, <2>1, <2>2 DEF Init, TypeOK
<1>3. OutstandingIsSuffix
  BY <1>1, Constants DEF OutstandingIsSuffix
<1>4. UpIsEarned
  BY <1>1, Constants DEF Init, UpIsEarned
<1> QED BY <1>2, <1>3, <1>4 DEF IInv

(* What Remember returns: the probes it was given, less the oldest one if  *)
(* they were already too many, and the new one.                            *)
LEMMA RememberShape ==
  ASSUME NEW q \in Seq(Probe), NEW s \in Seqs, Len(q) <= MaxOutstanding
  PROVE  LET r == Remember(q, s)
             k == IF Len(q) = MaxOutstanding THEN 1 ELSE 0
         IN  /\ r \in Seq(Probe)
             /\ Len(r) = Len(q) + 1 - k
             /\ \A i \in 1..(Len(r) - 1) : r[i] = q[i + k]
             /\ r[Len(r)].seq = s /\ r[Len(r)].age = 0
<1> DEFINE p == [seq |-> s, age |-> 0]
           all == Append(q, p)
<1>1. p \in Probe
  BY Constants DEF Probe
<1>2. /\ all \in Seq(Probe) /\ Len(all) = Len(q) + 1
      /\ \A i \in 1..Len(q) : all[i] = q[i]
      /\ all[Len(q) + 1] = p
  BY <1>1
<1> HIDE DEF p, all
<1>3. p.seq = s /\ p.age = 0
  BY DEF p
<1>4. CASE Len(q) = MaxOutstanding
  <2>1. Remember(q, s) = SubSeq(all, Len(all) - MaxOutstanding + 1, Len(all))
    BY <1>2, <1>4, Constants DEF Remember, LastN, all, p
  <2>2. Remember(q, s) = SubSeq(all, 2, Len(q) + 1)
    <3>1. Len(all) - MaxOutstanding + 1 = 2 /\ Len(all) = Len(q) + 1
      BY <1>2, <1>4, Constants
    <3> QED BY <2>1, <3>1, Zenon
  <2> DEFINE r == SubSeq(all, 2, Len(q) + 1)
  <2>3. /\ r \in Seq(Probe) /\ Len(r) = Len(q)
        /\ \A i \in 1..Len(q) : r[i] = all[i + 1]
    BY <1>2
  <2> HIDE DEF r
  <2>4. /\ \A i \in 1..(Len(r) - 1) : r[i] = q[i + 1]
        /\ r[Len(r)] = p
    BY <2>3, <1>2, <1>4, Constants
  <2>5. Remember(q, s) = r
    BY <2>2 DEF r
  <2> QED BY <2>3, <2>4, <2>5, <1>3, <1>4
<1>5. CASE Len(q) # MaxOutstanding
  <2>1. Remember(q, s) = all
    BY <1>2, <1>5, Constants DEF Remember, all, p
  <2> QED BY <2>1, <1>2, <1>3, <1>5
<1> QED BY <1>4, <1>5

(* Remembering the next probe keeps the suffix property. *)
LEMMA RememberSuffix ==
  ASSUME NEW q \in Seq(Probe), NEW a \in Seqs, Len(q) <= MaxOutstanding,
         \A i \in 1..Len(q) : q[i].seq = (a - (Len(q) - i)) % SeqSpace
  PROVE  LET b == (a + 1) % SeqSpace
             r == Remember(q, b)
         IN  /\ b \in Seqs
             /\ r \in Seq(Probe)
             /\ Len(r) <= MaxOutstanding /\ Len(r) <= Len(q) + 1
             /\ \A i \in 1..Len(r) : r[i].seq = (b - (Len(r) - i)) % SeqSpace
<1> DEFINE b == (a + 1) % SeqSpace
           r == Remember(q, b)
           k == IF Len(q) = MaxOutstanding THEN 1 ELSE 0
<1>1. a \in 0..(SeqSpace - 1)
  BY DEF Seqs
<1>2. /\ b \in 0..(SeqSpace - 1) /\ b % SeqSpace = b
      /\ \A d \in Int : (b - (d + 1)) % SeqSpace = (a - d) % SeqSpace
  <2>1. SeqSpace \in Nat \ {0}
    BY Constants
  <2>2. b = (a + 1) % SeqSpace /\ b \in Int
    BY <1>1, <2>1
  <2> HIDE DEF b
  <2> QED BY <1>1, <2>1, <2>2, ModBack, ZenonT(60), ZenonT(30)
<1>3. b \in Seqs
  BY <1>2 DEF Seqs
<1> HIDE DEF b
<1>4. /\ r \in Seq(Probe) /\ Len(r) = Len(q) + 1 - k
      /\ \A i \in 1..(Len(r) - 1) : r[i] = q[i + k]
      /\ r[Len(r)].seq = b
  BY <1>3, RememberShape
<1> HIDE DEF r
<1>5. Len(r) <= MaxOutstanding /\ Len(r) <= Len(q) + 1 /\ Len(r) >= 1
  BY <1>4, Constants
<1>6. ASSUME NEW i \in 1..Len(r) PROVE r[i].seq = (b - (Len(r) - i)) % SeqSpace
  <2>1. CASE i = Len(r)
    <3>1. b - (Len(r) - i) = b
      BY <2>1, <1>4, <1>2
    <3> QED BY <3>1, <2>1, <1>4, <1>2
  <2>2. CASE i # Len(r)
    <3>1. i \in 1..(Len(r) - 1) /\ i + k \in 1..Len(q)
      BY <2>2, <1>4, <1>5
    <3>2. r[i].seq = (a - (Len(q) - (i + k))) % SeqSpace
      BY <3>1, <1>4, Zenon
    <3> DEFINE d == Len(q) - (i + k)
    <3>3. d \in Nat /\ Len(r) - i = d + 1
      BY <3>1, <1>4
    <3>4. r[i].seq = (a - d) % SeqSpace
      BY <3>2
    <3>5. (b - (d + 1)) % SeqSpace = (a - d) % SeqSpace
      <4>1. d \in Int
        BY <3>3
      <4> HIDE DEF d
      <4> QED BY <4>1, <1>2
    <3> HIDE DEF d
    <3> QED BY <3>3, <3>4, <3>5
  <2> QED BY <2>1, <2>2
<1> QED BY <1>3, <1>4, <1>5, <1>6 DEF r, b

(* The estimators stay in range: the mean of two values in a range is in   *)
(* the range.                                                              *)
LEMMA MeanInRange ==
  ASSUME NEW m \in Nat, NEW x \in 0..m, NEW y \in 0..m
  PROVE  /\ (3 * x + y) \div 4 \in 0..m
         /\ (7 * x + y) \div 8 \in 0..m
         /\ x \div 2 \in 0..m
OBVIOUS

(* An RTT sample keeps srtt and rttvar in their ranges (OnProbeAck). *)
LEMMA SampleType ==
  ASSUME TypeOK, NEW rtt \in 0..MaxAge, Sample(rtt)
  PROVE  srtt' \in 0..MaxAge /\ rttvar' \in 0..MaxAge /\ hasRTT' \in BOOLEAN
<1>1. srtt \in 0..MaxAge /\ rttvar \in 0..MaxAge /\ MaxAge \in Nat
  BY Constants DEF TypeOK
<1>2. Abs(srtt - rtt) \in 0..MaxAge
  BY <1>1 DEF Abs
<1>3. srtt' \in 0..MaxAge
  BY <1>1, MeanInRange DEF Sample, estimate
<1>4. rttvar' \in 0..MaxAge
  <2> DEFINE dev == Abs(srtt - rtt)
  <2>1. dev \in 0..MaxAge
    BY <1>2
  <2>2. rttvar' \in {rttvar, rtt \div 2, (3 * rttvar + dev) \div 4}
    BY DEF Sample, estimate
  <2> HIDE DEF dev
  <2> QED BY <1>1, <2>1, <2>2, MeanInRange
<1>5. hasRTT' \in BOOLEAN
  BY Zenon DEF Sample, estimate, TypeOK
<1> QED BY <1>3, <1>4, <1>5

(* OnProbeSent keeps the invariant. *)
LEMMA OnProbeSentIInv == ASSUME IInv, OnProbeSent PROVE IInv'
<1> USE DEF IInv
<1>1. /\ outstanding \in Seq(Probe) /\ lastProbeSeq \in Seqs
      /\ Len(outstanding) <= MaxOutstanding /\ Len(outstanding) \in Nat
      /\ consecAcked \in 0..ProbeAckUp /\ sinceDown \in 0..HistoryCap
  BY DEF TypeOK, OutstandingIsSuffix
<1>2. lastProbeSeq' = (lastProbeSeq + 1) % SeqSpace
  BY DEF OnProbeSent
<1>3. CASE TimedOut
  <2>1. /\ up' = FALSE /\ consecAcked' = 0 /\ lossFactor' = DownFactor
        /\ outstanding' = Remember(<<>>, lastProbeSeq') /\ sinceDown' = 1
        /\ UNCHANGED estimate
    BY <1>3 DEF OnProbeSent
  <2>2. <<>> \in Seq(Probe) /\ Len(<<>>) = 0
    OBVIOUS
  <2> DEFINE q == <<>>
  <2>3. q \in Seq(Probe) /\ Len(q) = 0 /\ Len(q) <= MaxOutstanding
    BY <2>2, Constants
  <2>4. outstanding' = Remember(q, lastProbeSeq')
    BY <2>1
  <2> HIDE DEF q
  <2>5. \A i \in 1..Len(q) : q[i].seq = (lastProbeSeq - (Len(q) - i)) % SeqSpace
    BY <2>3
  <2>6. /\ lastProbeSeq' \in Seqs /\ outstanding' \in Seq(Probe)
        /\ Len(outstanding') <= MaxOutstanding /\ Len(outstanding') <= Len(q) + 1
        /\ \A i \in 1..Len(outstanding') :
             outstanding'[i].seq = (lastProbeSeq' - (Len(outstanding') - i)) % SeqSpace
    BY <1>1, <1>2, <2>3, <2>4, <2>5, RememberSuffix, Zenon
  <2>7. TypeOK'
    <3>1. 0 \in 0..ProbeAckUp /\ 1 \in 0..HistoryCap
      BY Constants
    <3> QED BY <2>1, <2>6, <3>1, Zenon DEF TypeOK, estimate
  <2>8. UpIsEarned'
    <3>1. Len(outstanding') \in Nat /\ 0 + Len(outstanding') <= 1
      BY <2>3, <2>6
    <3>2. 0 # ProbeAckUp
      BY Constants
    <3> QED BY <2>1, <3>1, <3>2 DEF UpIsEarned
  <2> QED BY <2>6, <2>7, <2>8 DEF OutstandingIsSuffix
<1>4. CASE ~TimedOut
  <2>1. /\ up' = up /\ consecAcked' = consecAcked /\ lossFactor' = lossFactor
        /\ outstanding' = Remember(outstanding, lastProbeSeq')
        /\ sinceDown' = AtMost(sinceDown + 1, HistoryCap)
        /\ UNCHANGED estimate
    BY <1>4 DEF OnProbeSent
  <2>2. /\ lastProbeSeq' \in Seqs /\ outstanding' \in Seq(Probe)
        /\ Len(outstanding') <= MaxOutstanding /\ Len(outstanding') <= Len(outstanding) + 1
        /\ \A i \in 1..Len(outstanding') :
             outstanding'[i].seq = (lastProbeSeq' - (Len(outstanding') - i)) % SeqSpace
    BY <1>1, <1>2, <2>1, RememberSuffix, Zenon DEF OutstandingIsSuffix
  <2>3. sinceDown' \in 0..HistoryCap
    BY <1>1, <2>1, Constants DEF AtMost
  <2>4. TypeOK'
    BY <2>1, <2>2, <2>3 DEF TypeOK, estimate
  <2>5. consecAcked + Len(outstanding') <= sinceDown'
    <3>1. Len(outstanding') \in Nat
      BY <2>2
    <3>2. consecAcked + Len(outstanding) <= sinceDown
      BY DEF UpIsEarned
    <3> QED BY <1>1, <2>1, <2>2, <3>1, <3>2, Constants DEF AtMost
  <2>6. UpIsEarned'
    BY <2>1, <2>5 DEF UpIsEarned
  <2> QED BY <2>2, <2>4, <2>6 DEF OutstandingIsSuffix
<1> QED BY <1>3, <1>4

(* What is left of a sequence behind its k-th element. *)
LEMMA RestOfSeq ==
  ASSUME NEW S, NEW q \in Seq(S), NEW k \in 1..Len(q)
  PROVE  LET r == SubSeq(q, k + 1, Len(q))
         IN  /\ r \in Seq(S) /\ Len(r) = Len(q) - k
             /\ \A i \in 1..Len(r) : r[i] = q[i + k]
<1> DEFINE r == SubSeq(q, k + 1, Len(q))
<1>1. Len(q) \in Nat
  OBVIOUS
<1>2. Len(r) = Len(q) - k
  BY <1>1
<1>3. \A i \in 1..Len(r) : r[i] = q[i + k]
  BY <1>1, <1>2
<1>4. r \in Seq(S)
  BY <1>1
<1> QED BY <1>2, <1>3, <1>4

(* OnProbeAck keeps the invariant. *)
LEMMA OnProbeAckIInv ==
  ASSUME IInv, NEW k \in 1..Len(outstanding), OnProbeAck(k)
  PROVE  IInv'
<1> USE DEF IInv
<1> DEFINE q == outstanding
           r == SubSeq(q, k + 1, Len(q))
<1>1. /\ q \in Seq(Probe) /\ Len(q) \in Nat /\ Len(q) <= MaxOutstanding
      /\ \A i \in 1..Len(q) : q[i].seq = (lastProbeSeq - (Len(q) - i)) % SeqSpace
      /\ consecAcked \in 0..ProbeAckUp /\ sinceDown \in 0..HistoryCap
      /\ consecAcked + Len(q) <= sinceDown
  BY DEF TypeOK, OutstandingIsSuffix, UpIsEarned
<1>2. outstanding' = r /\ lastProbeSeq' = lastProbeSeq /\ sinceDown' = sinceDown
  BY DEF OnProbeAck
<1>3. consecAcked' = AtMost(consecAcked + 1, ProbeAckUp)
  BY DEF OnProbeAck
<1>4. /\ r \in Seq(Probe) /\ Len(r) = Len(q) - k
      /\ \A i \in 1..Len(r) : r[i] = q[i + k]
  BY <1>1, RestOfSeq, Zenon
<1>5. q[k] \in Probe
  BY <1>1
<1> HIDE DEF r
<1>6. OutstandingIsSuffix'
  <2>1. ASSUME NEW i \in 1..Len(r) PROVE r[i].seq = (lastProbeSeq - (Len(r) - i)) % SeqSpace
    <3>1. i + k \in 1..Len(q) /\ Len(q) - (i + k) = Len(r) - i
      BY <1>1, <1>4
    <3>2. q[i + k].seq = (lastProbeSeq - (Len(q) - (i + k))) % SeqSpace
      BY <1>1, <3>1
    <3> QED BY <1>4, <3>1, <3>2
  <2>2. Len(r) <= MaxOutstanding
    BY <1>1, <1>4, Constants
  <2> QED BY <1>2, <2>1, <2>2 DEF OutstandingIsSuffix
<1>7. TypeOK'
  <2>1. srtt' \in 0..MaxAge /\ rttvar' \in 0..MaxAge /\ hasRTT' \in BOOLEAN
    <3>1. q[k].age \in 0..MaxAge
      BY <1>5 DEF Probe
    <3> QED BY <3>1, SampleType DEF OnProbeAck
  <2>2. consecAcked' \in 0..ProbeAckUp
    BY <1>1, <1>3, Constants DEF AtMost
  <2>3. up' \in BOOLEAN
    BY DEF OnProbeAck, TypeOK
  <2> QED BY <1>2, <1>4, <2>1, <2>2, <2>3, Zenon DEF OnProbeAck, TypeOK
<1>8. UpIsEarned'
  <2>1. consecAcked' + Len(r) <= sinceDown
    BY <1>1, <1>3, <1>4, Constants DEF AtMost
  <2>2. consecAcked' >= ProbeAckUp <=> consecAcked' = ProbeAckUp
    BY <1>1, <1>3, Constants DEF AtMost
  <2>3. consecAcked = ProbeAckUp => consecAcked' = ProbeAckUp
    BY <1>1, <1>3, Constants DEF AtMost
  <2>4. up' <=> consecAcked' = ProbeAckUp
    BY <2>2, <2>3, Zenon DEF OnProbeAck, UpIsEarned
  <2> QED BY <1>2, <2>1, <2>4 DEF UpIsEarned
<1> QED BY <1>6, <1>7, <1>8

(* MarkDown keeps the invariant. *)
LEMMA MarkDownIInv == ASSUME IInv, MarkDown PROVE IInv'
<1> USE DEF IInv
<1>1. /\ up' = FALSE /\ consecAcked' = 0 /\ outstanding' = <<>> /\ sinceDown' = 0
      /\ lossFactor' = DownFactor /\ UNCHANGED <<srtt, rttvar, hasRTT, lastProbeSeq>>
  BY DEF MarkDown
<1>2. outstanding' \in Seq(Probe) /\ Len(outstanding') = 0
  BY <1>1
<1>3. TypeOK'
  <2>1. 0 \in 0..ProbeAckUp /\ 0 \in 0..HistoryCap
    BY Constants
  <2> QED BY <1>1, <1>2, <2>1, Zenon DEF TypeOK
<1>4. OutstandingIsSuffix'
  BY <1>2, Constants DEF OutstandingIsSuffix
<1>5. UpIsEarned'
  BY <1>1, <1>2, Constants DEF UpIsEarned
<1> QED BY <1>3, <1>4, <1>5

(* A tick of the clock keeps the invariant. *)
LEMMA ElapseIInv == ASSUME IInv, Elapse PROVE IInv'
<1> USE DEF IInv
<1>1. outstanding' = Aged(outstanding) /\ outstanding \in Seq(Probe)
  BY DEF Elapse, TypeOK
<1>2. ASSUME NEW i \in 1..Len(outstanding)
      PROVE  /\ [outstanding[i] EXCEPT !.age = AtMost(@ + 1, MaxAge)] \in Probe
             /\ [outstanding[i] EXCEPT !.age = AtMost(@ + 1, MaxAge)].seq = outstanding[i].seq
  <2>1. outstanding[i] \in Probe
    BY <1>1
  <2>2. AtMost(outstanding[i].age + 1, MaxAge) \in 0..MaxAge
    BY <2>1, Constants DEF Probe, AtMost
  <2> QED BY <2>1, <2>2 DEF Probe
<1>3. /\ outstanding' \in Seq(Probe) /\ Len(outstanding') = Len(outstanding)
      /\ \A i \in 1..Len(outstanding) : outstanding'[i].seq = outstanding[i].seq
  <2> DEFINE n == Len(outstanding)
             e(i) == [outstanding[i] EXCEPT !.age = AtMost(@ + 1, MaxAge)]
  <2>1. n \in Nat /\ \A i \in 1..n : e(i) \in Probe /\ e(i).seq = outstanding[i].seq
    BY <1>1, <1>2
  <2>2. outstanding' = [i \in 1..n |-> e(i)]
    BY <1>1 DEF Aged
  <2> HIDE DEF n, e
  <2>3. outstanding' \in Seq(Probe) /\ Len(outstanding') = n
    BY <2>1, <2>2
  <2>4. \A i \in 1..n : outstanding'[i].seq = outstanding[i].seq
    BY <2>1, <2>2
  <2> QED BY <2>3, <2>4 DEF n
<1>4. TypeOK'
  BY <1>3 DEF Elapse, TypeOK
<1>5. OutstandingIsSuffix'
  BY <1>3 DEF Elapse, OutstandingIsSuffix
<1>6. UpIsEarned'
  BY <1>3 DEF Elapse, UpIsEarned
<1> QED BY <1>4, <1>5, <1>6

(* The invariant is inductive: one step per action. *)
LEMMA NextIInv == IInv /\ [Next]_vars => IInv'
<1> SUFFICES ASSUME IInv, [Next]_vars PROVE IInv'
  OBVIOUS
<1>1. CASE UNCHANGED vars
  BY <1>1 DEF vars, IInv, TypeOK, OutstandingIsSuffix, UpIsEarned
<1>2. ASSUME NEW s \in Seqs, OnAck(s) PROVE IInv'
  BY <1>1, <1>2, OnProbeAckIInv DEF OnAck, OnUnknownAck
<1> QED BY <1>1, <1>2, OnProbeSentIInv, MarkDownIInv, ElapseIInv DEF Next

(* The invariant holds in every reachable state. *)
LEMMA SpecIInv == Spec => []IInv
BY InitIInv, NextIInv, PTL DEF Spec

(* Every field of the link keeps its type (link.go, Link). *)
THEOREM TypeCorrect == Spec => []TypeOK
<1>1. IInv => TypeOK
  BY DEF IInv
<1> QED BY <1>1, SpecIInv, PTL

(* OnProbeSent and OnProbeAck keep the unanswered probes a contiguous      *)
(* suffix of those sent, so an ack matches at most one of them.            *)
THEOREM OutstandingCorrect == Spec => []OutstandingIsSuffix
<1>1. IInv => OutstandingIsSuffix
  BY DEF IInv
<1> QED BY <1>1, SpecIInv, PTL

(* A path comes up on ProbeAckUp acks of distinct probes sent since it     *)
(* last went down (OnProbeAck, goDownLocked).                              *)
THEOREM UpEarned == Spec => []UpIsEarned
<1>1. IInv => UpIsEarned
  BY DEF IInv
<1> QED BY <1>1, SpecIInv, PTL

----------------------------------------------------------------------------
(* ProbeLoop.  While a path is up every firing of the ticker sends a       *)
(* probe, so the i-th of the probes remembered is as many intervals old as *)
(* there are probes behind it; and the oldest one left at the last ack or  *)
(* at the first firing after it.  Ages saturate at MaxAge.                 *)

Spaced ==
  \A i \in 1..Len(outstanding) :
    \/ outstanding[i].age = MaxAge
    \/ outstanding[i].age + wait >= (Len(outstanding) - i + 1) * ProbeInterval

Heard ==
  up => /\ silence + wait <= ProbeRTO + 2 * ProbeInterval
        /\ outstanding = <<>> => silence + wait <= ProbeInterval
        /\ (outstanding # <<>> /\ outstanding[1].age < MaxAge)
             => silence <= outstanding[1].age + ProbeInterval

LoopInv ==
  /\ IInv /\ Spaced /\ Heard
  /\ wait \in 0..ProbeInterval /\ silence \in Nat

(* Every step of the loop is a step of the link, or leaves it alone. *)
LEMMA LoopSteps == ASSUME TypeOK, [LoopNext]_loopVars PROVE [Next]_vars
<1>1. ASSUME NEW i \in 1..Len(outstanding), OnAck(outstanding[i].seq) PROVE Next
  <2>1. outstanding \in Seq(Probe)
    BY DEF TypeOK
  <2>2. outstanding[i] \in Probe
    BY <2>1
  <2>3. outstanding[i].seq \in Seqs
    BY <2>2 DEF Probe
  <2> QED BY <1>1, <2>3 DEF Next
<1>2. CASE LoopTick
  BY <1>2 DEF LoopTick, Next
<1>3. CASE Ack
  BY <1>1, <1>3 DEF Ack, OnUnknownAck
<1>4. CASE WriteError
  BY <1>4 DEF WriteError, Next
<1>5. CASE Pass
  BY <1>5 DEF Pass, Next
<1>6. CASE UNCHANGED loopVars
  BY <1>6 DEF loopVars, vars
<1> QED BY <1>2, <1>3, <1>4, <1>5, <1>6 DEF LoopNext

(* The timeout lies between three probe intervals and its ceiling. *)
LEMMA RTORange ==
  ASSUME TypeOK
  PROVE  ProbeRTO \in Nat /\ 3 * ProbeInterval <= ProbeRTO /\ ProbeRTO <= MaxRTO
         /\ ProbeInterval \in Nat \ {0} /\ MaxRTO \in Nat /\ MaxAge \in Nat /\ MaxRTO < MaxAge
BY LinkAssumption DEF TypeOK, ProbeRTO, AtMost, AtLeast

(* An interval more, or less. *)
LEMMA Intervals ==
  ASSUME NEW n \in Int, NEW p \in Nat
  PROVE  (n + 1) * p = n * p + p /\ n * p \in Int
OBVIOUS

(* Sending a probe keeps the distances. *)
LEMMA TickSpaced ==
  ASSUME IInv, Spaced, wait = 0, wait' = ProbeInterval, OnProbeSent
  PROVE  Spaced'
<1>1. /\ outstanding \in Seq(Probe) /\ lastProbeSeq' \in Seqs
      /\ Len(outstanding) <= MaxOutstanding /\ Len(outstanding) \in Nat
      /\ MaxOutstanding \in Nat \ {0} /\ ProbeInterval \in Nat /\ MaxAge \in Nat
  <2>1. IInv'
    BY OnProbeSentIInv
  <2> QED BY <2>1, Constants, LinkAssumption DEF IInv, TypeOK, OutstandingIsSuffix
<1>2. ASSUME NEW q \in Seq(Probe), Len(q) <= MaxOutstanding,
             outstanding' = Remember(q, lastProbeSeq'),
             \A i \in 1..Len(q) : \/ q[i].age = MaxAge
                                  \/ q[i].age >= (Len(q) - i + 1) * ProbeInterval
      PROVE  Spaced'
  <2> DEFINE r == outstanding'
             k == IF Len(q) = MaxOutstanding THEN 1 ELSE 0
  <2>1. /\ r \in Seq(Probe) /\ Len(r) = Len(q) + 1 - k
        /\ \A i \in 1..(Len(r) - 1) : r[i] = q[i + k]
        /\ r[Len(r)].age = 0
    BY <1>1, <1>2, RememberShape, Zenon
  <2>2. Len(q) \in Nat /\ k \in 0..1 /\ Len(r) \in Nat
    BY <1>2, <2>1
  <2> HIDE DEF k, r
  <2>3. ASSUME NEW i \in 1..Len(r)
        PROVE  \/ r[i].age = MaxAge
               \/ r[i].age + ProbeInterval >= (Len(r) - i + 1) * ProbeInterval
    <3>1. CASE i = Len(r)
      <4>1. Len(r) - i + 1 = 1
        BY <2>2, <3>1
      <4>2. (Len(r) - i + 1) * ProbeInterval = ProbeInterval
        BY <1>1, <4>1
      <4>3. r[i].age = 0
        BY <2>1, <3>1
      <4> QED BY <1>1, <4>2, <4>3
    <3>2. CASE i # Len(r)
      <4>1. i \in 1..(Len(r) - 1) /\ i + k \in 1..Len(q)
        BY <2>1, <2>2, <3>2
      <4> DEFINE n == Len(q) - (i + k) + 1
      <4>2. n \in Int /\ Len(r) - i + 1 = n + 1
        BY <2>1, <2>2, <4>1
      <4>3. r[i] = q[i + k] /\ q[i + k].age \in Nat
        <5>1. q[i + k] \in Probe
          BY <4>1
        <5> QED BY <2>1, <4>1, <5>1, <1>1 DEF Probe
      <4>4. q[i + k].age = MaxAge \/ q[i + k].age >= n * ProbeInterval
        BY <1>2, <4>1
      <4> HIDE DEF n
      <4>5. (n + 1) * ProbeInterval = n * ProbeInterval + ProbeInterval
            /\ n * ProbeInterval \in Int
        BY <1>1, <4>2, Intervals
      <4> DEFINE x == n * ProbeInterval
      <4>6. q[i + k].age + ProbeInterval >= x + ProbeInterval \/ q[i + k].age = MaxAge
        <5>1. x \in Int /\ (q[i + k].age = MaxAge \/ q[i + k].age >= x)
          BY <4>4, <4>5
        <5> HIDE DEF x
        <5> QED BY <1>1, <4>3, <5>1
      <4> QED BY <4>2, <4>3, <4>5, <4>6
    <3> QED BY <3>1, <3>2
  <2> QED BY <2>3 DEF Spaced, r
<1>3. CASE TimedOut
  <2> DEFINE q == <<>>
  <2>1. q \in Seq(Probe) /\ Len(q) = 0 /\ outstanding' = Remember(q, lastProbeSeq')
    BY <1>3 DEF OnProbeSent
  <2> HIDE DEF q
  <2>2. /\ Len(q) <= MaxOutstanding
        /\ \A i \in 1..Len(q) : \/ q[i].age = MaxAge
                                \/ q[i].age >= (Len(q) - i + 1) * ProbeInterval
    BY <1>1, <2>1
  <2> QED BY <1>2, <2>1, <2>2, Zenon
<1>4. CASE ~TimedOut
  <2>1. outstanding' = Remember(outstanding, lastProbeSeq')
    BY <1>4 DEF OnProbeSent
  <2>2. \A i \in 1..Len(outstanding) :
          \/ outstanding[i].age = MaxAge
          \/ outstanding[i].age >= (Len(outstanding) - i + 1) * ProbeInterval
    <3>1. ASSUME NEW i \in 1..Len(outstanding) PROVE outstanding[i].age + wait = outstanding[i].age
      <4>1. outstanding[i] \in Probe
        BY <1>1
      <4> QED BY <4>1, <1>1 DEF Probe
    <3> QED BY <3>1 DEF Spaced
  <2> QED BY <1>1, <1>2, <2>1, <2>2
<1> QED BY <1>3, <1>4

(* A list that is full holds a probe that has timed out (OnProbeSent): the *)
(* limit on remembered probes never forgets one that has not.              *)
LEMMA FullHasTimedOut ==
  ASSUME IInv, Spaced, wait = 0, up, ~TimedOut
  PROVE  Len(outstanding) < MaxOutstanding
<1>1. /\ outstanding \in Seq(Probe) /\ Len(outstanding) \in Nat
      /\ Len(outstanding) <= MaxOutstanding
      /\ MaxOutstanding \in Nat \ {0} /\ MaxRTO < MaxOutstanding * ProbeInterval
      /\ MaxOutstanding * ProbeInterval \in Nat
  BY Constants, LinkAssumption DEF IInv, TypeOK, OutstandingIsSuffix
<1>2. /\ ProbeRTO \in Nat /\ ProbeRTO <= MaxRTO /\ MaxRTO \in Nat /\ MaxAge \in Nat
      /\ MaxRTO < MaxAge
  BY RTORange DEF IInv
<1>3. SUFFICES ASSUME Len(outstanding) = MaxOutstanding PROVE FALSE
  BY <1>1
<1>4. /\ 1 \in 1..Len(outstanding) /\ outstanding # <<>>
      /\ Len(outstanding) - 1 + 1 = MaxOutstanding
  BY <1>1, <1>3
<1>5. outstanding[1].age \in Nat
  <2>1. outstanding[1] \in Probe
    BY <1>1, <1>4
  <2> QED BY <1>2, <2>1 DEF Probe
<1>6. \/ outstanding[1].age = MaxAge
      \/ outstanding[1].age + 0 >= MaxOutstanding * ProbeInterval
  BY <1>4 DEF Spaced
<1>7. outstanding[1].age > ProbeRTO
  <2> DEFINE x == MaxOutstanding * ProbeInterval
  <2>1. x \in Nat /\ MaxRTO < x
        /\ (outstanding[1].age = MaxAge \/ outstanding[1].age + 0 >= x)
    BY <1>1, <1>6
  <2> HIDE DEF x
  <2> QED BY <1>2, <1>5, <2>1
<1> QED BY <1>4, <1>7 DEF TimedOut

(* Sending a probe: an old one is noticed. *)
LEMMA TickHeard ==
  ASSUME LoopInv, wait = 0, wait' = ProbeInterval, OnProbeSent, silence' = silence
  PROVE  Heard'
<1>1. SUFFICES ASSUME up' PROVE Heard'
  BY DEF Heard
<1>2. /\ up /\ ~TimedOut /\ outstanding' = Remember(outstanding, lastProbeSeq')
      /\ UNCHANGED estimate
  BY <1>1, Zenon DEF OnProbeSent
<1>3. Len(outstanding) < MaxOutstanding
  BY <1>2, FullHasTimedOut DEF LoopInv
<1>4. /\ outstanding \in Seq(Probe) /\ Len(outstanding) \in Nat /\ lastProbeSeq' \in Seqs
      /\ silence \in Nat /\ MaxOutstanding \in Nat
  <2>1. IInv'
    BY OnProbeSentIInv DEF LoopInv
  <2> QED BY <2>1, Constants DEF LoopInv, IInv, TypeOK
<1>5. /\ ProbeRTO \in Nat /\ ProbeRTO <= MaxRTO /\ MaxRTO \in Nat /\ MaxAge \in Nat
      /\ MaxRTO < MaxAge /\ ProbeInterval \in Nat
  BY RTORange DEF LoopInv, IInv
<1>6. ProbeRTO' = ProbeRTO
  BY <1>2 DEF ProbeRTO, estimate
<1>7. /\ Len(outstanding') = Len(outstanding) + 1 /\ outstanding' \in Seq(Probe)
      /\ \A i \in 1..Len(outstanding) : outstanding'[i] = outstanding[i]
      /\ outstanding'[Len(outstanding) + 1].age = 0
  <2> DEFINE s == lastProbeSeq'
             r == Remember(outstanding, s)
             k == IF Len(outstanding) = MaxOutstanding THEN 1 ELSE 0
  <2>1. k = 0 /\ s \in Seqs /\ Len(outstanding) <= MaxOutstanding
    BY <1>3, <1>4
  <2>2. /\ r \in Seq(Probe) /\ Len(r) = Len(outstanding) + 1 - k
        /\ \A i \in 1..(Len(r) - 1) : r[i] = outstanding[i + k]
        /\ r[Len(r)].age = 0
    <3> HIDE DEF s
    <3> QED BY <1>4, <2>1, RememberShape, Zenon
  <2> HIDE DEF r, s, k
  <2>3. outstanding' = r
    BY <1>2 DEF r, s
  <2> QED BY <1>4, <2>1, <2>2, <2>3
<1>8. CASE outstanding = <<>>
  <2>1. Len(outstanding) = 0 /\ silence <= ProbeInterval
    BY <1>2, <1>4, <1>8 DEF LoopInv, Heard
  <2>2. outstanding' # <<>> /\ outstanding'[1].age = 0
    <3>1. Len(outstanding) + 1 = 1
      BY <2>1
    <3>2. Len(outstanding') = 1 /\ outstanding'[1].age = 0
      BY <1>7, <3>1
    <3> QED BY <3>2
  <2>3. silence + ProbeInterval <= ProbeRTO + 2 * ProbeInterval
    BY <1>4, <1>5, <2>1
  <2> QED BY <1>4, <1>5, <1>6, <2>1, <2>2, <2>3 DEF Heard
<1>9. CASE outstanding # <<>>
  <2>1. Len(outstanding) # 0 /\ 1 \in 1..Len(outstanding)
    BY <1>4, <1>9
  <2>2. outstanding[1].age \in Nat /\ outstanding[1].age <= ProbeRTO
    <3>1. outstanding[1] \in Probe
      BY <1>4, <2>1
    <3> QED BY <1>2, <1>5, <1>9, <3>1 DEF Probe, TimedOut
  <2>3. silence <= outstanding[1].age + ProbeInterval
    BY <1>2, <1>5, <1>9, <2>2 DEF LoopInv, Heard
  <2>4. outstanding' # <<>> /\ outstanding'[1] = outstanding[1]
    BY <1>4, <1>7, <2>1
  <2>5. silence + ProbeInterval <= ProbeRTO + 2 * ProbeInterval
    BY <1>4, <1>5, <2>2, <2>3
  <2> QED BY <1>6, <2>3, <2>4, <2>5 DEF Heard
<1> QED BY <1>8, <1>9

(* A firing of the ticker. *)
LEMMA TickLoopInv == ASSUME LoopInv, LoopTick PROVE LoopInv'
<1>1. /\ wait = 0 /\ wait' = ProbeInterval /\ silence' = silence
      /\ wait' \in 0..ProbeInterval /\ silence \in Nat /\ ProbeInterval \in Nat
  BY LinkAssumption DEF LoopTick, LoopInv
<1>2. CASE OnProbeSent
  BY <1>1, <1>2, OnProbeSentIInv, TickSpaced, TickHeard DEF LoopInv
<1>3. CASE ~up /\ UNCHANGED vars
  <2>1. IInv'
    BY <1>3, NextIInv DEF LoopInv
  <2>2. ASSUME NEW i \in 1..Len(outstanding)
        PROVE  \/ outstanding[i].age = MaxAge
               \/ outstanding[i].age + ProbeInterval
                    >= (Len(outstanding) - i + 1) * ProbeInterval
    <3> DEFINE x == (Len(outstanding) - i + 1) * ProbeInterval
    <3>1. outstanding \in Seq(Probe) /\ Len(outstanding) \in Nat /\ MaxAge \in Nat
      BY Constants DEF LoopInv, IInv, TypeOK
    <3>2. outstanding[i] \in Probe
      BY <3>1
    <3>3. outstanding[i].age \in Nat /\ x \in Int
      BY <1>1, <3>1, <3>2 DEF Probe
    <3>4. outstanding[i].age = MaxAge \/ outstanding[i].age + 0 >= x
      BY <1>1 DEF LoopInv, Spaced
    <3> HIDE DEF x
    <3>5. outstanding[i].age = MaxAge \/ outstanding[i].age + ProbeInterval >= x
      BY <1>1, <3>3, <3>4
    <3> QED BY <3>5 DEF x
  <2>3. Spaced'
    BY <1>1, <1>3, <2>2, Zenon DEF Spaced, vars
  <2>4. Heard'
    BY <1>3 DEF Heard, vars
  <2> QED BY <1>1, <2>1, <2>3, <2>4 DEF LoopInv
<1> QED BY <1>2, <1>3 DEF LoopTick

(* An ack that the link accepts: what is left is spaced as before. *)
LEMMA AckLoopInv ==
  ASSUME LoopInv, NEW k \in 1..Len(outstanding), OnProbeAck(k), silence' = 0, wait' = wait
  PROVE  LoopInv'
<1>1. IInv' /\ IInv
  BY OnProbeAckIInv DEF LoopInv
<1>2. /\ outstanding \in Seq(Probe) /\ Len(outstanding) \in Nat
      /\ wait \in 0..ProbeInterval /\ ProbeInterval \in Nat
  BY <1>1, LinkAssumption DEF LoopInv, IInv, TypeOK
<1> DEFINE q == outstanding
           r == SubSeq(q, k + 1, Len(q))
<1>3. /\ outstanding' = r /\ r \in Seq(Probe) /\ Len(r) = Len(q) - k
      /\ \A i \in 1..Len(r) : r[i] = q[i + k]
  <2>1. outstanding' = r
    BY DEF OnProbeAck
  <2> QED BY <1>2, <2>1, RestOfSeq, Zenon
<1> HIDE DEF r
<1>4. ASSUME NEW i \in 1..Len(r)
      PROVE  r[i].age = MaxAge \/ r[i].age + wait >= (Len(r) - i + 1) * ProbeInterval
  <2>1. i + k \in 1..Len(q) /\ Len(q) - (i + k) + 1 = Len(r) - i + 1
    BY <1>2, <1>3
  <2>2. \/ q[i + k].age = MaxAge
        \/ q[i + k].age + wait >= (Len(q) - (i + k) + 1) * ProbeInterval
    BY <2>1 DEF LoopInv, Spaced
  <2> QED BY <1>3, <2>1, <2>2
<1>5. Spaced'
  BY <1>3, <1>4 DEF Spaced
<1>6. Heard'
  <2>1. TypeOK'
    BY <1>1 DEF IInv
  <2>2. ProbeRTO' \in Nat
    <3>1. srtt' \in 0..MaxAge /\ rttvar' \in 0..MaxAge
      BY <2>1 DEF TypeOK
    <3>2. ProbeInterval \in Nat /\ MaxRTO \in Nat /\ MaxAge \in Nat
      BY LinkAssumption
    <3> DEFINE a == srtt' + 4 * rttvar'
    <3>3. a \in Nat
      <4>1. srtt' \in Nat /\ rttvar' \in Nat
        BY <3>1, <3>2
      <4>2. \A x, y \in Nat : x + 4 * y \in Nat
        OBVIOUS
      <4> QED BY <4>1, <4>2, Zenon
    <3>4. ProbeRTO' = AtMost(AtLeast(a, 3 * ProbeInterval), MaxRTO)
      BY DEF ProbeRTO
    <3> HIDE DEF a
    <3>5. AtMost(AtLeast(a, 3 * ProbeInterval), MaxRTO) \in Nat
      BY <3>2, <3>3 DEF AtMost, AtLeast
    <3> QED BY <3>4, <3>5
  <2>3. outstanding' # <<>> => outstanding'[1].age \in Nat
    <3>1. ASSUME outstanding' # <<>> PROVE outstanding'[1] \in Probe
      <4>1. Len(r) \in Nat /\ Len(r) # 0
        BY <1>3, <3>1
      <4> QED BY <1>3, <4>1
    <3> QED BY <3>1, Constants DEF Probe
  <2>4. 0 + wait <= ProbeRTO' + 2 * ProbeInterval /\ 0 + wait <= ProbeInterval
    <3> DEFINE rto == ProbeRTO'
    <3>1. rto \in Nat
      BY <2>2
    <3> HIDE DEF rto
    <3>2. 0 + wait <= rto + 2 * ProbeInterval /\ 0 + wait <= ProbeInterval
      BY <1>2, <3>1
    <3> QED BY <3>2 DEF rto
  <2>5. outstanding' # <<>> => 0 <= outstanding'[1].age + ProbeInterval
    BY <1>2, <2>3
  <2> QED BY <2>4, <2>5 DEF Heard
<1> QED BY <1>1, <1>2, <1>5, <1>6 DEF LoopInv

(* The clock: silence and the ages grow alike. *)
LEMMA PassLoopInv == ASSUME LoopInv, Pass PROVE LoopInv'
<1>1. /\ Elapse /\ wait > 0 /\ wait' = wait - 1
      /\ silence' = AtMost(silence + 1, SilenceCap)
  BY DEF Pass
<1>2. /\ IInv' /\ IInv /\ TypeOK
  BY <1>1, ElapseIInv DEF LoopInv, IInv
<1>3. /\ outstanding \in Seq(Probe) /\ Len(outstanding) \in Nat
      /\ wait \in 0..ProbeInterval /\ ProbeInterval \in Nat /\ MaxAge \in Nat
      /\ silence \in Nat
  BY <1>2, LinkAssumption DEF LoopInv, IInv, TypeOK
<1>4. silence' \in Nat /\ silence' <= silence + 1
  BY <1>1, <1>3, LinkAssumption DEF AtMost, SilenceCap
<1>5. /\ wait' \in 0..ProbeInterval /\ up' = up /\ ProbeRTO' = ProbeRTO
  BY <1>1, <1>3 DEF Elapse, ProbeRTO
<1>6. /\ Len(outstanding') = Len(outstanding)
      /\ outstanding' = <<>> <=> outstanding = <<>>
      /\ \A i \in 1..Len(outstanding) :
           /\ outstanding[i].age \in 0..MaxAge
           /\ outstanding'[i].age = AtMost(outstanding[i].age + 1, MaxAge)
  <2>1. \A i \in 1..Len(outstanding) : outstanding[i] \in Probe
    BY <1>3
  <2>2. outstanding' = [i \in 1..Len(outstanding) |->
                          [outstanding[i] EXCEPT !.age = AtMost(@ + 1, MaxAge)]]
    BY <1>1 DEF Elapse, Aged
  <2>3. \A i \in 1..Len(outstanding) :
          /\ outstanding[i].age \in 0..MaxAge
          /\ outstanding'[i].age = AtMost(outstanding[i].age + 1, MaxAge)
    BY <2>1, <2>2 DEF Probe
  <2>4. Len(outstanding') = Len(outstanding) /\ outstanding' \in Seq(Probe)
    <3>1. outstanding' \in Seq(Probe)
      BY <1>2 DEF IInv, TypeOK
    <3>2. DOMAIN outstanding' = 1..Len(outstanding)
      BY <2>2
    <3> QED BY <1>3, <3>1, <3>2
  <2> QED BY <1>3, <2>3, <2>4
<1>7. Spaced'
  <2>1. ASSUME NEW i \in 1..Len(outstanding)
        PROVE  \/ outstanding'[i].age = MaxAge
               \/ outstanding'[i].age + wait' >= (Len(outstanding) - i + 1) * ProbeInterval
    <3> DEFINE x == (Len(outstanding) - i + 1) * ProbeInterval
    <3>1. x \in Int
      BY <1>3
    <3>2. outstanding[i].age = MaxAge \/ outstanding[i].age + wait >= x
      BY DEF LoopInv, Spaced
    <3>3. /\ outstanding[i].age \in 0..MaxAge
          /\ outstanding'[i].age = AtMost(outstanding[i].age + 1, MaxAge)
      BY <1>6
    <3> HIDE DEF x
    <3>4. outstanding'[i].age = MaxAge \/ outstanding'[i].age + wait' >= x
      BY <1>1, <1>3, <3>1, <3>2, <3>3 DEF AtMost
    <3> QED BY <3>4 DEF x
  <2> QED BY <1>6, <2>1 DEF Spaced
<1>8. Heard'
  <2>1. SUFFICES ASSUME up PROVE Heard'
    BY <1>5 DEF Heard
  <2>2. /\ silence + wait <= ProbeRTO + 2 * ProbeInterval
        /\ outstanding = <<>> => silence + wait <= ProbeInterval
        /\ (outstanding # <<>> /\ outstanding[1].age < MaxAge)
             => silence <= outstanding[1].age + ProbeInterval
    BY <2>1 DEF LoopInv, Heard
  <2>3. silence' + wait' <= silence + wait
    BY <1>1, <1>3, <1>4
  <2>4. ProbeRTO \in Nat
    BY <1>2, RTORange
  <2>5. silence' + wait' <= ProbeRTO' + 2 * ProbeInterval
    <3>1. silence' + wait' <= ProbeRTO + 2 * ProbeInterval
      <4> DEFINE a == silence + wait
                 b == silence' + wait'
                 c == ProbeRTO + 2 * ProbeInterval
      <4>1. a \in Int /\ b \in Int /\ c \in Int
        BY <1>3, <1>4, <1>5, <2>4
      <4>2. b <= a /\ a <= c
        BY <2>2, <2>3
      <4> HIDE DEF a, b, c
      <4>3. b <= c
        BY <4>1, <4>2
      <4> QED BY <4>3 DEF b, c
    <3> QED BY <1>5, <3>1
  <2>6. outstanding' = <<>> => silence' + wait' <= ProbeInterval
    <3> DEFINE a == silence + wait
               b == silence' + wait'
    <3>1. a \in Int /\ b \in Int /\ ProbeInterval \in Int
      BY <1>3, <1>4, <1>5
    <3>2. outstanding' = <<>> => a <= ProbeInterval
      BY <1>6, <2>2, Zenon
    <3> HIDE DEF a, b
    <3>3. b <= a
      BY <2>3 DEF a, b
    <3>4. outstanding' = <<>> => b <= ProbeInterval
      BY <3>1, <3>2, <3>3
    <3> QED BY <3>4 DEF b
  <2>7. (outstanding' # <<>> /\ outstanding'[1].age < MaxAge)
           => silence' <= outstanding'[1].age + ProbeInterval
    <3>1. SUFFICES ASSUME outstanding' # <<>>, outstanding'[1].age < MaxAge
                   PROVE  silence' <= outstanding'[1].age + ProbeInterval
      OBVIOUS
    <3>2. 1 \in 1..Len(outstanding) /\ outstanding # <<>>
      BY <1>3, <1>6, <3>1
    <3>3. /\ outstanding[1].age \in 0..MaxAge
          /\ outstanding'[1].age = AtMost(outstanding[1].age + 1, MaxAge)
      BY <1>6, <3>2
    <3>4. outstanding[1].age < MaxAge /\ outstanding'[1].age = outstanding[1].age + 1
      BY <1>3, <3>1, <3>3 DEF AtMost
    <3> QED BY <1>3, <1>4, <2>2, <3>2, <3>3, <3>4
  <2> QED BY <2>5, <2>6, <2>7 DEF Heard
<1> QED BY <1>2, <1>4, <1>5, <1>7, <1>8 DEF LoopInv

(* The invariant of the loop holds in every reachable state. *)
LEMMA LoopInvariant == LoopSpec => []LoopInv
<1>1. LoopInit => LoopInv
  <2> SUFFICES ASSUME LoopInit PROVE LoopInv
    OBVIOUS
  <2>1. IInv /\ up = FALSE /\ Len(outstanding) = 0
    BY InitIInv DEF LoopInit, Init
  <2> QED BY <2>1, LinkAssumption DEF LoopInit, LoopInv, Spaced, Heard
<1>2. LoopInv /\ [LoopNext]_loopVars => LoopInv'
  <2> SUFFICES ASSUME LoopInv, [LoopNext]_loopVars PROVE LoopInv'
    OBVIOUS
  <2>1. CASE LoopTick
    BY <2>1, TickLoopInv
  <2>2. CASE Ack
    <3>1. CASE OnUnknownAck /\ UNCHANGED silence
      BY <2>2, <3>1 DEF Ack, OnUnknownAck, vars, LoopInv, IInv, TypeOK,
                        OutstandingIsSuffix, UpIsEarned, Spaced, Heard, ProbeRTO
    <3>2. ASSUME NEW i \in 1..Len(outstanding), OnAck(outstanding[i].seq)
          PROVE  \E k \in 1..Len(outstanding) : OnProbeAck(k)
      BY <3>2 DEF OnAck
    <3>3. wait' = wait
      BY <2>2 DEF Ack
    <3> QED BY <2>2, <3>1, <3>2, <3>3, AckLoopInv, Zenon DEF Ack
  <2>3. CASE WriteError
    <3>1. MarkDown /\ UNCHANGED <<wait, silence>>
      BY <2>3 DEF WriteError
    <3>2. IInv' /\ up' = FALSE /\ Len(outstanding') = 0
      BY <3>1, MarkDownIInv, Zenon DEF LoopInv, MarkDown
    <3>3. Spaced' /\ Heard'
      BY <3>2 DEF Spaced, Heard
    <3> QED BY <3>1, <3>2, <3>3 DEF LoopInv
  <2>4. CASE Pass
    BY <2>4, PassLoopInv
  <2>5. CASE UNCHANGED loopVars
    BY <2>5 DEF loopVars, LoopInv, IInv, TypeOK, OutstandingIsSuffix, UpIsEarned,
                Spaced, Heard, ProbeRTO
  <2> QED BY <2>1, <2>2, <2>3, <2>4, <2>5 DEF LoopNext
<1> QED BY <1>1, <1>2, PTL DEF LoopSpec

(* The probe loop (clientProbeLoop, serverControlLoop) uses the link as    *)
(* Link describes it: what is proved of Link holds under the loop.         *)
THEOREM LoopUsesLink == LoopSpec => Spec
<1>1. LoopInit => Init
  BY DEF LoopInit
<1>2. LoopInv /\ [LoopNext]_loopVars => [Next]_vars
  BY LoopSteps DEF LoopInv, IInv
<1> QED BY <1>1, <1>2, LoopInvariant, PTL DEF LoopSpec, Spec

(* A path that stops answering goes down one timeout and two probe         *)
(* intervals after its last ack at the latest (OnProbeSent).               *)
THEOREM SilenceNoticed == LoopSpec => []SilenceIsNoticed
<1>1. LoopInv => SilenceIsNoticed
  <2> SUFFICES ASSUME LoopInv, up PROVE silence <= ProbeRTO + 2 * ProbeInterval
    BY DEF SilenceIsNoticed
  <2>1. ProbeRTO \in Nat /\ ProbeInterval \in Nat
    BY RTORange DEF LoopInv, IInv
  <2> QED BY <2>1 DEF LoopInv, Heard
<1> QED BY <1>1, LoopInvariant, PTL

----------------------------------------------------------------------------
(* The one-way delay: int32 arithmetic on a clock that turns.              *)

(* What is known of the constants. *)
LEMMA DelayConstants ==
  /\ Mod \in Nat \ {0} /\ Half \in Nat /\ MaxGap \in Nat \ {0}
  /\ \A d \in Delays : d \in Nat
  /\ \A o \in Offsets : o \in Nat
  /\ \A d, e \in Delays : 2 * (d - e) < Mod
BY DelayAssumption

(* The int32 of a number is congruent to it and less than half the range   *)
(* away from zero.                                                         *)
LEMMA SignedRange ==
  ASSUME NEW a \in Int
  PROVE  /\ Signed(a) \in Int /\ -Mod <= 2 * Signed(a) /\ 2 * Signed(a) < Mod
         /\ \E k \in Int : Signed(a) = a + Mod * k
<1>1. Mod \in Nat \ {0}
  BY DelayConstants
<1>2. a % Mod \in 0..(Mod - 1) /\ a \div Mod \in Int /\ a = Mod * (a \div Mod) + (a % Mod)
  BY <1>1, ModSpec
<1> DEFINE q == a \div Mod
           r == a % Mod
<1>3. q \in Int /\ -q \in Int /\ -q - 1 \in Int /\ r \in 0..(Mod - 1) /\ a = Mod * q + r
  BY <1>2
<1>4. Signed(a) = IF 2 * r < Mod THEN r ELSE r - Mod
  BY DEF Signed
<1> HIDE DEF q, r
<1>5. Mod * (-q) = -(Mod * q) /\ Mod * (-q - 1) = -(Mod * q) - Mod /\ Mod * q \in Int
  BY <1>1, <1>3
<1>6. CASE 2 * r < Mod
  <2>1. Signed(a) = a + Mod * (-q)
    BY <1>1, <1>3, <1>4, <1>5, <1>6
  <2>2. Signed(a) \in Int /\ -Mod <= 2 * Signed(a) /\ 2 * Signed(a) < Mod
    BY <1>1, <1>3, <1>4, <1>6
  <2>3. \E k \in Int : Signed(a) = a + Mod * k
    BY <1>3, <2>1
  <2> QED BY <2>2, <2>3
<1>7. CASE ~(2 * r < Mod)
  <2>1. Signed(a) = a + Mod * (-q - 1)
    BY <1>1, <1>3, <1>4, <1>5, <1>7
  <2>2. Signed(a) \in Int /\ -Mod <= 2 * Signed(a) /\ 2 * Signed(a) < Mod
    BY <1>1, <1>3, <1>4, <1>7
  <2>3. \E k \in Int : Signed(a) = a + Mod * k
    BY <1>3, <2>1
  <2> QED BY <2>2, <2>3
<1> QED BY <1>6, <1>7

(* A number in the range of int32 is its own int32. *)
LEMMA SignedNear ==
  ASSUME NEW a \in Int, -Mod <= 2 * a, 2 * a < Mod
  PROVE  Signed(a) = a
<1>1. Mod \in Nat \ {0}
  BY DelayConstants
<1>2. -Mod <= a /\ a < 2 * Mod /\ a < Mod
  BY <1>1
<1>3. a % Mod = IF a < 0 THEN a + Mod ELSE a
  BY <1>1, <1>2, ModNear, Zenon
<1> QED BY <1>1, <1>3 DEF Signed

(* Whole turns of the clock do not show. *)
LEMMA SignedShift ==
  ASSUME NEW a \in Int, NEW c \in Int
  PROVE  Signed(a + Mod * c) = Signed(a)
BY DelayConstants, ModShift, Zenon DEF Signed

(* The difference of two samples is that of the delays, wherever the clock *)
(* offset puts them.                                                       *)
LEMMA SampleDiff ==
  ASSUME NEW o \in Nat, NEW d \in Delays, NEW e \in Delays
  PROVE  /\ Signed(d + o) \in Int /\ Signed(e + o) \in Int /\ d - e \in Int
         /\ Signed(Signed(d + o) - Signed(e + o)) = d - e
<1>1. d \in Nat /\ e \in Nat /\ Mod \in Nat \ {0} /\ 2 * (d - e) < Mod /\ 2 * (e - d) < Mod
  BY DelayConstants
<1>2. d + o \in Int /\ e + o \in Int
  BY <1>1
<1>3. Signed(d + o) \in Int /\ Signed(e + o) \in Int
  BY <1>2, SignedRange
<1>4. PICK j \in Int : Signed(d + o) = (d + o) + Mod * j
  BY <1>2, SignedRange
<1>5. PICK k \in Int : Signed(e + o) = (e + o) + Mod * k
  BY <1>2, SignedRange
<1>6. d - e \in Int /\ j - k \in Int /\ -Mod <= 2 * (d - e)
  BY <1>1
<1>7. Signed(d + o) - Signed(e + o) = (d - e) + Mod * (j - k)
  <2>1. Mod * (j - k) = Mod * j - Mod * k /\ Mod * j \in Int /\ Mod * k \in Int
    BY <1>1
  <2> QED BY <1>1, <1>4, <1>5, <2>1
<1>8. Signed((d - e) + Mod * (j - k)) = Signed(d - e)
  BY <1>6, SignedShift
<1>9. Signed(d - e) = d - e
  BY <1>1, <1>6, SignedNear
<1> QED BY <1>3, <1>6, <1>7, <1>8, <1>9

----------------------------------------------------------------------------
(* The order of samples, NotAfter, is that of their delays.                *)

NotAfter(v, w) == Signed(v - w) <= 0
Samples(o, D) == {Signed(d + o) : d \in D}

(* Samples of real delays are totally ordered, although int32 is a circle. *)
LEMMA SamplesOrdered ==
  ASSUME NEW o \in Nat
  PROVE  /\ \A d, e \in Delays : NotAfter(Signed(d + o), Signed(e + o)) <=> d <= e
         /\ \A v \in Samples(o, Delays) : v \in Int /\ NotAfter(v, v)
         /\ \A v, w \in Samples(o, Delays) : NotAfter(v, w) \/ NotAfter(w, v)
         /\ \A v, w, x \in Samples(o, Delays) :
               NotAfter(v, w) /\ NotAfter(w, x) => NotAfter(v, x)
<1>0. \A d \in Delays : d \in Nat
  BY DelayConstants
<1>1. ASSUME NEW d \in Delays, NEW e \in Delays
      PROVE  NotAfter(Signed(d + o), Signed(e + o)) <=> d <= e
  BY <1>0, SampleDiff DEF NotAfter
<1>2. ASSUME NEW v \in Samples(o, Delays)
      PROVE  v \in Int /\ \E d \in Delays : v = Signed(d + o)
  BY SampleDiff DEF Samples
<1>3. ASSUME NEW v \in Samples(o, Delays) PROVE NotAfter(v, v)
  BY <1>0, <1>1, <1>2
<1>4. ASSUME NEW v \in Samples(o, Delays), NEW w \in Samples(o, Delays)
      PROVE  NotAfter(v, w) \/ NotAfter(w, v)
  <2>1. PICK d \in Delays : v = Signed(d + o)
    BY <1>2
  <2>2. PICK e \in Delays : w = Signed(e + o)
    BY <1>2
  <2>3. d \in Nat /\ e \in Nat
    BY <1>0
  <2> QED BY <1>1, <2>1, <2>2, <2>3
<1>5. ASSUME NEW v \in Samples(o, Delays), NEW w \in Samples(o, Delays),
             NEW x \in Samples(o, Delays), NotAfter(v, w), NotAfter(w, x)
      PROVE  NotAfter(v, x)
  <2>1. PICK d \in Delays : v = Signed(d + o)
    BY <1>2
  <2>2. PICK e \in Delays : w = Signed(e + o)
    BY <1>2
  <2>3. PICK f \in Delays : x = Signed(f + o)
    BY <1>2
  <2>4. d \in Nat /\ e \in Nat /\ f \in Nat
    BY <1>0
  <2>5. d <= e /\ e <= f
    BY <1>1, <1>5, <2>1, <2>2, <2>3
  <2>6. d <= f
    BY <2>4, <2>5
  <2> QED BY <1>1, <2>1, <2>3, <2>6
<1> QED BY <1>1, <1>2, <1>3, <1>4, <1>5

(* A bucket is empty or holds one sample. *)
Bucket(b, S) == b = {} \/ \E v \in S : b = {v}

(* Base is the first of the samples in the two buckets. *)
LEMMA BaseIs ==
  ASSUME NEW o \in Nat, NEW b, Bucket(b[0], Samples(o, Delays)),
         Bucket(b[1], Samples(o, Delays)), b[0] \union b[1] # {}
  PROVE  /\ Base(b) \in b[0] \union b[1]
         /\ Base(b) \in Samples(o, Delays)
         /\ \A w \in b[0] \union b[1] : NotAfter(Base(b), w)
<1> DEFINE S == Samples(o, Delays)
           B == b[0] \union b[1]
<1>1. \A v \in B : v \in S
  BY DEF Bucket
<1>2. \A v, w \in S : (NotAfter(v, w) \/ NotAfter(w, v)) /\ NotAfter(v, v)
  BY SamplesOrdered, Zenon
<1>3. \E v \in B : \A w \in B : NotAfter(v, w)
  <2>1. \E v, w \in S : B = {v, w}
    <3> HIDE DEF S
    <3>1. CASE b[0] = {}
      <4>1. PICK v \in S : b[1] = {v}
        BY <3>1 DEF Bucket, S
      <4> QED BY <3>1, <4>1
    <3>2. CASE b[1] = {}
      <4>1. PICK v \in S : b[0] = {v}
        BY <3>2 DEF Bucket, S
      <4> QED BY <3>2, <4>1
    <3>3. CASE b[0] # {} /\ b[1] # {}
      <4>1. PICK v \in S : b[0] = {v}
        BY <3>3 DEF Bucket, S
      <4>2. PICK w \in S : b[1] = {w}
        BY <3>3 DEF Bucket, S
      <4> QED BY <4>1, <4>2
    <3> QED BY <3>1, <3>2, <3>3
  <2> HIDE DEF S, B
  <2>2. PICK v \in S, w \in S : B = {v, w}
    BY <2>1
  <2> QED BY <1>2, <2>2, Zenon
<1>4. Base(b) = CHOOSE v \in B : \A w \in B : NotAfter(v, w)
  BY DEF Base, NotAfter
<1> HIDE DEF B, S
<1>5. Base(b) \in B /\ \A w \in B : NotAfter(Base(b), w)
  BY <1>3, <1>4
<1> QED BY <1>1, <1>5 DEF B, S

----------------------------------------------------------------------------
(* The baseline.  The newer bucket answers for the reports since it was    *)
(* begun, the older one for those of the half window before it; a bucket's *)
(* sample was reported while it was the newer one.                         *)

RxOK ==
  /\ offset \in Offsets /\ seen \subseteq Delays
  /\ rx \in [haveOwd: BOOLEAN, ewma: Int, min: Int, haveWin: BOOLEAN]
  /\ rx.haveWin => rx.haveOwd
  /\ rx.haveOwd => rx.min \in Samples(offset, seen)

BucketsOK ==
  /\ base = [b \in {0, 1} |-> base[b]]
  /\ Bucket(base[0], Samples(offset, seen)) /\ Bucket(base[1], Samples(offset, seen))

AgesOK ==
  /\ gap \in 0..MaxGap /\ bucketAge \in Int
  /\ bucketAge = -1 => gap = 0 /\ log = {} /\ base[0] = {} /\ base[1] = {}
  /\ bucketAge # -1 => gap <= bucketAge /\ bucketAge <= Half + gap /\ base[1] # {}

LogOK ==
  \A r \in log : r \in Int \X Int /\ gap <= r[1] /\ r[2] \in Samples(offset, seen)

Newer ==
  \A v \in base[1] :
    /\ \A r \in log : r[1] <= bucketAge => NotAfter(v, r[2])
    /\ \E r \in log : r[1] <= bucketAge /\ r[2] = v

Older ==
  /\ base[0] = {} => \A r \in log : r[1] <= bucketAge
  /\ \A v \in base[0] :
       /\ \A r \in log : bucketAge < r[1] /\ r[1] <= bucketAge + Half => NotAfter(v, r[2])
       /\ \E r \in log : r[1] <= bucketAge + Half + MaxGap /\ r[2] = v

DelayInv == RxOK /\ BucketsOK /\ AgesOK /\ LogOK /\ Newer /\ Older

(* More delays make more samples. *)
LEMMA SamplesGrow ==
  ASSUME NEW o, NEW D, NEW E, D \subseteq E
  PROVE  /\ Samples(o, D) \subseteq Samples(o, E)
         /\ \A b : Bucket(b, Samples(o, D)) => Bucket(b, Samples(o, E))
<1>1. Samples(o, D) \subseteq Samples(o, E)
  BY DEF Samples
<1>2. \A v \in Samples(o, D) : v \in Samples(o, E)
  BY <1>1
<1> HIDE DEF Samples
<1> QED BY <1>1, <1>2 DEF Bucket

(* The facts of the invariant that every step of the proof needs. *)
LEMMA DelayFacts ==
  ASSUME DelayInv
  PROVE  /\ offset \in Nat /\ seen \subseteq Delays
         /\ Samples(offset, seen) \subseteq Samples(offset, Delays)
         /\ gap \in 0..MaxGap /\ bucketAge \in Int
         /\ \A r \in log : r[1] \in Int /\ r[2] \in Int /\ gap <= r[1]
<1>1. offset \in Nat /\ seen \subseteq Delays
  BY DelayConstants DEF DelayInv, RxOK
<1> QED BY <1>1, SamplesGrow DEF DelayInv, AgesOK, LogOK

(* Nothing is known before the first packet. *)
LEMMA InitDelayInv == DelayInit => DelayInv
<1> SUFFICES ASSUME DelayInit PROVE DelayInv
  OBVIOUS
<1>1. RxOK
  BY DEF DelayInit, RxOK
<1>2. BucketsOK
  BY DEF DelayInit, BucketsOK, Bucket
<1>3. AgesOK
  BY DelayConstants DEF DelayInit, AgesOK
<1>4. LogOK /\ Newer /\ Older
  BY DEF DelayInit, LogOK, Newer, Older
<1> QED BY <1>1, <1>2, <1>3, <1>4 DEF DelayInv

(* OnData: the window's minimum is a sample of a packet. *)
LEMMA OnDataDelayInv ==
  ASSUME DelayInv, NEW d \in Delays, OnData(d)
  PROVE  DelayInv'
<1>1. /\ seen' = seen \union {d} /\ rx'.haveOwd
      /\ rx'.min = IF ~rx.haveWin \/ Signed(d + offset) < rx.min THEN Signed(d + offset) ELSE rx.min
      /\ offset' = offset /\ base' = base /\ bucketAge' = bucketAge /\ gap' = gap /\ log' = log
  BY DEF OnData
<1>2. seen \subseteq seen' /\ seen' \subseteq Delays /\ d \in seen'
  BY <1>1 DEF DelayInv, RxOK
<1>3. /\ Samples(offset, seen) \subseteq Samples(offset', seen')
      /\ \A b : Bucket(b, Samples(offset, seen)) => Bucket(b, Samples(offset', seen'))
  BY <1>1, <1>2, SamplesGrow
<1>4. RxOK'
  <2>1. Signed(d + offset) \in Samples(offset', seen') /\ Signed(d + offset) \in Int
    BY <1>1, <1>2, DelayFacts, SampleDiff DEF Samples
  <2>2. /\ rx \in [haveOwd: BOOLEAN, ewma: Int, min: Int, haveWin: BOOLEAN]
        /\ rx.haveWin => rx.min \in Samples(offset, seen)
    BY DEF DelayInv, RxOK
  <2>3. rx'.min \in Int /\ rx'.min \in Samples(offset', seen')
    BY <1>1, <1>3, <2>1, <2>2, Zenon
  <2>4. \E e \in Int, m \in Int :
          rx' = [haveOwd |-> TRUE, ewma |-> e, haveWin |-> TRUE, min |-> m]
    <3>1. PICK e \in IF rx.haveOwd THEN Between(rx.ewma, Signed(d + offset)) ELSE {Signed(d + offset)} :
            rx' = [haveOwd |-> TRUE, ewma |-> e, haveWin |-> TRUE,
                   min |-> IF ~rx.haveWin \/ Signed(d + offset) < rx.min
                           THEN Signed(d + offset) ELSE rx.min]
      BY Zenon DEF OnData
    <3>2. e \in Int
      BY <2>1, <3>1, DelayConstants DEF Between
    <3> QED BY <2>1, <2>2, <3>1, <3>2, Zenon
  <2>5. /\ rx' \in [haveOwd: BOOLEAN, ewma: Int, min: Int, haveWin: BOOLEAN]
        /\ rx'.haveWin => rx'.haveOwd
    BY <2>4
  <2>6. offset' \in Offsets
    BY <1>1 DEF DelayInv, RxOK
  <2> QED BY <1>2, <2>3, <2>5, <2>6 DEF RxOK
<1>5. BucketsOK'
  BY <1>1, <1>3 DEF DelayInv, BucketsOK
<1>6. LogOK'
  BY <1>1, <1>3, Zenon DEF DelayInv, LogOK
<1>7. AgesOK' /\ Newer' /\ Older'
  BY <1>1 DEF DelayInv, AgesOK, Newer, Older
<1> QED BY <1>4, <1>5, <1>6, <1>7, Zenon DEF DelayInv

(* Report begins a new window and keeps the minimum of the last. *)
LEMMA WindowEnds ==
  ASSUME RxOK, rx' = [rx EXCEPT !.haveWin = FALSE], offset' = offset, seen' = seen
  PROVE  RxOK'
<1>1. rx \in [haveOwd: BOOLEAN, ewma: Int, min: Int, haveWin: BOOLEAN]
  BY DEF RxOK
<1>2. /\ rx' \in [haveOwd: BOOLEAN, ewma: Int, min: Int, haveWin: BOOLEAN]
      /\ rx'.haveWin = FALSE /\ rx'.haveOwd = rx.haveOwd /\ rx'.min = rx.min
  BY <1>1, Zenon
<1> QED BY <1>2 DEF RxOK

(* A report that is lost. *)
LEMMA ReportLostDelayInv ==
  ASSUME DelayInv, ReportLost
  PROVE  DelayInv'
<1>1. /\ rx' = [rx EXCEPT !.haveWin = FALSE]
      /\ UNCHANGED <<offset, base, bucketAge, queue, gap, seen, log>>
  BY DEF ReportLost
<1>2. RxOK'
  BY <1>1, WindowEnds DEF DelayInv
<1> QED BY <1>1, <1>2 DEF DelayInv, BucketsOK, AgesOK, LogOK, Newer, Older

(* Time passes: everything reported and both buckets grow older together. *)
LEMMA TickDelayInv ==
  ASSUME DelayInv, Tick
  PROVE  DelayInv'
<1>1. CASE bucketAge = -1
  <2>1. /\ gap' = gap /\ bucketAge' = bucketAge /\ log' = {} /\ log = {}
        /\ UNCHANGED <<offset, rx, base, queue, seen>>
    BY <1>1 DEF Tick, DelayInv, AgesOK
  <2> QED BY <2>1 DEF DelayInv, RxOK, BucketsOK, AgesOK, LogOK, Newer, Older
<1>2. CASE bucketAge # -1
  <2>1. /\ gap < MaxGap /\ gap' = gap + 1 /\ bucketAge' = bucketAge + 1
        /\ log' = {<<r[1] + 1, r[2]>> : r \in {q \in log : q[1] <= MaxLogAge}}
        /\ UNCHANGED <<offset, rx, base, queue, seen>>
    BY <1>2, Zenon DEF Tick
  <2>2. /\ gap \in 0..MaxGap /\ bucketAge \in Int /\ gap <= bucketAge /\ bucketAge <= Half + gap
        /\ \A r \in log : r[1] \in Int /\ r[2] \in Int /\ gap <= r[1]
        /\ Half \in Nat /\ MaxGap \in Nat
    BY <1>2, DelayFacts, DelayConstants DEF DelayInv, AgesOK
  <2>3. ASSUME NEW r \in log'
        PROVE  \E q \in log : r = <<q[1] + 1, q[2]>> /\ r[1] = q[1] + 1 /\ r[2] = q[2]
    BY <2>1, <2>3
  <2>4. ASSUME NEW q \in log, q[1] <= bucketAge + Half + MaxGap
        PROVE  <<q[1] + 1, q[2]>> \in log'
    <3>1. q[1] <= MaxLogAge
      BY <2>1, <2>2, <2>4 DEF MaxLogAge
    <3> QED BY <2>1, <3>1, Zenon
  <2>5. RxOK' /\ BucketsOK'
    BY <2>1, Zenon DEF DelayInv, RxOK, BucketsOK
  <2>6. AgesOK'
    BY <1>2, <2>1, <2>2 DEF DelayInv, AgesOK
  <2>7. LogOK'
    BY <2>1, <2>2, <2>3 DEF DelayInv, LogOK
  <2>8. Newer'
    <3> SUFFICES ASSUME NEW v \in base[1]
                 PROVE  /\ \A r \in log' : r[1] <= bucketAge' => NotAfter(v, r[2])
                        /\ \E r \in log' : r[1] <= bucketAge' /\ r[2] = v
      BY <2>1 DEF Newer
    <3>1. /\ \A r \in log : r[1] <= bucketAge => NotAfter(v, r[2])
          /\ \E r \in log : r[1] <= bucketAge /\ r[2] = v
      BY DEF DelayInv, Newer
    <3>2. ASSUME NEW r \in log', r[1] <= bucketAge' PROVE NotAfter(v, r[2])
      BY <2>1, <2>2, <2>3, <3>1, <3>2
    <3>3. PICK q \in log : q[1] <= bucketAge /\ q[2] = v
      BY <3>1, Zenon
    <3>4. <<q[1] + 1, q[2]>> \in log'
      BY <2>2, <2>4, <3>3
    <3>5. <<q[1] + 1, q[2]>>[1] <= bucketAge' /\ <<q[1] + 1, q[2]>>[2] = v
      BY <2>1, <2>2, <3>3
    <3> QED BY <3>2, <3>4, <3>5, Zenon
  <2>9. Older'
    <3>1. ASSUME base'[0] = {}, NEW r \in log' PROVE r[1] <= bucketAge'
      BY <2>1, <2>2, <2>3, <3>1 DEF DelayInv, Older
    <3>2. ASSUME NEW v \in base'[0]
          PROVE  /\ \A r \in log' : bucketAge' < r[1] /\ r[1] <= bucketAge' + Half => NotAfter(v, r[2])
                 /\ \E r \in log' : r[1] <= bucketAge' + Half + MaxGap /\ r[2] = v
      <4>1. /\ \A r \in log : bucketAge < r[1] /\ r[1] <= bucketAge + Half => NotAfter(v, r[2])
            /\ \E r \in log : r[1] <= bucketAge + Half + MaxGap /\ r[2] = v
        BY <2>1, <3>2, Zenon DEF DelayInv, Older
      <4>2. ASSUME NEW r \in log', bucketAge' < r[1], r[1] <= bucketAge' + Half
            PROVE  NotAfter(v, r[2])
        BY <2>1, <2>2, <2>3, <4>1, <4>2
      <4>3. PICK q \in log : q[1] <= bucketAge + Half + MaxGap /\ q[2] = v
        BY <4>1
      <4>4. <<q[1] + 1, q[2]>> \in log'
        BY <2>4, <4>3
      <4>5. <<q[1] + 1, q[2]>>[1] <= bucketAge' + Half + MaxGap /\ <<q[1] + 1, q[2]>>[2] = v
        BY <2>1, <2>2, <4>3
      <4> QED BY <4>2, <4>4, <4>5, Zenon
    <3> QED BY <3>1, <3>2, Zenon DEF Older
  <2> QED BY <2>5, <2>6, <2>7, <2>8, <2>9 DEF DelayInv
<1> QED BY <1>1, <1>2

(* The newer bucket takes the earlier of its sample and the report's. *)
LEMMA LowerIs ==
  ASSUME NEW o \in Nat, NEW b, Bucket(b, Samples(o, Delays)), NEW m \in Samples(o, Delays)
  PROVE  \E v \in b \union {m} :
           /\ Lower(b, m) = {v} /\ NotAfter(v, m)
           /\ \A w \in b : NotAfter(v, w)
<1>1. \A v, w \in Samples(o, Delays) :
        /\ NotAfter(v, v) /\ (NotAfter(v, w) \/ NotAfter(w, v))
        /\ (~(Signed(v - w) < 0) => NotAfter(w, v)) /\ (Signed(v - w) < 0 => NotAfter(v, w))
  <2>1. ASSUME NEW v \in Samples(o, Delays), NEW w \in Samples(o, Delays)
        PROVE  (~(Signed(v - w) < 0) => NotAfter(w, v)) /\ (Signed(v - w) < 0 => NotAfter(v, w))
    <3>1. PICK d \in Delays : v = Signed(d + o)
      BY DEF Samples
    <3>2. PICK e \in Delays : w = Signed(e + o)
      BY DEF Samples
    <3>3. d \in Nat /\ e \in Nat
      BY DelayConstants
    <3>4. Signed(v - w) = d - e /\ Signed(w - v) = e - d
      BY <3>1, <3>2, SampleDiff
    <3> QED BY <3>3, <3>4 DEF NotAfter
  <2> QED BY <2>1, SamplesOrdered
<1>2. CASE b = {}
  <2>1. Lower(b, m) = {m}
    BY <1>2 DEF Lower
  <2> QED BY <1>1, <1>2, <2>1
<1>3. CASE b # {}
  <2>1. PICK w \in Samples(o, Delays) : b = {w}
    BY <1>3 DEF Bucket
  <2>2. Lower(b, m) = IF Signed(m - w) < 0 THEN {m} ELSE {w}
    BY <2>1 DEF Lower
  <2> QED BY <1>1, <2>1, <2>2
<1> QED BY <1>2, <1>3, Zenon

(* A report is applied.  The reports the newer bucket answers for are those*)
(* since it was begun; when it is older than half the window it becomes the*)
(* older bucket, and answers for the half window before.                   *)
LEMMA ReportDelayInv ==
  ASSUME DelayInv, Report
  PROVE  DelayInv'
<1> DEFINE S == Samples(offset, seen)
           m == rx.min
           old == IF Stale THEN Rotate ELSE base
           fresh == Stale \/ bucketAge = -1
<1>1. /\ rx.haveOwd /\ (bucketAge = -1 \/ gap > 0)
      /\ base' = [old EXCEPT ![1] = Lower(@, m)]
      /\ bucketAge' = IF fresh THEN 0 ELSE bucketAge
      /\ rx' = [rx EXCEPT !.haveWin = FALSE]
      /\ gap' = 0 /\ log' = log \union {<<0, m>>}
      /\ offset' = offset /\ seen' = seen
  BY Zenon DEF Report
<1>2. /\ offset \in Nat /\ S \subseteq Samples(offset, Delays)
      /\ gap \in 0..MaxGap /\ bucketAge \in Int
      /\ \A r \in log : r[1] \in Int /\ r[2] \in S /\ gap <= r[1]
      /\ Half \in Nat /\ MaxGap \in Nat
      /\ bucketAge = -1 => log = {} /\ base[0] = {} /\ base[1] = {}
      /\ bucketAge # -1 => gap <= bucketAge /\ bucketAge <= Half + gap /\ base[1] # {}
  BY DelayFacts, DelayConstants DEF DelayInv, LogOK, AgesOK
<1>3. m \in S /\ Bucket(base[0], S) /\ Bucket(base[1], S) /\ base = [b \in {0, 1} |-> base[b]]
  BY <1>1 DEF DelayInv, RxOK, BucketsOK
<1>4. /\ base' = [b \in {0, 1} |-> base'[b]]
      /\ base'[0] = (IF Stale THEN base[1] ELSE base[0])
      /\ base'[1] = Lower(IF Stale THEN {} ELSE base[1], m)
  <2>1. DOMAIN base = {0, 1}
    BY <1>3
  <2>2. old = [b \in {0, 1} |-> IF b = 0 THEN IF Stale THEN base[1] ELSE base[0]
                                         ELSE IF Stale THEN {} ELSE base[1]]
    <3>1. CASE Stale
      BY <1>3, <2>1, <3>1 DEF Rotate
    <3>2. CASE ~Stale
      BY <1>3, <3>2
    <3> QED BY <3>1, <3>2
  <2> HIDE DEF old, m
  <2>3. base' = [b \in {0, 1} |-> IF b = 1 THEN Lower(old[1], m) ELSE old[b]]
    BY <1>1, <2>2, Zenon
  <2> QED BY <2>2, <2>3
<1> DEFINE kept == IF Stale THEN {} ELSE base[1]
<1>5. Bucket(kept, S) /\ base'[1] = Lower(kept, m)
  BY <1>3, <1>4 DEF Bucket
<1> HIDE DEF S, m, old, kept
<1>6. PICK v \in kept \union {m} :
        base'[1] = {v} /\ NotAfter(v, m) /\ \A w \in kept : NotAfter(v, w)
  <2>1. m \in Samples(offset, Delays)
    BY <1>2, <1>3, Zenon
  <2>2. Bucket(kept, Samples(offset, Delays))
    BY <1>2, <1>5 DEF Bucket
  <2> QED BY <1>2, <1>5, <2>1, <2>2, LowerIs
<1>7. v \in S
  BY <1>3, <1>5, <1>6 DEF Bucket
<1>8. RxOK'
  BY <1>1, WindowEnds DEF DelayInv
<1>9. BucketsOK'
  <2>1. Bucket(base'[0], S) /\ Bucket(base'[1], S)
    BY <1>3, <1>4, <1>6, <1>7, Zenon DEF Bucket
  <2> QED BY <1>1, <1>4, <2>1 DEF BucketsOK, S
<1>10. AgesOK'
  <2>1. gap' \in 0..MaxGap /\ bucketAge' \in Int /\ bucketAge' # -1 /\ base'[1] # {}
    BY <1>1, <1>2, <1>6
  <2>2. gap' <= bucketAge' /\ bucketAge' <= Half + gap'
    BY <1>1, <1>2 DEF Stale
  <2> QED BY <2>1, <2>2 DEF AgesOK
<1>11. m \in Int
  BY <1>1, <1>3 DEF DelayInv, RxOK, m
<1>12. /\ \A r \in log' : r \in log \/ (r = <<0, m>> /\ r[1] = 0 /\ r[2] = m)
       /\ \A r \in log : r \in log'
       /\ <<0, m>> \in log' /\ <<0, m>>[1] = 0 /\ <<0, m>>[2] = m
  BY <1>1
<1>13. LogOK'
  <2>1. ASSUME NEW r \in log'
        PROVE  r \in Int \X Int /\ 0 <= r[1] /\ r[2] \in S
    <3>1. CASE r \in log
      BY <1>2, <3>1 DEF DelayInv, LogOK
    <3>2. CASE r = <<0, m>> /\ r[1] = 0 /\ r[2] = m
      BY <1>3, <1>11, <3>2
    <3> QED BY <1>12, <3>1, <3>2, Zenon
  <2> QED BY <1>1, <2>1 DEF LogOK, S
<1>14. Newer'
  <2>1. ASSUME NEW r \in log', r[1] <= bucketAge' PROVE NotAfter(v, r[2])
    <3>1. CASE r \in log
      <4>1. ~fresh /\ bucketAge' = bucketAge
        BY <1>1, <1>2, <2>1, <3>1
      <4>2. PICK w \in kept : kept = base[1]
        BY <1>2, <4>1, Zenon DEF kept
      <4>3. NotAfter(w, r[2])
        BY <2>1, <3>1, <4>1, <4>2 DEF DelayInv, Newer
      <4>4. /\ v \in Samples(offset, Delays) /\ w \in Samples(offset, Delays)
            /\ r[2] \in Samples(offset, Delays)
        BY <1>2, <1>3, <1>7, <3>1, <4>2 DEF Bucket
      <4> QED BY <1>2, <1>6, <4>2, <4>3, <4>4, SamplesOrdered
    <3>2. CASE r = <<0, m>> /\ r[1] = 0 /\ r[2] = m
      BY <1>6, <3>2
    <3> QED BY <1>12, <3>1, <3>2, Zenon
  <2>2. \E r \in log' : r[1] <= bucketAge' /\ r[2] = v
    <3>1. CASE v = m
      <4>1. 0 <= bucketAge'
        <5>1. bucketAge' = 0 \/ (bucketAge' = bucketAge /\ bucketAge # -1)
          BY <1>1, Zenon
        <5>2. bucketAge \in Int /\ gap \in 0..MaxGap /\ (bucketAge # -1 => gap <= bucketAge)
          BY <1>2, Zenon
        <5> QED BY <5>1, <5>2
      <4> QED BY <1>12, <3>1, <4>1
    <3>2. CASE v \in kept
      <4>1. v \in base[1] /\ ~Stale
        BY <3>2 DEF kept
      <4>2. bucketAge # -1 /\ bucketAge' = bucketAge
        BY <1>1, <1>2, <4>1
      <4> QED BY <1>12, <4>1, <4>2, Zenon DEF DelayInv, Newer
    <3> QED BY <1>6, <3>1, <3>2
  <2> QED BY <1>6, <2>1, <2>2, Zenon DEF Newer
<1>15. Older'
  <2>1. CASE Stale
    <3>1. bucketAge > Half /\ bucketAge # -1 /\ bucketAge' = 0 /\ base'[0] = base[1]
      BY <1>1, <1>2, <1>4, <2>1 DEF Stale
    <3>2. bucketAge <= Half + MaxGap /\ base'[0] # {}
      BY <1>2, <3>1
    <3>3. ASSUME NEW w \in base[1]
          PROVE  /\ \A r \in log' : 0 < r[1] /\ r[1] <= Half => NotAfter(w, r[2])
                 /\ \E r \in log' : r[1] <= Half + MaxGap /\ r[2] = w
      <4>1. /\ \A r \in log : r[1] <= bucketAge => NotAfter(w, r[2])
            /\ \E r \in log : r[1] <= bucketAge /\ r[2] = w
        BY Zenon DEF DelayInv, Newer
      <4>2. ASSUME NEW r \in log', 0 < r[1], r[1] <= Half PROVE NotAfter(w, r[2])
        BY <1>2, <1>12, <3>1, <4>1, <4>2
      <4>3. \E r \in log' : r[1] <= Half + MaxGap /\ r[2] = w
        <5>1. PICK r \in log : r[1] <= bucketAge /\ r[2] = w
          BY <4>1, Zenon
        <5>2. r \in log' /\ r[1] \in Int
          BY <1>12, <5>1, Zenon DEF DelayInv, LogOK
        <5>3. r[1] <= Half + MaxGap
          BY <1>2, <3>2, <5>1, <5>2
        <5> QED BY <5>1, <5>2, <5>3, Zenon
      <4> QED BY <4>2, <4>3, Zenon
    <3>4. 0 + Half = Half /\ 0 + Half + MaxGap = Half + MaxGap
      BY <1>2
    <3> QED BY <3>1, <3>2, <3>3, <3>4 DEF Older
  <2>2. CASE ~Stale /\ bucketAge = -1
    BY <1>1, <1>2, <1>4, <1>12, <2>2 DEF Older
  <2>3. CASE ~Stale /\ bucketAge # -1
    <3>1. bucketAge' = bucketAge /\ base'[0] = base[0] /\ 0 <= bucketAge
      BY <1>1, <1>2, <1>4, <2>3
    <3>2. ASSUME base[0] = {}, NEW r \in log' PROVE r[1] <= bucketAge
      BY <1>12, <3>1, <3>2, Zenon DEF DelayInv, Older
    <3>3. ASSUME NEW w \in base[0]
          PROVE  /\ \A r \in log' : bucketAge < r[1] /\ r[1] <= bucketAge + Half => NotAfter(w, r[2])
                 /\ \E r \in log' : r[1] <= bucketAge + Half + MaxGap /\ r[2] = w
      <4>1. /\ \A r \in log : bucketAge < r[1] /\ r[1] <= bucketAge + Half => NotAfter(w, r[2])
            /\ \E r \in log : r[1] <= bucketAge + Half + MaxGap /\ r[2] = w
        BY Zenon DEF DelayInv, Older
      <4>2. ASSUME NEW r \in log', bucketAge < r[1], r[1] <= bucketAge + Half PROVE NotAfter(w, r[2])
        <5>1. r[1] # 0
          BY <1>2, <3>1, <4>2
        <5> QED BY <1>12, <4>1, <4>2, <5>1
      <4> QED BY <1>12, <4>1, <4>2
    <3> QED BY <3>1, <3>2, <3>3 DEF Older
  <2> QED BY <2>1, <2>2, <2>3, Zenon
<1> QED BY <1>8, <1>9, <1>10, <1>13, <1>14, <1>15 DEF DelayInv

(* DelayInv is inductive. *)
LEMMA NextDelayInv == DelayInv /\ [DelayNext]_delayVars => DelayInv'
<1> SUFFICES ASSUME DelayInv, [DelayNext]_delayVars PROVE DelayInv'
  OBVIOUS
<1>1. CASE Report
  BY <1>1, ReportDelayInv
<1>2. CASE ReportLost
  BY <1>2, ReportLostDelayInv
<1>3. CASE Tick
  BY <1>3, TickDelayInv
<1>4. CASE \E d \in Delays : OnData(d)
  BY <1>4, OnDataDelayInv, Zenon
<1>5. CASE UNCHANGED delayVars
  BY <1>5 DEF delayVars, DelayInv, RxOK, BucketsOK, AgesOK, LogOK, Newer, Older
<1> QED BY <1>1, <1>2, <1>3, <1>4, <1>5 DEF DelayNext

(* DelayInv holds in every state. *)
LEMMA SpecDelayInv == DelaySpec => []DelayInv
BY InitDelayInv, NextDelayInv, PTL DEF DelaySpec

(* The baseline right after a report: the first of the buckets' samples.   *)
LEMMA BaseKnown ==
  ASSUME DelayInv, bucketAge # -1
  PROVE  /\ Base(base) \in base[0] \union base[1]
         /\ Base(base) \in Samples(offset, seen)
         /\ \A w \in base[0] \union base[1] : NotAfter(Base(base), w)
<1>1. offset \in Nat /\ Samples(offset, seen) \subseteq Samples(offset, Delays)
  BY DelayFacts
<1>2. Bucket(base[0], Samples(offset, seen)) /\ Bucket(base[1], Samples(offset, seen))
  BY Zenon DEF DelayInv, BucketsOK
<1>3. Bucket(base[0], Samples(offset, Delays)) /\ Bucket(base[1], Samples(offset, Delays))
  BY <1>1, <1>2 DEF Bucket
<1>4. base[0] \union base[1] # {}
  BY Zenon DEF DelayInv, AgesOK
<1>5. /\ Base(base) \in base[0] \union base[1]
      /\ \A w \in base[0] \union base[1] : NotAfter(Base(base), w)
  BY <1>1, <1>3, <1>4, BaseIs, Zenon
<1>6. \A w \in base[0] \union base[1] : w \in Samples(offset, seen)
  BY <1>2, Zenon DEF Bucket
<1> QED BY <1>5, <1>6, Zenon

(* Whatever the window, the gaps between reports, the delays and the clock *)
(* offset, the rolling minimum of updateDelayLocked covers the last half   *)
(* window.                                                                 *)
THEOREM BaselineCovered == DelaySpec => []BaselineCovers
<1>1. DelayInv => BaselineCovers
  <2> SUFFICES ASSUME DelayInv, bucketAge # -1, gap = 0, NEW r \in log, r[1] <= Half
               PROVE  NotAfter(Base(base), r[2])
    BY Zenon DEF BaselineCovers, NotAfter
  <2>1. /\ offset \in Nat /\ bucketAge \in Int /\ r[1] \in Int /\ Half \in Nat
        /\ 0 <= bucketAge /\ Samples(offset, seen) \subseteq Samples(offset, Delays)
        /\ r[2] \in Samples(offset, seen)
    BY DelayFacts, DelayConstants DEF DelayInv, AgesOK, LogOK
  <2>2. \E w \in base[0] \union base[1] : NotAfter(w, r[2])
    <3>1. CASE r[1] <= bucketAge
      <4>1. PICK w \in base[1] : TRUE
        BY Zenon DEF DelayInv, AgesOK
      <4> QED BY <3>1, <4>1, Zenon DEF DelayInv, Newer
    <3>2. CASE bucketAge < r[1]
      <4>1. r[1] <= bucketAge + Half /\ ~(r[1] <= bucketAge)
        BY <2>1, <3>2
      <4>2. PICK w \in base[0] : TRUE
        BY <4>1 DEF DelayInv, Older
      <4> QED BY <3>2, <4>1, <4>2 DEF DelayInv, Older
    <3>3. \A i, j \in Int : i <= j \/ j < i
      OBVIOUS
    <3>4. r[1] <= bucketAge \/ bucketAge < r[1]
      BY <2>1, <3>3, Zenon
    <3> QED BY <3>1, <3>2, <3>4, Zenon
  <2>3. PICK w \in base[0] \union base[1] : NotAfter(w, r[2])
    BY <2>2, Zenon
  <2>4. NotAfter(Base(base), w) /\ Base(base) \in Samples(offset, seen)
    BY BaseKnown
  <2>5. w \in Samples(offset, seen)
    BY DEF DelayInv, BucketsOK, Bucket
  <2> QED BY <2>1, <2>3, <2>4, <2>5, SamplesOrdered
<1> QED BY <1>1, SpecDelayInv, PTL

(* It is one of the minima reported within the window and the gaps that    *)
(* ended its buckets.                                                      *)
THEOREM BaselineForgotten == DelaySpec => []BaselineForgets
<1>1. DelayInv => BaselineForgets
  <2> SUFFICES ASSUME DelayInv, bucketAge # -1, gap = 0
               PROVE  \E r \in log : r[1] <= MaxLogAge /\ r[2] = Base(base)
    BY Zenon DEF BaselineForgets
  <2>1. /\ bucketAge \in Int /\ Half \in Nat /\ MaxGap \in Nat
        /\ 0 <= bucketAge /\ bucketAge <= Half
        /\ \A r \in log : r[1] \in Int
    <3>1. bucketAge \in Int /\ \A r \in log : r[1] \in Int
      BY DelayFacts, Zenon
    <3>2. 0 <= bucketAge /\ bucketAge <= Half + 0
      BY Zenon DEF DelayInv, AgesOK
    <3>3. Half \in Nat /\ MaxGap \in Nat
      BY DelayConstants
    <3> QED BY <3>1, <3>2, <3>3
  <2>2. \E r \in log : r[1] <= bucketAge + Half + MaxGap /\ r[2] = Base(base)
    <3>1. CASE Base(base) \in base[1]
      <4>1. PICK r \in log : r[1] <= bucketAge /\ r[2] = Base(base)
        BY <3>1, Zenon DEF DelayInv, Newer
      <4> QED BY <2>1, <4>1
    <3>2. CASE Base(base) \in base[0]
      BY <3>2 DEF DelayInv, Older
    <3> QED BY <3>1, <3>2, BaseKnown, Zenon
  <2>3. bucketAge + Half + MaxGap <= MaxLogAge /\ MaxLogAge \in Int
    BY <2>1 DEF MaxLogAge
  <2> QED BY <2>1, <2>2, <2>3
<1> QED BY <1>1, SpecDelayInv, PTL

----------------------------------------------------------------------------
(* The queue.  The average is taken of the int32 values themselves, so it  *)
(* lies between two delays only while the conversion keeps their           *)
(* differences.                                                            *)

Averaged ==
  rx.haveOwd => \E d, e \in seen : Signed(d + offset) <= rx.ewma /\ rx.ewma <= Signed(e + offset)

QueueInv == DelayInv /\ Averaged /\ QueueIsReal

(* The average stays between the samples. *)
LEMMA OnDataAveraged ==
  ASSUME DelayInv, Averaged, NEW c \in Delays, OnData(c)
  PROVE  Averaged'
<1> DEFINE o == Signed(c + offset)
<1>1. PICK x \in IF rx.haveOwd THEN Between(rx.ewma, o) ELSE {o} :
        rx' = [haveOwd |-> TRUE, ewma |-> x, haveWin |-> TRUE,
               min |-> IF ~rx.haveWin \/ o < rx.min THEN o ELSE rx.min]
  BY Zenon DEF OnData
<1>2. rx'.ewma = x /\ offset' = offset /\ seen' = seen \union {c}
  BY <1>1 DEF OnData
<1>3. offset \in Nat /\ seen \subseteq Delays /\ o \in Int /\ rx.ewma \in Int
  BY DelayFacts, SampleDiff DEF DelayInv, RxOK
<1>4. \A d \in seen : Signed(d + offset) \in Int
  BY <1>3, SampleDiff
<1>5. \E d, e \in seen' : Signed(d + offset) <= x /\ x <= Signed(e + offset)
  <2>1. CASE ~rx.haveOwd
    <3>1. x = o /\ o <= o
      BY <1>1, <1>3, <2>1
    <3> QED BY <1>2, <3>1, Zenon
  <2>2. CASE rx.haveOwd
    <3>1. x \in Int /\ ((rx.ewma <= x /\ x <= o) \/ (o <= x /\ x <= rx.ewma))
      BY <1>1, <2>2, DelayConstants DEF Between
    <3>2. PICK d \in seen, e \in seen :
            Signed(d + offset) <= rx.ewma /\ rx.ewma <= Signed(e + offset)
      BY <2>2 DEF Averaged
    <3>3. Signed(d + offset) \in Int /\ Signed(e + offset) \in Int
      BY <1>4
    <3> HIDE DEF o
    <3>4. CASE rx.ewma <= x /\ x <= o
      <4>1. Signed(d + offset) <= x
        BY <1>3, <3>1, <3>2, <3>3, <3>4
      <4> QED BY <1>2, <3>4, <4>1 DEF o
    <3>5. CASE o <= x /\ x <= rx.ewma
      <4>1. x <= Signed(e + offset)
        BY <1>3, <3>1, <3>2, <3>3, <3>5
      <4> QED BY <1>2, <3>5, <4>1 DEF o
    <3> QED BY <3>1, <3>4, <3>5, Zenon
  <2> QED BY <2>1, <2>2
<1> QED BY <1>2, <1>5, Zenon DEF Averaged

(* The excess of an average over a baseline is a difference of delays. *)
LEMMA ExcessIsReal ==
  ASSUME NEW o \in Offsets, NEW d \in Delays, NEW e \in Delays, NEW f \in Delays,
         Signed(e + o) - Signed(f + o) = e - f, Signed(f + o) - Signed(d + o) = f - d,
         NEW a \in Int, Signed(d + o) <= a, a <= Signed(e + o),
         NEW b, Base(b) = Signed(f + o), Excess(a, b) > 0
  PROVE  Excess(a, b) <= e - f
<1>1. /\ Mod \in Nat \ {0} /\ d \in Nat /\ e \in Nat /\ f \in Nat /\ o \in Nat
      /\ 2 * (e - f) < Mod /\ 2 * (f - d) < Mod
  BY DelayConstants
<1>2. Signed(d + o) \in Int /\ Signed(e + o) \in Int /\ Signed(f + o) \in Int
  BY <1>1, SampleDiff, ZenonT(30)
<1> DEFINE x == a - Signed(f + o)
<1>3. x \in Int /\ x <= e - f /\ -x <= f - d
  BY <1>1, <1>2
<1>4. Excess(a, b) = IF Signed(x) < 0 THEN 0 ELSE Signed(x)
  BY DEF Excess
<1> HIDE DEF x
<1>5. -Mod <= 2 * x /\ 2 * x < Mod
  BY <1>1, <1>3
<1>6. Signed(x) = x
  BY <1>3, <1>5, SignedNear
<1> QED BY <1>1, <1>3, <1>4, <1>6

(* Report compares the average with a sample. *)
LEMMA ReportQueue ==
  ASSUME DelayInv, Averaged, DelayInv', Report
  PROVE  QueueIsReal'
<1>1. /\ rx.haveOwd /\ queue' = Excess(rx.ewma, base') /\ offset' = offset /\ seen' = seen
      /\ bucketAge' # -1
  BY Zenon DEF Report, DelayInv, AgesOK
<1>2. offset \in Offsets /\ offset \in Nat /\ seen \subseteq Delays /\ rx.ewma \in Int
  BY DelayFacts DEF DelayInv, RxOK
<1>3. PICK f \in seen : Base(base') = Signed(f + offset)
  <2>1. /\ Bucket(base'[0], Samples(offset, seen)) /\ Bucket(base'[1], Samples(offset, seen))
        /\ base'[1] # {}
    BY <1>1 DEF DelayInv, BucketsOK, AgesOK
  <2>2. Samples(offset, seen) \subseteq Samples(offset, Delays)
    BY DelayFacts, Zenon
  <2>3. Bucket(base'[0], Samples(offset, Delays)) /\ Bucket(base'[1], Samples(offset, Delays))
    BY <2>1, <2>2, Zenon DEF Bucket
  <2>4. Base(base') \in base'[0] \union base'[1]
    BY <1>2, <2>1, <2>3, BaseIs, Zenon
  <2>5. Base(base') \in Samples(offset, seen)
    BY <2>1, <2>4 DEF Bucket
  <2> QED BY <2>5, Zenon DEF Samples
<1>4. PICK d \in seen, e \in seen :
        Signed(d + offset) <= rx.ewma /\ rx.ewma <= Signed(e + offset)
  BY <1>1 DEF Averaged
<1>5. d \in Delays /\ e \in Delays /\ f \in Delays
  BY <1>2, Zenon
<1>6. ASSUME queue' > 0, OneSide' PROVE queue' <= e - f
  <2>1. /\ Signed(e + offset) - Signed(f + offset) = e - f
        /\ Signed(f + offset) - Signed(d + offset) = f - d
    BY <1>1, <1>6, Zenon DEF OneSide
  <2> QED BY <1>1, <1>2, <1>3, <1>4, <1>5, <1>6, <2>1, ExcessIsReal
<1> QED BY <1>1, <1>6, Zenon DEF QueueIsReal

(* The queue the sender acts on is never longer than the delays of packets *)
(* differed, for every offset of the clocks, until two packets received    *)
(* lie on opposite sides of the int32 boundary (rxstats.go:48).            *)
THEOREM QueueReal == DelaySpec => []QueueIsReal
<1>1. DelayInit => QueueInv
  <2>1. DelayInit => Averaged /\ QueueIsReal
    BY DEF DelayInit, Averaged, QueueIsReal
  <2> QED BY <2>1, InitDelayInv, Zenon DEF QueueInv
<1>2. QueueInv /\ [DelayNext]_delayVars => QueueInv'
  <2> SUFFICES ASSUME QueueInv, [DelayNext]_delayVars PROVE QueueInv'
    OBVIOUS
  <2>1. DelayInv /\ DelayInv' /\ Averaged /\ QueueIsReal
    BY NextDelayInv, Zenon DEF QueueInv
  <2>2. CASE Report
    <3>1. QueueIsReal'
      BY <2>1, <2>2, ReportQueue
    <3>2. rx'.haveOwd = rx.haveOwd /\ rx'.ewma = rx.ewma /\ offset' = offset /\ seen' = seen
      BY <2>1, <2>2, Zenon DEF Report, DelayInv, RxOK
    <3> QED BY <2>1, <3>1, <3>2 DEF QueueInv, Averaged
  <2>3. CASE ReportLost
    <3>1. rx'.haveOwd = rx.haveOwd /\ rx'.ewma = rx.ewma /\ UNCHANGED <<offset, seen, queue>>
      BY <2>1, <2>3, Zenon DEF ReportLost, DelayInv, RxOK
    <3> QED BY <2>1, <3>1 DEF QueueInv, Averaged, QueueIsReal, OneSide
  <2>4. CASE Tick
    <3>1. UNCHANGED <<rx, offset, seen, queue>>
      BY <2>4 DEF Tick
    <3> QED BY <2>1, <3>1 DEF QueueInv, Averaged, QueueIsReal, OneSide
  <2>5. CASE \E d \in Delays : OnData(d)
    <3>1. PICK c \in Delays : OnData(c)
      BY <2>5
    <3>2. Averaged'
      BY <2>1, <3>1, OnDataAveraged, Zenon
    <3>3. queue' = queue /\ offset' = offset /\ seen \subseteq seen'
      BY <3>1 DEF OnData
    <3>4. OneSide' => OneSide
      BY <3>3, Zenon DEF OneSide
    <3>5. QueueIsReal'
      BY <2>1, <3>3, <3>4, Zenon DEF QueueIsReal
    <3> QED BY <2>1, <3>2, <3>5 DEF QueueInv
  <2>6. CASE UNCHANGED delayVars
    BY <2>1, <2>6 DEF delayVars, QueueInv, Averaged, QueueIsReal, OneSide
  <2> QED BY <2>2, <2>3, <2>4, <2>5, <2>6 DEF DelayNext
<1>3. QueueInv => QueueIsReal
  BY DEF QueueInv
<1> QED BY <1>1, <1>2, <1>3, PTL DEF DelaySpec

============================================================================
