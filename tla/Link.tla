-------------------------------- MODULE Link --------------------------------
(***************************************************************************)
(* The liveness half of a path estimator (internal/pathmon/link.go): the   *)
(* probes of one path in one direction, the RTT estimate their answers     *)
(* feed, and the UP/DOWN state that both drive.                            *)
(*                                                                         *)
(* Every method runs under l.mu, so each is one action.  Time is counted   *)
(* in ticks; an unanswered probe holds its AGE (saturated at MaxAge)       *)
(* instead of the time it left.  Probe sequence numbers wrap as uint32     *)
(* does.  consecAcked is only ever compared with probeAckUp and saturates  *)
(* there.  lossFactor is in per cent.                                      *)
(***************************************************************************)
EXTENDS Integers, Sequences

CONSTANTS ProbeInterval,   \* ticks between probes (100 ms)
          MaxRTO,          \* ceiling of the probe timeout (2 s)
          MaxOutstanding,  \* unanswered probes remembered (32)
          ProbeAckUp,      \* acks that bring a path up (3)
          SeqSpace,          \* number of probe sequence numbers (2^32)
          MaxAge           \* ages saturate here

ASSUME LinkAssumption ==
  /\ ProbeInterval \in Nat \ {0}
  /\ MaxRTO \in Nat /\ 3 * ProbeInterval <= MaxRTO
  /\ MaxOutstanding \in Nat /\ MaxRTO < MaxOutstanding * ProbeInterval
  /\ ProbeAckUp \in Nat \ {0}
  /\ SeqSpace \in Nat /\ MaxOutstanding < SeqSpace
  /\ MaxAge \in Nat /\ MaxRTO < MaxAge

VARIABLES up, srtt, rttvar, hasRTT, lossFactor,
          consecAcked, lastProbeSeq, outstanding,
          sinceDown   \* probes sent since the path last went down (history)

estimate == <<srtt, rttvar, hasRTT>>
vars == <<up, srtt, rttvar, hasRTT, lossFactor, consecAcked, lastProbeSeq,
          outstanding, sinceDown>>

Seqs == 0..(SeqSpace - 1)
Probe == [seq: Seqs, age: 0..MaxAge]
HistoryCap == ProbeAckUp + MaxOutstanding
FullFactor == 100
DownFactor == 20

AtMost(n, cap) == IF n > cap THEN cap ELSE n
AtLeast(n, floor) == IF n < floor THEN floor ELSE n

(* probeRTOLocked *)
ProbeRTO == AtMost(AtLeast(srtt + 4 * rttvar, 3 * ProbeInterval), MaxRTO)

(* The last n elements of a sequence. *)
LastN(s, n) == SubSeq(s, Len(s) - n + 1, Len(s))

Init ==
  /\ up = FALSE
  /\ srtt = 0 /\ rttvar = 0 /\ hasRTT = FALSE
  /\ lossFactor = FullFactor
  /\ consecAcked = 0
  /\ lastProbeSeq = 0
  /\ outstanding = <<>>
  /\ sinceDown = 0

(* OnProbeSent: an up path whose oldest unanswered probe is older than the *)
(* timeout goes down and forgets its probes; the new probe is remembered,  *)
(* and the oldest one dropped when there are too many.                     *)
TimedOut == up /\ outstanding # <<>> /\ outstanding[1].age > ProbeRTO

(* Mutant: a full list forgets its newest probe. *)
RememberOldest(probes, s) ==
  SubSeq(Append(probes, [seq |-> s, age |-> 0]), 1, AtMost(Len(probes) + 1, MaxOutstanding))

(* Mutant: the list is shorter than a timeout's worth of probes. *)
RememberFew(probes, s) ==
  LET all == Append(probes, [seq |-> s, age |-> 0])
  IN  IF Len(all) > 2 THEN LastN(all, 2) ELSE all

Remember(probes, s) ==
  LET all == Append(probes, [seq |-> s, age |-> 0])
  IN  IF Len(all) > MaxOutstanding THEN LastN(all, MaxOutstanding) ELSE all

OnProbeSent ==
  /\ lastProbeSeq' = (lastProbeSeq + 1) % SeqSpace
  /\ \/ /\ TimedOut
        /\ up' = FALSE
        /\ consecAcked' = 0
        /\ lossFactor' = DownFactor
        /\ outstanding' = Remember(<<>>, lastProbeSeq')
        /\ sinceDown' = 1
     \/ /\ ~TimedOut
        /\ outstanding' = Remember(outstanding, lastProbeSeq')
        /\ sinceDown' = AtMost(sinceDown + 1, HistoryCap)
        /\ UNCHANGED <<up, consecAcked, lossFactor>>
  /\ UNCHANGED estimate

(* The RTT estimators of RFC 6298, in integer arithmetic. *)
Abs(n) == IF n < 0 THEN -n ELSE n

Sample(rtt) ==
  \/ rtt = 0 /\ UNCHANGED estimate
  \/ /\ rtt > 0
     /\ hasRTT' = TRUE
     /\ \/ ~hasRTT /\ srtt' = rtt /\ rttvar' = rtt \div 2
        \/ /\ hasRTT
           /\ rttvar' = (3 * rttvar + Abs(srtt - rtt)) \div 4
           /\ srtt' = (7 * srtt + rtt) \div 8

(* Mutant: the count must pass the threshold. *)
OnProbeAckStrict(i) ==
  /\ outstanding' = SubSeq(outstanding, i + 1, Len(outstanding))
  /\ consecAcked' = AtMost(consecAcked + 1, ProbeAckUp)
  /\ Sample(outstanding[i].age)
  /\ up' = (up \/ consecAcked' > ProbeAckUp)
  /\ UNCHANGED <<lossFactor, lastProbeSeq, sinceDown>>

(* OnProbeAck of the i-th unanswered probe: it and the older ones are      *)
(* forgotten, its age is the RTT sample.                                   *)
OnProbeAck(i) ==
  /\ outstanding' = SubSeq(outstanding, i + 1, Len(outstanding))
  /\ consecAcked' = AtMost(consecAcked + 1, ProbeAckUp)
  /\ Sample(outstanding[i].age)
  /\ up' = (up \/ consecAcked' >= ProbeAckUp)
  /\ UNCHANGED <<lossFactor, lastProbeSeq, sinceDown>>

(* OnProbeAck of a probe that is not remembered: a duplicate, or ancient. *)
OnUnknownAck == UNCHANGED vars

(* Mutant: goDownLocked keeps the unanswered probes. *)
MarkDownKeep ==
  /\ up' = FALSE
  /\ consecAcked' = 0
  /\ lossFactor' = DownFactor
  /\ sinceDown' = 0
  /\ UNCHANGED <<srtt, rttvar, hasRTT, lastProbeSeq, outstanding>>

(* MarkDown: goDownLocked on a failed write. *)
MarkDown ==
  /\ up' = FALSE
  /\ consecAcked' = 0
  /\ outstanding' = <<>>
  /\ lossFactor' = DownFactor
  /\ sinceDown' = 0
  /\ UNCHANGED <<srtt, rttvar, hasRTT, lastProbeSeq>>

(* The acks that carry sequence number s: at most one remembered probe has *)
(* that number.                                                            *)
OnAck(s) ==
  \/ \E i \in 1..Len(outstanding) :
       /\ outstanding[i].seq = s
       /\ \A j \in 1..(i - 1) : outstanding[j].seq # s
       /\ OnProbeAck(i)
  \/ /\ \A i \in 1..Len(outstanding) : outstanding[i].seq # s
     /\ OnUnknownAck

(* One tick of the clock. *)
Aged(probes) == [i \in 1..Len(probes) |-> [probes[i] EXCEPT !.age = AtMost(@ + 1, MaxAge)]]

Elapse ==
  /\ outstanding' = Aged(outstanding)
  /\ UNCHANGED <<up, srtt, rttvar, hasRTT, lossFactor, consecAcked, lastProbeSeq, sinceDown>>

Next == OnProbeSent \/ (\E s \in Seqs : OnAck(s)) \/ MarkDown \/ Elapse

Spec == Init /\ [][Next]_vars

----------------------------------------------------------------------------
TypeOK ==
  /\ up \in BOOLEAN /\ hasRTT \in BOOLEAN
  /\ srtt \in 0..MaxAge /\ rttvar \in 0..MaxAge
  /\ lossFactor \in {FullFactor, DownFactor}
  /\ consecAcked \in 0..ProbeAckUp
  /\ lastProbeSeq \in Seqs
  /\ outstanding \in Seq(Probe)
  /\ sinceDown \in 0..HistoryCap

(* The unanswered probes a link remembers are the last ones it sent, in    *)
(* order and without holes, wrap-around included, and at most              *)
(* MaxOutstanding of them.  The search for an ack's probe therefore meets  *)
(* at most one match.                                                      *)
OutstandingIsSuffix ==
  /\ Len(outstanding) <= MaxOutstanding
  /\ \A i \in 1..Len(outstanding) :
       outstanding[i].seq = (lastProbeSeq - (Len(outstanding) - i)) % SeqSpace

(* A path is up exactly when ProbeAckUp acks were counted, and every ack   *)
(* counted answers a probe of its own that was sent after the path last    *)
(* went down: duplicated acks, and acks of probes from before, do not help *)
(* it up.                                                                  *)
UpIsEarned ==
  /\ up <=> consecAcked = ProbeAckUp
  /\ consecAcked + Len(outstanding) <= sinceDown

============================================================================
