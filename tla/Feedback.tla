------------------------------ MODULE Feedback ------------------------------
(***************************************************************************)
(* Receiver feedback for one path and one direction: the sender numbers    *)
(* data packets (client.go, sendDataOn), the receiver counts what arrives  *)
(* (pathmon/rxstats.go), its control loop reports the counters in CTRL     *)
(* datagrams, and the sender's link derives loss and delivery rate from    *)
(* consecutive reports (pathmon/link.go, OnCtrl).                          *)
(*                                                                         *)
(* A packet is one byte long.  The path may lose and reorder data.         *)
(* Reports take the best path of the moment, so one may overtake another;  *)
(* ctrls is the log of the reports and any of them may be delivered at any *)
(* time.  The weights, floating point, are left out: what is kept of an    *)
(* interval is what the report was taken for and the bytes it credits.     *)
(* Delays are DelayBaseline's concern.                                     *)
(***************************************************************************)
EXTENDS Integers, Sequences, FiniteSets

CONSTANTS SeqSpace,      \* number of path sequence numbers and of rxPkts values (2^32)
          ByteMod,     \* number of rxBytes values (2^64)
          Starts,      \* packets sent, and all received, before the first step
          MaxSent, MaxReports, MaxRestarts   \* bounds

ASSUME FeedbackAssumption ==
  /\ SeqSpace \in Nat \ {0} /\ ByteMod \in Nat
  /\ Starts \subseteq Nat /\ \A s, t \in Starts : s < t => s + MaxSent < t
  /\ MaxSent \in Nat /\ 2 * MaxSent < SeqSpace /\ SeqSpace <= ByteMod
  /\ \A s \in Starts : s + MaxSent < ByteMod

VARIABLES sent,        \* packets sent
          flight,      \* packets in flight, by number
          rx,          \* the receiver's RxStats
          ctrls,       \* reports sent, in order
          link,        \* the sender's view: haveCtrl, lastHighest, lastRxPkts, lastRxBytes
          verdict,     \* what the last report was taken for
          sample,      \* bytes the last report credits to its interval
          received,    \* packets received (history)
          lost,        \* packets lost (history)
          lastCtrl,    \* the newest report applied, 0 if none (history)
          base,        \* lastHighest of the first report applied (history)
          accounted,   \* losses counted while orderly (history)
          credited,    \* bytes credited while orderly (history)
          orderly,     \* reports were applied in the order they were sent (history)
          inOrder,     \* data arrived in the order it was sent (history)
          restarts     \* receivers started over (history)

vars == <<sent, flight, rx, ctrls, link, verdict, sample, received, lost, lastCtrl,
          base, accounted, credited, orderly, inOrder, restarts>>

(* Conversion of a difference modulo n to a signed integer. *)
Signed(d, n) == IF 2 * (d % n) < n THEN d % n ELSE (d % n) - n

NoLink == [haveCtrl |-> FALSE, highest |-> 0, pkts |-> 0, bytes |-> 0]

Init ==
  /\ sent \in Starts
  /\ flight = {}
  /\ rx = [started |-> sent > 0, highest |-> sent % SeqSpace, pkts |-> sent % SeqSpace,
           bytes |-> sent % ByteMod]
  /\ ctrls = <<>> /\ link = NoLink
  /\ verdict = "none" /\ sample = 0
  /\ received = sent /\ lost = {} /\ lastCtrl = 0
  /\ base = 0 /\ accounted = 0 /\ credited = 0
  /\ orderly = TRUE /\ inOrder = TRUE /\ restarts = 0

SendData ==
  /\ \E s \in Starts : sent - s \in 0..(MaxSent - 1)
  /\ sent' = sent + 1
  /\ flight' = flight \union {sent'}
  /\ UNCHANGED <<rx, ctrls, link, verdict, sample, received, lost, lastCtrl, base,
                 accounted, credited, orderly, inOrder, restarts>>

LoseData(n) ==
  /\ n \in flight
  /\ flight' = flight \ {n}
  /\ lost' = lost \union {n}
  /\ UNCHANGED <<sent, rx, ctrls, link, verdict, sample, received, lastCtrl, base,
                 accounted, credited, orderly, inOrder, restarts>>

(* RxStats.OnData *)
Newer(n) == ~rx.started \/ Signed(n - rx.highest, SeqSpace) > 0

OnData(n) ==
  /\ n \in flight
  /\ flight' = flight \ {n}
  /\ rx' = [started |-> TRUE,
            highest |-> IF Newer(n) THEN n % SeqSpace ELSE rx.highest,
            pkts |-> (rx.pkts + 1) % SeqSpace,
            bytes |-> (rx.bytes + 1) % ByteMod]
  /\ received' = received + 1
  /\ inOrder' = (inOrder /\ \A k \in flight : n <= k)
  /\ UNCHANGED <<sent, ctrls, link, verdict, sample, lost, lastCtrl, base, accounted,
                 credited, orderly, restarts>>

(* The control loop of the receiver: RxStats.Report, EncodeCtrl. *)
Report ==
  /\ rx.started /\ Len(ctrls) < MaxReports
  /\ ctrls' = Append(ctrls, [highest |-> rx.highest, pkts |-> rx.pkts, bytes |-> rx.bytes])
  /\ UNCHANGED <<sent, flight, rx, link, verdict, sample, received, lost, lastCtrl,
                 base, accounted, credited, orderly, inOrder, restarts>>

(* The receiver starts over (a restarted or expired server session). *)
Restart ==
  /\ restarts < MaxRestarts
  /\ restarts' = restarts + 1
  /\ rx' = [started |-> FALSE, highest |-> 0, pkts |-> 0, bytes |-> 0]
  /\ UNCHANGED <<sent, flight, ctrls, link, verdict, sample, received, lost, lastCtrl,
                 base, accounted, credited, orderly, inOrder>>

----------------------------------------------------------------------------
(* OnCtrl of report r. *)

(* Mutant: the difference stays unsigned. *)
ExpectedUnsigned(r) == (r.highest - link.highest) % SeqSpace

Expected(r) == Signed(r.highest - link.highest, SeqSpace)
Received(r) == Signed(r.pkts - link.pkts, SeqSpace)

(* Mutant: the counter is taken for the difference. *)
DeltaBytesAll(r) == r.bytes

DeltaBytes(r) == (r.bytes - link.bytes) % ByteMod

(* loss > 0.01, for loss = 1 - received / expected. *)
Lossy(r) == 100 * (Expected(r) - Received(r)) > Expected(r)

Verdict(r) ==
  IF Expected(r) > 0 THEN IF Lossy(r) THEN "lossy" ELSE "clean"
  ELSE IF Received(r) = 0 THEN "idle" ELSE "none"

RecordKeep(r) == link' = IF link.haveCtrl THEN link ELSE     \* mutant: the baseline stays
  [haveCtrl |-> TRUE, highest |-> r.highest, pkts |-> r.pkts, bytes |-> r.bytes]

Record(r) ==
  link' = [haveCtrl |-> TRUE, highest |-> r.highest, pkts |-> r.pkts, bytes |-> r.bytes]

(* The first report is the baseline. *)
FirstCtrl(i) ==
  /\ ~link.haveCtrl
  /\ base' = ctrls[i].highest
  /\ verdict' = "none" /\ sample' = 0
  /\ UNCHANGED <<accounted, credited, orderly>>

(* dt <= 0: the readers of two paths took the time in one order and the    *)
(* lock in the other.                                                      *)
BackwardCtrl(i) ==
  /\ link.haveCtrl
  /\ orderly' = FALSE
  /\ verdict' = "none" /\ sample' = 0
  /\ UNCHANGED <<base, accounted, credited>>

(* dt > 0; a capacity sample is taken when dt is long enough. *)
ForwardCtrl(i, long) ==
  LET r == ctrls[i]
      lossCount == IF Expected(r) > 0 /\ Expected(r) > Received(r)
                   THEN Expected(r) - Received(r) ELSE 0
  IN  /\ link.haveCtrl
      /\ orderly' = (orderly /\ i >= lastCtrl)
      /\ verdict' = Verdict(r)
      /\ sample' = IF long THEN DeltaBytes(r) ELSE 0
      /\ accounted' = IF orderly' THEN accounted + lossCount ELSE accounted
      /\ credited' = IF orderly' THEN credited + sample' ELSE credited
      /\ UNCHANGED base

OnCtrl(i) ==
  /\ Record(ctrls[i])
  /\ \/ FirstCtrl(i)
     \/ BackwardCtrl(i)
     \/ \E long \in BOOLEAN : ForwardCtrl(i, long)
  /\ lastCtrl' = i
  /\ UNCHANGED <<sent, flight, rx, ctrls, received, lost, inOrder, restarts>>

Next ==
  \/ SendData \/ Report \/ Restart
  \/ \E n \in flight : LoseData(n) \/ OnData(n)
  \/ \E i \in DOMAIN ctrls : OnCtrl(i)

Spec == Init /\ [][Next]_vars

----------------------------------------------------------------------------
TypeOK ==
  /\ rx.highest \in 0..(SeqSpace - 1) /\ rx.pkts \in 0..(SeqSpace - 1)
  /\ rx.bytes \in 0..(ByteMod - 1)
  /\ link.highest \in 0..(SeqSpace - 1) /\ link.pkts \in 0..(SeqSpace - 1)
  /\ verdict \in {"none", "clean", "lossy", "idle"}
  /\ sample \in 0..(ByteMod - 1)
  /\ accounted \in Nat /\ lastCtrl \in 0..MaxReports

(* A path that loses nothing and keeps the order is never taken for lossy, *)
(* whatever happens to the reports: lost, delivered twice, late or out of  *)
(* order, and across the wrap-around of the counters (OnCtrl).             *)
CleanIsNotLossy == (lost = {} /\ inOrder /\ restarts = 0) => verdict # "lossy"

(* The counters are cumulative, so a report that is lost hides nothing and *)
(* one that is delivered twice adds nothing: the losses OnCtrl has counted *)
(* are exactly the packets lost between the first and the last report.     *)
LossCountedOnce ==
  (link.haveCtrl /\ orderly /\ inOrder /\ restarts = 0) =>
     accounted = Cardinality({n \in lost : /\ Signed(n - base, SeqSpace) > 0
                                           /\ Signed(n - link.highest, SeqSpace) < 0})

(* No byte is credited twice to the delivery rate while the reports are    *)
(* applied in order.                                                       *)
BytesCreditedOnce == (orderly /\ restarts = 0) => credited <= received

(* "delivery rate (delta bytes / delta t ...)" from "consecutive reports"  *)
(* (docs/PROTOCOL.md): an interval is credited with no more bytes than     *)
(* were received in all.                                                   *)
SampleWasDelivered == restarts = 0 => sample <= received

============================================================================
