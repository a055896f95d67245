---------------------------- MODULE DelayBaseline ----------------------------
(***************************************************************************)
(* How the sender of one path learns of a standing queue: the receiver     *)
(* takes the one-way delay of every data packet, as the difference of two  *)
(* unrelated 32-bit clocks (pathmon/rxstats.go), reports the smallest of   *)
(* the window and a moving average, and the sender compares the average    *)
(* with a rolling minimum of the reported minima (pathmon/link.go,         *)
(* updateDelayLocked).                                                     *)
(*                                                                         *)
(* The moving average, a floating-point convex combination, is any whole   *)
(* value between the old average and the sample.  Reports are applied in   *)
(* order (Feedback has the others).  The discount factor and the drop      *)
(* probability are functions of queue and are left out.  log is a history  *)
(* of the minima applied, with their age.                                  *)
(***************************************************************************)
EXTENDS Integers, FiniteSets

CONSTANTS Mod,         \* number of clock values (2^32)
          Delays,      \* one-way delays a packet may have
          Offsets,     \* differences of the two clocks
          Half,        \* baselineWindow / 2, in ticks
          MaxGap       \* bound: ticks between two reports that arrive

ASSUME DelayAssumption ==
  /\ Mod \in Nat \ {0} /\ Half \in Nat /\ MaxGap \in Nat \ {0}
  /\ Delays \subseteq Nat /\ Offsets \subseteq Nat
  /\ \A d, e \in Delays : 2 * (d - e) < Mod   \* by less than 35 minutes

VARIABLES offset,      \* the clocks' difference, constant
          rx,          \* RxStats: haveOwd, owdEwma, owdMin, haveWin
          base,        \* owdBase: [0] the older bucket, [1] the newer; a set of at most one value
          bucketAge,   \* ticks since owdBucketAt, -1 while that is zero
          queue,       \* queueUS
          gap,         \* ticks since the last report arrived
          seen,        \* delays of the packets received (history)
          log          \* <<age, minimum>> of the reports that arrived (history)

delayVars == <<offset, rx, base, bucketAge, queue, gap, seen, log>>

(* Conversion to int32. *)
Signed(d) == IF 2 * (d % Mod) < Mod THEN d % Mod ELSE (d % Mod) - Mod

(* No report of interest is older: two buckets and the gaps that end them. *)
MaxLogAge == 2 * (Half + MaxGap)

DelayInit ==
  /\ offset \in Offsets
  /\ rx = [haveOwd |-> FALSE, ewma |-> 0, min |-> 0, haveWin |-> FALSE]
  /\ base = [b \in {0, 1} |-> {}] /\ bucketAge = -1
  /\ queue = 0 /\ gap = 0
  /\ seen = {} /\ log = {}

----------------------------------------------------------------------------
(* RxStats.OnData for a packet with delay d. *)
Between(a, b) == {x \in -Mod..Mod : (a <= x /\ x <= b) \/ (b <= x /\ x <= a)}

OnData(d) ==
  LET o == Signed(d + offset)
  IN  /\ \E e \in IF rx.haveOwd THEN Between(rx.ewma, o) ELSE {o} :
           rx' = [haveOwd |-> TRUE, ewma |-> e, haveWin |-> TRUE,
                  min |-> IF ~rx.haveWin \/ o < rx.min THEN o ELSE rx.min]
      /\ seen' = seen \union {d}
      /\ UNCHANGED <<offset, base, bucketAge, queue, gap, log>>

(* updateDelayLocked *)

(* Mutant: the older bucket is kept. *)
RotateKeep == [base EXCEPT ![1] = {}, ![0] = IF base[0] = {} THEN base[1] ELSE base[0]]

(* Mutant: the older bucket is emptied too. *)
RotateClear == [b \in {0, 1} |-> {}]

Rotate == [base EXCEPT ![0] = base[1], ![1] = {}]

(* The bucket is older than half the window. *)
Stale == bucketAge > Half

(* Mutant: the samples are compared as plain numbers. *)
LowerPlain(bucket, m) == IF \A v \in bucket : m < v THEN {m} ELSE bucket

Lower(bucket, m) == IF \A v \in bucket : Signed(m - v) < 0 THEN {m} ELSE bucket

(* Mutant: a bucket that was never filled counts as zero. *)
BaseUnset(b) ==
  LET values == b[1] \union (IF b[0] = {} THEN {0} ELSE b[0])
  IN  CHOOSE v \in values : \A w \in values : Signed(v - w) <= 0

(* The smaller of the two buckets. *)
Base(b) ==
  CHOOSE v \in b[0] \union b[1] : \A w \in b[0] \union b[1] : Signed(v - w) <= 0

Excess(avg, b) == IF Signed(avg - Base(b)) < 0 THEN 0 ELSE Signed(avg - Base(b))

(* A report arrives; a tick is no longer than the time between two. *)
Report ==
  /\ rx.haveOwd
  /\ bucketAge = -1 \/ gap > 0
  /\ LET old == IF Stale THEN Rotate ELSE base
     IN  base' = [old EXCEPT ![1] = Lower(@, rx.min)]
  /\ bucketAge' = IF Stale \/ bucketAge = -1 THEN 0 ELSE bucketAge
  /\ queue' = Excess(rx.ewma, base')
  /\ rx' = [rx EXCEPT !.haveWin = FALSE]
  /\ gap' = 0
  /\ log' = log \union {<<0, rx.min>>}
  /\ UNCHANGED <<offset, seen>>

(* A report is lost, and the window's minimum with it. *)
ReportLost ==
  /\ rx.haveOwd /\ rx.haveWin
  /\ rx' = [rx EXCEPT !.haveWin = FALSE]
  /\ UNCHANGED <<offset, base, bucketAge, queue, gap, seen, log>>

Tick ==
  /\ bucketAge = -1 \/ gap < MaxGap
  /\ gap' = IF bucketAge = -1 THEN 0 ELSE gap + 1
  /\ bucketAge' = IF bucketAge = -1 THEN -1 ELSE bucketAge + 1
  /\ log' = {<<r[1] + 1, r[2]>> : r \in {q \in log : q[1] <= MaxLogAge}}
  /\ UNCHANGED <<offset, rx, base, queue, seen>>

DelayNext == Report \/ ReportLost \/ Tick \/ \E d \in Delays : OnData(d)

DelaySpec == DelayInit /\ [][DelayNext]_delayVars

----------------------------------------------------------------------------
DelayTypeOK ==
  /\ rx.ewma \in -Mod..Mod /\ rx.min \in -Mod..Mod
  /\ \A b \in {0, 1} : Cardinality(base[b]) <= 1
  /\ base[0] # {} => base[1] # {}
  /\ bucketAge \in -1..(Half + MaxGap)
  /\ queue \in Nat

(* A standing queue is not mistaken for the propagation delay: right after *)
(* a report the baseline is no larger than any minimum reported in the     *)
(* last half window, however the reports fall on the two buckets.          *)
BaselineCovers ==
  (bucketAge # -1 /\ gap = 0) =>
     \A r \in log : r[1] <= Half => Signed(Base(base) - r[2]) <= 0

(* The baseline follows the route: right after a report it is a minimum    *)
(* that was reported within the window and the gaps that ended its two     *)
(* buckets, so a shorter delay of the past is forgotten.                   *)
BaselineForgets ==
  (bucketAge # -1 /\ gap = 0) => \E r \in log : r[1] <= MaxLogAge /\ r[2] = Base(base)

(* The conversion to int32 has kept the differences of the delays so far. *)
OneSide == \A d, e \in seen : Signed(d + offset) - Signed(e + offset) = d - e

(* The queue the sender sees, for which it cuts the path's weight and      *)
(* drops packets, never exceeds the differences between the delays packets *)
(* really had, whatever the clocks' difference, until a packet is received *)
(* whose delay lies across the int32 boundary from that of another.  Then  *)
(* the average of rxstats.go:48 mixes values at both ends of the range and *)
(* nothing holds: "any constant clock offset is fine" (rxstats.go:27) is   *)
(* true up to there only.                                                  *)
QueueIsReal == queue > 0 /\ OneSide => \E d, e \in seen : queue <= d - e

============================================================================
