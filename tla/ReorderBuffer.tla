--------------------------- MODULE ReorderBuffer ---------------------------
(***************************************************************************)
(* The receive-side resequencing buffer (internal/reorder/buffer.go).      *)
(*                                                                         *)
(* Every exported method runs under b.mu, so each is one action.  Time is  *)
(* counted in ticks: a slot holds the AGE of its packet (now - arrival,    *)
(* saturated at MaxAge) instead of its arrival time, and the timer holds   *)
(* the ticks left until it fires.  The payload T is left out: a packet is  *)
(* its sequence number, and `out' says what the last call did with the     *)
(* packets it handled.  The loops of the code (drain, flush, expire) are   *)
(* given here in closed form; ReorderLoops states them loop by loop and    *)
(* compares.                                                               *)
(***************************************************************************)
EXTENDS Integers, FiniteSetsExt

CONSTANTS Size,            \* slots of the ring (8192)
          SeqSpace,          \* number of sequence numbers (2^32)
          ResetThreshold,  \* far packets that make the buffer start over (16)
          MinHold, MaxHold, DefaultHold,  \* gap timeout, in ticks (2, 250, 75 ms)
          MaxAge           \* ages saturate here

ASSUME ReorderAssumption ==
  /\ Size \in Nat \ {0}
  /\ SeqSpace \in Nat \ {0} /\ SeqSpace % Size = 0 /\ SeqSpace % 2 = 0
  /\ 8 * Size < SeqSpace
  /\ ResetThreshold \in Nat \ {0}
  /\ MinHold \in Nat \ {0} /\ MaxHold \in Nat
  /\ DefaultHold \in MinHold..MaxHold
  /\ MaxAge \in Nat /\ MaxHold <= MaxAge

VARIABLES slots, started, nextExpected, occupied, hold, farLate,
          timer,   \* ticks until b.timer fires, or NoTimer when b.timer = nil
          stale,   \* onTimer callbacks still to run that b.timer does not name
          closed,  \* Close has been called
          out      \* what the last call did: delivered in order, late, dropped

vars == <<slots, started, nextExpected, occupied, hold, farLate, timer,
          stale, closed, out>>

Ring == 0..(Size - 1)
Seqs == 0..(SeqSpace - 1)
NoTimer == -1
Free == [occupied |-> FALSE, seq |-> 0, age |-> 0]
Slot == [occupied: BOOLEAN, seq: Seqs, age: 0..MaxAge]
Outcome == [rel: SUBSET Seqs, late: SUBSET Seqs, drop: SUBSET Seqs]
Nothing == [rel |-> {}, late |-> {}, drop |-> {}]

(* uint32 subtraction, and the int32 it is converted to. *)
Off(s, ne) == (s - ne) % SeqSpace
Diff(s, ne) == IF 2 * Off(s, ne) < SeqSpace THEN Off(s, ne) ELSE Off(s, ne) - SeqSpace

At(ring, ne, i) == ring[(ne + i) % Size]
Occ(ring) == {i \in Ring : ring[i].occupied}
Pending(ring) == {ring[i].seq : i \in Occ(ring)}

(* What leaves the ring when it goes from a to b: deliver is called for it *)
(* and b.occupied decremented.                                             *)
Freed(a, b) == Occ(a) \ Occ(b)
Released(a, b) == {a[i].seq : i \in Freed(a, b)}

(* insertLocked: an occupied position is taken for a duplicate copy. *)
Insert(ring, s) ==
  IF ring[s % Size].occupied
  THEN ring
  ELSE [ring EXCEPT ![s % Size] = [occupied |-> TRUE, seq |-> s, age |-> 0]]

(* drainLocked: the contiguous run that starts at the release point. *)
Holds(ring, ne, i) ==
  At(ring, ne, i).occupied /\ At(ring, ne, i).seq = (ne + i) % SeqSpace

RunLength(ring, ne) ==
  CHOOSE n \in 0..Size : /\ \A i \in 0..(n - 1) : Holds(ring, ne, i)
                         /\ n = Size \/ ~Holds(ring, ne, n)

Drain(ring, ne) ==
  LET n == RunLength(ring, ne)
  IN  [ring |-> [i \in Ring |-> IF \E k \in 0..(n - 1) : i = (ne + k) % Size
                                THEN Free ELSE ring[i]],
       next |-> (ne + n) % SeqSpace]

(* flushLocked: every waiting packet goes out; the release point stays. *)
Flush == [i \in Ring |-> Free]

(* expireLocked: run after run goes out, as long as the first packet of    *)
(* the run has waited for the hold time.  A run starts at a waiting        *)
(* position whose predecessor is not waiting.                              *)
Waits(ring, ne) == {i \in Ring : At(ring, ne, i).occupied}

(* Mutant: every packet of a run must have waited, not just the first. *)
ExpirableAll(ring, ne, h) ==
  LET W == Waits(ring, ne)
  IN  {i \in W : \A j \in W : j <= i => At(ring, ne, j).age >= h}

Expirable(ring, ne, h) ==
  LET W == Waits(ring, ne)
  IN  {i \in W : \A j \in W : (j <= i /\ (j - 1) \notin W) => At(ring, ne, j).age >= h}

Expire(ring, ne, h) ==
  LET E == Expirable(ring, ne, h)
  IN  [ring |-> [i \in Ring |-> IF \E k \in E : i = (ne + k) % Size
                                THEN Free ELSE ring[i]],
       next |-> IF E = {} THEN ne ELSE (ne + Max(E) + 1) % SeqSpace]

----------------------------------------------------------------------------
Init ==
  /\ slots = [i \in Ring |-> Free]
  /\ started = FALSE
  /\ nextExpected = 0
  /\ occupied = 0
  /\ hold = DefaultHold
  /\ farLate = 0
  /\ timer = NoTimer
  /\ stale = 0
  /\ closed = FALSE
  /\ out = Nothing

(* insertLocked and drainLocked of packet s on `ring', which is what a     *)
(* flush or nothing made of slots, with release point `ne'.                *)
Accept(ring, ne, s) ==
  LET ins == Insert(ring, s)
      dr  == Drain(ins, ne)
      dup == ring[s % Size].occupied
  IN  /\ slots' = dr.ring
      /\ nextExpected' = dr.next
      /\ out' = [rel  |-> Released(slots, ring) \union Released(ins, dr.ring),
                 late |-> {},
                 drop |-> IF dup THEN {s} ELSE {}]
      /\ occupied' = occupied - Cardinality(Freed(slots, ring))
                     + (IF dup THEN 0 ELSE 1)
                     - Cardinality(Freed(ins, dr.ring))

(* armTimerLocked *)
ArmTimer ==
  timer' = IF occupied' = 0 \/ timer # NoTimer THEN timer ELSE hold

ReleasePoint(s) == IF started THEN nextExpected ELSE s

Far(d) == d < -Size \/ d > 4 * Size

(* Push of a packet far behind or far ahead: counted, dropped. *)
PushFar(s) ==
  /\ Far(Diff(s, ReleasePoint(s)))
  /\ farLate + 1 < ResetThreshold
  /\ farLate' = farLate + 1
  /\ out' = [Nothing EXCEPT !.drop = {s}]
  /\ UNCHANGED <<slots, started, nextExpected, occupied, hold, timer, stale, closed>>

(* Push of the far packet that makes the count reach the threshold:        *)
(* resetLocked, then the packet is the first of the new sequence.          *)
PushReset(s) ==
  /\ Far(Diff(s, ReleasePoint(s)))
  /\ farLate + 1 >= ResetThreshold
  /\ Accept(Flush, s, s)
  /\ farLate' = 0
  /\ UNCHANGED <<started, hold, timer, stale, closed>>

(* Push of a straggler just behind the release point: passed through. *)
PushLate(s) ==
  /\ Diff(s, ReleasePoint(s)) \in -Size..(-1)
  /\ out' = [Nothing EXCEPT !.late = {s}]
  /\ UNCHANGED <<slots, started, nextExpected, occupied, hold, farLate, timer, stale, closed>>

(* Push past the window: everything waiting goes out, the window jumps. *)
PushOverrun(s) ==
  /\ Diff(s, ReleasePoint(s)) \in Size..(4 * Size)
  /\ Accept(Flush, s, s)
  /\ farLate' = 0
  /\ ArmTimer
  /\ UNCHANGED <<started, hold, stale, closed>>

(* Mutant: the window test is diff > Size instead of diff >= Size. *)
PushInWindowWide(s) ==
  /\ Diff(s, ReleasePoint(s)) \in 0..Size
  /\ started' = TRUE
  /\ Accept(slots, ReleasePoint(s), s)
  /\ farLate' = 0
  /\ ArmTimer
  /\ UNCHANGED <<hold, stale, closed>>

(* Push inside the window. *)
PushInWindow(s) ==
  /\ Diff(s, ReleasePoint(s)) \in 0..(Size - 1)
  /\ started' = TRUE
  /\ Accept(slots, ReleasePoint(s), s)
  /\ farLate' = 0
  /\ ArmTimer
  /\ UNCHANGED <<hold, stale, closed>>

Push(s) ==
  PushFar(s) \/ PushReset(s) \/ PushLate(s) \/ PushOverrun(s) \/ PushInWindow(s)

(* Mutant: the gap is released past, and still waited for. *)
ExpirePassStay ==
  LET ex == Expire(slots, nextExpected, hold)
  IN  /\ slots' = ex.ring
      /\ nextExpected' = nextExpected
      /\ out' = [Nothing EXCEPT !.rel = Released(slots, ex.ring)]
      /\ occupied' = occupied - Cardinality(Freed(slots, ex.ring))

ExpirePass ==
  LET ex == Expire(slots, nextExpected, hold)
  IN  /\ slots' = ex.ring
      /\ nextExpected' = ex.next
      /\ out' = [Nothing EXCEPT !.rel = Released(slots, ex.ring)]
      /\ occupied' = occupied - Cardinality(Freed(slots, ex.ring))

(* Mutant: onTimer does not call armTimerLocked again. *)
OnTimerOnce ==
  /\ timer = 0
  /\ ExpirePass
  /\ timer' = NoTimer
  /\ UNCHANGED <<started, hold, farLate, stale, closed>>

(* onTimer, run by the timer b.timer names. *)
OnTimer ==
  /\ timer = 0
  /\ ExpirePass
  /\ timer' = IF occupied' > 0 THEN hold ELSE NoTimer
  /\ UNCHANGED <<started, hold, farLate, stale, closed>>

(* onTimer, run by a callback that was already waiting for b.mu when Close *)
(* stopped its timer.  It clears b.timer whatever b.timer names by now.    *)
OnStaleTimer ==
  /\ stale > 0
  /\ ExpirePass
  /\ timer' = IF occupied' > 0 THEN hold ELSE NoTimer
  /\ stale' = IF timer = NoTimer THEN stale - 1 ELSE stale
  /\ UNCHANGED <<started, hold, farLate, closed>>

Tick ==
  /\ ExpirePass
  /\ UNCHANGED <<started, hold, farLate, timer, stale, closed>>

(* SetHold clamps the duration d. *)
SetHold(d) ==
  /\ hold' = IF d < MinHold THEN MinHold ELSE IF d > MaxHold THEN MaxHold ELSE d
  /\ out' = Nothing
  /\ UNCHANGED <<slots, started, nextExpected, occupied, farLate, timer, stale, closed>>

(* Close: a timer that has fired is past stopping. *)
Close ==
  /\ ~closed
  /\ closed' = TRUE
  /\ timer' = NoTimer
  /\ stale' \in {stale} \union (IF timer = 0 THEN {stale + 1} ELSE {})
  /\ slots' = Flush
  /\ out' = [Nothing EXCEPT !.rel = Released(slots, Flush)]
  /\ occupied' = occupied - Cardinality(Freed(slots, Flush))
  /\ UNCHANGED <<started, nextExpected, hold, farLate>>

(* One tick of the clock.  A due timer may be served late. *)
Elapse ==
  /\ out' = Nothing
  /\ slots' = [i \in Ring |-> IF slots[i].occupied /\ slots[i].age < MaxAge
                              THEN [slots[i] EXCEPT !.age = @ + 1] ELSE slots[i]]
  /\ timer' = IF timer > 0 THEN timer - 1 ELSE timer
  /\ UNCHANGED <<started, nextExpected, occupied, hold, farLate, stale, closed>>

Next ==
  \/ \E s \in Seqs : Push(s)
  \/ \E d \in 0..(MaxHold + 1) : SetHold(d)
  \/ OnTimer \/ OnStaleTimer \/ Tick \/ Close \/ Elapse

Spec == Init /\ [][Next]_vars

----------------------------------------------------------------------------
TypeOK ==
  /\ slots \in [Ring -> Slot]
  /\ started \in BOOLEAN
  /\ nextExpected \in Seqs
  /\ occupied \in Int
  /\ hold \in MinHold..MaxHold
  /\ farLate \in 0..(ResetThreshold - 1)
  /\ timer \in NoTimer..MaxHold
  /\ stale \in Nat
  /\ closed \in BOOLEAN
  /\ out \in Outcome

(* Every waiting packet sits at its own position of the ring and lies      *)
(* inside the window, strictly ahead of the release point.                 *)
WindowInv ==
  \A i \in Ring : slots[i].occupied =>
    /\ slots[i].seq % Size = i
    /\ Off(slots[i].seq, nextExpected) \in 1..(Size - 1)

(* "Same window position means same sequence: a duplicate copy."           *)
(* (buffer.go, insertLocked): a packet dropped as a duplicate inside the   *)
(* window has a copy of itself waiting.                                    *)
DuplicateIsCopy ==
  [][\A s \in out'.drop : PushInWindow(s) => s \in Pending(slots)]_vars

(* b.occupied counts the occupied slots, so the loops that stop on it do   *)
(* not stop early, and a waiting packet always has a timer to release it.  *)
NothingStranded ==
  /\ occupied = Cardinality(Occ(slots))
  /\ occupied > 0 => timer # NoTimer

(* The abstract specification, with the ring seen as the set of what waits. *)
Reseq == INSTANCE Resequencer WITH
           Window <- Size, begun <- started, next <- nextExpected,
           waiting <- Pending(slots), shut <- closed, out <- out

(* The buffer implements Resequencer: no packet is lost, released twice or *)
(* released out of order, whatever the interleaving of Push, the timer,    *)
(* SetHold and Close.                                                      *)
Resequences == Reseq!RSpec

============================================================================
