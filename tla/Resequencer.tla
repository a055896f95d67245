---------------------------- MODULE Resequencer ----------------------------
(***************************************************************************)
(* What the reorder buffer promises, without ring, slots, counters or      *)
(* timers: a SET of waiting packets and a release point.                   *)
(*                                                                         *)
(* A packet is taken once and leaves once.  What leaves in order in one    *)
(* step is exactly the waiting packets below the new release point, so     *)
(* releases follow the sequence and nothing below the release point stays  *)
(* behind.  Only a packet that is far out of the window restarts the       *)
(* sequence, and only packets that are far out or already waiting are      *)
(* thrown away.                                                            *)
(***************************************************************************)
EXTENDS Integers

CONSTANTS SeqSpace,  \* number of sequence numbers
          Window   \* how far ahead of the release point a packet may wait

VARIABLES begun, next, waiting, shut, out

rvars == <<begun, next, waiting, shut, out>>

Numbers == 0..(SeqSpace - 1)
Ahead(s) == (s - next) % SeqSpace
IsFarOut(s) == Ahead(s) > 4 * Window /\ Ahead(s) < SeqSpace - Window
Quiet == [rel |-> {}, late |-> {}, drop |-> {}]

RInit == begun = FALSE /\ next = 0 /\ waiting = {} /\ shut = FALSE /\ out = Quiet

(* The packets of a step: what it reports, and what waits after it. *)
Handled == Numbers \intersect (out'.rel \union out'.late \union out'.drop \union waiting')

(* The first packet of a sequence sets the release point. *)
Begin(s) ==
  /\ next' = (s + 1) % SeqSpace
  /\ ~begun \/ IsFarOut(s)
  /\ begun' = TRUE
  /\ waiting' = {}
  /\ out' = [Quiet EXCEPT !.rel = waiting \union {s}]
  /\ UNCHANGED shut

(* `new' (nothing, or one packet) joins what waits, and what lies less     *)
(* than n ahead goes out.                                                  *)
Join(new, n) ==
  /\ LET all == waiting \union new
     IN  /\ out' = [Quiet EXCEPT !.rel = {x \in all : Ahead(x) < n}]
         /\ waiting' = {x \in all : Ahead(x) >= n}
  /\ waiting \intersect new = {}
  /\ \A x \in waiting' : Ahead(x) - n \in 1..(Window - 1)

(* The release point advances by n, and at most one packet joins. *)
Advance(n) ==
  /\ begun
  /\ next' = (next + n) % SeqSpace
  /\ UNCHANGED <<begun, shut>>
  /\ Join({}, n) \/ \E s \in Handled : Join({s}, n)

PassLate(s) ==
  /\ out' = [Quiet EXCEPT !.late = {s}]
  /\ begun /\ Ahead(s) >= SeqSpace - Window
  /\ UNCHANGED <<begun, next, waiting, shut>>

Discard(s) ==
  /\ out' = [Quiet EXCEPT !.drop = {s}]
  /\ begun /\ (s \in waiting \/ IsFarOut(s))
  /\ UNCHANGED <<begun, next, waiting, shut>>

(* Shutdown, once: what waits goes out, the release point stays. *)
FlushAll ==
  /\ ~shut /\ shut' = TRUE
  /\ out' = [Quiet EXCEPT !.rel = waiting]
  /\ waiting' = {}
  /\ UNCHANGED <<begun, next>>

Idle == out' = Quiet /\ UNCHANGED <<begun, next, waiting, shut>>

RNext ==
  \/ Idle \/ FlushAll
  \/ \E s \in Handled : Begin(s) \/ PassLate(s) \/ Discard(s)
  \/ \E n \in 0..(4 * Window + 1) : Advance(n)

RSpec == RInit /\ [][RNext]_rvars

============================================================================
