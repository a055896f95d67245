------------------------------ MODULE Transmit ------------------------------
(***************************************************************************)
(* The transmit side of both ends: the SendFunc that WireGuard calls with  *)
(* its ciphertext (engine/client.go, engine/server.go), the choice of the  *)
(* paths a latency-sensitive packet takes (pathmon/select.go), the early   *)
(* drop and the numbering of bulk packets, and the parity shards, over the *)
(* credit scheduler of Weighted.                                           *)
(*                                                                         *)
(* Several goroutines are in the SendFunc at once: WireGuard's sender, its *)
(* handshake goroutines and the readers that replay the packets held until *)
(* a path registered.  A sender reads the flags of the paths one by one    *)
(* while the probes change them, so what it reads is any combination.      *)
(* Between two atomic operations on shared state it may be overtaken.      *)
(***************************************************************************)
EXTENDS Weighted, TLC, TrafficClasses

CONSTANTS Senders,    \* goroutines in clientSend, or in serverSend for one session
          Scores,     \* values of realtimeScore
          None

ASSUME TransmitAssumption ==
  /\ IsFiniteSet(Senders)
  /\ Scores \subseteq Nat
  /\ None \notin Paths

VARIABLES tx,         \* the frame a sender is about to write, and the copy to follow
          owed        \* bulk numbers drawn whose frame no socket has seen yet (history)

vars == <<credits, waited, tx, owed>>

Idle == [bulk |-> FALSE, path |-> None, copy |-> None]

Init == SchedInit /\ tx = [t \in Senders |-> Idle] /\ owed = 0

----------------------------------------------------------------------------
(* Which paths a packet may take.  The flags are read while they change.   *)

(* sendablePaths: registered and up, or else registered. *)
SendablePaths ==
  {IF registered \cap up # {} THEN registered \cap up ELSE registered :
     registered \in SUBSET Paths, up \in SUBSET Paths}

(* serverSend: heard within pathStaleAfter and up, or else just heard. *)
UsablePaths ==
  {IF alive \cap up # {} THEN alive \cap up ELSE alive :
     alive \in SUBSET Paths, up \in SUBSET Paths}

(* serverEmitParity: every path heard within pathStaleAfter, up or not. *)
AlivePaths == SUBSET Paths

----------------------------------------------------------------------------
(* BestPair, over a sequence of snapshots.  Index 0 stands for -1.         *)

Snapshots == [up : BOOLEAN, score : Scores]

Better(snaps, i, j) == j = 0 \/ snaps[i].score < snaps[j].score

(* Mutant: a new best path does not push the old one to second place. *)
BestPairOverwrite(snaps) ==
  LET step(i, best) ==
        IF ~snaps[i].up THEN best
        ELSE IF Better(snaps, i, best[1]) THEN <<i, best[2]>>
        ELSE IF Better(snaps, i, best[2]) THEN <<best[1], i>>
        ELSE best
  IN  MapThenFoldSet(step, <<0, 0>>, LAMBDA i : i, Max, DOMAIN snaps)

BestPair(snaps) ==
  LET step(i, best) ==
        IF ~snaps[i].up THEN best
        ELSE IF Better(snaps, i, best[1]) THEN <<i, best[1]>>
        ELSE IF Better(snaps, i, best[2]) THEN <<best[1], i>>
        ELSE best
  IN  MapThenFoldSet(step, <<0, 0>>, LAMBDA i : i, Max, DOMAIN snaps)

(* What BestPair may answer for a set of paths, None for a path that there *)
(* is not.  The paths are listed in the order of the configuration by the  *)
(* client and in that of a map by the server.                              *)
Answers ==
  LET path(order, i) == IF i = 0 THEN None ELSE order[i]
      answer(order, r) == [of |-> Range(order), first |-> path(order, r[1]), second |-> path(order, r[2])]
      answers(order) == {answer(order, BestPair(snaps)) : snaps \in [DOMAIN order -> Snapshots]}
  IN  UNION {UNION {answers(order) : order \in Bijection(1..Cardinality(ids), ids)} : ids \in SUBSET Paths}

----------------------------------------------------------------------------
(* The SendFunc, for one packet and the paths ids it may take (without one *)
(* the client holds it, see ClientPaths, and the server drops it).         *)

(* The class is not BULK: the only path, or else the best by score, with a *)
(* copy of a REALTIME packet on the next best.                             *)
BestPaths(t, ids) ==
  \E class \in Classes \ {Bulk}, best \in Answers :
    /\ best.of = ids
    /\ best.first # None
    /\ tx' = [tx EXCEPT ![t] =
                [bulk |-> FALSE, path |-> best.first,
                 copy |-> IF class = Realtime THEN best.second ELSE None]]
    /\ UNCHANGED <<credits, waited, owed>>

(* BULK is striped, and another class too when it has several paths and no *)
(* snapshot of them is up any more.                                        *)
Striped(class, ids) ==
  class = Bulk \/ (Cardinality(ids) > 1 /\ [of |-> ids, first |-> None, second |-> None] \in Answers)

(* Mutant: the number is drawn before the early drop. *)
StripeNumbered(t, ids) ==
  /\ \E class \in Classes : Striped(class, ids)
  /\ \E pick \in Picks(ids) :
       /\ Pick(ids, pick)
       /\ owed' = owed + 1
       /\ \/ UNCHANGED tx
          \/ tx' = [tx EXCEPT ![t] = [bulk |-> TRUE, path |-> pick.best, copy |-> None]]

(* Weighted striping: Pick, the early drop (DropProb), the bulk number. *)
Stripe(t, ids) ==
  /\ \E class \in Classes : Striped(class, ids)
  /\ \E pick \in Picks(ids) :
       /\ Pick(ids, pick)
       /\ \/ UNCHANGED <<tx, owed>>
          \/ /\ owed' = owed + 1
             /\ tx' = [tx EXCEPT ![t] = [bulk |-> TRUE, path |-> pick.best, copy |-> None]]

(* clientSend and serverSend, which differ in the paths they look at. *)
Send(t) ==
  /\ tx[t] = Idle
  /\ \E ids \in (SendablePaths \union UsablePaths) \ {{}} : BestPaths(t, ids) \/ Stripe(t, ids)

----------------------------------------------------------------------------
(* The frames, and what happens when they are written.                     *)

(* The frame of t has been handed to the socket, or has failed; the copy   *)
(* of a REALTIME packet comes next.                                        *)
Written(t) ==
  /\ tx[t] # Idle
  /\ tx' = [tx EXCEPT ![t] =
              IF @.copy = None THEN Idle ELSE [bulk |-> FALSE, path |-> @.copy, copy |-> None]]
  /\ owed' = IF tx[t].bulk THEN owed - 1 ELSE owed
  /\ UNCHANGED <<credits, waited>>

(* A failed write marks the link down (Link, MarkDown) and is not retried. *)
SendDataOn(t) == Written(t)

(* The server ignores a failed write. *)
ServerSendData(t) == Written(t)

(* A parity shard, from a sender that has filled a group or from the flush *)
(* loop: it draws no number and takes its turn in the same credits.        *)
Parity(looks) ==
  /\ \E ids \in looks : \E pick \in Picks(ids) : Pick(ids, pick)
  /\ UNCHANGED <<tx, owed>>

ClientEmitParity == Parity(SendablePaths)

ServerEmitParity == Parity(AlivePaths)

Next ==
  \/ \E t \in Senders : Send(t) \/ SendDataOn(t) \/ ServerSendData(t)
  \/ ClientEmitParity \/ ServerEmitParity

Spec == Init /\ [][Next]_vars

Symmetry == Permutations(Paths) \union Permutations(Senders)

----------------------------------------------------------------------------
TypeOK ==
  /\ DOMAIN credits \subseteq Paths
  /\ \A p \in DOMAIN credits : credits[p] \in Int
  /\ waited \in [Paths -> Nat]
  /\ tx \in [Senders -> [bulk : BOOLEAN, path : Paths \union {None}, copy : Paths \union {None}]]
  /\ owed \in Int

(* "an early drop before sequencing" (client.go:282): every bulk number    *)
(* that was drawn is in the hands of a sender that is about to write its   *)
(* frame, so the peer's resequencing buffer only waits for numbers that    *)
(* were lost on the way.                                                   *)
NoPhantomNumber == owed = Cardinality({t \in Senders : tx[t].bulk})

(* The snapshots that are up, in the order of score, the earlier of equals *)
(* first.                                                                  *)
Ups(snaps) == {i \in DOMAIN snaps : snaps[i].up}

Before(snaps, j, i) ==
  \/ snaps[j].score < snaps[i].score
  \/ snaps[j].score = snaps[i].score /\ j < i

Rank(snaps, i) == Cardinality({j \in Ups(snaps) : Before(snaps, j, i)})

Ranked(snaps, r) ==
  IF Cardinality(Ups(snaps)) <= r THEN 0 ELSE CHOOSE i \in Ups(snaps) : Rank(snaps, i) = r

(* The snapshots for which BestPair does not answer the first two. *)
Misranked ==
  {snaps \in UNION {[1..n -> Snapshots] : n \in 1..Cardinality(Paths)} :
     BestPair(snaps) # <<Ranked(snaps, 0), Ranked(snaps, 1)>>}

(* "REALTIME is duplicated on the two lowest-latency paths" (client.go):   *)
(* BestPair answers these two for every sequence of snapshots, and a copy  *)
(* never takes the path of its original.                                   *)
PairIsBest ==
  /\ Misranked = {}
  /\ \A t \in Senders : tx[t].copy # None => tx[t].copy # tx[t].path

============================================================================
