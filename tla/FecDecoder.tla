----------------------------- MODULE FecDecoder -----------------------------
(***************************************************************************)
(* The receiver side of forward error correction (internal/fec/fec.go,     *)
(* Decoder): shards are collected by group id, and a group that has enough *)
(* of them repairs its missing packets and is forgotten.                   *)
(*                                                                         *)
(* Every method runs under d.mu, so each is one action.  A group holds its *)
(* AGE (ticks since it was touched, saturated) instead of a time.  A shard *)
(* is the sender's group it comes from: the Reed-Solomon code gives the    *)
(* missing packets back when all shards come from one group, and garbage   *)
(* when they come from several.  A group with done set is never in the     *)
(* table: tryReconstruct deletes it in the same step.                      *)
(***************************************************************************)
EXTENDS Integers, FiniteSets

CONSTANTS GroupIds,     \* group ids on the wire
          Origins,      \* the sender's groups
          MaxGroups,    \* groups held (512)
          SweepEvery,   \* shards between two sweeps (128)
          Expiry        \* ticks after which an untouched group is swept (1 s)

ASSUME DecoderAssumption ==
  /\ MaxGroups \in Nat \ {0}
  /\ SweepEvery \in Nat \ {0}
  /\ Expiry \in Nat

VARIABLES groups,    \* group id -> the shards received, the geometry, the age
          adds,      \* shards received, modulo SweepEvery
          recovered  \* what was repaired so far: pairs of the groups the shards came
                     \* from and the index of the packet

decVars == <<groups, adds, recovered>>

Fresh == [shards |-> << >>, k |-> 0, m |-> 0, age |-> 0]

DecInit == groups = << >> /\ adds = 0 /\ recovered = {}

Without(gs, gone) == [id \in DOMAIN gs \ gone |-> gs[id]]

(* sweepLocked.  A forced sweep of a full table deletes the expired groups *)
(* and, when the iteration meets it before any of them, one other group.   *)
Expired(gs) == {id \in DOMAIN gs : gs[id].age > Expiry}

ForcedSweepsExpired(gs) == {Without(gs, Expired(gs))}   \* mutant: a full table stays full

ForcedSweeps(gs) ==
  {Without(gs, Expired(gs) \union {id}) : id \in DOMAIN gs}

(* maybeSweepLocked *)
Swept(gs) == IF (adds + 1) % SweepEvery = 0 THEN Without(gs, Expired(gs)) ELSE gs

(* group(): the table with room for id. *)
Rooms(gs, id) ==
  IF id \notin DOMAIN gs /\ Cardinality(DOMAIN gs) >= MaxGroups
  THEN ForcedSweeps(gs)
  ELSE {gs}

Group(gs, id) == IF id \in DOMAIN gs THEN gs[id] ELSE Fresh

(* The group g after shard `index' of origin o, with the geometry (gk, gm) *)
(* it reveals (gk = 0 for a data shard).  A duplicate shard is ignored.     *)
Insert(g, index, o, gk, gm) ==
  [shards |-> IF index \in DOMAIN g.shards THEN g.shards
              ELSE [i \in DOMAIN g.shards \union {index} |->
                      IF i = index THEN o ELSE g.shards[i]],
   k |-> IF gk > 0 THEN gk ELSE g.k,
   m |-> IF gk > 0 THEN gm ELSE g.m,
   age |-> 0]

(* tryReconstructLocked *)
DataIn(g) == {i \in DOMAIN g.shards : i < g.k}
UsableIn(g) == {i \in DOMAIN g.shards : i < g.k + g.m}
Complete(g) == g.k > 0 /\ Cardinality(DataIn(g)) >= g.k
DecodableStrict(g) == g.k > 0 /\ Cardinality(UsableIn(g)) > g.k   \* mutant: off by one
Decodable(g) == g.k > 0 /\ Cardinality(UsableIn(g)) >= g.k

Decoded(g) ==
  LET from == {g.shards[i] : i \in UsableIn(g)}
  IN  {<<from, i>> : i \in (0..(g.k - 1)) \ DOMAIN g.shards}

(* AddData and AddParity: sweep, find or make the group, insert, repair.   *)
(* A duplicate ends before the repair.                                     *)
AddShard(id, index, o, gk, gm) ==
  \E room \in Rooms(Swept(groups), id) :
    LET old == Group(room, id)
        g   == Insert(old, index, o, gk, gm)
        dup == index \in DOMAIN old.shards
        out == ~dup /\ (Complete(g) \/ Decodable(g))
    IN  /\ adds' = (adds + 1) % SweepEvery
        /\ groups' = IF out
                     THEN Without(room, {id})
                     ELSE [x \in DOMAIN room \union {id} |-> IF x = id THEN g ELSE room[x]]
        /\ recovered' = recovered \union (IF out /\ ~Complete(g) THEN Decoded(g) ELSE {})

AddData(id, index, o) == AddShard(id, index, o, 0, 0)

AddParity(id, index, o, gk, gm) == AddShard(id, index, o, gk, gm)

DecElapse ==
  /\ groups' = [id \in DOMAIN groups |->
                  [groups[id] EXCEPT !.age = IF @ > Expiry THEN @ ELSE @ + 1]]
  /\ UNCHANGED <<adds, recovered>>

============================================================================
