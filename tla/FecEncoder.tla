----------------------------- MODULE FecEncoder -----------------------------
(***************************************************************************)
(* The sender side of forward error correction (internal/fec/fec.go,       *)
(* Encoder): outgoing bulk packets are collected into groups, and closing  *)
(* a group emits its parity shards.                                        *)
(*                                                                         *)
(* Every method runs under e.mu, emission included, so each is one action. *)
(* A shard's bytes are left out: a data shard is the packet it carries, a  *)
(* parity shard says which group it protects.  nextGroup neither wraps nor *)
(* starts again with the process; the number on the wire does (GroupID).   *)
(***************************************************************************)
EXTENDS Integers, Sequences

CONSTANTS Geometries,    \* the (k, m) pairs SetParams may be given
          GroupMod,      \* number of group ids on the wire (2^24)
          FlushTimeout   \* ticks after which a partial group is closed (8 ms)

ASSUME EncoderAssumption ==
  /\ Geometries \subseteq [k: Nat, m: Nat]
  /\ \A p \in Geometries : p.k > 0 => p.m > 0
  /\ GroupMod \in Nat \ {0}
  /\ FlushTimeout \in Nat

Off == [k |-> 0, m |-> 0]

VARIABLES params, nextGroup,
          base,      \* first group of this run of the sending process
          shards,    \* the packets of the open group
          firstAge,  \* ticks since the open group's first packet
          m          \* parity shards the open group will get

encVars == <<params, nextGroup, base, shards, firstAge, m>>

GroupID(n) == (n - base) % GroupMod

(* The group being filled is the last one numbered. *)
OpenGroup == nextGroup - 1

(* New sets the configured geometry; an adaptive encoder starts off and is *)
(* given another one by the control loop.                                  *)
EncInit ==
  /\ params \in Geometries
  /\ nextGroup = 0 /\ base = 0
  /\ shards = <<>>
  /\ firstAge = 0
  /\ m = 0

SetParams(p) ==
  /\ params' = p
  /\ UNCHANGED <<nextGroup, base, shards, firstAge, m>>

(* closeLocked of group n, whose packets are `all': a parity shard for     *)
(* each index after the data.                                              *)
Parity(n, all, count) ==
  [i \in 1..count |-> [group |-> n, index |-> Len(all) + i - 1, k |-> Len(all), m |-> count]]

(* Add with FEC off: the packet goes out without a tag. *)
AddOff ==
  /\ shards = <<>> /\ params.k = 0
  /\ UNCHANGED encVars

(* Add: the packet joins the open group, or opens one with the geometry of *)
(* the moment; the group is closed when it has the k of the moment.        *)
Opens == shards = <<>>
AddGroup == IF Opens THEN nextGroup ELSE OpenGroup
AddM == IF Opens THEN params.m ELSE m
Fills(p) == Len(Append(shards, p)) >= params.k

AddOn(p) ==
  /\ shards # <<>> \/ params.k > 0
  /\ nextGroup' = AddGroup + 1
  /\ m' = AddM
  /\ firstAge' = IF Opens THEN 0 ELSE firstAge
  /\ shards' = IF Fills(p) THEN <<>> ELSE Append(shards, p)
  /\ UNCHANGED <<params, base>>

AddEmits(p) == IF Fills(p) THEN Parity(AddGroup, Append(shards, p), AddM) ELSE <<>>

(* Mutant: the flushed group is not reset. *)
FlushKeep ==
  /\ shards # <<>> /\ firstAge >= FlushTimeout
  /\ UNCHANGED encVars

(* Mutant: only a group that is full is flushed. *)
FlushFull ==
  /\ shards # <<>> /\ Len(shards) >= params.k
  /\ shards' = <<>>
  /\ UNCHANGED <<params, nextGroup, base, firstAge, m>>

(* Flush closes a group that has been open for the timeout. *)
Flush ==
  /\ shards # <<>> /\ firstAge >= FlushTimeout
  /\ shards' = <<>>
  /\ UNCHANGED <<params, nextGroup, base, firstAge, m>>

FlushEmits == Parity(OpenGroup, shards, m)

EncElapse ==
  /\ firstAge' = IF shards # <<>> /\ firstAge < FlushTimeout THEN firstAge + 1 ELSE firstAge
  /\ UNCHANGED <<params, nextGroup, base, shards, m>>

(* The process starts again, with its geometry: NewEncoder. *)
NewEncoder ==
  /\ base' = nextGroup
  /\ shards' = <<>> /\ firstAge' = 0 /\ m' = 0
  /\ UNCHANGED <<params, nextGroup>>

============================================================================
