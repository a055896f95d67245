-------------------------- MODULE MCReorderBuffer --------------------------
(***************************************************************************)
(* The reorder buffer for TLC, and the loops of the code against the       *)
(* closed forms.                                                           *)
(***************************************************************************)
EXTENDS ReorderBuffer, Sequences

Loops == INSTANCE ReorderLoops

(* The fields the loops touch, with nothing delivered yet. *)
Fields(ring, ne, occ) == [slots |-> ring, next |-> ne, occupied |-> occ, sent |-> <<>>]

InSequence(sent, ne) ==
  \A i, j \in DOMAIN sent : i < j => Off(sent[i], ne) < Off(sent[j], ne)

Sent(b) == {b.sent[i] : i \in DOMAIN b.sent}

(* The loops of drainLocked, flushLocked and expireLocked end, release     *)
(* exactly what the closed forms release, in sequence order, leave the     *)
(* ring and the release point where the closed forms leave them and keep   *)
(* b.occupied right.                                                       *)
LoopsAgree ==
  /\ LET b == Loops!ExpireLoop(Fields(slots, nextExpected, occupied), hold)
         e == Expire(slots, nextExpected, hold)
     IN  /\ b.slots = e.ring /\ b.next = e.next /\ b.occupied = Cardinality(Occ(e.ring))
         /\ Sent(b) = Pending(slots) \ Pending(e.ring)
         /\ InSequence(b.sent, nextExpected)
  /\ LET b == Loops!FlushLoop(Fields(slots, nextExpected, occupied), 0)
     IN  /\ b.slots = Flush /\ b.occupied = 0
         /\ Sent(b) = Pending(slots)
         /\ InSequence(b.sent, nextExpected)
  /\ \A s \in {x \in Seqs : Off(x, nextExpected) < Size} :
       LET ins == Insert(slots, s)
           b   == Loops!DrainLoop(Fields(ins, nextExpected, Cardinality(Occ(ins))))
           d   == Drain(ins, nextExpected)
       IN  /\ b.slots = d.ring /\ b.next = d.next /\ b.occupied = Cardinality(Occ(d.ring))
           /\ b.sent = [k \in 1..Len(b.sent) |-> (nextExpected + k - 1) % SeqSpace]

============================================================================
