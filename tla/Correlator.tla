----------------------------- MODULE Correlator -----------------------------
(***************************************************************************)
(* The FIFO that gives an outgoing ciphertext datagram its traffic class   *)
(* (wgbridge/correlator.go): the class and the expected ciphertext length  *)
(* of every plaintext packet are pushed, and a datagram's length is looked *)
(* up.  Both operations run under c.mu.                                    *)
(***************************************************************************)
EXTENDS Integers, Sequences, FiniteSetsExt, TrafficClasses

CONSTANTS ScanAhead,    \* entries a match looks at (8)
          FifoCap       \* entries held (4096)

ASSUME CorrelatorAssumption ==
  ScanAhead \in Nat \ {0} /\ FifoCap \in Nat \ {0}

VARIABLE fifo   \* entries; `live': the packet has not been sent or dropped yet (history)

ExpectedCtLen(ptLen) == 16 + 16 * ((ptLen + 15) \div 16) + 16

(* PushPlain, when the FIFO has room. *)
Pushed(class, ptLen, live) ==
  Append(fifo, [class |-> class, ctLen |-> ExpectedCtLen(ptLen), live |-> live])

(* Mutant: off by one. *)
HitsShort(ctLen) == {j \in DOMAIN fifo : j < ScanAhead /\ fifo[j].ctLen = ctLen}

(* The entries a match may take. *)
Hits(ctLen) == {j \in DOMAIN fifo : j <= ScanAhead /\ fifo[j].ctLen = ctLen}

(* Mutant: the newest of the entries looked at is taken. *)
MatchNewest(ctLen) ==
  IF Hits(ctLen) = {} THEN [class |-> Bulk, pop |-> 0]
  ELSE [class |-> fifo[Max(Hits(ctLen))].class, pop |-> Max(Hits(ctLen))]

(* Mutant: the class is read after the entries have gone. *)
MatchAfter(ctLen) ==
  LET i == Min(Hits(ctLen))
  IN  IF Hits(ctLen) = {} THEN [class |-> Bulk, pop |-> 0]
      ELSE [class |-> IF i < Len(fifo) THEN fifo[i + 1].class ELSE Bulk, pop |-> i]

(* MatchCiphertext: the class, and how many entries go. *)
Match(ctLen) ==
  IF Hits(ctLen) = {} THEN [class |-> Bulk, pop |-> 0]
  ELSE [class |-> fifo[Min(Hits(ctLen))].class, pop |-> Min(Hits(ctLen))]

============================================================================
