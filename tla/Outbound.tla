------------------------------ MODULE Outbound ------------------------------
(***************************************************************************)
(* A packet's way from the TUN device to the class it is sent in: TunShim  *)
(* and Inspect (wgbridge/tunshim.go, engine/engine.go) classify it and     *)
(* push its entry, WireGuard encrypts it, and the SendFunc asks classifyCt *)
(* for the class of the datagram.                                          *)
(*                                                                         *)
(* WireGuard has one peer (wg.go); it keeps the order and may drop         *)
(* packets, and is modelled from what correlator.go says of it.  A packet  *)
(* that finds no path is not looked up: the client holds it and classifies *)
(* it when it is replayed, the server drops it.                            *)
(***************************************************************************)
EXTENDS Classifier, Correlator

CONSTANTS Packets,     \* what may be read from the TUN device
          MaxInFlight, \* bound on the packets inside WireGuard
          MaxPkts,     \* bound on the packets of a flow while it is in the table
          PendingCap   \* ciphertext the client holds (64)

ASSUME OutboundAssumption ==
  /\ MaxInFlight \in Nat /\ MaxPkts \in Nat /\ PendingCap \in Nat
  /\ \A pkt \in Packets : pkt.ok \in BOOLEAN /\ pkt.len \in Nat /\ pkt.payload \in Nat

VARIABLES inWg,     \* packets inside WireGuard; `plain': of the class its flow keeps (history)
          pending,  \* ciphertext the client holds until a path registers
          inOrder,  \* every packet got an entry and none overtook another (history)
          drops,    \* while in order, packets dropped behind Inspect, up to ScanAhead (history)
          missed,   \* while in order, a datagram found no entry (history)
          right     \* while in order, the last datagram was sent in its packet's class (history)

history == <<drops, inOrder, missed, right>>
outVars == <<flows, fifo, inWg, pending, history>>

OutInit ==
  /\ flows = <<>> /\ fifo = <<>> /\ inWg = <<>> /\ pending = <<>>
  /\ drops = 0 /\ inOrder = TRUE /\ missed = FALSE /\ right = TRUE

----------------------------------------------------------------------------
(* The packets under way, oldest first, and the FIFO when the i-th of them *)
(* has gone: while all is in order the i-th live entry is its own.         *)

UnderWay == pending \o inWg

Unsure(entries) == [j \in DOMAIN entries |-> [entries[j] EXCEPT !.live = FALSE]]
LiveUpTo(j) == Cardinality({k \in 1..j : fifo[k].live})
Gone(i) == [j \in DOMAIN fifo |->
              [fifo[j] EXCEPT !.live = @ /\ LiveUpTo(j) # i]]

(* The class that every packet of a flow should get, when one is plain:    *)
(* the preset one, or that of a flow all of whose packets are alike.       *)
Plain(pkt) ==
  LET sizes == {BySize(q.proto, q.payload) : q \in {q \in Packets : q.ok /\ Flow(q) = Flow(pkt)}}
  IN  IF Preset(pkt) # {} THEN Preset(pkt) ELSE IF Cardinality(sizes) = 1 THEN sizes ELSE {}

Plainly == {pc \in Packets \X Classes : Plain(pc[1]) \subseteq {pc[2]}}

(* Inspect: Classify and PushPlain; the packet enters WireGuard.  A full   *)
(* FIFO takes no entry.  What went wrong before the FIFO and the tunnel    *)
(* ran empty does not count any more, and nothing counts out of order.     *)
Inspect(pkt) ==
  LET fresh == fifo = <<>> /\ UnderWay = <<>>
      ordered == fresh \/ inOrder
      room == Len(fifo) < FifoCap
      forget == fresh \/ ~room
  IN  /\ Len(inWg) < MaxInFlight
      /\ flows' = Counted(pkt)
      /\ LET c == Classify(pkt)
         IN  /\ inWg' = Append(inWg, [class |-> c, ctLen |-> ExpectedCtLen(pkt.len),
                                    plain |-> <<pkt, c>> \in Plainly])
             /\ fifo' = IF room THEN Pushed(c, pkt.len, ordered) ELSE Unsure(fifo)
      /\ \A f \in DOMAIN flows' : flows'[f].pkts <= MaxPkts
      /\ inOrder' = (ordered /\ room)
      /\ drops' = IF forget THEN 0 ELSE drops
      /\ missed' = (missed /\ ~forget)
      /\ right' = (right \/ forget)
      /\ UNCHANGED pending

(* The i-th packet under way is dropped. *)
Drop(i) ==
  /\ fifo' = Gone(i)
  /\ drops' = IF inOrder /\ drops < ScanAhead THEN drops + 1 ELSE drops
  /\ UNCHANGED <<flows, inOrder, missed, right>>

(* WireGuard drops a packet (a full staged queue). *)
WgDrop(i) ==
  /\ Drop(Len(pending) + i)
  /\ inWg' = SubSeq(inWg, 1, i - 1) \o SubSeq(inWg, i + 1, Len(inWg))
  /\ UNCHANGED pending

(* No path: the client holds the datagram while there is room  *)
HoldPending ==
  /\ inWg # <<>> /\ Len(pending) < PendingCap
  /\ pending' = Append(pending, Head(inWg))
  /\ inWg' = Tail(inWg)
  /\ UNCHANGED <<flows, fifo, history>>

(* and drops it when there is none, as the server does in any case.        *)
NoPath == inWg # <<>> /\ Drop(Len(pending) + 1) /\ inWg' = Tail(inWg) /\ UNCHANGED pending

(* classifyCt of the i-th packet under way.  Handshakes and keepalives are *)
(* INTERACTIVE without a look at the FIFO, and left out.                   *)
ClassifyCt(i) ==
  LET pkt == UnderWay[i]
      r == Match(pkt.ctLen)
      rest == SubSeq(Gone(i), r.pop + 1, Len(fifo))
      ordered == inOrder /\ i = 1
  IN  /\ fifo' = IF i = 1 THEN rest ELSE Unsure(rest)
      /\ inOrder' = ordered
      /\ drops' = IF ordered THEN drops ELSE 0
      /\ missed' = (ordered /\ (missed \/ Hits(pkt.ctLen) = {}))
      /\ right' = (ordered => r.class = pkt.class)
      /\ UNCHANGED flows

(* The SendFunc with the next datagram, and flushPending with the oldest   *)
(* held one.  The two run side by side.                                    *)
Send == inWg # <<>> /\ ClassifyCt(Len(pending) + 1) /\ inWg' = Tail(inWg) /\ UNCHANGED pending
Replay == pending # <<>> /\ ClassifyCt(1) /\ pending' = Tail(pending) /\ UNCHANGED inWg

OutNext ==
  \/ \E pkt \in Packets : Inspect(pkt)
  \/ \E i \in DOMAIN inWg : WgDrop(i)
  \/ HoldPending
  \/ NoPath
  \/ Send
  \/ Replay

OutSpec == OutInit /\ [][OutNext]_outVars

----------------------------------------------------------------------------
OutTypeOK ==
  /\ Cardinality(DOMAIN flows) <= FlowTableCap
  /\ Len(fifo) <= FifoCap
  /\ \A j \in DOMAIN fifo : fifo[j].class \in Classes /\ fifo[j].live \in BOOLEAN
  /\ Len(inWg) <= MaxInFlight /\ Len(pending) <= PendingCap
  /\ drops \in 0..ScanAhead
  /\ {inOrder, missed, right} \subseteq BOOLEAN

(* A packet's entry is not consumed before the packet comes: a datagram    *)
(* that takes the entry of another packet with its length takes an older   *)
(* one.  So a packet WireGuard drops never costs a later one its entry.    *)
EntriesStay ==
  inOrder =>
    /\ LiveUpTo(Len(fifo)) = Len(UnderWay)
    /\ \A j \in DOMAIN fifo : fifo[j].live =>
         LET pkt == UnderWay[LiveUpTo(j)]
         IN  fifo[j].class = pkt.class /\ fifo[j].ctLen = pkt.ctLen

(* "a FIFO of expected ciphertext lengths is enough" (correlator.go):      *)
(* nothing is misclassified while nothing is dropped, the FIFO has room    *)
(* and no datagram overtakes a held one, whatever lengths the packets      *)
(* share; and so again once FIFO and tunnel have drained.                  *)
RightWithoutDrops == (drops = 0 /\ inOrder) => right

(* "a bounded scan-ahead absorbs packets WireGuard drops internally"       *)
(* (correlator.go): with fewer drops than the scan looks at, room in the   *)
(* FIFO and nothing overtaken, every datagram finds an entry.              *)
DropsAbsorbed == (drops < ScanAhead /\ inOrder) => ~missed

(* "Cheap eviction: drop the table; live flows re-learn" (classify.go): a  *)
(* flow whose packets all lie on one side of the threshold never loses its *)
(* class, however often other flows empty the table; neither does one with *)
(* a rule, a known port or a protocol without ports.                       *)
FlowKeepsClass == \A i \in DOMAIN inWg : inWg[i].plain

============================================================================
