------------------------------ MODULE Delivery ------------------------------
(***************************************************************************)
(* The way up to WireGuard and the slabs packets travel in: the pool       *)
(* (buffers/pool.go), the readers of the sockets, the resequencing         *)
(* buffers, and the queue between the engine and wireguard-go              *)
(* (wgbridge/bind.go).                                                     *)
(*                                                                         *)
(* A slab is an identity; its bytes are left out.  ring stands for the     *)
(* slots of the resequencing buffers (ReorderBuffer has their detail): a   *)
(* Push may drop the packet or keep it, and lets any packets go.  These    *)
(* are leaving until Deliver has taken them, one after another: Deliver    *)
(* holds the bind's lock for one packet, so that WireGuard can receive,    *)
(* close and open between two.  Which goroutine is delivering a packet     *)
(* (a reader, a gap timer, Close) is left out.  The pool counts how often  *)
(* it holds a slab, since sync.Pool would hand out twice one that was put  *)
(* twice.  Every Open makes a new channel, with a receive routine of its   *)
(* own in wireguard-go.                                                    *)
(***************************************************************************)
EXTENDS Integers, Sequences

CONSTANTS Slabs, Readers, None,
          QueueLen,     \* rxQueueLen
          MaxOpens      \* bound: how often WireGuard opens the bind

ASSUME DeliveryAssumption ==
  /\ None \notin Slabs
  /\ QueueLen \in Nat \ {0} /\ MaxOpens \in Nat

VARIABLES pool,         \* how often the pool holds each slab
          held,         \* slab of the datagram a reader is reading or handling
          ring,         \* slabs waiting in resequencing buffers
          leaving,      \* slabs that left a buffer and are not delivered yet
          chans,        \* channels made by Open, the last one being b.rx
          wg,           \* slab a receive routine is copying out of
          gone,         \* receive routines that returned net.ErrClosed
          down          \* the engine was closed

deliveryVars == <<pool, held, ring, leaving, chans, wg, gone, down>>

DeliveryInit ==
  /\ pool = [s \in Slabs |-> 1]
  /\ held = [r \in Readers |-> None]
  /\ ring = {} /\ leaving = {} /\ chans = <<>>
  /\ wg = [c \in 1..MaxOpens |-> None]
  /\ gone = {} /\ down = FALSE

Put(p, s) == [p EXCEPT ![s] = @ + 1]

----------------------------------------------------------------------------
(* EngineBind *)

IsOpen == Len(chans) > 0 /\ chans[Len(chans)].open
Room == Len(chans[Len(chans)].q) < QueueLen
Enqueue(s) == chans' = [chans EXCEPT ![Len(chans)].q = Append(@, s)]

Open ==
  /\ ~IsOpen /\ Len(chans) < MaxOpens
  /\ chans' = Append(chans, [q |-> <<>>, open |-> TRUE])
  /\ UNCHANGED <<pool, held, ring, leaving, wg, gone, down>>

CloseBind ==
  /\ IsOpen
  /\ chans' = [chans EXCEPT ![Len(chans)].open = FALSE]
  /\ UNCHANGED <<pool, held, ring, leaving, wg, gone, down>>

(* Mutant: b.closed is not looked at. *)
DeliverClosed(s) ==
  \/ Len(chans) > 0 /\ Room /\ Enqueue(s) /\ UNCHANGED pool
  \/ ~(Len(chans) > 0 /\ Room) /\ pool' = Put(pool, s) /\ UNCHANGED chans

(* Deliver takes over slab s: it is queued or released. *)
Deliver(s) ==
  \/ IsOpen /\ Room /\ Enqueue(s) /\ UNCHANGED pool
  \/ ~(IsOpen /\ Room) /\ pool' = Put(pool, s) /\ UNCHANGED chans

(* The receive function of channel c. *)
Recv(c) ==
  /\ c \in DOMAIN chans \ gone /\ wg[c] = None
  /\ chans[c].q # <<>>
  /\ wg' = [wg EXCEPT ![c] = Head(chans[c].q)]
  /\ chans' = [chans EXCEPT ![c].q = Tail(@)]
  /\ UNCHANGED <<pool, held, ring, leaving, gone, down>>

Release(c) ==
  /\ wg[c] # None
  /\ pool' = Put(pool, wg[c])
  /\ wg' = [wg EXCEPT ![c] = None]
  /\ UNCHANGED <<held, ring, leaving, chans, gone, down>>

(* Mutant: the routine stops as soon as the bind is closed. *)
RecvClosedEarly(c) ==
  /\ c \in DOMAIN chans \ gone /\ wg[c] = None
  /\ ~chans[c].open
  /\ gone' = gone \union {c}
  /\ UNCHANGED <<pool, held, ring, leaving, chans, wg, down>>

RecvClosed(c) ==
  /\ c \in DOMAIN chans \ gone /\ wg[c] = None
  /\ ~chans[c].open /\ chans[c].q = <<>>
  /\ gone' = gone \union {c}
  /\ UNCHANGED <<pool, held, ring, leaving, chans, wg, down>>

----------------------------------------------------------------------------
(* The readers *)

(* buffers.Get and a datagram. *)
Read(r, s) ==
  /\ ~down /\ held[r] = None /\ pool[s] > 0
  /\ held' = [held EXCEPT ![r] = s]
  /\ pool' = [pool EXCEPT ![s] = @ - 1]
  /\ UNCHANGED <<ring, leaving, chans, wg, gone, down>>

(* A read error, a malformed datagram, control traffic or a parity shard. *)
Discard(r) ==
  /\ held[r] # None
  /\ pool' = Put(pool, held[r])
  /\ held' = [held EXCEPT ![r] = None]
  /\ UNCHANGED <<ring, leaving, chans, wg, gone, down>>

(* Data that is not BULK goes straight up. *)
Bypass(r) ==
  /\ held[r] # None
  /\ Deliver(held[r])
  /\ held' = [held EXCEPT ![r] = None]
  /\ UNCHANGED <<ring, leaving, wg, gone, down>>

(* The buffers let the packets of out go, those of in being in them. *)
Emit(in, out) == ring' = in \ out /\ leaving' = leaving \union out

(* The deliver callback of a buffer, for a packet it has let go. *)
DeliverNext(s) ==
  /\ s \in leaving
  /\ leaving' = leaving \ {s}
  /\ Deliver(s)
  /\ UNCHANGED <<held, ring, wg, gone, down>>

(* Buffer.Push of slab s with the pool at p: the packet is a duplicate or  *)
(* noise and is dropped, or it joins the others and some of them are       *)
(* released.                                                               *)
PushDrop(s, p) == pool' = Put(p, s) /\ UNCHANGED <<ring, leaving>>

PushKeep(s, p) ==
  /\ pool' = p
  /\ \E out \in SUBSET (ring \union {s}) : Emit(ring \union {s}, out)

Push(r) ==
  /\ held[r] # None
  /\ PushDrop(held[r], pool) \/ PushKeep(held[r], pool)
  /\ held' = [held EXCEPT ![r] = None]
  /\ UNCHANGED <<chans, wg, gone, down>>

(* Mutant: a repaired packet travels in the slab of the datagram that      *)
(* completed its group.                                                    *)
RecoverShare(r, t) ==
  /\ held[r] # None /\ pool[t] > 0
  /\ PushDrop(held[r], pool) \/ PushKeep(held[r], pool)
  /\ UNCHANGED <<held, chans, wg, gone, down>>

(* While the reader handles a datagram the FEC decoder repairs a packet,   *)
(* copies it to a slab of its own and pushes it.                           *)
Recover(r, t) ==
  /\ held[r] # None /\ pool[t] > 0
  /\ LET p == [pool EXCEPT ![t] = @ - 1] IN PushDrop(t, p) \/ PushKeep(t, p)
  /\ UNCHANGED <<held, chans, wg, gone, down>>

(* The gap timer of the buffer that holds slab s lets packets go. *)
Timer(s) ==
  /\ s \in ring
  /\ \E out \in SUBSET ring : s \in out /\ Emit(ring, out)
  /\ UNCHANGED <<pool, held, chans, wg, gone, down>>

(* Engine.Close, once the readers are gone: the buffers are flushed. *)
CloseEngine ==
  /\ ~down /\ \A r \in Readers : held[r] = None
  /\ down' = TRUE
  /\ Emit(ring, ring)
  /\ UNCHANGED <<pool, held, chans, wg, gone>>

DeliveryNext ==
  \/ Open \/ CloseBind \/ CloseEngine
  \/ \E c \in DOMAIN chans : Recv(c) \/ Release(c) \/ RecvClosed(c)
  \/ \E r \in Readers :
       \/ Discard(r) \/ Bypass(r) \/ Push(r)
       \/ \E s \in Slabs : Read(r, s) \/ Recover(r, s)
  \/ \E s \in Slabs : Timer(s) \/ DeliverNext(s)

(* wireguard-go runs its receive routine, an armed timer fires, and who    *)
(* delivers goes on with the next packet.                                  *)
Fairness ==
  /\ \A c \in 1..MaxOpens : WF_deliveryVars(Recv(c)) /\ WF_deliveryVars(Release(c))
                          /\ WF_deliveryVars(RecvClosed(c))
  /\ \A s \in Slabs : WF_deliveryVars(Timer(s)) /\ WF_deliveryVars(DeliverNext(s))

Safe == DeliveryInit /\ [][DeliveryNext]_deliveryVars
DeliverySpec == Safe /\ Fairness

----------------------------------------------------------------------------
Channel == [q : Seq(Slabs), open : BOOLEAN]

DeliveryTypeOK ==
  /\ pool \in [Slabs -> Nat]
  /\ held \in [Readers -> Slabs \union {None}]
  /\ ring \subseteq Slabs /\ leaving \subseteq Slabs
  /\ chans \in Seq(Channel)
  /\ Len(chans) <= MaxOpens
  /\ \A c \in DOMAIN chans : Len(chans[c].q) <= QueueLen
  /\ wg \in [1..MaxOpens -> Slabs \union {None}]
  /\ gone \subseteq DOMAIN chans
  /\ down \in BOOLEAN

Queued(s) == {x \in (1..Len(chans)) \X (1..QueueLen) :
                x[2] <= Len(chans[x[1]].q) /\ chans[x[1]].q[x[2]] = s}

(* Where slab s is. *)
Places(s) ==
  {<<"pool", k>> : k \in 1..pool[s]}
  \union {<<"reader", r>> : r \in {q \in Readers : held[q] = s}}
  \union {<<"buffer", x>> : x \in ring \intersect {s}}
  \union {<<"leaving", x>> : x \in leaving \intersect {s}}
  \union {<<"queue", x>> : x \in Queued(s)}
  \union {<<"wireguard", c>> : c \in {d \in 1..MaxOpens : wg[d] = s}}

(* "Whoever consumes the packet must return the slab with Put"             *)
(* (pool.go:24): every slab is in exactly one place at any time, so none   *)
(* is released twice, none is lost, and none is read into while another    *)
(* routine still copies out of it.                                         *)
SlabInOnePlace == \A s \in Slabs : \E x \in Places(s) : Places(s) = {x}

(* Nothing is sent on a closed channel, and it stays closed. *)
NothingSent ==
  \A c \in DOMAIN chans : ~chans[c].open =>
    ~chans'[c].open /\ Len(chans'[c].q) <= Len(chans[c].q)

(* "Close can never close the channel mid-send" (bind.go:127): nothing is  *)
(* ever sent on a channel that was closed, which would panic, and a closed *)
(* channel stays closed.                                                   *)
NoSendOnClosed == [][NothingSent]_deliveryVars

(* A slab that was handed to the resequencing buffer or to WireGuard comes *)
(* back to the pool, also when the bind is closed with packets in its      *)
(* queue or the engine with packets in its buffers.                        *)
SlabsComeBack ==
  \A s \in Slabs : (s \in ring \union leaving \/ Queued(s) # {}) ~> pool[s] > 0

============================================================================
