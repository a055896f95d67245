---------------------------- MODULE ClientPaths ----------------------------
(***************************************************************************)
(* The goroutines that share the client's paths (internal/engine/          *)
(* client.go): the senders (clientSend), one reader for each path          *)
(* (clientRxLoop), the probe loop, which redials sockets, and Close.  They *)
(* meet in the sockets, the registered flags and the queue of ciphertext   *)
(* that waits for a first registration.                                    *)
(*                                                                         *)
(* A step is what one goroutine does between two points where another can  *)
(* get in: a critical section of connMu or pendingMu, an atomic load, swap *)
(* or store, a system call.  Sockets are numbered in the order they are    *)
(* dialed.  Cadences are left out (a redial may happen at any time; when   *)
(* it is due is Registration's concern), and so is which of the sendable   *)
(* paths a packet takes.                                                   *)
(***************************************************************************)
EXTENDS Integers, Sequences, FiniteSets, Functions

CONSTANTS Paths, Packets,
          PendingCap,   \* packets that may wait (64)
          MaxSocks      \* bound on the sockets dialed

ASSUME ClientAssumption ==
  /\ IsFiniteSet(Paths) /\ IsFiniteSet(Packets)
  /\ PendingCap \in Nat \ {0}
  /\ MaxSocks \in Nat

VARIABLES conn,        \* Path.conn
          closed,      \* Path.closed
          registered,  \* Path.registered
          open,        \* sockets the program has open
          nextSock,
          dialer,      \* the probe loop: where it is, for which path
          reader,      \* path -> the reader: where it is, the socket it reads
          pending,     \* e.pending
          staged,      \* path -> what the reader's flushPending still has to send
          status,      \* packet -> how far its sender is
          ctxDone,     \* e.cancel() has been called
          late         \* packets in the queue that were held although a path is registered (history)

vars == <<conn, closed, registered, open, nextSock, dialer, reader, pending,
          staged, status, ctxDone, late>>

socketVars == <<conn, closed, open, nextSock>>
packetVars == <<pending, staged, status, late>>

NoSock == 0
Idle == [pc |-> "idle", path |-> NoSock, sock |-> NoSock, lost |-> FALSE]
Sendable == {p \in Paths : registered[p]}

(* AddPath has dialed the paths, one after the other, and started their    *)
(* readers; Run follows.  In which order makes no difference.              *)
Init ==
  /\ conn = CHOOSE f \in Bijection(Paths, 1..Cardinality(Paths)) : TRUE
  /\ closed = [p \in Paths |-> FALSE]
  /\ registered = [p \in Paths |-> FALSE]
  /\ open = 1..Cardinality(Paths)
  /\ nextSock = Cardinality(Paths) + 1
  /\ dialer = Idle
  /\ reader = [p \in Paths |-> [pc |-> "top", sock |-> NoSock]]
  /\ pending = <<>>
  /\ staged = [p \in Paths |-> <<>>]
  /\ status = [ct \in Packets |-> "new"]
  /\ ctxDone = FALSE
  /\ late = {}

----------------------------------------------------------------------------
(* clientProbeLoop and dial.                                               *)

(* A path waits for its HELLO ack (lost = FALSE), or writing the probe of  *)
(* a registered path failed (lost = TRUE): the system call of dial.  A     *)
(* dial that fails changes nothing.                                        *)
Dial(p) ==
  /\ dialer.pc = "idle" /\ nextSock <= MaxSocks
  /\ dialer' = [pc |-> "dialed", path |-> p, sock |-> nextSock, lost |-> registered[p]]
  /\ open' = open \union {nextSock}
  /\ nextSock' = nextSock + 1
  /\ UNCHANGED <<conn, closed, registered, reader, packetVars, ctxDone>>

(* Mutant: dial installs the socket of a path that was closed. *)
InstallAlways ==
  /\ dialer.pc = "dialed"
  /\ conn' = [conn EXCEPT ![dialer.path] = dialer.sock]
  /\ dialer' = [dialer EXCEPT !.pc = "swapped", !.sock = conn[dialer.path]]
  /\ UNCHANGED <<closed, registered, open, nextSock, reader, packetVars, ctxDone>>

(* Mutant: dial closes the old socket before it installs the new one. *)
InstallLate ==
  /\ dialer.pc = "dialed"
  /\ IF conn[dialer.path] \in open
     THEN open' = open \ {conn[dialer.path]} /\ UNCHANGED <<conn, dialer>>
     ELSE /\ conn' = [conn EXCEPT ![dialer.path] = dialer.sock]
          /\ dialer' = [dialer EXCEPT !.pc = "swapped", !.sock = conn[dialer.path]]
          /\ UNCHANGED open
  /\ UNCHANGED <<closed, registered, nextSock, reader, packetVars, ctxDone>>

(* The critical section of dial: refuse a closed path, or swap sockets. *)
Install ==
  /\ dialer.pc = "dialed"
  /\ IF closed[dialer.path]
     THEN /\ open' = open \ {dialer.sock}
          /\ dialer' = Idle
          /\ UNCHANGED conn
     ELSE /\ conn' = [conn EXCEPT ![dialer.path] = dialer.sock]
          /\ dialer' = [dialer EXCEPT !.pc = "swapped", !.sock = conn[dialer.path]]
          /\ UNCHANGED open
  /\ UNCHANGED <<closed, registered, nextSock, reader, packetVars, ctxDone>>

CloseOld ==
  /\ dialer.pc = "swapped"
  /\ open' = open \ {dialer.sock}
  /\ dialer' = IF dialer.lost THEN [dialer EXCEPT !.pc = "clear", !.sock = NoSock] ELSE Idle
  /\ UNCHANGED <<conn, closed, registered, nextSock, reader, packetVars, ctxDone>>

(* After a lost socket: p.registered.Store(false). *)
Unregister ==
  /\ dialer.pc = "clear"
  /\ registered' = [registered EXCEPT ![dialer.path] = FALSE]
  /\ dialer' = Idle
  /\ UNCHANGED <<socketVars, reader, packetVars, ctxDone>>

LoopExit ==
  /\ dialer.pc = "idle" /\ ctxDone
  /\ dialer' = [Idle EXCEPT !.pc = "exited"]
  /\ UNCHANGED <<socketVars, registered, reader, packetVars, ctxDone>>

----------------------------------------------------------------------------
(* clientRxLoop and the HELLO_ACK case of handleClientDatagram.            *)

At(p, pc) == reader[p].pc = pc
GoTo(p, pc) == reader' = [reader EXCEPT ![p].pc = pc]
Exit(p) == reader' = [reader EXCEPT ![p] = [pc |-> "done", sock |-> NoSock]]
Top(p) == reader' = [reader EXCEPT ![p] = [pc |-> "top", sock |-> NoSock]]

RxGetConn(p) ==
  /\ At(p, "top")
  /\ IF conn[p] = NoSock
     THEN Exit(p)
     ELSE reader' = [reader EXCEPT ![p] = [pc |-> "reading", sock |-> conn[p]]]
  /\ UNCHANGED <<socketVars, registered, dialer, packetVars, ctxDone>>

(* Read returns a HELLO_ACK. *)
RxHelloAck(p) ==
  /\ At(p, "reading") /\ reader[p].sock \in open
  /\ GoTo(p, "acked")
  /\ UNCHANGED <<socketVars, registered, dialer, packetVars, ctxDone>>

(* Read fails because the socket was closed under it. *)
RxError(p) ==
  /\ At(p, "reading") /\ reader[p].sock \notin open
  /\ IF ctxDone \/ conn[p] = reader[p].sock THEN Exit(p) ELSE Top(p)
  /\ UNCHANGED <<socketVars, registered, dialer, packetVars, ctxDone>>

(* Read fails on a socket that is open: the loop tries again. *)
RxRetry(p) ==
  /\ At(p, "reading") /\ reader[p].sock \in open
  /\ IF ctxDone THEN Exit(p) ELSE Top(p)
  /\ UNCHANGED <<socketVars, registered, dialer, packetVars, ctxDone>>

(* Mutant: a registration does not flush the queue. *)
RxRegisterQuiet(p) ==
  /\ At(p, "acked")
  /\ registered' = [registered EXCEPT ![p] = TRUE]
  /\ Top(p)
  /\ UNCHANGED <<socketVars, dialer, packetVars, ctxDone>>

(* p.registered.Swap(true) *)
RxRegister(p) ==
  /\ At(p, "acked")
  /\ registered' = [registered EXCEPT ![p] = TRUE]
  /\ IF registered[p] THEN Top(p) ELSE GoTo(p, "flush")
  /\ UNCHANGED <<socketVars, dialer, packetVars, ctxDone>>

(* Mutant: the queue is copied, not taken. *)
RxTakeCopy(p) ==
  /\ At(p, "flush")
  /\ staged' = [staged EXCEPT ![p] = pending]
  /\ GoTo(p, "sending")
  /\ UNCHANGED <<socketVars, registered, dialer, pending, status, ctxDone, late>>

(* flushPending takes the queue; clientSend then works through it. *)
RxTake(p) ==
  /\ At(p, "flush")
  /\ staged' = [staged EXCEPT ![p] = pending]
  /\ pending' = <<>>
  /\ late' = {}
  /\ GoTo(p, "sending")
  /\ UNCHANGED <<socketVars, registered, dialer, status, ctxDone>>

(* sendDataOn on one of the sendable paths: the packet is on the wire, or  *)
(* lost when the write fails.                                              *)
Written(ct) == status' = [status EXCEPT ![ct] = "written"]

(* holdPending *)
HoldPending(ct) ==
  IF Len(pending) >= PendingCap
  THEN status' = [status EXCEPT ![ct] = "dropped"] /\ UNCHANGED <<pending, late>>
  ELSE /\ pending' = Append(pending, ct)
       /\ status' = [status EXCEPT ![ct] = "waiting"]
       /\ late' = IF Sendable # {} THEN late \union {ct} ELSE late \ {ct}

RxSend(p) ==
  /\ At(p, "sending") /\ staged[p] # <<>>
  /\ IF Sendable = {}
     THEN GoTo(p, "holding") /\ UNCHANGED <<staged, status>>
     ELSE /\ Written(Head(staged[p]))
          /\ staged' = [staged EXCEPT ![p] = Tail(@)]
          /\ UNCHANGED reader
  /\ UNCHANGED <<socketVars, registered, dialer, pending, ctxDone, late>>

RxHold(p) ==
  /\ At(p, "holding")
  /\ HoldPending(Head(staged[p]))
  /\ staged' = [staged EXCEPT ![p] = Tail(@)]
  /\ GoTo(p, "sending")
  /\ UNCHANGED <<socketVars, registered, dialer, ctxDone>>

RxSent(p) ==
  /\ At(p, "sending") /\ staged[p] = <<>>
  /\ Top(p)
  /\ UNCHANGED <<socketVars, registered, dialer, packetVars, ctxDone>>

----------------------------------------------------------------------------
(* clientSend of one packet, called by WireGuard: sendablePaths, and then  *)
(* the write or the queue.                                                 *)
Send(ct) ==
  /\ status[ct] = "new"
  /\ IF Sendable = {} THEN status' = [status EXCEPT ![ct] = "holding"] ELSE Written(ct)
  /\ UNCHANGED <<socketVars, registered, dialer, reader, pending, staged, ctxDone, late>>

Hold(ct) ==
  /\ status[ct] = "holding"
  /\ HoldPending(ct)
  /\ UNCHANGED <<socketVars, registered, dialer, reader, staged, ctxDone>>

(* Engine.Close: cancel, then close every path. *)
Cancel ==
  /\ ~ctxDone /\ ctxDone' = TRUE
  /\ UNCHANGED <<socketVars, registered, dialer, reader, packetVars>>

ClosePath(p) ==
  /\ ctxDone /\ ~closed[p]
  /\ closed' = [closed EXCEPT ![p] = TRUE]
  /\ open' = open \ {conn[p]}
  /\ conn' = [conn EXCEPT ![p] = NoSock]
  /\ UNCHANGED <<nextSock, registered, dialer, reader, packetVars, ctxDone>>

ProbeLoop == (\E p \in Paths : Dial(p)) \/ Install \/ CloseOld \/ Unregister \/ LoopExit

(* The steps of p's reader that wait for nobody. *)
ReaderStep(p) ==
  \/ RxGetConn(p) \/ RxError(p) \/ RxRegister(p) \/ RxTake(p)
  \/ RxSend(p) \/ RxHold(p) \/ RxSent(p)

Next ==
  \/ ProbeLoop
  \/ \E p \in Paths : ReaderStep(p) \/ RxHelloAck(p) \/ RxRetry(p) \/ ClosePath(p)
  \/ \E ct \in Packets : Send(ct) \/ Hold(ct)
  \/ Cancel

Spec == Init /\ [][Next]_vars

(* The loops Close waits for, and Close itself, go on when they can.       *)
(* Whether a HELLO_ACK arrives, a read fails, a packet is sent or the      *)
(* engine is closed is up to the environment.                              *)
Fairness ==
  /\ WF_vars(Install \/ CloseOld \/ Unregister \/ LoopExit)
  /\ \A p \in Paths : WF_vars(ReaderStep(p))
  /\ WF_vars(\E p \in Paths : ClosePath(p))

LiveSpec == Spec /\ Fairness

----------------------------------------------------------------------------
Dialers == [pc : {"idle", "dialed", "swapped", "clear", "exited"},
            path : Paths \union {NoSock}, sock : Nat, lost : BOOLEAN]
ReaderPcs == {"top", "reading", "acked", "flush", "sending", "holding", "done"}
Readers == [pc : ReaderPcs, sock : Nat]

TypeOK ==
  /\ conn \in [Paths -> Nat]
  /\ closed \in [Paths -> BOOLEAN]
  /\ registered \in [Paths -> BOOLEAN]
  /\ open \in SUBSET (Nat \ {NoSock})
  /\ nextSock \in Nat \ {NoSock}
  /\ dialer \in Dialers
  /\ dialer.pc \in {"dialed", "swapped", "clear"} => dialer.path \in Paths
  /\ reader \in [Paths -> Readers]
  /\ pending \in Seq(Packets) /\ Len(pending) <= PendingCap
  /\ staged \in [Paths -> Seq(Packets)]
  /\ status \in [Packets -> {"new", "holding", "waiting", "written", "dropped"}]
  /\ ctxDone \in BOOLEAN
  /\ late \in SUBSET Packets

(* No socket leaks and none is closed under its path: what is open is the  *)
(* socket of a path or in the hands of the probe loop, and a path's socket *)
(* is open.  After Close and the probe loop's exit nothing is open ("dial  *)
(* refuses to resurrect a closed path", client.go).                        *)
SocketsAccounted ==
  /\ open \subseteq {conn[p] : p \in Paths} \union {dialer.sock}
  /\ \A p \in Paths : conn[p] # NoSock => conn[p] \in open
  /\ (dialer.pc = "exited" /\ \A p \in Paths : closed[p]) => open = {}

(* A path's only reader survives every redial ("socket was replaced by a   *)
(* redial", client.go): it ends only when the engine is being closed.      *)
ReaderStays == \A p \in Paths : At(p, "done") => ctxDone

(* A waiting packet is in one place: it is neither lost from the queue    *)
(* nor sent twice, although several readers flush the queue while senders  *)
(* add to it.                                                              *)
StagedOnce ==
  /\ \A ct \in Packets :
       status[ct] = "waiting" <=> ct \in Range(pending) \/ \E p \in Paths : ct \in Range(staged[p])
  /\ IsInjective(pending)
  /\ \A p \in Paths :
       /\ IsInjective(staged[p])
       /\ \A ct \in Packets : ct \in Range(staged[p]) =>
            ct \notin Range(pending) /\ \A q \in Paths \ {p} : ct \notin Range(staged[q])

(* The queue "is flushed on the first registration" (engine.go): while a   *)
(* path is registered, a packet waits only if a flush is about to take it, *)
(* or its sender had looked for a path before the registration and queued  *)
(* it after.                                                               *)
OnlyLateStuck ==
  \A ct \in Packets :
    (ct \in Range(pending) /\ ct \notin late /\ Sendable # {}) => \E p \in Paths : At(p, "flush")

(* Close returns: e.wg.Wait() ends, with every socket closed. *)
CloseReturns ==
  ctxDone ~> (dialer.pc = "exited" /\ open = {} /\ \A p \in Paths : At(p, "done"))

============================================================================
