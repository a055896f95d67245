---------------------------- MODULE EngineProofs ----------------------------
(***************************************************************************)
(* Proofs about the two ends of the engine: ClientPaths for every set of   *)
(* paths and packets and every size of the queue, and ServerSessions for   *)
(* every set of sessions, clients, paths and addresses.                    *)
(***************************************************************************)
EXTENDS ClientPaths, ServerSessions, Facts, FiniteSetTheorems, FunctionTheorems, TLAPS

----------------------------------------------------------------------------
(* The client's paths.                                                     *)

(* Who has which socket: a number is dialed once, the probe loop's socket  *)
(* is no path's, and only Close leaves a path without one.                 *)
SocketInv ==
  /\ \A p \in Paths : conn[p] < nextSock
  /\ \A k \in open : k < nextSock
  /\ \A p, q \in Paths : (conn[p] = conn[q] /\ conn[p] # NoSock) => p = q
  /\ \A p \in Paths : closed[p] <=> conn[p] = NoSock
  /\ \A p \in Paths : closed[p] => ctxDone
  /\ dialer.pc \in {"idle", "clear", "exited"} <=> dialer.sock = NoSock
  /\ dialer.sock # NoSock => \A p \in Paths : conn[p] # dialer.sock
  /\ dialer.sock < nextSock
  /\ dialer.pc = "dialed" => dialer.sock \in open

(* A reader that reads has a socket; only one that sends has packets. *)
ReaderInv ==
  \A p \in Paths :
    /\ At(p, "reading") => reader[p].sock # NoSock
    /\ reader[p].pc \notin {"sending", "holding"} => staged[p] = <<>>
    /\ At(p, "holding") => staged[p] # <<>>

(* The inductive invariant. *)
IInv ==
  /\ TypeOK /\ SocketInv /\ ReaderInv
  /\ SocketsAccounted /\ ReaderStays /\ StagedOnce /\ OnlyLateStuck

----------------------------------------------------------------------------
(* Range and IsInjective say of a sequence what Has and NoRepeat say. *)
LEMMA RangeHas ==
  ASSUME NEW S, NEW s \in Seq(S)
  PROVE  /\ \A x : x \in Range(s) <=> Has(s, x)
         /\ IsInjective(s) <=> NoRepeat(s)
<1>1. DOMAIN s = 1..Len(s)
  OBVIOUS
<1>2. \A x : x \in Range(s) <=> \E i \in DOMAIN s : s[i] = x
  BY Zenon DEF Range
<1> QED BY <1>1, <1>2, Zenon DEF Has, NoRepeat, IsInjective

(* The lemmas on Append and Tail, for the operators of Functions. *)
LEMMA RangeAppend ==
  ASSUME NEW S, NEW s \in Seq(S), NEW e \in S
  PROVE  /\ Append(s, e) \in Seq(S) /\ Len(Append(s, e)) = Len(s) + 1
         /\ \A x : x \in Range(Append(s, e)) <=> x \in Range(s) \/ x = e
         /\ (IsInjective(s) /\ e \notin Range(s)) => IsInjective(Append(s, e))
<1>1. Append(s, e) \in Seq(S) /\ Len(Append(s, e)) = Len(s) + 1
  OBVIOUS
<1>2. /\ \A x : Has(Append(s, e), x) <=> Has(s, x) \/ x = e
      /\ (NoRepeat(s) /\ ~Has(s, e)) => NoRepeat(Append(s, e))
  BY HasAppend
<1>3. /\ \A x : x \in Range(s) <=> Has(s, x)
      /\ IsInjective(s) <=> NoRepeat(s)
  BY RangeHas, Zenon
<1>4. /\ \A x : x \in Range(Append(s, e)) <=> Has(Append(s, e), x)
      /\ IsInjective(Append(s, e)) <=> NoRepeat(Append(s, e))
  BY <1>1, RangeHas, Zenon
<1> QED BY <1>1, <1>2, <1>3, <1>4, Zenon

(* What a queue holds once its head is taken. *)
LEMMA RangeTail ==
  ASSUME NEW S, NEW s \in Seq(S), s # <<>>
  PROVE  /\ Head(s) \in S /\ Tail(s) \in Seq(S) /\ Head(s) \in Range(s)
         /\ \A x : x \in Range(Tail(s)) => x \in Range(s)
         /\ \A x : x \in Range(s) => x \in Range(Tail(s)) \/ x = Head(s)
         /\ IsInjective(s) => IsInjective(Tail(s)) /\ Head(s) \notin Range(Tail(s))
<1>1. Head(s) \in S /\ Tail(s) \in Seq(S)
  OBVIOUS
<1>2. /\ Has(s, Head(s))
      /\ \A x : Has(Tail(s), x) => Has(s, x)
      /\ \A x : Has(s, x) => Has(Tail(s), x) \/ x = Head(s)
      /\ NoRepeat(s) => NoRepeat(Tail(s)) /\ ~Has(Tail(s), Head(s))
  BY HasTail
<1>3. /\ \A x : x \in Range(s) <=> Has(s, x)
      /\ IsInjective(s) <=> NoRepeat(s)
  BY RangeHas, Zenon
<1>4. /\ \A x : x \in Range(Tail(s)) <=> Has(Tail(s), x)
      /\ IsInjective(Tail(s)) <=> NoRepeat(Tail(s))
  BY <1>1, RangeHas, Zenon
<1> QED BY <1>1, <1>2, <1>3, <1>4, Zenon

(* The paths can be numbered: the sockets they are dialed with. *)
LEMMA FirstSockets ==
  LET N == Cardinality(Paths)
      f == CHOOSE f \in Bijection(Paths, 1..N) : TRUE
  IN  /\ f \in [Paths -> 1..N]
      /\ \A p, q \in Paths : f[p] = f[q] => p = q
      /\ 1..N \subseteq {f[p] : p \in Paths}
<1> DEFINE N == Cardinality(Paths)
           f == CHOOSE f \in Bijection(Paths, 1..N) : TRUE
<1>1. ExistsBijection(Paths, 1..N)
  BY ClientAssumption, FS_CardinalityType, Fun_ExistsBijSymmetric
<1>2. f \in Bijection(Paths, 1..N)
  BY <1>1, Zenon DEF ExistsBijection
<1> HIDE DEF f, N
<1>3. f \in [Paths -> 1..N] /\ \A p, q \in Paths : f[p] = f[q] => p = q
  BY <1>2 DEF Bijection, Injection, IsInjective
<1>4. 1..N \subseteq {f[p] : p \in Paths}
  BY <1>2 DEF Bijection, Surjection
<1> QED BY <1>3, <1>4, Zenon DEF f, N

(* The invariant holds before the engine runs. *)
LEMMA InitIInv == Init => IInv
<1> SUFFICES ASSUME Init PROVE IInv
  OBVIOUS
<1>1. /\ conn \in [Paths -> 1..Cardinality(Paths)]
      /\ \A p, q \in Paths : conn[p] = conn[q] => p = q
      /\ 1..Cardinality(Paths) \subseteq {conn[p] : p \in Paths}
  BY FirstSockets DEF Init
<1>2. Cardinality(Paths) \in Nat
  BY ClientAssumption, FS_CardinalityType
<1>3. dialer = Idle /\ dialer.pc = "idle" /\ dialer.sock = NoSock
  BY DEF Init, Idle
<1>4. TypeOK
  <2>1. conn \in [Paths -> Nat] /\ open \in SUBSET (Nat \ {NoSock}) /\ nextSock \in Nat \ {NoSock}
    BY <1>1, <1>2 DEF Init, NoSock
  <2>2. dialer \in Dialers
    BY DEF Init, Dialers, Idle, NoSock
  <2>3. pending = <<>> /\ <<>> \in Seq(Packets) /\ Len(pending) <= PendingCap
    BY ClientAssumption DEF Init
  <2> QED BY <1>3, <2>1, <2>2, <2>3, Zenon DEF Init, TypeOK, NoSock, Readers, ReaderPcs
<1>5. SocketInv /\ SocketsAccounted
  BY <1>1, <1>2, <1>3 DEF Init, SocketInv, SocketsAccounted, NoSock
<1>6. ReaderInv /\ ReaderStays
  BY DEF Init, ReaderInv, ReaderStays, At
<1>7. StagedOnce /\ OnlyLateStuck
  BY DEF Init, StagedOnce, OnlyLateStuck, Range, IsInjective
<1> QED BY <1>4, <1>5, <1>6, <1>7 DEF IInv

----------------------------------------------------------------------------
(* The steps.  First the types. *)

(* holdPending keeps the types of the queue and of the packets. *)
LEMMA HoldPendingType ==
  ASSUME TypeOK, NEW ct \in Packets, HoldPending(ct)
  PROVE  /\ pending' \in Seq(Packets) /\ Len(pending') <= PendingCap
         /\ status' \in [Packets -> {"new", "holding", "waiting", "written", "dropped"}]
         /\ late' \in SUBSET Packets
<1>1. CASE Len(pending) >= PendingCap
  BY <1>1, Zenon DEF TypeOK, HoldPending
<1>2. CASE ~(Len(pending) >= PendingCap)
  <2>1. Append(pending, ct) \in Seq(Packets) /\ Len(Append(pending, ct)) = Len(pending) + 1
    BY RangeAppend DEF TypeOK
  <2>2. Len(pending) \in Nat /\ Len(pending) + 1 <= PendingCap
    BY <1>2, ClientAssumption DEF TypeOK
  <2>3. late' \in SUBSET Packets
    BY <1>2 DEF TypeOK, HoldPending
  <2>4. status' \in [Packets -> {"new", "holding", "waiting", "written", "dropped"}]
    BY <1>2 DEF TypeOK, HoldPending
  <2>5. pending' = Append(pending, ct)
    BY <1>2 DEF HoldPending
  <2> QED BY <2>1, <2>2, <2>3, <2>4, <2>5
<1> QED BY <1>1, <1>2

(* Steps of the probe loop keep the types. *)
LEMMA DialerType == ASSUME TypeOK, ProbeLoop PROVE TypeOK'
<1>1. ASSUME NEW p \in Paths, Dial(p) PROVE TypeOK'
  <2>1. dialer' \in Dialers
        /\ dialer'.path \in Paths
    BY <1>1 DEF TypeOK, Dial, Dialers
  <2>2. open' \in SUBSET (Nat \ {NoSock}) /\ nextSock' \in Nat \ {NoSock}
    BY <1>1 DEF TypeOK, Dial, NoSock
  <2> QED BY <1>1, <2>1, <2>2 DEF TypeOK, Dial, packetVars
<1>2. CASE Install
  <2>1. dialer.path \in Paths
    BY <1>2 DEF TypeOK, Install
  <2>2. conn' \in [Paths -> Nat] /\ open' \in SUBSET (Nat \ {NoSock})
    BY <1>2, <2>1, Zenon DEF TypeOK, Install, Dialers
  <2>3. dialer' \in Dialers /\ (dialer'.pc \in {"dialed", "swapped", "clear"} => dialer'.path \in Paths)
    <3>1. CASE dialer' = Idle
      BY <3>1 DEF Dialers, Idle, NoSock
    <3>2. CASE dialer' = [dialer EXCEPT !.pc = "swapped", !.sock = conn[dialer.path]]
      <4>1. conn[dialer.path] \in Nat
        BY <2>1 DEF TypeOK
      <4>2. dialer \in Dialers
        BY DEF TypeOK
      <4> QED BY <2>1, <3>2, <4>1, <4>2, Zenon DEF Dialers
    <3> QED BY <1>2, <3>1, <3>2 DEF Install
  <2> QED BY <1>2, <2>2, <2>3 DEF TypeOK, Install, packetVars
<1>3. CASE CloseOld
  <2>1. dialer' \in Dialers
        /\ (dialer'.pc \in {"dialed", "swapped", "clear"} => dialer'.path \in Paths)
    BY <1>3, Zenon DEF TypeOK, CloseOld, Dialers, Idle, NoSock
  <2> QED BY <1>3, <2>1 DEF TypeOK, CloseOld, packetVars
<1>4. CASE Unregister
  BY <1>4 DEF TypeOK, Unregister, Dialers, Idle, NoSock, socketVars, packetVars
<1>5. CASE LoopExit
  BY <1>5, Zenon DEF TypeOK, LoopExit, Dialers, Idle, NoSock, socketVars, packetVars
<1> QED BY <1>1, <1>2, <1>3, <1>4, <1>5 DEF ProbeLoop

(* What a reader's jump leaves behind. *)
LEMMA ReaderMoves ==
  ASSUME reader \in [Paths -> Readers], NEW p \in Paths
  PROVE  /\ \A pc \in ReaderPcs : GoTo(p, pc) =>
              /\ reader' \in [Paths -> Readers]
              /\ reader'[p].pc = pc /\ reader'[p].sock = reader[p].sock
              /\ \A q \in Paths \ {p} : reader'[q] = reader[q]
         /\ Exit(p) =>
              /\ reader' \in [Paths -> Readers]
              /\ reader'[p].pc = "done"
              /\ \A q \in Paths \ {p} : reader'[q] = reader[q]
         /\ Top(p) =>
              /\ reader' \in [Paths -> Readers]
              /\ reader'[p].pc = "top"
              /\ \A q \in Paths \ {p} : reader'[q] = reader[q]
<1>1. ASSUME NEW pc \in ReaderPcs, GoTo(p, pc)
      PROVE  /\ reader' \in [Paths -> Readers]
             /\ reader'[p].pc = pc /\ reader'[p].sock = reader[p].sock
             /\ \A q \in Paths \ {p} : reader'[q] = reader[q]
  <2>1. reader[p] \in Readers /\ [reader[p] EXCEPT !.pc = pc] \in Readers
    BY DEF Readers
  <2>2. reader' = [reader EXCEPT ![p] = [reader[p] EXCEPT !.pc = pc]]
    BY <1>1 DEF GoTo
  <2>3. reader' \in [Paths -> Readers] /\ reader'[p] = [reader[p] EXCEPT !.pc = pc]
    BY <2>1, <2>2
  <2>4. reader'[p].pc = pc /\ reader'[p].sock = reader[p].sock
    BY <2>1, <2>3 DEF Readers
  <2> QED BY <2>2, <2>3, <2>4
<1>2. [pc |-> "done", sock |-> NoSock] \in Readers /\ [pc |-> "top", sock |-> NoSock] \in Readers
  BY DEF Readers, ReaderPcs, NoSock
<1> QED BY <1>1, <1>2 DEF Exit, Top

(* Steps of a reader keep the types. *)
LEMMA ReaderType ==
  ASSUME TypeOK, ReaderInv, NEW p \in Paths,
         ReaderStep(p) \/ RxHelloAck(p) \/ RxRetry(p)
  PROVE  TypeOK'
<1> USE DEF socketVars, packetVars
<1>0. reader \in [Paths -> Readers]
  BY DEF TypeOK
<1>1. CASE RxGetConn(p) \/ RxHelloAck(p) \/ RxRetry(p) \/ RxError(p) \/ RxSent(p)
  <2>1. reader' \in [Paths -> Readers]
    <3>1. conn[p] \in Nat => [pc |-> "reading", sock |-> conn[p]] \in Readers
      BY DEF Readers, ReaderPcs
    <3> QED BY <1>0, <1>1, <3>1, ReaderMoves, Zenon
        DEF TypeOK, ReaderPcs, RxGetConn, RxHelloAck, RxRetry, RxError, RxSent
  <2> QED BY <1>1, <2>1, Zenon DEF TypeOK, RxGetConn, RxHelloAck, RxRetry, RxError, RxSent
<1>2. CASE RxRegister(p)
  <2>1. reader' \in [Paths -> Readers]
    BY <1>0, <1>2, ReaderMoves DEF ReaderPcs, RxRegister
  <2> QED BY <1>2, <2>1, Zenon DEF TypeOK, RxRegister
<1>3. CASE RxTake(p)
  <2>1. reader' \in [Paths -> Readers]
    BY <1>0, <1>3, ReaderMoves DEF ReaderPcs, RxTake
  <2>2. pending' = <<>> /\ <<>> \in Seq(Packets) /\ Len(<<>>) <= PendingCap
    BY <1>3, ClientAssumption DEF RxTake
  <2>3. staged' \in [Paths -> Seq(Packets)]
    BY <1>3 DEF TypeOK, RxTake
  <2> QED BY <1>3, <2>1, <2>2, <2>3 DEF TypeOK, RxTake
<1>4. CASE RxSend(p)
  <2>1. reader' \in [Paths -> Readers]
    BY <1>0, <1>4, ReaderMoves DEF ReaderPcs, RxSend
  <2>2. staged[p] \in Seq(Packets) /\ staged[p] # <<>>
    BY <1>4 DEF TypeOK, RxSend
  <2>3. Head(staged[p]) \in Packets /\ Tail(staged[p]) \in Seq(Packets)
    BY <2>2, RangeTail
  <2>4. staged' \in [Paths -> Seq(Packets)]
    BY <1>4, <2>3, Zenon DEF TypeOK, RxSend
  <2>5. status' \in [Packets -> {"new", "holding", "waiting", "written", "dropped"}]
    BY <1>4, <2>3, Zenon DEF TypeOK, RxSend, Written
  <2> QED BY <1>4, <2>1, <2>4, <2>5 DEF TypeOK, RxSend
<1>5. CASE RxHold(p)
  <2>1. reader' \in [Paths -> Readers]
    BY <1>0, <1>5, ReaderMoves DEF ReaderPcs, RxHold
  <2>2. staged[p] \in Seq(Packets) /\ staged[p] # <<>>
    BY <1>5 DEF TypeOK, ReaderInv, RxHold
  <2>3. Head(staged[p]) \in Packets /\ Tail(staged[p]) \in Seq(Packets)
    BY <2>2, RangeTail
  <2>4. staged' \in [Paths -> Seq(Packets)]
    BY <1>5, <2>3 DEF TypeOK, RxHold
  <2>5. HoldPending(Head(staged[p]))
    BY <1>5 DEF RxHold
  <2>6. /\ pending' \in Seq(Packets) /\ Len(pending') <= PendingCap
        /\ status' \in [Packets -> {"new", "holding", "waiting", "written", "dropped"}]
        /\ late' \in SUBSET Packets
    BY <2>3, <2>5, HoldPendingType
  <2> QED BY <1>5, <2>1, <2>4, <2>6 DEF TypeOK, RxHold
<1> QED BY <1>1, <1>2, <1>3, <1>4, <1>5 DEF ReaderStep

(* Every step keeps the types. *)
LEMMA NextType == ASSUME TypeOK, ReaderInv, [Next]_vars PROVE TypeOK'
<1>1. ASSUME NEW p \in Paths, ClosePath(p) PROVE TypeOK'
  BY <1>1, Zenon DEF TypeOK, ClosePath, NoSock, packetVars
<1>2. ASSUME NEW ct \in Packets, Send(ct) PROVE TypeOK'
  BY <1>2, Zenon DEF TypeOK, Send, Written, socketVars
<1>3. ASSUME NEW ct \in Packets, Hold(ct) PROVE TypeOK'
  BY <1>3, HoldPendingType DEF TypeOK, Hold, socketVars
<1>4. CASE Cancel
  BY <1>4 DEF TypeOK, Cancel, socketVars, packetVars
<1>5. CASE UNCHANGED vars
  BY <1>5 DEF TypeOK, vars
<1> QED BY <1>1, <1>2, <1>3, <1>4, <1>5, DialerType, ReaderType DEF Next

----------------------------------------------------------------------------
(* The sockets. *)

(* A step that leaves the sockets alone. *)
LEMMA SocketsKept ==
  ASSUME SocketInv, SocketsAccounted, UNCHANGED <<socketVars, dialer, ctxDone>>
  PROVE  SocketInv' /\ SocketsAccounted'
BY DEF SocketInv, SocketsAccounted, socketVars

(* A redial opens a socket that no path has. *)
LEMMA DialSockets ==
  ASSUME TypeOK, SocketInv, SocketsAccounted, NEW p \in Paths, Dial(p)
  PROVE  SocketInv' /\ SocketsAccounted'
<1>1. /\ dialer.sock = NoSock
      /\ dialer'.pc = "dialed" /\ dialer'.sock = nextSock
      /\ open' = open \union {nextSock} /\ nextSock' = nextSock + 1
      /\ UNCHANGED <<conn, closed, ctxDone>>
  BY DEF Dial, SocketInv
<1>2. nextSock \in Nat /\ nextSock # NoSock /\ conn \in [Paths -> Nat] /\ NoSock \notin open
  BY Zenon DEF TypeOK
<1>3. SocketInv'
  <2>1. /\ \A q \in Paths : conn'[q] < nextSock' /\ conn'[q] # dialer'.sock
        /\ \A k \in open' : k < nextSock'
        /\ dialer'.sock < nextSock' /\ dialer'.sock # NoSock /\ dialer'.sock \in open'
    BY <1>1, <1>2 DEF SocketInv, TypeOK
  <2> QED BY <1>1, <2>1 DEF SocketInv
<1>4. SocketsAccounted'
  BY <1>1, <1>2 DEF SocketsAccounted
<1> QED BY <1>3, <1>4, Zenon

(* dial installs the new socket, or closes it on a closed path. *)
LEMMA InstallSockets ==
  ASSUME TypeOK, SocketInv, SocketsAccounted, Install
  PROVE  SocketInv' /\ SocketsAccounted'
<1>1. /\ dialer.path \in Paths /\ dialer.pc = "dialed" /\ dialer.sock \in open
      /\ dialer.sock # NoSock /\ dialer.sock \in Nat /\ dialer \in Dialers
      /\ \A p \in Paths : conn[p] # dialer.sock
      /\ conn \in [Paths -> Nat] /\ nextSock \in Nat /\ NoSock \notin open
  BY DEF Install, TypeOK, SocketInv, Dialers
<1>2. CASE closed[dialer.path]
  <2>1. open' = open \ {dialer.sock} /\ dialer'.pc = "idle" /\ dialer'.sock = NoSock
        /\ UNCHANGED <<conn, closed, nextSock, ctxDone>>
    BY <1>2 DEF Install, Idle
  <2>2. SocketInv'
    <3>1. NoSock < nextSock /\ \A k \in open' : k < nextSock'
      BY <1>1, <2>1 DEF SocketInv, TypeOK, NoSock
    <3> QED BY <2>1, <3>1 DEF SocketInv
  <2>3. SocketsAccounted'
    BY <1>1, <2>1 DEF SocketsAccounted
  <2> QED BY <2>2, <2>3
<1>3. CASE ~closed[dialer.path]
  <2> DEFINE old == conn[dialer.path]
  <2>1. /\ conn' = [conn EXCEPT ![dialer.path] = dialer.sock]
        /\ dialer'.pc = "swapped" /\ dialer'.sock = old
        /\ UNCHANGED <<open, closed, nextSock, ctxDone>>
    BY <1>1, <1>3, Zenon DEF Install, Dialers
  <2>2. old # NoSock /\ old \in Nat /\ old < nextSock /\ dialer.sock < nextSock
    BY <1>1, <1>3 DEF SocketInv
  <2>3. \A q \in Paths \ {dialer.path} : conn'[q] = conn[q] /\ conn[q] # old
    BY <1>1, <2>1, <2>2 DEF SocketInv
  <2>4. conn'[dialer.path] = dialer.sock
    BY <1>1, <2>1
  <2> HIDE DEF old
  <2>5. \A p, q \in Paths : (conn'[p] = conn'[q] /\ conn'[p] # NoSock) => p = q
    BY <1>1, <2>3, <2>4 DEF SocketInv
  <2>6. \A p \in Paths : conn'[p] # old
    BY <1>1, <2>3, <2>4 DEF old
  <2>7. \A p \in Paths : (closed'[p] <=> conn'[p] = NoSock) /\ conn'[p] < nextSock'
    BY <1>1, <1>3, <2>1, <2>2, <2>3, <2>4 DEF SocketInv
  <2>8. SocketInv'
    BY <2>1, <2>2, <2>5, <2>6, <2>7 DEF SocketInv
  <2>9. open' \subseteq {conn'[p] : p \in Paths} \union {dialer'.sock}
    <3> SUFFICES ASSUME NEW x \in open, x # old PROVE \E p \in Paths : conn'[p] = x
      BY <2>1
    <3>1. CASE x = dialer.sock
      BY <1>1, <2>4, <3>1
    <3>2. CASE x # dialer.sock
      <4>1. PICK p \in Paths : conn[p] = x
        BY <3>2 DEF SocketsAccounted
      <4> QED BY <2>3, <4>1 DEF old
    <3> QED BY <3>1, <3>2
  <2>10. \A p \in Paths : conn'[p] # NoSock => conn'[p] \in open'
    BY <1>1, <2>1, <2>3, <2>4 DEF SocketsAccounted
  <2> QED BY <2>1, <2>8, <2>9, <2>10 DEF SocketsAccounted
<1> QED BY <1>2, <1>3

(* dial closes the socket it has replaced. *)
LEMMA CloseOldSockets ==
  ASSUME TypeOK, SocketInv, SocketsAccounted, CloseOld
  PROVE  SocketInv' /\ SocketsAccounted'
<1>1. /\ open' = open \ {dialer.sock}
      /\ dialer'.pc \in {"clear", "idle"} /\ dialer'.sock = NoSock
      /\ UNCHANGED <<conn, closed, nextSock, ctxDone>>
  BY DEF CloseOld, Idle, TypeOK, Dialers
<1>2. dialer.sock # NoSock /\ \A p \in Paths : conn[p] # dialer.sock
  BY DEF CloseOld, SocketInv
<1>3. nextSock \in Nat \ {NoSock} /\ NoSock \notin open
  BY Zenon DEF TypeOK
<1>4. SocketInv'
  <2>1. NoSock < nextSock /\ \A k \in open' : k < nextSock'
    BY <1>1, <1>3 DEF SocketInv, NoSock
  <2> QED BY <1>1, <2>1 DEF SocketInv
<1>5. SocketsAccounted'
  BY <1>1, <1>2, <1>3 DEF SocketsAccounted
<1> QED BY <1>4, <1>5

(* A write error takes the registration and no socket. *)
LEMMA UnregisterSockets ==
  ASSUME TypeOK, SocketInv, SocketsAccounted, Unregister
  PROVE  SocketInv' /\ SocketsAccounted'
<1>1. dialer.sock = NoSock /\ dialer'.pc = "idle" /\ dialer'.sock = NoSock
      /\ UNCHANGED <<conn, closed, open, nextSock, ctxDone>>
  BY DEF Unregister, Idle, SocketInv, socketVars
<1> QED BY <1>1 DEF SocketInv, SocketsAccounted, Unregister

(* The probe loop ends with no socket in hand. *)
LEMMA LoopExitSockets ==
  ASSUME TypeOK, SocketInv, SocketsAccounted, LoopExit
  PROVE  SocketInv' /\ SocketsAccounted'
<1>1. dialer.sock = NoSock /\ dialer'.pc = "exited" /\ dialer'.sock = NoSock
      /\ UNCHANGED <<conn, closed, open, nextSock, ctxDone>>
  BY DEF LoopExit, Idle, SocketInv, socketVars
<1>2. SocketInv'
  BY <1>1 DEF SocketInv
<1>3. (\A p \in Paths : closed[p]) => open = {}
  BY <1>1 DEF SocketInv, SocketsAccounted, TypeOK
<1> QED BY <1>1, <1>2, <1>3 DEF SocketsAccounted

(* Path.close closes the socket of the path. *)
LEMMA ClosePathSockets ==
  ASSUME TypeOK, SocketInv, SocketsAccounted, NEW p \in Paths, ClosePath(p)
  PROVE  SocketInv' /\ SocketsAccounted'
<1>1. /\ closed' = [closed EXCEPT ![p] = TRUE]
      /\ open' = open \ {conn[p]}
      /\ conn' = [conn EXCEPT ![p] = NoSock]
      /\ ctxDone /\ UNCHANGED <<nextSock, dialer, ctxDone>>
  BY DEF ClosePath
<1>2. conn \in [Paths -> Nat] /\ closed \in [Paths -> BOOLEAN] /\ NoSock \notin open
      /\ nextSock \in Nat \ {NoSock}
  BY Zenon DEF TypeOK
<1>3. conn'[p] = NoSock /\ closed'[p]
      /\ \A q \in Paths \ {p} : conn'[q] = conn[q] /\ closed'[q] = closed[q]
  BY <1>1, <1>2
<1>4. conn[p] # NoSock /\ \A q \in Paths \ {p} : conn[q] # conn[p]
  BY DEF SocketInv, ClosePath
<1>5. dialer.sock # conn[p]
  BY <1>4 DEF SocketInv
<1>6. SocketInv'
  <2>1. NoSock < nextSock /\ \A k \in open' : k < nextSock'
    BY <1>1, <1>2 DEF SocketInv, NoSock
  <2>2. \A q \in Paths : conn'[q] < nextSock' /\ (closed'[q] <=> conn'[q] = NoSock)
    BY <1>1, <1>3, <2>1 DEF SocketInv
  <2>3. \A q, r \in Paths : (conn'[q] = conn'[r] /\ conn'[q] # NoSock) => q = r
    BY <1>3 DEF SocketInv
  <2>4. dialer'.sock # NoSock => \A q \in Paths : conn'[q] # dialer'.sock
    BY <1>1, <1>3 DEF SocketInv
  <2>5. dialer'.pc = "dialed" => dialer'.sock \in open'
    BY <1>1, <1>5 DEF SocketInv
  <2> QED BY <1>1, <2>1, <2>2, <2>3, <2>4, <2>5 DEF SocketInv
<1>7. open' \subseteq {conn'[q] : q \in Paths} \union {dialer'.sock}
  <2> SUFFICES ASSUME NEW x \in open, x # conn[p], x # dialer.sock
               PROVE  \E q \in Paths : conn'[q] = x
    BY <1>1
  <2>1. PICK q \in Paths : conn[q] = x
    BY DEF SocketsAccounted
  <2> QED BY <1>3, <2>1
<1>8. \A q \in Paths : conn'[q] # NoSock => conn'[q] \in open'
  BY <1>1, <1>3, <1>4 DEF SocketsAccounted
<1>9. (dialer'.pc = "exited" /\ \A q \in Paths : closed'[q]) => open' = {}
  BY <1>1, <1>2, <1>6, <1>7 DEF SocketInv
<1> QED BY <1>6, <1>7, <1>8, <1>9 DEF SocketsAccounted

(* Every step keeps the sockets accounted for. *)
LEMMA NextSockets ==
  ASSUME TypeOK, SocketInv, SocketsAccounted, [Next]_vars
  PROVE  SocketInv' /\ SocketsAccounted'
<1>1. CASE ProbeLoop
  BY <1>1, DialSockets, InstallSockets, CloseOldSockets, UnregisterSockets, LoopExitSockets
     DEF ProbeLoop
<1>2. ASSUME NEW p \in Paths, ReaderStep(p) \/ RxHelloAck(p) \/ RxRetry(p)
      PROVE  SocketInv' /\ SocketsAccounted'
  <2>1. UNCHANGED <<socketVars, dialer, ctxDone>>
    BY <1>2 DEF ReaderStep, RxHelloAck, RxRetry, RxGetConn, RxError, RxRegister, RxTake, RxSend,
                RxHold, RxSent
  <2> QED BY <2>1, SocketsKept
<1>3. ASSUME NEW ct \in Packets, Send(ct) \/ Hold(ct) PROVE SocketInv' /\ SocketsAccounted'
  <2>1. UNCHANGED <<socketVars, dialer, ctxDone>>
    BY <1>3, Zenon DEF Send, Hold
  <2> QED BY <2>1, SocketsKept
<1>4. CASE Cancel
  BY <1>4 DEF Cancel, SocketInv, SocketsAccounted, socketVars
<1>5. CASE UNCHANGED vars
  BY <1>5, SocketsKept DEF vars, socketVars
<1> QED BY <1>1, <1>2, <1>3, <1>4, <1>5, ClosePathSockets DEF Next

----------------------------------------------------------------------------
(* The readers. *)

(* A reader whose socket was closed under it has lost it to a redial, or   *)
(* to Close: a path's own socket is open.                                  *)
LEMMA NextReaders ==
  ASSUME IInv, [Next]_vars
  PROVE  ReaderInv' /\ ReaderStays'
<1> USE DEF IInv
<1>0. reader \in [Paths -> Readers] /\ staged \in [Paths -> Seq(Packets)]
  BY DEF TypeOK
<1>1. ASSUME NEW p \in Paths, RxGetConn(p) PROVE ReaderInv' /\ ReaderStays'
  <2>1. CASE conn[p] = NoSock
    <3>1. Exit(p) /\ UNCHANGED <<staged, ctxDone>> /\ At(p, "top") /\ ctxDone
      BY <1>1, <2>1 DEF RxGetConn, packetVars, SocketInv
    <3> QED BY <1>0, <3>1, ReaderMoves, Zenon DEF ReaderInv, ReaderStays, At
  <2>2. CASE conn[p] # NoSock
    <3>1. /\ reader' = [reader EXCEPT ![p] = [pc |-> "reading", sock |-> conn[p]]]
          /\ UNCHANGED <<staged, ctxDone>> /\ At(p, "top")
      BY <1>1, <2>2 DEF RxGetConn, packetVars
    <3> QED BY <1>0, <2>2, <3>1, Zenon DEF ReaderInv, ReaderStays, At
  <2> QED BY <2>1, <2>2
<1>2. ASSUME NEW p \in Paths, RxHelloAck(p) PROVE ReaderInv' /\ ReaderStays'
  <2>1. GoTo(p, "acked") /\ UNCHANGED <<staged, ctxDone>> /\ At(p, "reading")
    BY <1>2 DEF RxHelloAck, packetVars
  <2> QED BY <1>0, <2>1, ReaderMoves, ZenonT(30) DEF ReaderPcs, ReaderInv, ReaderStays, At
<1>3. ASSUME NEW p \in Paths, RxError(p) PROVE ReaderInv' /\ ReaderStays'
  <2>1. At(p, "reading") /\ UNCHANGED <<staged, ctxDone>>
    BY <1>3 DEF RxError, packetVars
  <2>2. CASE ctxDone
    <3>1. Exit(p) \/ Top(p)
      BY <1>3 DEF RxError
    <3> QED BY <1>0, <2>1, <2>2, <3>1, ReaderMoves DEF ReaderInv, ReaderStays, At
  <2>3. CASE ~ctxDone
    <3>1. conn[p] # reader[p].sock
      BY <1>3, <2>1 DEF RxError, ReaderInv, SocketsAccounted
    <3>2. Top(p)
      BY <1>3, <2>3, <3>1 DEF RxError
    <3> QED BY <1>0, <2>1, <3>2, ReaderMoves, ZenonT(30) DEF ReaderInv, ReaderStays, At
  <2> QED BY <2>2, <2>3
<1>13. ASSUME NEW p \in Paths, RxRetry(p) PROVE ReaderInv' /\ ReaderStays'
  <2>1. At(p, "reading") /\ UNCHANGED <<staged, ctxDone>>
    BY <1>13, Zenon DEF RxRetry, packetVars
  <2>2. (ctxDone /\ Exit(p)) \/ (~ctxDone /\ Top(p))
    BY <1>13, Zenon DEF RxRetry
  <2> QED BY <1>0, <2>1, <2>2, ReaderMoves, ZenonT(30) DEF ReaderInv, ReaderStays, At
<1>4. ASSUME NEW p \in Paths, RxRegister(p) PROVE ReaderInv' /\ ReaderStays'
  <2>1. (Top(p) \/ GoTo(p, "flush")) /\ UNCHANGED <<staged, ctxDone>> /\ At(p, "acked")
    BY <1>4 DEF RxRegister, packetVars
  <2> QED BY <1>0, <2>1, ReaderMoves, ZenonT(30) DEF ReaderPcs, ReaderInv, ReaderStays, At
<1>5. ASSUME NEW p \in Paths, RxTake(p) PROVE ReaderInv' /\ ReaderStays'
  <2>1. /\ GoTo(p, "sending") /\ UNCHANGED ctxDone
        /\ staged' = [staged EXCEPT ![p] = pending]
    BY <1>5 DEF RxTake
  <2> QED BY <1>0, <2>1, ReaderMoves DEF ReaderPcs, ReaderInv, ReaderStays, At
<1>6. ASSUME NEW p \in Paths, RxSend(p) PROVE ReaderInv' /\ ReaderStays'
  <2>1. At(p, "sending") /\ staged[p] # <<>> /\ UNCHANGED ctxDone
    BY <1>6 DEF RxSend
  <2>2. CASE Sendable = {}
    <3>1. GoTo(p, "holding") /\ UNCHANGED staged
      BY <1>6, <2>2 DEF RxSend
    <3> QED BY <1>0, <2>1, <3>1, ReaderMoves, ZenonT(30) DEF ReaderPcs, ReaderInv, ReaderStays, At
  <2>3. CASE Sendable # {}
    <3>1. staged' = [staged EXCEPT ![p] = Tail(@)] /\ UNCHANGED reader
      BY <1>6, <2>3 DEF RxSend
    <3> QED BY <1>0, <2>1, <3>1 DEF ReaderInv, ReaderStays, At
  <2> QED BY <2>2, <2>3
<1>7. ASSUME NEW p \in Paths, RxHold(p) PROVE ReaderInv' /\ ReaderStays'
  <2>1. /\ GoTo(p, "sending") /\ UNCHANGED ctxDone
        /\ staged' = [staged EXCEPT ![p] = Tail(@)]
    BY <1>7 DEF RxHold
  <2>2. reader'[p].pc = "sending" /\ \A q \in Paths \ {p} : reader'[q] = reader[q]
    BY <1>0, <2>1, ReaderMoves DEF ReaderPcs
  <2>3. \A q \in Paths \ {p} : staged'[q] = staged[q]
    BY <1>0, <2>1, Zenon
  <2> QED BY <2>1, <2>2, <2>3 DEF ReaderInv, ReaderStays, At
<1>8. ASSUME NEW p \in Paths, RxSent(p) PROVE ReaderInv' /\ ReaderStays'
  <2>1. Top(p) /\ UNCHANGED <<staged, ctxDone>> /\ staged[p] = <<>>
    BY <1>8 DEF RxSent, packetVars
  <2>2. reader'[p].pc = "top" /\ \A q \in Paths \ {p} : reader'[q] = reader[q]
    BY <1>0, <2>1, ReaderMoves, Zenon
  <2> QED BY <2>1, <2>2, Zenon DEF ReaderInv, ReaderStays, At
<1>9. ASSUME UNCHANGED <<reader, staged>>, ctxDone => ctxDone' PROVE ReaderInv' /\ ReaderStays'
  BY <1>9 DEF ReaderInv, ReaderStays, At
<1>10. CASE ProbeLoop \/ Cancel \/ UNCHANGED vars
  BY <1>9, <1>10 DEF ProbeLoop, Dial, Install, CloseOld, Unregister, LoopExit, Cancel, vars, packetVars
<1>11. ASSUME NEW p \in Paths, ClosePath(p) PROVE ReaderInv' /\ ReaderStays'
  BY <1>9, <1>11 DEF ClosePath, packetVars
<1>12. ASSUME NEW ct \in Packets, Send(ct) \/ Hold(ct) PROVE ReaderInv' /\ ReaderStays'
  BY <1>9, <1>12 DEF Send, Hold
<1> QED BY <1>1, <1>2, <1>3, <1>4, <1>5, <1>6, <1>7, <1>8, <1>10, <1>11, <1>12, <1>13 DEF Next, ReaderStep

----------------------------------------------------------------------------
(* The packets. *)

(* A step that leaves the queues alone. *)
LEMMA StagedKept == ASSUME StagedOnce, UNCHANGED <<pending, staged, status>> PROVE StagedOnce'
BY DEF StagedOnce

(* holdPending of a packet that is nowhere else. *)
LEMMA HoldStaged ==
  ASSUME TypeOK, NEW ct \in Packets, HoldPending(ct), UNCHANGED staged, StagedOnce,
         status[ct] # "waiting"
  PROVE  StagedOnce'
<1>1. ct \notin Range(pending) /\ \A p \in Paths : ct \notin Range(staged[p])
  BY DEF StagedOnce
<1>2. CASE Len(pending) >= PendingCap
  <2>1. UNCHANGED <<pending, staged>> /\ status' = [status EXCEPT ![ct] = "dropped"]
    BY <1>2, Zenon DEF HoldPending
  <2> QED BY <1>1, <2>1 DEF StagedOnce, TypeOK
<1>3. CASE ~(Len(pending) >= PendingCap)
  <2>1. pending' = Append(pending, ct) /\ status' = [status EXCEPT ![ct] = "waiting"]
    BY <1>3 DEF HoldPending
  <2>2. pending \in Seq(Packets)
    BY DEF TypeOK
  <2>3. \A x \in Packets : x \in Range(pending') <=> x \in Range(pending) \/ x = ct
    BY <2>1, <2>2, RangeAppend
  <2>4. IsInjective(pending')
    BY <1>1, <2>1, <2>2, RangeAppend DEF StagedOnce
  <2>5. \A x \in Packets : status'[x] = "waiting" <=> status[x] = "waiting" \/ x = ct
    BY <2>1, Zenon DEF TypeOK
  <2> QED BY <1>1, <2>3, <2>4, <2>5 DEF StagedOnce
<1> QED BY <1>2, <1>3

(* The flush of p moves the whole queue to a reader that has nothing. *)
LEMMA TakeStaged ==
  ASSUME TypeOK, ReaderInv, StagedOnce, NEW p \in Paths, RxTake(p)
  PROVE  StagedOnce'
<1>1. staged[p] = <<>> /\ staged' = [staged EXCEPT ![p] = pending] /\ pending' = <<>>
      /\ UNCHANGED status
  BY DEF RxTake, ReaderInv, At
<1>2. staged'[p] = pending /\ \A q \in Paths \ {p} : staged'[q] = staged[q]
  BY <1>1 DEF TypeOK
<1>3. \A x : x \notin Range(pending') /\ x \notin Range(staged[p])
  BY <1>1 DEF Range
<1>4. IsInjective(pending')
  BY <1>1 DEF IsInjective
<1>5. \A ct \in Packets : status'[ct] = "waiting" <=>
         ct \in Range(pending') \/ \E q \in Paths : ct \in Range(staged'[q])
  BY <1>1, <1>2, <1>3, Zenon DEF StagedOnce
<1>6. \A q \in Paths : IsInjective(staged'[q])
  BY <1>2 DEF StagedOnce
<1>7. ASSUME NEW q \in Paths, NEW ct \in Packets, ct \in Range(staged'[q])
      PROVE  \A r \in Paths \ {q} : ct \notin Range(staged'[r])
  BY <1>2, <1>3, <1>7, Zenon DEF StagedOnce
<1> QED BY <1>3, <1>4, <1>5, <1>6, <1>7, Zenon DEF StagedOnce

(* p's reader sends the first packet it has staged. *)
LEMMA SendStaged ==
  ASSUME TypeOK, StagedOnce, NEW p \in Paths, staged[p] # <<>>,
         staged' = [staged EXCEPT ![p] = Tail(@)], UNCHANGED pending,
         NEW st, st # "waiting", status' = [status EXCEPT ![Head(staged[p])] = st]
  PROVE  StagedOnce'
<1> DEFINE ct == Head(staged[p])
<1>1. staged[p] \in Seq(Packets)
  BY DEF TypeOK
<1>2. /\ ct \in Packets /\ ct \in Range(staged[p])
      /\ \A x : x \in Range(Tail(staged[p])) => x \in Range(staged[p])
      /\ \A x : x \in Range(staged[p]) => x \in Range(Tail(staged[p])) \/ x = ct
      /\ IsInjective(staged[p]) => IsInjective(Tail(staged[p])) /\ ct \notin Range(Tail(staged[p]))
  BY <1>1, RangeTail
<1> HIDE DEF ct
<1>3. staged'[p] = Tail(staged[p]) /\ \A q \in Paths \ {p} : staged'[q] = staged[q]
  BY DEF TypeOK
<1>4. status'[ct] = st /\ \A x \in Packets \ {ct} : status'[x] = status[x]
  BY <1>2, Zenon DEF TypeOK, ct
<1>5. \A x \in Packets, q \in Paths :
        x \in Range(staged'[q]) <=> x \in Range(staged[q]) /\ x # ct
  BY <1>2, <1>3 DEF StagedOnce
<1>6. \A q \in Paths : IsInjective(staged'[q])
  BY <1>2, <1>3, Zenon DEF StagedOnce
<1>7. ct \notin Range(pending)
  BY <1>2 DEF StagedOnce
<1>8. \A x \in Packets : status'[x] = "waiting" <=>
         x \in Range(pending') \/ \E q \in Paths : x \in Range(staged'[q])
  BY <1>4, <1>5, <1>7 DEF StagedOnce
<1> QED BY <1>5, <1>6, <1>8 DEF StagedOnce

(* Every step keeps a waiting packet in one place. *)
LEMMA NextStaged == ASSUME IInv, [Next]_vars PROVE StagedOnce'
<1> USE DEF IInv
<1>1. ASSUME NEW p \in Paths, RxTake(p) PROVE StagedOnce'
  BY <1>1, TakeStaged
<1>2. ASSUME NEW p \in Paths, RxSend(p) PROVE StagedOnce'
  <2>1. CASE Sendable = {}
    BY <1>2, <2>1, StagedKept DEF RxSend
  <2>2. CASE Sendable # {}
    <3>1. /\ staged[p] # <<>> /\ staged' = [staged EXCEPT ![p] = Tail(@)] /\ UNCHANGED pending
          /\ status' = [status EXCEPT ![Head(staged[p])] = "written"]
      BY <1>2, <2>2 DEF RxSend, Written
    <3> QED BY <3>1, SendStaged, Zenon
  <2> QED BY <2>1, <2>2
<1>3. ASSUME NEW p \in Paths, RxHold(p) PROVE StagedOnce'
  <2> DEFINE ct == Head(staged[p])
  <2>1. staged[p] # <<>> /\ staged[p] \in Seq(Packets) /\ staged' = [staged EXCEPT ![p] = Tail(@)]
    BY <1>3 DEF RxHold, ReaderInv, TypeOK
  <2>2. HoldPending(ct)
    BY <1>3 DEF RxHold
  <2>3. CASE Len(pending) >= PendingCap
    <3>1. UNCHANGED pending /\ status' = [status EXCEPT ![Head(staged[p])] = "dropped"]
      BY <2>2, <2>3 DEF HoldPending
    <3> QED BY <2>1, <3>1, SendStaged, Zenon
  <2>4. CASE ~(Len(pending) >= PendingCap)
    <3>1. pending' = Append(pending, ct) /\ status' = [status EXCEPT ![ct] = "waiting"]
      BY <2>2, <2>4 DEF HoldPending
    <3>2. /\ ct \in Packets /\ ct \in Range(staged[p])
          /\ \A x : x \in Range(Tail(staged[p])) => x \in Range(staged[p])
          /\ \A x : x \in Range(staged[p]) => x \in Range(Tail(staged[p])) \/ x = ct
          /\ IsInjective(staged[p]) => IsInjective(Tail(staged[p])) /\ ct \notin Range(Tail(staged[p]))
      BY <2>1, RangeTail
    <3> HIDE DEF ct
    <3>3. status[ct] = "waiting" /\ status' = status
      <4>1. status[ct] = "waiting"
        BY <3>2 DEF StagedOnce
      <4> QED BY <3>1, <3>2, <4>1 DEF TypeOK
    <3>4. staged'[p] = Tail(staged[p]) /\ \A q \in Paths \ {p} : staged'[q] = staged[q]
      BY <2>1 DEF TypeOK
    <3>5. pending \in Seq(Packets) /\ ct \notin Range(pending)
      BY <3>2 DEF TypeOK, StagedOnce
    <3>6. \A x \in Packets : x \in Range(pending') <=> x \in Range(pending) \/ x = ct
      BY <3>1, <3>2, <3>5, RangeAppend
    <3>7. IsInjective(pending')
      BY <3>1, <3>2, <3>5, RangeAppend, Zenon DEF StagedOnce
    <3>8. \A x \in Packets, q \in Paths :
            x \in Range(staged'[q]) <=> x \in Range(staged[q]) /\ x # ct
      BY <3>2, <3>4 DEF StagedOnce
    <3>9. \A q \in Paths : IsInjective(staged'[q])
      BY <3>2, <3>4, Zenon DEF StagedOnce
    <3>10. \A x \in Packets : status'[x] = "waiting" <=>
             x \in Range(pending') \/ \E q \in Paths : x \in Range(staged'[q])
      BY <3>3, <3>6, <3>8, Zenon DEF StagedOnce
    <3> QED BY <3>6, <3>7, <3>8, <3>9, <3>10 DEF StagedOnce
  <2> QED BY <2>3, <2>4
<1>4. ASSUME NEW ct \in Packets, Send(ct) PROVE StagedOnce'
  <2>1. PICK st \in {"holding", "written"} : status' = [status EXCEPT ![ct] = st]
    BY <1>4 DEF Send, Written
  <2>2. status[ct] # "waiting" /\ UNCHANGED <<pending, staged>>
    BY <1>4 DEF Send
  <2>3. \A x \in Packets : status'[x] = "waiting" <=> status[x] = "waiting"
    BY <2>1, <2>2 DEF TypeOK
  <2> QED BY <2>2, <2>3 DEF StagedOnce
<1>5. ASSUME NEW ct \in Packets, Hold(ct) PROVE StagedOnce'
  BY <1>5, HoldStaged DEF Hold
<1>6. CASE ProbeLoop \/ Cancel \/ UNCHANGED vars
  BY <1>6, StagedKept, Zenon
     DEF ProbeLoop, Dial, Install, CloseOld, Unregister, LoopExit, Cancel, vars, packetVars
<1>7. ASSUME NEW p \in Paths,
             \/ ClosePath(p) \/ RxHelloAck(p) \/ RxRetry(p) \/ RxGetConn(p) \/ RxError(p)
             \/ RxRegister(p) \/ RxSent(p)
      PROVE  StagedOnce'
  BY <1>7, StagedKept, Zenon
     DEF ClosePath, RxHelloAck, RxRetry, RxGetConn, RxError, RxRegister, RxSent, packetVars
<1> QED BY <1>1, <1>2, <1>3, <1>4, <1>5, <1>6, <1>7 DEF Next, ReaderStep

(* A packet joins the queue late, or while no path is registered; a path   *)
(* becomes registered by a reader that goes on to flush.                   *)
LEMMA HoldLate ==
  ASSUME TypeOK, OnlyLateStuck, NEW ct \in Packets, HoldPending(ct), UNCHANGED registered,
         \A q \in Paths : At(q, "flush") => At(q, "flush")'
  PROVE  OnlyLateStuck'
<1>1. CASE Len(pending) >= PendingCap
  BY <1>1 DEF HoldPending, OnlyLateStuck, Sendable
<1>2. CASE ~(Len(pending) >= PendingCap)
  <2>1. /\ pending' = Append(pending, ct)
        /\ late' = IF Sendable # {} THEN late \union {ct} ELSE late \ {ct}
        /\ pending \in Seq(Packets)
    BY <1>2 DEF HoldPending, TypeOK
  <2>2. \A x \in Packets : x \in Range(pending') <=> x \in Range(pending) \/ x = ct
    BY <2>1, RangeAppend
  <2>3. Sendable' = Sendable
    BY DEF Sendable
  <2> SUFFICES ASSUME NEW x \in Packets, x \in Range(pending'), x \notin late', Sendable # {}
               PROVE  \E p \in Paths : At(p, "flush")'
    BY <2>3 DEF OnlyLateStuck
  <2>4. x # ct /\ x \notin late /\ x \in Range(pending)
    BY <2>1, <2>2
  <2> QED BY <2>4 DEF OnlyLateStuck
<1> QED BY <1>1, <1>2

(* Every step keeps OnlyLateStuck. *)
LEMMA NextLate == ASSUME IInv, [Next]_vars PROVE OnlyLateStuck'
<1> USE DEF IInv
<1>0. reader \in [Paths -> Readers] /\ registered \in [Paths -> BOOLEAN]
  BY DEF TypeOK
<1>1. ASSUME UNCHANGED <<pending, late>>, Sendable' \subseteq Sendable,
             \A q \in Paths : At(q, "flush") => At(q, "flush")'
      PROVE  OnlyLateStuck'
  BY <1>1 DEF OnlyLateStuck
<1>2. ASSUME NEW p \in Paths,
             RxGetConn(p) \/ RxHelloAck(p) \/ RxRetry(p) \/ RxError(p) \/ RxSend(p) \/ RxSent(p)
      PROVE  OnlyLateStuck'
  <2>1. UNCHANGED <<registered, pending, late>> /\ ~At(p, "flush")
    BY <1>2, Zenon DEF RxGetConn, RxHelloAck, RxRetry, RxError, RxSend, RxSent, packetVars, At
  <2>2. \A q \in Paths \ {p} : reader'[q] = reader[q]
    BY <1>0, <1>2, ReaderMoves
    DEF RxGetConn, RxHelloAck, RxRetry, RxError, RxSend, RxSent, ReaderPcs
  <2> QED BY <1>1, <2>1, <2>2, Zenon DEF At, Sendable
<1>3. ASSUME NEW p \in Paths, RxRegister(p) PROVE OnlyLateStuck'
  <2>1. UNCHANGED <<pending, late>> /\ registered' = [registered EXCEPT ![p] = TRUE] /\ At(p, "acked")
    BY <1>3 DEF RxRegister, packetVars
  <2>2. CASE registered[p]
    <3>1. Top(p) /\ registered' = registered
      BY <1>0, <1>3, <2>1, <2>2, Zenon DEF RxRegister
    <3>2. \A q \in Paths : At(q, "flush") => At(q, "flush")'
      BY <1>0, <2>1, <3>1, ReaderMoves DEF At
    <3> QED BY <1>1, <2>1, <3>1, <3>2 DEF Sendable
  <2>3. CASE ~registered[p]
    <3>1. GoTo(p, "flush")
      BY <1>3, <2>3 DEF RxRegister
    <3>2. At(p, "flush")'
      BY <1>0, <3>1, ReaderMoves, Zenon DEF At, ReaderPcs
    <3> QED BY <3>2 DEF OnlyLateStuck
  <2> QED BY <2>2, <2>3
<1>4. ASSUME NEW p \in Paths, RxTake(p) PROVE OnlyLateStuck'
  BY <1>4 DEF RxTake, OnlyLateStuck, Range
<1>5. ASSUME NEW p \in Paths, RxHold(p) PROVE OnlyLateStuck'
  <2>1. HoldPending(Head(staged[p])) /\ UNCHANGED registered /\ At(p, "holding") /\ GoTo(p, "sending")
    BY <1>5 DEF RxHold
  <2>2. staged[p] # <<>> /\ staged[p] \in Seq(Packets)
    BY <2>1 DEF ReaderInv, TypeOK
  <2>3. Head(staged[p]) \in Packets
    BY <2>2, RangeTail
  <2>4. \A q \in Paths : At(q, "flush") => At(q, "flush")'
    BY <1>0, <2>1, ReaderMoves DEF At, ReaderPcs
  <2>5. TypeOK /\ OnlyLateStuck
    OBVIOUS
  <2> QED BY <2>1, <2>3, <2>4, <2>5, HoldLate
<1>6. ASSUME NEW ct \in Packets, Hold(ct) PROVE OnlyLateStuck'
  <2>1. HoldPending(ct) /\ UNCHANGED <<registered, reader>>
    BY <1>6 DEF Hold
  <2>2. TypeOK /\ OnlyLateStuck /\ \A q \in Paths : At(q, "flush") => At(q, "flush")'
    BY <2>1 DEF At
  <2> QED BY <2>1, <2>2, HoldLate
<1>7. CASE Unregister
  <2>1. UNCHANGED <<pending, late, reader>> /\ registered' = [registered EXCEPT ![dialer.path] = FALSE]
    BY <1>7 DEF Unregister, packetVars
  <2> QED BY <1>0, <1>1, <2>1 DEF At, Sendable
<1>8. ASSUME UNCHANGED <<pending, late, reader, registered>> PROVE OnlyLateStuck'
  BY <1>1, <1>8 DEF At, Sendable
<1>9. CASE (\E p \in Paths : Dial(p)) \/ Install \/ CloseOld \/ LoopExit \/ Cancel \/ UNCHANGED vars
  BY <1>8, <1>9 DEF Dial, Install, CloseOld, LoopExit, Cancel, vars, packetVars
<1>10. ASSUME NEW p \in Paths, ClosePath(p) PROVE OnlyLateStuck'
  BY <1>8, <1>10 DEF ClosePath, packetVars
<1>11. ASSUME NEW ct \in Packets, Send(ct) PROVE OnlyLateStuck'
  BY <1>8, <1>11 DEF Send
<1> QED BY <1>2, <1>3, <1>4, <1>5, <1>6, <1>7, <1>9, <1>10, <1>11 DEF Next, ProbeLoop, ReaderStep

----------------------------------------------------------------------------
(* The invariant holds in every behaviour. *)
LEMMA InvariantCorrect == Spec => []IInv
<1>1. IInv /\ [Next]_vars => IInv'
  <2> SUFFICES ASSUME IInv, [Next]_vars PROVE IInv'
    OBVIOUS
  <2>1. TypeOK'
    BY NextType DEF IInv
  <2>2. SocketInv' /\ SocketsAccounted'
    BY NextSockets DEF IInv
  <2> QED BY <2>1, <2>2, NextReaders, NextStaged, NextLate DEF IInv
<1> QED BY <1>1, InitIInv, PTL DEF Spec

(* Redials, failed redials and Close may meet in any order: no socket      *)
(* leaks, none is closed under its path, and none is open once Close and   *)
(* the probe loop are through (dial and Path.close, client.go).            *)
THEOREM NoSocketLeaks == Spec => []SocketsAccounted
<1>1. IInv => SocketsAccounted
  BY DEF IInv
<1> QED BY <1>1, InvariantCorrect, PTL

(* A path never loses its reader to a redial (clientRxLoop). *)
THEOREM ReaderSurvives == Spec => []ReaderStays
<1>1. IInv => ReaderStays
  BY DEF IInv
<1> QED BY <1>1, InvariantCorrect, PTL

(* holdPending and flushPending neither lose a packet nor hold it twice,   *)
(* whichever readers flush at once.                                        *)
THEOREM QueuedOnce == Spec => []StagedOnce
<1>1. IInv => StagedOnce
  BY DEF IInv
<1> QED BY <1>1, InvariantCorrect, PTL

(* A packet is left in the queue of a registered engine only by the one    *)
(* race between a sender and a registration (clientSend, flushPending).    *)
THEOREM OnlyRaceStrands == Spec => []OnlyLateStuck
<1>1. IInv => OnlyLateStuck
  BY DEF IInv
<1> QED BY <1>1, InvariantCorrect, PTL

----------------------------------------------------------------------------
(* The server's sessions.                                                  *)

(* What a handler knows of the pointer it holds, although it has let go of *)
(* server.mu: if the table still names that session, it does so under the  *)
(* id the datagram carried, and the session BYE has emptied is empty.      *)
HandlerInv ==
  rx.pc # "recv" =>
    /\ \A t \in SessionIds : table[t] = rx.sess => t = rx.id
    /\ rx.pc = "empty" => ~HasPath(rx.sess)

(* The inductive invariant. *)
SessInv == SessTypeOK /\ TableBuffersOpen /\ NoEmptySession /\ HandlerInv

(* There are as many session numbers as ids. *)
LEMMA ObjsFinite ==
  /\ Cardinality(SessionIds) \in Nat
  /\ IsFiniteSet(Objs) /\ Cardinality(Objs) = Cardinality(SessionIds)
  /\ Objs \subseteq Nat \ {None}
<1>1. Cardinality(SessionIds) \in Nat
  BY ServerAssumption, FS_CardinalityType
<1>2. /\ IsFiniteSet(1..Cardinality(SessionIds))
      /\ Cardinality(1..Cardinality(SessionIds)) =
           IF 1 > Cardinality(SessionIds) THEN 0 ELSE Cardinality(SessionIds) - 1 + 1
  BY <1>1, FS_Interval
<1> QED BY <1>1, <1>2 DEF Objs, None

(* A table with as many ids as there are values, one of them without a     *)
(* value, leaves a value unused.                                           *)
LEMMA UnusedValue ==
  ASSUME NEW S, IsFiniteSet(S), NEW V, IsFiniteSet(V), Cardinality(V) = Cardinality(S),
         NEW f, NEW s \in S, f[s] \notin V
  PROVE  \E v \in V : \A t \in S : f[t] # v
<1> SUFFICES ASSUME \A v \in V : \E t \in S : f[t] = v PROVE FALSE
  OBVIOUS
<1> DEFINE g == [v \in V |-> CHOOSE t \in S : f[t] = v]
           others == S \ {s}
<1>1. ASSUME NEW v \in V PROVE g[v] \in others /\ f[g[v]] = v
  <2>1. g[v] \in S /\ f[g[v]] = v
    OBVIOUS
  <2> QED BY <2>1
<1>2. g \in [V -> others]
  BY <1>1, Zenon
<1>3. /\ IsFiniteSet(others)
      /\ Cardinality(others) = Cardinality(S) - 1
      /\ Cardinality(S) \in Nat
  BY FS_RemoveElement, FS_CardinalityType
<1>4. Cardinality(others) < Cardinality(V)
  BY <1>3
<1> HIDE DEF g, others
<1>5. \E x, y \in V : x # y /\ g[x] = g[y]
  BY <1>2, <1>3, <1>4, FS_PigeonHole
<1> QED BY <1>1, <1>5

(* Pointers of sessions in the table are numbers of their own, so a HELLO  *)
(* with an unknown id finds an unused one.                                 *)
LEMMA NewSessionIsUnused ==
  ASSUME NEW s \in SessionIds, table[s] = None
  PROVE  NewSession \in Objs /\ \A t \in SessionIds : table[t] # NewSession
<1> DEFINE unused == Objs \ {table[t] : t \in SessionIds}
<1>1. unused # {}
  <2>1. table[s] \notin Objs
    BY ObjsFinite, Zenon
  <2>2. IsFiniteSet(SessionIds) /\ IsFiniteSet(Objs) /\ Cardinality(Objs) = Cardinality(SessionIds)
    BY ServerAssumption, ObjsFinite
  <2>3. \E o \in Objs : \A t \in SessionIds : table[t] # o
    BY <2>1, <2>2, UnusedValue
  <2> QED BY <2>3
<1>2. unused \in SUBSET Nat
  BY ObjsFinite
<1> HIDE DEF unused
<1>3. \E x \in unused : \A y \in unused : x <= y
  BY <1>1, <1>2, LeastNatural
<1>4. NewSession \in unused
  BY <1>3 DEF NewSession, Min, unused
<1> QED BY <1>4 DEF unused

----------------------------------------------------------------------------
(* The invariant holds for an empty table. *)
LEMMA InitSessInv == SessInit => SessInv
<1> SUFFICES ASSUME SessInit PROVE SessInv
  OBVIOUS
<1>1. SessTypeOK
  <2>1. Never \in 0..Never
    BY ServerAssumption DEF Never
  <2> QED BY <2>1 DEF SessInit, SessTypeOK, Waiting, None
<1>2. TableBuffersOpen /\ NoEmptySession /\ HandlerInv
  BY DEF SessInit, TableBuffersOpen, NoEmptySession, HandlerInv, Waiting
<1> QED BY <1>1, <1>2, Zenon DEF SessInv

(* A step that leaves the server alone. *)
LEMMA StutterSessInv == ASSUME SessInv, UNCHANGED sessVars PROVE SessInv'
<1>1. /\ table' = table /\ client' = client /\ addr' = addr
      /\ lastSeen' = lastSeen /\ shut' = shut /\ rx' = rx
  BY Zenon DEF sessVars
<1>2. SessTypeOK'
  BY <1>1, Zenon DEF SessInv, SessTypeOK
<1>3. TableBuffersOpen'
  BY <1>1, Zenon DEF SessInv, TableBuffersOpen
<1>4. NoEmptySession'
  BY <1>1, Zenon DEF SessInv, NoEmptySession, HasPath
<1>5. HandlerInv'
  BY <1>1, Zenon DEF SessInv, HandlerInv, HasPath
<1> QED BY <1>2, <1>3, <1>4, <1>5, Zenon DEF SessInv

(* A handler takes over a session that is in the table. *)
LEMMA HandleSessInv ==
  ASSUME SessInv, rx.pc = "recv",
         NEW k \in {"hello", "data", "probe", "ctrl", "bye"},
         NEW s \in SessionIds, NEW p \in PathIds, NEW a \in Addrs,
         table[s] # None, Handle(k, table[s], s, p, a),
         UNCHANGED <<table, client, addr, lastSeen, shut>>
  PROVE  SessInv'
<1>1. SessTypeOK'
  BY Zenon DEF SessInv, SessTypeOK, Handle
<1>2. TableBuffersOpen' /\ HandlerInv'
  BY ZenonT(30) DEF SessInv, TableBuffersOpen, HandlerInv, Handle
<1>3. NoEmptySession'
  BY ZenonT(30) DEF SessInv, NoEmptySession, HasPath
<1> QED BY <1>1, <1>2, <1>3, Zenon DEF SessInv

(* handleHello finds or makes the session. *)
LEMMA HelloSessInv ==
  ASSUME SessInv, NEW s \in SessionIds, NEW c \in ClientIds, NEW p \in PathIds,
         NEW a \in Addrs, Hello(s, c, p, a)
  PROVE  SessInv'
<1>1. CASE table[s] # None /\ client[table[s]] = c
  BY <1>1, HandleSessInv, ZenonT(30) DEF Hello
<1>2. CASE table[s] # None /\ client[table[s]] # c
  <2>1. UNCHANGED sessVars
    BY <1>2, Zenon DEF Hello
  <2> QED BY <2>1, StutterSessInv, Zenon
<1>3. CASE table[s] = None
  <2> DEFINE o == NewSession
  <2>1. o \in Objs /\ \A t \in SessionIds : table[t] # o
    BY <1>3, NewSessionIsUnused
  <2>2. o # None
    BY <2>1, ObjsFinite
  <2> HIDE DEF o
  <2>3. /\ rx.pc = "recv"
        /\ table' = [table EXCEPT ![s] = o]
        /\ client' = [client EXCEPT ![o] = c]
        /\ addr' = [addr EXCEPT ![o] = [q \in PathIds |-> NoAddr]]
        /\ lastSeen' = [lastSeen EXCEPT ![o] = Never]
        /\ shut' = [shut EXCEPT ![o] = FALSE]
        /\ rx' = [pc |-> "hello", sess |-> o, id |-> s, path |-> p, from |-> a]
    BY <1>3 DEF Hello, Handle, o
  <2>4. SessTypeOK'
    <3>1. Never \in 0..Never
      BY ServerAssumption DEF Never
    <3> QED BY <2>1, <2>3, <3>1 DEF SessInv, SessTypeOK
  <2>5. TableBuffersOpen'
    BY <2>1, <2>2, <2>3, Zenon DEF SessInv, SessTypeOK, TableBuffersOpen
  <2>6. NoEmptySession'
    <3>1. ASSUME NEW t \in SessionIds, t # s, table[t] # None PROVE HasPath(table[t])'
      BY <2>1, <2>3, <3>1, Zenon DEF SessInv, SessTypeOK, NoEmptySession, HasPath
    <3> QED BY <2>3, <3>1, Zenon DEF SessInv, SessTypeOK, NoEmptySession
  <2>7. HandlerInv'
    BY <2>1, <2>3 DEF SessInv, SessTypeOK, HandlerInv
  <2> QED BY <2>4, <2>5, <2>6, <2>7 DEF SessInv
<1> QED BY <1>1, <1>2, <1>3, Zenon

(* A handler looks its session up. *)
LEMMA LookupSessInv ==
  ASSUME SessInv, NEW k \in {"data", "probe", "ctrl", "bye"},
         NEW s \in SessionIds, NEW p \in PathIds, NEW a \in Addrs, Lookup(k, s, p, a)
  PROVE  SessInv'
BY HandleSessInv DEF Lookup

(* A path of the handler's session gets an address, and the handler is     *)
(* done: no session loses a path.                                          *)
LEMMA TouchPathSessInv ==
  ASSUME SessInv, rx.pc \in {"hello", "data", "probe"}, TouchPath,
         lastSeen' \in [Objs -> 0..Never], rx' = Waiting, UNCHANGED <<table, client, shut>>
  PROVE  SessInv'
<1>1. rx.sess \in Objs /\ rx.path \in PathIds /\ rx.from \in Addrs
  BY Zenon DEF SessInv, SessTypeOK
<1>2. SessTypeOK'
  BY <1>1, Zenon DEF SessInv, SessTypeOK, TouchPath, Waiting, None
<1>3. TableBuffersOpen' /\ HandlerInv'
  BY DEF SessInv, TableBuffersOpen, HandlerInv, Waiting
<1>4. ASSUME NEW o \in Objs, o = rx.sess PROVE HasPath(o)'
  BY <1>1, <1>4, ServerAssumption, Zenon DEF SessInv, SessTypeOK, TouchPath, HasPath
<1>5. ASSUME NEW o \in Objs, o # rx.sess, HasPath(o) PROVE HasPath(o)'
  BY <1>1, <1>5 DEF SessInv, SessTypeOK, TouchPath, HasPath
<1>6. NoEmptySession'
  <2> SUFFICES ASSUME NEW s \in SessionIds, NEW o \in Objs, table[s] = o PROVE HasPath(o)'
    BY DEF SessInv, SessTypeOK, NoEmptySession
  <2>1. CASE o = rx.sess
    BY <1>4, <2>1, Zenon
  <2>2. CASE o # rx.sess
    <3>1. o # None
      BY ObjsFinite
    <3> QED BY <1>5, <2>2, <3>1 DEF SessInv, NoEmptySession
  <2> QED BY <2>1, <2>2, Zenon
<1> QED BY <1>2, <1>3, <1>6 DEF SessInv

(* The rest of handleHello adds the path. *)
LEMMA HelloRestSessInv == ASSUME SessInv, HelloRest PROVE SessInv'
<1>1. lastSeen' \in [Objs -> 0..Never]
  BY ServerAssumption DEF HelloRest, SessInv, SessTypeOK, Never
<1> QED BY <1>1, TouchPathSessInv DEF HelloRest

(* The rest of the DATA handler. *)
LEMMA DataRestSessInv == ASSUME SessInv, DataRest PROVE SessInv'
<1>1. lastSeen' \in [Objs -> 0..Never]
  BY ServerAssumption DEF DataRest, SessInv, SessTypeOK, Never
<1> QED BY <1>1, TouchPathSessInv DEF DataRest

(* The rest of the PROBE handler. *)
LEMMA ProbeRestSessInv == ASSUME SessInv, ProbeRest PROVE SessInv'
<1>1. lastSeen' \in [Objs -> 0..Never]
  BY DEF ProbeRest, SessInv, SessTypeOK
<1> QED BY <1>1, TouchPathSessInv DEF ProbeRest

(* The rest of the handlers that leave the paths alone. *)
LEMMA CtrlRestSessInv == ASSUME SessInv, CtrlRest PROVE SessInv'
<1>1. SessTypeOK'
  BY Zenon DEF CtrlRest, SessInv, SessTypeOK, Waiting, None
<1>2. TableBuffersOpen' /\ HandlerInv'
  BY Zenon DEF CtrlRest, SessInv, TableBuffersOpen, HandlerInv, Waiting
<1>3. NoEmptySession'
  BY DEF CtrlRest, SessInv, NoEmptySession, HasPath
<1> QED BY <1>1, <1>2, <1>3, Zenon DEF SessInv

(* A path goes; when it was the last one the handler goes on to take the   *)
(* session out.                                                            *)
LEMMA ByePathSessInv == ASSUME SessInv, ByePath PROVE SessInv'
<1>1. rx.sess \in Objs /\ rx.path \in PathIds
  BY DEF SessInv, SessTypeOK, ByePath
<1>2. /\ addr' = [addr EXCEPT ![rx.sess][rx.path] = NoAddr]
      /\ rx' = IF \A p \in PathIds : addr'[rx.sess][p] = NoAddr
               THEN [rx EXCEPT !.pc = "empty"] ELSE Waiting
      /\ UNCHANGED <<table, client, lastSeen, shut>>
  BY DEF ByePath
<1>3. SessTypeOK'
  <2>1. addr' \in [Objs -> [PathIds -> Addrs \union {NoAddr}]]
    BY <1>1, <1>2 DEF SessInv, SessTypeOK
  <2>2. rx' = [rx EXCEPT !.pc = "empty"] \/ rx' = Waiting
    BY <1>2
  <2>3. rx \in [pc : {"recv", "hello", "data", "probe", "ctrl", "bye", "empty"},
               sess : Objs \union {None}, id : SessionIds \union {None},
               path : PathIds \union {None}, from : Addrs \union {NoAddr}]
    BY Zenon DEF SessInv, SessTypeOK
  <2>4. /\ rx' \in [pc : {"recv", "hello", "data", "probe", "ctrl", "bye", "empty"},
                   sess : Objs \union {None}, id : SessionIds \union {None},
                   path : PathIds \union {None}, from : Addrs \union {NoAddr}]
        /\ rx'.pc # "recv" => /\ rx'.sess = rx.sess /\ rx'.id = rx.id
                             /\ rx'.path = rx.path /\ rx'.from = rx.from
    BY <2>2, <2>3 DEF Waiting
  <2>5. rx.sess \in Objs /\ rx.id \in SessionIds /\ rx.path \in PathIds /\ rx.from \in Addrs
    BY Zenon DEF SessInv, SessTypeOK, ByePath
  <2> QED BY <1>2, <2>1, <2>4, <2>5, Zenon DEF SessInv, SessTypeOK
<1>4. TableBuffersOpen'
  BY <1>2 DEF SessInv, TableBuffersOpen
<1>5. ASSUME NEW o \in Objs, o # rx.sess, HasPath(o) PROVE HasPath(o)'
  BY <1>1, <1>2, <1>5 DEF SessInv, SessTypeOK, HasPath
<1>6. ASSUME NEW s \in SessionIds, table[s] # None, table[s] # rx.sess PROVE HasPath(table[s])'
  <2>1. table[s] \in Objs /\ HasPath(table[s])
    BY <1>6 DEF SessInv, SessTypeOK, NoEmptySession, ByePath
  <2>2. PICK o \in Objs : o = table[s]
    BY <2>1
  <2>3. HasPath(o)'
    BY <1>5, <1>6, <2>1, <2>2
  <2> QED BY <1>2, <2>2, <2>3
<1>7. CASE \A p \in PathIds : addr'[rx.sess][p] = NoAddr
  <2>1. rx' = [rx EXCEPT !.pc = "empty"]
    BY <1>2, <1>7
  <2>2. rx'.pc = "empty" /\ rx'.sess = rx.sess /\ rx'.id = rx.id
    BY <2>1 DEF SessInv, SessTypeOK
  <2>3. HandlerInv'
    BY <1>2, <1>7, <2>2 DEF SessInv, HandlerInv, HasPath, ByePath
  <2>4. NoEmptySession'
    BY <1>2, <1>6, <2>2 DEF NoEmptySession
  <2> QED BY <1>3, <1>4, <2>3, <2>4 DEF SessInv
<1>8. CASE ~ \A p \in PathIds : addr'[rx.sess][p] = NoAddr
  <2>1. rx' = Waiting
    BY <1>2, <1>8, Zenon
  <2>2. HandlerInv'
    BY <2>1 DEF HandlerInv, Waiting
  <2>3. ASSUME NEW s \in SessionIds, table[s] = rx.sess PROVE HasPath(table[s])'
    BY <1>2, <1>8, <2>3 DEF HasPath
  <2>4. NoEmptySession'
    BY <1>2, <1>6, <2>3 DEF NoEmptySession
  <2> QED BY <1>3, <1>4, <2>2, <2>4 DEF SessInv
<1> QED BY <1>7, <1>8

(* The session that goes was named by the handler's id only. *)
LEMMA ByeSessionSessInv == ASSUME SessInv, ByeSession PROVE SessInv'
<1>1. rx.sess \in Objs /\ rx.id \in SessionIds
  BY DEF SessInv, SessTypeOK, ByeSession
<1>2. /\ table' = [table EXCEPT ![rx.id] = None]
      /\ shut' = [shut EXCEPT ![rx.sess] = TRUE]
      /\ rx' = Waiting
      /\ UNCHANGED <<client, addr, lastSeen>>
  BY Zenon DEF ByeSession
<1>3. SessTypeOK'
  BY <1>1, <1>2, Zenon DEF SessInv, SessTypeOK, Waiting, None
<1>4. ASSUME NEW s \in SessionIds, table'[s] # None
      PROVE  table[s] # None /\ table'[s] = table[s] /\ table[s] # rx.sess
  BY <1>1, <1>2, <1>4, Zenon DEF SessInv, SessTypeOK, HandlerInv, ByeSession
<1>5. TableBuffersOpen'
  BY <1>1, <1>2, <1>4, Zenon DEF SessInv, SessTypeOK, TableBuffersOpen
<1>6. HandlerInv'
  BY <1>2, Zenon DEF HandlerInv, Waiting
<1>7. NoEmptySession'
  BY <1>2, <1>4 DEF SessInv, NoEmptySession, HasPath
<1> QED BY <1>3, <1>5, <1>6, <1>7 DEF SessInv

(* The reaper closes the buffers of what it takes from the table. *)
LEMMA ReapSessInv == ASSUME SessInv, Reap PROVE SessInv'
<1>1. /\ \A s \in SessionIds : table'[s] # None => table'[s] = table[s] /\ s \notin Reapable
      /\ \A s \in SessionIds : table'[s] \in Objs \union {None}
      /\ \A o \in Objs : shut'[o] = (shut[o] \/ \E s \in Reapable : table[s] = o)
      /\ UNCHANGED <<client, addr, lastSeen, rx>>
  BY Zenon DEF Reap, SessInv, SessTypeOK
<1>2. SessTypeOK'
  BY <1>1, Zenon DEF Reap, SessInv, SessTypeOK
<1>3. TableBuffersOpen'
  <2> SUFFICES ASSUME NEW s \in SessionIds, table'[s] # None
               PROVE  /\ ~shut'[table'[s]]
                      /\ \A t \in SessionIds : table'[t] = table'[s] => t = s
    BY Zenon DEF TableBuffersOpen
  <2>1. table'[s] = table[s] /\ table[s] \in Objs /\ s \notin Reapable
    BY <1>1, Zenon DEF SessInv, SessTypeOK
  <2>2. \A t \in SessionIds : table[t] = table[s] => t = s
    BY <2>1 DEF SessInv, TableBuffersOpen
  <2>3. ~shut[table[s]]
    BY <2>1, Zenon DEF SessInv, TableBuffersOpen
  <2>4. ~shut'[table[s]]
    BY <1>1, <2>1, <2>2, <2>3, Zenon DEF Reapable
  <2> QED BY <1>1, <2>1, <2>2, <2>4, ZenonT(30)
<1>4. NoEmptySession'
  BY <1>1, Zenon DEF SessInv, NoEmptySession, HasPath
<1>5. HandlerInv'
  <2>1. rx.pc # "recv" => rx.sess # None
    BY ObjsFinite, ZenonT(30) DEF SessInv, SessTypeOK
  <2> QED BY <1>1, <2>1 DEF SessInv, HandlerInv, HasPath
<1> QED BY <1>2, <1>3, <1>4, <1>5, Zenon DEF SessInv

(* Time makes sessions older and nothing else. *)
LEMMA ElapseSessInv == ASSUME SessInv, SessElapse PROVE SessInv'
<1>1. lastSeen' \in [Objs -> 0..Never]
  BY ServerAssumption DEF SessElapse, SessInv, SessTypeOK, Never
<1>2. SessTypeOK'
  BY <1>1 DEF SessElapse, SessInv, SessTypeOK
<1>3. TableBuffersOpen' /\ NoEmptySession' /\ HandlerInv'
  BY DEF SessElapse, SessInv, TableBuffersOpen, NoEmptySession, HandlerInv, HasPath
<1> QED BY <1>2, <1>3 DEF SessInv

(* Every step keeps the invariant. *)
LEMMA NextSessInv == SessInv /\ [SessNext]_sessVars => SessInv'
<1> SUFFICES ASSUME SessInv, [SessNext]_sessVars PROVE SessInv'
  OBVIOUS
<1>1. CASE Arrive
  BY <1>1, HelloSessInv, LookupSessInv DEF Arrive
<1>2. CASE RxStep
  BY <1>2, HelloRestSessInv, DataRestSessInv, ProbeRestSessInv, CtrlRestSessInv, ByePathSessInv, ByeSessionSessInv
     DEF RxStep
<1>3. CASE UNCHANGED sessVars
  BY <1>3, StutterSessInv, Zenon
<1> QED BY <1>1, <1>2, <1>3, ReapSessInv, ElapseSessInv, Zenon DEF SessNext

----------------------------------------------------------------------------
(* The invariant holds in every behaviour. *)
LEMMA SessInvariant == SessSpec => []SessInv
BY InitSessInv, NextSessInv, PTL DEF SessSpec

(* Whatever the reaper does beside the receive loop, a session that a      *)
(* datagram can be looked up for has an open reorder buffer, and no two    *)
(* ids name the same session (server.go, handleHello, removeSessionPath    *)
(* and sessionReaper).                                                     *)
THEOREM BuffersOpen == SessSpec => []TableBuffersOpen
<1>1. SessInv => TableBuffersOpen
  BY DEF SessInv
<1> QED BY <1>1, SessInvariant, PTL

(* The last path takes its session with it: sessions without paths are     *)
(* only those the receive loop is just adding or removing                  *)
(* (removeSessionPath, handleHello).                                       *)
THEOREM NoSessionLeftEmpty == SessSpec => []NoEmptySession
<1>1. SessInv => NoEmptySession
  BY DEF SessInv
<1> QED BY <1>1, SessInvariant, PTL

============================================================================
