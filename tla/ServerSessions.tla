--------------------------- MODULE ServerSessions ---------------------------
(***************************************************************************)
(* The server's session table (internal/engine/server.go).  The receive    *)
(* loop handles one datagram after another; the reaper runs beside it.     *)
(*                                                                         *)
(* A handler looks its session up under server.mu and goes on with the     *)
(* pointer after it has let go of the lock, so that the reaper can come in *)
(* between: a handler is two steps (BYE three), and rx holds the pointer.  *)
(* A session is known by a number, its pointer; a session that neither the *)
(* table nor the receive loop holds is garbage, and its number is used     *)
(* again, so there are never more than there are session ids.  Times are   *)
(* AGES in ticks, saturated one past the limit they are compared with; the *)
(* zero lastSeen of a new session is older than any limit.                 *)
(***************************************************************************)
EXTENDS Integers, FiniteSetsExt

CONSTANTS SessionIds, ClientIds, PathIds, Addrs, NoAddr,
          SessionTimeout    \* ticks of silence after which a session goes (5 min)

ASSUME ServerAssumption ==
  /\ NoAddr \notin Addrs
  /\ SessionTimeout \in Nat
  /\ IsFiniteSet(SessionIds)

VARIABLES table,     \* session id -> the session, or None
          client,    \* session -> ClientID
          addr,      \* session -> path id -> address, or NoAddr without a path
          lastSeen,  \* session -> age of its last HELLO or DATA
          shut,      \* session -> its reorder buffer is closed
          rx         \* the receive loop: what it handles, with which session

sessVars == <<table, client, addr, lastSeen, shut, rx>>

None == 0
Objs == 1..Cardinality(SessionIds)
Never == SessionTimeout + 1
Waiting == [pc |-> "recv", sess |-> None, id |-> None, path |-> None, from |-> NoAddr]

SessInit ==
  /\ table = [s \in SessionIds |-> None]
  /\ client = [o \in Objs |-> None]
  /\ addr = [o \in Objs |-> [p \in PathIds |-> NoAddr]]
  /\ lastSeen = [o \in Objs |-> Never]
  /\ shut = [o \in Objs |-> FALSE]
  /\ rx = Waiting

(* The receive loop has found session o for a datagram of kind k. *)
Handle(k, o, s, p, a) ==
  rx' = [pc |-> k, sess |-> o, id |-> s, path |-> p, from |-> a]

(* handleHello, inside server.mu: find or create the session.  A HELLO of  *)
(* another client under the same session id is ignored.                    *)
NewSession == Min(Objs \ {table[s] : s \in SessionIds})

Hello(s, c, p, a) ==
  /\ rx.pc = "recv"
  /\ \/ /\ table[s] # None
        /\ client[table[s]] = c
        /\ Handle("hello", table[s], s, p, a)
        /\ UNCHANGED <<table, client, addr, lastSeen, shut>>
     \/ /\ table[s] # None
        /\ client[table[s]] # c
        /\ UNCHANGED sessVars
     \/ /\ table[s] = None
        /\ table' = [table EXCEPT ![s] = NewSession]
        /\ client' = [client EXCEPT ![NewSession] = c]
        /\ addr' = [addr EXCEPT ![NewSession] = [q \in PathIds |-> NoAddr]]
        /\ lastSeen' = [lastSeen EXCEPT ![NewSession] = Never]
        /\ shut' = [shut EXCEPT ![NewSession] = FALSE]
        /\ Handle("hello", NewSession, s, p, a)

(* handleServerDatagram, cases DATA, PROBE, CTRL and BYE: lookupSession.   *)
(* A datagram for an unknown session is dropped.                           *)
Lookup(k, s, p, a) ==
  /\ rx.pc = "recv" /\ table[s] # None
  /\ Handle(k, table[s], s, p, a)
  /\ UNCHANGED <<table, client, addr, lastSeen, shut>>

TouchPath == addr' = [addr EXCEPT ![rx.sess][rx.path] = rx.from]

(* The rest of handleHello: touchPath, lastSeen, and the HELLO_ACK. *)
HelloRest ==
  /\ rx.pc = "hello"
  /\ TouchPath
  /\ lastSeen' = [lastSeen EXCEPT ![rx.sess] = 0]
  /\ rx' = Waiting
  /\ UNCHANGED <<table, client, shut>>

(* The rest of the DATA case.  What the buffer does is ReorderBuffer's. *)
DataRest ==
  /\ rx.pc = "data"
  /\ TouchPath
  /\ lastSeen' = [lastSeen EXCEPT ![rx.sess] = 0]
  /\ rx' = Waiting
  /\ UNCHANGED <<table, client, shut>>

(* The rest of the PROBE case: touchPath and the PROBE_ACK. *)
ProbeRest ==
  /\ rx.pc = "probe"
  /\ TouchPath
  /\ rx' = Waiting
  /\ UNCHANGED <<table, client, lastSeen, shut>>

(* The rest of the cases CTRL, PROBE_ACK and FEC, which feed the link or   *)
(* the decoder and leave the session alone.                                *)
CtrlRest ==
  /\ rx.pc = "ctrl"
  /\ rx' = Waiting
  /\ UNCHANGED <<table, client, addr, lastSeen, shut>>

(* Mutant: the session stays when its last path has gone. *)
ByePathOnly ==
  /\ rx.pc = "bye"
  /\ addr' = [addr EXCEPT ![rx.sess][rx.path] = NoAddr]
  /\ rx' = Waiting
  /\ UNCHANGED <<table, client, lastSeen, shut>>

(* removeSessionPath, inside sess.mu: delete the path. *)
ByePath ==
  /\ rx.pc = "bye"
  /\ addr' = [addr EXCEPT ![rx.sess][rx.path] = NoAddr]
  /\ rx' = IF \A p \in PathIds : addr'[rx.sess][p] = NoAddr
           THEN [rx EXCEPT !.pc = "empty"] ELSE Waiting
  /\ UNCHANGED <<table, client, lastSeen, shut>>

(* Mutant: the emptied session is closed and left in the table. *)
ByeSessionKept ==
  /\ rx.pc = "empty"
  /\ shut' = [shut EXCEPT ![rx.sess] = TRUE]
  /\ rx' = Waiting
  /\ UNCHANGED <<table, client, addr, lastSeen>>

(* removeSessionPath, the last path gone: delete and close the session. *)
ByeSession ==
  /\ rx.pc = "empty"
  /\ table' = [table EXCEPT ![rx.id] = None]
  /\ shut' = [shut EXCEPT ![rx.sess] = TRUE]
  /\ rx' = Waiting
  /\ UNCHANGED <<client, addr, lastSeen>>

(* sessionReaper, one pass inside server.mu. *)
Reapable == {s \in SessionIds : table[s] # None /\ lastSeen[table[s]] > SessionTimeout}

(* Mutant: only sessions without paths are reaped. *)
ReapEmpty ==
  LET gone == {s \in Reapable : \A p \in PathIds : addr[table[s]][p] = NoAddr}
  IN  /\ table' = [s \in SessionIds |-> IF s \in gone THEN None ELSE table[s]]
      /\ shut' = [o \in Objs |-> shut[o] \/ \E s \in gone : table[s] = o]
      /\ UNCHANGED <<client, addr, lastSeen, rx>>

Reap ==
  /\ table' = [s \in SessionIds |-> IF s \in Reapable THEN None ELSE table[s]]
  /\ shut' = [o \in Objs |-> shut[o] \/ \E s \in Reapable : table[s] = o]
  /\ UNCHANGED <<client, addr, lastSeen, rx>>

(* One tick of the clock. *)
SessElapse ==
  /\ lastSeen' = [o \in Objs |-> IF lastSeen[o] > SessionTimeout THEN lastSeen[o]
                                 ELSE lastSeen[o] + 1]
  /\ UNCHANGED <<table, client, addr, shut, rx>>

(* The handler goes on after its lookup. *)
RxStep == HelloRest \/ DataRest \/ ProbeRest \/ CtrlRest \/ ByePath \/ ByeSession

Arrive ==
  \E s \in SessionIds, p \in PathIds, a \in Addrs :
    \/ \E c \in ClientIds : Hello(s, c, p, a)
    \/ \E k \in {"data", "probe", "ctrl", "bye"} : Lookup(k, s, p, a)

SessNext == Arrive \/ RxStep \/ Reap \/ SessElapse

SessSpec == SessInit /\ [][SessNext]_sessVars

(* The reaper's ticker and the clock go on; the handlers finish. *)
SessLive ==
  SessSpec /\ WF_sessVars(RxStep) /\ WF_sessVars(Reap) /\ WF_sessVars(SessElapse)

----------------------------------------------------------------------------
HasPath(o) == \E p \in PathIds : addr[o][p] # NoAddr

SessTypeOK ==
  /\ table \in [SessionIds -> Objs \union {None}]
  /\ client \in [Objs -> ClientIds \union {None}]
  /\ addr \in [Objs -> [PathIds -> Addrs \union {NoAddr}]]
  /\ lastSeen \in [Objs -> 0..Never]
  /\ shut \in [Objs -> BOOLEAN]
  /\ rx \in [pc : {"recv", "hello", "data", "probe", "ctrl", "bye", "empty"},
             sess : Objs \union {None}, id : SessionIds \union {None},
             path : PathIds \union {None}, from : Addrs \union {NoAddr}]
  /\ rx.pc # "recv" =>
       rx.sess \in Objs /\ rx.id \in SessionIds /\ rx.path \in PathIds /\ rx.from \in Addrs

(* A session that can be looked up has an open reorder buffer: whoever     *)
(* closes the buffer has taken the session out of the table, and no other  *)
(* session id names it.                                                    *)
TableBuffersOpen ==
  \A s \in SessionIds : table[s] # None =>
    /\ ~shut[table[s]]
    /\ \A t \in SessionIds : table[t] = table[s] => t = s

(* "the last path removes the session" (PROTOCOL.md): a session without    *)
(* paths is in the table only while the receive loop is adding its first   *)
(* path, or taking the session out.                                        *)
NoEmptySession ==
  \A s \in SessionIds :
    (table[s] # None /\ ~HasPath(table[s])) => rx.sess = table[s] /\ rx.pc \in {"hello", "empty"}

(* "Silence expires ... sessions" (PROTOCOL.md): a session is removed or   *)
(* heard from again, whatever happens to its paths.                        *)
SilentExpires ==
  \A s \in SessionIds, o \in Objs :
    (table[s] = o) ~> (table[s] # o \/ (rx.pc \in {"hello", "data"} /\ rx.sess = o))

============================================================================
