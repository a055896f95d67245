---------------------------- MODULE Registration ----------------------------
(***************************************************************************)
(* How one path of one client stays known to the server: the client's      *)
(* hello loop and probe loop (client.go, helloLoop, clientProbeLoop) and   *)
(* the server's session table, over a network that delays, reorders and    *)
(* loses datagrams, with the faults the design is meant to survive: the    *)
(* server restarts and forgets its sessions, it expires the session in an  *)
(* outage, the NAT gives the socket another address, the WAN goes away and *)
(* comes back, and a black hole swallows everything for a while.  At some  *)
(* time the client is closed (engine.go, Close): it says BYE while its     *)
(* loops still run, stops them, and is gone.                               *)
(*                                                                         *)
(* nat is the address the server sees the client's socket under.  Of the   *)
(* link only Up is kept, set by a PROBE_ACK and cleared in a black hole or *)
(* by a write error (Link has the details).  The redial and what follows   *)
(* it are one step here; ClientPaths takes them apart.                     *)
(***************************************************************************)
EXTENDS ServerSessions

CONSTANTS Sess, Me, Wan,       \* the session, the client, the path
          HelloRetry,          \* ticks between HELLOs until the ack (1 s)
          HelloRefresh,        \* ticks between HELLOs after it (15 s)
          RedialEvery,         \* ticks between redials (2 s)
          PathStaleAfter,      \* ticks until the server leaves a silent path out (45 s)
          MaxFaults,           \* bound on the faults
          MaxInFlight          \* a probe waits for fewer datagrams in flight

ASSUME RegistrationAssumption ==
  /\ Sess \in SessionIds /\ Me \in ClientIds /\ Wan \in PathIds
  /\ HelloRetry \in Nat \ {0} /\ HelloRefresh \in Nat /\ HelloRetry <= HelloRefresh
  /\ RedialEvery \in Nat
  /\ PathStaleAfter \in Nat

VARIABLES registered, up, nat,
          helloAge,    \* ticks since lastHello
          redialAge,   \* ticks since lastRedial
          phase,       \* "run", "bye" once the BYE is out, "gone" once closed
          lastRx,      \* server: ticks since the path was heard from
          broken,      \* writes to the socket fail
          wan,         \* the WAN has its address: a dial succeeds
          hole,        \* the network swallows everything
          net,         \* datagrams in flight
          faults

clientVars == <<registered, up, nat, helloAge, redialAge, phase>>
envVars == <<broken, wan, hole, faults>>
vars == <<sessVars, lastRx, clientVars, envVars, net>>

Kinds == {"hello", "probe", "bye", "helloAck", "probeAck"}
Datagrams == [kind: Kinds, at: Addrs]   \* at: the client's address

Msg(kind, a) == [kind |-> kind, at |-> a]
With(m) == net \union {m}

Init ==
  /\ SessInit
  /\ registered = FALSE /\ up = FALSE
  /\ nat = Min(Addrs)
  /\ helloAge = HelloRefresh /\ redialAge = 0 /\ phase = "run"
  /\ lastRx = PathStaleAfter + 1
  /\ broken = FALSE /\ wan = TRUE /\ hole = FALSE
  /\ net = {} /\ faults = 0

----------------------------------------------------------------------------
(* Mutant: a registered path sends no more HELLOs. *)
HelloDueOnce == ~registered /\ helloAge >= HelloRetry

HelloDue == helloAge >= (IF registered THEN HelloRefresh ELSE HelloRetry)

(* helloLoop; the error of a write is ignored. *)
HelloLoop ==
  /\ phase # "gone" /\ HelloDue
  /\ helloAge' = 0
  /\ net' = IF broken THEN net ELSE With(Msg("hello", nat))
  /\ UNCHANGED <<sessVars, lastRx, envVars, registered, up, nat, redialAge, phase>>

RedialDue == redialAge > RedialEvery

(* dial: a fresh socket under another address, when the WAN is there. *)
Dial ==
  /\ redialAge' = 0
  /\ IF wan
     THEN nat' \in Addrs \ {nat} /\ broken' = FALSE
     ELSE UNCHANGED <<nat, broken>>

(* clientProbeLoop, a path that waits for its HELLO ack. *)
RedialUnregistered ==
  /\ phase # "gone" /\ ~registered /\ RedialDue
  /\ Dial
  /\ UNCHANGED <<sessVars, lastRx, registered, up, helloAge, phase, wan, hole, faults, net>>

(* clientProbeLoop, a registered path: the probe is written. *)
Probe ==
  /\ phase # "gone" /\ registered /\ ~broken /\ Cardinality(net) < MaxInFlight
  /\ net' = With(Msg("probe", nat))
  /\ UNCHANGED <<sessVars, lastRx, clientVars, envVars>>

(* clientProbeLoop, a registered path: the write fails.  Mark it down and, *)
(* when the redial is due and succeeds, register again.                    *)
ProbeFails ==
  /\ phase # "gone" /\ registered /\ broken
  /\ up' = FALSE
  /\ IF RedialDue THEN Dial ELSE UNCHANGED <<redialAge, nat, broken>>
  /\ IF RedialDue /\ wan
     THEN registered' = FALSE /\ helloAge' = HelloRefresh
     ELSE UNCHANGED <<registered, helloAge>>
  /\ UNCHANGED <<sessVars, lastRx, phase, wan, hole, faults, net>>

(* Probes stay unanswered in a black hole. *)
LinkDown ==
  /\ phase # "gone" /\ hole /\ up
  /\ up' = FALSE
  /\ UNCHANGED <<sessVars, lastRx, envVars, registered, nat, helloAge, redialAge, phase, net>>

(* Close, client: sendByes.  The error of the write is ignored. *)
SendByes ==
  /\ phase = "run" /\ phase' = "bye"
  /\ net' = IF registered /\ ~broken THEN With(Msg("bye", nat)) ELSE net
  /\ UNCHANGED <<sessVars, lastRx, envVars, registered, up, nat, helloAge, redialAge>>

(* Close: the loops are stopped and the socket is closed.  The client's    *)
(* state is of no more use, and set to its first values.                   *)
Gone ==
  /\ phase = "bye" /\ phase' = "gone"
  /\ registered' = FALSE /\ up' = FALSE /\ helloAge' = 0 /\ redialAge' = 0
  /\ nat' = Min(Addrs)
  /\ UNCHANGED <<sessVars, lastRx, envVars, net>>

(* handleClientDatagram: an ack that reaches the present socket. *)
ClientReceives(m) ==
  /\ m \in net /\ phase # "gone" /\ ~hole /\ m.at = nat /\ ~broken
  /\ \/ m.kind = "helloAck" /\ registered' = TRUE /\ UNCHANGED up
     \/ m.kind = "probeAck" /\ up' = TRUE /\ UNCHANGED registered
  /\ net' = net \ {m}
  /\ UNCHANGED <<sessVars, lastRx, envVars, nat, helloAge, redialAge, phase>>

(* serverRxLoop takes a datagram up.  One without a session is dropped. *)
ServerReceives(m) ==
  /\ m \in net /\ ~hole
  /\ \/ m.kind = "hello" /\ Hello(Sess, Me, Wan, m.at)
     \/ m.kind \in {"probe", "bye"} /\ Lookup(m.kind, Sess, Wan, m.at)
     \/ /\ m.kind \in {"probe", "bye"} /\ rx.pc = "recv" /\ table[Sess] = None
        /\ UNCHANGED sessVars
  /\ net' = net \ {m}
  /\ UNCHANGED <<lastRx, clientVars, envVars>>

(* The handler goes on; HELLO and PROBE touch the path and are answered. *)
ServerAnswers ==
  /\ \/ HelloRest /\ net' = With(Msg("helloAck", rx.from)) /\ lastRx' = 0
     \/ ProbeRest /\ net' = With(Msg("probeAck", rx.from)) /\ lastRx' = 0
     \/ (ByePath \/ ByeSession) /\ UNCHANGED <<net, lastRx>>
  /\ UNCHANGED <<clientVars, envVars>>

(* A datagram is swallowed by the black hole, or addressed to a socket     *)
(* that is no longer there.                                                *)
Swallow(m) ==
  /\ m \in net
  /\ hole \/ (m.kind \in {"helloAck", "probeAck"} /\ (m.at # nat \/ broken \/ phase = "gone"))
  /\ net' = net \ {m}
  /\ UNCHANGED <<sessVars, lastRx, clientVars, envVars>>

(* One tick, a second.  HELLOs that are due go out first, and what is in   *)
(* flight arrives or is lost within the tick: were the round trip longer   *)
(* than the redial period, every HELLO_ACK would miss the socket it is for.*)
Elapse ==
  /\ phase # "gone" => ~HelloDue
  /\ net = {} /\ rx.pc = "recv"
  /\ SessElapse
  /\ lastRx' = IF lastRx > PathStaleAfter THEN lastRx ELSE lastRx + 1
  /\ IF phase = "gone" THEN UNCHANGED <<helloAge, redialAge>>
     ELSE /\ helloAge' = IF helloAge < HelloRefresh THEN helloAge + 1 ELSE helloAge
          /\ redialAge' = IF RedialDue THEN redialAge ELSE redialAge + 1
  /\ UNCHANGED <<envVars, registered, up, nat, phase, net>>

(* sessionReaper. *)
Reaper ==
  /\ rx.pc = "recv" /\ Sess \in Reapable
  /\ Reap
  /\ UNCHANGED <<lastRx, clientVars, envVars, net>>

----------------------------------------------------------------------------
Fault == faults < MaxFaults /\ faults' = faults + 1

(* A datagram is lost. *)
Lose(m) ==
  /\ Fault
  /\ m \in net
  /\ net' = net \ {m}
  /\ UNCHANGED <<sessVars, lastRx, clientVars, broken, wan, hole>>

(* The server process restarts. *)
Restart ==
  /\ Fault
  /\ table' = [s \in SessionIds |-> None] /\ rx' = Waiting
  /\ UNCHANGED <<client, addr, lastSeen, shut, lastRx, clientVars, broken, wan, hole, net>>

(* The reaper removes the session in the middle of a handler: one that was *)
(* silent for the whole timeout, or that has just been created.            *)
ReaperRaces ==
  /\ Fault
  /\ rx.pc # "recv" /\ Sess \in Reapable
  /\ Reap
  /\ UNCHANGED <<lastRx, clientVars, broken, wan, hole, net>>

(* The NAT gives the socket another address. *)
Rebind ==
  /\ phase # "gone" /\ Fault
  /\ nat' \in Addrs \ {nat}
  /\ UNCHANGED <<sessVars, lastRx, registered, up, helloAge, redialAge, phase, broken, wan, hole, net>>

WanLost ==
  /\ phase # "gone" /\ Fault
  /\ wan' = FALSE /\ broken' = TRUE
  /\ UNCHANGED <<sessVars, lastRx, clientVars, hole, net>>

WanBack ==
  /\ ~wan /\ wan' = TRUE
  /\ UNCHANGED <<sessVars, lastRx, clientVars, broken, hole, faults, net>>

HoleOpens ==
  /\ Fault
  /\ ~hole /\ hole' = TRUE
  /\ UNCHANGED <<sessVars, lastRx, clientVars, broken, wan, net>>

HoleEnds ==
  /\ hole /\ hole' = FALSE
  /\ UNCHANGED <<sessVars, lastRx, clientVars, broken, wan, faults, net>>

Receives(m) == ClientReceives(m) \/ ServerReceives(m)

Next ==
  \/ HelloLoop \/ RedialUnregistered \/ Probe \/ ProbeFails \/ LinkDown
  \/ SendByes \/ Gone
  \/ \E m \in Datagrams : Receives(m) \/ Swallow(m) \/ Lose(m)
  \/ ServerAnswers \/ Reaper \/ Elapse
  \/ Restart \/ ReaperRaces \/ Rebind \/ WanLost \/ WanBack \/ HoleOpens \/ HoleEnds

Spec == Init /\ [][Next]_vars

(* The loops tick, the server answers, time passes, what is in flight      *)
(* reaches a receive loop that is free, and Close goes on once it has      *)
(* begun.                                                                  *)
Fairness ==
  /\ WF_vars(HelloLoop) /\ WF_vars(RedialUnregistered) /\ WF_vars(Probe)
  /\ WF_vars(ProbeFails) /\ WF_vars(LinkDown) /\ WF_vars(ServerAnswers)
  /\ WF_vars(Gone) /\ WF_vars(Reaper)
  /\ SF_vars(Elapse)
  /\ \A m \in Datagrams : WF_vars(Receives(m) \/ Swallow(m))

(* The WAN comes back and a black hole ends. *)
LiveSpec == Spec /\ Fairness /\ WF_vars(WanBack) /\ WF_vars(HoleEnds)

----------------------------------------------------------------------------
RegTypeOK ==
  /\ registered \in BOOLEAN /\ up \in BOOLEAN
  /\ nat \in Addrs
  /\ helloAge \in 0..HelloRefresh
  /\ redialAge \in 0..(RedialEvery + 1)
  /\ phase \in {"run", "bye", "gone"}
  /\ lastRx \in 0..(PathStaleAfter + 1)
  /\ net \in SUBSET Datagrams

(* The server sends to the socket the path has: alivePaths has the path. *)
Served ==
  /\ registered /\ ~broken
  /\ table[Sess] # None /\ addr[table[Sess]][Wan] = nat
  /\ lastRx <= PathStaleAfter

(* The path recovers from every fault: when no more faults come and the    *)
(* client is not closed, it ends up registered, with the server sending to *)
(* the socket it has, and stays so (PROTOCOL.md, "Connection lifecycle").  *)
EndsServed == <>[](Served \/ phase # "run")

(* A client that was closed is forgotten for good, also when its BYE is    *)
(* lost, or a HELLO its loops sent beside the BYE comes later and sets the *)
(* session up again (removeSessionPath, sessionReaper).                    *)
GoneIsForgotten == <>[](phase = "gone" => table[Sess] = None)

============================================================================
