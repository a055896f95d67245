------------------------------ MODULE FecStream ------------------------------
(***************************************************************************)
(* One direction of the bulk stream under forward error correction: the    *)
(* sending engine (client.go, clientSend; server.go, serverSend) numbers a *)
(* packet, adds it to the encoder, which may emit parity, and then writes  *)
(* the DATA datagram; the flush and control loops work on the encoder too; *)
(* the receiver (handleClientDatagram, handleServerDatagram) feeds the     *)
(* decoder.                                                                *)
(*                                                                         *)
(* net is the log of what was sent, in order, and any datagram of it may   *)
(* be delivered at any time: one that never is is lost, one that is        *)
(* delivered again is a duplicate.  Adding a packet and writing its DATA   *)
(* are one step, because a datagram not written yet is one not delivered   *)
(* yet.  Packets sent while FEC is off never meet it and are left out.     *)
(*                                                                         *)
(* The sending process may be restarted (the server, while the client and  *)
(* its decoder live on): its group ids start at 0 again.  What was under   *)
(* way is lost, a restart takes longer than a datagram.                    *)
(***************************************************************************)
EXTENDS FecEncoder, FecDecoder

CONSTANTS MaxPackets, MaxUpsets   \* bounds on the environment

(* Group ids do not repeat within a run of the model. *)
ASSUME StreamAssumption ==
  /\ MaxPackets \in Nat /\ MaxUpsets \in Nat /\ MaxPackets <= GroupMod
  /\ GroupIds = 0..(GroupMod - 1)
  /\ Origins = 0..(MaxPackets - 1)

VARIABLES globalSeq,  \* packets numbered so far
          net,        \* datagrams sent, in order
          upsets,     \* retunes and restarts so far
          content,    \* origin -> the packets of that group (history)
          arrived,    \* <<origin, index>> of the shards that arrived (history)
          forgotten,  \* origins of shards the decoder swept (history)
          left        \* pairs of a group the decoder held at a restart and the one
                      \* that gets its id after it (history)

history == <<content, arrived, forgotten, left>>
streamVars == <<encVars, decVars, globalSeq, net, upsets, history>>

Data(n, i) == [group |-> n, index |-> i, k |-> 0, m |-> 0]

StreamInit ==
  /\ EncInit /\ DecInit
  /\ globalSeq = 0 /\ net = <<>> /\ upsets = 0
  /\ content = << >> /\ arrived = {} /\ forgotten = {} /\ left = {}

(* The bulk branch of clientSend: number the packet, Encoder.Add, which    *)
(* emits the parity of the group it closes before it returns, sendDataOn.  *)
Send ==
  /\ globalSeq < MaxPackets
  /\ globalSeq' = globalSeq + 1
  /\ \/ /\ AddOff
        /\ UNCHANGED <<net, content>>
     \/ /\ AddOn(globalSeq')
        /\ net' = net \o AddEmits(globalSeq') \o <<Data(AddGroup, Len(shards))>>
        /\ content' = [o \in 0..AddGroup |->
                         IF o = AddGroup THEN Append(shards, globalSeq') ELSE content[o]]
  /\ UNCHANGED <<decVars, upsets, arrived, forgotten, left>>

(* fecFlushLoop *)
FlushLoop ==
  /\ Flush
  /\ net' = net \o FlushEmits
  /\ UNCHANGED <<decVars, globalSeq, upsets, history>>

(* retuneFEC *)
RetuneFEC(p) ==
  /\ upsets < MaxUpsets
  /\ upsets' = upsets + 1
  /\ SetParams(p)
  /\ UNCHANGED <<decVars, globalSeq, net, history>>

(* The groups whose shards are in the entries ids of the decoder's table. *)
Held(ids) == UNION {{groups[x].shards[i] : i \in DOMAIN groups[x].shards} : x \in ids}

(* The sending process is restarted. *)
Restart ==
  /\ upsets < MaxUpsets
  /\ upsets' = upsets + 1
  /\ NewEncoder
  /\ net' = <<>>
  /\ left' = left \union UNION {Held({id}) \X {nextGroup + id} : id \in DOMAIN groups}
  /\ UNCHANGED <<decVars, globalSeq, content, arrived, forgotten>>

(* The origins of shards that the sweeps of this step threw away. *)
Discarded(id) ==
  Held((DOMAIN groups \ (DOMAIN groups' \union {id}))
       \union ({id} \intersect (DOMAIN groups \ DOMAIN Swept(groups))))

(* The receiver handles datagram d. *)
Receive(d) ==
  /\ IF d.k = 0
     THEN AddData(GroupID(d.group), d.index, d.group)
     ELSE AddParity(GroupID(d.group), d.index, d.group, d.k, d.m)
  /\ arrived' = arrived \union {<<d.group, d.index>>}
  /\ forgotten' = forgotten \union Discarded(GroupID(d.group))
  /\ UNCHANGED <<encVars, globalSeq, net, upsets, content, left>>

Elapse ==
  /\ EncElapse /\ DecElapse
  /\ UNCHANGED <<globalSeq, net, upsets, history>>

StreamNext ==
  \/ Send \/ FlushLoop \/ Elapse \/ Restart
  \/ \E p \in Geometries : RetuneFEC(p)
  \/ \E i \in DOMAIN net : Receive(net[i])

StreamSpec == StreamInit /\ [][StreamNext]_streamVars

(* Time passes, and the flush loop's ticker comes again and again. *)
StreamLive == StreamSpec /\ WF_streamVars(Elapse) /\ WF_streamVars(FlushLoop)

----------------------------------------------------------------------------
Closed(n) == n < nextGroup /\ ~(n = OpenGroup /\ shards # <<>>)
Heir(n) == \E p \in left : n = p[2]
LeftOver(n) == \E p \in left : n \in {p[1], p[2]}
PacketsOf(n) == {<<n, i>> : i \in 0..(Len(content[n]) - 1)}

TypeOK ==
  /\ params \in Geometries \union {Off}
  /\ nextGroup \in 0..MaxPackets
  /\ shards \in Seq(1..MaxPackets)
  /\ firstAge \in 0..FlushTimeout
  /\ DOMAIN groups \subseteq GroupIds
  /\ \A id \in DOMAIN groups :
       /\ groups[id].age \in 0..(Expiry + 1)
       /\ \A i \in DOMAIN groups[id].shards : groups[id].shards[i] \in Origins
  /\ adds \in 0..(SweepEvery - 1)

(* What the decoder gives back is what the sender put in: the shards it    *)
(* collects under one id belong to one closed group, under every           *)
(* interleaving of Add, Flush and SetParams, and under loss, duplication   *)
(* and reordering.  A restart of the sender can only damage the groups     *)
(* whose shards the decoder held when it happened and those with their ids.*)
RecoveredIsSent ==
  \A r \in recovered :
    \/ \E n \in r[1] : r[1] = {n} /\ Closed(n) /\ <<n, r[2]>> \in PacketsOf(n)
    \/ \E n \in r[1] : LeftOver(n)

(* "the receiver repairs up to m losses per group" (fec.go): of a closed   *)
(* group with k packets, once any k of its shards have arrived, in any     *)
(* order and with duplicates among them, the receiver has all packets,     *)
(* unless the decoder swept the group away meanwhile or held its id when   *)
(* the sender was restarted.                                               *)
RepairsUpToM ==
  \A n \in 0..(nextGroup - 1) :
    (/\ Closed(n) /\ n \notin forgotten /\ ~Heir(n)
     /\ Cardinality({a \in arrived : a[1] = n}) >= Len(content[n]))
    => \A p \in PacketsOf(n) : p \in arrived \/ <<{n}, p[2]>> \in recovered

(* "FlushTimeout closes a partial group so parity never waits long on a    *)
(* quiet stream" (fec.go): every group that is opened is closed, also when *)
(* no packet follows and the geometry changes under it, unless its process *)
(* ends.                                                                   *)
EveryGroupCloses == \A n \in Origins : (n < nextGroup) ~> (Closed(n) \/ n < base)

(* The decoder's table never outgrows its limit (group, sweepLocked). *)
GroupsBounded == Cardinality(DOMAIN groups) <= MaxGroups

============================================================================
