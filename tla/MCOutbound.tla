----------------------------- MODULE MCOutbound -----------------------------
(***************************************************************************)
(* Small instance of Outbound, with a flow table for one flow: three flows *)
(* that the table learns, and a packet for every way around it.  Packets   *)
(* of different classes share a ciphertext length.                         *)
(***************************************************************************)
EXTENDS Outbound, TLC

Packet(proto, sport, dport, payload, len) ==
  [ok |-> TRUE, proto |-> proto, sport |-> sport, dport |-> dport, payload |-> payload, len |-> len]

MCPackets == {
  Packet(UDP, 7, 8, 3, 31),                      \* a call
  Packet(UDP, 5, 6, 3, 31),                      \* a flow of two sizes
  Packet(UDP, 5, 6, 20, 48),
  Packet(TCP, 7, 8, 8, 48),                      \* a download
  Packet(TCP, 9, 4, 5, 45),                      \* two rules match, the first by protocol
  Packet(UDP, 4, 9, 3, 31),                      \* the rule for any protocol
  Packet(UDP, 7, 2, 20, 48),                     \* a known port
  Packet("icmp", 0, 0, 24, 44),                  \* no ports
  [Packet(TCP, 0, 0, 0, 39) EXCEPT !.ok = FALSE]}

MCRules == (<<TCP, 4>> :> Interactive) @@ (<<AnyProto, 9>> :> Realtime)
MCInteractivePorts == (TCP :> {1}) @@ (UDP :> {1, 2})
============================================================================
