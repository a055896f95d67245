----------------------------- MODULE Classifier -----------------------------
(***************************************************************************)
(* The flow classifier (classify/classify.go): user rules, port defaults,  *)
(* and for the other flows the running average of their payload sizes, in  *)
(* a table that is dropped as a whole when it is full.                     *)
(*                                                                         *)
(* A packet is a record of what parse finds in it: whether it parses, the  *)
(* protocol, the ports, the payload and its length.  The addresses of a    *)
(* flow are folded into its ports.                                         *)
(***************************************************************************)
EXTENDS Integers, FiniteSetsExt, TrafficClasses

CONSTANTS TCP, UDP, AnyProto,  \* protocols; AnyProto is that of a rule for both
          InteractivePorts,    \* built-in ports of each protocol
          Rules,               \* <<protocol, port>> -> class, from the configuration
          RealtimeMaxUDPSize,  \* average payloads up to these are not bulk
          InteractiveMaxTCP,
          FlowTableCap         \* flows in the table (4096)

ASSUME ClassifierAssumption ==
  /\ DOMAIN InteractivePorts = {TCP, UDP}
  /\ \A k \in DOMAIN Rules : Rules[k] \in Classes
  /\ RealtimeMaxUDPSize \in Nat /\ InteractiveMaxTCP \in Nat
  /\ FlowTableCap \in Nat \ {0}

VARIABLE flows   \* flow -> packets and payload bytes seen

Ports(pkt) == {pkt.sport, pkt.dport}

Flow(pkt) == <<pkt.proto, pkt.sport, pkt.dport>>

(* ruleFor: the rules that match, the most specific first. *)
RuleFor(pkt) ==
  LET keys == <<<<pkt.proto, pkt.sport>>, <<pkt.proto, pkt.dport>>,
                <<AnyProto, pkt.sport>>, <<AnyProto, pkt.dport>>>>
      hits == {i \in DOMAIN keys : keys[i] \in DOMAIN Rules}
  IN  IF hits = {} THEN {} ELSE {Rules[keys[Min(hits)]]}

(* The class that follows without the flow table, if one does. *)
Preset(pkt) ==
  IF ~pkt.ok THEN {Bulk}
  ELSE IF pkt.proto \notin {TCP, UDP} THEN {Interactive}
  ELSE IF RuleFor(pkt) # {} THEN RuleFor(pkt)
  ELSE IF Ports(pkt) \cap InteractivePorts[pkt.proto] # {} THEN {Interactive}
  ELSE {}

(* The class of an average payload. *)
BySize(proto, avg) ==
  IF proto = UDP
  THEN IF avg <= RealtimeMaxUDPSize THEN Realtime ELSE Bulk
  ELSE IF avg <= InteractiveMaxTCP THEN Interactive ELSE Bulk

(* Mutant: a new flow starts with a packet too many. *)
LearntTwice(pkt) ==
  LET known == Flow(pkt) \in DOMAIN flows
      table == IF ~known /\ Cardinality(DOMAIN flows) >= FlowTableCap THEN <<>> ELSE flows
      old == IF known THEN flows[Flow(pkt)] ELSE [pkts |-> 1, payload |-> 0]
      new == [pkts |-> old.pkts + 1, payload |-> old.payload + pkt.payload]
  IN  [f \in DOMAIN table \union {Flow(pkt)} |-> IF f = Flow(pkt) THEN new ELSE table[f]]

(* The table once a packet has been counted: a new flow that finds it full *)
(* empties it first.                                                       *)
Learnt(pkt) ==
  LET known == Flow(pkt) \in DOMAIN flows
      table == IF ~known /\ Cardinality(DOMAIN flows) >= FlowTableCap THEN <<>> ELSE flows
      old == IF known THEN flows[Flow(pkt)] ELSE [pkts |-> 0, payload |-> 0]
      new == [pkts |-> old.pkts + 1, payload |-> old.payload + pkt.payload]
  IN  [f \in DOMAIN table \union {Flow(pkt)} |-> IF f = Flow(pkt) THEN new ELSE table[f]]

(* Classify: the table after a packet, and the packet's class. *)
Counted(pkt) == IF Preset(pkt) = {} THEN Learnt(pkt) ELSE flows

Classify(pkt) ==
  LET seen == Learnt(pkt)[Flow(pkt)]
  IN  IF Preset(pkt) = {} THEN BySize(pkt.proto, seen.payload \div seen.pkts)
      ELSE CHOOSE c \in Preset(pkt) : TRUE

============================================================================
