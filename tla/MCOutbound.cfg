CONSTANTS
  Bulk = Bulk
  Realtime = Realtime
  Interactive = Interactive
  TCP = "tcp"
  UDP = "udp"
  AnyProto = "any"
  InteractivePorts <- MCInteractivePorts
  Rules <- MCRules
  RealtimeMaxUDPSize = 10
  InteractiveMaxTCP = 5
  FlowTableCap = 1
  Packets <- MCPackets
  ScanAhead = 2
  FifoCap = 3
  MaxInFlight = 2
  MaxPkts = 2
  PendingCap = 1
SPECIFICATION OutSpec
INVARIANTS EntriesStay RightWithoutDrops DropsAbsorbed FlowKeepsClass
