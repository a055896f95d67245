CONSTANTS
  SessionIds = {1, 2}
  ClientIds = {1, 2}
  PathIds = {1, 2}
  Addrs = {1}
  NoAddr = 0
  SessionTimeout = 1
SPECIFICATION SessLive
INVARIANTS TableBuffersOpen NoEmptySession
PROPERTY SilentExpires
