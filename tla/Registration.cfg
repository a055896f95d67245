CONSTANTS
  SessionIds = {1}
  ClientIds = {1}
  PathIds = {1}
  Addrs = {1, 2}
  NoAddr = 0
  SessionTimeout = 2
  Sess = 1
  Me = 1
  Wan = 1
  HelloRetry = 1
  HelloRefresh = 2
  RedialEvery = 1
  PathStaleAfter = 2
  MaxFaults = 3
  MaxInFlight = 1
SPECIFICATION LiveSpec
PROPERTIES EndsServed GoneIsForgotten
