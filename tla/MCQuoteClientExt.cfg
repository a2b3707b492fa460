SPECIFICATION FairSpec
CONSTANTS
  c1 = c1
  r = r
  Conns = {k1, k2}
  Fibers = {c1, r}
  NoFiber = NoFiber
  NoConn = NoConn
  MaxOwed = 1
  Slow = {k1, k2}
  Threshold = 1
  CapFactor = 3
  MaxExponent = 1
  RecoveryCap = 1
  ShiftOne <- MCShiftOne
  Callers = {c1}
  Beats = {}
  Recon = r
  Heartbeats = FALSE
  Retries = 1
  MaxIdle = 2
  MaxPending = 1
INVARIANTS CountersAgree
PROPERTIES RequestReturns ReconnectEnds Recovers WaitNeverExtended WindowDoubles
