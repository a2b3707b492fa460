SPECIFICATION Spec
CONSTANTS
  c1 = c1
  b1 = b1
  r = r
  Conns = {k1, k2, k3}
  Fibers = {c1, b1, r}
  NoFiber = NoFiber
  NoConn = NoConn
  MaxOwed = 1
  Slow = {k1, k2}
  Threshold = 1
  CapFactor = 1
  MaxExponent = 0
  RecoveryCap = 0
  ShiftOne <- MCShiftOne
  Callers = {c1}
  Beats = {b1}
  Recon = r
  Heartbeats = TRUE
  Retries = 1
  MaxIdle = 2
  MaxPending = 1
INVARIANTS TypeOK OnlineIsLoggedIn OnlyCurrentOpen LoginKeepsConnection CleanBetweenCalls
PROPERTIES PromptAnswersOwn
