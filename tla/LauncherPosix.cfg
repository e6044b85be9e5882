\* macOS and Linux: the app runs the core process itself.
SPECIFICATION Spec
CONSTANTS
  r1 = r1
  r2 = r2
  c1 = c1
  c2 = c2
  NoCore = NoCore
  Callers = {r1, r2}
  Cores = {c1, c2}
  Windows = FALSE
  MaxRestarts = 3
INVARIANTS OneLiveCore CompleteOnce ChannelLeadsToCore
PROPERTIES RestartFinishes CoresDieWithApp CoreGetsChannel
\* the app may have quit, or idle with no core left to start
CHECK_DEADLOCK FALSE
