\* A request across two restarts of a core the app runs itself.
SPECIFICATION ChannelSpec
CONSTANTS
  r1 = r1
  c1 = c1
  c2 = c2
  i1 = i1
  NoCore = NoCore
  Callers = {r1}
  Cores = {c1, c2}
  Ids = {i1}
  Windows = FALSE
  MaxRestarts = 2
PROPERTIES ImplementsRequestReply EveryCallReturns NoEntryLeaks CallReachesCore
\* the app may have quit
CHECK_DEADLOCK FALSE
