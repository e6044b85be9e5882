\* Three starts and stops and two connections.
SPECIFICATION Spec
CONSTANTS
  c1 = c1
  c2 = c2
  c3 = c3
  d1 = d1
  d2 = d2
  Nil = Nil
  Calls = {c1, c2, c3}
  Dials = {d1, d2}
  Permits = 2
INVARIANTS NoUseAfterRelease OneDevice
PROPERTIES EveryCallEnds
\* the supply of calls may be used up
CHECK_DEADLOCK FALSE
