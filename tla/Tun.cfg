\* Three operations of any kind.
SPECIFICATION TunSpec
CONSTANTS
  f1 = f1
  f2 = f2
  f3 = f3
  p1 = p1
  p2 = p2
  Nil = Nil
  Flows = {f1, f2, f3}
  Ports = {p1}
  Kinds = {"update", "apply", "start", "stop"}
INVARIANTS TunNeedsRights OffReachesCore RestartKeepsServing
\* the supply of operations may be used up
CHECK_DEADLOCK FALSE
