\* Two callers and two proxies, two imports, three presses.
SPECIFICATION Spec
CONSTANTS
  c1 = c1
  c2 = c2
  p1 = p1
  p2 = p2
  n1 = n1
  n2 = n2
  Callers = {c1, c2}
  Proxies = {p1, p2}
  Nodes = {n1, n2}
  MaxImports = 2
  MaxPresses = 3
INVARIANTS OneSubscription SelectionKept ServesCurrent
PROPERTIES ImportEnds
\* presses and imports may be used up
CHECK_DEADLOCK FALSE
