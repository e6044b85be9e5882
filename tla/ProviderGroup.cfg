\* Two lists, installed up to twice, two connections, one choice, a health check
\* with an interval.
SPECIFICATION Spec
CONSTANTS
  n1 = n1
  n2 = n2
  c1 = c1
  c2 = c2
  Nil = Nil
  HasInterval = TRUE
  Nodes = {n1, n2}
  Lists <- TwoLists
  Saved = n2
  Conns = {c1, c2}
  MaxInstalls = 2
  MaxChoices = 1
INVARIANTS SharedDecisionIsCurrent
PROPERTIES ReadIsCurrent SelectionIsUsed ListIsTested
