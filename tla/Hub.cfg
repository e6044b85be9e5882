\* Three requests of any kind.
SPECIFICATION Spec
CONSTANTS
  q1 = q1
  q2 = q2
  q3 = q3
  p1 = p1
  p2 = p2
  Nil = Nil
  Requests = {q1, q2, q3}
  Ports = {p1, p2}
  Kinds = {"start", "stop", "update", "setup"}
  Lans = {FALSE}
INVARIANTS ServesConfig MixedPaired InboundServed SettingsApplied
 
\* every request may have been answered
CHECK_DEADLOCK FALSE
