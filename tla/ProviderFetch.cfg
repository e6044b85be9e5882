\* Two lists; the pull loop, an update and a side load; two changes of the
\* server's content and one crash.
SPECIFICATION Spec
CONSTANTS
  a = a
  b = b
  p0 = p0
  u1 = u1
  s1 = s1
  Nil = Nil
  Bad = Bad
  Lists = {a, b}
  Pull = p0
  Updates = {u1}
  Sides = {s1}
  MaxChanges = 2
  MaxCrashes = 1
INVARIANTS HashIsInstalled
PROPERTIES Converges FileServes
\* without a pull loop everything may have been done
CHECK_DEADLOCK FALSE
