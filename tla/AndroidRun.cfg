\* Two calls at once, six presses.
SPECIFICATION Spec
CONSTANTS
  o1 = o1
  o2 = o2
  Ops = {o1, o2}
  MaxPresses = 6
INVARIANTS AppAgrees NeverWithoutConfig LoopAlive
\* presses may be used up
CHECK_DEADLOCK FALSE
