\* Windows: a slow, failing or absent helper, and what must still happen.
SPECIFICATION Spec
CONSTANTS
  r1 = r1
  r2 = r2
  c1 = c1
  c2 = c2
  NoCore = NoCore
  Callers = {r1}
  Cores = {c1, c2}
  Windows = TRUE
  MaxRestarts = 1
PROPERTIES RestartFinishes CoresDieWithApp
\* the app may have quit, or idle with no core left to start
CHECK_DEADLOCK FALSE
