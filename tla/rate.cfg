CONSTANTS
  Requests = {r1, r2, r3, r4, r5}
  Keys = {k1, k2}
  Limit <- MCLimit
  Window = 2
  MaxClock = 4
  NoKey = NoKey

SPECIFICATION Spec

SYMMETRY Symmetric

INVARIANTS
  TypeOK
  WindowLimit

PROPERTIES
  LimitedOnlyWhenFull

\* All requests may have been answered.
CHECK_DEADLOCK FALSE
