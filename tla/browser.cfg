CONSTANTS
  Tabs = {t1, t2}
  Browsers = {b1, b2}
  MaxSecrets = 4
  NoSecret = NoSecret

SPECIFICATION Spec

SYMMETRY Symmetric

INVARIANTS
  TypeOK
  BoundToBrowser
  ReturnsWhereAsked
