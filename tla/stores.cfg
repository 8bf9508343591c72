CONSTANTS
  Calls = {r1, r2, r3}
  Clients = {c1, c2}
  Uris = {x1}
  Accounts = {alice}
  Extras = {e1}
  Configurations <- MCConfigurations
  TTL = 1
  MaxEntries = 1
  MaxClock = 1
  NoRow = NoRow
  NoCall = NoCall
  Nobody = Nobody
  Null = Null

SPECIFICATION Spec

SYMMETRY Symmetric

INVARIANTS
  TypeOK
  NeverLaxer
  StricterWithReason

PROPERTIES
  ImplementsSingleUse
