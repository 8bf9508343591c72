CONSTANTS
  p1 = p1
  p2 = p2
  p3 = p3
  shared = shared
  older = older
  newer = newer
  s1 = s1
  s2 = s2
  u1 = u1
  u2 = u2
  Replicas = {p1, p2, p3}
  Clients = {shared, older, newer}
  Secrets = {s1, s2}
  Uris = {u1, u2}
  Configuration <- MCConfiguration
  Lookups = {l1}
  MaxCrashes = 1
  NoRow = NoRow
  Nobody = Nobody
  NoClient = NoClient
SPECIFICATION FairSpec
INVARIANTS
  TypeOK
  ClientWhole
  LastStartWins
  LookupTrueOnce
PROPERTIES
  AllReplicasServe
\* The replicas may all serve and the lookup be answered.
CHECK_DEADLOCK FALSE
