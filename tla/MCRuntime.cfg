SPECIFICATION RuntimeSpec
CONSTANTS
  p1 = p1
  p2 = p2
  Profile <- MCProfile
  EnabledProfile = {p1}
  Attempt = {a1}
  Entry = {e1}
  ProviderSubject <- MCProviderSubject
  Size = {1, 2}
  GrantTtl = 0
  MaxTime = 1
  MaxGrants = 2
  MaxSinks = 2
  MaxSinkBytes = 2
  Endpoint = {d1, d2}
  Origin = {o1}
  Interface = {wifi, eth}
  Declared <- MCDeclared
  Ttl = 1
  MaxLate = 1
  MaxRecords = 2
  Client = {c1, c2}
  t1 = t1
  t2 = t2
  Token = {t1, t2, t3}
  s1 = s1
  s2 = s2
  ApiScope = {s1, s2}
  None = None
  Held <- MCHeld
  ApiVersion <- MCApiVersion
  Width = 2
  MaxAnswers = 2
  Usn = {u1, u2}
  Location = {l1, l2, l3}
  AllowedLocation = {l1, l2}
  Format = {mp4}
  MaxAge = {0, 2}
  DefaultMaxAge = 1
  Url = {m1, m2}
  LeaseTtl = 2
  MaxLeases = 3
SYMMETRY Symmetry
INVARIANTS
  BytesAreCounted
  RoutesAreLive
  ScopesAreOwn
  LeasesAreExact
CHECK_DEADLOCK FALSE
