SPECIFICATION Spec
CONSTANTS
  q1 = q1
  q2 = q2
  q3 = q3
  ann = ann
  bob = bob
  github = github
  google = google
  home = home
  k1 = k1
  k2 = k2
  k3 = k3
  u1 = u1
  u2 = u2
  s1 = s1
  Local = Local
  Nobody = Nobody
  Requests <- TwoRequests
  People <- AnnAndBob
  Providers <- TwoProviders
  ProviderOf <- Profiles
  Addresses <- OneAddress
  Keys <- ThreeKeys
  Uids <- TwoUids
  Nonces <- OneNonce
SYMMETRY AccountSymmetry
INVARIANTS
  OneAccountEach
  SessionBound
  FarmingBound
  SpentStateRefused
PROPERTIES
  OlderSessionsEnd
  EndedByRight
