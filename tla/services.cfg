SPECIFICATION ServicesSpec
CONSTANTS
  Api = {api1}
  Worker = {w1, w2}
  Payment = {t1}
  Nobody = Nobody
  MaxFaults = 2
  Session = {s1}
  Request = {q1, q2}
  Keeper = {k1}
  NoSession = NoSession
  Idle = 2
  Absolute = 3
  Interval = 1
  Horizon = 4
  MaxCookies = 2
  User = {u1}
  Account = {acc1}
  NoUser = NoUser
  NoAccount = NoAccount
  MaxTokens = 2
  MaxTxns = 3
  MaxContacts = 1
  MaxLeads = 2
  MaxEdits = 1
  MaxFailures = 1
  Caller = {c1, c2}
  Spacing = 2
  Cooldown = 3
  MaxSleep = 1
  MaxAttempts = 2
  MaxTime = 9
  Press = {p1, p2}
  PhotoLimit = 2
  MaxBroken = 1
  Group = {g1, g2}
  Update = {m1, m2}
  CacheTtl = 2
  MaxNow = 3
  MaxRestarts = 1
INVARIANTS
  ServicesTypeOK
  LeasesInMode
  IdleSessionsEnd
  OneLinkEach
  OneNewClient
  ClientIsWhole
  OverwriteIsChosen
  PhotosReachGis
  MembersOnly
PROPERTIES
  OldWorkersStop
  EndedStaysEnded
  RevokedTokensDie
  TransactionsEnd
  SlotsAreSpaced
  LinksArePublic
CHECK_DEADLOCK FALSE
