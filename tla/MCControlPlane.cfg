SPECIFICATION MCSpec
CONSTANTS
  Account = {u1}
  Stranger = {u2}
  Addr = {a1, a2}
  Attempt = {c1, c2}
  LockThreshold = 2
  IPLockThreshold = 3
  IPLockMapMax = 1
  UserName = {u0, u1}
  RootName = u0
  GrantRole = {"admin"}
  SSOName = {u1}
  GroupRole <- MCGroupRole
  SessionId = {s1, s2}
  Client = {c1, c2}
  Dependency = {"none", "rules", "managed", "aghsync", "reload", "killswitch", "oidc"}
  EntryId = {e1}
  Generation = {c1, c2}
  FeedConfigs <- MCFeedConfigs
  StaleTargetTTL = 0
  HistMax = 2
  FilterMax = 2
  RuleId = {r1}
  StoreObj = {o1, o2, o3}
  FirstStore = o1
  NoReview = NoReview
  FileCount = 2
  PolicyDocs <- MCPolicyDocs
  RequestKind = {"q1", "q2"}
  SafeDefault = "stub"
  NoDefault = "none"
  Section = {"target", "scheduler", "other"}
  Key = {"mode", "ips", "enabled"}
  Value = {"v1", "v2"}
  SectionKeys <- MCSectionKeys
  ConfFiles <- MCConfFiles
  RingSize = 2
  RecOptions <- MCRecOptions
  NoRecord = NoRecord
  LogMax = 3
  UnmatchedKey = {r1, r2, r3}
  AggregatorMax = 2
  HitMax = 7
  Sni = {n1, n2}
  Handshake = {c1, c2}
  CA = {1, 2}
  CAEnd <- MCCAEnd
  LeafTTL = 1
  CacheMax = 1
  NoLeaf = NoLeaf
  TornFile = TornFile
  ClockMax = 1
  ClientStreams <- MCClientStreams
  MaxRecords = 2
  MaxHandshake = 3
  HelloLen = 4
  Datagrams <- MCDatagrams
  Undecryptable = Undecryptable
  FeedMax = 4
  Writer = {c1, c2}
  Inode = {i1, i2, i3}
  None = None
  Torn = Torn
  Empty = Empty
  MutexHeld = TRUE
  EmptyIsFresh = FALSE
  MaxUpdates = 4
SYMMETRY MCSymmetry
INVARIANTS
  ControlPlaneTypeOK
  GuessBound
  SessionsCurrent
  AdminRemains
  RoleEffects
  ChangesAudited
  HistoryBalances
  TargetFresh
  FeedOnce
  
  MatchIsFirst
  PatchCorrect
  StreamExact
  ViewsRedacted
  RecentKept
  LeafServable
  PeekExact
  JoinExact
PROPERTIES
  EmergencySticks
  RegisterSpec
CHECK_DEADLOCK FALSE
