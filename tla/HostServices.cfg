SPECIFICATION HostSpec
CONSTANTS
  Backups = {b1, b2}
  FileCount = 2
  MaxEdits = 1
  Artifacts = {a1, a2}
  Forbidden = {a2}
  Targets = {t1, t2}
  Materializers = {m1, m2}
  Extractors = {x1, x2}
  Callers = {s1, s2, s3, s4}
  Capacity = 2
  NoCaller = NoCaller
  Users = {u1}
  Sources = {p1, p2}
  Threads = {h1, h2, h3}
  MaxEntries = 2
  MaxClock = 3
  Accounts = {op}
  Requests = {r1, r2}
  Tokens = {k1}
  Conditions = {c1, c2}
  Evaluators = {e1, e2}
  Retention = 1
  MaxChanges = 3
  ServiceIds = {v1, v2}
  EndpointIds = {w1}
  IntegrationIds = {n1}
  NoRef = NoRef
  MaxManifests = 4
  MaxExamples = 1
  MaxRuns = 3
  Preparers = {q1, q2}
  Roots = {i1, i2}
INVARIANT HostTypeOK
INVARIANT ListedIsWhole
INVARIANT VerifiedIsPreserved
INVARIANT MarkerMeansBuilt
INVARIANT NodeExclusive
INVARIANT FailuresBounded
INVARIANT AuditFaithful
INVARIANT ChecksAgree
INVARIANT LoadedAnswers
INVARIANT PassIsEvidenced
INVARIANT TreeIsDelivered
PROPERTY SerialEnds
PROPERTY HostAlertsConverge
CHECK_DEADLOCK FALSE
