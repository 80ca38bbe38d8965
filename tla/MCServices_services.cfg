SPECIFICATION ServicesSpec
CONSTANTS
  Callers = {c1, c2}
  Absent = Absent
  MaxId = 8
  Execs = {c1, c2}
  MaxTasks = 2
  api = api
  sub = sub
  site = site
  ip = ip
  pub = pub
  cdn = cdn
  lan = lan
  Hosts = {api, sub, site, ip}
  Literals <- MCLiterals
  Above <- MCAbove
  Addrs = {pub, cdn, lan}
  PrivateAddrs = {lan}
  LiteralAddr <- MCLiteralAddr
  Ports = {22, 443}
  Registries = {site}
  Workers = {w1}
  Policies <- MCPolicies
  Wishes <- MCWishes
  Launchers = {"cli", "product"}
  NoPlan = NoPlan
  MaxProxies = 2
  Profiles = {work}
  Cases = {kase}
  Host = Host
  Commands = {c1, c2}
  NoBox = NoBox
  NoWorker = NoWorker
  Nobody = Nobody
  MaxLogins = 2
SYMMETRY Symmetry
INVARIANTS
  ServicesTypeOK
  LoginIsKept
  QuarantineEndsWork
  IdleStopSparesWork
  DeletedLeavesNothing
  WorkerStaysInsidePolicy
  ExplainedIsEnforced
  TokensStayWithLogin
  NeverKeyStarved
PROPERTIES
  RekeyIsFinal
  ExitIsOfLatestTask
CHECK_DEADLOCK FALSE
