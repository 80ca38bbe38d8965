SPECIFICATION Spec
CONSTANTS
  MaxVersion = 3
  MaxToken = 2
  Names = {n1}
  Runs = {r1}
  Values = {v1}
  Calls = {c1}
  Requests = {q1, q2}
  None = none
  Kinds <- OAuth
SYMMETRY RefreshSymmetry
CHECK_DEADLOCK FALSE
INVARIANTS
  TypeOK
  NoTokenForReplacedCase
  PublishedIsDurable
  NoReplay
  RestartLoadsUsableCredentials
PROPERTIES
  LoginNeverOverwritten
