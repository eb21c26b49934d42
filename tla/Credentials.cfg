\* Two tokens of any kind, long enough for each to expire, and two logins; the
\* fixture credentials of the principals differ or coincide.
SPECIFICATION Spec
CONSTANTS
  PrinOrder <- MCPrinOrder
  ListenerOrder <- MCListenerOrder
  Provider <- MCProvider
  Engine <- MCEngine
  Tenant <- MCTenant
  Email <- MCEmail
  Groups <- MCGroups
  Grants <- MCGrants
  BackendUser <- MCBackendUser
  AwsKey <- MCAwsKey
  Fixtures <- MCFixtures
  AwsUsers <- MCAwsUsers
  Hour = 2
  AwsLife = 1
  Skew = 1
  None = None
  MaxTime = 3
  MaxIssued = 2
  MaxSessions = 2
INVARIANTS
  BackendAccountsDisjoint
  ImdsTokensHonoured
  EntitlementsHonoured
PROPERTY KeepsPolicy
\* The clock stops at its bound.
CHECK_DEADLOCK FALSE
