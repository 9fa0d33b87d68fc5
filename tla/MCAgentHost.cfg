SPECIFICATION Spec
CONSTANTS
  MaxCapabilities = 3
  MaxConfigured = 3
  MaxTransactions = 2
  MaxRetryAttempts = 2
  MaxPolicyResources = 4
  PlainOrigins = {"p"}
  Precedes <- MCPrecedes
  Deployments <- MCDeployments
  Runtimes = {r1, r2}
  MaxDnsWorkers = 1
INVARIANTS
  GrantViewsAgree
  BuiltCallsAuthorized
  LoadedHostAdmitted
  OnlyStoresLeaveFiles
  SecretsReachBoundOrigins
  AdmissionSuffices
  RateCapHolds
  AttemptsWithinPolicy
  ResponsesReliable
PROPERTY
  InvocationEnds
CHECK_DEADLOCK FALSE
