SPECIFICATION Spec
CONSTANTS
  Conns = {c1, c2}
  Probes = {postgresql, redis}
  Policies <- MCPolicies
INVARIANTS
  ReturnMeansStopped
  NotReadyWhileDraining
  NoUseAfterClose
  ExitZeroMeansDrained
  MetricsAgree
  ExitReleasesEverything
  RetryDelayWithinPolicy
PROPERTIES
  ImplementsContract
  SignalStops
  StartupEnds
  ReadinessFollowsDependencies
