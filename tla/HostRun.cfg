\* Every world, every outcome of every attempt.
SPECIFICATION HostFairSpec
CONSTANTS
  File = {"asked", "other"}
  Asked = "asked"
INVARIANTS TypeOK WholeOrNothing SubstituteOnly
PROPERTIES IsolationDescends CallReturns
CHECK_DEADLOCK FALSE
