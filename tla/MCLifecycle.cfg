SPECIFICATION FairSpec
CONSTANTS
  CommandLines <- MCEveryWay
  Allowed = {"stdio", "unix"}
  Clients = {c1, c2}
  MaxRecords = 2
CHECK_DEADLOCK FALSE
INVARIANT IInv
INVARIANT KilledOnlyBeforeBuild
INVARIANT EveryEndExports
PROPERTY SignalEndsProcess
PROPERTY FailureIsReported
PROPERTY ClientEndsStdio
