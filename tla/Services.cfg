SPECIFICATION Spec
CONSTANTS
  Child = {c1, c2}
  MaxCommands = 3
  User = {u1, u2}
  Approver = {u2}
  Stranger = {x}
  Request = {r1, r2}
  MaxWorkers = 1
  MaxBlocks = 1
  FINALIZATION_THRESHOLD = 2
  K = 4
  MaxLength = 7
  AGENT_TX_BATCH_SIZE = 2
  MaxAttempts = 5
  Check <- MCCheck
  Period <- MCPeriod
  fns <- MCfns
CHECK_DEADLOCK FALSE
INVARIANT DaemonFileIsTrue
INVARIANT FaucetKeepsAccounts
INVARIANT FinalizedUnlessNodeFellBack
INVARIANT CountersBoundPayments
PROPERTY TakenInTurn
PROPERTY ServicesGoOn
