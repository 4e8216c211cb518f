SPECIFICATION Spec
CONSTANTS
  Pods <- MCPods
  Container <- MCContainer
  Window = 0
  one_hour = 1
  MaxAge = 2
  MaxRestarted = 1
  None = None
  Peer <- MCPeer
  Seeds <- MCSeeds
  Chain <- MCChain
  Phrases <- MCPhrases
  N = 1
  MinChain = 3
  MaxRounds = 2
  Block <- MCBlock
  Parent <- MCParent
  Peers <- MCPeers
  MaxLength = 4
  Producers <- MCProducers
  Accounts <- MCAccounts
  Windows = {1, 3}
  discord_char_limit = 2000
  Uptimes = {45, 200, 8000, 20000}
  MaxReports = 3
  MaxFaults = 2
  chunk_size = 3
  MaxChars = 5
CHECK_DEADLOCK FALSE
INVARIANT AlarmsAreReal
INVARIANT StatusGaugesAgree
INVARIANT ForkReportIsRight
INVARIANT ReportIsConsistent
INVARIANT OutputIsIntactOrReported
