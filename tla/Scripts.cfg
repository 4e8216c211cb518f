SPECIFICATION Spec
CONSTANTS
  num_whale_accounts = 1
  num_fish_accounts = 2
  Decimals = 2
  MaxKeys = 3
  RowKey <- MCRowKey
  Chains <- MCChains
  Workers = 2
  MaxPods = 3
  ForwardTries = 2
  QueryTries = 2
  Peer = {"p1", "p2"}
  Parent <- MCParent
  Gossiped = {"b", "c"}
  Times = {0, 300}
  Second = 1000
  MaxEntries = 5
  max_entries = 3
  k8s_context <- MCContexts
  namespace_pattern <- MCPatterns
  Namespace <- MCNamespace
  cleanup_older_than = 1
  MaxAge = 1
  MaxRecreated = 1
  Cluster = {"east", "west"}
  port_context = "west"
  ServiceNamespace = {"n1", "n2"}
  Zone = {"z1", "z2"}
  Port = {1, 2}
  MaxDeploys = 1
  Job = {"j1", "j2"}
  Agent = {"a1", "a2"}
  Day = 10
  Scrape = {"s1", "s2"}
  JobTimes = {3}
  Label = {"l"}
  MAX_ARTIFACTS_COUNT = 1
CHECK_DEADLOCK FALSE
INVARIANT LedgerIsClosed
INVARIANT DrawingsMatchInputs
INVARIANT ScrapeIsOneLook
 
