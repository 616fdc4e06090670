SPECIFICATION Spec
CONSTANTS
  k1 = k1
  k2 = k2
  k3 = k3
  flag = flag
  all = all
  j0 = j0
  j1 = j1
  j2 = j2
  j3 = j3
  on = on
  off = off
  NoConfig = NoConfig
  Missing = Missing
  Conns = {k1, k3}
  Topics = {flag, all}
  TopicOf <- MCTopicOf
  AllTopics = {all}
  Configs = {NoConfig, j1, j2}
  EmptyConfigs <- MCEmptyConfigs
  FlagOf <- MCFlagOf
  PubCap = 1
  RecvCap = 1
  Quitters = {}
  Removable = FALSE
  MaxClients = 2
  MaxChanges = 2
  MaxResets = 1
INVARIANTS
  TypeOK
  QuietImpliesUpToDate
CHECK_DEADLOCK FALSE
