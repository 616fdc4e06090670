SPECIFICATION FairSpec
CONSTANTS
  k1 = k1
  k2 = k2
  k3 = k3
  flag = flag
  all = all
  j0 = j0
  j1 = j1
  j2 = j2
  j3 = j3
  on = on
  off = off
  NoConfig = NoConfig
  Missing = Missing
  Conns = {k1, k2}
  Topics = {flag}
  TopicOf <- MCTopicOf
  AllTopics = {}
  Configs = {NoConfig, j1, j2}
  EmptyConfigs <- MCEmptyConfigs
  FlagOf <- MCFlagOf
  PubCap = 2
  RecvCap = 1
  Quitters = {k1}
  Removable = TRUE
  MaxClients = 1
  MaxChanges = 1
  MaxResets = 0
PROPERTIES
  EventuallyUpToDate
CHECK_DEADLOCK FALSE
