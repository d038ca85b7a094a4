SPECIFICATION FairSpec
CONSTANTS
  Server <- TwoServers
  NumReplicas = 1
  HashMax = 99
  ServerHash <- TwoHashes
  Doc = {1, 2}
  DocHash <- DocsOffPoint
  Content = {c1, c2}
  NoContent = NoContent
  TaskQueueSize = 2
  CacheSize = {1}
PROPERTY
  AcknowledgedEditsAreQueued
