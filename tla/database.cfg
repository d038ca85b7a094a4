SPECIFICATION RSpec
CONSTANTS
  Server <- Servers3
  NumReplicas = 1
  HashMax = 99
  ServerHash <- Hash3x1
  Doc = {1, 2}
  DocHash <- Docs2
  Content = {c1, c2}
  NoContent = NoContent
  NoAnswer = NoAnswer
  Unset = Unset
  TaskQueueSize = 2
  CacheSize = {1}
INVARIANTS
  TypeOK
  DocumentsPlaced
  TasksPlaced
  StoredOnce
  CacheCoherent
  CacheWellFormed
  CrashOnlyWithoutServers
PROPERTIES
  CreatedOnlyIfNew
  ImplementsKVStore
  EditsTakeEffect
