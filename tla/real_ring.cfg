SPECIFICATION RFairSpec
CONSTANTS
  Server <- RealServers
  NumReplicas = 3
  HashMax = 99
  ServerHash <- RealServerHash
  Doc <- RealDocs
  DocHash <- RealDocHash
  Content = {c1}
  NoContent = NoContent
  Unset = Unset
  TaskQueueSize = 1
  CacheSize = {0, 2}
INVARIANTS
  IInv
  DocumentsPlaced
  TasksPlaced
  LabelsAreSet
  LabelOwnsDocument
PROPERTIES
  RequestsComplete
  RequestsAdvance
  EvictionReported
