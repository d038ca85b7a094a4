SPECIFICATION FairSpec
CONSTANTS
  Doc = {d1, d2, d3}
  Nobody = Nobody
  Node = {n1, n2, n3}
  TaskQueueSize = 3
  IndexSize = 3
  Null = Null
INVARIANTS
  ListsIntact
  IndexNamesCurrent
  NobodyTwice
PROPERTIES
  ImplementsBoundedQueue
  ImplementsMoves
  LoopsEnd
  LoopsAdvance
