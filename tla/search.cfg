SPECIFICATION Spec
CONSTANTS
  Server = {0, 1, 2}
  NumReplicas = 2
  HashMax = 2
  IdMax = 9
  MaxListed = 3
INVARIANTS
  FindsNextReplica
  FindsExecutor
  FilesWhereForwarded
  NewestTwinAnswers
