\* The mock provider and one dataset.
CONSTANTS
  Batches <- FullBatch
  Provider = "mock"
  ModelReplies = {}
SPECIFICATION PipelineSpec
INVARIANTS
  HardDeclinesAreBlocked
CHECK_DEADLOCK FALSE
