\* Batches of one to three cases, a live model that answers anything or fails; and
\* batches in which one customer has more cases than the gateway approves.
CONSTANTS
  Batches <- LiveBatches
  Provider = "http"
  ModelReplies <- LiveReplies
SPECIFICATION FairPipelineSpec
CONSTRAINT OneSetback
INVARIANTS
  PipelineTypeOK
  CriticalIsNeverAuthorised
  CheckersAgree
  RetriedDeclinesAreProven
  EachCaseShowsItsOwnRecord
  FunnelAddsUp
  ScoresAreSound
  PagesCoverTheList
PROPERTIES
  EventuallyReady
CHECK_DEADLOCK FALSE
