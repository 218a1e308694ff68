SPECIFICATION Spec
CONSTANTS
  owner = owner
  other = other
  short = short
  long = long
  Streams = {owner}
  Allowable = {owner}
  MaxUpdates = 3
  Replies = {short, long}
  NoReply = NoReply
  ChunkCount <- Pieces
  MessageIds = {1}
  CompactionEnabled = FALSE
  TriggerEntries = 1
  TailReserve = 1
  MinEntries = 1
  TailBudget = 3
  Kinds = {"text", "image", "malformed"}
  ReplyKinds = {}
  FaultyRuns = 1
  MaxRestarts = 1
INVARIANTS
  OneBatchPerUpdate
  NothingSkipped
  BatchesInArrivalOrder
  TranscriptMatchesJobs
  ShownIsSaved
PROPERTIES
  AnswersAreFinal
