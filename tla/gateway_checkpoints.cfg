SPECIFICATION Spec
CONSTANTS
  owner = owner
  other = other
  short = short
  long = long
  Streams = {owner}
  Allowable = {owner}
  MaxUpdates = 2
  Replies = {long}
  NoReply = NoReply
  ChunkCount <- Pieces
  MessageIds = {1}
  CompactionEnabled = TRUE
  TriggerEntries = 2
  TailReserve = 1
  MinEntries = 1
  TailBudget = 2
  Kinds = {"text", "image", "malformed"}
  ReplyKinds = {"update", "piece"}
  FaultyRuns = 1
  MaxRestarts = 1
INVARIANTS
  CheckpointsKeepApart
  ReserveStaysExact
PROPERTIES
  CoverageGrows
  ContextStable
