SPECIFICATION Spec
CONSTANTS
  owner = owner
  other = other
  short = short
  long = long
  Streams = {owner}
  Allowable = {owner}
  MaxUpdates = 1
  Replies = {long}
  NoReply = NoReply
  ChunkCount <- Pieces
  MessageIds = {1}
  CompactionEnabled = FALSE
  TriggerEntries = 2
  TailReserve = 1
  MinEntries = 1
  TailBudget = 2
  Kinds = {"text"}
  ReplyKinds = {}
  FaultyRuns = 0
  MaxRestarts = 1
INVARIANTS
  NoDuplicateAnswer
