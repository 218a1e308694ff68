SPECIFICATION Spec
CONSTANTS
  owner = owner
  other = other
  short = short
  long = long
  Streams = {owner}
  Allowable = {owner}
  MaxUpdates = 2
  Replies = {short}
  NoReply = NoReply
  ChunkCount <- Pieces
  MessageIds = {1}
  CompactionEnabled = TRUE
  TriggerEntries = 2
  TailReserve = 4
  MinEntries = 1
  TailBudget = 2
  Kinds = {"text"}
  ReplyKinds = {}
  FaultyRuns = 0
  MaxRestarts = 0
INVARIANTS
  ReserveStaysExact
