SPECIFICATION Spec
CONSTANTS
  owner = owner
  other = other
  short = short
  long = long
  Streams = {owner, other}
  Allowable = {owner, other}
  MaxUpdates = 2
  Replies = {short, long}
  NoReply = NoReply
  ChunkCount <- Pieces
  MessageIds = {1}
  CompactionEnabled = FALSE
  TriggerEntries = 1
  TailReserve = 1
  MinEntries = 1
  TailBudget = 2
  Kinds = {"text", "malformed"}
  ReplyKinds = {}
  FaultyRuns = 1
  MaxRestarts = 2
PROPERTIES
  PromiseKept
