SPECIFICATION MemorySpec
CONSTANTS
  Words = {"T4", "two", "disk", "host", "port", "asks"}
  Anchors = {"T4", "port"}
  Noise = {"asks"}
  Preference = {}
  Turns = {t1, t2}
  Conversations <- MCConversations
  Replies = {"short", "long"}
  Extractions <- MCExtractions
  Knowledge = {"fact", "rule"}
  Consolidations <- MCConsolidations
  TopK = 1
  Rows = {1, 2}
  InitialCapacities = {1, 2}
  MaxCrashes = 1
  MaxFailures = 1
SYMMETRY TurnSymmetry
CHECK_DEADLOCK FALSE
INVARIANTS
  PairMatches
  RememberedIsOwn
  TurnRemembersOnce
  EveryRowSearchable
  RetrievedIsRelevant
