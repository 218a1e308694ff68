SPECIFICATION FairChatSpec
CONSTANTS
  Chunks <- MCChunks
  End = End
  MaxChunks = 1
  Tools <- MCTools
  BlockedTools = {"add_memory"}
  MutatingTools = {"write_note"}
  GatewayTools = {"get_time"}
  TimeTool = "get_time"
  MaxCalls = 2
  Requests <- MCRequests
  Settings <- MCSettings
  MaxPieces = 2
  MaxThoughts = 1
  CallLists <- MCCallLists
INVARIANTS
  NoToolMarkup
  OneGeneration
  RememberedIsTheAnswer
  CallsAnswerTheRequest
  DeliveredInOrder
PROPERTIES
  StreamSpec
  TurnEnds
