SPECIFICATION Spec
CONSTANTS
  Script <- MCScript
  Cap = 1
  MaxTriggers = 1
  MaxChats = 1
  MaxCancels = 1
  MaxCrashes = 0
  AgentRequest = AgentRequest
  None = None
INVARIANT SlotFreeAtPost
CHECK_DEADLOCK FALSE
