SPECIFICATION Spec
CONSTANTS
  Script <- MCScript
  Cap = 1
  MaxTriggers = 2
  MaxChats = 2
  MaxCancels = 1
  MaxCrashes = 2
  AgentRequest = AgentRequest
  None = None
INVARIANTS TypeOK OutcomeIsShown
PROPERTIES RecordedIsKept RunningIsSettled
CHECK_DEADLOCK FALSE
