SPECIFICATION Spec
CONSTANTS
  Identities <- MCIdentities
  Base <- MCBase
  ToolLists <- MCToolLists
  Strays <- MCStrays
  MaxTurns = 2
  MaxItems = 5
INVARIANTS HistoryFaithful ToolsToldApart OwnOutputAccepted
CHECK_DEADLOCK FALSE
