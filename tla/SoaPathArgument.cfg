SPECIFICATION MacroSpec
CONSTANTS
  Token <- Tokens
  Sources <- PathFields
  Supported <- Accepted
  Unreadable = Unreadable
  None = None
CHECK_DEADLOCK FALSE
INVARIANTS
  CodeOfSource
