SPECIFICATION MacroSpec
CONSTANTS
  Token <- Tokens
  Sources <- Files
  Supported <- Accepted
  Unreadable = Unreadable
  None = None
CHECK_DEADLOCK FALSE
INVARIANTS
  Sound
  Accepts
  CodeOfSource
PROPERTIES
  Returns
