SPECIFICATION Spec
CONSTANTS
  Cols = 3
  Prompt <- MCPrompt
  Typed <- MCTyped
  Prefills <- MCPrefills
  MaxLen = 5
  Chunks = 0
  Commands = 0
  Late = 0
INVARIANT
  TypedIsWritten
