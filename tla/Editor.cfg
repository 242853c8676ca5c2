SPECIFICATION Spec
CONSTANTS
  Cols = 3
  Prompt <- MCPrompt
  Typed <- MCTyped
  Prefills <- MCPrefills
  MaxLen = 5
  Chunks = 1
  Commands = 1
  Late = 1
INVARIANTS
  ScreenShowsLine
  CursorIsEditPoint
