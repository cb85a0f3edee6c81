SPECIFICATION Spec
CONSTANTS
  t = t
  u = u
  Prompt <- MCPrompt
  BlockSize = 2
  MaxEvents = 3
INVARIANT NoPhantomBlocks
CHECK_DEADLOCK FALSE
