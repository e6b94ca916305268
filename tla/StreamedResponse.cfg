SPECIFICATION Spec
CONSTANTS
  Event <- MCEvent
  Bodies <- MCBodies
  Chunks <- MCChunks
  None = None
CHECK_DEADLOCK FALSE
INVARIANTS
  Reassembled
  RecordedAll
  EndedWhenDone
