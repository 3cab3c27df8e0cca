SPECIFICATION Spec
CONSTANTS
  Buffers = {b1, b2}
  Byte = {x, y}
  NoFile = NoFile
  MEM_LIMIT = 1
  COUNTER_MAX = 2
  MaxLength = 2
  MaxTime = 1
  MaxNames = 2
SYMMETRY Symmetry
INVARIANTS ContentIsWhatWasWritten FilesAreDistinct NoFileOutlivesItsBuffer ScriptReadsItsBody
CHECK_DEADLOCK FALSE
