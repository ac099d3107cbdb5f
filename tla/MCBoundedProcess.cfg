\* Small pipes, a queue of one item and reads of two units, so that the child,
\* the readers and the caller all block on one another, and a budget the output
\* can exceed.
SPECIFICATION Spec
CONSTANTS
  ReadSize = 2
  PipeCap = 1
  QueueCap = 1
  MaxWrites = 2
  Budget = 1
  Deadline = 2
  CleanupReserve = 1
  Escapes = FALSE
INVARIANTS
  OutcomeIsTrue
  NothingOutlives
PROPERTIES
  ReadersEnd
  CallSpec
CHECK_DEADLOCK FALSE
