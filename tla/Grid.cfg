SPECIFICATION Spec
CONSTANTS
  Modes <- AllModes
  Kinds <- AllKinds
  Stamps <- Close
  Period = 2
  Delay = 1
  MaxGapFill = 3
  MaxCalls = 4
  None = None
INVARIANT TypeOK
 
INVARIANT RowsInGridOrder
 
INVARIANT RowsHeldBack
INVARIANT InTimeNeverLost
PROPERTY PruningInvisible
\* Calls are bounded, and a finalized and drained synchronizer is at its end.
CHECK_DEADLOCK FALSE
