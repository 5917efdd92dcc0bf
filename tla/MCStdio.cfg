SPECIFICATION Spec
CONSTANTS
  Supported <- MCSupported
  Retired = {"2024-11-05"}
  Modern = {"2025-11-25"}
  Issuers = {}
  Trimmed <- MCNothing
  Audiences = {}
  Setups <- MCSetups
  Frames <- MCFrames
  Results <- MCResults
  Toolboxes <- MCToolboxes
  MaxSent = 3
  MaxAhead = 1
CHECK_DEADLOCK FALSE
INVARIANT TypeOK
INVARIANT WholeReplies
INVARIANT LastWord
INVARIANT SaysWhatHappened
PROPERTY FaultIsFinal
PROPERTY Converses
