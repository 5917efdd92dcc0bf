SPECIFICATION Spec
CONSTANTS
  Bytes = {"nl", "x", "bad", "h1"}
  Newline = "nl"
  CarriageReturn = "cr"
  WhiteSpace = {"nl", "cr"}
  NotUtf8 = {"bad"}
  LengthOf <- MCLengthOf
  BadHeaders = {}
  MaxLen = 2
  MaxHeaderLines = 1
  UsizeMax = 7
  MaxInput = 8
  MaxChunk = 2
  Continuations <- MCContinuations
INVARIANT IInv
INVARIANT BoundedFrame
PROPERTY BoundedReads
PROPERTY PoisonIsForever
PROPERTY ReadsFrames
