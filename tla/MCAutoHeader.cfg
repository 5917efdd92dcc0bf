SPECIFICATION Spec
CONSTANTS
  Bytes = {"nl", "x", "bad", "h1"}
  Newline = "nl"
  CarriageReturn = "cr"
  WhiteSpace = {"nl", "cr"}
  NotUtf8 = {"bad"}
  LengthOf <- MCLengthOf
  BadHeaders = {}
  MaxLen = 3
  MaxHeaderLines = 2
  UsizeMax = 7
  MaxInput = 4
  MaxChunk = 2
  Continuations <- MCContinuations
PROPERTY UndecodableHeaderEndsStream
