SPECIFICATION FairSpec
CONSTANTS
  Bytes = {"nl", "x", "h1"}
  Newline = "nl"
  CarriageReturn = "cr"
  WhiteSpace = {"nl", "cr"}
  NotUtf8 = {}
  LengthOf <- MCLengthOf
  BadHeaders = {}
  MaxLen = 3
  MaxHeaderLines = 2
  UsizeMax = 3
  MaxInput = 3
  MaxChunk = 2
  Continuations <- MCContinuations
PROPERTY ReadsSettle
