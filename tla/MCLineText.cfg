SPECIFICATION FairSpec
CONSTANTS
  Bytes = {"nl", "cr", "sp", "x", "h0", "h9", "junk"}
  Newline = "nl"
  CarriageReturn = "cr"
  WhiteSpace = {"nl", "cr", "sp"}
  NotUtf8 = {}
  LengthOf <- MCLengthOf
  BadHeaders = {"junk"}
  MaxLen = 3
  MaxHeaderLines = 2
  UsizeMax = 7
  MaxInput = 5
  MaxChunk = 1
  Continuations <- MCContinuations
INVARIANT TypeOK
INVARIANT RefusedOnlyIfHopeless
PROPERTY ReadsFrames
PROPERTY ReadsSettle
