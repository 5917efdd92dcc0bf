SPECIFICATION FairSpec
CONSTANTS
  a = a
  b = b
  Conns = {a, b}
  Kind <- MCMixed
  Supported <- MCSupported
  Retired = {"2024-11-05"}
  Sendable <- MCSendable
  Returns <- MCSomeReturns
  MaxSent <- MCThreeAndOne
CHECK_DEADLOCK FALSE
INVARIANT TypeOK
INVARIANT AnswersOnceInOrder
INVARIANT HandshakeGuardsTools
INVARIANT CountersAgree
PROPERTY OwnCallOnly
PROPERTY Converses
