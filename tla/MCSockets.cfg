SPECIFICATION Spec
CONSTANTS
  s1 = s1
  s2 = s2
  s3 = s3
  u1 = u1
  u2 = u2
  Servers = {s1, s2, s3}
  Users = {u1, u2}
  OpenUmask = TRUE
  FilesAppear = TRUE
  MaxStarts = 2
CHECK_DEADLOCK FALSE
SYMMETRY MCSymmetry
INVARIANT LeftoversDoNoHarm
PROPERTY LatecomersKeptOut
PROPERTY KeepsFiles
