SPECIFICATION Spec
CONSTANTS
  s1 = s1
  s2 = s2
  s3 = s3
  u1 = u1
  u2 = u2
  Servers = {s1, s2}
  Users = {u1}
  OpenUmask = TRUE
  FilesAppear = FALSE
  MaxStarts = 1
CHECK_DEADLOCK FALSE
INVARIANT ListenersStayReachable
