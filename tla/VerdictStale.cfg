SPECIFICATION VerdictSpec
CONSTANTS
  u1 = u1
  f1 = f1
  f2 = f2
  Uploads = {u1}
  Files = {f1, f2}
  FilesOf <- OneUpload
  Requests = {r1}
  Polls = {p1}
  NoId = NoId
  ReadSecondary = TRUE
  MaxFaults = 0
CHECK_DEADLOCK FALSE
SYMMETRY Symmetry
INVARIANTS
  VerdictNotBehind
