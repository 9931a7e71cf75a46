SPECIFICATION VerdictSpec
CONSTANTS
  u1 = u1
  f1 = f1
  f2 = f2
  Uploads = {u1}
  Files = {f1, f2}
  FilesOf <- OneUpload
  Requests = {r1, r2}
  Polls = {p1}
  NoId = NoId
  ReadSecondary = FALSE
  MaxFaults = 1
CHECK_DEADLOCK FALSE
SYMMETRY Symmetry
INVARIANTS
  VerdictNotBehind
  DuplicateIsIgnored
  AnsweredIsKnown
PROPERTIES
  VerdictNotAhead
  VerdictAdvances
  KeepsEntryLife
