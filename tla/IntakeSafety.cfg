SPECIFICATION Spec
CONSTANTS
  u1 = u1
  u2 = u2
  f1 = f1
  f2 = f2
  f3 = f3
  Uploads = {u1, u2}
  Files = {f1, f2, f3}
  FilesOf <- TwoUploads
  Requests = {r1, r2, r3}
  NoId = NoId
  ReadSecondary = TRUE
  MaxFaults = 1
CHECK_DEADLOCK FALSE
SYMMETRY Symmetry
INVARIANTS
  StoredTogether
  OneCallbackStores
PROPERTIES
  KeepsRegister
