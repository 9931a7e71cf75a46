SPECIFICATION Spec
CONSTANTS
  document = document
  f1 = f1
  f2 = f2
  f3 = f3
  FileIds = {f1, f2, f3}
  Words = {document}
  Unknown = Unknown
  Payloads <- AllPayloads
INVARIANT CreatedMeansPersisted
CHECK_DEADLOCK FALSE
