CONSTANTS
  None = None
  st1 = st1  present = present
  Students = {st1, st2}
  Classes = {c1, c2}
  Sheets = {x1, x2}
  Requests = {w1, w2}
  RegisterOps = {"open", "mark", "replace", "delete"}
  Statuses = {present}
  Batches <- SmallBatches
  MarkIds = {1, 2}
  DayLength = 2
  Offset = 1
  LastInstant = 1
  MaxJoined = 2
SPECIFICATION Spec
SYMMETRY Symmetry
INVARIANTS RegistersStand MarkedOnlyMembers BlanksAgree
PROPERTIES NoBlindRemoval
CHECK_DEADLOCK FALSE
