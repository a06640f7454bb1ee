CONSTANTS
  Nothing = Nothing
  st1 = st1
  Students = {st1}
  Classes = {c1}
  Subjects = {s1}
  Faculty = {f1}
  Exams = {e1}
  Requests = {w1, w2}
  Office = {w2}
  Linkable = {w1}
  ExamOps = {"create", "total", "marks"}
  Batches <- TopScore
  MarkIds = {1, 2}
  MaxTotal = 2
SPECIFICATION Spec
INVARIANTS MarksWithinTotal
CHECK_DEADLOCK FALSE
