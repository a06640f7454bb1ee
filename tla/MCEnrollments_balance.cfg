CONSTANTS
  None = None
  c1 = c1  c2 = c2  s1 = s1  s2 = s2
  Students = {st1, st2}
  EnrollmentIds = {e1, e2, e3}
  Classes = {c1, c2}
  Subjects = {s1, s2}
  Requests = {w1, w2}
  Sessions = {w1, w2}
  InitialOffer <- OfferSplit
  InitialLimit <- OneSeat
  EnrollmentOps = {"enroll", "set", "move", "unenroll"}
  OneEditor = TRUE
SPECIFICATION Spec
SYMMETRY Symmetry
INVARIANTS BooksBalance OneClassPerStudent
PROPERTY AllocationSpec
