CONSTANTS
  None = None
  c1 = c1  c2 = c2  s1 = s1  s2 = s2
  Students = {st1}
  EnrollmentIds = {e1, e2}
  Classes = {c1}
  Subjects = {s1, s2}
  Requests = {w1}
  Admins = {a1}
  Sessions = {w1, a1}
  InitialOffer <- OfferAll
  InitialLimit <- OneSeat
  EnrollmentOps = {"enroll", "set", "unenroll"}
  OneEditor = TRUE
  AdminOps = {"setClasses", "setLimit", "deleteSubject", "reconcile"}
  Limits = {1}
SPECIFICATION FairSystemSpec
PROPERTIES WorkEnds
