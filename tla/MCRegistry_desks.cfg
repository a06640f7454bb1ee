CONSTANTS
  None = None
  p1 = p1  p2 = p2  c1 = c1  c2 = c2  f1 = f1  f2 = f2  s1 = s1  s2 = s2
  b1 = b1  t1 = t1  t2 = t2  t3 = t3
  Rows = {p1, p2, c1, c2, f1, f2, s1, s2, b1, t1, t2, t3}
  TableOf <- RowTables
  Keys <- AllKeys
  Typed <- TypedKeys
  Lower <- LowerCase
  Strip <- Trimmed
  Offices <- Desks
  Requests = {w1, w2}
SPECIFICATION Spec
SYMMETRY Symmetry
INVARIANTS ReferencesStand 
PROPERTIES TwinsNeedOverlap
