\* Two requests in flight beside resume-service, one failing look-up.
CONSTANTS
  a1 = a1
  a2 = a2
  i1 = i1
  i2 = i2
  f1 = f1
  f2 = f2
  f3 = f3
  f4 = f4
  p1 = p1
  r1 = r1
  r2 = r2
  None = None
  Resumes = {a1, a2}
  Interviews = {i1, i2}
  Feedbacks = {f1, f2, f3, f4}
  Portfolios = {p1}
  Slots = {r1, r2}
  MaxFaults = 1
SPECIFICATION Spec
SYMMETRY Symmetry
INVARIANTS
  TypeOK
  NoDangling
  FeedbackBound
PROPERTY
  StatusMoves
\* Ids run out: the workload ends with everything deleted.
CHECK_DEADLOCK FALSE
