SPECIFICATION Spec
CONSTANTS
  t1 = t1 t2 = t2 t3 = t3 u1 = u1 u2 = u2 c1 = c1 c2 = c2 x1 = x1 x2 = x2 x3 = x3
  Txns = {t1, t2}
  Users = {u1}
  Author = u1
  Comments = {c1}
  Reports = {x1, x2}
  Threshold = 2
SYMMETRY Symmetry
INVARIANTS ReportedIsListed
