SPECIFICATION Spec
CONSTANTS
  c1 = c1  c2 = c2  c3 = c3
  Players = {p1, p2}
  Clubs = {c1, c2}
  AppOf <- OneApp
  Ids = {i1, i2}
  Accounts = {a1, a2, a3}
  Handlers = {h1, h2}
  None = None
  MaxRollbacks = 1
SYMMETRY Symmetry
PROPERTIES AloneNeverClashes 
