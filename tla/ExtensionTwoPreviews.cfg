SPECIFICATION Spec
CONSTANTS
  None = None
  b = b
  h = h
  c1 = c1
  c2 = c2
  c3 = c3
  a1 = a1
  a2 = a2
  s1 = s1
  Provider = {b, h}
  Publication = {c1, c2, c3}
  Asker = {a1, a2}
  Switch = {s1}
  MaxOutbox = 2
  MaxRounds = 1
  MaxFaults = 2
INVARIANT PreviewKeepsNothing
