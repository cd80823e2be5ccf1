SPECIFICATION Spec
CONSTANTS
  p1 = p1
  p2 = p2
  p3 = p3
  Backup = {b1, b2, b3}
  Source = {s1}
  Types = {"full"}
  Proc = {p1, p2, p3}
  Entry <- RetentionEntry
  Killable = {p2, p3}
  Keep = {1}
  MaxChunks = 1
  InlineCap = 0
  None = None
SYMMETRY RetentionSymmetry
INVARIANTS RetentionFloor FloorInv
