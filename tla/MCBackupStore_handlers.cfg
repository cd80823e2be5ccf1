SPECIFICATION Spec
CONSTANTS
  p1 = p1
  p2 = p2
  p3 = p3
  Backup = {b1, b2}
  Source = {s1}
  Types = {"full", "incremental"}
  Proc = {p1, p2}
  Entry <- HandlersEntry
  Killable = {p1, p2}
  Keep = {1}
  MaxChunks = 1
  InlineCap = 0
  None = None
SYMMETRY FullSymmetry
INVARIANTS FullInv ChainGrounded
PROPERTIES NeverReactivated OnlyKillsTear
