SPECIFICATION FairSpec
CONSTANTS
  p1 = p1
  p2 = p2
  p3 = p3
  Backup = {b1, b2}
  Source = {s1}
  Types = {"full"}
  Proc = {p1, p2, p3}
  Entry <- DeletersEntry
  Killable = {}
  Keep = {1}
  MaxChunks = 1
  InlineCap = 0
  None = None
INVARIANTS TornHasWriter
PROPERTIES DeletedDataRemoved
