SPECIFICATION Spec
CONSTANTS
  p1 = p1
  p2 = p2
  p3 = p3
  Backup = {b1}
  Source = {s1}
  Types = {"full"}
  Proc = {p1, p2, p3}
  Entry <- BridgeEntry
  Killable = {p1, p2, p3}
  Keep = {1}
  MaxChunks = 3
  InlineCap = 2
  None = None
CHECK_DEADLOCK FALSE
INVARIANTS IndInv SealedIntact ReadExact
PROPERTIES ImplementsLifecycle LeftoversExplained
