SPECIFICATION Spec
CONSTANTS
  Path <- MCPath
  Inode <- MCInode
  n1 = n1
  n2 = n2
  n3 = n3
  n4 = n4
  n5 = n5
  n6 = n6
  n7 = n7
  n8 = n8
  n9 = n9
  Job = {j1, j2}
  Asked <- MCAsked
  Payloads <- MCPayloads
  Trees <- MCTrees
  TmpName <- MCTmpName
  StemName <- MCStemName
  NoInode = NoInode
SYMMETRY Symmetry
CHECK_DEADLOCK FALSE
INVARIANTS TypeOK FileInv  GenuineInside StoreExact FetchExact UnpacksOwn  DeleteExact ListExact  
PROPERTIES Contained OnlyFootprintsChange 
