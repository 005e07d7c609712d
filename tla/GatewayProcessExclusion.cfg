\* One process leaves, one is about to lock the file it leaves, one comes after.
SPECIFICATION Spec
CONSTANTS
  p1 = p1
  p2 = p2
  p3 = p3
  i1 = i1
  i2 = i2
  i3 = i3
  i4 = i4
  NoInode = NoInode
  NoProc = NoProc
  Procs <- ThreeProcs
  Inodes <- FourInodes
INVARIANTS
  AtMostOneServes
\* Every process ends.
CHECK_DEADLOCK FALSE
