\* Two processes: one starts, serves, stops or is killed while the other one does.
SPECIFICATION FairSpec
CONSTANTS
  p1 = p1
  p2 = p2
  p3 = p3
  i1 = i1
  i2 = i2
  i3 = i3
  i4 = i4
  NoInode = NoInode
  NoProc = NoProc
  Procs <- TwoProcs
  Inodes <- ThreeInodes
INVARIANTS
  TypeOK
  OnlyReleaseBreaksExclusion
  NoStalePid
PROPERTIES
  SignalEndsServing
\* Every process ends.
CHECK_DEADLOCK FALSE
