----------------------------- MODULE MCGatewayProcess -----------------------------
(* Finite instances of GatewayProcess.                                       *)
EXTENDS GatewayProcess

CONSTANTS p1, p2, p3, i1, i2, i3, i4

TwoProcs == {p1, p2}
ThreeProcs == {p1, p2, p3}
\* One inode more than there are processes: the path and every descriptor may lead
\* to another one.
ThreeInodes == {i1, i2, i3}
FourInodes == {i1, i2, i3, i4}
================================================================================
