--------------------------- MODULE MCIFaceManager ---------------------------
(* Two managers that configure the same interface.  The configurations: all *)
(* fields right, a malformed broadcast address, and a malformed address     *)
(* together with a MAC address.                                             *)
EXTENDS IFaceManager

CONSTANTS a, m1, m2

Symmetry == Permutations(Managers)

Absent == [f \in Range(Fields) |-> None]

MCConfigs ==
  {[Absent EXCEPT !.ip = a, !.brd = a, !.mtu = a],
   [Absent EXCEPT !.ip = a, !.mask = a, !.brd = Malformed, !.status = a],
   [Absent EXCEPT !.ip = Malformed, !.mac = a, !.brd = a]}
=============================================================================
