---------------------------- MODULE MCIcmpBuilder ----------------------------
(* Two builders, one of which may be a copy of the other.  A dangling raw    *)
(* frame shows a header of any of the types.                                *)
EXTENDS IcmpBuilder, TLC

CONSTANTS p1, p2

Symmetry == Permutations(Places)

MCHeaders == [type : {0, 3, 11}, code : {0}, checksum : {0}, id : {0}, sequence : {0}]
=============================================================================
