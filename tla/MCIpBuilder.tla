----------------------------- MODULE MCIpBuilder -----------------------------
(* Two builders, headers of five words of four bits: two of them an address, *)
(* the first one with a part of one bit (ihl) and one of a byte, two bits    *)
(* here (tos), and an offset of one bit.                                     *)
EXTENDS IpBuilder, TLC

CONSTANTS p1, p2

Symmetry == Permutations(Places)

MCParts ==
  {[word |-> "first", unit |-> 1, size |-> 2], [word |-> "first", unit |-> 4, size |-> 4]}

MCHeaders == {[Zero EXCEPT !["check"] = n] : n \in {0, Word - 1}}
=============================================================================
