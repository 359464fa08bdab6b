--------------------------- MODULE MCDpllNetlink ----------------------------
(***************************************************************************)
(* Pin indices, ids and the symmetry of owners for model checking          *)
(* DpllNetlink.                                                            *)
(***************************************************************************)
EXTENDS DpllNetlink, TLC

Numbering(S) ==
  CHOOSE f \in [S -> 1..Cardinality(S)] : \A x, y \in S : x # y => f[x] # f[y]

\* Every pin has an index of its own, as pins of one module and clock do.
DistinctIdx == Numbering(AllPins)

Ids == Numbering(Devices) @@ Numbering(AllPins)

\* Owners differ in nothing.
OwnerSymmetry == Permutations(Owners)
=============================================================================
