--------------------------- MODULE MCStoreAuthority ---------------------------
(* Instances of StoreAuthority for TLC.                                    *)
EXTENDS StoreAuthority, TLC

CONSTANTS p1, p2, d1, d2, away, hostA, hostB, empty, full

TwoProcs == {p1, p2}
ThreeDirs == {d1, d2, away}
Away == {away}
TwoBindings == {hostA, hostB}
TwoContents == {empty, full}

Symmetry == Permutations(TwoProcs) \cup Permutations({d1, d2}) \cup Permutations(TwoBindings)
=============================================================================
