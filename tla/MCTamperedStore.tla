--------------------------- MODULE MCTamperedStore ---------------------------
(* Instances of TamperedStore for TLC.                                     *)
EXTENDS TamperedStore

CONSTANTS hostA, hostB, empty, full

TwoBindings == {hostA, hostB}
TwoContents == {empty, full}
=============================================================================
