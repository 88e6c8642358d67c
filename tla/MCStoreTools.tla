------------------------------ MODULE MCStoreTools ------------------------------
(* Instances of StoreTools for TLC.                                        *)
EXTENDS StoreTools

CONSTANTS init, check, client, hostA, empty, full

Everyone == {init, check, client}
InitOnly == {init}
CheckOnly == {check}
OneBinding == {hostA}
TwoContents == {empty, full}
=============================================================================
