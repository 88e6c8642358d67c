---------------------------- MODULE MCStoreFiles ----------------------------
(* Instances of StoreFiles for TLC.                                        *)
EXTENDS StoreFiles

CONSTANT zero

OneDigit == {zero}
=============================================================================
