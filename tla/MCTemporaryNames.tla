--------------------------- MODULE MCTemporaryNames ---------------------------
(* Instances of TemporaryNames for TLC.                                    *)
EXTENDS TemporaryNames

CONSTANT p1

OnePid == {p1}
=============================================================================
