---------------------------- MODULE MCCheckReport ----------------------------
(* Instances of CheckReport for TLC.                                       *)
EXTENDS CheckReport

CONSTANTS zlib, curl, usr, etc, pkgdb, other

TwoPackages == {zlib, curl}
TwoPaths    == {usr, etc}
TwoStores   == {pkgdb, other}
OneIdentity == {"managed-target"}
TwoNames    == {"alpha", "beta"}
=============================================================================
