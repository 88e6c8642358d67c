-------------------------- MODULE MCGenerationStore --------------------------
(* Instances of GenerationStore for TLC.                                   *)
EXTENDS GenerationStoreInvariant

CONSTANTS p1, p2, hostA, hostB, empty, full

OneProc  == {p1}
TwoProcs == {p1, p2}
OneBinding  == {hostA}
TwoBindings == {hostA, hostB}
TwoContents == {empty, full}
=============================================================================
