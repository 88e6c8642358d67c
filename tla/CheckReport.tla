----------------------------- MODULE CheckReport -----------------------------
(***************************************************************************)
(* pkgstate-check from its command line to its report: inspect() walks     *)
(* over the packages of the snapshot it read and the entries of their      *)
(* manifests, counting as it goes, and main() turns what happens into an   *)
(* exit status. Opening and reading the store is one step here; StoreTools *)
(* takes it apart.                                                         *)
(***************************************************************************)
EXTENDS ToolCommand, FiniteSets

CONSTANTS
    Packages,  \* packages that may be installed
    Paths      \* paths they may own

Reasons == {"explicit_request", "runtime_dependency", "profile_membership", "system_policy"}
Claims  == [package : Packages, path : Paths, rejected : BOOLEAN]

ASSUME FiniteAssumption == IsFiniteSet(Packages) /\ IsFiniteSet(Paths)

VARIABLES
    installed,       \* the packages of the snapshot
    reason,          \* why each is installed
    manifest,        \* the claims of all manifests; a manifest names a path once
    package,         \* the package the walk is at, in a set of at most one
    walked, counted, \* ghosts: packages and claims the walk is done with
    owners_by_path,  \* how many owners each path has so far
    claims, rejected,
    reason_packages, \* the four counters by reason
    shared, visited, \* the last loop: shared paths, ghost: paths looked at
    pc

snapshot == <<installed, reason, manifest>>
walk     == <<package, walked, counted, owners_by_path, claims, rejected, reason_packages>>
vars     == <<command, snapshot, walk, shared, visited, pc>>

Init ==
    /\ CommandInit
    /\ installed = {} /\ reason = <<>> /\ manifest = {}
    /\ package = {} /\ walked = {} /\ counted = {}
    /\ owners_by_path = [x \in Paths |-> 0]
    /\ claims = 0 /\ rejected = 0
    /\ reason_packages = [r \in Reasons |-> 0]
    /\ shared = 0 /\ visited = {}
    /\ pc = "start"

-----------------------------------------------------------------------------

(* The store is opened and read, or is busy, unreadable or another's.      *)
ReadStore ==
    /\ pc = "start" /\ exit_status = "run"
    /\ \/ /\ installed' \in SUBSET Packages
          /\ reason' \in [installed' -> Reasons]
          /\ manifest' \in SUBSET {c \in Claims : c.package \in installed'}
          /\ \A c, d \in manifest' : c.package = d.package /\ c.path = d.path => c = d
          /\ pc' = "packages"
          /\ UNCHANGED exit_status
       \/ /\ pc' = "done" /\ exit_status' = "1"
          /\ UNCHANGED snapshot
    /\ UNCHANGED <<given, path, identity, walk, shared, visited>>

Left(p) == {c \in manifest : c.package = p} \ counted

(* The next package: its reason is counted.                                *)
NextPackage ==
    /\ pc = "packages" /\ package = {}
    /\ \E p \in installed \ walked :
         /\ package' = {p}
         /\ reason_packages' = [reason_packages EXCEPT ![reason[p]] = @ + 1]
    /\ UNCHANGED <<snapshot, walked, counted, owners_by_path, claims, rejected, shared,
                   visited, pc, command>>

(* Variant of CountClaim: a rejected entry does not own its path.          *)
CountClaimUnlessRejected ==
    /\ pc = "packages"
    /\ \E p \in package : \E c \in Left(p) :
         /\ counted' = counted \cup {c}
         /\ owners_by_path' = IF c.rejected THEN owners_by_path
                              ELSE [owners_by_path EXCEPT ![c.path] = @ + 1]
         /\ rejected' = IF c.rejected THEN rejected + 1 ELSE rejected
    /\ claims' = claims + 1
    /\ UNCHANGED <<snapshot, package, walked, reason_packages, shared, visited, pc,
                   command>>

(* The next entry of its manifest.                                         *)
CountClaim ==
    /\ pc = "packages"
    /\ \E p \in package : \E c \in Left(p) :
         /\ counted' = counted \cup {c}
         /\ owners_by_path' = [owners_by_path EXCEPT ![c.path] = @ + 1]
         /\ rejected' = IF c.rejected THEN rejected + 1 ELSE rejected
    /\ claims' = claims + 1
    /\ UNCHANGED <<snapshot, package, walked, reason_packages, shared, visited, pc,
                   command>>

FinishPackage ==
    /\ pc = "packages"
    /\ \E p \in package : Left(p) = {} /\ walked' = walked \cup {p}
    /\ package' = {}
    /\ UNCHANGED <<snapshot, counted, owners_by_path, claims, rejected, reason_packages,
                   shared, visited, pc, command>>

FinishPackages ==
    /\ pc = "packages" /\ package = {} /\ walked = installed
    /\ pc' = "paths"
    /\ UNCHANGED <<snapshot, walk, shared, visited, command>>

(* The keys of the map: owned-paths is their number.                       *)
OwnedPaths == {x \in Paths : owners_by_path[x] > 0}

(* The loop over the map.                                                  *)
CountShared ==
    /\ pc = "paths"
    /\ \E x \in OwnedPaths \ visited :
         /\ visited' = visited \cup {x}
         /\ shared' = IF owners_by_path[x] > 1 THEN shared + 1 ELSE shared
    /\ UNCHANGED <<snapshot, walk, pc, command>>

(* The report is written, whether or not standard output takes it.         *)
Emit ==
    /\ pc = "paths" /\ visited = OwnedPaths
    /\ pc' = "done" /\ exit_status' = "0"
    /\ UNCHANGED <<given, path, identity, snapshot, walk, shared, visited>>

Done == exit_status \notin {"none", "run"} /\ UNCHANGED vars

Next == \/ ParseOptions /\ UNCHANGED <<snapshot, walk, shared, visited, pc>>
        \/ ReadStore \/ NextPackage \/ CountClaim \/ FinishPackage \/ FinishPackages
        \/ CountShared \/ Emit \/ Done

Spec == Init /\ [][Next]_vars

-----------------------------------------------------------------------------

Owners(x) == {c.package : c \in {d \in manifest : d.path = x}}

(* Every variable keeps its type; no path gets more owners than there are  *)
(* packages.                                                               *)
TypeOK ==
    /\ installed \subseteq Packages /\ reason \in [installed -> Reasons]
    /\ manifest \subseteq Claims
    /\ package \subseteq installed /\ walked \subseteq installed
    /\ counted \subseteq manifest
    /\ owners_by_path \in [Paths -> 0..Cardinality(Packages)]
    /\ claims \in Nat /\ rejected \in Nat /\ reason_packages \in [Reasons -> Nat]
    /\ shared \in Nat /\ visited \subseteq Paths
    /\ pc \in {"start", "packages", "paths", "done"}
    /\ exit_status \in {"none", "run", "0", "1", "2"}
    /\ pc \in {"packages", "paths"} => exit_status = "run"

(* The report says what the snapshot holds: all claims, the paths that     *)
(* have an owner, those that have two or more different ones, the rejected *)
(* references, and each package under its reason.                          *)
ReportIsTrue ==
    pc = "done" /\ exit_status = "0" =>
      /\ claims = Cardinality(manifest)
      /\ rejected = Cardinality({c \in manifest : c.rejected})
      /\ OwnedPaths = {x \in Paths : Owners(x) # {}}
      /\ shared = Cardinality({x \in Paths : Cardinality(Owners(x)) > 1})
      /\ \A r \in Reasons : reason_packages[r] = Cardinality({p \in installed : reason[p] = r})
=============================================================================
