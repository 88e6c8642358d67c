--------------------------- MODULE CheckReportProofs ---------------------------
(***************************************************************************)
(* The parser of the tools does what the command line says, and the report *)
(* of pkgstate-check counts what the snapshot holds, for command lines of  *)
(* any length and snapshots of any size.                                   *)
(***************************************************************************)
EXTENDS CheckReport, FiniteSetTheorems, SequenceTheorems, TLAPS

(* What the parser has taken is what it was given so far.                  *)
CommandTypeOK ==
    /\ given \in Seq(Arguments)
    /\ path \in StorePaths \cup {None}
    /\ identity \in [Identities -> Names \cup {None}]
    /\ exit_status \in {"none", "run", "0", "1", "2"}

StoreTaken ==
    /\ path = None => Stores = {}
    /\ path # None => \E i \in Stores : Stores = {i} /\ path = given[i].value

IdentitiesTaken ==
    \A o \in Identities :
      /\ identity[o] = None => Positions(o) = {}
      /\ identity[o] # None =>
           \E i \in Positions(o) : /\ \A j \in Positions(o) : j <= i
                                   /\ identity[o] = given[i].value

OptionsTaken ==
    \A i \in DOMAIN given :
      given[i].option \in Identities \cup {"canonical-store", "positional"}

CommandInv ==
    /\ CommandTypeOK
    /\ exit_status = "none" => StoreTaken /\ IdentitiesTaken /\ OptionsTaken
    /\ RunsAsGiven /\ UsageErrorsAreReal

(* Where the walk is: every claim of a package it is done with is counted. *)
WalkInv ==
    /\ \A c, d \in manifest : c.package = d.package /\ c.path = d.path => c = d
    /\ \A c \in manifest : c.package \in installed /\ (c.package \in walked => c \in counted)
    /\ package = {} \/ \E p \in installed \ walked : package = {p}
    /\ exit_status = "none" => pc = "start"
    /\ pc = "start" => manifest = {} /\ counted = {} /\ walked = {} /\ package = {}
    /\ pc \in {"start", "packages"} => visited = {}
    /\ pc = "paths" \/ (pc = "done" /\ exit_status = "0") => walked = installed /\ package = {}
    /\ visited \subseteq OwnedPaths
    /\ pc = "done" /\ exit_status = "0" => visited = OwnedPaths

(* Every counter is the size of the set it counts.                         *)
Counted(x)  == {c.package : c \in {d \in counted : d.path = x}}
Reasoned(r) == {p \in walked \cup package : reason[p] = r}

CountersInv ==
    /\ IsFiniteSet(counted) /\ claims = Cardinality(counted)
    /\ rejected = Cardinality({c \in counted : c.rejected})
    /\ \A x \in Paths : owners_by_path[x] = Cardinality(Counted(x))
    /\ \A r \in Reasons : reason_packages[r] = Cardinality(Reasoned(r))
    /\ shared = Cardinality({x \in visited : owners_by_path[x] > 1})

ReportInv == CommandInv /\ TypeOK /\ WalkInv /\ CountersInv

-----------------------------------------------------------------------------
(* The command line.                                                       *)

(* One more argument adds its own position and moves no other.             *)
LEMMA OneMore ==
  ASSUME given \in Seq(Arguments), NEW a \in Arguments, given' = Append(given, a)
  PROVE  /\ Len(given) \in Nat /\ DOMAIN given = 1..Len(given)
         /\ given' \in Seq(Arguments)
         /\ DOMAIN given' = DOMAIN given \cup {Len(given) + 1}
         /\ given'[Len(given) + 1] = a
         /\ \A i \in DOMAIN given : given'[i] = given[i] /\ i < Len(given) + 1
         /\ \A o : Positions(o)' = Positions(o) \cup
                     {i \in {Len(given) + 1} : a.option = o}
<1>1. /\ Len(given) \in Nat /\ DOMAIN given = 1..Len(given)
      /\ given' \in Seq(Arguments) /\ Len(given') = Len(given) + 1
      /\ DOMAIN given' = 1..Len(given) + 1
      /\ given'[Len(given) + 1] = a
      /\ \A i \in 1..Len(given) : given'[i] = given[i]
  BY LenProperties, AppendProperties
<1>2. 1..Len(given) + 1 = 1..Len(given) \cup {Len(given) + 1}
      /\ \A i \in 1..Len(given) : i < Len(given) + 1
  BY <1>1
<1> QED
  BY <1>1, <1>2 DEF Positions

LEMMA ArgumentTypes ==
  \A a \in Arguments :
    /\ a.option = "canonical-store" => a.value \in StorePaths \cup {None}
    /\ a.option \in Identities => a.value \in Names
    /\ a.option \in Identities \cup Flags \cup {"canonical-store", "unknown", "positional"}
  BY OptionsAssumption DEF Arguments, Flags

LEMMA CommandStart == CommandInit => CommandInv
<1> SUFFICES ASSUME CommandInit PROVE CommandInv
  OBVIOUS
<1>1. given \in Seq(Arguments) /\ DOMAIN given = {}
  BY EmptySeq, LenProperties DEF CommandInit
<1>2. Stores = {} /\ \A o : Positions(o) = {}
  BY <1>1 DEF Stores, Positions
<1> QED
  BY <1>1, <1>2 DEF CommandInit, CommandInv, CommandTypeOK, StoreTaken, IdentitiesTaken,
       OptionsTaken, RunsAsGiven, UsageErrorsAreReal


(* What an argument does to the positions it may be at.                    *)
LEMMA MoreStores ==
  ASSUME given \in Seq(Arguments), NEW a \in Arguments, given' = Append(given, a)
  PROVE  Stores' = Stores \cup
           {i \in {Len(given) + 1} : a.option = "canonical-store" /\ a.value # None}
<1>1. Positions("canonical-store")' = Positions("canonical-store") \cup
        {i \in {Len(given) + 1} : a.option = "canonical-store"}
  BY OneMore
<1>2. \A i \in Positions("canonical-store") : given'[i] = given[i]
  BY OneMore DEF Positions
<1>3. given'[Len(given) + 1] = a
  BY OneMore
<1> QED
  BY <1>1, <1>2, <1>3 DEF Stores

(* A path that is taken is that of the store given last, and the only one. *)
LEMMA TakeStoreKeeps ==
  ASSUME CommandInv, exit_status = "none", NEW a \in Arguments, given' = Append(given, a),
         TakeStore(a)
  PROVE  CommandInv'
<1> DEFINE n == Len(given) + 1
<1>1. /\ a.option = "canonical-store" /\ a.value \in StorePaths \cup {None}
      /\ a.option \notin Identities
      /\ path' = IF path = None THEN a.value ELSE path
      /\ exit_status' = IF path = None THEN "none" ELSE "2"
      /\ identity' = identity
  BY ArgumentTypes, OptionsAssumption DEF TakeStore
<1>2. StoreTaken /\ IdentitiesTaken /\ OptionsTaken /\ CommandTypeOK
  BY DEF CommandInv
<1>3. /\ given' \in Seq(Arguments) /\ n \in DOMAIN given' /\ given'[n] = a
      /\ DOMAIN given' = DOMAIN given \cup {n}
      /\ \A i \in DOMAIN given : given'[i] = given[i] /\ i < n
      /\ \A o : Positions(o)' = Positions(o) \cup {i \in {n} : a.option = o}
  BY <1>2, OneMore DEF CommandTypeOK
<1>4. Stores' = Stores \cup {i \in {n} : a.value # None}
  BY <1>1, <1>2, MoreStores DEF CommandTypeOK
<1>5. CommandTypeOK'
  BY <1>1, <1>2, <1>3 DEF CommandTypeOK
<1>6. IdentitiesTaken'
  <2>1. \A o \in Identities : Positions(o)' = Positions(o)
    BY <1>1, <1>3
  <2>2. \A o : \A i \in Positions(o) : given'[i] = given[i]
    BY <1>3 DEF Positions
  <2> QED
    BY <1>1, <1>2, <2>1, <2>2 DEF IdentitiesTaken
<1>7. OptionsTaken'
  BY <1>1, <1>2, <1>3 DEF OptionsTaken
<1>8. CASE path = None
  <2>1. StoreTaken'
    BY <1>1, <1>2, <1>3, <1>4, <1>8 DEF StoreTaken
  <2> QED
    BY <1>1, <1>5, <1>6, <1>7, <1>8, <2>1 DEF CommandInv, RunsAsGiven, UsageErrorsAreReal
<1>9. CASE path # None
  <2>1. PICK i \in Stores : TRUE
    BY <1>2, <1>9 DEF StoreTaken
  <2>2. i \in Stores' /\ n \in Positions("canonical-store")' /\ i < n
    BY <1>1, <1>3, <1>4 DEF Stores, Positions
  <2>3. UsageErrorsAreReal'
    BY <2>2 DEF UsageErrorsAreReal
  <2> QED
    BY <1>1, <1>5, <1>9, <2>3 DEF CommandInv, RunsAsGiven
<1> QED
  BY <1>8, <1>9

(* The last name stands.                                                   *)
LEMMA TakeIdentityKeeps ==
  ASSUME CommandInv, exit_status = "none", NEW a \in Arguments, given' = Append(given, a),
         TakeIdentity(a)
  PROVE  CommandInv'
<1> DEFINE n == Len(given) + 1
<1>1. /\ a.option \in Identities /\ a.value \in Names /\ a.value # None
      /\ a.option # "canonical-store"
      /\ identity' = [identity EXCEPT ![a.option] = a.value]
      /\ path' = path /\ exit_status' = "none"
  BY ArgumentTypes, OptionsAssumption, NoneAssumption DEF TakeIdentity
<1>2. StoreTaken /\ IdentitiesTaken /\ OptionsTaken /\ CommandTypeOK
  BY DEF CommandInv
<1>3. /\ given' \in Seq(Arguments) /\ n \in DOMAIN given' /\ given'[n] = a
      /\ DOMAIN given' = DOMAIN given \cup {n}
      /\ \A i \in DOMAIN given : given'[i] = given[i] /\ i < n
      /\ \A o : Positions(o)' = Positions(o) \cup {i \in {n} : a.option = o}
  BY <1>2, OneMore DEF CommandTypeOK
<1>4. Stores' = Stores /\ \A i \in Stores : given'[i] = given[i]
  BY <1>1, <1>2, <1>3, MoreStores DEF CommandTypeOK, Stores, Positions
<1>5. CommandTypeOK'
  BY <1>1, <1>2, <1>3 DEF CommandTypeOK
<1>6. StoreTaken'
  BY <1>1, <1>2, <1>4 DEF StoreTaken
<1>7. IdentitiesTaken'
  <2> SUFFICES ASSUME NEW o \in Identities
               PROVE  (/\ identity[o] = None => Positions(o) = {}
                       /\ identity[o] # None =>
                            \E i \in Positions(o) : /\ \A j \in Positions(o) : j <= i
                                                    /\ identity[o] = given[i].value)'
    BY DEF IdentitiesTaken
  <2>1. \A i \in Positions(o) : given'[i] = given[i] /\ i < n /\ i \in Nat /\ n \in Nat
    BY <1>2, <1>3, OneMore DEF Positions, CommandTypeOK
  <2>2. CASE o = a.option
    <3>1. identity'[o] = a.value /\ Positions(o)' = Positions(o) \cup {n}
      BY <1>1, <1>2, <1>3, <2>2 DEF CommandTypeOK
    <3>2. n \in Nat
      BY <1>2, OneMore DEF CommandTypeOK
    <3>3. \A j \in Positions(o)' : j <= n
      BY <2>1, <3>1, <3>2
    <3> QED
      BY <1>1, <1>3, <3>1, <3>3
  <2>3. CASE o # a.option
    <3>1. identity'[o] = identity[o] /\ Positions(o)' = Positions(o)
      BY <1>1, <1>2, <1>3, <2>3 DEF CommandTypeOK
    <3> QED
      BY <1>2, <2>1, <3>1 DEF IdentitiesTaken
  <2> QED
    BY <2>2, <2>3
<1>8. OptionsTaken'
  BY <1>1, <1>2, <1>3 DEF OptionsTaken
<1> QED
  BY <1>1, <1>5, <1>6, <1>7, <1>8 DEF CommandInv, RunsAsGiven, UsageErrorsAreReal

(* A flag answers, an operand waits, anything else is an error.            *)
LEMMA TakeFlagKeeps ==
  ASSUME CommandInv, exit_status = "none", NEW a \in Arguments, given' = Append(given, a),
         TakeFlag(a)
  PROVE  CommandInv'
<1> DEFINE n == Len(given) + 1
<1>1. /\ a.option \in Flags \cup {"unknown", "positional"}
      /\ a.option \notin Identities /\ a.option # "canonical-store"
      /\ path' = path /\ identity' = identity
      /\ exit_status' = CASE a.option \in Flags -> "0"
                          [] a.option = "unknown" -> "2"
                          [] OTHER -> "none"
  BY OptionsAssumption DEF TakeFlag, Flags
<1>2. StoreTaken /\ IdentitiesTaken /\ OptionsTaken /\ CommandTypeOK
  BY DEF CommandInv
<1>3. /\ given' \in Seq(Arguments) /\ n \in DOMAIN given' /\ given'[n] = a
      /\ DOMAIN given' = DOMAIN given \cup {n}
      /\ \A i \in DOMAIN given : given'[i] = given[i] /\ i < n
      /\ \A o : Positions(o)' = Positions(o) \cup {i \in {n} : a.option = o}
  BY <1>2, OneMore DEF CommandTypeOK
<1>4. Stores' = Stores /\ \A i \in Stores : given'[i] = given[i]
  BY <1>1, <1>2, <1>3, MoreStores DEF CommandTypeOK, Stores, Positions
<1>5. StoreTaken'
  BY <1>1, <1>2, <1>4 DEF StoreTaken
<1>6. IdentitiesTaken'
  <2>1. \A o \in Identities : Positions(o)' = Positions(o)
    BY <1>1, <1>3
  <2>2. \A o : \A i \in Positions(o) : given'[i] = given[i]
    BY <1>3 DEF Positions
  <2> QED
    BY <1>1, <1>2, <2>1, <2>2 DEF IdentitiesTaken
<1>7. CASE a.option \in Flags
  BY <1>1, <1>2, <1>3, <1>7 DEF CommandTypeOK, CommandInv, RunsAsGiven, UsageErrorsAreReal
<1>8. CASE a.option = "unknown"
  <2>1. exit_status' = "2" /\ given'[n].option = "unknown"
    BY <1>1, <1>3, <1>8 DEF Flags
  <2> QED
    BY <1>1, <1>2, <1>3, <2>1 DEF CommandTypeOK, CommandInv, RunsAsGiven, UsageErrorsAreReal
<1>9. CASE a.option = "positional"
  <2>1. exit_status' = "none"
    BY <1>1, <1>9 DEF Flags
  <2>2. OptionsTaken'
    BY <1>2, <1>3, <1>9 DEF OptionsTaken
  <2> QED
    BY <1>1, <1>2, <1>3, <1>5, <1>6, <2>1, <2>2
       DEF CommandTypeOK, CommandInv, RunsAsGiven, UsageErrorsAreReal
<1> QED
  BY <1>1, <1>7, <1>8, <1>9

(* The tool runs when nothing is missing and nothing is left over.         *)
LEMMA EndOfOptionsKeeps ==
  ASSUME CommandInv, EndOfOptions
  PROVE  CommandInv'
<1>1. /\ StoreTaken /\ IdentitiesTaken /\ OptionsTaken /\ CommandTypeOK
      /\ given' = given /\ path' = path /\ identity' = identity
      /\ exit_status' \in {"2", "run"}
  BY DEF CommandInv, EndOfOptions
<1>2. Stores' = Stores /\ \A o : Positions(o)' = Positions(o)
  BY <1>1 DEF Stores, Positions
<1>3. CASE Operands
  <2>1. UsageErrorsAreReal'
    BY <1>1, <1>3 DEF Operands, UsageErrorsAreReal
  <2> QED
    BY <1>1, <1>3, <2>1 DEF CommandInv, CommandTypeOK, RunsAsGiven, EndOfOptions
<1>4. CASE path = None \/ \E i \in Identities : identity[i] = None
  <2>1. UsageErrorsAreReal'
    BY <1>1, <1>2, <1>4 DEF StoreTaken, IdentitiesTaken, UsageErrorsAreReal
  <2> QED
    BY <1>1, <1>4, <2>1 DEF CommandInv, CommandTypeOK, RunsAsGiven, EndOfOptions
<1>5. CASE ~Operands /\ path # None /\ \A i \in Identities : identity[i] # None
  <2>1. exit_status' = "run"
    BY <1>5 DEF EndOfOptions
  <2>2. RunsAsGiven'
    BY <1>1, <1>2, <1>5
       DEF StoreTaken, IdentitiesTaken, OptionsTaken, Operands, RunsAsGiven
  <2> QED
    BY <1>1, <2>1, <2>2 DEF CommandInv, CommandTypeOK, UsageErrorsAreReal
<1> QED
  BY <1>3, <1>4, <1>5

(* The rest of the tool leaves the command line alone.                     *)
LEMMA RunKeeps ==
  ASSUME CommandInv, given' = given, path' = path, identity' = identity,
         \/ exit_status' = exit_status
         \/ exit_status = "run" /\ exit_status' \in {"0", "1"}
  PROVE  CommandInv'
<1>1. Stores' = Stores /\ \A o : Positions(o)' = Positions(o)
  BY DEF Stores, Positions
<1> QED
  BY <1>1 DEF CommandInv, CommandTypeOK, StoreTaken, IdentitiesTaken, OptionsTaken,
       RunsAsGiven, UsageErrorsAreReal

LEMMA NextCommand == TypeOK /\ CommandInv /\ [Next]_vars => CommandInv'
<1> SUFFICES ASSUME TypeOK, CommandInv, [Next]_vars PROVE CommandInv'
  OBVIOUS
<1>1. CASE NextOption
  <2>1. exit_status = "none"
    BY <1>1 DEF NextOption
  <2> QED
    BY <1>1, <2>1, TakeStoreKeeps, TakeIdentityKeeps, TakeFlagKeeps DEF NextOption
<1>2. CASE EndOfOptions
  BY <1>2, EndOfOptionsKeeps
<1>3. CASE ReadStore
  BY <1>3, RunKeeps DEF ReadStore
<1>4. CASE NextPackage \/ CountClaim \/ FinishPackage \/ FinishPackages \/ CountShared
  BY <1>4, RunKeeps DEF NextPackage, CountClaim, FinishPackage, FinishPackages,
       CountShared, command
<1>5. CASE Emit
  BY <1>5, RunKeeps DEF Emit, TypeOK
<1>6. CASE Done \/ UNCHANGED vars
  BY <1>6, RunKeeps DEF Done, vars, command
<1> QED
  BY <1>1, <1>2, <1>3, <1>4, <1>5, <1>6 DEF Next, ParseOptions

-----------------------------------------------------------------------------
(* The counters.                                                           *)

(* A set that gets one new element has one more.                           *)
LEMMA OneMoreElement ==
  ASSUME NEW S, IsFiniteSet(S), NEW x, x \notin S
  PROVE  /\ IsFiniteSet(S \cup {x}) /\ Cardinality(S) \in Nat
         /\ Cardinality(S \cup {x}) = Cardinality(S) + 1
  BY FS_AddElement, FS_CardinalityType

(* No counter has counted more than there is.                              *)
LEMMA FiniteCounts ==
  ASSUME TypeOK, CountersInv
  PROVE  /\ IsFiniteSet(installed) /\ IsFiniteSet(visited)
         /\ IsFiniteSet({c \in counted : c.rejected})
         /\ \A x \in Paths : /\ IsFiniteSet(Counted(x)) /\ Counted(x) \subseteq Packages
                             /\ Cardinality(Counted(x)) \in 0..Cardinality(Packages)
         /\ \A r : IsFiniteSet(Reasoned(r))
<1>1. IsFiniteSet(installed) /\ IsFiniteSet(visited)
  BY FS_Subset, FiniteAssumption DEF TypeOK
<1>2. IsFiniteSet({c \in counted : c.rejected})
  BY FS_Subset DEF CountersInv
<1>3. ASSUME NEW x \in Paths
      PROVE  /\ IsFiniteSet(Counted(x)) /\ Counted(x) \subseteq Packages
             /\ Cardinality(Counted(x)) \in 0..Cardinality(Packages)
  <2>1. Counted(x) \subseteq Packages
    BY DEF TypeOK, Claims, Counted
  <2>2. /\ IsFiniteSet(Counted(x)) /\ Cardinality(Counted(x)) <= Cardinality(Packages)
        /\ Cardinality(Packages) \in Nat
    BY <2>1, FS_Subset, FS_CardinalityType, FiniteAssumption
  <2>3. Cardinality(Counted(x)) \in Nat
    BY <2>2, FS_CardinalityType
  <2> QED
    BY <2>1, <2>2, <2>3
<1>4. ASSUME NEW r PROVE IsFiniteSet(Reasoned(r))
  BY <1>1, FS_Subset DEF TypeOK, Reasoned
<1> QED
  BY <1>1, <1>2, <1>3, <1>4

LEMMA ReportStart == Init => TypeOK /\ WalkInv /\ CountersInv
<1> SUFFICES ASSUME Init PROVE TypeOK /\ WalkInv /\ CountersInv
  OBVIOUS
<1>1. Cardinality(Packages) \in Nat
  BY FS_CardinalityType, FiniteAssumption
<1>2. TypeOK
  BY <1>1 DEF Init, CommandInit, TypeOK
<1>3. WalkInv
  BY DEF Init, CommandInit, WalkInv
<1>4. \A x \in Paths : Counted(x) = {}
  BY DEF Init, Counted
<1>5. /\ {c \in counted : c.rejected} = {}
      /\ \A r : Reasoned(r) = {}
      /\ {x \in visited : owners_by_path[x] > 1} = {}
  BY DEF Init, Reasoned
<1>6. CountersInv
  BY <1>4, <1>5, FS_EmptySet DEF Init, CountersInv
<1> QED
  BY <1>2, <1>3, <1>6

(* Where the walk does not move, its counters stay true.                   *)
LEMMA StandingWalk ==
  ASSUME CountersInv, UNCHANGED <<walk, shared, visited>>,
         reason' = reason \/ walked \cup package = {}
  PROVE  CountersInv'
<1>1. \A x \in Paths : Counted(x)' = Counted(x)
  BY DEF Counted, walk
<1>2. \A r : Reasoned(r)' = Reasoned(r)
  BY DEF walk, Reasoned
<1> QED
  BY <1>1, <1>2 DEF CountersInv, walk

LEMMA ParseOptionsReport ==
  ASSUME TypeOK, WalkInv, CountersInv, CommandInv', ParseOptions,
         UNCHANGED <<snapshot, walk, shared, visited, pc>>
  PROVE  TypeOK' /\ WalkInv' /\ CountersInv'
<1>1. exit_status = "none" /\ pc = "start" /\ exit_status' \in {"none", "run", "0", "1", "2"}
  BY DEF ParseOptions, NextOption, EndOfOptions, WalkInv, CommandInv, CommandTypeOK
<1>2. CountersInv'
  BY StandingWalk DEF snapshot
<1>3. OwnedPaths' = OwnedPaths
  BY DEF OwnedPaths, walk
<1>4. TypeOK'
  BY <1>1 DEF TypeOK, snapshot, walk
<1>5. WalkInv'
  BY <1>1, <1>3 DEF WalkInv, snapshot, walk
<1> QED
  BY <1>2, <1>4, <1>5

(* A snapshot names a path once in a manifest, and nothing is counted yet. *)
LEMMA ReadStoreReport ==
  ASSUME TypeOK, WalkInv, CountersInv, ReadStore
  PROVE  TypeOK' /\ WalkInv' /\ CountersInv'
<1>1. /\ pc = "start" /\ exit_status = "run"
      /\ counted = {} /\ walked = {} /\ package = {} /\ visited = {}
      /\ UNCHANGED <<walk, shared, visited>>
  BY DEF ReadStore, WalkInv
<1>2. CountersInv'
  BY <1>1, StandingWalk
<1>3. TypeOK'
  BY <1>1 DEF ReadStore, TypeOK, walk, snapshot
<1>4. WalkInv'
  BY <1>1 DEF ReadStore, WalkInv, OwnedPaths, walk, snapshot
<1> QED
  BY <1>2, <1>3, <1>4

(* A package is counted once, under its reason.                            *)
LEMMA NextPackageReport ==
  ASSUME TypeOK, WalkInv, CountersInv, NextPackage
  PROVE  TypeOK' /\ WalkInv' /\ CountersInv'
<1>1. PICK p \in installed \ walked :
        /\ package' = {p}
        /\ reason_packages' = [reason_packages EXCEPT ![reason[p]] = @ + 1]
  BY DEF NextPackage
<1>2. /\ pc = "packages" /\ package = {} /\ reason[p] \in Reasons
      /\ UNCHANGED <<snapshot, walked, counted, owners_by_path, claims, rejected, shared,
                     visited, pc, command>>
  BY DEF NextPackage, TypeOK
<1>3. TypeOK'
  BY <1>1, <1>2 DEF TypeOK, snapshot, command
<1>4. WalkInv'
  BY <1>1, <1>2 DEF WalkInv, snapshot, command, OwnedPaths
<1>5. ASSUME NEW r \in Reasons
      PROVE  reason_packages'[r] = Cardinality(Reasoned(r)')
  <2>1. /\ IsFiniteSet(Reasoned(r)) /\ p \notin Reasoned(r)
        /\ reason_packages[r] = Cardinality(Reasoned(r))
    BY <1>2, FiniteCounts DEF CountersInv, Reasoned
  <2>2. Reasoned(r)' = IF reason[p] = r THEN Reasoned(r) \cup {p} ELSE Reasoned(r)
    BY <1>1, <1>2 DEF snapshot, Reasoned
  <2>3. reason_packages'[r] = reason_packages[r] + IF reason[p] = r THEN 1 ELSE 0
    BY <1>1, <1>2 DEF TypeOK
  <2>4. reason_packages[r] + 0 = reason_packages[r]
    BY <1>2 DEF TypeOK
  <2> QED
    BY <2>1, <2>2, <2>3, <2>4, OneMoreElement
<1>6. \A x \in Paths : Counted(x)' = Counted(x)
  BY <1>2 DEF Counted
<1>7. CountersInv'
  BY <1>2, <1>5, <1>6 DEF CountersInv
<1> QED
  BY <1>3, <1>4, <1>7

(* A claim gives its path one more owner, one it did not have: a manifest  *)
(* names a path once.                                                      *)
LEMMA CountClaimReport ==
  ASSUME TypeOK, WalkInv, CountersInv, CountClaim
  PROVE  TypeOK' /\ WalkInv' /\ CountersInv'
<1>1. PICK c \in manifest :
        /\ package = {c.package} /\ c \notin counted
        /\ counted' = counted \cup {c}
        /\ owners_by_path' = [owners_by_path EXCEPT ![c.path] = @ + 1]
        /\ rejected' = IF c.rejected THEN rejected + 1 ELSE rejected
  BY DEF CountClaim, Left, WalkInv
<1>2. /\ pc = "packages" /\ visited = {} /\ claims' = claims + 1
      /\ c.path \in Paths /\ c.package \in Packages /\ c.rejected \in BOOLEAN
      /\ UNCHANGED <<snapshot, package, walked, reason_packages, shared, visited, pc, command>>
  BY DEF CountClaim, WalkInv, TypeOK, Claims
<1>3. /\ IsFiniteSet(counted') /\ claims' = Cardinality(counted')
  BY <1>1, <1>2, OneMoreElement DEF CountersInv
<1>4. rejected' = Cardinality({d \in counted' : d.rejected})
  <2> DEFINE S == {d \in counted : d.rejected}
  <2>1. IsFiniteSet(S) /\ c \notin S /\ rejected = Cardinality(S)
    BY <1>1, FiniteCounts DEF CountersInv
  <2>2. {d \in counted' : d.rejected} = IF c.rejected THEN S \cup {c} ELSE S
    BY <1>1
  <2> HIDE DEF S
  <2> QED
    BY <1>1, <2>1, <2>2, OneMoreElement
<1>5. Counted(c.path)' = Counted(c.path) \cup {c.package} /\ c.package \notin Counted(c.path)
  BY <1>1 DEF Counted, WalkInv, TypeOK
<1>6. \A x \in Paths \ {c.path} : Counted(x)' = Counted(x)
  BY <1>1 DEF Counted
<1>7. \A x \in Paths : owners_by_path'[x] = Cardinality(Counted(x)')
  <2>1. /\ owners_by_path'[c.path] = owners_by_path[c.path] + 1
        /\ \A x \in Paths \ {c.path} : owners_by_path'[x] = owners_by_path[x]
    BY <1>1, <1>2 DEF TypeOK
  <2>2. IsFiniteSet(Counted(c.path))
        /\ \A x \in Paths : owners_by_path[x] = Cardinality(Counted(x))
    BY <1>2, FiniteCounts DEF CountersInv
  <2>3. owners_by_path'[c.path] = Cardinality(Counted(c.path)')
    BY <1>2, <1>5, <2>1, <2>2, OneMoreElement
  <2> QED
    BY <1>6, <2>1, <2>2, <2>3
<1>8. \A x \in Paths : Counted(x)' \subseteq Packages
  BY <1>2, <1>5, <1>6, FiniteCounts
<1>9. owners_by_path' \in [Paths -> 0..Cardinality(Packages)]
  <2>1. \A x \in Paths : Cardinality(Counted(x)') \in 0..Cardinality(Packages)
    BY <1>8, FS_Subset, FS_CardinalityType, FiniteAssumption
  <2>2. owners_by_path' = [x \in Paths |-> owners_by_path'[x]]
    <3>1. owners_by_path = [x \in Paths |-> owners_by_path[x]]
      BY DEF TypeOK
    <3> QED
      BY <1>1, <3>1
  <2>3. \A x \in Paths : owners_by_path'[x] \in 0..Cardinality(Packages)
    BY <1>7, <2>1
  <2> QED
    BY <2>2, <2>3
<1>10. TypeOK'
  BY <1>1, <1>2, <1>9 DEF TypeOK, snapshot, command
<1>11. WalkInv'
  BY <1>1, <1>2 DEF WalkInv, snapshot, command
<1>12. {x \in visited : owners_by_path[x] > 1}' = {x \in visited : owners_by_path[x] > 1}
  BY <1>2
<1>13. CountersInv'
  <2>1. \A r : Reasoned(r)' = Reasoned(r)
    BY <1>2 DEF snapshot, Reasoned
  <2> QED
    BY <1>2, <1>3, <1>4, <1>7, <1>12, <2>1 DEF CountersInv
<1> QED
  BY <1>10, <1>11, <1>13

(* A package is done with when its manifest is.                            *)
LEMMA FinishPackageReport ==
  ASSUME TypeOK, WalkInv, CountersInv, FinishPackage
  PROVE  TypeOK' /\ WalkInv' /\ CountersInv'
<1>1. PICK p \in installed \ walked :
        package = {p} /\ walked' = walked \cup {p} /\ Left(p) = {}
  BY DEF FinishPackage, WalkInv
<1>2. /\ pc = "packages" /\ package' = {}
      /\ UNCHANGED <<snapshot, counted, owners_by_path, claims, rejected, reason_packages,
                     shared, visited, pc, command>>
  BY DEF FinishPackage
<1>3. \A c \in manifest : c.package = p => c \in counted
  BY <1>1 DEF Left
<1>4. TypeOK'
  BY <1>1, <1>2 DEF TypeOK, snapshot, command
<1>5. WalkInv'
  BY <1>1, <1>2, <1>3 DEF WalkInv, snapshot, command, OwnedPaths
<1>6. (walked \cup package)' = walked \cup package
  BY <1>1, <1>2
<1>7. \A x \in Paths : Counted(x)' = Counted(x)
  BY <1>2 DEF Counted
<1>8. \A r : Reasoned(r)' = Reasoned(r)
  BY <1>2, <1>6 DEF snapshot, Reasoned
<1>9. CountersInv'
  BY <1>2, <1>7, <1>8 DEF CountersInv
<1> QED
  BY <1>4, <1>5, <1>9

LEMMA FinishPackagesReport ==
  ASSUME TypeOK, WalkInv, CountersInv, FinishPackages
  PROVE  TypeOK' /\ WalkInv' /\ CountersInv'
<1>1. CountersInv'
  BY StandingWalk DEF FinishPackages, snapshot
<1>2. TypeOK'
  BY DEF FinishPackages, TypeOK, snapshot, walk, command
<1>3. WalkInv'
  BY DEF FinishPackages, WalkInv, snapshot, walk, command, OwnedPaths
<1> QED
  BY <1>1, <1>2, <1>3

(* A path of the map is looked at once.                                    *)
LEMMA CountSharedReport ==
  ASSUME TypeOK, WalkInv, CountersInv, CountShared
  PROVE  TypeOK' /\ WalkInv' /\ CountersInv'
<1>1. PICK x \in OwnedPaths \ visited :
        /\ visited' = visited \cup {x}
        /\ shared' = IF owners_by_path[x] > 1 THEN shared + 1 ELSE shared
  BY DEF CountShared
<1>2. pc = "paths" /\ UNCHANGED <<snapshot, walk, pc, command>>
  BY DEF CountShared
<1>3. TypeOK'
  BY <1>1, <1>2 DEF TypeOK, OwnedPaths, snapshot, walk, command
<1>4. WalkInv'
  <2>1. visited' \subseteq OwnedPaths'
    BY <1>1, <1>2 DEF WalkInv, OwnedPaths, walk
  <2> QED
    BY <1>2, <2>1 DEF WalkInv, snapshot, walk, command
<1>5. shared' = Cardinality({y \in visited' : owners_by_path'[y] > 1})
  <2> DEFINE S == {y \in visited : owners_by_path[y] > 1}
  <2>1. IsFiniteSet(S) /\ x \notin S /\ shared = Cardinality(S)
    BY <1>1, FiniteCounts, FS_Subset DEF CountersInv
  <2>2. {y \in visited' : owners_by_path'[y] > 1}
          = IF owners_by_path[x] > 1 THEN S \cup {x} ELSE S
    BY <1>1, <1>2 DEF walk
  <2> HIDE DEF S
  <2> QED
    BY <1>1, <2>1, <2>2, OneMoreElement
<1>6. /\ \A y \in Paths : Counted(y)' = Counted(y)
      /\ \A r : Reasoned(r)' = Reasoned(r)
  BY <1>2 DEF Counted, Reasoned, walk, snapshot
<1>7. CountersInv'
  BY <1>2, <1>5, <1>6 DEF CountersInv, walk
<1> QED
  BY <1>3, <1>4, <1>7

LEMMA EmitReport ==
  ASSUME TypeOK, WalkInv, CountersInv, Emit
  PROVE  TypeOK' /\ WalkInv' /\ CountersInv'
<1>1. CountersInv'
  BY StandingWalk DEF Emit, snapshot
<1>2. TypeOK'
  BY DEF Emit, TypeOK, snapshot, walk
<1>3. WalkInv'
  BY DEF Emit, WalkInv, snapshot, walk, OwnedPaths
<1> QED
  BY <1>1, <1>2, <1>3

LEMMA NextReport == ReportInv /\ [Next]_vars => ReportInv'
<1> SUFFICES ASSUME ReportInv, [Next]_vars PROVE ReportInv'
  OBVIOUS
<1>1. TypeOK /\ WalkInv /\ CountersInv /\ CommandInv'
  BY NextCommand DEF ReportInv
<1>2. CASE ParseOptions /\ UNCHANGED <<snapshot, walk, shared, visited, pc>>
  BY <1>1, <1>2, ParseOptionsReport DEF ReportInv
<1>3. CASE ReadStore
  BY <1>1, <1>3, ReadStoreReport DEF ReportInv
<1>4. CASE NextPackage
  BY <1>1, <1>4, NextPackageReport DEF ReportInv
<1>5. CASE CountClaim
  BY <1>1, <1>5, CountClaimReport DEF ReportInv
<1>6. CASE FinishPackage
  BY <1>1, <1>6, FinishPackageReport DEF ReportInv
<1>7. CASE FinishPackages
  BY <1>1, <1>7, FinishPackagesReport DEF ReportInv
<1>8. CASE CountShared
  BY <1>1, <1>8, CountSharedReport DEF ReportInv
<1>9. CASE Emit
  BY <1>1, <1>9, EmitReport DEF ReportInv
<1>10. CASE Done \/ UNCHANGED vars
  <2>1. CountersInv'
    BY <1>1, <1>10, StandingWalk DEF Done, vars, snapshot
  <2>2. TypeOK' /\ WalkInv'
    BY <1>1, <1>10 DEF Done, vars, snapshot, walk, command, TypeOK, WalkInv, OwnedPaths
  <2> QED
    BY <1>1, <2>1, <2>2 DEF ReportInv
<1> QED
  BY <1>2, <1>3, <1>4, <1>5, <1>6, <1>7, <1>8, <1>9, <1>10 DEF Next

LEMMA InvReport == ReportInv => ReportIsTrue
<1> SUFFICES ASSUME ReportInv, pc = "done", exit_status = "0"
             PROVE  ReportIsTrue
  BY DEF ReportIsTrue
<1>1. /\ TypeOK /\ WalkInv /\ CountersInv
      /\ walked = installed /\ package = {} /\ visited = OwnedPaths
  BY DEF ReportInv, WalkInv
<1>2. counted = manifest
  BY <1>1 DEF WalkInv, TypeOK
<1>3. \A x \in Paths : Owners(x) = Counted(x)
  BY <1>2 DEF Owners, Counted
<1>4. \A x \in Paths : IsFiniteSet(Owners(x)) /\ owners_by_path[x] = Cardinality(Owners(x))
                         /\ owners_by_path[x] \in Nat
  BY <1>1, <1>3, FiniteCounts, FS_CardinalityType DEF CountersInv
<1>5. OwnedPaths = {x \in Paths : Owners(x) # {}}
  BY <1>4, FS_EmptySet DEF OwnedPaths
<1>6. {x \in visited : owners_by_path[x] > 1} = {x \in Paths : Cardinality(Owners(x)) > 1}
  BY <1>1, <1>4 DEF OwnedPaths
<1>7. walked \cup package = installed
  BY <1>1
<1> QED
  BY <1>1, <1>2, <1>5, <1>6, <1>7 DEF CountersInv, Reasoned, ReportIsTrue

-----------------------------------------------------------------------------

LEMMA ReportInvariance == Spec => []ReportInv
<1>1. Init => ReportInv
  BY CommandStart, ReportStart DEF Init, ReportInv
<1> QED
  BY <1>1, NextReport, PTL DEF Spec

(* Every variable keeps its type, and no path gets more owners than there  *)
(* are packages, for any packages, paths and command lines.                *)
THEOREM ReportTypes == Spec => []TypeOK
<1>1. ReportInv => TypeOK
  BY DEF ReportInv
<1> QED
  BY <1>1, ReportInvariance, PTL

(* A tool that goes on to the store was given that store and no other, the *)
(* identities it uses, and nothing else.                                   *)
THEOREM CommandsAreObeyed == Spec => []RunsAsGiven
<1>1. ReportInv => RunsAsGiven
  BY DEF ReportInv, CommandInv
<1> QED
  BY <1>1, ReportInvariance, PTL

(* Status 2 is never given to a command line that is in order.             *)
THEOREM ErrorsAreReal == Spec => []UsageErrorsAreReal
<1>1. ReportInv => UsageErrorsAreReal
  BY DEF ReportInv, CommandInv
<1> QED
  BY <1>1, ReportInvariance, PTL

(* The report counts what the snapshot holds, each claim, path, shared     *)
(* path, rejected reference and package exactly once, for snapshots of any *)
(* size and in whatever order they are walked.                             *)
THEOREM TrueReport == Spec => []ReportIsTrue
<1>1. ReportInv => ReportIsTrue
  BY InvReport
<1> QED
  BY <1>1, ReportInvariance, PTL
=============================================================================
