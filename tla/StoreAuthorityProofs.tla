------------------------- MODULE StoreAuthorityProofs -------------------------
(***************************************************************************)
(* A handle stays with the directory that admitted it. The invariant ties  *)
(* each step of a call to one directory: the one it opened, or the one its *)
(* handle retains; the flock on that directory keeps what was read of it   *)
(* true until the call ends. Neither speaks of the path, so that a rename  *)
(* has nothing to disturb.                                                 *)
(***************************************************************************)
EXTENDS StoreAuthority, TLAPS

Locked   == {"validate", "retain", "read", "compare", "select"}
Admitted == {"read", "compare", "select"}

(* A name that is no link never reaches a directory that links alone do.   *)
PathInv == /\ unused \cap Elsewhere = {}
           /\ path.link \/ path.to \notin Elsewhere

(* Exclusive locks exclude.                                                *)
LockInv ==
    \A p, q \in Procs :
      p # q /\ root[p] = root[q] /\ root[p] # Nil /\ lock[p] = "EX" => lock[q] = "none"

(* Where the client works.                                                 *)
RootInv(p) ==
    /\ root[p] \notin Elsewhere
    /\ root[p] # Nil <=> pc[p] \notin {"idle", "open"}
    /\ lock[p] # "none" => pc[p] \in Locked
    /\ pc[p] \in {"compare", "select"} => lock[p] = "EX"
    /\ pc[p] \in Admitted => root[p] = root_descriptor[p] /\ root_descriptor[p] # Nil

(* What its handle has used.                                               *)
TouchedInv(p) ==
    /\ root_descriptor[p] # Nil => /\ pc[p] = "idle" \/ pc[p] \in Admitted
                                   /\ touched[p] = {root_descriptor[p]}
                                   /\ root_descriptor[p] \notin Elsewhere
    /\ pc[p] \in {"open", "lock", "validate"} => touched[p] = {}
    /\ pc[p] = "retain" => touched[p] = {root[p]}
    /\ touched[p] \cap Elsewhere = {}
    /\ \A d, e \in touched[p] : d = e

(* Whose store it is.                                                      *)
BoundInv(p) ==
    /\ pc[p] # "idle" \/ root_descriptor[p] # Nil => target_binding[p] \in Bindings
    /\ root_descriptor[p] # Nil => dirs[root_descriptor[p]].binding = target_binding[p]
    /\ pc[p] = "retain" => dirs[root[p]].binding = target_binding[p]
    /\ pc[p] = "select"
         => dirs[root[p]] = [binding |-> target_binding[p], current |-> seen[p]]

AuthorityInv ==
    /\ TypeOK /\ PathInv /\ LockInv
    /\ \A p \in Procs : RootInv(p) /\ TouchedInv(p) /\ BoundInv(p)

-----------------------------------------------------------------------------

LEMMA InitAuthority == Init => AuthorityInv
<1> SUFFICES ASSUME Init PROVE AuthorityInv
  OBVIOUS
<1>1. TypeOK
  BY DirsAssumption DEF Init, TypeOK, Store, Unbound, NoPath
<1>2. PathInv /\ LockInv
  BY DirsAssumption DEF Init, PathInv, LockInv, NoPath
<1>3. ASSUME NEW p \in Procs PROVE RootInv(p) /\ TouchedInv(p) /\ BoundInv(p)
  BY DirsAssumption DEF Init, RootInv, TouchedInv, BoundInv, Locked, Admitted
<1> QED
  BY <1>1, <1>2, <1>3 DEF AuthorityInv

(* create_directories may make the directory it will open. *)
LEMMA ConstructKeeps ==
  ASSUME AuthorityInv, NEW p \in Procs, NEW b \in Bindings, Construct(p, b)
  PROVE  AuthorityInv'
<1> USE DEF Construct, Goto, NoPath
<1>1. TypeOK'
  <2>1. CASE path # NoPath
    BY <2>1 DEF AuthorityInv, TypeOK
  <2>2. CASE path = NoPath
    <3>1. PICK d \in unused : path' = [link |-> FALSE, to |-> d] /\ unused' = unused \ {d}
      BY <2>2
    <3>2. path' \in [link : BOOLEAN, to : Dirs \cup {Nil}]
      BY <3>1 DEF AuthorityInv, TypeOK
    <3>3. unused' \subseteq Dirs
      BY <3>1 DEF AuthorityInv, TypeOK
    <3> QED
      BY <3>2, <3>3 DEF AuthorityInv, TypeOK
  <2> QED
    BY <2>1, <2>2
<1>2. PathInv'
  BY DirsAssumption DEF AuthorityInv, TypeOK, PathInv
<1>3. LockInv'
  BY DirsAssumption DEF AuthorityInv, TypeOK, LockInv, RootInv
<1>4. ASSUME NEW q \in Procs PROVE RootInv(q)'
  BY DirsAssumption DEF AuthorityInv, TypeOK, PathInv, RootInv, TouchedInv, Locked, Admitted
<1>5. ASSUME NEW q \in Procs PROVE TouchedInv(q)'
  BY DirsAssumption DEF AuthorityInv, TypeOK, RootInv, TouchedInv, Locked, Admitted
<1>6. ASSUME NEW q \in Procs PROVE BoundInv(q)'
  BY DirsAssumption, BindingAssumption
     DEF AuthorityInv, TypeOK, LockInv, RootInv, TouchedInv, BoundInv, Locked, Admitted
<1> QED
  BY <1>1, <1>2, <1>3, <1>4, <1>5, <1>6 DEF AuthorityInv

(* An opening starts. *)
LEMMA OpenExistingKeeps ==
  ASSUME AuthorityInv, NEW p \in Procs, NEW b \in Bindings, OpenExisting(p, b)
  PROVE  AuthorityInv'
<1> USE DEF OpenExisting, Goto
<1>1. TypeOK'
  BY DirsAssumption, BindingAssumption DEF AuthorityInv, TypeOK
<1>2. PathInv'
  BY DirsAssumption DEF AuthorityInv, TypeOK, PathInv
<1>3. LockInv'
  BY DirsAssumption DEF AuthorityInv, TypeOK, LockInv, RootInv
<1>4. ASSUME NEW q \in Procs PROVE RootInv(q)'
  BY DirsAssumption DEF AuthorityInv, TypeOK, PathInv, RootInv, TouchedInv, Locked, Admitted
<1>5. ASSUME NEW q \in Procs PROVE TouchedInv(q)'
  BY DirsAssumption DEF AuthorityInv, TypeOK, RootInv, TouchedInv, Locked, Admitted
<1>6. ASSUME NEW q \in Procs PROVE BoundInv(q)'
  BY DirsAssumption, BindingAssumption
     DEF AuthorityInv, TypeOK, LockInv, RootInv, TouchedInv, BoundInv, Locked, Admitted
<1> QED
  BY <1>1, <1>2, <1>3, <1>4, <1>5, <1>6 DEF AuthorityInv

(* The path is resolved. *)
LEMMA OpenRootKeeps ==
  ASSUME AuthorityInv, NEW p \in Procs, OpenRoot(p)
  PROVE  AuthorityInv'
<1> USE DEF OpenRoot, Goto, Openable
<1>1. TypeOK'
  BY DirsAssumption, BindingAssumption DEF AuthorityInv, TypeOK
<1>2. PathInv'
  BY DirsAssumption DEF AuthorityInv, TypeOK, PathInv
<1>3. LockInv'
  BY DirsAssumption DEF AuthorityInv, TypeOK, LockInv, RootInv, Locked
<1>4. ASSUME NEW q \in Procs PROVE RootInv(q)'
  BY DirsAssumption DEF AuthorityInv, TypeOK, PathInv, RootInv, TouchedInv, Locked, Admitted
<1>5. ASSUME NEW q \in Procs PROVE TouchedInv(q)'
  BY DirsAssumption DEF AuthorityInv, TypeOK, RootInv, TouchedInv, Locked, Admitted
<1>6. ASSUME NEW q \in Procs PROVE BoundInv(q)'
  BY DirsAssumption, BindingAssumption
     DEF AuthorityInv, TypeOK, LockInv, RootInv, TouchedInv, BoundInv, Locked, Admitted
<1> QED
  BY <1>1, <1>2, <1>3, <1>4, <1>5, <1>6 DEF AuthorityInv

(* The directory is locked. *)
LEMMA LockRootKeeps ==
  ASSUME AuthorityInv, NEW p \in Procs, LockRoot(p)
  PROVE  AuthorityInv'
<1> USE DEF LockRoot, Goto, MayLock
<1>1. TypeOK'
  BY DirsAssumption, BindingAssumption DEF AuthorityInv, TypeOK
<1>2. PathInv'
  BY DirsAssumption DEF AuthorityInv, TypeOK, PathInv
<1>3. LockInv'
  BY DirsAssumption DEF AuthorityInv, TypeOK, LockInv, RootInv
<1>4. ASSUME NEW q \in Procs PROVE RootInv(q)'
  BY DirsAssumption DEF AuthorityInv, TypeOK, PathInv, RootInv, TouchedInv, Locked, Admitted
<1>5. ASSUME NEW q \in Procs PROVE TouchedInv(q)'
  BY DirsAssumption DEF AuthorityInv, TypeOK, RootInv, TouchedInv, Locked, Admitted
<1>6. ASSUME NEW q \in Procs PROVE BoundInv(q)'
  BY DirsAssumption, BindingAssumption
     DEF AuthorityInv, TypeOK, LockInv, RootInv, TouchedInv, BoundInv, Locked, Admitted
<1> QED
  BY <1>1, <1>2, <1>3, <1>4, <1>5, <1>6 DEF AuthorityInv

(* initialize() binds a directory that nobody's handle retains yet. *)
LEMMA InitializeKeeps ==
  ASSUME AuthorityInv, NEW p \in Procs, Initialize(p)
  PROVE  AuthorityInv'
<1> USE DEF Initialize, Goto, Unbound, Store
<1>0. root[p] \in Dirs
  BY DEF AuthorityInv, TypeOK, RootInv
<1>1. TypeOK'
  <2>1. dirs' \in [Dirs -> Store]
    BY <1>0, ContentAssumption DEF AuthorityInv, TypeOK, BoundInv
  <2> QED
    BY <1>0, <2>1 DEF AuthorityInv, TypeOK
<1>2. PathInv'
  BY DirsAssumption DEF AuthorityInv, TypeOK, PathInv
<1>3. LockInv'
  BY DirsAssumption DEF AuthorityInv, TypeOK, LockInv, RootInv
<1>4. ASSUME NEW q \in Procs PROVE RootInv(q)'
  BY DirsAssumption DEF AuthorityInv, TypeOK, PathInv, RootInv, TouchedInv, Locked, Admitted
<1>5. ASSUME NEW q \in Procs PROVE TouchedInv(q)'
  BY DirsAssumption DEF AuthorityInv, TypeOK, RootInv, TouchedInv, Locked, Admitted
<1>6. ASSUME NEW q \in Procs PROVE BoundInv(q)'
  BY DirsAssumption, BindingAssumption
     DEF AuthorityInv, TypeOK, LockInv, RootInv, TouchedInv, BoundInv, Locked, Admitted
<1> QED
  BY <1>1, <1>2, <1>3, <1>4, <1>5, <1>6 DEF AuthorityInv

(* An opening accepts the directory it locked. *)
LEMMA ValidateExistingKeeps ==
  ASSUME AuthorityInv, NEW p \in Procs, ValidateExisting(p)
  PROVE  AuthorityInv'
<1> USE DEF ValidateExisting, Goto
<1>0. root[p] \in Dirs
  BY DEF AuthorityInv, TypeOK, RootInv
<1>1. TypeOK'
  BY <1>0, DirsAssumption, BindingAssumption DEF AuthorityInv, TypeOK, BoundInv
<1>2. PathInv'
  BY DirsAssumption DEF AuthorityInv, TypeOK, PathInv
<1>3. LockInv'
  BY DirsAssumption DEF AuthorityInv, TypeOK, LockInv, RootInv
<1>4. ASSUME NEW q \in Procs PROVE RootInv(q)'
  BY DirsAssumption DEF AuthorityInv, TypeOK, PathInv, RootInv, TouchedInv, Locked, Admitted
<1>5. ASSUME NEW q \in Procs PROVE TouchedInv(q)'
  BY DirsAssumption DEF AuthorityInv, TypeOK, RootInv, TouchedInv, Locked, Admitted
<1>6. ASSUME NEW q \in Procs PROVE BoundInv(q)'
  BY DirsAssumption, BindingAssumption
     DEF AuthorityInv, TypeOK, LockInv, RootInv, TouchedInv, BoundInv, Locked, Admitted
<1> QED
  BY <1>1, <1>2, <1>3, <1>4, <1>5, <1>6 DEF AuthorityInv

(* The handle is made. *)
LEMMA RetainKeeps ==
  ASSUME AuthorityInv, NEW p \in Procs, Retain(p)
  PROVE  AuthorityInv'
<1> USE DEF Retain, Return
<1>1. TypeOK'
  BY DirsAssumption, BindingAssumption DEF AuthorityInv, TypeOK
<1>2. PathInv'
  BY DirsAssumption DEF AuthorityInv, TypeOK, PathInv
<1>3. LockInv'
  BY DirsAssumption DEF AuthorityInv, TypeOK, LockInv, RootInv
<1>4. ASSUME NEW q \in Procs PROVE RootInv(q)'
  BY DirsAssumption DEF AuthorityInv, TypeOK, PathInv, RootInv, TouchedInv, Locked, Admitted
<1>5. ASSUME NEW q \in Procs PROVE TouchedInv(q)'
  BY DirsAssumption DEF AuthorityInv, TypeOK, RootInv, TouchedInv, Locked, Admitted
<1>6. ASSUME NEW q \in Procs PROVE BoundInv(q)'
  BY DirsAssumption, BindingAssumption
     DEF AuthorityInv, TypeOK, LockInv, RootInv, TouchedInv, BoundInv, Locked, Admitted
<1> QED
  BY <1>1, <1>2, <1>3, <1>4, <1>5, <1>6 DEF AuthorityInv

(* A read reopens the retained directory. *)
LEMMA BeginReadKeeps ==
  ASSUME AuthorityInv, NEW p \in Procs, BeginRead(p)
  PROVE  AuthorityInv'
<1> USE DEF BeginRead, Begin, Goto, MayLock
<1>1. TypeOK'
  BY DirsAssumption, BindingAssumption DEF AuthorityInv, TypeOK
<1>2. PathInv'
  BY DirsAssumption DEF AuthorityInv, TypeOK, PathInv
<1>3. LockInv'
  BY DirsAssumption DEF AuthorityInv, TypeOK, LockInv, RootInv
<1>4. ASSUME NEW q \in Procs PROVE RootInv(q)'
  BY DirsAssumption DEF AuthorityInv, TypeOK, PathInv, RootInv, TouchedInv, Locked, Admitted
<1>5. ASSUME NEW q \in Procs PROVE TouchedInv(q)'
  BY DirsAssumption DEF AuthorityInv, TypeOK, RootInv, TouchedInv, Locked, Admitted
<1>6. ASSUME NEW q \in Procs PROVE BoundInv(q)'
  BY DirsAssumption, BindingAssumption
     DEF AuthorityInv, TypeOK, LockInv, RootInv, TouchedInv, BoundInv, Locked, Admitted
<1> QED
  BY <1>1, <1>2, <1>3, <1>4, <1>5, <1>6 DEF AuthorityInv

(* So does a publication. *)
LEMMA BeginPublicationKeeps ==
  ASSUME AuthorityInv, NEW p \in Procs, BeginPublication(p)
  PROVE  AuthorityInv'
<1> USE DEF BeginPublication, Begin, Goto, MayLock
<1>1. TypeOK'
  BY DirsAssumption, BindingAssumption DEF AuthorityInv, TypeOK
<1>2. PathInv'
  BY DirsAssumption DEF AuthorityInv, TypeOK, PathInv
<1>3. LockInv'
  BY DirsAssumption DEF AuthorityInv, TypeOK, LockInv, RootInv
<1>4. ASSUME NEW q \in Procs PROVE RootInv(q)'
  BY DirsAssumption DEF AuthorityInv, TypeOK, PathInv, RootInv, TouchedInv, Locked, Admitted
<1>5. ASSUME NEW q \in Procs PROVE TouchedInv(q)'
  BY DirsAssumption DEF AuthorityInv, TypeOK, RootInv, TouchedInv, Locked, Admitted
<1>6. ASSUME NEW q \in Procs PROVE BoundInv(q)'
  BY DirsAssumption, BindingAssumption
     DEF AuthorityInv, TypeOK, LockInv, RootInv, TouchedInv, BoundInv, Locked, Admitted
<1> QED
  BY <1>1, <1>2, <1>3, <1>4, <1>5, <1>6 DEF AuthorityInv

(* A read ends. *)
LEMMA ReadSnapshotKeeps ==
  ASSUME AuthorityInv, NEW p \in Procs, ReadSnapshot(p)
  PROVE  AuthorityInv'
<1> USE DEF ReadSnapshot, Return
<1>0. root[p] \in Dirs
  BY DEF AuthorityInv, TypeOK, RootInv
<1>1. TypeOK'
  <2>1. dirs[root[p]].current \in Contents \cup {Nil}
    BY <1>0 DEF AuthorityInv, TypeOK, Store, Unbound
  <2> QED
    BY <1>0, <2>1 DEF AuthorityInv, TypeOK
<1>2. PathInv'
  BY DirsAssumption DEF AuthorityInv, TypeOK, PathInv
<1>3. LockInv'
  BY DirsAssumption DEF AuthorityInv, TypeOK, LockInv, RootInv
<1>4. ASSUME NEW q \in Procs PROVE RootInv(q)'
  BY DirsAssumption DEF AuthorityInv, TypeOK, PathInv, RootInv, TouchedInv, Locked, Admitted
<1>5. ASSUME NEW q \in Procs PROVE TouchedInv(q)'
  BY DirsAssumption DEF AuthorityInv, TypeOK, RootInv, TouchedInv, Locked, Admitted
<1>6. ASSUME NEW q \in Procs PROVE BoundInv(q)'
  BY DirsAssumption, BindingAssumption
     DEF AuthorityInv, TypeOK, LockInv, RootInv, TouchedInv, BoundInv, Locked, Admitted
<1> QED
  BY <1>1, <1>2, <1>3, <1>4, <1>5, <1>6 DEF AuthorityInv

(* The caller's snapshot is the selected one. *)
LEMMA CompareExpectedKeeps ==
  ASSUME AuthorityInv, NEW p \in Procs, CompareExpected(p)
  PROVE  AuthorityInv'
<1> USE DEF CompareExpected, Goto
<1>0. root[p] \in Dirs
  BY DEF AuthorityInv, TypeOK, RootInv
<1>1. TypeOK'
  BY <1>0, DirsAssumption, BindingAssumption DEF AuthorityInv, TypeOK, BoundInv
<1>2. PathInv'
  BY DirsAssumption DEF AuthorityInv, TypeOK, PathInv
<1>3. LockInv'
  BY DirsAssumption DEF AuthorityInv, TypeOK, LockInv, RootInv
<1>4. ASSUME NEW q \in Procs PROVE RootInv(q)'
  BY DirsAssumption DEF AuthorityInv, TypeOK, PathInv, RootInv, TouchedInv, Locked, Admitted
<1>5. ASSUME NEW q \in Procs PROVE TouchedInv(q)'
  BY DirsAssumption DEF AuthorityInv, TypeOK, RootInv, TouchedInv, Locked, Admitted
<1>6. ASSUME NEW q \in Procs PROVE BoundInv(q)'
  BY DirsAssumption, BindingAssumption
     DEF AuthorityInv, TypeOK, LockInv, RootInv, TouchedInv, BoundInv, Locked, Admitted
<1> QED
  BY <1>1, <1>2, <1>3, <1>4, <1>5, <1>6 DEF AuthorityInv

(* A publication replaces it. *)
LEMMA SelectGenerationKeeps ==
  ASSUME AuthorityInv, NEW p \in Procs, NEW c \in Contents, SelectGeneration(p, c)
  PROVE  AuthorityInv'
<1> USE DEF SelectGeneration, Return, Store
<1>0. root[p] \in Dirs
  BY DEF AuthorityInv, TypeOK, RootInv
<1>a. dirs[root[p]] = [binding |-> target_binding[p], current |-> seen[p]]
  BY DEF AuthorityInv, BoundInv
<1>b. dirs' = [dirs EXCEPT ![root[p]] = [binding |-> target_binding[p], current |-> c]]
  <2>1. [dirs[root[p]] EXCEPT !.current = c] = [binding |-> target_binding[p], current |-> c]
    BY <1>a
  <2> QED
    BY <2>1
<1>c. target_binding[p] \in Bindings
  BY DEF AuthorityInv, BoundInv
<1>d. dirs \in [Dirs -> Store]
  BY DEF AuthorityInv, TypeOK
<1>1. TypeOK'
  <2>1. dirs' \in [Dirs -> Store]
    BY <1>0, <1>b, <1>c, <1>d
  <2> QED
    BY <1>0, <2>1 DEF AuthorityInv, TypeOK
<1>2. PathInv'
  BY DirsAssumption DEF AuthorityInv, TypeOK, PathInv
<1>3. LockInv'
  BY DirsAssumption DEF AuthorityInv, TypeOK, LockInv, RootInv
<1>4. ASSUME NEW q \in Procs PROVE RootInv(q)'
  BY DirsAssumption DEF AuthorityInv, TypeOK, PathInv, RootInv, TouchedInv, Locked, Admitted
<1>5. ASSUME NEW q \in Procs PROVE TouchedInv(q)'
  BY DirsAssumption DEF AuthorityInv, TypeOK, RootInv, TouchedInv, Locked, Admitted
<1>6. ASSUME NEW q \in Procs PROVE BoundInv(q)'
  <2> DEFINE new == [binding |-> target_binding[p], current |-> c]
  <2>1. \A d \in Dirs : dirs'[d] = IF d = root[p] THEN new ELSE dirs[d]
    BY <1>0, <1>b, <1>d
  <2>2. new.binding = dirs[root[p]].binding
    BY <1>a
  <2>3. \A d \in Dirs : dirs'[d].binding = dirs[d].binding
    BY <2>1, <2>2
  <2>4. q # p /\ pc[q] = "select" => root[q] # root[p]
    BY <1>0, DirsAssumption DEF AuthorityInv, TypeOK, LockInv, RootInv, Locked
  <2>5. pc' = [pc EXCEPT ![p] = "idle"] /\ root' = [root EXCEPT ![p] = Nil]
        /\ UNCHANGED <<root_descriptor, target_binding, seen>>
    OBVIOUS
  <2> HIDE DEF SelectGeneration, Return, Store, new
  <2>6. BoundInv(q) /\ pc[p] = "select"
    BY DEF AuthorityInv, SelectGeneration
  <2>7. \A r \in Procs : root[r] \in Dirs \cup {Nil} /\ root_descriptor[r] \in Dirs \cup {Nil}
    BY DEF AuthorityInv, TypeOK
  <2>8. pc[q] \in {"retain", "select"} => root[q] # Nil
    BY DEF AuthorityInv, RootInv
  <2> QED
    BY <2>1, <2>3, <2>4, <2>5, <2>6, <2>7, <2>8 DEF AuthorityInv, TypeOK, BoundInv
<1> QED
  BY <1>1, <1>2, <1>3, <1>4, <1>5, <1>6 DEF AuthorityInv

(* A call gives up. *)
LEMMA ThrowKeeps ==
  ASSUME AuthorityInv, NEW p \in Procs, Throw(p)
  PROVE  AuthorityInv'
<1> USE DEF Throw, Return
<1>1. TypeOK'
  BY DirsAssumption, BindingAssumption DEF AuthorityInv, TypeOK
<1>2. PathInv'
  BY DirsAssumption DEF AuthorityInv, TypeOK, PathInv
<1>3. LockInv'
  BY DirsAssumption DEF AuthorityInv, TypeOK, LockInv, RootInv
<1>4. ASSUME NEW q \in Procs PROVE RootInv(q)'
  BY DirsAssumption DEF AuthorityInv, TypeOK, PathInv, RootInv, TouchedInv, Locked, Admitted
<1>5. ASSUME NEW q \in Procs PROVE TouchedInv(q)'
  BY DirsAssumption DEF AuthorityInv, TypeOK, RootInv, TouchedInv, Locked, Admitted
<1>6. ASSUME NEW q \in Procs PROVE BoundInv(q)'
  BY DirsAssumption, BindingAssumption
     DEF AuthorityInv, TypeOK, LockInv, RootInv, TouchedInv, BoundInv, Locked, Admitted
<1> QED
  BY <1>1, <1>2, <1>3, <1>4, <1>5, <1>6 DEF AuthorityInv

(* A handle is closed. *)
LEMMA CloseKeeps ==
  ASSUME AuthorityInv, NEW p \in Procs, Close(p)
  PROVE  AuthorityInv'
<1> USE DEF Close
<1>1. TypeOK'
  BY DirsAssumption, BindingAssumption DEF AuthorityInv, TypeOK
<1>2. PathInv'
  BY DirsAssumption DEF AuthorityInv, TypeOK, PathInv
<1>3. LockInv'
  BY DirsAssumption DEF AuthorityInv, TypeOK, LockInv, RootInv
<1>4. ASSUME NEW q \in Procs PROVE RootInv(q)'
  BY DirsAssumption DEF AuthorityInv, TypeOK, PathInv, RootInv, TouchedInv, Locked, Admitted
<1>5. ASSUME NEW q \in Procs PROVE TouchedInv(q)'
  BY DirsAssumption DEF AuthorityInv, TypeOK, RootInv, TouchedInv, Locked, Admitted
<1>6. ASSUME NEW q \in Procs PROVE BoundInv(q)'
  BY DirsAssumption, BindingAssumption
     DEF AuthorityInv, TypeOK, LockInv, RootInv, TouchedInv, BoundInv, Locked, Admitted
<1> QED
  BY <1>1, <1>2, <1>3, <1>4, <1>5, <1>6 DEF AuthorityInv

(* A rename disturbs neither descriptors nor locks. *)
LEMMA RenameKeeps ==
  ASSUME AuthorityInv, Rename
  PROVE  AuthorityInv'
<1> USE DEF Rename, NoPath
<1>0. /\ path' \in [link : BOOLEAN, to : Dirs \cup {Nil}]
      /\ path'.link \/ path'.to \notin Elsewhere
  <2>1. CASE path' = NoPath
    BY <2>1, DirsAssumption
  <2>2. CASE path' \in [link : {FALSE}, to : Dirs \ Elsewhere]
    BY <2>2
  <2>3. CASE path' \in [link : {TRUE}, to : Dirs]
    BY <2>3
  <2> QED
    BY <2>1, <2>2, <2>3
<1>1. TypeOK'
  BY <1>0 DEF AuthorityInv, TypeOK
<1>2. PathInv'
  BY <1>0 DEF AuthorityInv, PathInv
<1>3. LockInv'
  BY DEF AuthorityInv, LockInv
<1>4. ASSUME NEW q \in Procs PROVE RootInv(q)' /\ TouchedInv(q)' /\ BoundInv(q)'
  BY DEF AuthorityInv, RootInv, TouchedInv, BoundInv
<1> QED
  BY <1>1, <1>2, <1>3, <1>4 DEF AuthorityInv

-----------------------------------------------------------------------------

LEMMA StutterKeeps == AuthorityInv /\ UNCHANGED vars => AuthorityInv'
<1> SUFFICES ASSUME AuthorityInv, UNCHANGED vars PROVE AuthorityInv'
  OBVIOUS
<1>1. TypeOK' /\ PathInv' /\ LockInv'
  BY DEF AuthorityInv, vars, TypeOK, PathInv, LockInv
<1>2. ASSUME NEW q \in Procs PROVE RootInv(q)' /\ TouchedInv(q)' /\ BoundInv(q)'
  BY DEF AuthorityInv, vars, RootInv, TouchedInv, BoundInv
<1> QED
  BY <1>1, <1>2 DEF AuthorityInv

(* The invariant that ties every call to one directory holds in every      *)
(* state, for any number of clients, directories and renames.              *)
THEOREM AuthorityInvariant == Spec => []AuthorityInv
<1>1. Init => AuthorityInv
  BY InitAuthority
<1>2. AuthorityInv /\ [Next]_vars => AuthorityInv'
  <2> SUFFICES ASSUME AuthorityInv, [Next]_vars PROVE AuthorityInv'
    OBVIOUS
  <2>1. ASSUME NEW p \in Procs, Client(p) PROVE AuthorityInv'
    BY <2>1, ConstructKeeps, OpenExistingKeeps, OpenRootKeeps, LockRootKeeps,
       InitializeKeeps, ValidateExistingKeeps, RetainKeeps, BeginReadKeeps,
       BeginPublicationKeeps, ReadSnapshotKeeps, CompareExpectedKeeps,
       SelectGenerationKeeps, ThrowKeeps, CloseKeeps DEF Client
  <2> QED
    BY <2>1, RenameKeeps, StutterKeeps DEF Next
<1> QED
  BY <1>1, <1>2, PTL DEF Spec

(* Every variable keeps its type, whatever the path becomes.               *)
THEOREM AuthorityTypes == Spec => []TypeOK
<1>1. AuthorityInv => TypeOK
  BY DEF AuthorityInv
<1> QED
  BY <1>1, AuthorityInvariant, PTL

(* A handle, opened at line 854 and reopened as "." ever after, reaches    *)
(* one directory however often the path is renamed or replaced.            *)
THEOREM HandlesAreNotRedirected == Spec => []HandleNotRedirected
<1>1. AuthorityInv => HandleNotRedirected
  BY DEF AuthorityInv, TouchedInv, HandleNotRedirected
<1> QED
  BY <1>1, AuthorityInvariant, PTL

(* The directory a handle retains carries the binding the handle was made  *)
(* for and selects a generation: what validation established is not lost   *)
(* to a redirected constructor.                                            *)
THEOREM HandlesAreBound == Spec => []HandleBound
<1>1. AuthorityInv => HandleBound
  <2> SUFFICES ASSUME AuthorityInv, NEW p \in Procs, root_descriptor[p] # Nil
               PROVE  /\ dirs[root_descriptor[p]].binding = target_binding[p]
                      /\ dirs[root_descriptor[p]].current # Nil
    BY DEF HandleBound
  <2>1. dirs[root_descriptor[p]] \in Store
    BY DEF AuthorityInv, TypeOK
  <2>2. dirs[root_descriptor[p]].binding = target_binding[p] /\ target_binding[p] \in Bindings
    BY DEF AuthorityInv, BoundInv
  <2> QED
    BY <2>1, <2>2, BindingAssumption, ContentAssumption DEF Store, Unbound
<1> QED
  BY <1>1, AuthorityInvariant, PTL

(* A directory to which the path's last component is a link is never       *)
(* worked in: O_NOFOLLOW refuses it at the one place where the path is     *)
(* resolved.                                                               *)
THEOREM LinksAreRefused == Spec => []LinksRefused
<1>1. AuthorityInv => LinksRefused
  BY DEF AuthorityInv, TouchedInv, LinksRefused
<1> QED
  BY <1>1, AuthorityInvariant, PTL

(* The flock goes with the directory, not with its name: what a            *)
(* publication compared is still there when it selects.                    *)
THEOREM NothingIsLost == Spec => []NothingLost
<1>1. AuthorityInv => NothingLost
  BY DEF AuthorityInv, BoundInv, NothingLost
<1> QED
  BY <1>1, AuthorityInvariant, PTL
=============================================================================
