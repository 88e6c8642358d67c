---------------------------- MODULE StoreAuthority ----------------------------
(***************************************************************************)
(* Which directory a store handle works in while somebody renames and      *)
(* replaces the configured path. A constructor creates, then opens what    *)
(* the path names, and refuses a final symbolic link; it locks, validates  *)
(* and retains the directory it opened. Reads and publications reopen "."  *)
(* from the retained descriptor and never look at the path again.          *)
(*                                                                         *)
(* Everything that runs under one lock is one step: GenerationStore takes  *)
(* it apart. What matters here is which directory each step reaches, and   *)
(* that the path may change between any two.                               *)
(***************************************************************************)
EXTENDS Integers

CONSTANTS
    Procs,        \* clients, one handle each
    Dirs,         \* directories
    Elsewhere,    \* those the path reaches through symbolic links only
    Bindings,     \* state targets
    Contents,     \* package contents
    EmptyContent, \* no packages
    Nil,          \* nothing: no directory, no binding, no content
    MaxRenames    \* bound on changes of the path

ASSUME DirsAssumption    == Elsewhere \subseteq Dirs /\ Nil \notin Dirs
ASSUME BindingAssumption == Nil \notin Bindings
ASSUME ContentAssumption == EmptyContent \in Contents /\ Nil \notin Contents
ASSUME RenamesAssumption == MaxRenames \in Nat

VARIABLES
    path,             \* what the configured name is: a directory, a link to one, or Nil
    unused,           \* directories that were never linked anywhere
    dirs,             \* the store in each directory: its binding and what it selects
    pc,               \* where each client stands in its call
    creating,         \* does the call under way initialise, or only open
    root,             \* the directory whose descriptor the call under way holds
    lock,             \* the flock held on that description
    root_descriptor,  \* the directory the handle retains, or Nil
    target_binding,   \* the binding the client was constructed with
    seen,             \* what it read last through this handle
    touched,          \* ghost: directories that the calls of this handle used
    renames           \* how often the path changed

vars == <<path, unused, dirs, pc, creating, root, lock, root_descriptor, target_binding,
          seen, touched, renames>>

(* A directory holds nothing yet, or a bound store that selects something. *)
Unbound == [binding |-> Nil, current |-> Nil]
Store   == [binding : Bindings, current : Contents] \cup {Unbound}
NoPath == [link |-> FALSE, to |-> Nil]

Init ==
    /\ path = NoPath
    /\ unused = Dirs \ Elsewhere
    /\ dirs \in [Dirs -> Store]
    /\ \A d \in Dirs : d \in Elsewhere <=> dirs[d] # Unbound
    /\ pc = [p \in Procs |-> "idle"]
    /\ creating = [p \in Procs |-> FALSE]
    /\ root = [p \in Procs |-> Nil]
    /\ lock = [p \in Procs |-> "none"]
    /\ root_descriptor = [p \in Procs |-> Nil]
    /\ target_binding = [p \in Procs |-> Nil]
    /\ seen = [p \in Procs |-> Nil]
    /\ touched = [p \in Procs |-> {}]
    /\ renames = 0

-----------------------------------------------------------------------------

(* Variant of MayLock: the lock goes with the name and not the directory.  *)
MayLockByName(p, d, mode) == d = path.to =>
    \A q \in Procs \ {p} : root[q] = d => lock[q] = "none" \/ (mode = "SH" /\ lock[q] = "SH")

(* flock(LOCK_NB) on an open description of d.                             *)
MayLock(p, d, mode) ==
    \A q \in Procs \ {p} : root[q] = d => lock[q] = "none" \/ (mode = "SH" /\ lock[q] = "SH")

(* Variant of Openable: without O_NOFOLLOW.                                *)
OpenableFollowing == path.to # Nil

(* open(O_DIRECTORY | O_NOFOLLOW) of the configured path.                  *)
Openable == path.to # Nil /\ ~path.link

Goto(p, from, to) == pc[p] = from /\ pc' = [pc EXCEPT ![p] = to]

(* The call ends, its descriptor is closed and the lock with it.           *)
Return(p) ==
    /\ pc' = [pc EXCEPT ![p] = "idle"]
    /\ root' = [root EXCEPT ![p] = Nil]
    /\ lock' = [lock EXCEPT ![p] = "none"]

(* create_directories: a directory that is there, linked or not, will do.  *)
Construct(p, b) ==
    /\ root_descriptor[p] = Nil
    /\ Goto(p, "idle", "open")
    /\ \/ path # NoPath /\ UNCHANGED <<path, unused>>
       \/ /\ path = NoPath
          /\ \E d \in unused : /\ path' = [link |-> FALSE, to |-> d]
                               /\ unused' = unused \ {d}
    /\ creating' = [creating EXCEPT ![p] = TRUE]
    /\ target_binding' = [target_binding EXCEPT ![p] = b]
    /\ touched' = [touched EXCEPT ![p] = {}]
    /\ UNCHANGED <<dirs, root, lock, root_descriptor, seen, renames>>

OpenExisting(p, b) ==
    /\ root_descriptor[p] = Nil
    /\ Goto(p, "idle", "open")
    /\ creating' = [creating EXCEPT ![p] = FALSE]
    /\ target_binding' = [target_binding EXCEPT ![p] = b]
    /\ touched' = [touched EXCEPT ![p] = {}]
    /\ UNCHANGED <<path, unused, dirs, root, lock, root_descriptor, seen, renames>>

OpenRoot(p) ==
    /\ Goto(p, "open", "lock")
    /\ Openable
    /\ root' = [root EXCEPT ![p] = path.to]
    /\ UNCHANGED <<path, unused, dirs, creating, lock, root_descriptor, target_binding,
                   seen, touched, renames>>

LockRoot(p) ==
    LET mode == IF creating[p] THEN "EX" ELSE "SH" IN
    /\ Goto(p, "lock", "validate")
    /\ MayLock(p, root[p], mode)
    /\ lock' = [lock EXCEPT ![p] = mode]
    /\ UNCHANGED <<path, unused, dirs, creating, root, root_descriptor, target_binding,
                   seen, touched, renames>>

(* Variant of Initialize: a directory is bound before it selects anything. *)
InitializeBinding(p) ==
    LET d == root[p] IN
    /\ Goto(p, "validate", "retain")
    /\ creating[p]
    /\ dirs' = [dirs EXCEPT ![d].binding = target_binding[p]]
    /\ touched' = [touched EXCEPT ![p] = @ \cup {d}]
    /\ UNCHANGED <<path, unused, creating, root, lock, root_descriptor, target_binding,
                   seen, renames>>

(* initialize(), all of it: an empty directory is bound and selects the    *)
(* empty generation, a store of the same target is admitted.               *)
Initialize(p) ==
    LET d == root[p] IN
    /\ Goto(p, "validate", "retain")
    /\ creating[p]
    /\ dirs[d] \in {Unbound, [binding |-> target_binding[p], current |-> dirs[d].current]}
    /\ dirs' = IF dirs[d] = Unbound
               THEN [dirs EXCEPT ![d] = [binding |-> target_binding[p],
                                         current |-> EmptyContent]]
               ELSE dirs
    /\ touched' = [touched EXCEPT ![p] = @ \cup {d}]
    /\ UNCHANGED <<path, unused, creating, root, lock, root_descriptor, target_binding,
                   seen, renames>>

(* Variant of ValidateExisting: any bound store will do.                   *)
ValidateExistingAny(p) ==
    /\ Goto(p, "validate", "retain")
    /\ ~creating[p]
    /\ dirs[root[p]] # Unbound
    /\ touched' = [touched EXCEPT ![p] = @ \cup {root[p]}]
    /\ UNCHANGED <<path, unused, dirs, creating, root, lock, root_descriptor,
                   target_binding, seen, renames>>

ValidateExisting(p) ==
    /\ Goto(p, "validate", "retain")
    /\ ~creating[p]
    /\ dirs[root[p]].binding = target_binding[p]
    /\ touched' = [touched EXCEPT ![p] = @ \cup {root[p]}]
    /\ UNCHANGED <<path, unused, dirs, creating, root, lock, root_descriptor,
                   target_binding, seen, renames>>

(* The handle keeps a descriptor of its own, reopened as "." from root.    *)
Retain(p) ==
    /\ pc[p] = "retain"
    /\ root_descriptor' = [root_descriptor EXCEPT ![p] = root[p]]
    /\ Return(p)
    /\ UNCHANGED <<path, unused, dirs, creating, target_binding, seen, touched, renames>>

(* Variant of Begin: the configured path is resolved again.                *)
BeginByPath(p, to, mode) ==
    LET d == IF Openable THEN path.to ELSE root_descriptor[p] IN
    /\ root_descriptor[p] # Nil
    /\ Goto(p, "idle", to)
    /\ MayLock(p, d, mode)
    /\ root' = [root EXCEPT ![p] = d]
    /\ lock' = [lock EXCEPT ![p] = mode]
    /\ UNCHANGED <<path, unused, dirs, creating, root_descriptor, target_binding, seen,
                   touched, renames>>

(* read() and begin_publication() open "." of the retained directory and   *)
(* lock that description.                                                  *)
Begin(p, to, mode) ==
    /\ root_descriptor[p] # Nil
    /\ Goto(p, "idle", to)
    /\ MayLock(p, root_descriptor[p], mode)
    /\ root' = [root EXCEPT ![p] = root_descriptor[p]]
    /\ lock' = [lock EXCEPT ![p] = mode]
    /\ UNCHANGED <<path, unused, dirs, creating, root_descriptor, target_binding, seen,
                   touched, renames>>

BeginRead(p)        == Begin(p, "read", "SH")
BeginPublication(p) == seen[p] # Nil /\ Begin(p, "compare", "EX")

ReadSnapshot(p) ==
    /\ pc[p] = "read"
    /\ dirs[root[p]].binding = target_binding[p]
    /\ seen' = [seen EXCEPT ![p] = dirs[root[p]].current]
    /\ touched' = [touched EXCEPT ![p] = @ \cup {root[p]}]
    /\ Return(p)
    /\ UNCHANGED <<path, unused, dirs, creating, root_descriptor, target_binding, renames>>

CompareExpected(p) ==
    /\ Goto(p, "compare", "select")
    /\ dirs[root[p]] = [binding |-> target_binding[p], current |-> seen[p]]
    /\ touched' = [touched EXCEPT ![p] = @ \cup {root[p]}]
    /\ UNCHANGED <<path, unused, dirs, creating, root, lock, root_descriptor,
                   target_binding, seen, renames>>

SelectGeneration(p, c) ==
    /\ pc[p] = "select"
    /\ dirs' = [dirs EXCEPT ![root[p]].current = c]
    /\ touched' = [touched EXCEPT ![p] = @ \cup {root[p]}]
    /\ Return(p)
    /\ UNCHANGED <<path, unused, creating, root_descriptor, target_binding, seen, renames>>

(* A call that cannot go on from where it stands throws; one that fails    *)
(* anywhere does too.                                                      *)
Throw(p) ==
    /\ pc[p] # "idle"
    /\ Return(p)
    /\ UNCHANGED <<path, unused, dirs, creating, root_descriptor, target_binding, seen,
                   touched, renames>>

Close(p) ==
    /\ pc[p] = "idle" /\ root_descriptor[p] # Nil
    /\ root_descriptor' = [root_descriptor EXCEPT ![p] = Nil]
    /\ seen' = [seen EXCEPT ![p] = Nil]
    /\ UNCHANGED <<path, unused, dirs, pc, creating, root, lock, target_binding, touched,
                   renames>>

(* Somebody moves the directory away, another in its place, or a link.     *)
Rename ==
    /\ renames < MaxRenames
    /\ renames' = renames + 1
    /\ path' \in {NoPath} \cup [link : {FALSE}, to : Dirs \ Elsewhere]
                          \cup [link : {TRUE}, to : Dirs]
    /\ unused' = unused \ {path'.to}
    /\ UNCHANGED <<dirs, pc, creating, root, lock, root_descriptor, target_binding, seen,
                   touched>>

Client(p) ==
    \/ \E b \in Bindings : Construct(p, b) \/ OpenExisting(p, b)
    \/ OpenRoot(p) \/ LockRoot(p) \/ Initialize(p) \/ ValidateExisting(p) \/ Retain(p)
    \/ BeginRead(p) \/ BeginPublication(p) \/ ReadSnapshot(p) \/ CompareExpected(p)
    \/ \E c \in Contents : SelectGeneration(p, c)
    \/ Throw(p) \/ Close(p)

Next == (\E p \in Procs : Client(p)) \/ Rename

Spec == Init /\ [][Next]_vars

-----------------------------------------------------------------------------

(* Every variable keeps its type.                                          *)
TypeOK ==
    /\ path \in [link : BOOLEAN, to : Dirs \cup {Nil}]
    /\ unused \subseteq Dirs
    /\ dirs \in [Dirs -> Store]
    /\ pc \in [Procs -> {"idle", "open", "lock", "validate", "retain", "read", "compare",
                         "select"}]
    /\ creating \in [Procs -> BOOLEAN]
    /\ root \in [Procs -> Dirs \cup {Nil}]
    /\ lock \in [Procs -> {"none", "SH", "EX"}]
    /\ root_descriptor \in [Procs -> Dirs \cup {Nil}]
    /\ target_binding \in [Procs -> Bindings \cup {Nil}]
    /\ seen \in [Procs -> Contents \cup {Nil}]
    /\ touched \in [Procs -> SUBSET Dirs]
    /\ renames \in Nat

(* All calls of one handle, the validation that admitted it included, work *)
(* in one directory, wherever it is moved and whatever takes its name.     *)
HandleNotRedirected ==
    \A p \in Procs : \A d, e \in touched[p] : d = e

(* A handle retains a directory that is bound to its own target and        *)
(* selects a generation, although the path changed between creating,       *)
(* opening and validating it, and another constructor may have been        *)
(* redirected into the same directory.                                     *)
HandleBound ==
    \A p \in Procs : root_descriptor[p] # Nil =>
      /\ dirs[root_descriptor[p]].binding = target_binding[p]
      /\ dirs[root_descriptor[p]].current # Nil

(* A directory to which the path's last component is only a symbolic link  *)
(* is never initialised, read or published to. (Links among the components *)
(* before it are followed, and not looked at here.)                        *)
LinksRefused == \A p \in Procs : touched[p] \cap Elsewhere = {}

(* Two clients that reached one directory by different names, or at        *)
(* different times, still exclude each other: what a publication compared  *)
(* is what its selection replaces.                                         *)
NothingLost ==
    \A p \in Procs : pc[p] = "select" =>
      dirs[root[p]] = [binding |-> target_binding[p], current |-> seen[p]]
=============================================================================
