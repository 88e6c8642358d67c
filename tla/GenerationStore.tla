--------------------------- MODULE GenerationStore ---------------------------
(***************************************************************************)
(* The canonical generation store of src/src/canonical_generation_store.cpp: *)
(* clients that construct, open, read and publish one store directory, the *)
(* directory as processes see it, and what a power loss may leave of it.   *)
(*                                                                         *)
(*   root/generations/<identity>/snapshot   immutable, one per snapshot    *)
(*   root/current                           selector: the chosen identity  *)
(*   root/binding                           the state target, write-once   *)
(*                                                                         *)
(* A step is one system call, or a run of them on a private temporary that *)
(* nobody else names. Process kills, I/O errors and power losses happen    *)
(* between any two steps. A directory entry is durable once its directory  *)
(* was synchronised; until then a power loss may or may not keep it, each  *)
(* entry on its own. Snapshots stand for their identities: the digest is   *)
(* taken to be injective.                                                  *)
(***************************************************************************)
EXTENDS Integers, Sequences

CONSTANTS
    Procs,          \* clients, each with an open file description of its own
    Bindings,       \* state targets
    Contents,       \* package contents a snapshot may have
    EmptyContent,   \* no packages
    Nil,            \* no file, no binding, no snapshot
    Torn,           \* a file whose bytes never reached the disk
    PreExisting,    \* the root was there, durably, before the first client
    MaxSelections,  \* bound on generations selected in one timeline
    MaxFaults,      \* bound on I/O errors
    MaxKills,       \* bound on process kills
    MaxLosses       \* bound on power losses

Snapshots == [target : Bindings, content : Contents]

(* snapshot::make(target_binding_, {}).                                    *)
Empty(b) == [target |-> b, content |-> EmptyContent]
Selectors == [value : Snapshots \cup {Torn}, ver : Nat \ {0}]

ASSUME EmptyAssumption == EmptyContent \in Contents
ASSUME NilAssumption   == Nil \notin Bindings \cup Snapshots \cup Selectors \cup {Torn}
ASSUME TornAssumption  == Torn \notin Bindings \cup Snapshots
ASSUME RootAssumption  == PreExisting \in BOOLEAN
ASSUME BoundAssumption == {MaxSelections, MaxFaults, MaxKills, MaxLosses} \subseteq Nat

VARIABLES
    dir,              \* the root directory as every process sees it
    gens,             \* the entries of generations/ as every process sees them
    disk,             \* per root entry, the versions a power loss may leave
    diskGens,         \* per generation, the versions a power loss may leave
    pc,               \* where each client stands in the call it is making
    lock,             \* the flock each client holds on the root
    target_binding,   \* the binding each client was constructed with
    root_descriptor,  \* does the client hold an admitted store handle
    seen,             \* snapshot the client last read: what it expects to replace
    next,             \* snapshot the call under way would select
    draft,            \* the private temporary's bytes and mode are durable
    durability_confirmed,  \* publish's local: the root was synchronised
    outcome,          \* what the client's last call answered
    history,          \* ghost: snapshots selected, in order, on this timeline
    confirmed,        \* ghost: highest selection a client was told is durable
    faults, kills, losses  \* counts of injected failures, for the bounds

fsvars   == <<dir, gens, disk, diskGens>>
handle   == <<target_binding, root_descriptor, seen>>
locals   == <<next, draft, durability_confirmed>>
ghosts   == <<history, confirmed>>
counters == <<faults, kills, losses>>
vars     == <<fsvars, pc, lock, handle, locals, outcome, ghosts, counters>>

Outcomes == {"none", "admitted", "opened", "read", "store_error", "stale",
             "failed_before", "published", "unconfirmed", "indeterminate"}

(* Steps of ensure_generation, write_current_temporary and the selection,  *)
(* which initialize() and publish() share, ...                             *)
BeforeSelection == {"ensure", "write_generation", "seal_generation", "install",
                    "sync_generations", "write_selector", "seal_selector", "select"}
(* ... of write_atomic_metadata for the binding, ...                       *)
BindingSteps == {"write_binding", "seal_binding", "select_binding", "sync_binding"}
(* ... and everything that runs under the exclusive or the shared lock.    *)
Exclusive == BeforeSelection \cup BindingSteps
               \cup {"init_layout", "init_inspect", "init_reread", "init_sync",
                     "init_retain", "compare", "sync_root", "observe"}
Shared    == {"open_validate", "read"}
PCs       == {"idle", "init_lock"} \cup Exclusive \cup Shared

-----------------------------------------------------------------------------
(* What a process finds when it reads the store.                           *)

(* read_selected_snapshot_locked: generations/ is there, the selector      *)
(* parses, and the generation it names is whole, sealed and for b.         *)
Legible(root, g, b) ==
    /\ root.generations
    /\ root.current # Nil
    /\ root.current.value \in Snapshots
    /\ root.current.value.target = b
    /\ g[root.current.value] = "sealed"

(* read_snapshot_locked: the binding is b, then the selected snapshot.     *)
Admitted(root, g, b) == root.binding = b /\ Legible(root, g, b)

(* initialize() starts from a store that has neither binding nor selector, *)
Unfounded(root) == root.binding = Nil /\ root.current = Nil

(* Variants of Resumable: it is refused; its generation is not read.       *)
ResumableByNobody(root, g, b) == FALSE
ResumableUnread(root, g, b) == root.binding = Nil /\ root.current # Nil

(* and finishes one that selects the empty generation of its own target.   *)
Resumable(root, g, b) ==
    root.binding = Nil /\ Legible(root, g, b) /\ root.current.value = Empty(b)

(* Variant of MayLock: the lock is not taken.                              *)
MayLockAnyway(p, mode) == TRUE

(* flock(LOCK_NB): shared with shared, exclusive with nothing.             *)
MayLock(p, mode) ==
    \A q \in Procs \ {p} : lock[q] = "none" \/ (mode = "SH" /\ lock[q] = "SH")

(* fsync of the root: every entry of it is now on disk as it is seen. The  *)
(* root's own entry is in its parent, which nobody synchronises.           *)
RootSynced == [linked |-> disk.linked, generations |-> {dir.generations},
               current |-> {dir.current}, binding |-> {dir.binding}]

NoRoot   == [linked |-> FALSE, generations |-> FALSE, current |-> Nil, binding |-> Nil]
NoGens   == [s \in Snapshots |-> "absent"]
Only(root) == [linked |-> {root.linked}, generations |-> {root.generations},
               current |-> {root.current}, binding |-> {root.binding}]

Init ==
    /\ dir = [NoRoot EXCEPT !.linked = PreExisting]
    /\ disk = Only(dir)
    /\ gens = NoGens
    /\ diskGens = [s \in Snapshots |-> {"absent"}]
    /\ pc = [p \in Procs |-> "idle"]
    /\ lock = [p \in Procs |-> "none"]
    /\ target_binding = [p \in Procs |-> Nil]
    /\ root_descriptor = [p \in Procs |-> FALSE]
    /\ seen = [p \in Procs |-> Nil]
    /\ next = [p \in Procs |-> Nil]
    /\ draft = [p \in Procs |-> FALSE]
    /\ durability_confirmed = [p \in Procs |-> FALSE]
    /\ outcome = [p \in Procs |-> "none"]
    /\ history = <<>>
    /\ confirmed = 0
    /\ faults = 0 /\ kills = 0 /\ losses = 0

-----------------------------------------------------------------------------
(* How a call moves.                                                       *)

Goto(p, from, to) == pc[p] = from /\ pc' = [pc EXCEPT ![p] = to]

(* The call returns or throws: the descriptor that carries the lock is     *)
(* closed, and the locals are gone.                                        *)
Return(p, answer) ==
    /\ pc' = [pc EXCEPT ![p] = "idle"]
    /\ lock' = [lock EXCEPT ![p] = "none"]
    /\ next' = [next EXCEPT ![p] = Nil]
    /\ draft' = [draft EXCEPT ![p] = FALSE]
    /\ durability_confirmed' = [durability_confirmed EXCEPT ![p] = FALSE]
    /\ outcome' = [outcome EXCEPT ![p] = answer]

(* A constructor that throws leaves no object behind.                      *)
Throw(p, answer) ==
    /\ Return(p, answer)
    /\ target_binding' = [target_binding EXCEPT
                            ![p] = IF root_descriptor[p] THEN @ ELSE Nil]

-----------------------------------------------------------------------------
(* The constructor: initialize().                                          *)

(* create_directories, before any lock is taken.                           *)
CreateRoot(p, b) ==
    /\ Goto(p, "idle", "init_lock")
    /\ ~root_descriptor[p]
    /\ target_binding' = [target_binding EXCEPT ![p] = b]
    /\ outcome' = [outcome EXCEPT ![p] = "none"]
    /\ dir' = [dir EXCEPT !.linked = TRUE]
    /\ disk' = [disk EXCEPT !.linked = @ \cup {TRUE}]
    /\ UNCHANGED <<gens, diskGens, lock, root_descriptor, seen, locals, ghosts, counters>>

LockInitialization(p) ==
    /\ Goto(p, "init_lock", "init_layout")
    /\ MayLock(p, "EX")
    /\ lock' = [lock EXCEPT ![p] = "EX"]
    /\ UNCHANGED <<fsvars, handle, locals, outcome, ghosts, counters>>

(* ensure_directory_at: mkdir generations/, tolerating one that is there.  *)
EnsureLayout(p) ==
    /\ Goto(p, "init_layout", "init_inspect")
    /\ dir' = [dir EXCEPT !.generations = TRUE]
    /\ disk' = [disk EXCEPT !.generations = @ \cup {TRUE}]
    /\ UNCHANGED <<gens, diskGens, lock, handle, locals, outcome, ghosts, counters>>

(* Variant of InspectLayout: the binding is written before the selection.  *)
InspectLayoutBindingFirst(p) ==
    /\ pc[p] = "init_inspect"
    /\ \/ Admitted(dir, gens, target_binding[p]) /\ pc' = [pc EXCEPT ![p] = "init_sync"]
       \/ dir.binding = Nil /\ pc' = [pc EXCEPT ![p] = "write_binding"]
    /\ UNCHANGED <<fsvars, lock, handle, locals, outcome, ghosts, counters>>

(* A bound store must already be whole; an unbound one is built from       *)
(* nothing, or finished when it selects the empty generation.              *)
InspectLayout(p) ==
    /\ pc[p] = "init_inspect"
    /\ LET b == target_binding[p] IN
         \/ /\ Admitted(dir, gens, b)
            /\ pc' = [pc EXCEPT ![p] = "init_sync"]
            /\ UNCHANGED next
         \/ /\ Unfounded(dir)
            /\ pc' = [pc EXCEPT ![p] = "ensure"]
            /\ next' = [next EXCEPT ![p] = Empty(b)]
         \/ /\ Resumable(dir, gens, b)
            /\ pc' = [pc EXCEPT ![p] = "write_binding"]
            /\ UNCHANGED next
    /\ UNCHANGED <<fsvars, lock, handle, draft, durability_confirmed, outcome, ghosts, counters>>

(* The temporary of a generation, a selector or a binding: created and     *)
(* written, then made immutable and synchronised under its private name.   *)
WriteTemporary(p, from, to) ==
    /\ Goto(p, from, to)
    /\ draft' = [draft EXCEPT ![p] = FALSE]
    /\ UNCHANGED <<fsvars, lock, handle, next, durability_confirmed, outcome, ghosts, counters>>

(* Variant of SealTemporary: the bytes are not synchronised.               *)
SealTemporaryUnsynced(p, from, to) ==
    /\ Goto(p, from, to)
    /\ UNCHANGED <<fsvars, lock, handle, locals, outcome, ghosts, counters>>

SealTemporary(p, from, to) ==
    /\ Goto(p, from, to)
    /\ draft' = [draft EXCEPT ![p] = TRUE]
    /\ UNCHANGED <<fsvars, lock, handle, next, durability_confirmed, outcome, ghosts, counters>>

(* What a power loss may make of a file renamed into place: whole, or, if  *)
(* its bytes were never synchronised, torn.                                *)
Installed(p, whole, torn) == IF draft[p] THEN {whole} ELSE {whole, torn}

WriteBinding(p) == WriteTemporary(p, "write_binding", "seal_binding")
SealBinding(p)  == SealTemporary(p, "seal_binding", "select_binding")

(* rename(2) of the binding temporary.                                     *)
SelectBinding(p) ==
    /\ Goto(p, "select_binding", "sync_binding")
    /\ dir' = [dir EXCEPT !.binding = target_binding[p]]
    /\ disk' = [disk EXCEPT !.binding = @ \cup Installed(p, target_binding[p], Torn)]
    /\ UNCHANGED <<gens, diskGens, lock, handle, locals, outcome, ghosts, counters>>

SyncBinding(p) ==
    /\ Goto(p, "sync_binding", "init_reread")
    /\ disk' = RootSynced
    /\ UNCHANGED <<dir, gens, diskGens, lock, handle, locals, outcome, ghosts, counters>>

(* The read that closes initialize() once the binding is in place.         *)
RereadAdmitted(p) ==
    /\ Goto(p, "init_reread", "init_sync")
    /\ Admitted(dir, gens, target_binding[p])
    /\ UNCHANGED <<fsvars, lock, handle, locals, outcome, ghosts, counters>>

(* Variant of SyncLayout: a store that is admitted is taken for durable.   *)
SyncLayoutTrusting(p) ==
    /\ Goto(p, "init_sync", "init_retain")
    /\ UNCHANGED <<fsvars, lock, handle, locals, outcome, ghosts, counters>>

(* "synchronize canonical store layout": every admission by initialize()   *)
(* passes here, ...                                                        *)
SyncLayout(p) ==
    /\ Goto(p, "init_sync", "init_retain")
    /\ disk' = RootSynced
    /\ UNCHANGED <<dir, gens, diskGens, lock, handle, locals, outcome, ghosts, counters>>

(* ... and returning a handle tells its caller that the store is durable.  *)
RetainAuthority(p) ==
    /\ pc[p] = "init_retain"
    /\ root_descriptor' = [root_descriptor EXCEPT ![p] = TRUE]
    /\ confirmed' = dir.current.ver
    /\ Return(p, "admitted")
    /\ UNCHANGED <<fsvars, target_binding, seen, history, counters>>

-----------------------------------------------------------------------------
(* open_existing() and read().                                             *)

OpenExisting(p, b) ==
    /\ Goto(p, "idle", "open_validate")
    /\ ~root_descriptor[p]
    /\ dir.linked
    /\ MayLock(p, "SH")
    /\ lock' = [lock EXCEPT ![p] = "SH"]
    /\ target_binding' = [target_binding EXCEPT ![p] = b]
    /\ outcome' = [outcome EXCEPT ![p] = "none"]
    /\ UNCHANGED <<fsvars, root_descriptor, seen, locals, ghosts, counters>>

ValidateExisting(p) ==
    /\ pc[p] = "open_validate"
    /\ Admitted(dir, gens, target_binding[p])
    /\ root_descriptor' = [root_descriptor EXCEPT ![p] = TRUE]
    /\ Return(p, "opened")
    /\ UNCHANGED <<fsvars, target_binding, seen, ghosts, counters>>

LockRead(p) ==
    /\ Goto(p, "idle", "read")
    /\ root_descriptor[p]
    /\ MayLock(p, "SH")
    /\ lock' = [lock EXCEPT ![p] = "SH"]
    /\ outcome' = [outcome EXCEPT ![p] = "none"]
    /\ UNCHANGED <<fsvars, handle, locals, ghosts, counters>>

ReadSnapshot(p) ==
    /\ pc[p] = "read"
    /\ Admitted(dir, gens, target_binding[p])
    /\ seen' = [seen EXCEPT ![p] = dir.current.value]
    /\ Return(p, "read")
    /\ UNCHANGED <<fsvars, target_binding, root_descriptor, ghosts, counters>>

-----------------------------------------------------------------------------
(* compare_and_publish(): begin_publication() takes the lock, the library  *)
(* compares the snapshot read under it with the one expected, publish()    *)
(* selects the result.                                                     *)

BeginPublication(p, c) ==
    /\ Goto(p, "idle", "compare")
    /\ root_descriptor[p]
    /\ seen[p] # Nil
    /\ Len(history) < MaxSelections
    /\ MayLock(p, "EX")
    /\ lock' = [lock EXCEPT ![p] = "EX"]
    /\ next' = [next EXCEPT ![p] = [target |-> target_binding[p], content |-> c]]
    /\ outcome' = [outcome EXCEPT ![p] = "none"]
    /\ UNCHANGED <<fsvars, handle, draft, durability_confirmed, ghosts, counters>>

(* lock_and_read, then the library's comparison.                           *)
CompareExpected(p) ==
    /\ pc[p] = "compare"
    /\ Admitted(dir, gens, target_binding[p])
    /\ IF dir.current.value = seen[p]
       THEN /\ pc' = [pc EXCEPT ![p] = "ensure"]
            /\ UNCHANGED <<lock, locals, outcome>>
       ELSE Return(p, "stale")
    /\ UNCHANGED <<fsvars, handle, ghosts, counters>>

(* Variant of EnsureGeneration: a generation reused is not synchronised.   *)
EnsureGenerationUnsynced(p) ==
    /\ pc[p] = "ensure"
    /\ gens[next[p]] # "torn"
    /\ pc' = [pc EXCEPT ![p] = IF gens[next[p]] = "sealed"
                               THEN "write_selector" ELSE "write_generation"]
    /\ UNCHANGED <<fsvars, lock, handle, locals, outcome, ghosts, counters>>

(* ensure_generation: a generation already there is validated and reused,  *)
(* but the directory that names it is synchronised all the same.           *)
EnsureGeneration(p) ==
    /\ pc[p] = "ensure"
    /\ gens[next[p]] # "torn"
    /\ pc' = [pc EXCEPT ![p] = IF gens[next[p]] = "sealed"
                               THEN "sync_generations" ELSE "write_generation"]
    /\ UNCHANGED <<fsvars, lock, handle, locals, outcome, ghosts, counters>>

WriteGeneration(p) == WriteTemporary(p, "write_generation", "seal_generation")
SealGeneration(p)  == SealTemporary(p, "seal_generation", "install")

(* renameat2(RENAME_NOREPLACE) of the temporary directory.                 *)
InstallGeneration(p) ==
    /\ Goto(p, "install", "sync_generations")
    /\ gens[next[p]] = "absent"
    /\ gens' = [gens EXCEPT ![next[p]] = "sealed"]
    /\ diskGens' = [diskGens EXCEPT ![next[p]] = @ \cup Installed(p, "sealed", "torn")]
    /\ UNCHANGED <<dir, disk, lock, handle, locals, outcome, ghosts, counters>>

SyncGenerations(p) ==
    /\ Goto(p, "sync_generations", "write_selector")
    /\ diskGens' = [s \in Snapshots |-> {gens[s]}]
    /\ UNCHANGED <<dir, gens, disk, lock, handle, locals, outcome, ghosts, counters>>

WriteSelector(p) == WriteTemporary(p, "write_selector", "seal_selector")
SealSelector(p)  == SealTemporary(p, "seal_selector", "select")

(* The selector, stamped with the place its selection has in history.      *)
Chosen(v) == [value |-> v, ver |-> Len(history) + 1]

(* rename(2) of the selector temporary: the point of no return.            *)
SelectGeneration(p) ==
    /\ Goto(p, "select", "sync_root")
    /\ dir' = [dir EXCEPT !.current = Chosen(next[p])]
    /\ disk' = [disk EXCEPT !.current =
                  @ \cup Installed(p, Chosen(next[p]), Chosen(Torn))]
    /\ history' = Append(history, next[p])
    /\ UNCHANGED <<gens, diskGens, lock, handle, locals, outcome, confirmed, counters>>

(* Variant of SyncRoot: the superseded generation is collected.            *)
SyncRootPruning(p) ==
    /\ pc[p] = "sync_root"
    /\ disk' = RootSynced
    /\ durability_confirmed' = [durability_confirmed EXCEPT ![p] = TRUE]
    /\ pc' = [pc EXCEPT ![p] = IF root_descriptor[p] THEN "observe" ELSE "write_binding"]
    /\ gens' = [s \in Snapshots |-> IF s = seen[p] /\ s # next[p] THEN "absent" ELSE gens[s]]
    /\ UNCHANGED <<dir, diskGens, lock, handle, next, draft, outcome, ghosts, counters>>

(* fsync of the root after the selection: publish() rereads, initialize()  *)
(* goes on to the binding.                                                 *)
SyncRoot(p) ==
    /\ pc[p] = "sync_root"
    /\ disk' = RootSynced
    /\ durability_confirmed' = [durability_confirmed EXCEPT ![p] = TRUE]
    /\ pc' = [pc EXCEPT ![p] = IF root_descriptor[p] THEN "observe" ELSE "write_binding"]
    /\ UNCHANGED <<dir, gens, diskGens, lock, handle, next, draft, outcome, ghosts, counters>>

(* The reread of publish(), and the receipt it justifies.                  *)
Receipt(p) ==
    IF ~(Admitted(dir, gens, target_binding[p]) /\ dir.current.value = next[p])
    THEN "indeterminate"
    ELSE IF durability_confirmed[p] THEN "published" ELSE "unconfirmed"

Observe(p) ==
    /\ pc[p] = "observe"
    /\ confirmed' = IF Receipt(p) = "published" THEN dir.current.ver ELSE confirmed
    /\ Return(p, Receipt(p))
    /\ UNCHANGED <<fsvars, handle, history, counters>>

-----------------------------------------------------------------------------
(* Refusals: what the code finds makes it throw.                           *)

(* The lock is taken without waiting, so a busy store refuses a read, a    *)
(* publication or an open at once; a root that is not there, an open.      *)
RefuseLock(p) ==
    /\ \/ pc[p] = "idle" /\ root_descriptor[p] /\ ~MayLock(p, "EX")
       \/ pc[p] = "idle" /\ ~root_descriptor[p] /\ (~dir.linked \/ ~MayLock(p, "SH"))
    /\ Throw(p, "store_error")
    /\ UNCHANGED <<fsvars, root_descriptor, seen, ghosts, counters>>

(* Variant of Acceptable: initialize() waits for the lock.                 *)
AcceptableWaiting(p) == pc[p] \in {"open_validate", "read", "compare", "init_reread"} =>
                          Admitted(dir, gens, target_binding[p])

(* What each step that checks must find.                                   *)
Acceptable(p) ==
    LET b == target_binding[p] IN
    CASE pc[p] = "init_lock" -> MayLock(p, "EX")
      [] pc[p] = "init_inspect" ->
           Admitted(dir, gens, b) \/ Unfounded(dir) \/ Resumable(dir, gens, b)
      [] pc[p] \in {"open_validate", "read", "compare", "init_reread"} ->
           Admitted(dir, gens, b)
      [] pc[p] = "ensure" -> gens[next[p]] # "torn"
      [] OTHER -> TRUE

RefuseStore(p) ==
    /\ ~Acceptable(p)
    /\ Throw(p, "store_error")
    /\ UNCHANGED <<fsvars, root_descriptor, seen, ghosts, counters>>

-----------------------------------------------------------------------------
(* Failures from outside.                                                  *)

Fault == /\ faults < MaxFaults
         /\ faults' = faults + 1
         /\ UNCHANGED <<kills, losses>>

(* before_selection_failure: publish() answers it, initialize() rethrows   *)
(* it. The temporary is removed; an installed generation stays.            *)
FailBeforeSelection(p) ==
    /\ pc[p] \in BeforeSelection \ {"ensure"}
    /\ Fault
    /\ Throw(p, IF root_descriptor[p] THEN "failed_before" ELSE "store_error")
    /\ UNCHANGED <<fsvars, root_descriptor, seen, ghosts>>

(* store_error: every other failure leaves the call as an exception; at    *)
(* "idle" it is the first system call of one that fails.                   *)
FailStore(p) ==
    /\ \/ pc[p] \in PCs \ (BeforeSelection \cup {"sync_root", "observe"})
       \/ pc[p] = "ensure"
       \/ pc[p] = "sync_root" /\ ~root_descriptor[p]
    /\ Fault
    /\ Throw(p, "store_error")
    /\ UNCHANGED <<fsvars, root_descriptor, seen, ghosts>>

(* publish() goes on when the root cannot be synchronised ...              *)
FailSyncRoot(p) ==
    /\ Goto(p, "sync_root", "observe")
    /\ root_descriptor[p]
    /\ Fault
    /\ UNCHANGED <<fsvars, lock, handle, locals, outcome, ghosts>>

(* ... and answers even when the reread fails.                             *)
FailObserve(p) ==
    /\ pc[p] = "observe"
    /\ Fault
    /\ Return(p, "indeterminate")
    /\ UNCHANGED <<fsvars, handle, ghosts>>

(* The destructor.                                                         *)
Close(p) ==
    /\ pc[p] = "idle" /\ root_descriptor[p]
    /\ root_descriptor' = [root_descriptor EXCEPT ![p] = FALSE]
    /\ target_binding' = [target_binding EXCEPT ![p] = Nil]
    /\ seen' = [seen EXCEPT ![p] = Nil]
    /\ outcome' = [outcome EXCEPT ![p] = "none"]
    /\ UNCHANGED <<fsvars, pc, lock, locals, ghosts, counters>>

(* A process dies: its locks and locals go, what it wrote stays.           *)
Kill(p) ==
    /\ kills < MaxKills
    /\ pc[p] # "idle"
    /\ kills' = kills + 1
    /\ root_descriptor' = [root_descriptor EXCEPT ![p] = FALSE]
    /\ target_binding' = [target_binding EXCEPT ![p] = Nil]
    /\ seen' = [seen EXCEPT ![p] = Nil]
    /\ Return(p, "none")
    /\ UNCHANGED <<fsvars, ghosts, faults, losses>>

(* What is left of the root when the power goes: one of the versions each  *)
(* entry may have, or nothing if the root's own entry is lost.             *)
Image(l, g, c, b) ==
    IF l THEN [linked |-> TRUE, generations |-> g, current |-> c, binding |-> b]
    ELSE NoRoot

PowerLoss ==
    /\ losses < MaxLosses
    /\ losses' = losses + 1
    /\ \E l \in disk.linked, g \in disk.generations, c \in disk.current, b \in disk.binding :
         \E kept \in [Snapshots -> {"absent", "sealed", "torn"}] :
           /\ \A s \in Snapshots : kept[s] \in diskGens[s]
           /\ dir' = Image(l, g, c, b)
           /\ gens' = IF l /\ g THEN kept ELSE NoGens
    /\ disk' = Only(dir')
    /\ diskGens' = [s \in Snapshots |-> {gens'[s]}]
    /\ history' = IF dir'.current = Nil THEN <<>> ELSE SubSeq(history, 1, dir'.current.ver)
    /\ pc' = [p \in Procs |-> "idle"]
    /\ lock' = [p \in Procs |-> "none"]
    /\ target_binding' = [p \in Procs |-> Nil]
    /\ root_descriptor' = [p \in Procs |-> FALSE]
    /\ seen' = [p \in Procs |-> Nil]
    /\ next' = [p \in Procs |-> Nil]
    /\ draft' = [p \in Procs |-> FALSE]
    /\ durability_confirmed' = [p \in Procs |-> FALSE]
    /\ outcome' = [p \in Procs |-> "none"]
    /\ UNCHANGED <<confirmed, faults, kills>>

-----------------------------------------------------------------------------

(* The steps of a call that is under way.                                  *)
Initialization(p) ==
    \/ LockInitialization(p) \/ EnsureLayout(p) \/ InspectLayout(p)
    \/ WriteBinding(p) \/ SealBinding(p) \/ SelectBinding(p) \/ SyncBinding(p)
    \/ RereadAdmitted(p) \/ SyncLayout(p) \/ RetainAuthority(p)
Publication(p) ==
    \/ CompareExpected(p) \/ EnsureGeneration(p) \/ WriteGeneration(p)
    \/ SealGeneration(p) \/ InstallGeneration(p) \/ SyncGenerations(p)
    \/ WriteSelector(p) \/ SealSelector(p) \/ SelectGeneration(p)
    \/ SyncRoot(p) \/ Observe(p)
Step(p) == Initialization(p) \/ Publication(p) \/ ValidateExisting(p) \/ ReadSnapshot(p)
             \/ RefuseStore(p)

(* What a client chooses to do.                                            *)
Call(p) ==
    \/ \E b \in Bindings : CreateRoot(p, b) \/ OpenExisting(p, b)
    \/ \E c \in Contents : BeginPublication(p, c)
    \/ LockRead(p) \/ RefuseLock(p) \/ Close(p)

Failure(p) == FailBeforeSelection(p) \/ FailStore(p) \/ FailSyncRoot(p) \/ FailObserve(p)
                \/ Kill(p)

Next == (\E p \in Procs : Step(p) \/ Call(p) \/ Failure(p)) \/ PowerLoss

Spec == Init /\ [][Next]_vars
=============================================================================
