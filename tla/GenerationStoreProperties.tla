---------------------- MODULE GenerationStoreProperties ----------------------
(***************************************************************************)
(* What GenerationStore must satisfy: a type invariant, crash consistency, *)
(* durability of what was reported, one target per store, the refinement   *)
(* of CanonicalStore, and progress.                                        *)
(***************************************************************************)
EXTENDS GenerationStore

Presence == {"absent", "sealed", "torn"}

(* Every variable keeps its type. The disk's fields are sets of versions.  *)
TypeOK ==
    /\ dir \in [linked : BOOLEAN, generations : BOOLEAN,
                current : Selectors \cup {Nil}, binding : Bindings \cup {Nil, Torn}]
    /\ disk \in [linked : SUBSET BOOLEAN, generations : SUBSET BOOLEAN,
                 current : SUBSET (Selectors \cup {Nil}),
                 binding : SUBSET (Bindings \cup {Nil, Torn})]
    /\ gens \in [Snapshots -> Presence]
    /\ diskGens \in [Snapshots -> SUBSET Presence]
    /\ pc \in [Procs -> PCs]
    /\ lock \in [Procs -> {"none", "SH", "EX"}]
    /\ target_binding \in [Procs -> Bindings \cup {Nil}]
    /\ root_descriptor \in [Procs -> BOOLEAN]
    /\ seen \in [Procs -> Snapshots \cup {Nil}]
    /\ next \in [Procs -> Snapshots \cup {Nil}]
    /\ draft \in [Procs -> BOOLEAN]
    /\ durability_confirmed \in [Procs -> BOOLEAN]
    /\ outcome \in [Procs -> Outcomes]
    /\ history \in Seq(Snapshots)
    /\ confirmed \in Nat
    /\ faults \in 0..MaxFaults /\ kills \in 0..MaxKills /\ losses \in 0..MaxLosses

-----------------------------------------------------------------------------
(* Durability.                                                             *)

(* What is in the root is durable: bound to one target, and selecting a    *)
(* whole generation no older than the newest one a client was told is      *)
(* durable (by a constructor, or by a "published" receipt).                *)
DurableWithinRoot ==
    /\ disk.generations = {TRUE}
    /\ \E b \in Bindings :
         /\ disk.binding = {b}
         /\ \A c \in disk.current :
              /\ c # Nil /\ c.ver >= confirmed
              /\ c.value \in Snapshots /\ c.value.target = b
              /\ diskGens[c.value] = {"sealed"}

(* Every state a power loss may leave holds the root and what is durable   *)
(* in it.                                                                  *)
ConfirmedSurvives == confirmed > 0 => disk.linked = {TRUE} /\ DurableWithinRoot

(* The root's own entry is all that can be lost of a store that            *)
(* initialize() created with its root: until a power loss takes it, what   *)
(* is in the root is as durable as it was reported, even when the steps    *)
(* that made it were those of several clients that died on the way.        *)
OnlyRootIsLost == losses = 0 /\ confirmed > 0 => DurableWithinRoot

(* Generations are durable before they are selected and are never removed: *)
(* in a store that was ever confirmed, every selection of the timeline can *)
(* still be read back, before and after a power loss.                      *)
SelectedRetained ==
    confirmed > 0 =>
      \A i \in 1..Len(history) :
        gens[history[i]] = "sealed" /\ diskGens[history[i]] = {"sealed"}

(* One store serves one target: whatever initialisations raced, crashed or *)
(* were resumed, the binding, every selection and every admitted handle    *)
(* agree on it.                                                            *)
OneTarget ==
    dir.binding # Nil =>
      /\ \A i \in 1..Len(history) : history[i].target = dir.binding
      /\ \A p \in Procs : root_descriptor[p] => target_binding[p] = dir.binding

(* Whatever steps the killed and failed calls left undone, a store that no *)
(* power loss touched is never stuck: bound, it reads; unbound, it selects *)
(* nothing or an empty generation that its constructor can finish.         *)
StoreOpens ==
    losses = 0 =>
      \/ dir.binding = Nil /\ dir.current = Nil
      \/ \E b \in Bindings :
           /\ Legible(dir, gens, b)
           /\ dir.binding = b \/ (dir.binding = Nil /\ dir.current.value = Empty(b))

(* DESIGN.md promises that "New generation bytes and directory metadata    *)
(* are synchronized before selector replacement is exposed": no power loss *)
(* leaves a selector without the directory it points into.                 *)
SelectorFindsGenerations ==
    \A c \in disk.current : c # Nil => disk.generations = {TRUE}

(* initialize() throws when the first selection cannot be confirmed, so    *)
(* that a binding is only ever written over a durable selection: no power  *)
(* loss leaves a binding without the generation it was written for.        *)
BindingFindsSelection ==
    \A b \in disk.binding : b # Nil => Nil \notin disk.current

-----------------------------------------------------------------------------
(* The abstract store.                                                     *)

Publishing == BeforeSelection \cup {"compare", "sync_root", "observe"}

ASSUME RequestAssumption ==
    Nil \notin [expected : Snapshots \cup {Nil}, result : Snapshots, at : Nat]

(* The publication a client has under way, and where it was selected.      *)
Request(p) ==
    IF pc[p] \in Publishing
    THEN [expected |-> seen[p], result |-> next[p],
          at |-> IF pc[p] \in {"sync_root", "observe"} THEN Len(history) ELSE 0]
    ELSE Nil

request == [p \in Procs |-> Request(p)]

Canonical == INSTANCE CanonicalStore WITH answer <- outcome

(* The store is a linearisable compare-and-publish register whose answers  *)
(* are true and whose confirmed selections outlive power losses.           *)
ImplementsCanonicalStore == Canonical!Spec

(* The name under which a generation is installed stays free from the      *)
(* check that finds it so to the rename: the only step of a call that      *)
(* could find its way barred never does.                                   *)
InstallsUnderFreeName ==
    \A p \in Procs : pc[p] \in {"write_generation", "seal_generation", "install"}
                     => gens[next[p]] = "absent"

-----------------------------------------------------------------------------
(* Progress. No system call of a store call waits, so a client that is in  *)
(* one goes on.                                                            *)

Scheduled == \A p \in Procs : WF_vars(Step(p))
LiveSpec  == Spec /\ Scheduled

(* The most steps a call may still take.                                   *)
Way == [idle |-> 0, open_validate |-> 1, read |-> 1,
        init_retain |-> 1, init_sync |-> 2, init_reread |-> 3,
        sync_binding |-> 4, select_binding |-> 5, seal_binding |-> 6, write_binding |-> 7,
        observe |-> 7, sync_root |-> 8, select |-> 9, seal_selector |-> 10,
        write_selector |-> 11, sync_generations |-> 12, install |-> 13,
        seal_generation |-> 14, write_generation |-> 15, ensure |-> 16, compare |-> 17,
        init_inspect |-> 17, init_layout |-> 18, init_lock |-> 19]

(* A call only goes forward: it repeats none of its steps, whatever it     *)
(* finds there, and no step of another client sets it back.                *)
CallsAdvance ==
    [][\A p \in Procs : pc[p] # "idle" =>
         /\ Way[pc'[p]] <= Way[pc[p]]
         /\ Step(p) => Way[pc'[p]] < Way[pc[p]]]_vars

(* Locks are never waited for: every call returns or throws, whatever the  *)
(* other clients do.                                                       *)
CallsReturn == \A p \in Procs : pc[p] # "idle" ~> pc[p] = "idle"

Persistent(p) == SF_vars(\E b \in Bindings : CreateRoot(p, b))
Alone(p)      == \A q \in Procs \ {p} : pc[q] = "idle"

(* An initialisation that was killed or failed anywhere, its own or one of *)
(* another client's, is completed by constructing again once the others    *)
(* are quiet: nothing that is left behind refuses its successor.           *)
RetriedConstructionSucceeds ==
    \A p \in Procs : Persistent(p) /\ <>[]Alone(p) => []<>root_descriptor[p]
=============================================================================
