----------------------- MODULE GenerationStoreInvariant -----------------------
(***************************************************************************)
(* The inductive invariant behind the safety properties of GenerationStore: *)
(* the lock keeps one client at a time between the inspection of the store *)
(* and the end of its call, so that what that client established about the *)
(* directory is still true when it acts on it.                             *)
(***************************************************************************)
EXTENDS GenerationStoreProperties

(* Every selection of the timeline is readable and outlives a power loss.  *)
Whole(s) == gens[s] = "sealed" /\ diskGens[s] = {"sealed"}
Intact   == \A i \in 1..Len(history) : Whole(history[i])

(* The root is on disk as it is seen, but for its own entry.               *)
RootIsSynced == /\ disk.generations = {dir.generations}
                /\ disk.current = {dir.current}
                /\ disk.binding = {dir.binding}

(* A store with a selection, not yet bound; a bound one.                   *)
Founded(b) == /\ dir.binding = Nil /\ dir.generations
              /\ history # <<>> /\ history[1].target = b /\ Intact
Alive      == /\ dir.binding \in Bindings /\ dir.generations
              /\ history # <<>> /\ Intact

-----------------------------------------------------------------------------

LockInv ==
    /\ \A p \in Procs : /\ pc[p] \in Exclusive => lock[p] = "EX"
                        /\ pc[p] \in Shared => lock[p] = "SH"
    /\ \A p, q \in Procs : p # q /\ lock[p] = "EX" => lock[q] = "none"

LinkInv == PreExisting => dir.linked /\ disk.linked = {TRUE}

(* The selector is the end of history; an older one, or none, is all that  *)
(* a power loss can bring back.                                            *)
HistoryInv ==
    /\ dir.current = Nil <=> history = <<>>
    /\ dir.current # Nil => /\ dir.current.ver = Len(history)
                            /\ dir.current.value = history[Len(history)]
    /\ \A c \in disk.current : c # Nil => /\ c.ver \in 1..Len(history)
                                          /\ c.value = history[c.ver]

(* Nothing is ever torn, and no entry is on disk that is not seen. A store *)
(* whose generations/ a power loss took is empty and stays so.             *)
LayoutInv ==
    /\ TRUE \in disk.generations => dir.generations
    /\ \A s \in Snapshots : "torn" \notin diskGens[s] /\ gens[s] # "torn"
    /\ Intact \/ \A s \in Snapshots : gens[s] = "absent" /\ diskGens[s] = {"absent"}

(* One target: of every selection, and of the binding over them.           *)
TargetInv ==
    /\ dir.binding # Torn
    /\ \A b \in disk.binding : b # Nil => b = dir.binding
    /\ \A i \in 1..Len(history) : history[i].target = history[1].target
    /\ dir.binding # Nil /\ history # <<>> => history[1].target = dir.binding

(* The root has not been lost: its own entry is durable, or no power loss  *)
(* has put it to the test.                                                 *)
RootKept == PreExisting \/ losses = 0

(* No power loss can take the root.                                        *)
DurableRoot == PreExisting \/ MaxLosses = 0

(* What a client was told is durable is, within the root.                  *)
DurableInv ==
    RootKept /\ confirmed > 0 =>
      /\ Alive
      /\ disk.generations = {TRUE} /\ disk.binding = {dir.binding}
      /\ confirmed <= Len(history)
      /\ \A c \in disk.current : c # Nil /\ c.ver >= confirmed

(* What a client has established where it stands.                          *)
ClientInv(p) ==
    LET b == target_binding[p] IN
    /\ pc[p] # "idle" => b \in Bindings
    /\ root_descriptor[p] => Alive /\ b = dir.binding
    /\ pc[p] \in BindingSteps \cup {"init_lock", "init_layout", "init_inspect",
                    "init_reread", "init_sync", "init_retain", "open_validate"}
         => ~root_descriptor[p]
    /\ pc[p] \in {"read", "compare", "observe"} => root_descriptor[p]
    /\ pc[p] \in Publishing => next[p] \in Snapshots /\ next[p].target = b
    /\ pc[p] = "init_inspect" => dir.generations
    /\ pc[p] \in BeforeSelection /\ ~root_descriptor[p]
         => Unfounded(dir) /\ dir.generations
    /\ pc[p] \in {"install", "select", "select_binding"} => draft[p]
    /\ pc[p] \in {"write_generation", "seal_generation", "install"}
         => gens[next[p]] = "absent"
    /\ pc[p] = "sync_generations" => gens[next[p]] = "sealed"
    /\ pc[p] \in {"write_selector", "seal_selector", "select"} => Whole(next[p])
    /\ pc[p] \in {"write_binding", "seal_binding", "select_binding"} => Founded(b)
    /\ pc[p] = "sync_root" /\ ~root_descriptor[p] => Founded(b)
    /\ pc[p] \in {"sync_binding", "init_reread", "init_sync", "init_retain"}
         => Alive /\ b = dir.binding
    /\ durability_confirmed[p] => pc[p] \in BindingSteps \cup {"init_reread", "init_sync",
                                               "init_retain", "observe"}
    /\ pc[p] = "init_retain" \/ (pc[p] = "observe" /\ durability_confirmed[p])
         => RootIsSynced

IInv == /\ TypeOK /\ LockInv /\ LinkInv /\ HistoryInv /\ LayoutInv /\ TargetInv
        /\ DurableInv /\ \A p \in Procs : ClientInv(p)
=============================================================================
