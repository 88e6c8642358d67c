------------------------- MODULE GenerationStoreProofs -------------------------
(***************************************************************************)
(* Proofs about GenerationStore, for every set of clients, targets and     *)
(* contents and every bound on failures: the inductive invariant, and the  *)
(* safety properties that follow from it.                                  *)
(***************************************************************************)
EXTENDS GenerationStoreInvariant, SequenceTheorems, TLAPS

(* A step of client p leaves the other clients' variables alone, and the   *)
(* power on.                                                               *)
OthersKeep(p) ==
    /\ losses' = losses
    /\ \A q \in Procs \ {p} :
         /\ pc'[q] = pc[q] /\ lock'[q] = lock[q]
         /\ target_binding'[q] = target_binding[q]
         /\ root_descriptor'[q] = root_descriptor[q] /\ next'[q] = next[q]
         /\ draft'[q] = draft[q] /\ durability_confirmed'[q] = durability_confirmed[q]

(* A live store stays live, and bound to its target.                       *)
AliveKept == Alive => Alive' /\ dir'.binding = dir.binding

-----------------------------------------------------------------------------
(* The initial state.                                                      *)

LEMMA InitInv == Init => IInv
<1> SUFFICES ASSUME Init PROVE IInv
  OBVIOUS
<1>1. /\ dir = [linked |-> PreExisting, generations |-> FALSE, current |-> Nil, binding |-> Nil]
      /\ disk = [linked |-> {PreExisting}, generations |-> {FALSE}, current |-> {Nil},
                 binding |-> {Nil}]
  BY DEF Init, NoRoot, Only
<1>2. TypeOK
  <2>1. /\ dir \in [linked : BOOLEAN, generations : BOOLEAN,
                    current : Selectors \cup {Nil}, binding : Bindings \cup {Nil, Torn}]
        /\ disk \in [linked : SUBSET BOOLEAN, generations : SUBSET BOOLEAN,
                     current : SUBSET (Selectors \cup {Nil}),
                     binding : SUBSET (Bindings \cup {Nil, Torn})]
    BY <1>1, RootAssumption
  <2>2. gens \in [Snapshots -> Presence] /\ diskGens \in [Snapshots -> SUBSET Presence]
    BY DEF Init, NoGens, Presence
  <2>3. history \in Seq(Snapshots) /\ confirmed \in Nat
    BY DEF Init
  <2> QED
    BY <2>1, <2>2, <2>3, BoundAssumption DEF Init, TypeOK, PCs, Outcomes
<1>3. LockInv
  BY DEF Init, LockInv, Exclusive, Shared, BeforeSelection, BindingSteps
<1>4. LinkInv /\ HistoryInv /\ LayoutInv /\ TargetInv /\ DurableInv
  <2>1. history = <<>> /\ confirmed = 0
    BY DEF Init
  <2>2. LinkInv
    BY <1>1 DEF LinkInv
  <2>3. HistoryInv
    BY <1>1, <2>1 DEF HistoryInv
  <2>4. LayoutInv
    <3>1. TRUE \notin disk.generations
      BY <1>1
    <3>2. Intact
      BY <2>1 DEF Intact
    <3> QED
      BY <3>1, <3>2 DEF Init, LayoutInv, NoGens
  <2>5. TargetInv
    BY <1>1, <2>1, NilAssumption DEF TargetInv
  <2> QED
    BY <2>1, <2>2, <2>3, <2>4, <2>5 DEF DurableInv, RootKept
<1>5. ASSUME NEW p \in Procs PROVE ClientInv(p)
  BY DEF Init, ClientInv, BindingSteps, BeforeSelection, Publishing
<1> QED
  BY <1>2, <1>3, <1>4, <1>5 DEF IInv

-----------------------------------------------------------------------------
(* How a step of one client is shown to keep the invariant.                *)

LEMMA CountersBounded ==
  ASSUME TypeOK
  PROVE  /\ Fault => faults' \in 0..MaxFaults /\ kills' = kills /\ losses' = losses
         /\ kills < MaxKills => kills + 1 \in 0..MaxKills
         /\ losses < MaxLosses => losses + 1 \in 0..MaxLosses
  BY BoundAssumption DEF TypeOK, Fault

(* A step that touches neither the directory nor the history.              *)
LEMMA SilentStep ==
  ASSUME IInv, NEW p \in Procs, UNCHANGED <<fsvars, ghosts>>, OthersKeep(p),
         TypeOK', LockInv', ClientInv(p)'
  PROVE  IInv'
<1> USE DEF fsvars, ghosts
<1>1. LinkInv' /\ HistoryInv' /\ LayoutInv' /\ TargetInv' /\ DurableInv'
  BY DEF IInv, LinkInv, HistoryInv, LayoutInv, TargetInv, DurableInv, RootKept, Intact, Whole,
         Alive, OthersKeep
<1>2. ASSUME NEW q \in Procs, q # p PROVE ClientInv(q)'
  <2>1. /\ Alive' = Alive /\ RootIsSynced' = RootIsSynced /\ Unfounded(dir') = Unfounded(dir)
        /\ \A s : Whole(s)' = Whole(s)
        /\ \A b : Founded(b)' = Founded(b)
    BY DEF Alive, Founded, Unfounded, Intact, Whole, RootIsSynced
  <2>2. ClientInv(q)
    BY DEF IInv
  <2> QED
    BY <1>2, <2>1, <2>2 DEF OthersKeep, ClientInv
<1> QED
  BY <1>1, <1>2 DEF IInv

(* While one client holds the exclusive lock the others hold none.         *)
LEMMA OthersOutside ==
  ASSUME IInv, NEW p \in Procs, lock[p] = "EX", NEW q \in Procs \ {p}
  PROVE  pc[q] \in {"idle", "init_lock"} /\ lock[q] = "none"
  BY DEF IInv, LockInv, TypeOK, PCs

(* A step under the exclusive lock.                                        *)
LEMMA ExclusiveStep ==
  ASSUME IInv, NEW p \in Procs, lock[p] = "EX", OthersKeep(p), AliveKept,
         TypeOK', LockInv', LinkInv', HistoryInv', LayoutInv', TargetInv', DurableInv',
         ClientInv(p)'
  PROVE  IInv'
<1>1. ASSUME NEW q \in Procs, q # p PROVE ClientInv(q)'
  <2>1. pc'[q] \in {"idle", "init_lock"}
    BY <1>1, OthersOutside DEF OthersKeep
  <2>2. ClientInv(q)
    BY DEF IInv
  <2> QED
    BY <1>1, <2>1, <2>2 DEF OthersKeep, AliveKept, ClientInv, BindingSteps, BeforeSelection,
                            Publishing
<1> QED
  BY <1>1 DEF IInv

(* The lock: a client that keeps it, drops it, or takes it.                *)
LEMMA LockKept ==
  ASSUME IInv, NEW p \in Procs, OthersKeep(p), lock'[p] = lock[p],
         pc'[p] \in Exclusive => pc[p] \in Exclusive, pc'[p] \notin Shared
  PROVE  LockInv'
  BY DEF IInv, LockInv, OthersKeep

LEMMA LockDropped ==
  ASSUME IInv, NEW p \in Procs, OthersKeep(p), lock'[p] = "none", pc'[p] = "idle"
  PROVE  LockInv'
  BY DEF IInv, LockInv, OthersKeep, Exclusive, Shared, BeforeSelection, BindingSteps

LEMMA LockTaken ==
  ASSUME IInv, NEW p \in Procs, OthersKeep(p),
         NEW mode \in {"SH", "EX"}, MayLock(p, mode), lock'[p] = mode,
         pc'[p] \in IF mode = "EX" THEN Exclusive ELSE Shared
  PROVE  LockInv'
<1>1. Exclusive \cap Shared = {}
  BY DEF Exclusive, Shared, BeforeSelection, BindingSteps
<1> QED
  BY <1>1 DEF IInv, LockInv, OthersKeep, MayLock

(* A call that ends without touching the directory.                        *)
LEMMA ReturnStep ==
  ASSUME IInv, NEW p \in Procs, UNCHANGED <<fsvars, ghosts>>, OthersKeep(p), TypeOK',
         pc'[p] = "idle", lock'[p] = "none", ~durability_confirmed'[p],
         root_descriptor'[p] => Alive /\ target_binding'[p] = dir.binding
  PROVE  IInv'
<1>1. LockInv'
  BY LockDropped
<1>2. Alive' = Alive
  BY DEF fsvars, ghosts, Alive, Intact, Whole
<1>3. ClientInv(p)'
  BY <1>2 DEF fsvars, ClientInv, BindingSteps, BeforeSelection, Publishing
<1> QED
  BY <1>1, <1>3, SilentStep

-----------------------------------------------------------------------------
(* Calls that end without touching the directory.                          *)

(* What ends a call: Return and Throw.                                     *)
LEMMA ReturnFrame ==
  ASSUME TypeOK, NEW p \in Procs, NEW answer \in Outcomes, Return(p, answer)
  PROVE  /\ pc' \in [Procs -> PCs] /\ lock' \in [Procs -> {"none", "SH", "EX"}]
         /\ next' \in [Procs -> Snapshots \cup {Nil}] /\ draft' \in [Procs -> BOOLEAN]
         /\ durability_confirmed' \in [Procs -> BOOLEAN] /\ outcome' \in [Procs -> Outcomes]
         /\ pc'[p] = "idle" /\ lock'[p] = "none" /\ ~durability_confirmed'[p]
         /\ \A q \in Procs \ {p} :
              /\ pc'[q] = pc[q] /\ lock'[q] = lock[q] /\ next'[q] = next[q]
              /\ draft'[q] = draft[q] /\ durability_confirmed'[q] = durability_confirmed[q]
  BY DEF TypeOK, Return, PCs

LEMMA ValidateExistingStep ==
  ASSUME IInv, NEW p \in Procs, ValidateExisting(p) PROVE IInv'
<1> USE DEF ValidateExisting
<1>1. Return(p, "opened") /\ "opened" \in Outcomes /\ TypeOK
  BY DEF IInv, Outcomes
<1>2. UNCHANGED <<fsvars, ghosts>> /\ TypeOK' /\ OthersKeep(p)
  BY <1>1, ReturnFrame DEF TypeOK, OthersKeep, fsvars, ghosts, counters
<1>3. Alive /\ target_binding'[p] = dir.binding
  <2>1. ClientInv(p) /\ HistoryInv /\ LayoutInv
    BY DEF IInv
  <2> QED
    BY <2>1, NilAssumption DEF ClientInv, HistoryInv, LayoutInv, Alive, Admitted, Legible
<1> QED
  BY <1>1, <1>2, <1>3, ReturnFrame, ReturnStep

LEMMA ReadSnapshotStep ==
  ASSUME IInv, NEW p \in Procs, ReadSnapshot(p) PROVE IInv'
<1> USE DEF ReadSnapshot
<1>1. Return(p, "read") /\ "read" \in Outcomes /\ TypeOK
  BY DEF IInv, Outcomes
<1>2. UNCHANGED <<fsvars, ghosts>> /\ TypeOK' /\ OthersKeep(p)
  BY <1>1, ReturnFrame DEF TypeOK, OthersKeep, fsvars, ghosts, counters, Admitted, Legible
<1>3. root_descriptor'[p] => Alive /\ target_binding'[p] = dir.binding
  BY DEF IInv, ClientInv
<1> QED
  BY <1>1, <1>2, <1>3, ReturnFrame, ReturnStep

(* Throwing keeps an admitted handle and drops one that never was.         *)
LEMMA ThrowStep ==
  ASSUME IInv, NEW p \in Procs, NEW answer \in Outcomes, Throw(p, answer),
         UNCHANGED <<fsvars, root_descriptor, seen, ghosts>>,
         faults' \in 0..MaxFaults, kills' \in 0..MaxKills, losses' = losses
  PROVE  IInv'
<1> USE DEF Throw
<1>1. Return(p, answer) /\ TypeOK
  BY DEF IInv
<1>2. TypeOK' /\ OthersKeep(p)
  BY <1>1, ReturnFrame DEF TypeOK, OthersKeep, fsvars, ghosts
<1>3. root_descriptor'[p] => Alive /\ target_binding'[p] = dir.binding
  BY <1>1 DEF IInv, ClientInv, TypeOK
<1> QED
  BY <1>1, <1>2, <1>3, ReturnFrame, ReturnStep

LEMMA RefusalSteps ==
  ASSUME IInv, NEW p \in Procs,
         \/ RefuseLock(p) \/ RefuseStore(p) \/ FailBeforeSelection(p) \/ FailStore(p)
  PROVE  IInv'
<1>1. TypeOK
  BY DEF IInv
<1>2. CASE RefuseLock(p) \/ RefuseStore(p)
  BY <1>1, <1>2, ThrowStep DEF RefuseLock, RefuseStore, TypeOK, counters, Outcomes, fsvars
<1>3. CASE FailBeforeSelection(p)
  BY <1>1, <1>3, ThrowStep, CountersBounded DEF FailBeforeSelection, TypeOK, Outcomes, fsvars
<1>4. CASE FailStore(p)
  BY <1>1, <1>4, ThrowStep, CountersBounded DEF FailStore, TypeOK, Outcomes, fsvars
<1> QED
  BY <1>2, <1>3, <1>4

LEMMA FailObserveStep ==
  ASSUME IInv, NEW p \in Procs, FailObserve(p) PROVE IInv'
<1> USE DEF FailObserve
<1>1. Return(p, "indeterminate") /\ "indeterminate" \in Outcomes /\ TypeOK
  BY DEF IInv, Outcomes
<1>2. UNCHANGED <<fsvars, ghosts>> /\ TypeOK' /\ OthersKeep(p)
  BY <1>1, ReturnFrame, CountersBounded DEF TypeOK, OthersKeep, fsvars, ghosts, handle
<1>3. root_descriptor'[p] => Alive /\ target_binding'[p] = dir.binding
  BY DEF IInv, ClientInv, handle
<1> QED
  BY <1>1, <1>2, <1>3, ReturnFrame, ReturnStep

LEMMA KillStep ==
  ASSUME IInv, NEW p \in Procs, Kill(p) PROVE IInv'
<1> USE DEF Kill
<1>1. Return(p, "none") /\ "none" \in Outcomes /\ TypeOK
  BY DEF IInv, Outcomes
<1>2. UNCHANGED <<fsvars, ghosts>> /\ TypeOK' /\ OthersKeep(p)
  BY <1>1, ReturnFrame, CountersBounded DEF TypeOK, OthersKeep, fsvars, ghosts
<1>3. ~root_descriptor'[p]
  BY <1>1 DEF TypeOK
<1> QED
  BY <1>1, <1>2, <1>3, ReturnFrame, ReturnStep

LEMMA CloseStep ==
  ASSUME IInv, NEW p \in Procs, Close(p) PROVE IInv'
<1> USE DEF Close
<1>1. TypeOK /\ ClientInv(p)
  BY DEF IInv
<1>2. UNCHANGED <<fsvars, ghosts>> /\ TypeOK' /\ OthersKeep(p)
  BY <1>1 DEF TypeOK, OthersKeep, fsvars, ghosts, locals, counters, Outcomes
<1>3. ~root_descriptor'[p] /\ pc'[p] = "idle"
  BY <1>1 DEF TypeOK
<1>4. ClientInv(p)' /\ LockInv'
  BY <1>1, <1>2, <1>3, LockKept
     DEF ClientInv, BindingSteps, BeforeSelection, Publishing, Exclusive, Shared, locals
<1> QED
  BY <1>2, <1>4, SilentStep

-----------------------------------------------------------------------------
(* Steps that move a call on without touching the directory.               *)

(* The next program point of a client that keeps its lock.                 *)
LEMMA AdvanceStep ==
  ASSUME IInv, NEW p \in Procs, UNCHANGED <<fsvars, lock, ghosts>>, OthersKeep(p), TypeOK',
         pc[p] \in Exclusive, pc'[p] \in Exclusive, ClientInv(p)'
  PROVE  IInv'
<1>1. LockInv'
  BY LockKept DEF Exclusive, Shared, BeforeSelection, BindingSteps
<1> QED
  BY <1>1, SilentStep

(* Nothing a client knows of the directory changes when only its own       *)
(* variables do.                                                           *)
LEMMA SameStore ==
  ASSUME UNCHANGED <<fsvars, ghosts>>
  PROVE  /\ Alive' = Alive /\ RootIsSynced' = RootIsSynced /\ Intact' = Intact
         /\ \A s : Whole(s)' = Whole(s)
         /\ \A b : Founded(b)' = Founded(b)
  BY DEF fsvars, ghosts, Alive, RootIsSynced, Intact, Whole, Founded

LEMMA TemporarySteps ==
  ASSUME IInv, NEW p \in Procs,
         \/ WriteBinding(p) \/ SealBinding(p) \/ WriteGeneration(p) \/ SealGeneration(p)
         \/ WriteSelector(p) \/ SealSelector(p)
  PROVE  IInv'
<1> USE DEF WriteBinding, SealBinding, WriteGeneration, SealGeneration, WriteSelector,
            SealSelector, WriteTemporary, SealTemporary, Goto
<1>1. TypeOK /\ ClientInv(p)
  BY DEF IInv
<1>2. UNCHANGED <<fsvars, lock, handle, next, durability_confirmed, ghosts>>
  BY DEF ghosts
<1>3. PICK to \in Exclusive : pc' = [pc EXCEPT ![p] = to]
  BY DEF Exclusive, BeforeSelection, BindingSteps
<1>4. draft' \in [Procs -> BOOLEAN] /\ \A q \in Procs \ {p} : draft'[q] = draft[q]
  BY <1>1 DEF TypeOK
<1>5. UNCHANGED <<counters, outcome>>
  OBVIOUS
<1>6. TypeOK' /\ OthersKeep(p)
  BY <1>1, <1>2, <1>3, <1>4, <1>5
     DEF TypeOK, OthersKeep, fsvars, handle, ghosts, counters, PCs
<1>7. pc[p] \in Exclusive /\ pc'[p] \in Exclusive
  BY <1>1 DEF TypeOK, Exclusive, BeforeSelection, BindingSteps
<1>8. ClientInv(p)'
  BY <1>1, <1>2, SameStore
     DEF TypeOK, ClientInv, handle, fsvars, BindingSteps, BeforeSelection, Publishing
<1> QED
  BY <1>2, <1>6, <1>7, <1>8, AdvanceStep

LEMMA InspectLayoutStep ==
  ASSUME IInv, NEW p \in Procs, InspectLayout(p) PROVE IInv'
<1> USE DEF InspectLayout
<1>1. TypeOK /\ ClientInv(p) /\ HistoryInv /\ LayoutInv /\ TargetInv
  BY DEF IInv
<1>2. UNCHANGED <<fsvars, lock, handle, draft, durability_confirmed, outcome, ghosts, counters>>
  OBVIOUS
<1>3. pc[p] = "init_inspect" /\ target_binding[p] \in Bindings /\ ~root_descriptor[p]
  BY <1>1 DEF ClientInv
<1>4. Empty(target_binding[p]) \in Snapshots
  BY <1>3, EmptyAssumption DEF Empty, Snapshots
<1>5. pc' = [pc EXCEPT ![p] = pc'[p]] /\ pc'[p] \in {"init_sync", "ensure", "write_binding"}
  BY <1>1 DEF TypeOK
<1>6. next' \in [Procs -> Snapshots \cup {Nil}] /\ \A q \in Procs \ {p} : next'[q] = next[q]
  BY <1>1, <1>4 DEF TypeOK
<1>7. TypeOK' /\ OthersKeep(p)
  <2>1. pc'[p] \in PCs
    BY <1>5 DEF PCs, Exclusive, BeforeSelection, BindingSteps
  <2>2. pc' \in [Procs -> PCs] /\ \A q \in Procs \ {p} : pc'[q] = pc[q]
    BY <1>1, <1>5, <2>1 DEF TypeOK
  <2> HIDE DEF InspectLayout
  <2> QED
    BY <1>1, <1>2, <1>6, <2>2 DEF TypeOK, OthersKeep, fsvars, handle, ghosts, counters
<1>8. ClientInv(p)'
  <2>1. CASE Admitted(dir, gens, target_binding[p]) /\ pc'[p] = "init_sync"
    <3>1. Alive /\ dir.binding = target_binding[p]
      BY <1>1, <1>3, <2>1, NilAssumption
         DEF HistoryInv, LayoutInv, Alive, Admitted, Legible
    <3> QED
      BY <1>2, <1>3, <2>1, <3>1, SameStore
         DEF ClientInv, handle, fsvars, BindingSteps, BeforeSelection, Publishing
  <2>2. CASE Unfounded(dir) /\ pc'[p] = "ensure" /\ next'[p] = Empty(target_binding[p])
    BY <1>1, <1>2, <1>3, <1>4, <2>2, SameStore
       DEF ClientInv, handle, fsvars, BindingSteps, BeforeSelection, Publishing, Empty,
           Unfounded
  <2>3. CASE Resumable(dir, gens, target_binding[p]) /\ pc'[p] = "write_binding"
    <3>1. Founded(target_binding[p])
      <4>1. history # <<>> /\ Intact /\ dir.generations /\ dir.binding = Nil
        BY <1>1, <2>3 DEF HistoryInv, LayoutInv, Resumable, Legible
      <4>2. Len(history) \in Nat /\ Len(history) # 0
        BY <1>1, <4>1, EmptySeq, LenProperties DEF TypeOK
      <4>3. history[Len(history)].target = target_binding[p]
        BY <1>1, <2>3 DEF HistoryInv, Resumable, Legible
      <4>4. history[1].target = target_binding[p]
        BY <1>1, <4>2, <4>3 DEF TargetInv
      <4> QED
        BY <4>1, <4>4 DEF Founded
    <3> QED
      BY <1>2, <1>3, <2>3, <3>1, SameStore
         DEF ClientInv, handle, fsvars, BindingSteps, BeforeSelection, Publishing
  <2> QED
    BY <1>1, <2>1, <2>2, <2>3 DEF TypeOK
<1>9. pc[p] \in Exclusive /\ pc'[p] \in Exclusive
  BY <1>3, <1>5 DEF Exclusive, BeforeSelection, BindingSteps
<1> QED
  BY <1>2, <1>7, <1>8, <1>9, AdvanceStep

LEMMA RereadAdmittedStep ==
  ASSUME IInv, NEW p \in Procs, RereadAdmitted(p) PROVE IInv'
<1> USE DEF RereadAdmitted, Goto
<1>1. TypeOK /\ ClientInv(p)
  BY DEF IInv
<1>2. TypeOK' /\ OthersKeep(p)
  BY <1>1 DEF TypeOK, OthersKeep, fsvars, handle, locals, ghosts, counters, PCs, Exclusive
<1>3. ClientInv(p)'
  BY <1>1, SameStore
     DEF TypeOK, ClientInv, handle, locals, fsvars, BindingSteps, BeforeSelection, Publishing
<1> QED
  BY <1>1, <1>2, <1>3, AdvanceStep DEF TypeOK, Exclusive

LEMMA EnsureGenerationStep ==
  ASSUME IInv, NEW p \in Procs, EnsureGeneration(p) PROVE IInv'
<1> USE DEF EnsureGeneration
<1>1. TypeOK /\ ClientInv(p)
  BY DEF IInv
<1>2. TypeOK' /\ OthersKeep(p)
  BY <1>1 DEF TypeOK, OthersKeep, fsvars, handle, locals, ghosts, counters, PCs, Exclusive,
              BeforeSelection
<1>3. /\ pc[p] = "ensure" /\ pc'[p] \in {"sync_generations", "write_generation"}
      /\ pc'[p] = "sync_generations" => gens[next[p]] = "sealed"
      /\ pc'[p] = "write_generation" => gens[next[p]] = "absent"
  <2>1. gens[next[p]] \in {"absent", "sealed", "torn"}
    <3>1. next[p] \in Snapshots
      BY <1>1 DEF ClientInv, Publishing, BeforeSelection
    <3> QED
      BY <1>1, <3>1 DEF TypeOK, Presence
  <2>2. pc[p] = "ensure" /\ pc'[p] = IF gens[next[p]] = "sealed"
                                    THEN "sync_generations" ELSE "write_generation"
    BY <1>1 DEF TypeOK
  <2> QED
    BY <2>1, <2>2
<1>4. UNCHANGED <<fsvars, target_binding, root_descriptor, next, draft, durability_confirmed>>
  BY DEF handle, locals
<1>5. ClientInv(p)'
  BY <1>1, <1>3, <1>4, SameStore
     DEF ClientInv, fsvars, BindingSteps, BeforeSelection, Publishing
<1> QED
  BY <1>1, <1>2, <1>3, <1>5, AdvanceStep DEF Exclusive, BeforeSelection

LEMMA CompareExpectedStep ==
  ASSUME IInv, NEW p \in Procs, CompareExpected(p) PROVE IInv'
<1>1. TypeOK /\ ClientInv(p)
  BY DEF IInv
<1>2. CASE dir.current.value = seen[p]
  <2>1. /\ pc[p] = "compare" /\ pc' = [pc EXCEPT ![p] = "ensure"]
        /\ UNCHANGED <<fsvars, lock, handle, locals, outcome, ghosts, counters>>
    BY <1>2 DEF CompareExpected
  <2>2. TypeOK' /\ OthersKeep(p)
    BY <1>1, <2>1 DEF TypeOK, OthersKeep, fsvars, handle, locals, ghosts, counters, PCs,
                      Exclusive, BeforeSelection
  <2>3. ClientInv(p)'
    BY <1>1, <2>1, SameStore
       DEF TypeOK, ClientInv, handle, locals, fsvars, BindingSteps, BeforeSelection,
           Publishing
  <2> QED
    BY <1>1, <2>1, <2>2, <2>3, AdvanceStep DEF TypeOK, Exclusive, BeforeSelection
<1>3. CASE dir.current.value # seen[p]
  <2>1. /\ Return(p, "stale") /\ "stale" \in Outcomes
        /\ UNCHANGED <<fsvars, handle, ghosts, counters>>
    BY <1>3 DEF CompareExpected, Outcomes
  <2>2. TypeOK' /\ OthersKeep(p)
    BY <1>1, <2>1, ReturnFrame DEF TypeOK, OthersKeep, fsvars, handle, ghosts, counters
  <2>3. root_descriptor'[p] => Alive /\ target_binding'[p] = dir.binding
    BY <1>1, <2>1 DEF ClientInv, handle
  <2> QED
    BY <1>1, <2>1, <2>2, <2>3, ReturnFrame, ReturnStep
<1> QED
  BY <1>2, <1>3

(* publish() goes on after a root that could not be synchronised.          *)
LEMMA FailSyncRootStep ==
  ASSUME IInv, NEW p \in Procs, FailSyncRoot(p) PROVE IInv'
<1> USE DEF FailSyncRoot, Goto
<1>1. TypeOK /\ ClientInv(p)
  BY DEF IInv
<1>2. TypeOK' /\ OthersKeep(p)
  BY <1>1, CountersBounded
     DEF TypeOK, OthersKeep, fsvars, handle, locals, ghosts, PCs, Exclusive
<1>3. ClientInv(p)'
  BY <1>1, SameStore
     DEF TypeOK, ClientInv, handle, locals, fsvars, BindingSteps, BeforeSelection, Publishing
<1> QED
  BY <1>1, <1>2, <1>3, AdvanceStep DEF TypeOK, Exclusive

-----------------------------------------------------------------------------
(* Steps that take the lock.                                               *)

LEMMA LockInitializationStep ==
  ASSUME IInv, NEW p \in Procs, LockInitialization(p) PROVE IInv'
<1> USE DEF LockInitialization, Goto
<1>1. TypeOK /\ ClientInv(p)
  BY DEF IInv
<1>2. TypeOK' /\ OthersKeep(p)
  BY <1>1 DEF TypeOK, OthersKeep, fsvars, handle, locals, ghosts, counters, PCs, Exclusive
<1>3. ClientInv(p)'
  BY <1>1, SameStore
     DEF TypeOK, ClientInv, handle, locals, fsvars, BindingSteps, BeforeSelection, Publishing
<1>4. LockInv'
  BY <1>1, <1>2, LockTaken DEF TypeOK, Exclusive
<1> QED
  BY <1>2, <1>3, <1>4, SilentStep

LEMMA OpenExistingStep ==
  ASSUME IInv, NEW p \in Procs, NEW b \in Bindings, OpenExisting(p, b) PROVE IInv'
<1> USE DEF OpenExisting, Goto
<1>1. TypeOK /\ ClientInv(p)
  BY DEF IInv
<1>2. TypeOK' /\ OthersKeep(p)
  BY <1>1 DEF TypeOK, OthersKeep, fsvars, handle, locals, ghosts, counters, PCs, Shared,
              Outcomes
<1>3. ClientInv(p)'
  BY <1>1, SameStore
     DEF TypeOK, ClientInv, handle, locals, fsvars, BindingSteps, BeforeSelection, Publishing
<1>4. LockInv'
  BY <1>1, <1>2, LockTaken DEF TypeOK, Shared
<1> QED
  BY <1>2, <1>3, <1>4, SilentStep

LEMMA LockReadStep ==
  ASSUME IInv, NEW p \in Procs, LockRead(p) PROVE IInv'
<1> USE DEF LockRead, Goto
<1>1. TypeOK /\ ClientInv(p)
  BY DEF IInv
<1>2. TypeOK' /\ OthersKeep(p)
  BY <1>1 DEF TypeOK, OthersKeep, fsvars, handle, locals, ghosts, counters, PCs, Shared,
              Outcomes
<1>3. dir.binding = target_binding[p] /\ target_binding[p] \in Bindings
  BY <1>1 DEF ClientInv, Alive
<1>4. ClientInv(p)'
  BY <1>1, <1>3, SameStore
     DEF TypeOK, ClientInv, handle, locals, fsvars, BindingSteps, BeforeSelection, Publishing
<1>5. LockInv'
  BY <1>1, <1>2, LockTaken DEF TypeOK, Shared
<1> QED
  BY <1>2, <1>4, <1>5, SilentStep

LEMMA BeginPublicationStep ==
  ASSUME IInv, NEW p \in Procs, NEW c \in Contents, BeginPublication(p, c) PROVE IInv'
<1> USE DEF BeginPublication, Goto
<1>1. TypeOK /\ ClientInv(p)
  BY DEF IInv
<1>2. dir.binding = target_binding[p] /\ target_binding[p] \in Bindings
  BY <1>1 DEF ClientInv, Alive
<1>3. [target |-> target_binding[p], content |-> c] \in Snapshots
  BY <1>2 DEF Snapshots
<1>4. TypeOK' /\ OthersKeep(p)
  BY <1>1, <1>3 DEF TypeOK, OthersKeep, fsvars, handle, ghosts, counters, PCs, Exclusive,
                    Outcomes
<1>5. ClientInv(p)'
  BY <1>1, <1>2, <1>3, SameStore
     DEF TypeOK, ClientInv, handle, fsvars, BindingSteps, BeforeSelection, Publishing
<1>6. LockInv'
  BY <1>1, <1>4, LockTaken DEF TypeOK, Exclusive
<1> QED
  BY <1>4, <1>5, <1>6, SilentStep

-----------------------------------------------------------------------------
(* Steps under the exclusive lock that change the directory.               *)

LEMMA HistoryFacts ==
  ASSUME IInv
  PROVE  /\ Len(history) \in Nat /\ DOMAIN history = 1..Len(history)
         /\ history # <<>> <=> Len(history) > 0
         /\ \A i \in 1..Len(history) : history[i] \in Snapshots
         /\ history # <<>> => /\ dir.current \in Selectors /\ dir.current # Nil
                              /\ dir.current.ver = Len(history)
                              /\ dir.current.value = history[Len(history)]
  BY LenProperties, ElementOfSeq, EmptySeq, NilAssumption DEF IInv, TypeOK, HistoryInv

LEMMA EnsureLayoutStep ==
  ASSUME IInv, NEW p \in Procs, EnsureLayout(p) PROVE IInv'
<1> USE DEF EnsureLayout, Goto
<1>1. TypeOK /\ ClientInv(p) /\ LinkInv /\ HistoryInv /\ LayoutInv /\ TargetInv /\ DurableInv
  BY DEF IInv
<1>2. lock[p] = "EX"
  BY DEF IInv, LockInv, Exclusive
<1>3. TypeOK' /\ OthersKeep(p)
  BY <1>1 DEF TypeOK, OthersKeep, handle, locals, ghosts, counters, PCs, Exclusive
<1>4. LockInv'
  BY <1>1, <1>3, LockKept DEF TypeOK, Exclusive, Shared
<1>5. /\ dir'.generations /\ dir'.linked = dir.linked /\ dir'.current = dir.current
      /\ dir'.binding = dir.binding
      /\ disk'.generations = disk.generations \cup {TRUE} /\ disk'.linked = disk.linked
      /\ disk'.current = disk.current /\ disk'.binding = disk.binding
  BY <1>1 DEF TypeOK
<1>6. (\A s : Whole(s)' = Whole(s)) /\ Intact' = Intact
  BY DEF Whole, Intact, ghosts
<1>7. LinkInv' /\ HistoryInv' /\ LayoutInv' /\ TargetInv' /\ DurableInv' /\ AliveKept
  BY <1>1, <1>5, <1>6
     DEF LinkInv, HistoryInv, LayoutInv, TargetInv, DurableInv, RootKept, AliveKept, Alive,
         ghosts, counters
<1>8. ClientInv(p)'
  BY <1>1, <1>5
     DEF TypeOK, ClientInv, handle, locals, BindingSteps, BeforeSelection, Publishing
<1> QED
  BY <1>2, <1>3, <1>4, <1>7, <1>8, ExclusiveStep

(* fsync of the root.                                                      *)
LEMMA RootSyncedInv ==
  ASSUME IInv, disk' = RootSynced, UNCHANGED <<dir, gens, diskGens, ghosts, losses>>
  PROVE  /\ LinkInv' /\ HistoryInv' /\ LayoutInv' /\ TargetInv' /\ DurableInv' /\ AliveKept
         /\ RootIsSynced' /\ Alive' = Alive /\ Intact' = Intact
         /\ \A s : Whole(s)' = Whole(s)
         /\ \A b : Founded(b)' = Founded(b)
         /\ disk' \in [linked : SUBSET BOOLEAN, generations : SUBSET BOOLEAN,
                       current : SUBSET (Selectors \cup {Nil}),
                       binding : SUBSET (Bindings \cup {Nil, Torn})]
<1>1. TypeOK /\ LinkInv /\ HistoryInv /\ LayoutInv /\ TargetInv /\ DurableInv
  BY DEF IInv
<1>2. /\ disk'.linked = disk.linked /\ disk'.generations = {dir.generations}
      /\ disk'.current = {dir.current} /\ disk'.binding = {dir.binding}
  BY DEF RootSynced
<1>3. /\ Alive' = Alive /\ Intact' = Intact /\ (\A s : Whole(s)' = Whole(s))
      /\ (\A b : Founded(b)' = Founded(b))
  BY DEF ghosts, Alive, Intact, Whole, Founded
<1>4. LinkInv' /\ RootIsSynced' /\ AliveKept
  BY <1>1, <1>2, <1>3 DEF LinkInv, RootIsSynced, AliveKept
<1>5. HistoryInv'
  BY <1>1, <1>2, HistoryFacts DEF HistoryInv, ghosts
<1>6. LayoutInv' /\ TargetInv'
  BY <1>1, <1>2, <1>3 DEF LayoutInv, TargetInv, ghosts, TypeOK
<1>7. DurableInv'
  BY <1>1, <1>2, <1>3, HistoryFacts DEF DurableInv, RootKept, Alive, ghosts, TypeOK
<1>8. disk' \in [linked : SUBSET BOOLEAN, generations : SUBSET BOOLEAN,
                current : SUBSET (Selectors \cup {Nil}),
                binding : SUBSET (Bindings \cup {Nil, Torn})]
  BY <1>1 DEF TypeOK, RootSynced
<1> QED
  BY <1>2, <1>3, <1>4, <1>5, <1>6, <1>7, <1>8

LEMMA SyncBindingStep ==
  ASSUME IInv, NEW p \in Procs, SyncBinding(p) \/ SyncLayout(p) PROVE IInv'
<1> USE DEF SyncBinding, SyncLayout, Goto
<1>1. TypeOK /\ ClientInv(p)
  BY DEF IInv
<1>2. lock[p] = "EX"
  BY DEF IInv, LockInv, Exclusive, BindingSteps
<1>3. disk' = RootSynced /\ UNCHANGED <<dir, gens, diskGens, ghosts, losses>>
  BY DEF counters
<1>4. TypeOK' /\ OthersKeep(p)
  BY <1>1, <1>3, RootSyncedInv
     DEF TypeOK, OthersKeep, handle, locals, ghosts, counters, PCs, Exclusive
<1>5. LockInv'
  BY <1>1, <1>4, LockKept DEF TypeOK, Exclusive, BindingSteps, Shared
<1>6. ClientInv(p)'
  BY <1>1, <1>3, RootSyncedInv
     DEF TypeOK, ClientInv, handle, locals, BindingSteps, BeforeSelection, Publishing
<1> QED
  BY <1>2, <1>3, <1>4, <1>5, <1>6, RootSyncedInv, ExclusiveStep

LEMMA SyncRootStep ==
  ASSUME IInv, NEW p \in Procs, SyncRoot(p) PROVE IInv'
<1> USE DEF SyncRoot
<1>1. TypeOK /\ ClientInv(p)
  BY DEF IInv
<1>2. lock[p] = "EX"
  BY DEF IInv, LockInv, Exclusive
<1>3. disk' = RootSynced /\ UNCHANGED <<dir, gens, diskGens, ghosts, losses>>
  BY DEF counters
<1>4. TypeOK' /\ OthersKeep(p)
  BY <1>1, <1>3, RootSyncedInv
     DEF TypeOK, OthersKeep, handle, ghosts, counters, PCs, Exclusive, BindingSteps
<1>5. LockInv'
  BY <1>1, <1>4, LockKept DEF TypeOK, Exclusive, BindingSteps, Shared
<1>6. ClientInv(p)'
  BY <1>1, <1>3, RootSyncedInv
     DEF TypeOK, ClientInv, handle, BindingSteps, BeforeSelection, Publishing
<1> QED
  BY <1>2, <1>3, <1>4, <1>5, <1>6, RootSyncedInv, ExclusiveStep

LEMMA SelectBindingStep ==
  ASSUME IInv, NEW p \in Procs, SelectBinding(p) PROVE IInv'
<1>1. TypeOK /\ ClientInv(p) /\ LinkInv /\ HistoryInv /\ LayoutInv /\ TargetInv /\ DurableInv
  BY DEF IInv
<1>2. lock[p] = "EX"
  BY DEF IInv, LockInv, Exclusive, BindingSteps, SelectBinding, Goto
<1>3. target_binding[p] \in Bindings /\ Founded(target_binding[p]) /\ draft[p]
  BY <1>1 DEF ClientInv, SelectBinding, Goto
<1>4. /\ pc[p] = "select_binding" /\ pc' = [pc EXCEPT ![p] = "sync_binding"]
      /\ dir' = [dir EXCEPT !.binding = target_binding[p]]
      /\ disk' = [disk EXCEPT !.binding = @ \cup {target_binding[p]}]
      /\ UNCHANGED <<gens, diskGens, lock, handle, locals, outcome, ghosts, counters>>
  BY <1>3 DEF Installed, SelectBinding, Goto
<1>5. TypeOK' /\ OthersKeep(p)
  <2>1. /\ dir' \in [linked : BOOLEAN, generations : BOOLEAN,
                     current : Selectors \cup {Nil}, binding : Bindings \cup {Nil, Torn}]
        /\ disk' \in [linked : SUBSET BOOLEAN, generations : SUBSET BOOLEAN,
                      current : SUBSET (Selectors \cup {Nil}),
                      binding : SUBSET (Bindings \cup {Nil, Torn})]
    BY <1>1, <1>3, <1>4 DEF TypeOK
  <2>2. "sync_binding" \in PCs
    BY DEF PCs, Exclusive, BindingSteps
  <2> QED
    BY <1>1, <1>4, <2>1, <2>2
       DEF TypeOK, OthersKeep, handle, locals, ghosts, counters
<1>6. LockInv'
  BY <1>1, <1>4, <1>5, LockKept DEF TypeOK, Exclusive, BindingSteps, Shared
<1>7. /\ dir'.generations = dir.generations /\ dir'.linked = dir.linked
      /\ dir'.current = dir.current /\ dir'.binding = target_binding[p]
      /\ disk'.generations = disk.generations /\ disk'.linked = disk.linked
      /\ disk'.current = disk.current /\ disk'.binding = disk.binding \cup {target_binding[p]}
  BY <1>1, <1>4 DEF TypeOK
<1>8. (\A s : Whole(s)' = Whole(s)) /\ Intact' = Intact
  BY <1>4 DEF Whole, Intact, ghosts
<1>9. ~Alive /\ Alive'
  BY <1>3, <1>4, <1>7, <1>8, NilAssumption DEF Alive, Founded, ghosts
<1>10. LinkInv' /\ HistoryInv' /\ LayoutInv' /\ AliveKept
  <2>1. LinkInv' /\ AliveKept
    BY <1>1, <1>4, <1>7, <1>9 DEF LinkInv, AliveKept
  <2>2. HistoryInv'
    BY <1>1, <1>4, <1>7 DEF HistoryInv, ghosts
  <2>3. LayoutInv'
    BY <1>1, <1>4, <1>7, <1>8 DEF LayoutInv
  <2> QED
    BY <2>1, <2>2, <2>3
<1>11. TargetInv' /\ DurableInv'
  <2>1. target_binding[p] # Torn /\ dir.binding = Nil
    BY <1>3, TornAssumption DEF Founded
  <2>2. TargetInv'
    BY <1>1, <1>3, <1>4, <1>7, <2>1 DEF TargetInv, Founded, ghosts
  <2>3. DurableInv'
    BY <1>1, <1>4, <1>9 DEF DurableInv, RootKept, ghosts, counters
  <2> QED
    BY <2>2, <2>3
<1>12. ClientInv(p)'
  BY <1>1, <1>3, <1>4, <1>7, <1>9
     DEF TypeOK, ClientInv, handle, locals, BindingSteps, BeforeSelection, Publishing
<1> QED
  BY <1>2, <1>5, <1>6, <1>10, <1>11, <1>12, ExclusiveStep

(* Where a client is about to select, every selection so far is whole.     *)
LEMMA SelectionReady ==
  ASSUME IInv, NEW p \in Procs, pc[p] \in BeforeSelection
  PROVE  /\ Intact /\ dir.generations
         /\ next[p] \in Snapshots /\ next[p].target = target_binding[p]
         /\ target_binding[p] \in Bindings
         /\ IF root_descriptor[p] THEN Alive /\ target_binding[p] = dir.binding
            ELSE dir.binding = Nil /\ history = <<>>
<1>1. ClientInv(p) /\ HistoryInv
  BY DEF IInv
<1>2. /\ next[p] \in Snapshots /\ next[p].target = target_binding[p]
      /\ target_binding[p] \in Bindings
  BY <1>1 DEF ClientInv, Publishing, BeforeSelection
<1>3. CASE root_descriptor[p]
  BY <1>1, <1>2, <1>3 DEF ClientInv, Alive
<1>4. CASE ~root_descriptor[p]
  BY <1>1, <1>2, <1>4 DEF ClientInv, HistoryInv, Unfounded, Intact
<1> QED
  BY <1>3, <1>4

LEMMA InstallGenerationStep ==
  ASSUME IInv, NEW p \in Procs, InstallGeneration(p) PROVE IInv'
<1>1. TypeOK /\ ClientInv(p) /\ LinkInv /\ HistoryInv /\ LayoutInv /\ TargetInv /\ DurableInv
  BY DEF IInv
<1>2. pc[p] = "install" /\ lock[p] = "EX" /\ draft[p]
  BY <1>1 DEF IInv, LockInv, Exclusive, BeforeSelection, InstallGeneration, Goto, ClientInv
<1>3. /\ pc' = [pc EXCEPT ![p] = "sync_generations"]
      /\ gens[next[p]] = "absent" /\ gens' = [gens EXCEPT ![next[p]] = "sealed"]
      /\ diskGens' = [diskGens EXCEPT ![next[p]] = @ \cup {"sealed"}]
      /\ UNCHANGED <<dir, disk, lock, handle, locals, outcome, ghosts, counters>>
  BY <1>2 DEF InstallGeneration, Goto, Installed
<1>4. /\ Intact /\ dir.generations /\ next[p] \in Snapshots
      /\ IF root_descriptor[p] THEN Alive /\ target_binding[p] = dir.binding
         ELSE dir.binding = Nil /\ history = <<>>
  BY <1>2, SelectionReady DEF BeforeSelection
<1>5. TypeOK' /\ OthersKeep(p)
  <2>1. "sync_generations" \in PCs
    BY DEF PCs, Exclusive, BeforeSelection
  <2>2. gens' \in [Snapshots -> Presence] /\ diskGens' \in [Snapshots -> SUBSET Presence]
    BY <1>1, <1>3, <1>4 DEF TypeOK, Presence
  <2> QED
    BY <1>1, <1>3, <2>1, <2>2 DEF TypeOK, OthersKeep, handle, locals, ghosts, counters
<1>6. LockInv'
  BY <1>1, <1>2, <1>3, <1>5, LockKept DEF TypeOK, Exclusive, BeforeSelection, Shared
<1>7. Intact'
  BY <1>1, <1>3, <1>4, HistoryFacts DEF Intact, Whole, ghosts, TypeOK
<1>8. AliveKept
  BY <1>3, <1>7 DEF AliveKept, Alive, ghosts
<1>9. LinkInv' /\ HistoryInv' /\ TargetInv'
  BY <1>1, <1>3 DEF LinkInv, HistoryInv, TargetInv, ghosts
<1>10. LayoutInv'
  BY <1>1, <1>3, <1>4, <1>7 DEF LayoutInv, TypeOK
<1>11. DurableInv'
  BY <1>1, <1>3, <1>8 DEF DurableInv, RootKept, AliveKept, ghosts, counters
<1>12. ClientInv(p)'
  BY <1>1, <1>2, <1>3, <1>4, <1>8
     DEF TypeOK, ClientInv, AliveKept, handle, locals, BindingSteps, BeforeSelection,
         Publishing, Unfounded
<1> QED
  BY <1>2, <1>5, <1>6, <1>8, <1>9, <1>10, <1>11, <1>12, ExclusiveStep

(* fsync of generations/: every entry is on disk as it is seen.            *)
LEMMA SyncGenerationsStep ==
  ASSUME IInv, NEW p \in Procs, SyncGenerations(p) PROVE IInv'
<1> USE DEF SyncGenerations, Goto
<1>1. TypeOK /\ ClientInv(p) /\ LinkInv /\ HistoryInv /\ LayoutInv /\ TargetInv /\ DurableInv
  BY DEF IInv
<1>2. pc[p] = "sync_generations" /\ lock[p] = "EX"
  BY DEF IInv, LockInv, Exclusive, BeforeSelection
<1>3. /\ Intact /\ dir.generations /\ next[p] \in Snapshots
      /\ IF root_descriptor[p] THEN Alive /\ target_binding[p] = dir.binding
         ELSE dir.binding = Nil /\ history = <<>>
  BY <1>2, SelectionReady DEF BeforeSelection
<1>4. TypeOK' /\ OthersKeep(p)
  <2>1. "write_selector" \in PCs
    BY DEF PCs, Exclusive, BeforeSelection
  <2>2. diskGens' \in [Snapshots -> SUBSET Presence]
    BY <1>1 DEF TypeOK
  <2> QED
    BY <1>1, <2>1, <2>2 DEF TypeOK, OthersKeep, handle, locals, ghosts, counters
<1>5. LockInv'
  BY <1>1, <1>2, <1>4, LockKept DEF TypeOK, Exclusive, BeforeSelection, Shared
<1>6. Intact' /\ Whole(next[p])'
  BY <1>1, <1>2, <1>3, HistoryFacts DEF Intact, Whole, ghosts, locals, ClientInv, TypeOK
<1>7. AliveKept
  BY <1>6 DEF AliveKept, Alive, ghosts
<1>8. LinkInv' /\ HistoryInv' /\ TargetInv'
  BY <1>1 DEF LinkInv, HistoryInv, TargetInv, ghosts
<1>9. LayoutInv'
  BY <1>1, <1>6 DEF LayoutInv
<1>10. DurableInv'
  BY <1>1, <1>7 DEF DurableInv, RootKept, AliveKept, ghosts, counters
<1>11. ClientInv(p)'
  BY <1>1, <1>2, <1>3, <1>6, <1>7
     DEF TypeOK, ClientInv, AliveKept, handle, locals, BindingSteps, BeforeSelection,
         Publishing, Unfounded
<1> QED
  BY <1>2, <1>4, <1>5, <1>7, <1>8, <1>9, <1>10, <1>11, ExclusiveStep

(* rename of the selector: the history grows by one whole generation.      *)
LEMMA SelectGenerationStep ==
  ASSUME IInv, NEW p \in Procs, SelectGeneration(p) PROVE IInv'
<1>1. TypeOK /\ ClientInv(p) /\ LinkInv /\ HistoryInv /\ LayoutInv /\ TargetInv /\ DurableInv
  BY DEF IInv
<1>2. pc[p] = "select" /\ lock[p] = "EX" /\ draft[p] /\ Whole(next[p])
  BY <1>1 DEF IInv, LockInv, Exclusive, BeforeSelection, SelectGeneration, Goto, ClientInv
<1>3. /\ pc' = [pc EXCEPT ![p] = "sync_root"]
      /\ dir' = [dir EXCEPT !.current = Chosen(next[p])]
      /\ disk' = [disk EXCEPT !.current = @ \cup {Chosen(next[p])}]
      /\ history' = Append(history, next[p])
      /\ UNCHANGED <<gens, diskGens, lock, handle, locals, outcome, confirmed, counters>>
  BY <1>2 DEF SelectGeneration, Goto, Installed
<1>4. /\ Intact /\ dir.generations
      /\ next[p] \in Snapshots /\ next[p].target = target_binding[p]
      /\ target_binding[p] \in Bindings
      /\ IF root_descriptor[p] THEN Alive /\ target_binding[p] = dir.binding
         ELSE dir.binding = Nil /\ history = <<>>
  BY <1>2, SelectionReady DEF BeforeSelection
<1>5. /\ history' \in Seq(Snapshots) /\ Len(history') = Len(history) + 1
      /\ \A i \in 1..Len(history) : history'[i] = history[i]
      /\ history'[Len(history) + 1] = next[p] /\ history' # <<>>
      /\ Len(history) \in Nat
  BY <1>1, <1>3, <1>4, AppendProperties, LenProperties DEF TypeOK
<1>6. /\ Chosen(next[p]).value = next[p] /\ Chosen(next[p]).ver = Len(history')
      /\ Chosen(next[p]) \in Selectors /\ Chosen(next[p]) # Nil
  BY <1>4, <1>5, NilAssumption DEF Chosen, Selectors
<1>7. /\ dir'.generations = dir.generations /\ dir'.linked = dir.linked
      /\ dir'.current = Chosen(next[p]) /\ dir'.binding = dir.binding
      /\ disk'.generations = disk.generations /\ disk'.linked = disk.linked
      /\ disk'.current = disk.current \cup {Chosen(next[p])} /\ disk'.binding = disk.binding
  BY <1>1, <1>3 DEF TypeOK
<1>8. TypeOK' /\ OthersKeep(p)
  <2>1. "sync_root" \in PCs
    BY DEF PCs, Exclusive
  <2>2. /\ dir' \in [linked : BOOLEAN, generations : BOOLEAN,
                     current : Selectors \cup {Nil}, binding : Bindings \cup {Nil, Torn}]
        /\ disk' \in [linked : SUBSET BOOLEAN, generations : SUBSET BOOLEAN,
                      current : SUBSET (Selectors \cup {Nil}),
                      binding : SUBSET (Bindings \cup {Nil, Torn})]
    BY <1>1, <1>3, <1>6 DEF TypeOK
  <2> QED
    BY <1>1, <1>3, <1>5, <2>1, <2>2 DEF TypeOK, OthersKeep, handle, locals, counters
<1>9. LockInv'
  BY <1>1, <1>2, <1>3, <1>8, LockKept DEF TypeOK, Exclusive, BeforeSelection, Shared
<1>10. Intact' /\ AliveKept
  <2>1. ASSUME NEW s PROVE Whole(s)' <=> Whole(s)
    BY <1>3 DEF Whole
  <2>2. ASSUME NEW i \in 1..Len(history')
        PROVE  gens'[history'[i]] = "sealed" /\ diskGens'[history'[i]] = {"sealed"}
    <3>1. CASE i = Len(history) + 1
      BY <1>2, <1>3, <1>5, <3>1 DEF Whole
    <3>2. CASE i \in 1..Len(history)
      BY <1>3, <1>4, <1>5, <3>2 DEF Intact, Whole
    <3> QED
      BY <1>5, <3>1, <3>2
  <2>3. Intact'
    BY <2>2 DEF Intact, Whole
  <2> QED
    BY <1>5, <1>7, <2>3 DEF AliveKept, Alive
<1>11. LinkInv' /\ LayoutInv'
  BY <1>1, <1>3, <1>7, <1>10 DEF LinkInv, LayoutInv
<1>12. HistoryInv'
  <2>1. ASSUME NEW c \in disk'.current, c # Nil
        PROVE  c.ver \in 1..Len(history') /\ c.value = history'[c.ver]
    <3>1. CASE c = Chosen(next[p])
      BY <1>5, <1>6, <3>1
    <3>2. CASE c \in disk.current
      BY <1>1, <1>5, <2>1, <3>2 DEF HistoryInv
    <3> QED
      BY <1>7, <3>1, <3>2
  <2> QED
    BY <1>5, <1>6, <1>7, <2>1 DEF HistoryInv
<1>13. TargetInv'
  <2>1. dir'.binding # Torn /\ \A b \in disk'.binding : b # Nil => b = dir'.binding
    BY <1>1, <1>7 DEF TargetInv
  <2>2. CASE root_descriptor[p]
    <3>1. history[1].target = dir.binding /\ history # <<>>
      BY <1>1, <1>4, <2>2, NilAssumption DEF TargetInv, Alive
    <3>2. history'[1].target = dir.binding
      BY <1>5, <3>1, HistoryFacts
    <3>3. \A i \in 1..Len(history') : history'[i].target = dir.binding
      BY <1>1, <1>4, <1>5, <2>2, <3>1 DEF TargetInv
    <3> QED
      BY <1>7, <2>1, <3>2, <3>3 DEF TargetInv
  <2>3. CASE ~root_descriptor[p]
    <3>1. Len(history') = 1 /\ dir'.binding = Nil
      BY <1>4, <1>5, <1>7, <2>3, HistoryFacts
    <3> QED
      BY <2>1, <3>1 DEF TargetInv
  <2> QED
    BY <2>2, <2>3
<1>14. DurableInv'
  <2>1. confirmed' = confirmed /\ confirmed \in Nat
    BY <1>1, <1>3 DEF TypeOK
  <2>2. SUFFICES ASSUME RootKept, confirmed > 0
                 PROVE  /\ Alive'
                        /\ disk'.generations = {TRUE} /\ disk'.binding = {dir'.binding}
                        /\ confirmed <= Len(history')
                        /\ \A c \in disk'.current : c # Nil /\ c.ver >= confirmed
    BY <1>3, <2>1 DEF DurableInv, RootKept, counters
  <2>3. /\ Alive /\ disk.generations = {TRUE} /\ disk.binding = {dir.binding}
        /\ confirmed <= Len(history)
        /\ \A c \in disk.current : c # Nil /\ c.ver >= confirmed
    BY <1>1, <2>2 DEF DurableInv
  <2> QED
    BY <1>5, <1>6, <1>7, <1>10, <2>1, <2>3 DEF AliveKept
<1>15. ClientInv(p)'
  <2>1. ~root_descriptor[p] => Founded(target_binding[p])'
    BY <1>3, <1>4, <1>5, <1>7, <1>10 DEF Founded, handle
  <2> QED
    BY <1>1, <1>2, <1>3, <1>4, <1>7, <1>10, <2>1
       DEF TypeOK, ClientInv, AliveKept, handle, locals, BindingSteps, BeforeSelection,
           Publishing
<1> QED
  BY <1>2, <1>8, <1>9, <1>10, <1>11, <1>12, <1>13, <1>14, <1>15, ExclusiveStep

(* The handle is retained: what the caller is told is durable is.          *)
LEMMA RetainAuthorityStep ==
  ASSUME IInv, NEW p \in Procs, RetainAuthority(p) PROVE IInv'
<1> USE DEF RetainAuthority
<1>1. TypeOK /\ ClientInv(p) /\ LinkInv /\ HistoryInv /\ LayoutInv /\ TargetInv /\ DurableInv
  BY DEF IInv
<1>2. lock[p] = "EX"
  BY DEF IInv, LockInv, Exclusive
<1>3. Alive /\ target_binding[p] = dir.binding /\ RootIsSynced
  BY <1>1 DEF ClientInv
<1>4. Return(p, "admitted") /\ "admitted" \in Outcomes
  BY DEF Outcomes
<1>5. /\ confirmed' = Len(history) /\ Len(history) \in Nat
      /\ dir.current # Nil /\ dir.current.ver = Len(history)
  BY <1>3, HistoryFacts DEF Alive
<1>6. TypeOK' /\ OthersKeep(p)
  BY <1>1, <1>4, <1>5, ReturnFrame DEF TypeOK, OthersKeep, fsvars, counters
<1>7. LockInv'
  BY <1>4, <1>1, <1>6, ReturnFrame, LockDropped
<1>8. (\A s : Whole(s)' = Whole(s)) /\ Intact' = Intact /\ Alive' = Alive
  BY DEF Whole, Intact, Alive, fsvars
<1>9. LinkInv' /\ HistoryInv' /\ LayoutInv' /\ TargetInv' /\ AliveKept
  BY <1>1, <1>8 DEF LinkInv, HistoryInv, LayoutInv, TargetInv, AliveKept, fsvars
<1>10. DurableInv'
  BY <1>3, <1>5, <1>8 DEF DurableInv, RootIsSynced, Alive, fsvars
<1>11. ClientInv(p)'
  BY <1>1, <1>3, <1>4, <1>8, ReturnFrame
     DEF ClientInv, BindingSteps, BeforeSelection, Publishing, fsvars
<1> QED
  BY <1>2, <1>6, <1>7, <1>9, <1>10, <1>11, ExclusiveStep

(* The receipt: only what is durable is reported as published.             *)
LEMMA ObserveStep ==
  ASSUME IInv, NEW p \in Procs, Observe(p) PROVE IInv'
<1>1. TypeOK /\ ClientInv(p) /\ LinkInv /\ HistoryInv /\ LayoutInv /\ TargetInv /\ DurableInv
  BY DEF IInv
<1>2. pc[p] = "observe" /\ UNCHANGED <<fsvars, handle, history, counters>>
  BY DEF Observe
<1>3. lock[p] = "EX"
  BY <1>2 DEF IInv, LockInv, Exclusive
<1>4. root_descriptor[p] /\ Alive /\ target_binding[p] = dir.binding
  BY <1>1, <1>2 DEF ClientInv
<1>5. PICK a \in Outcomes : /\ Return(p, a)
                            /\ a = "published" => durability_confirmed[p]
                            /\ confirmed' = IF a = "published" THEN dir.current.ver ELSE confirmed
  <2>1. /\ Receipt(p) \in Outcomes
        /\ Receipt(p) = "published" => durability_confirmed[p]
    BY DEF Outcomes, Receipt
  <2> QED
    BY <2>1 DEF Observe
<1>6. Len(history) \in Nat /\ dir.current # Nil /\ dir.current.ver = Len(history)
  BY <1>1, <1>4, HistoryFacts DEF Alive
<1>7. \/ confirmed' = confirmed
      \/ confirmed' = Len(history) /\ RootIsSynced
  BY <1>1, <1>2, <1>5, <1>6 DEF ClientInv
<1>8. TypeOK' /\ OthersKeep(p)
  <2>1. confirmed' \in Nat
    BY <1>1, <1>6, <1>7 DEF TypeOK
  <2> QED
    BY <1>1, <1>2, <1>5, <2>1, ReturnFrame DEF TypeOK, OthersKeep, fsvars, handle, counters
<1>9. LockInv'
  BY <1>1, <1>5, <1>8, ReturnFrame, LockDropped
<1>10. (\A s : Whole(s)' = Whole(s)) /\ Intact' = Intact /\ Alive' = Alive
  BY <1>2 DEF Whole, Intact, Alive, fsvars
<1>11. LinkInv' /\ HistoryInv' /\ LayoutInv' /\ TargetInv' /\ AliveKept
  BY <1>1, <1>2, <1>10 DEF LinkInv, HistoryInv, LayoutInv, TargetInv, AliveKept, fsvars
<1>12. DurableInv'
  <2>1. CASE confirmed' = confirmed
    BY <1>1, <1>2, <1>10, <2>1 DEF DurableInv, RootKept, fsvars, counters
  <2>2. CASE confirmed' = Len(history) /\ RootIsSynced
    BY <1>1, <1>2, <1>4, <1>6, <1>10, <2>2 DEF DurableInv, RootIsSynced, Alive, fsvars
  <2> QED
    BY <1>7, <2>1, <2>2
<1>13. ClientInv(p)'
  <2>1. /\ pc'[p] = "idle" /\ durability_confirmed'[p] = FALSE
        /\ target_binding' = target_binding /\ root_descriptor' = root_descriptor
        /\ dir' = dir
    BY <1>1, <1>2, <1>5, ReturnFrame DEF fsvars, handle
  <2> QED
    BY <1>4, <1>10, <2>1 DEF ClientInv, BindingSteps, BeforeSelection, Publishing
<1> QED
  BY <1>3, <1>8, <1>9, <1>11, <1>12, <1>13, ExclusiveStep

-----------------------------------------------------------------------------
(* The root is created without a lock, and the power goes.                 *)

LEMMA CreateRootStep ==
  ASSUME IInv, NEW p \in Procs, NEW b \in Bindings, CreateRoot(p, b) PROVE IInv'
<1> USE DEF CreateRoot, Goto
<1>1. TypeOK /\ LinkInv /\ HistoryInv /\ LayoutInv /\ TargetInv /\ DurableInv
  BY DEF IInv
<1>2. /\ dir'.generations = dir.generations /\ dir'.linked
      /\ dir'.current = dir.current /\ dir'.binding = dir.binding
      /\ disk'.generations = disk.generations /\ disk'.linked = disk.linked \cup {TRUE}
      /\ disk'.current = disk.current /\ disk'.binding = disk.binding
  BY <1>1 DEF TypeOK
<1>3. TypeOK' /\ OthersKeep(p)
  BY <1>1 DEF TypeOK, OthersKeep, locals, ghosts, counters, PCs, Outcomes
<1>4. LockInv'
  BY <1>1, <1>3, LockKept
     DEF TypeOK, Exclusive, Shared, BeforeSelection, BindingSteps
<1>5. /\ (\A s : Whole(s)' = Whole(s)) /\ Intact' = Intact /\ Alive' = Alive
      /\ RootIsSynced' = RootIsSynced /\ Unfounded(dir') = Unfounded(dir)
      /\ (\A t : Founded(t)' = Founded(t))
  BY <1>2 DEF Whole, Intact, Alive, RootIsSynced, Unfounded, Founded, ghosts
<1>6. LinkInv' /\ HistoryInv' /\ LayoutInv' /\ TargetInv' /\ DurableInv'
  BY <1>1, <1>2, <1>5 DEF LinkInv, HistoryInv, LayoutInv, TargetInv, DurableInv, RootKept,
       ghosts, counters
<1>7. ASSUME NEW q \in Procs PROVE ClientInv(q)'
  <2>1. ClientInv(q)
    BY DEF IInv
  <2>2. CASE q = p
    BY <1>1, <1>5, <2>1, <2>2
       DEF TypeOK, ClientInv, locals, BindingSteps, BeforeSelection, Publishing
  <2>3. CASE q # p
    BY <1>2, <1>3, <1>5, <2>1, <2>3 DEF ClientInv, OthersKeep
  <2> QED
    BY <2>2, <2>3
<1> QED
  BY <1>3, <1>4, <1>6, <1>7 DEF IInv

(* A timeline cut short: a prefix, with the selections it had.             *)
LEMMA Truncated ==
  ASSUME history \in Seq(Snapshots), NEW n \in 1..Len(history)
  PROVE  /\ SubSeq(history, 1, n) \in Seq(Snapshots)
         /\ Len(SubSeq(history, 1, n)) = n /\ SubSeq(history, 1, n) # <<>>
         /\ \A i \in 1..n : SubSeq(history, 1, n)[i] = history[i]
<1>1. n \in Int /\ 1 <= n /\ n <= Len(history) /\ Len(history) \in Nat
  OBVIOUS
<1>2. \A i \in 1..n : history[i] \in Snapshots
  BY <1>1
<1> QED
  BY <1>1, <1>2, SubSeqProperties

LEMMA PowerLossStep ==
  ASSUME IInv, PowerLoss PROVE IInv'
<1>1. /\ TypeOK /\ LinkInv /\ HistoryInv /\ LayoutInv /\ TargetInv /\ DurableInv
      /\ history \in Seq(Snapshots)
  BY DEF IInv, TypeOK
<1>2. PICK l \in disk.linked, g \in disk.generations, c \in disk.current, b \in disk.binding,
           kept \in [Snapshots -> {"absent", "sealed", "torn"}] :
        /\ \A s \in Snapshots : kept[s] \in diskGens[s]
        /\ dir' = Image(l, g, c, b)
        /\ gens' = IF l /\ g THEN kept ELSE NoGens
  BY DEF PowerLoss
<1>3. /\ disk' = Only(dir') /\ diskGens' = [s \in Snapshots |-> {gens'[s]}]
      /\ history' = IF dir'.current = Nil THEN <<>> ELSE SubSeq(history, 1, dir'.current.ver)
      /\ UNCHANGED <<confirmed, faults, kills>> /\ losses' = losses + 1
  BY DEF PowerLoss
<1>4. /\ pc' = [p \in Procs |-> "idle"] /\ lock' = [p \in Procs |-> "none"]
      /\ target_binding' = [p \in Procs |-> Nil]
      /\ root_descriptor' = [p \in Procs |-> FALSE] /\ seen' = [p \in Procs |-> Nil]
      /\ next' = [p \in Procs |-> Nil] /\ draft' = [p \in Procs |-> FALSE]
      /\ durability_confirmed' = [p \in Procs |-> FALSE]
      /\ outcome' = [p \in Procs |-> "none"]
  BY DEF PowerLoss
(* What is found again, entry by entry.                                    *)
<1>5. /\ l \in BOOLEAN /\ g \in BOOLEAN
      /\ c \in Selectors \cup {Nil} /\ b \in Bindings \cup {Nil, Torn}
  BY <1>1, <1>2 DEF TypeOK
<1>6. /\ dir'.linked = l
      /\ dir'.generations = (l /\ g)
      /\ dir'.current = IF l THEN c ELSE Nil
      /\ dir'.binding = IF l THEN b ELSE Nil
  BY <1>2, <1>5 DEF Image, NoRoot
<1>7. /\ disk'.linked = {dir'.linked} /\ disk'.generations = {dir'.generations}
      /\ disk'.current = {dir'.current} /\ disk'.binding = {dir'.binding}
  BY <1>3 DEF Only
<1>8. c # Nil => c.ver \in 1..Len(history) /\ c.value = history[c.ver]
  BY <1>1, <1>2 DEF HistoryInv
<1>9. \/ dir'.current = Nil /\ history' = <<>>
      \/ /\ l /\ c # Nil /\ dir'.current = c
         /\ history' \in Seq(Snapshots) /\ history' # <<>> /\ Len(history') = c.ver
         /\ \A i \in 1..c.ver : history'[i] = history[i]
  BY <1>1, <1>3, <1>6, <1>8, Truncated
<1>10. Len(history') <= Len(history) /\ \A i \in 1..Len(history') : history'[i] = history[i]
  BY <1>1, <1>8, <1>9
<1>11. TypeOK'
  <2>1. dir' \in [linked : BOOLEAN, generations : BOOLEAN,
                  current : Selectors \cup {Nil}, binding : Bindings \cup {Nil, Torn}]
    BY <1>2, <1>5 DEF Image, NoRoot
  <2>2. disk' \in [linked : SUBSET BOOLEAN, generations : SUBSET BOOLEAN,
                   current : SUBSET (Selectors \cup {Nil}),
                   binding : SUBSET (Bindings \cup {Nil, Torn})]
    BY <1>3, <2>1 DEF Only
  <2>3. gens' \in [Snapshots -> Presence] /\ diskGens' \in [Snapshots -> SUBSET Presence]
    BY <1>2, <1>3 DEF Presence, NoGens
  <2>4. /\ history' \in Seq(Snapshots) /\ confirmed' \in Nat
        /\ faults' \in 0..MaxFaults /\ kills' \in 0..MaxKills /\ losses' \in 0..MaxLosses
    BY <1>1, <1>3, <1>9, CountersBounded DEF TypeOK, PowerLoss
  <2>5. /\ pc' \in [Procs -> PCs] /\ lock' \in [Procs -> {"none", "SH", "EX"}]
        /\ target_binding' \in [Procs -> Bindings \cup {Nil}]
        /\ root_descriptor' \in [Procs -> BOOLEAN]
        /\ seen' \in [Procs -> Snapshots \cup {Nil}]
        /\ next' \in [Procs -> Snapshots \cup {Nil}]
        /\ draft' \in [Procs -> BOOLEAN] /\ durability_confirmed' \in [Procs -> BOOLEAN]
        /\ outcome' \in [Procs -> Outcomes]
    BY <1>4 DEF PCs, Outcomes
  <2> QED
    BY <2>1, <2>2, <2>3, <2>4, <2>5 DEF TypeOK
<1>12. LockInv'
  BY <1>4 DEF LockInv, Exclusive, Shared, BeforeSelection, BindingSteps
<1>13. LinkInv'
  BY <1>1, <1>2, <1>6, <1>7 DEF LinkInv
<1>14. HistoryInv'
  BY <1>7, <1>8, <1>9 DEF HistoryInv
<1>15. l /\ g /\ Intact => Intact'
  <2>1. SUFFICES ASSUME l, g, Intact, NEW i \in 1..Len(history') PROVE Whole(history[i])'
    BY <1>10 DEF Intact, Whole
  <2>2. i \in 1..Len(history) /\ history'[i] = history[i] /\ history[i] \in Snapshots
    BY <1>1, <1>9, <1>10, <2>1
  <2>3. Whole(history[i])
    BY <2>1, <2>2 DEF Intact
  <2>4. gens'[history[i]] = "sealed"
    BY <1>2, <2>1, <2>2, <2>3 DEF Whole
  <2> QED
    BY <1>3, <2>2, <2>4 DEF Whole
<1>16. LayoutInv'
  <2>1. \A s \in Snapshots : gens'[s] # "torn" /\ diskGens'[s] = {gens'[s]}
    BY <1>1, <1>2, <1>3 DEF LayoutInv, NoGens
  <2>2. \A s \in Snapshots : "torn" \notin diskGens'[s]
    BY <2>1
  <2>3. Intact' \/ \A s \in Snapshots : gens'[s] = "absent" /\ diskGens'[s] = {"absent"}
    BY <1>1, <1>2, <1>15, <2>1 DEF LayoutInv, NoGens
  <2>4. TRUE \in disk'.generations => dir'.generations
    BY <1>5, <1>6, <1>7
  <2> QED
    BY <2>1, <2>2, <2>3, <2>4 DEF LayoutInv
<1>17. TargetInv'
  <2>1. dir'.binding # Torn /\ (dir'.binding # Nil => dir'.binding = dir.binding)
    BY <1>1, <1>2, <1>6, NilAssumption DEF TargetInv
  <2>2. \A i \in 1..Len(history') : history'[i].target = history'[1].target
    BY <1>1, <1>9, <1>10 DEF TargetInv
  <2>3. dir'.binding # Nil /\ history' # <<>> => history'[1].target = dir'.binding
    BY <1>1, <1>8, <1>9, <2>1 DEF TargetInv
  <2> QED
    BY <1>7, <2>1, <2>2, <2>3 DEF TargetInv
<1>18. DurableInv'
  <2> SUFFICES ASSUME RootKept', confirmed' > 0 PROVE DurableInv'
    BY DEF DurableInv
  <2>1. PreExisting /\ confirmed > 0
    BY <1>1, <1>3 DEF RootKept, TypeOK
  <2>2. /\ Alive /\ disk.generations = {TRUE} /\ disk.binding = {dir.binding}
        /\ c # Nil /\ c.ver >= confirmed
    BY <1>1, <1>2, <1>3, <2>1 DEF DurableInv, RootKept
  <2>3. l /\ g /\ b = dir.binding /\ dir'.current = c
    BY <1>1, <1>2, <1>6, <2>1, <2>2 DEF LinkInv
  <2>4. Alive'
    BY <1>6, <1>9, <1>15, <2>2, <2>3 DEF Alive
  <2>5. Len(history') = c.ver
    BY <1>9, <2>2, <2>3
  <2> QED
    BY <1>3, <1>6, <1>7, <2>2, <2>3, <2>4, <2>5 DEF DurableInv
<1>19. ASSUME NEW p \in Procs PROVE ClientInv(p)'
  BY <1>4 DEF ClientInv, BindingSteps, BeforeSelection, Publishing
<1> QED
  BY <1>11, <1>12, <1>13, <1>14, <1>16, <1>17, <1>18, <1>19 DEF IInv

(* Every step keeps the invariant.                                         *)
LEMMA NextInv == IInv /\ [Next]_vars => IInv'
<1> SUFFICES ASSUME IInv, [Next]_vars PROVE IInv'
  OBVIOUS
<1>1. CASE UNCHANGED vars
  <2>1. UNCHANGED <<dir, gens, disk, diskGens, pc, lock, target_binding, root_descriptor, seen,
                    next, draft, durability_confirmed, outcome, history, confirmed, faults,
                    kills, losses>>
    BY <1>1 DEF vars, fsvars, handle, locals, ghosts, counters
  <2>2. TypeOK' /\ LockInv' /\ LinkInv'
    BY <2>1 DEF IInv, TypeOK, LockInv, LinkInv
  <2>3. HistoryInv' /\ LayoutInv' /\ TargetInv' /\ DurableInv'
    BY <2>1 DEF IInv, HistoryInv, LayoutInv, TargetInv, DurableInv, RootKept, Whole, Intact,
         Alive
  <2>4. ASSUME NEW p \in Procs PROVE ClientInv(p)'
    <3>1. ClientInv(p) /\ Intact' = Intact
      BY <2>1 DEF IInv, Intact, Whole
    <3> QED
      BY <2>1, <3>1 DEF ClientInv, Whole, RootIsSynced, Founded, Alive, Unfounded
  <2> QED
    BY <2>2, <2>3, <2>4 DEF IInv
<1>2. CASE PowerLoss
  BY <1>2, PowerLossStep
<1>3. ASSUME NEW p \in Procs, Initialization(p) PROVE IInv'
  BY <1>3, LockInitializationStep, EnsureLayoutStep, InspectLayoutStep, TemporarySteps,
     SelectBindingStep, SyncBindingStep, RereadAdmittedStep, RetainAuthorityStep
     DEF Initialization
<1>4. ASSUME NEW p \in Procs, Publication(p) PROVE IInv'
  BY <1>4, CompareExpectedStep, EnsureGenerationStep, TemporarySteps, InstallGenerationStep,
     SyncGenerationsStep, SelectGenerationStep, SyncRootStep, ObserveStep
     DEF Publication
<1>5. ASSUME NEW p \in Procs, Step(p) PROVE IInv'
  BY <1>3, <1>4, <1>5, ValidateExistingStep, ReadSnapshotStep, RefusalSteps DEF Step
<1>6. ASSUME NEW p \in Procs, Call(p) PROVE IInv'
  BY <1>6, CreateRootStep, OpenExistingStep, BeginPublicationStep, LockReadStep, RefusalSteps,
     CloseStep DEF Call
<1>7. ASSUME NEW p \in Procs, Failure(p) PROVE IInv'
  BY <1>7, RefusalSteps, FailSyncRootStep, FailObserveStep, KillStep DEF Failure
<1> QED
  BY <1>1, <1>2, <1>5, <1>6, <1>7 DEF Next

-----------------------------------------------------------------------------
(* What the invariant says to a caller.                                    *)

(* The last selection of a live store is whole.                            *)
LEMMA SelectionsWhole ==
  ASSUME IInv, Alive, NEW i \in 1..Len(history)
  PROVE  /\ history[i] \in Snapshots /\ Whole(history[i])
         /\ history[i].target = dir.binding
<1>1. history[i] \in Snapshots
  BY DEF IInv, TypeOK
<1>2. Whole(history[i])
  BY DEF Alive, Intact
<1>3. history[i].target = dir.binding
  BY NilAssumption DEF IInv, TargetInv, Alive
<1> QED
  BY <1>1, <1>2, <1>3

LEMMA InvDurable == RootKept /\ IInv /\ confirmed > 0 => DurableWithinRoot /\ SelectedRetained
<1> SUFFICES ASSUME RootKept, IInv, confirmed > 0 PROVE DurableWithinRoot /\ SelectedRetained
  OBVIOUS
<1>1. /\ Alive /\ disk.generations = {TRUE} /\ disk.binding = {dir.binding}
      /\ \A c \in disk.current : c # Nil /\ c.ver >= confirmed
  BY DEF IInv, DurableInv
<1>2. dir.binding \in Bindings
  BY <1>1 DEF Alive
<1>3. ASSUME NEW c \in disk.current
      PROVE  /\ c # Nil /\ c.ver >= confirmed
             /\ c.value \in Snapshots /\ c.value.target = dir.binding
             /\ diskGens[c.value] = {"sealed"}
  <2>1. c # Nil /\ c.ver \in 1..Len(history) /\ c.value = history[c.ver]
    BY <1>1 DEF IInv, HistoryInv
  <2> QED
    BY <1>1, <2>1, SelectionsWhole DEF Whole
<1>4. DurableWithinRoot
  BY <1>1, <1>2, <1>3 DEF DurableWithinRoot
<1>5. SelectedRetained
  BY <1>1, SelectionsWhole DEF SelectedRetained, Whole
<1> QED
  BY <1>4, <1>5

LEMMA InvSurvives == PreExisting /\ IInv => ConfirmedSurvives
  BY InvDurable DEF IInv, LinkInv, RootKept, ConfirmedSurvives

(* A root that no power loss can take is there.                            *)
LEMMA RootStays ==
  ASSUME DurableRoot, TypeOK
  PROVE  RootKept /\ (PowerLoss => PreExisting)
  BY BoundAssumption DEF DurableRoot, TypeOK, RootKept, PowerLoss

LEMMA InvRetained == DurableRoot /\ IInv => SelectedRetained
  BY InvDurable, RootStays DEF IInv, SelectedRetained

LEMMA InvOnlyRoot == IInv => OnlyRootIsLost
  BY InvDurable DEF RootKept, OnlyRootIsLost

LEMMA InvOneTarget == IInv => OneTarget
<1> SUFFICES ASSUME IInv, dir.binding # Nil PROVE OneTarget
  BY DEF OneTarget
<1>1. ASSUME NEW i \in 1..Len(history) PROVE history[i].target = dir.binding
  BY DEF IInv, TargetInv, TypeOK
<1>2. ASSUME NEW p \in Procs, root_descriptor[p] PROVE target_binding[p] = dir.binding
  BY <1>2 DEF IInv, ClientInv
<1> QED
  BY <1>1, <1>2 DEF OneTarget

-----------------------------------------------------------------------------
(* The theorems.                                                           *)

(* The invariant holds throughout: what the lock lets a client establish   *)
(* about the store stays true until that client acts on it.                *)
THEOREM Invariance == Spec => []IInv
<1>1. Init => IInv
  BY InitInv
<1>2. IInv /\ [Next]_vars => IInv'
  BY NextInv
<1> QED
  BY <1>1, <1>2, PTL DEF Spec

(* Every variable keeps its type, through every failure.                   *)
THEOREM TypeCorrect == Spec => []TypeOK
<1>1. IInv => TypeOK
  BY DEF IInv
<1> QED
  BY <1>1, Invariance, PTL

(* In a store whose root directory is itself durable, every state a power  *)
(* loss may leave is bound and selects a whole generation no older than    *)
(* the newest one reported as durable, for any number of clients and of    *)
(* failures.                                                               *)
THEOREM Durability == PreExisting => (Spec => []ConfirmedSurvives)
<1>1. ASSUME PreExisting PROVE Spec => []ConfirmedSurvives
  <2>1. IInv => ConfirmedSurvives
    BY <1>1, InvSurvives
  <2> QED
    BY <2>1, Invariance, PTL
<1> QED
  BY <1>1

(* Wherever the root came from, only its own entry can be lost: until a    *)
(* power loss takes it, what was confirmed is durable in it.               *)
THEOREM OnlyTheRootIsLost == Spec => []OnlyRootIsLost
<1>1. IInv => OnlyRootIsLost
  BY InvOnlyRoot
<1> QED
  BY <1>1, Invariance, PTL

(* Where no power loss takes the root, because it was made durable or none *)
(* comes, every selection of the timeline can be read back.                *)
THEOREM Retention == DurableRoot => (Spec => []SelectedRetained)
<1>1. ASSUME DurableRoot PROVE Spec => []SelectedRetained
  <2>1. IInv => SelectedRetained
    BY <1>1, InvRetained
  <2> QED
    BY <2>1, Invariance, PTL
<1> QED
  BY <1>1

(* One store serves one target, whatever initialisations raced, crashed or *)
(* were resumed.                                                           *)
THEOREM SingleTarget == Spec => []OneTarget
<1>1. IInv => OneTarget
  BY InvOneTarget
<1> QED
  BY <1>1, Invariance, PTL

-----------------------------------------------------------------------------

(***************************************************************************)
(* A store that no power loss touched is never stuck. IInv says what the   *)
(* clients know of the store; here is what the store itself keeps between  *)
(* their steps: it is bound only over a selection, it selects only out of  *)
(* a generations/ that is there, and the first selection, which is made    *)
(* without a binding, is the empty snapshot of its constructor's target.   *)
(***************************************************************************)

OpenStore ==
    losses = 0 =>
      /\ dir.binding # Nil => history # <<>>
      /\ history # <<>> => dir.generations /\ Intact
      /\ dir.binding = Nil /\ history # <<>>
           => history[Len(history)] = Empty(history[Len(history)].target)

(* A constructor selects the empty snapshot and nothing else.              *)
FreshNext(p) ==
    pc[p] \in BeforeSelection /\ ~root_descriptor[p] => next[p] = Empty(target_binding[p])

OpenInv == OpenStore /\ \A p \in Procs : FreshNext(p)

-----------------------------------------------------------------------------

LEMMA InitOpen == Init => OpenInv
  BY DEF Init, NoRoot, OpenInv, OpenStore, FreshNext, BeforeSelection, Intact

(* Most steps touch neither what is seen of the store nor its history.     *)
Untouched == dir' = dir /\ gens' = gens /\ diskGens' = diskGens /\ history' = history
               /\ losses' = losses

LEMMA UntouchedKeeps == OpenStore /\ Untouched => OpenStore'
<1>1. Untouched => Intact' = Intact
  BY DEF Untouched, Intact, Whole
<1> QED
  BY <1>1 DEF OpenStore, Untouched

(* Making the root or generations/ only adds to it.                        *)
LEMMA DirectoriesKeep ==
  ASSUME IInv, OpenStore, NEW p \in Procs,
         EnsureLayout(p) \/ \E b \in Bindings : CreateRoot(p, b)
  PROVE  OpenStore'
<1>1. /\ dir'.binding = dir.binding /\ (dir.generations => dir'.generations)
      /\ UNCHANGED <<gens, diskGens, history, losses>>
  BY DEF IInv, TypeOK, EnsureLayout, CreateRoot, ghosts, counters
<1>2. Intact' = Intact
  BY <1>1 DEF Intact, Whole
<1> QED
  BY <1>1, <1>2 DEF OpenStore

(* A binding is written over a selection.                                  *)
LEMMA SelectBindingOpens ==
  ASSUME IInv, NEW p \in Procs, SelectBinding(p)
  PROVE  OpenStore'
<1>1. Founded(target_binding[p]) /\ target_binding[p] \in Bindings
  BY DEF IInv, ClientInv, SelectBinding, Goto
<1>2. /\ dir'.binding = target_binding[p] /\ dir'.generations = dir.generations
      /\ UNCHANGED <<gens, diskGens, history, losses>>
  BY DEF IInv, TypeOK, SelectBinding, ghosts, counters
<1>3. Intact' = Intact
  BY <1>2 DEF Intact, Whole
<1> QED
  BY <1>1, <1>2, <1>3, NilAssumption DEF OpenStore, Founded

(* A generation is installed where there was none, and synchronised: those *)
(* of the history stay whole.                                              *)
LEMMA GenerationsKeep ==
  ASSUME IInv, OpenStore, NEW p \in Procs, InstallGeneration(p) \/ SyncGenerations(p)
  PROVE  OpenStore'
<1>1. /\ dir' = dir /\ UNCHANGED <<history, losses>>
      /\ gens \in [Snapshots -> Presence] /\ diskGens \in [Snapshots -> SUBSET Presence]
      /\ history \in Seq(Snapshots)
  BY DEF IInv, TypeOK, InstallGeneration, SyncGenerations, ghosts, counters
<1>2. ASSUME Intact, NEW i \in 1..Len(history) PROVE Whole(history[i])'
  <2>1. history[i] \in Snapshots /\ Whole(history[i]) /\ history'[i] = history[i]
    BY <1>1, <1>2 DEF Intact
  <2>2. CASE InstallGeneration(p)
    <3>1. gens[next[p]] = "absent" /\ gens' = [gens EXCEPT ![next[p]] = "sealed"]
      BY <2>2 DEF InstallGeneration
    <3>2. history[i] # next[p]
      BY <2>1, <3>1 DEF Whole
    <3>3. diskGens'[history[i]] = diskGens[history[i]]
      BY <2>1, <2>2, <3>2, <1>1 DEF InstallGeneration
    <3>4. gens'[history[i]] = gens[history[i]]
      BY <2>1, <3>1, <3>2, <1>1
    <3> QED
      BY <2>1, <3>3, <3>4 DEF Whole
  <2>3. CASE SyncGenerations(p)
    BY <2>1, <2>3 DEF SyncGenerations, Whole
  <2> QED
    BY <2>2, <2>3
<1>3. Intact => Intact'
  BY <1>1, <1>2 DEF Intact
<1> QED
  BY <1>1, <1>3 DEF OpenStore

(* The selection that a store without a binding gets is its constructor's. *)
LEMMA SelectGenerationOpens ==
  ASSUME IInv, OpenInv, NEW p \in Procs, SelectGeneration(p)
  PROVE  OpenStore'
<1>1. pc[p] = "select" /\ pc[p] \in BeforeSelection
  BY DEF SelectGeneration, Goto, BeforeSelection
<1>2. /\ Intact /\ dir.generations
      /\ next[p] \in Snapshots /\ next[p].target = target_binding[p]
      /\ target_binding[p] \in Bindings
      /\ IF root_descriptor[p] THEN Alive /\ target_binding[p] = dir.binding
         ELSE dir.binding = Nil /\ history = <<>>
  BY <1>1, SelectionReady
<1>3. /\ dir'.binding = dir.binding /\ dir'.generations = dir.generations
      /\ UNCHANGED <<gens, diskGens>> /\ history' = Append(history, next[p])
  BY DEF IInv, TypeOK, SelectGeneration
<1>4. /\ Len(history) \in Nat /\ Len(history') = Len(history) + 1 /\ history' # <<>>
      /\ \A i \in 1..Len(history) : history'[i] = history[i]
      /\ history'[Len(history')] = next[p]
  BY <1>2, <1>3, AppendProperties, LenProperties DEF IInv, TypeOK
<1>5. Whole(next[p])
  BY <1>1 DEF IInv, ClientInv
<1>6. Intact'
  <2>1. ASSUME NEW i \in 1..Len(history') PROVE Whole(history'[i])
    <3>1. CASE i = Len(history')
      BY <1>4, <1>5, <3>1
    <3>2. CASE i # Len(history')
      BY <1>2, <1>4, <3>2 DEF Intact
    <3> QED
      BY <3>1, <3>2
  <2> QED
    BY <1>3, <2>1 DEF Intact, Whole
<1>7. dir.binding = Nil => next[p] = Empty(next[p].target)
  BY <1>1, <1>2, NilAssumption DEF OpenInv, FreshNext, Alive
<1> QED
  BY <1>2, <1>3, <1>4, <1>6, <1>7 DEF OpenStore

(* Initialisation and publication.                                         *)
LEMMA InitializationOpens ==
  ASSUME IInv, OpenInv, NEW p \in Procs, Initialization(p)
  PROVE  OpenStore'
<1>1. OpenStore
  BY DEF OpenInv
<1>2. CASE EnsureLayout(p)
  BY <1>1, <1>2, DirectoriesKeep
<1>3. CASE SelectBinding(p)
  BY <1>3, SelectBindingOpens
<1>4. CASE ~EnsureLayout(p) /\ ~SelectBinding(p)
  <2>1. Untouched
    BY <1>4 DEF Initialization, LockInitialization, InspectLayout, WriteBinding,
                WriteTemporary, SealBinding, SealTemporary, SyncBinding, RereadAdmitted,
                SyncLayout, RetainAuthority, Untouched, fsvars, ghosts, counters
  <2> QED
    BY <1>1, <2>1, UntouchedKeeps
<1> QED
  BY <1>2, <1>3, <1>4

LEMMA PublicationOpens ==
  ASSUME IInv, OpenInv, NEW p \in Procs, Publication(p)
  PROVE  OpenStore'
<1>1. OpenStore
  BY DEF OpenInv
<1>2. CASE InstallGeneration(p) \/ SyncGenerations(p)
  BY <1>1, <1>2, GenerationsKeep
<1>3. CASE SelectGeneration(p)
  BY <1>3, SelectGenerationOpens
<1>4. CASE ~InstallGeneration(p) /\ ~SyncGenerations(p) /\ ~SelectGeneration(p)
  <2>1. Untouched
    BY <1>4 DEF Publication, CompareExpected, EnsureGeneration, WriteGeneration,
                WriteTemporary, SealGeneration, SealTemporary, WriteSelector, SealSelector,
                SyncRoot, Observe, Untouched, fsvars, ghosts, counters
  <2> QED
    BY <1>1, <2>1, UntouchedKeeps
<1> QED
  BY <1>2, <1>3, <1>4

(* Every step.                                                             *)
LEMMA NextOpens ==
  ASSUME IInv, OpenInv, [Next]_vars
  PROVE  OpenStore'
<1>1. OpenStore
  BY DEF OpenInv
<1>2. CASE UNCHANGED vars
  <2>1. Untouched
    BY <1>2 DEF vars, fsvars, ghosts, counters, Untouched
  <2> QED
    BY <1>1, <2>1, UntouchedKeeps
<1>3. CASE PowerLoss
  <2>1. losses' # 0
    BY <1>3 DEF IInv, TypeOK, PowerLoss
  <2> QED
    BY <2>1 DEF OpenStore
<1>4. ASSUME NEW p \in Procs, Step(p) PROVE OpenStore'
  <2>1. CASE ValidateExisting(p) \/ ReadSnapshot(p) \/ RefuseStore(p)
    <3>1. Untouched
      BY <2>1 DEF ValidateExisting, ReadSnapshot, RefuseStore, Untouched, fsvars, ghosts,
                  counters
    <3> QED
      BY <1>1, <3>1, UntouchedKeeps
  <2> QED
    BY <1>4, <2>1, InitializationOpens, PublicationOpens DEF Step
<1>5. ASSUME NEW p \in Procs, Call(p) PROVE OpenStore'
  <2>1. CASE \E b \in Bindings : CreateRoot(p, b)
    BY <1>1, <2>1, DirectoriesKeep
  <2>2. CASE ~\E b \in Bindings : CreateRoot(p, b)
    <3>1. Untouched
      BY <1>5, <2>2 DEF Call, OpenExisting, BeginPublication, LockRead, RefuseLock, Close,
                        Untouched, fsvars, ghosts, counters
    <3> QED
      BY <1>1, <3>1, UntouchedKeeps
  <2> QED
    BY <2>1, <2>2
<1>6. ASSUME NEW p \in Procs, Failure(p) PROVE OpenStore'
  <2>1. Untouched
    BY <1>6 DEF Failure, FailBeforeSelection, FailStore, FailSyncRoot, FailObserve, Kill,
                Fault, Untouched, fsvars, ghosts, counters
  <2> QED
    BY <1>1, <2>1, UntouchedKeeps
<1> QED
  BY <1>2, <1>3, <1>4, <1>5, <1>6 DEF Next

-----------------------------------------------------------------------------
(* What a client is about to select.                                       *)

(* A step may leave p where it was, take it out of these steps, or bring   *)
(* it in with the empty snapshot or a handle.                              *)
LEMMA FreshKept ==
  ASSUME NEW p \in Procs, FreshNext(p),
         \/ pc'[p] \notin BeforeSelection
         \/ root_descriptor'[p]
         \/ next'[p] = Empty(target_binding'[p])
         \/ /\ pc[p] \in BeforeSelection /\ root_descriptor'[p] = root_descriptor[p]
            /\ next'[p] = next[p] /\ target_binding'[p] = target_binding[p]
  PROVE  FreshNext(p)'
  BY DEF FreshNext

(* The variables of a client stay as they are.                             *)
Undisturbed(p) ==
    /\ pc'[p] = pc[p] /\ target_binding'[p] = target_binding[p]
    /\ root_descriptor'[p] = root_descriptor[p] /\ outcome'[p] = outcome[p]
    /\ seen'[p] = seen[p] /\ next'[p] = next[p]

(* A client's step does not disturb another client.                        *)
LEMMA ClientFrame ==
  ASSUME TypeOK, NEW q \in Procs, Step(q) \/ Call(q) \/ Failure(q), NEW p \in Procs \ {q}
  PROVE  Undisturbed(p)
<1> USE DEF TypeOK, Undisturbed, Goto, Return, Throw, handle, locals
<1>1. CASE Initialization(q)
  <2>1. CASE RetainAuthority(q)
    BY <2>1 DEF RetainAuthority
  <2>2. CASE LockInitialization(q) \/ EnsureLayout(q) \/ InspectLayout(q)
    BY <2>2 DEF LockInitialization, EnsureLayout, InspectLayout
  <2>3. CASE WriteBinding(q) \/ SealBinding(q) \/ SelectBinding(q) \/ SyncBinding(q)
    BY <2>3 DEF WriteBinding, SealBinding, WriteTemporary, SealTemporary, SelectBinding,
       SyncBinding
  <2>4. CASE RereadAdmitted(q) \/ SyncLayout(q)
    BY <2>4 DEF RereadAdmitted, SyncLayout
  <2> QED
    BY <1>1, <2>1, <2>2, <2>3, <2>4 DEF Initialization
<1>2. CASE Publication(q)
  BY <1>2 DEF Publication, CompareExpected, EnsureGeneration, WriteGeneration,
     SealGeneration, InstallGeneration, SyncGenerations, WriteSelector, SealSelector,
     WriteTemporary, SealTemporary, SelectGeneration, SyncRoot, Observe
<1>3. CASE ValidateExisting(q) \/ ReadSnapshot(q) \/ RefuseStore(q)
  BY <1>3 DEF ValidateExisting, ReadSnapshot, RefuseStore
<1>4. CASE Call(q)
  <2>1. ASSUME NEW b \in Bindings, CreateRoot(q, b) \/ OpenExisting(q, b) PROVE Undisturbed(p)
    <3>1. CASE CreateRoot(q, b)
      BY <3>1 DEF CreateRoot
    <3>2. CASE OpenExisting(q, b)
      BY <3>2 DEF OpenExisting
    <3> QED
      BY <2>1, <3>1, <3>2
  <2>2. ASSUME NEW c \in Contents, BeginPublication(q, c) PROVE Undisturbed(p)
    BY <2>2 DEF BeginPublication
  <2>3. CASE LockRead(q) \/ RefuseLock(q)
    BY <2>3 DEF LockRead, RefuseLock
  <2>4. CASE Close(q)
    BY <2>4 DEF Close
  <2> QED
    BY <1>4, <2>1, <2>2, <2>3, <2>4 DEF Call
<1>5. CASE Failure(q)
  <2>1. CASE FailBeforeSelection(q) \/ FailStore(q)
    BY <2>1 DEF FailBeforeSelection, FailStore
  <2>2. CASE FailSyncRoot(q) \/ FailObserve(q)
    BY <2>2 DEF FailSyncRoot, FailObserve
  <2>3. CASE Kill(q)
    BY <2>3 DEF Kill
  <2> QED
    BY <1>5, <2>1, <2>2, <2>3 DEF Failure
<1> QED
  BY <1>1, <1>2, <1>3, <1>4, <1>5 DEF Step

LEMMA NextFresh ==
  ASSUME IInv, OpenInv, [Next]_vars, NEW q \in Procs
  PROVE  FreshNext(q)'
<1> USE DEF BeforeSelection
<1>1. FreshNext(q) /\ TypeOK /\ ClientInv(q)
  BY DEF OpenInv, IInv
<1>2. CASE UNCHANGED vars
  BY <1>1, <1>2 DEF vars, handle, locals, FreshNext
<1>3. CASE PowerLoss
  BY <1>3 DEF PowerLoss, FreshNext
<1>4. ASSUME NEW p \in Procs, Step(p) \/ Call(p) \/ Failure(p), p # q PROVE FreshNext(q)'
  <2>1. /\ pc'[q] = pc[q] /\ root_descriptor'[q] = root_descriptor[q]
        /\ next'[q] = next[q] /\ target_binding'[q] = target_binding[q]
    BY <1>1, <1>4, ClientFrame DEF Undisturbed
  <2> QED
    BY <1>1, <2>1 DEF FreshNext
<1>5. CASE Initialization(q)
  <2> USE <1>1 DEF TypeOK
  <2>1. CASE InspectLayout(q)
    BY <2>1, FreshKept DEF InspectLayout, handle
  <2>2. CASE ~InspectLayout(q)
    <3>1. pc'[q] \notin BeforeSelection
      <4>1. CASE \/ LockInitialization(q) \/ EnsureLayout(q) \/ SelectBinding(q)
                 \/ SyncBinding(q) \/ RereadAdmitted(q) \/ SyncLayout(q)
        <5>1. CASE LockInitialization(q) \/ EnsureLayout(q) \/ SelectBinding(q)
          BY <5>1 DEF LockInitialization, EnsureLayout, SelectBinding, Goto
        <5>2. CASE SyncBinding(q) \/ RereadAdmitted(q) \/ SyncLayout(q)
          BY <5>2 DEF SyncBinding, RereadAdmitted, SyncLayout, Goto
        <5> QED
          BY <4>1, <5>1, <5>2
      <4>2. CASE WriteBinding(q) \/ SealBinding(q)
        BY <4>2 DEF WriteBinding, WriteTemporary, SealBinding, SealTemporary, Goto
      <4>3. CASE RetainAuthority(q)
        BY <4>3 DEF RetainAuthority, Return
      <4> QED
        BY <1>5, <2>2, <4>1, <4>2, <4>3 DEF Initialization
    <3> QED
      BY <3>1, FreshKept
  <2> QED
    BY <2>1, <2>2
<1>6. CASE Publication(q)
  <2> USE <1>1 DEF TypeOK
  <2>1. CASE CompareExpected(q)
    <3>1. root_descriptor'[q]
      BY <2>1 DEF CompareExpected, ClientInv, handle
    <3> QED
      BY <3>1, FreshKept
  <2>2. CASE SelectGeneration(q) \/ SyncRoot(q) \/ Observe(q)
    <3>1. pc'[q] \notin BeforeSelection
      BY <2>2 DEF SelectGeneration, SyncRoot, Observe, Goto, Return
    <3> QED
      BY <3>1, FreshKept
  <2>3. CASE \/ EnsureGeneration(q) \/ WriteGeneration(q) \/ SealGeneration(q)
             \/ InstallGeneration(q) \/ SyncGenerations(q) \/ WriteSelector(q)
             \/ SealSelector(q)
    <3>1. /\ pc[q] \in BeforeSelection /\ root_descriptor'[q] = root_descriptor[q]
          /\ next'[q] = next[q] /\ target_binding'[q] = target_binding[q]
      BY <2>3 DEF EnsureGeneration, WriteGeneration, WriteTemporary, SealGeneration,
           SealTemporary, InstallGeneration, SyncGenerations, WriteSelector, SealSelector,
           Goto, handle, locals
    <3> QED
      BY <3>1, FreshKept
  <2> QED
    BY <1>6, <2>1, <2>2, <2>3 DEF Publication
<1>7. CASE ValidateExisting(q) \/ ReadSnapshot(q) \/ RefuseStore(q) \/ Call(q) \/ Failure(q)
  <2>1. pc'[q] \notin BeforeSelection
    <3> USE <1>1 DEF TypeOK, Goto, Return, Throw
    <3>1. CASE ValidateExisting(q) \/ ReadSnapshot(q) \/ RefuseStore(q)
      BY <3>1 DEF ValidateExisting, ReadSnapshot, RefuseStore
    <3>2. CASE Call(q)
      <4>1. CASE \/ \E b \in Bindings : CreateRoot(q, b) \/ OpenExisting(q, b)
                 \/ \E c \in Contents : BeginPublication(q, c)
        <5>1. CASE \E b \in Bindings : CreateRoot(q, b)
          BY <5>1 DEF CreateRoot
        <5>2. CASE \E b \in Bindings : OpenExisting(q, b)
          BY <5>2 DEF OpenExisting
        <5>3. CASE \E c \in Contents : BeginPublication(q, c)
          BY <5>3 DEF BeginPublication
        <5> QED
          BY <4>1, <5>1, <5>2, <5>3
      <4>2. CASE LockRead(q) \/ RefuseLock(q) \/ Close(q)
        BY <4>2 DEF LockRead, RefuseLock, Close
      <4> QED
        BY <3>2, <4>1, <4>2 DEF Call
    <3>3. CASE Failure(q)
      BY <3>3 DEF Failure, FailBeforeSelection, FailStore, FailSyncRoot, FailObserve, Kill
    <3> QED
      BY <1>7, <3>1, <3>2, <3>3
  <2> QED
    BY <1>1, <2>1, FreshKept
<1> QED
  BY <1>2, <1>3, <1>4, <1>5, <1>6, <1>7 DEF Next, Step

-----------------------------------------------------------------------------

LEMMA NextOpen == IInv /\ OpenInv /\ [Next]_vars => OpenInv'
  BY NextOpens, NextFresh DEF OpenInv

LEMMA InvOpens == IInv /\ OpenInv => StoreOpens
<1> SUFFICES ASSUME IInv, OpenInv, losses = 0,
                    ~(dir.binding = Nil /\ dir.current = Nil)
             PROVE  \E b \in Bindings :
                      /\ Legible(dir, gens, b)
                      /\ dir.binding = b \/ (dir.binding = Nil /\ dir.current.value = Empty(b))
  BY DEF StoreOpens
<1> DEFINE last == history[Len(history)]
<1>1. HistoryInv /\ TargetInv /\ TypeOK /\ OpenStore
  BY DEF IInv, OpenInv
<1>2. history # <<>>
  BY <1>1 DEF OpenStore, HistoryInv
<1>3. /\ dir.current # Nil /\ dir.current.value = last /\ dir.generations /\ Intact
  BY <1>1, <1>2 DEF HistoryInv, OpenStore
<1>4. Len(history) \in 1..Len(history) /\ last \in Snapshots
  BY <1>1, <1>2, EmptySeq, LenProperties DEF TypeOK
<1>5. gens[last] = "sealed" /\ last.target \in Bindings
  BY <1>3, <1>4 DEF Intact, Whole, Snapshots
<1>6. Legible(dir, gens, last.target)
  BY <1>3, <1>4, <1>5 DEF Legible
<1>7. dir.binding = last.target \/ (dir.binding = Nil /\ last = Empty(last.target))
  <2>1. CASE dir.binding = Nil
    BY <1>1, <1>2, <2>1 DEF OpenStore
  <2>2. CASE dir.binding # Nil
    <3>1. history[1].target = dir.binding
      BY <1>1, <1>2, <2>2 DEF TargetInv
    <3>2. last.target = history[1].target
      BY <1>1, <1>4 DEF TargetInv
    <3> QED
      BY <3>1, <3>2
  <2> QED
    BY <2>1, <2>2
<1> QED
  BY <1>3, <1>5, <1>6, <1>7

(* A store that saw kills and failures, but no power loss, in any number   *)
(* and at any step, reads, or is one that its constructor can finish.      *)
THEOREM StoreNeverStuck == Spec => []StoreOpens
<1>1. Init => OpenInv
  BY InitOpen
<1>2. IInv /\ OpenInv /\ [Next]_vars => OpenInv'
  BY NextOpen
<1>3. IInv /\ OpenInv => StoreOpens
  BY InvOpens
<1> QED
  BY <1>1, <1>2, <1>3, Invariance, PTL DEF Spec


-----------------------------------------------------------------------------
(* Calls go forward.                                                       *)

LEMMA Ways ==
  /\ Way["idle"] = 0 /\ Way["open_validate"] = 1 /\ Way["read"] = 1
  /\ Way["init_lock"] = 19 /\ Way["init_layout"] = 18 /\ Way["init_inspect"] = 17
  /\ Way["compare"] = 17 /\ Way["ensure"] = 16
  /\ Way["write_generation"] = 15 /\ Way["seal_generation"] = 14 /\ Way["install"] = 13
  /\ Way["sync_generations"] = 12 /\ Way["write_selector"] = 11 /\ Way["seal_selector"] = 10
  /\ Way["select"] = 9 /\ Way["sync_root"] = 8 /\ Way["observe"] = 7
  /\ Way["write_binding"] = 7 /\ Way["seal_binding"] = 6 /\ Way["select_binding"] = 5
  /\ Way["sync_binding"] = 4 /\ Way["init_reread"] = 3 /\ Way["init_sync"] = 2
  /\ Way["init_retain"] = 1
  BY DEF Way

LEMMA WayBack ==
  ASSUME NEW at \in PCs \ {"idle"}
  PROVE  Way[at] \in Nat /\ Way["idle"] < Way[at]
<1>1. CASE at \in Shared \cup {"init_lock"} \cup BindingSteps
  BY <1>1, Ways DEF Shared, BindingSteps
<1>2. CASE at \in BeforeSelection
  BY <1>2, Ways DEF BeforeSelection
<1>3. CASE at \in {"init_layout", "init_inspect", "init_reread", "init_sync", "init_retain",
                   "compare", "sync_root", "observe"}
  BY <1>3, Ways
<1> QED
  BY <1>1, <1>2, <1>3 DEF PCs, Exclusive

(* A step of a call leaves a shorter way.                                  *)
LEMMA StepAdvances ==
  ASSUME TypeOK, NEW p \in Procs, Step(p)
  PROVE  Way[pc'[p]] < Way[pc[p]]
<1>0. pc \in [Procs -> PCs]
  BY DEF TypeOK
<1>1. ASSUME NEW from \in PCs \ {"idle"}, NEW answer, pc[p] = from, Return(p, answer)
      PROVE  Way[pc'[p]] < Way[pc[p]]
  BY <1>0, <1>1, WayBack DEF Return
<1>2. CASE Initialization(p)
  <2>1. CASE LockInitialization(p) \/ EnsureLayout(p)
    <3>1. \/ pc[p] = "init_lock" /\ pc'[p] = "init_layout"
          \/ pc[p] = "init_layout" /\ pc'[p] = "init_inspect"
      BY <1>0, <2>1 DEF LockInitialization, EnsureLayout, Goto
    <3> QED
      BY <3>1, Ways
  <2>2. CASE InspectLayout(p)
    <3>1. pc[p] = "init_inspect" /\ pc'[p] \in {"init_sync", "ensure", "write_binding"}
      BY <1>0, <2>2 DEF InspectLayout
    <3> QED
      BY <3>1, Ways
  <2>3. CASE WriteBinding(p) \/ SealBinding(p) \/ SelectBinding(p) \/ SyncBinding(p)
    <3>1. \/ pc[p] = "write_binding" /\ pc'[p] = "seal_binding"
          \/ pc[p] = "seal_binding" /\ pc'[p] = "select_binding"
          \/ pc[p] = "select_binding" /\ pc'[p] = "sync_binding"
          \/ pc[p] = "sync_binding" /\ pc'[p] = "init_reread"
      BY <1>0, <2>3 DEF WriteBinding, SealBinding, WriteTemporary, SealTemporary,
         SelectBinding, SyncBinding, Goto
    <3> QED
      BY <3>1, Ways
  <2>4. CASE RereadAdmitted(p) \/ SyncLayout(p)
    <3>1. \/ pc[p] = "init_reread" /\ pc'[p] = "init_sync"
          \/ pc[p] = "init_sync" /\ pc'[p] = "init_retain"
      BY <1>0, <2>4 DEF RereadAdmitted, SyncLayout, Goto
    <3> QED
      BY <3>1, Ways
  <2>5. CASE RetainAuthority(p)
    BY <1>1, <2>5 DEF RetainAuthority, PCs, Exclusive
  <2> QED
    BY <1>2, <2>1, <2>2, <2>3, <2>4, <2>5 DEF Initialization
<1>3. CASE Publication(p)
  <2>1. CASE CompareExpected(p)
    <3>1. CASE pc' = [pc EXCEPT ![p] = "ensure"]
      BY <1>0, <2>1, <3>1, Ways DEF CompareExpected
    <3>2. CASE Return(p, "stale")
      BY <1>1, <2>1, <3>2 DEF CompareExpected, PCs, Exclusive
    <3> QED
      BY <2>1, <3>1, <3>2 DEF CompareExpected
  <2>2. CASE EnsureGeneration(p) \/ SyncRoot(p)
    <3>1. \/ pc[p] = "ensure" /\ pc'[p] \in {"sync_generations", "write_generation"}
          \/ pc[p] = "sync_root" /\ pc'[p] \in {"observe", "write_binding"}
      BY <1>0, <2>2 DEF EnsureGeneration, SyncRoot
    <3> QED
      BY <3>1, Ways
  <2>3. CASE WriteGeneration(p) \/ SealGeneration(p) \/ WriteSelector(p) \/ SealSelector(p)
    BY <1>0, <2>3, Ways DEF WriteGeneration, SealGeneration, WriteSelector, SealSelector,
       WriteTemporary, SealTemporary, Goto
  <2>4. CASE InstallGeneration(p) \/ SyncGenerations(p) \/ SelectGeneration(p)
    BY <1>0, <2>4, Ways DEF InstallGeneration, SyncGenerations, SelectGeneration, Goto
  <2>5. CASE Observe(p)
    BY <1>1, <2>5 DEF Observe, PCs, Exclusive
  <2> QED
    BY <1>3, <2>1, <2>2, <2>3, <2>4, <2>5 DEF Publication
<1>4. CASE ValidateExisting(p) \/ ReadSnapshot(p)
  BY <1>1, <1>4 DEF ValidateExisting, ReadSnapshot, PCs, Shared
<1>5. CASE RefuseStore(p)
  <2>1. pc[p] \in PCs \ {"idle"}
    BY <1>0, <1>5 DEF RefuseStore, Acceptable
  <2> QED
    BY <1>1, <1>5, <2>1 DEF RefuseStore, Throw
<1> QED
  BY <1>2, <1>3, <1>4, <1>5 DEF Step

(* Nothing sets a call back: a failure ends it or lets it go on, and the   *)
(* steps of others do not move it.                                         *)
LEMMA NothingSetsBack ==
  ASSUME TypeOK, TypeOK', [Next]_vars, NEW p \in Procs, pc[p] # "idle"
  PROVE  Way[pc'[p]] <= Way[pc[p]]
<1>0. /\ pc[p] \in PCs \ {"idle"} /\ pc'[p] \in PCs
      /\ pc \in [Procs -> PCs]
  BY DEF TypeOK
<1>1. Way[pc[p]] \in Nat /\ Way[pc'[p]] \in Nat /\ Way["idle"] < Way[pc[p]]
  BY <1>0, WayBack, Ways
<1>2. CASE pc'[p] = pc[p] \/ pc'[p] = "idle"
  BY <1>1, <1>2, Ways
<1>3. CASE Step(p)
  BY <1>1, <1>3, StepAdvances
<1>4. CASE Failure(p)
  <2>1. CASE FailSyncRoot(p)
    BY <1>0, <2>1, Ways DEF FailSyncRoot, Goto
  <2>2. CASE ~FailSyncRoot(p)
    <3>1. pc'[p] = "idle"
      BY <1>0, <1>4, <2>2 DEF Failure, FailBeforeSelection, FailStore, FailObserve, Kill,
         Throw, Return
    <3> QED
      BY <1>2, <3>1
  <2> QED
    BY <2>1, <2>2
<1>5. CASE Call(p)
  BY <1>2, <1>5 DEF Call, CreateRoot, OpenExisting, BeginPublication, LockRead, RefuseLock,
     Close, Goto
<1>6. ASSUME NEW q \in Procs \ {p}, Step(q) \/ Call(q) \/ Failure(q)
      PROVE  pc'[p] = pc[p]
  BY <1>6, ClientFrame DEF Undisturbed
<1>7. CASE PowerLoss
  BY <1>2, <1>7 DEF PowerLoss
<1>8. CASE UNCHANGED vars
  BY <1>2, <1>8 DEF vars
<1> QED
  BY <1>2, <1>3, <1>4, <1>5, <1>6, <1>7, <1>8 DEF Next

(* Every call takes a bounded number of steps, in any company: it has no   *)
(* loop in which kills, errors or other clients could hold it. With        *)
(* InstallsUnderFreeName, no step of it waits either.                      *)
THEOREM CallsGoForward == Spec => CallsAdvance
<1>1. IInv /\ IInv' /\ [Next]_vars
        => [\A p \in Procs : pc[p] # "idle" =>
              /\ Way[pc'[p]] <= Way[pc[p]]
              /\ Step(p) => Way[pc'[p]] < Way[pc[p]]]_vars
  BY NothingSetsBack, StepAdvances DEF IInv
<1> QED
  BY <1>1, Invariance, PTL DEF Spec, CallsAdvance

(* A generation is renamed to a name that is still free, for any number of *)
(* clients: in between, only one of them is under the exclusive lock.      *)
THEOREM NamesStayFree == Spec => []InstallsUnderFreeName
<1>1. IInv => InstallsUnderFreeName
  BY DEF IInv, ClientInv, InstallsUnderFreeName
<1> QED
  BY <1>1, Invariance, PTL
=============================================================================
