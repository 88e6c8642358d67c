---------------------------- MODULE StoreToolsProofs ----------------------------
(***************************************************************************)
(* What pkgstate-init reports stays true: the tools only take steps of the *)
(* store, so its invariant holds beside them, and what it says of confirmed *)
(* stores makes their success final.                                       *)
(***************************************************************************)
EXTENDS StoreTools, GenerationStoreProofs

(* A confirmed store stays confirmed and bound.                            *)
Lasting == confirmed > 0 => confirmed' > 0 /\ dir'.binding = dir.binding

-----------------------------------------------------------------------------
(* Steps of the store.                                                     *)

(* A step inside a call: handles are gained only with a confirmed store.   *)
LEMMA OwnStep ==
  ASSUME IInv, NEW p \in Procs, pc[p] # "open_validate", Step(p)
  PROVE  /\ pc[p] # "idle" /\ pc'[p] # "open_validate"
         /\ \/ target_binding'[p] = target_binding[p]
            \/ pc'[p] = "idle" /\ ~root_descriptor'[p]
         /\ root_descriptor[p] => root_descriptor'[p]
         /\ root_descriptor'[p] => root_descriptor[p] \/ confirmed' > 0
         /\ outcome'[p] = "read" => outcome[p] = "read" \/ root_descriptor'[p]
<1>1. TypeOK /\ ClientInv(p)
  BY DEF IInv
<1>2. CASE RetainAuthority(p)
  <2>1. confirmed' = dir.current.ver /\ pc[p] = "init_retain"
    BY <1>2 DEF RetainAuthority
  <2>2. Alive
    BY <1>1, <2>1 DEF ClientInv
  <2>3. confirmed' > 0
    BY <1>1, <2>1, <2>2, HistoryFacts DEF IInv, Alive
  <2> QED
    BY <1>1, <1>2, <2>1, <2>3 DEF TypeOK, RetainAuthority, Return
<1>3. CASE Initialization(p) /\ ~RetainAuthority(p)
  BY <1>1, <1>3 DEF TypeOK, Goto, handle, Initialization, LockInitialization, EnsureLayout,
     InspectLayout, WriteBinding, SealBinding, WriteTemporary, SealTemporary, SelectBinding,
     SyncBinding, RereadAdmitted, SyncLayout
<1>4. CASE Publication(p)
  <2>1. CASE CompareExpected(p)
    BY <1>1, <2>1 DEF TypeOK, CompareExpected, Return, handle
  <2>2. CASE Observe(p)
    <3>1. Receipt(p) # "read"
      BY DEF Receipt
    <3> QED
      BY <1>1, <2>2, <3>1 DEF TypeOK, Observe, Return, handle
  <2>3. CASE Publication(p) /\ ~CompareExpected(p) /\ ~Observe(p)
    BY <1>1, <2>3 DEF TypeOK, Goto, handle, Publication, EnsureGeneration, WriteGeneration,
       SealGeneration, InstallGeneration, SyncGenerations, WriteSelector, SealSelector,
       WriteTemporary, SealTemporary, SelectGeneration, SyncRoot
  <2> QED
    BY <1>4, <2>1, <2>2, <2>3
<1>5. CASE ReadSnapshot(p)
  BY <1>1, <1>5 DEF TypeOK, ClientInv, ReadSnapshot, Return
<1>6. CASE RefuseStore(p)
  <2>1. pc[p] # "idle"
    BY <1>6 DEF RefuseStore, Acceptable
  <2> QED
    BY <1>1, <1>6, <2>1 DEF TypeOK, RefuseStore, Throw, Return
<1>7. ~ValidateExisting(p)
  BY DEF ValidateExisting
<1> QED
  BY <1>2, <1>3, <1>4, <1>5, <1>6, <1>7 DEF Step

(* The binding of a confirmed store is never written again, and a client   *)
(* that confirms does so for a store that selects something.               *)
LEMMA StoreLasts ==
  ASSUME DurableRoot, IInv, [Next]_vars PROVE Lasting
<1> SUFFICES ASSUME confirmed > 0 PROVE confirmed' > 0 /\ dir'.binding = dir.binding
  BY DEF Lasting
<1>1. TypeOK /\ Alive /\ disk.binding = {dir.binding}
  BY RootStays DEF IInv, DurableInv
<1>2. Len(history) > 0 /\ dir.current.ver = Len(history)
  BY <1>1, HistoryFacts DEF Alive
<1>3. ASSUME UNCHANGED <<dir, confirmed>> PROVE confirmed' > 0 /\ dir'.binding = dir.binding
  BY <1>3
<1>4. CASE PowerLoss
  <2>1. confirmed' = confirmed
    BY <1>4 DEF PowerLoss
  <2>2. PICK g \in disk.generations, c \in disk.current :
          dir' = Image(TRUE, g, c, dir.binding)
    BY <1>1, <1>4, RootStays DEF PowerLoss, IInv, LinkInv
  <2> QED
    BY <2>1, <2>2 DEF Image
<1>5. ASSUME NEW p \in Procs, Initialization(p)
      PROVE  confirmed' > 0 /\ dir'.binding = dir.binding
  <2>1. CASE RetainAuthority(p)
    BY <1>2, <2>1 DEF RetainAuthority, fsvars
  <2>2. ~SelectBinding(p)
    BY <1>1, NilAssumption DEF SelectBinding, Goto, IInv, ClientInv, Founded, Alive
  <2>3. CASE EnsureLayout(p)
    BY <1>1, <2>3 DEF EnsureLayout, TypeOK, ghosts
  <2> QED
    BY <1>3, <1>5, <2>1, <2>2, <2>3 DEF Initialization, LockInitialization, InspectLayout,
       WriteBinding, SealBinding, WriteTemporary, SealTemporary, SyncBinding, RereadAdmitted,
       SyncLayout, fsvars, ghosts
<1>6. ASSUME NEW p \in Procs, Publication(p)
      PROVE  confirmed' > 0 /\ dir'.binding = dir.binding
  <2>1. CASE SelectGeneration(p)
    BY <1>1, <2>1 DEF SelectGeneration, TypeOK
  <2>2. CASE Observe(p)
    BY <1>2, <2>2 DEF Observe, fsvars
  <2> QED
    BY <1>3, <1>6, <2>1, <2>2 DEF Publication, CompareExpected, EnsureGeneration,
       WriteGeneration, SealGeneration, InstallGeneration, SyncGenerations, WriteSelector,
       SealSelector, WriteTemporary, SealTemporary, SyncRoot, fsvars, ghosts
<1>7. ASSUME NEW p \in Procs, Step(p) PROVE confirmed' > 0 /\ dir'.binding = dir.binding
  BY <1>3, <1>5, <1>6, <1>7 DEF Step, ValidateExisting, ReadSnapshot, RefuseStore, fsvars, ghosts
<1>8. ASSUME NEW p \in Procs, Call(p) PROVE confirmed' > 0 /\ dir'.binding = dir.binding
  <2>1. ASSUME NEW b \in Bindings, CreateRoot(p, b)
        PROVE  confirmed' > 0 /\ dir'.binding = dir.binding
    BY <1>1, <2>1 DEF CreateRoot, TypeOK, ghosts
  <2> QED
    BY <1>3, <1>8, <2>1 DEF Call, OpenExisting, BeginPublication, LockRead, RefuseLock, Close,
       fsvars, ghosts
<1>9. ASSUME NEW p \in Procs, Failure(p) PROVE confirmed' > 0 /\ dir'.binding = dir.binding
  BY <1>3, <1>9 DEF Failure, FailBeforeSelection, FailStore, FailSyncRoot, FailObserve, Kill,
     fsvars, ghosts
<1>10. CASE UNCHANGED vars
  BY <1>3, <1>10 DEF vars, fsvars, ghosts
<1> QED
  BY <1>4, <1>7, <1>8, <1>9, <1>10 DEF Next

-----------------------------------------------------------------------------
(* Steps of the tools.                                                     *)

(* The tools add nothing to what a client of the store may do.             *)
LEMMA ToolsAreClients ==
  ASSUME ToolTypeOK, [ToolNext]_<<vars, toolvars>> PROVE [Next]_vars
<1>1. ASSUME NEW p \in Tools PROVE p \in Procs
  BY <1>1, ToolsAssumption
<1>2. ASSUME NEW p \in Tools, InitConstructs(p) \/ CheckOpens(p) PROVE Next
  <2>1. argument[p] \in Bindings
    BY <1>2 DEF ToolTypeOK, InitConstructs, CheckOpens, Running
  <2> QED
    BY <1>1, <1>2, <2>1 DEF InitConstructs, CheckOpens, Next, Call
<1>3. ASSUME NEW p \in Tools, ReadState(p) PROVE Next
  BY <1>1, <1>3 DEF ReadState, Next, Call
<1>4. ASSUME NEW p \in Tools, Exit(p) PROVE [Next]_vars
  BY <1>1, <1>4 DEF Exit, Next, Call
<1>5. ASSUME NEW p \in Tools, ToolStep(p) PROVE [Next]_vars
  BY <1>1, <1>2, <1>3, <1>4, <1>5 DEF ToolStep, Next
<1>6. ASSUME NEW p \in Tools, ToolFails(p) \/ ToolKilled(p) PROVE Next
  BY <1>1, <1>6 DEF ToolFails, ToolKilled, Next, Call, Failure
<1>7. CASE Blackout \/ UNCHANGED <<vars, toolvars>>
  BY <1>7 DEF Blackout, Next
<1> QED
  BY <1>1, <1>5, <1>6, <1>7 DEF ToolNext, Begin, Next

(* The type invariant of the tools' variables.                             *)
LEMMA ToolTypes ==
  ASSUME ToolTypeOK, [ToolNext]_<<vars, toolvars>> PROVE ToolTypeOK'
<1> USE DEF ToolTypeOK, Running, toolvars
<1>1. ASSUME NEW p \in Tools, ToolStep(p) PROVE ToolTypeOK'
  BY <1>1 DEF ToolStep, InitConstructs, CheckOpens, ReadState, Exit, ExitStatus
<1>2. ASSUME NEW p \in Tools, ToolFails(p) \/ ToolKilled(p) PROVE ToolTypeOK'
  BY <1>2 DEF ToolFails, ToolKilled
<1>3. ASSUME NEW p \in Tools, NEW b \in Bindings, Begin(p, b) PROVE ToolTypeOK'
  <2>1. Admitted(dir, gens, b) \in BOOLEAN
    BY DEF Admitted, Legible
  <2> QED
    BY <1>3, <2>1 DEF Begin
<1>4. CASE Blackout
  BY <1>4 DEF Blackout
<1>5. CASE UNCHANGED toolvars
  BY <1>5
<1> QED
  BY <1>1, <1>2, <1>3, <1>4, <1>5 DEF ToolNext

(* A step of another client, or of the other tools.                        *)
LEMMA OtherSteps ==
  ASSUME TypeOK, Lasting, ToolInv, NEW p \in Inits,
         Undisturbed(p), status'[p] = status[p], argument'[p] = argument[p]
  PROVE  ToolInvOf(p)'
  BY DEF ToolInv, ToolInvOf, Lasting, Undisturbed

(* A tool's step is a client's, ...                                        *)
LEMMA ToolsSteps ==
  ASSUME ToolTypeOK, NEW q \in Tools, ToolStep(q) \/ ToolFails(q) \/ ToolKilled(q)
  PROVE  Step(q) \/ Call(q) \/ Failure(q) \/ UNCHANGED vars
<1>1. CASE InitConstructs(q) \/ CheckOpens(q)
  <2>1. argument[q] \in Bindings
    BY <1>1 DEF ToolTypeOK, InitConstructs, CheckOpens, Running
  <2> QED
    BY <1>1, <2>1 DEF InitConstructs, CheckOpens, Call
<1>2. CASE ReadState(q) \/ Exit(q)
  BY <1>2 DEF ReadState, Exit, Call
<1>3. CASE ToolFails(q) \/ ToolKilled(q)
  BY <1>3 DEF ToolFails, ToolKilled, Call, Failure
<1> QED
  BY <1>1, <1>2, <1>3 DEF ToolStep

(* ... and touches no other tool's variables.                              *)
LEMMA ToolFrame ==
  ASSUME TypeOK, ToolTypeOK, NEW q \in Tools, ToolStep(q) \/ ToolFails(q) \/ ToolKilled(q),
         NEW p \in Tools, p # q
  PROVE  Undisturbed(p) /\ status'[p] = status[p] /\ argument'[p] = argument[p]
<1>1. p \in Procs \ {q} /\ q \in Procs
  BY ToolsAssumption DEF Tools
<1>2. status'[p] = status[p] /\ argument'[p] = argument[p]
  BY <1>1 DEF ToolTypeOK, ToolStep, InitConstructs, CheckOpens, ReadState, Exit, ToolFails, ToolKilled,
     toolvars
<1>3. Step(q) \/ Call(q) \/ Failure(q) \/ UNCHANGED vars
  BY ToolsSteps
<1>4. CASE UNCHANGED vars
  BY <1>2, <1>4 DEF Undisturbed, vars, handle, locals
<1> QED
  BY <1>1, <1>2, <1>3, <1>4, ClientFrame

(* The tool's own steps.                                                   *)
LEMMA OwnToolStep ==
  ASSUME IInv, Lasting, ToolTypeOK, ToolInv, NEW p \in Inits, ToolStep(p)
  PROVE  ToolInvOf(p)'
<1>1. p \in Procs /\ p \in Tools /\ p \notin Checks
  BY ToolsAssumption DEF Tools
<1>2. TypeOK /\ ClientInv(p) /\ ToolInvOf(p) /\ status \in [Tools -> {"none", "starting", "running", "0", "1"}]
  BY <1>1 DEF IInv, ToolInv, ToolTypeOK
<1>3. CASE Step(p) /\ UNCHANGED toolvars
  BY <1>1, <1>2, <1>3, OwnStep DEF ToolInvOf, Lasting, toolvars
<1>4. CASE InitConstructs(p)
  <2>1. CreateRoot(p, argument[p]) /\ status'[p] = "running" /\ argument' = argument
    BY <1>1, <1>2, <1>4 DEF InitConstructs
  <2>2. /\ pc'[p] = "init_lock" /\ target_binding'[p] = argument[p]
        /\ root_descriptor'[p] = FALSE /\ outcome'[p] = "none"
    BY <1>1, <1>2, <2>1 DEF CreateRoot, Goto, TypeOK
  <2> QED
    BY <2>1, <2>2 DEF ToolInvOf
<1>5. CASE ReadState(p)
  <2>1. status'[p] = "running" /\ argument' = argument
    BY <1>5 DEF ReadState, toolvars
  <2>2. CASE LockRead(p)
    BY <1>1, <1>2, <2>1, <2>2 DEF LockRead, Goto, TypeOK, handle, ghosts, ToolInvOf
  <2>3. CASE RefuseLock(p)
    BY <1>1, <1>2, <2>1, <2>3 DEF RefuseLock, Throw, Return, TypeOK, ghosts, ToolInvOf
  <2> QED
    BY <1>5, <2>2, <2>3 DEF ReadState
<1>6. CASE Exit(p)
  <2>1. /\ pc[p] = "idle" /\ status' = [status EXCEPT ![p] = ExitStatus(p)]
        /\ argument' = argument /\ outcome[p] \in {"read", "store_error"}
        /\ Close(p) \/ (~root_descriptor[p] /\ UNCHANGED vars)
    BY <1>6 DEF Exit
  <2>2. /\ pc'[p] = "idle" /\ ~root_descriptor'[p] /\ outcome'[p] # "read"
        /\ dir' = dir /\ confirmed' = confirmed
    <3>1. CASE Close(p)
      BY <1>1, <1>2, <2>1, <3>1 DEF Close, TypeOK, fsvars, ghosts
    <3>2. CASE ~root_descriptor[p] /\ UNCHANGED vars
      BY <1>2, <2>1, <3>2 DEF vars, handle, fsvars, ghosts, ToolInvOf
    <3> QED
      BY <2>1, <3>1, <3>2
  <2>3. ASSUME status'[p] = "0" PROVE confirmed > 0 /\ argument[p] = dir.binding
    <3>1. outcome[p] = "read"
      BY <1>1, <1>2, <2>1, <2>3 DEF ExitStatus
    <3> QED
      BY <1>2, <3>1 DEF ToolInvOf, ClientInv
  <2> QED
    BY <2>1, <2>2, <2>3 DEF ToolInvOf
<1>7. ~CheckOpens(p)
  BY <1>1 DEF CheckOpens
<1> QED
  BY <1>3, <1>4, <1>5, <1>6, <1>7 DEF ToolStep

(* The tool is refused by the system or killed.                            *)
LEMMA OwnToolFailure ==
  ASSUME IInv, ToolTypeOK, ToolInv, NEW p \in Inits, ToolFails(p) \/ ToolKilled(p)
  PROVE  ToolInvOf(p)'
<1>1. p \in Procs /\ p \in Tools
  BY ToolsAssumption DEF Tools
<1>2. TypeOK /\ ToolInvOf(p) /\ status \in [Tools -> {"none", "starting", "running", "0", "1"}]
  BY DEF IInv, ToolInv, ToolTypeOK
<1>3. CASE ToolFails(p)
  <2>1. PICK a \in {"failed_before", "store_error"} : Throw(p, a)
    BY <1>3 DEF ToolFails, FailBeforeSelection, FailStore
  <2>2. UNCHANGED <<root_descriptor, ghosts>> /\ status'[p] = "running" /\ argument' = argument
    BY <1>1, <1>2, <1>3 DEF ToolFails, FailBeforeSelection, FailStore
  <2> QED
    BY <1>1, <1>2, <2>1, <2>2 DEF Throw, Return, TypeOK, ghosts, ToolInvOf
<1>4. CASE ToolKilled(p)
  <2>1. status'[p] = "none"
    BY <1>1, <1>2, <1>4 DEF ToolKilled
  <2>2. pc'[p] = "idle" /\ ~root_descriptor'[p] /\ outcome'[p] = "none"
    <3>1. CASE Kill(p)
      BY <1>1, <1>2, <3>1 DEF Kill, Return, TypeOK
    <3>2. CASE Close(p)
      BY <1>1, <1>2, <3>2 DEF Close, TypeOK
    <3> QED
      BY <1>4, <3>1, <3>2 DEF ToolKilled
  <2> QED
    BY <2>1, <2>2 DEF ToolInvOf
<1> QED
  BY <1>3, <1>4

LEMMA ToolInvStep ==
  ASSUME DurableRoot, IInv, ToolTypeOK, ToolInv, [ToolNext]_<<vars, toolvars>>
  PROVE  ToolInv'
<1>1. TypeOK /\ Lasting
  BY ToolsAreClients, StoreLasts DEF IInv
<1>2. SUFFICES ASSUME NEW p \in Inits PROVE ToolInvOf(p)'
  BY DEF ToolInv
<1>3. p \in Tools /\ p \in Procs /\ ToolInvOf(p)
  BY ToolsAssumption DEF Tools, ToolInv
<1>4. ASSUME NEW q \in Tools, ToolStep(q) \/ ToolFails(q) \/ ToolKilled(q)
      PROVE  ToolInvOf(p)'
  <2>1. CASE q = p
    BY <1>1, <1>4, <2>1, OwnToolStep, OwnToolFailure
  <2>2. CASE q # p
    <3>1. Undisturbed(p) /\ status'[p] = status[p] /\ argument'[p] = argument[p]
      BY <1>1, <1>3, <1>4, <2>2, ToolFrame
    <3> QED
      BY <1>1, <3>1, OtherSteps
  <2> QED
    BY <2>1, <2>2
<1>5. ASSUME NEW q \in Tools, NEW b \in Bindings, Begin(q, b) PROVE ToolInvOf(p)'
  <2>1. Undisturbed(p) /\ UNCHANGED <<dir, confirmed>>
    BY <1>5 DEF Begin, Undisturbed, vars, handle, locals, fsvars, ghosts
  <2>2. CASE q = p
    <3>1. pc[p] = "idle" /\ ~root_descriptor[p] /\ status'[p] = "starting"
      BY <1>3, <1>5, <2>2 DEF Begin, Running, ToolInvOf, ToolTypeOK
    <3> QED
      BY <1>3, <2>1, <3>1 DEF ToolInvOf, Undisturbed
  <2>3. CASE q # p
    <3>1. status'[p] = status[p] /\ argument'[p] = argument[p]
      BY <1>3, <1>5, <2>3 DEF Begin, ToolTypeOK
    <3> QED
      BY <1>1, <2>1, <3>1, OtherSteps
  <2> QED
    BY <2>2, <2>3
<1>6. ASSUME NEW q \in Procs \ Tools, Step(q) \/ Call(q) \/ Failure(q), UNCHANGED toolvars
      PROVE  ToolInvOf(p)'
  <2>1. Undisturbed(p)
    BY <1>1, <1>3, <1>6, ClientFrame
  <2> QED
    BY <1>1, <1>6, <2>1, OtherSteps DEF toolvars
<1>7. CASE Blackout
  <2>1. /\ pc'[p] = "idle" /\ ~root_descriptor'[p] /\ outcome'[p] = "none"
        /\ argument' = argument
    BY <1>3, <1>7 DEF Blackout, PowerLoss
  <2>2. status'[p] = "0" => status[p] = "0"
    BY <1>3, <1>7 DEF Blackout
  <2> QED
    BY <1>1, <1>3, <2>1, <2>2 DEF ToolInvOf, Lasting
<1>8. CASE UNCHANGED <<vars, toolvars>>
  BY <1>3, <1>8 DEF vars, handle, fsvars, ghosts, toolvars, ToolInvOf
<1> QED
  BY <1>4, <1>5, <1>6, <1>7, <1>8 DEF ToolNext

-----------------------------------------------------------------------------

(* A store that is bound over a selection is admitted for its binding, ... *)
LEMMA AliveAdmitted ==
  ASSUME IInv, Alive PROVE Admitted(dir, gens, dir.binding)
<1>1. /\ Len(history) \in 1..Len(history) /\ dir.current # Nil
      /\ dir.current.value = history[Len(history)]
  BY HistoryFacts DEF Alive
<1> QED
  BY <1>1, SelectionsWhole DEF Alive, Whole, Admitted, Legible

(* ... and a confirmed one is such a store.                                *)
LEMMA ConfirmedAdmitted ==
  ASSUME DurableRoot, IInv, confirmed > 0 PROVE Admitted(dir, gens, dir.binding)
  BY AliveAdmitted, RootStays DEF IInv, DurableInv

(* The tools keep the store's invariant: they are clients like others.     *)
THEOREM ToolsKeepStore == ToolSpec => [](IInv /\ ToolTypeOK)
<1>1. ToolInit => IInv /\ ToolTypeOK
  BY InitInv DEF ToolInit, ToolTypeOK, Running
<1>2. IInv /\ ToolTypeOK /\ [ToolNext]_<<vars, toolvars>> => (IInv /\ ToolTypeOK)'
  BY ToolsAreClients, NextInv, ToolTypes
<1> QED
  BY <1>1, <1>2, PTL DEF ToolSpec

(* Success of pkgstate-init is final: the store it has initialised is      *)
(* readable for its target from then on, for any number of tools,          *)
(* publishers and failures, power losses too when the root is durable.     *)
THEOREM InitIsFinal == DurableRoot => (ToolSpec => []InitializedForGood)
<1> SUFFICES ASSUME DurableRoot PROVE ToolSpec => []InitializedForGood
  OBVIOUS
<1>1. ToolInit => ToolInv
  BY ToolsAssumption DEF ToolInit, Init, ToolInv, ToolInvOf, Tools
<1>2. IInv /\ ToolTypeOK /\ ToolInv /\ [ToolNext]_<<vars, toolvars>> => ToolInv'
  BY ToolInvStep
<1>3. IInv /\ ToolInv => InitializedForGood
  BY ConfirmedAdmitted DEF ToolInv, ToolInvOf, InitializedForGood
<1> QED
  BY <1>1, <1>2, <1>3, ToolsKeepStore, PTL DEF ToolSpec

-----------------------------------------------------------------------------
(* What pkgstate-init leaves alone.                                        *)

(* It publishes nothing with a handle; without one, it selects only where  *)
(* nothing is selected.                                                    *)
OnlyReads(p) == root_descriptor[p] => pc[p] \in {"idle", "read"}
KeepInv == \A p \in Inits : OnlyReads(p)

(* Nothing but the rename of a selector changes what is selected.          *)
LEMMA SelectionChanges ==
  ASSUME TypeOK, NEW p \in Procs, Step(p) \/ Call(p) \/ Failure(p), ~SelectGeneration(p)
  PROVE  dir'.current = dir.current
<1> USE DEF fsvars, ghosts
<1>1. CASE Initialization(p)
  BY <1>1 DEF Initialization, LockInitialization, EnsureLayout, InspectLayout, WriteBinding,
     SealBinding, WriteTemporary, SealTemporary, SelectBinding, SyncBinding, RereadAdmitted,
     SyncLayout, RetainAuthority, TypeOK
<1>2. CASE Publication(p)
  BY <1>2 DEF Publication, CompareExpected, EnsureGeneration, WriteGeneration, SealGeneration,
     InstallGeneration, SyncGenerations, WriteSelector, SealSelector, WriteTemporary,
     SealTemporary, SyncRoot, Observe
<1>3. CASE ValidateExisting(p) \/ ReadSnapshot(p) \/ RefuseStore(p)
  BY <1>3 DEF ValidateExisting, ReadSnapshot, RefuseStore
<1>4. CASE Call(p)
  BY <1>4 DEF Call, CreateRoot, OpenExisting, BeginPublication, LockRead, RefuseLock, Close, TypeOK
<1>5. CASE Failure(p)
  BY <1>5 DEF Failure, FailBeforeSelection, FailStore, FailSyncRoot, FailObserve, Kill
<1> QED
  BY <1>1, <1>2, <1>3, <1>4, <1>5 DEF Step

(* A call under way that reads goes on to its end and nowhere else.        *)
LEMMA ReadersRead ==
  ASSUME TypeOK, NEW p \in Procs, Step(p), OnlyReads(p) PROVE OnlyReads(p)'
<1> USE DEF TypeOK, OnlyReads, handle
<1>1. CASE RetainAuthority(p) \/ ValidateExisting(p) \/ ReadSnapshot(p)
  BY <1>1 DEF RetainAuthority, ValidateExisting, ReadSnapshot, Return
<1>2. CASE RefuseStore(p)
  BY <1>2 DEF RefuseStore, Throw, Return
<1>3. CASE Initialization(p) /\ ~RetainAuthority(p)
  BY <1>3 DEF Goto, Initialization, LockInitialization, EnsureLayout, InspectLayout,
     WriteBinding, SealBinding, WriteTemporary, SealTemporary, SelectBinding, SyncBinding,
     RereadAdmitted, SyncLayout
<1>4. CASE Publication(p)
  BY <1>4 DEF Goto, Publication, CompareExpected, EnsureGeneration, WriteGeneration,
     SealGeneration, InstallGeneration, SyncGenerations, WriteSelector, SealSelector,
     WriteTemporary, SealTemporary, SelectGeneration, SyncRoot, Observe
<1> QED
  BY <1>1, <1>2, <1>3, <1>4 DEF Step

LEMMA OwnKeepStep ==
  ASSUME TypeOK, ToolTypeOK, NEW p \in Inits, OnlyReads(p),
         ToolStep(p) \/ ToolFails(p) \/ ToolKilled(p)
  PROVE  OnlyReads(p)'
<1>1. p \in Procs /\ p \in Tools /\ p \notin Checks
  BY ToolsAssumption DEF Tools
<1>2. CASE Step(p)
  BY <1>1, <1>2, ReadersRead
<1>3. CASE InitConstructs(p)
  BY <1>1, <1>3 DEF InitConstructs, CreateRoot, OnlyReads
<1>4. CASE ReadState(p)
  BY <1>1, <1>4 DEF ReadState, LockRead, RefuseLock, Throw, Return, Goto, TypeOK, handle, OnlyReads
<1>5. CASE Exit(p)
  BY <1>1, <1>5 DEF Exit, Close, TypeOK, vars, handle, OnlyReads
<1>6. CASE ToolFails(p)
  BY <1>1, <1>6 DEF ToolFails, FailBeforeSelection, FailStore, Throw, Return, TypeOK, OnlyReads
<1>7. CASE ToolKilled(p)
  BY <1>1, <1>7 DEF ToolKilled, Kill, Close, TypeOK, OnlyReads
<1> QED
  BY <1>1, <1>2, <1>3, <1>4, <1>5, <1>6, <1>7 DEF ToolStep, CheckOpens

LEMMA KeepInvStep ==
  ASSUME IInv, ToolTypeOK, KeepInv, [ToolNext]_<<vars, toolvars>> PROVE KeepInv'
<1>1. TypeOK
  BY DEF IInv
<1>2. SUFFICES ASSUME NEW p \in Inits PROVE OnlyReads(p)'
  BY DEF KeepInv
<1>3. p \in Tools /\ p \in Procs /\ OnlyReads(p)
  BY ToolsAssumption DEF Tools, KeepInv
<1>4. ASSUME Undisturbed(p) PROVE OnlyReads(p)'
  BY <1>3, <1>4 DEF Undisturbed, OnlyReads
<1>5. ASSUME NEW q \in Tools, ToolStep(q) \/ ToolFails(q) \/ ToolKilled(q) PROVE OnlyReads(p)'
  BY <1>1, <1>3, <1>4, <1>5, OwnKeepStep, ToolFrame
<1>6. ASSUME NEW q \in Procs \ Tools, Step(q) \/ Call(q) \/ Failure(q) PROVE OnlyReads(p)'
  BY <1>1, <1>3, <1>4, <1>6, ClientFrame
<1>7. CASE Blackout
  BY <1>3, <1>7 DEF Blackout, PowerLoss, OnlyReads
<1>8. CASE UNCHANGED vars
  BY <1>4, <1>8 DEF vars, handle, locals, Undisturbed
<1> QED
  BY <1>5, <1>6, <1>7, <1>8 DEF ToolNext, Begin

(* A step of pkgstate-init leaves a selection as it finds it.              *)
LEMMA KeepStep ==
  ASSUME IInv, ToolTypeOK, KeepInv, [ToolNext]_<<vars, toolvars>>,
         NEW p \in Inits, pc'[p] # pc[p], losses' = losses, dir.current # Nil
  PROVE  dir'.current = dir.current
<1>1. TypeOK /\ p \in Tools /\ p \in Procs /\ OnlyReads(p) /\ ClientInv(p)
  BY ToolsAssumption DEF IInv, Tools, KeepInv
<1>2. ASSUME Undisturbed(p) PROVE FALSE
  BY <1>2 DEF Undisturbed
<1>3. ~SelectGeneration(p)
  <2> SUFFICES ASSUME pc[p] = "select" PROVE FALSE
    BY DEF SelectGeneration, Goto
  <2>1. CASE root_descriptor[p]
    BY <1>1, <2>1 DEF OnlyReads
  <2>2. CASE ~root_descriptor[p]
    BY <1>1, <2>2 DEF ClientInv, BeforeSelection, Unfounded
  <2> QED
    BY <2>1, <2>2
<1>4. ASSUME Step(p) \/ Call(p) \/ Failure(p) PROVE dir'.current = dir.current
  BY <1>1, <1>3, <1>4, SelectionChanges
<1>5. CASE UNCHANGED vars
  BY <1>2, <1>5 DEF vars, handle, Undisturbed
<1>6. ASSUME NEW q \in Tools, ToolStep(q) \/ ToolFails(q) \/ ToolKilled(q)
      PROVE  dir'.current = dir.current
  <2>1. q = p
    BY <1>1, <1>2, <1>6, ToolFrame
  <2>2. CASE InitConstructs(p) \/ CheckOpens(p)
    <3>1. argument[p] \in Bindings
      BY <1>1, <2>2 DEF ToolTypeOK, InitConstructs, CheckOpens, Running
    <3> QED
      BY <1>4, <2>2, <3>1 DEF InitConstructs, CheckOpens, Call
  <2>3. CASE ReadState(p) \/ Exit(p)
    BY <1>4, <1>5, <2>3 DEF ReadState, Exit, Call
  <2>4. CASE ToolFails(p) \/ ToolKilled(p)
    BY <1>4, <2>4 DEF ToolFails, ToolKilled, Call, Failure
  <2> QED
    BY <1>4, <1>6, <2>1, <2>2, <2>3, <2>4 DEF ToolStep
<1>7. ASSUME NEW q \in Procs \ Tools, Step(q) \/ Call(q) \/ Failure(q) PROVE FALSE
  BY <1>1, <1>2, <1>7, ClientFrame
<1>8. ~Blackout
  BY <1>1 DEF Blackout, PowerLoss, TypeOK
<1> QED
  BY <1>5, <1>6, <1>7, <1>8 DEF ToolNext, Begin

(* "It never erases packages", for any number of tools and publishers, on  *)
(* any root, whatever fails.                                               *)
THEOREM SelectionsKept == ToolSpec => PackagesKept
<1>1. ToolInit => KeepInv
  BY ToolsAssumption DEF ToolInit, Init, KeepInv, OnlyReads, Tools
<1>2. IInv /\ ToolTypeOK /\ KeepInv /\ [ToolNext]_<<vars, toolvars>> => KeepInv'
  BY KeepInvStep
<1>3. IInv /\ ToolTypeOK /\ KeepInv /\ [ToolNext]_<<vars, toolvars>>
        => [\A p \in Inits : pc'[p] # pc[p] /\ losses' = losses /\ dir.current # Nil
              => dir'.current = dir.current]_<<vars, toolvars>>
  BY KeepStep
<1> QED
  BY <1>1, <1>2, <1>3, ToolsKeepStore, PTL DEF ToolSpec, PackagesKept

-----------------------------------------------------------------------------
(* What pkgstate-check reports.                                            *)

(* The history only grows while the power stays on.                        *)
LEMMA HistoryGrows ==
  ASSUME TypeOK, NEW q \in Procs, Step(q) \/ Call(q) \/ Failure(q)
  PROVE  \A i \in 1..Len(history) : i \in 1..Len(history') /\ history'[i] = history[i]
<1> USE DEF ghosts
<1>1. CASE SelectGeneration(q)
  <2>1. history \in Seq(Snapshots) /\ Len(history) \in Nat
    BY LenProperties DEF TypeOK
  <2>2. next[q] \in Snapshots \cup {Nil} /\ history \in Seq(Snapshots \cup {Nil})
    BY <2>1, SeqDef DEF TypeOK
  <2>3. history' = Append(history, next[q])
    BY <1>1 DEF SelectGeneration
  <2> QED
    BY <2>1, <2>2, <2>3, AppendProperties
<1>2. ASSUME history' = history
      PROVE  \A i \in 1..Len(history) : i \in 1..Len(history') /\ history'[i] = history[i]
  BY <1>2
<1>3. CASE Initialization(q)
  BY <1>2, <1>3 DEF Initialization, LockInitialization, EnsureLayout, InspectLayout,
     WriteBinding, SealBinding, WriteTemporary, SealTemporary, SelectBinding, SyncBinding,
     RereadAdmitted, SyncLayout, RetainAuthority
<1>4. CASE Publication(q) /\ ~SelectGeneration(q)
  BY <1>2, <1>4 DEF Publication, CompareExpected, EnsureGeneration, WriteGeneration,
     SealGeneration, InstallGeneration, SyncGenerations, WriteSelector, SealSelector,
     WriteTemporary, SealTemporary, SyncRoot, Observe
<1>5. CASE ValidateExisting(q) \/ ReadSnapshot(q) \/ RefuseStore(q)
  BY <1>2, <1>5 DEF ValidateExisting, ReadSnapshot, RefuseStore
<1>6. CASE Call(q)
  BY <1>2, <1>6 DEF Call, CreateRoot, OpenExisting, BeginPublication, LockRead, RefuseLock, Close
<1>7. CASE Failure(q)
  BY <1>2, <1>7 DEF Failure, FailBeforeSelection, FailStore, FailSyncRoot, FailObserve, Kill
<1> QED
  BY <1>1, <1>3, <1>4, <1>5, <1>6, <1>7 DEF Step

(* What other clients and tools do leaves a check where it is.             *)
LEMMA OthersCheck ==
  ASSUME CheckInv, NEW p \in Checks, Undisturbed(p), status'[p] = status[p],
         argument'[p] = argument[p],
         \A i \in 1..Len(history) : i \in 1..Len(history') /\ history'[i] = history[i]
  PROVE  CheckInvOf(p)'
<1>1. CheckInvOf(p)
  BY DEF CheckInv
<1>2. ASSUME outcome'[p] = "read" PROVE \E i \in 1..Len(history') : seen'[p] = history'[i]
  <2>1. PICK i \in 1..Len(history) : seen[p] = history[i]
    BY <1>1, <1>2 DEF CheckInvOf, Undisturbed
  <2> QED
    BY <2>1 DEF Undisturbed
<1> QED
  BY <1>1, <1>2 DEF CheckInvOf, Undisturbed

(* A step of its own is the validation of the store or its reading.        *)
LEMMA OwnCheckStep ==
  ASSUME IInv, ToolTypeOK, CheckInv, NEW p \in Checks, ToolStep(p)
  PROVE  CheckInvOf(p)'
<1>1. p \in Procs /\ p \in Tools /\ p \notin Inits
  BY ToolsAssumption DEF Tools
<1>2. /\ TypeOK /\ ClientInv(p) /\ CheckInvOf(p) /\ HistoryInv
      /\ status \in [Tools -> {"none", "starting", "running", "0", "1"}]
  BY <1>1 DEF IInv, CheckInv, ToolTypeOK
<1>3. CASE Step(p) /\ UNCHANGED toolvars
  <2>1. ~Initialization(p)
    BY <1>2 DEF CheckInvOf, Initialization, LockInitialization, EnsureLayout, InspectLayout,
       WriteBinding, SealBinding, WriteTemporary, SealTemporary, SelectBinding, SyncBinding,
       RereadAdmitted, SyncLayout, RetainAuthority, Goto
  <2>2. ~Publication(p)
    BY <1>2 DEF CheckInvOf, Publication, CompareExpected, EnsureGeneration, WriteGeneration,
       SealGeneration, InstallGeneration, SyncGenerations, WriteSelector, SealSelector,
       WriteTemporary, SealTemporary, SelectGeneration, SyncRoot, Observe, Goto
  <2>3. CASE ValidateExisting(p)
    BY <1>1, <1>2, <1>3, <2>3 DEF ValidateExisting, Return, TypeOK, CheckInvOf, toolvars
  <2>4. CASE ReadSnapshot(p)
    <3>1. /\ pc'[p] = "idle" /\ outcome'[p] = "read" /\ seen'[p] = dir.current.value
          /\ UNCHANGED <<target_binding, root_descriptor, history>>
          /\ dir.current # Nil /\ pc[p] = "read"
      BY <1>1, <1>2, <2>4 DEF ReadSnapshot, Return, TypeOK, ghosts, Admitted, Legible
    <3>2. history # <<>> /\ seen'[p] = history[Len(history)]
      BY <1>2, <3>1 DEF HistoryInv
    <3>3. Len(history) \in 1..Len(history)
      BY <1>2, <3>2, HistoryFacts
    <3> QED
      BY <1>2, <1>3, <3>1, <3>2, <3>3 DEF CheckInvOf, ClientInv, toolvars
  <2>5. CASE RefuseStore(p)
    <3>1. pc[p] # "idle"
      BY <2>5 DEF RefuseStore, Acceptable
    <3> QED
      BY <1>1, <1>2, <1>3, <2>5, <3>1 DEF RefuseStore, Throw, Return, TypeOK, CheckInvOf, toolvars
  <2> QED
    BY <1>3, <2>1, <2>2, <2>3, <2>4, <2>5 DEF Step
<1>4. CASE CheckOpens(p)
  <2>1. status'[p] = "running" /\ argument' = argument
    BY <1>1, <1>2, <1>4 DEF CheckOpens
  <2>2. pc[p] = "idle" /\ ~root_descriptor[p]
    BY <1>2, <1>4 DEF CheckOpens, CheckInvOf
  <2>3. CASE OpenExisting(p, argument[p])
    BY <1>1, <1>2, <2>1, <2>3 DEF OpenExisting, Goto, TypeOK, CheckInvOf
  <2>4. CASE RefuseLock(p)
    BY <1>1, <1>2, <2>1, <2>2, <2>4 DEF RefuseLock, Throw, Return, TypeOK, CheckInvOf
  <2> QED
    BY <1>4, <2>3, <2>4 DEF CheckOpens
<1>5. CASE ReadState(p)
  <2>1. status'[p] = "running" /\ argument' = argument /\ status[p] = "running"
    BY <1>5 DEF ReadState, toolvars
  <2>2. CASE LockRead(p)
    BY <1>1, <1>2, <2>1, <2>2 DEF LockRead, Goto, TypeOK, handle, CheckInvOf
  <2>3. CASE RefuseLock(p)
    BY <1>1, <1>2, <2>1, <2>3 DEF RefuseLock, Throw, Return, TypeOK, CheckInvOf
  <2> QED
    BY <1>5, <2>2, <2>3 DEF ReadState
<1>6. CASE Exit(p)
  <2>1. /\ pc[p] = "idle" /\ argument' = argument /\ outcome[p] \in {"read", "store_error"}
        /\ Close(p) \/ (~root_descriptor[p] /\ UNCHANGED vars)
    BY <1>6 DEF Exit
  <2>2. /\ pc'[p] = "idle" /\ ~root_descriptor'[p] /\ outcome'[p] # "read"
    BY <1>1, <1>2, <2>1 DEF Close, TypeOK, vars, handle, CheckInvOf
  <2> QED
    BY <2>2 DEF CheckInvOf
<1>7. ~InitConstructs(p)
  BY <1>1 DEF InitConstructs
<1> QED
  BY <1>3, <1>4, <1>5, <1>6, <1>7 DEF ToolStep

LEMMA OwnCheckFailure ==
  ASSUME IInv, ToolTypeOK, CheckInv, NEW p \in Checks, ToolFails(p) \/ ToolKilled(p)
  PROVE  CheckInvOf(p)'
<1>1. p \in Procs /\ p \in Tools
  BY ToolsAssumption DEF Tools
<1>2. /\ TypeOK /\ CheckInvOf(p)
      /\ status \in [Tools -> {"none", "starting", "running", "0", "1"}]
  BY DEF IInv, CheckInv, ToolTypeOK
<1>3. CASE ToolFails(p)
  <2>1. PICK a \in {"failed_before", "store_error"} : Throw(p, a)
    BY <1>3 DEF ToolFails, FailBeforeSelection, FailStore
  <2>2. UNCHANGED root_descriptor /\ status'[p] = "running" /\ argument' = argument
    BY <1>1, <1>2, <1>3 DEF ToolFails, FailBeforeSelection, FailStore
  <2> QED
    BY <1>1, <1>2, <2>1, <2>2 DEF Throw, Return, TypeOK, CheckInvOf
<1>4. CASE ToolKilled(p)
  <2>1. pc'[p] = "idle" /\ ~root_descriptor'[p] /\ outcome'[p] = "none"
    BY <1>1, <1>2, <1>4 DEF ToolKilled, Kill, Return, Close, TypeOK
  <2> QED
    BY <2>1 DEF CheckInvOf
<1> QED
  BY <1>3, <1>4

LEMMA CheckInvStep ==
  ASSUME IInv, ToolTypeOK, CheckInv, [ToolNext]_<<vars, toolvars>>
  PROVE  CheckInv'
<1>1. TypeOK
  BY DEF IInv
<1>2. SUFFICES ASSUME NEW p \in Checks PROVE CheckInvOf(p)'
  BY DEF CheckInv
<1>3. p \in Tools /\ p \in Procs /\ CheckInvOf(p)
  BY ToolsAssumption DEF Tools, CheckInv
<1>4. ASSUME NEW q \in Tools, ToolStep(q) \/ ToolFails(q) \/ ToolKilled(q)
      PROVE  CheckInvOf(p)'
  <2>1. CASE q = p
    BY <1>4, <2>1, OwnCheckStep, OwnCheckFailure
  <2>2. CASE q # p
    <3>1. \/ Step(q) \/ Call(q) \/ Failure(q)
          \/ UNCHANGED vars
      BY <1>4, ToolsSteps
    <3>2. q \in Procs
      BY ToolsAssumption
    <3>3. \A i \in 1..Len(history) : i \in 1..Len(history') /\ history'[i] = history[i]
      BY <1>1, <3>1, <3>2, HistoryGrows DEF vars, ghosts
    <3> QED
      BY <1>1, <1>3, <1>4, <2>2, <3>3, ToolFrame, OthersCheck
  <2> QED
    BY <2>1, <2>2
<1>5. ASSUME NEW q \in Tools, NEW b \in Bindings, Begin(q, b) PROVE CheckInvOf(p)'
  <2>1. Undisturbed(p) /\ history' = history
    BY <1>5 DEF Begin, Undisturbed, vars, handle, locals, ghosts
  <2>2. CASE q = p
    <3>1. pc[p] = "idle" /\ ~root_descriptor[p]
      BY <1>3, <1>5, <2>2 DEF Begin, Running, CheckInvOf
    <3> QED
      BY <1>3, <2>1, <3>1 DEF CheckInvOf, Undisturbed
  <2>3. CASE q # p
    <3>1. status'[p] = status[p] /\ argument'[p] = argument[p]
      BY <1>3, <1>5, <2>3 DEF Begin, ToolTypeOK
    <3> QED
      BY <2>1, <3>1, OthersCheck
  <2> QED
    BY <2>2, <2>3
<1>6. ASSUME NEW q \in Procs \ Tools, Step(q) \/ Call(q) \/ Failure(q), UNCHANGED toolvars
      PROVE  CheckInvOf(p)'
  <2>1. Undisturbed(p)
    BY <1>1, <1>3, <1>6, ClientFrame
  <2> QED
    BY <1>1, <1>6, <2>1, HistoryGrows, OthersCheck DEF toolvars
<1>7. CASE Blackout
  BY <1>3, <1>7 DEF Blackout, PowerLoss, CheckInvOf
<1>8. CASE UNCHANGED <<vars, toolvars>>
  BY <1>3, <1>8 DEF vars, handle, ghosts, toolvars, CheckInvOf
<1> QED
  BY <1>4, <1>5, <1>6, <1>7, <1>8 DEF ToolNext

(* The tool ends with status 0 by its Exit, after a read.                  *)
LEMMA CheckEnds ==
  ASSUME IInv, ToolTypeOK, CheckInv, [ToolNext]_<<vars, toolvars>>,
         NEW p \in Checks, status[p] = "running", status'[p] = "0"
  PROVE  /\ Admitted(dir, gens, argument[p])
         /\ \E i \in 1..Len(history) : seen[p] = history[i]
<1>1. /\ TypeOK /\ p \in Tools /\ p \notin Inits /\ p \in Procs /\ CheckInvOf(p) /\ ClientInv(p)
      /\ status \in [Tools -> {"none", "starting", "running", "0", "1"}]
  BY ToolsAssumption DEF IInv, Tools, CheckInv, ToolTypeOK
<1>2. Exit(p)
  <2>1. ASSUME NEW q \in Tools, q # p, status'[p] # status[p]
        PROVE  ~ToolStep(q) /\ ~ToolFails(q) /\ ~ToolKilled(q)
    BY <1>1, <2>1, ToolFrame
  <2>2. ~UNCHANGED toolvars
    BY DEF toolvars
  <2>3. ~InitConstructs(p) /\ ~CheckOpens(p) /\ ~ReadState(p) /\ ~ToolFails(p) /\ ~ToolKilled(p)
    BY <1>1, <2>2 DEF InitConstructs, CheckOpens, ReadState, ToolFails, ToolKilled
  <2>4. ASSUME NEW q \in Tools, NEW b \in Bindings PROVE ~Begin(q, b)
    BY <1>1 DEF Begin, Running
  <2>5. ~Blackout
    BY <1>1 DEF Blackout, Running
  <2> QED
    BY <2>1, <2>2, <2>3, <2>4, <2>5 DEF ToolNext, ToolStep
<1>3. outcome[p] = "read"
  BY <1>1, <1>2 DEF Exit, ExitStatus
<1>4. Alive /\ argument[p] = dir.binding
  BY <1>1, <1>3 DEF CheckInvOf, ClientInv
<1> QED
  BY <1>1, <1>3, <1>4, AliveAdmitted DEF CheckInvOf

(* A store that pkgstate-check calls valid is valid for the target it was  *)
(* given, and what it reports was selected in it, for any number of tools  *)
(* and publishers, on any root, whatever fails.                            *)
THEOREM ReportedStoresAreValid == ToolSpec => CheckReportsTruth
<1>1. ToolInit => CheckInv
  BY ToolsAssumption DEF ToolInit, Init, CheckInv, CheckInvOf, Tools
<1>2. IInv /\ ToolTypeOK /\ CheckInv /\ [ToolNext]_<<vars, toolvars>> => CheckInv'
  BY CheckInvStep
<1>3. IInv /\ ToolTypeOK /\ CheckInv /\ [ToolNext]_<<vars, toolvars>>
        => [\A p \in Checks : status[p] = "running" /\ status'[p] = "0"
              => /\ Admitted(dir, gens, argument[p])
                 /\ \E i \in 1..Len(history) : seen[p] = history[i]]_<<vars, toolvars>>
  BY CheckEnds
<1> QED
  BY <1>1, <1>2, <1>3, ToolsKeepStore, PTL DEF ToolSpec, CheckReportsTruth
=============================================================================
