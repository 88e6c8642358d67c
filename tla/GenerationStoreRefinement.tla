----------------------- MODULE GenerationStoreRefinement -----------------------
(***************************************************************************)
(* On a durable root, GenerationStore implements CanonicalStore: a call of *)
(* many system calls, cut short by errors, kills and power losses, is an   *)
(* atomic compare-and-publish whose answer is true. The selector's rename  *)
(* is the abstract selection; the lock makes the comparison before it      *)
(* still hold then.                                                        *)
(***************************************************************************)
EXTENDS GenerationStoreProofs

(* What a client answered and expects.                                     *)
AnswerInv(p) ==
    /\ pc[p] # "idle" => outcome[p] = "none"
    /\ ~root_descriptor[p] => seen[p] = Nil
    /\ pc[p] \in BeforeSelection => seen[p] = Canonical!Newest

AnswersInv == \A p \in Procs : AnswerInv(p)

(* A step of the abstract store, or none.                                  *)
CanonicalStep == Canonical!Next \/ UNCHANGED Canonical!vars

-----------------------------------------------------------------------------
(* How the abstract request follows the concrete call.                     *)

LEMMA AbstractInit == Init => Canonical!Init
<1> SUFFICES ASSUME Init PROVE Canonical!Init
  OBVIOUS
<1>1. \A p \in Procs : Request(p) = Nil
  BY DEF Init, Request, Publishing, BeforeSelection
<1> QED
  BY <1>1 DEF Init, Canonical!Init, request

LEMMA InitAnswers == Init => AnswersInv
  BY DEF Init, AnswersInv, AnswerInv, BeforeSelection

(* A step of p leaves what the others are asking for alone.                *)
OthersAsk(p) ==
    \A q \in Procs \ {p} : pc'[q] = pc[q] /\ seen'[q] = seen[q] /\ next'[q] = next[q]

LEMMA RequestOfOne ==
  ASSUME NEW p \in Procs, OthersAsk(p), history' = history
  PROVE  request' = [request EXCEPT ![p] = Request(p)']
<1>1. \A q \in Procs \ {p} : Request(q)' = Request(q)
  BY DEF OthersAsk, Request
<1> QED
  BY <1>1 DEF request

LEMMA RequestUnchanged ==
  ASSUME NEW p \in Procs, OthersAsk(p), history' = history, Request(p)' = Request(p)
  PROVE  request' = request
<1>1. \A q \in Procs : Request(q)' = Request(q)
  BY DEF OthersAsk, Request
<1> QED
  BY <1>1 DEF request

(* What is asked is a record, and Nil is none.                             *)
LEMMA Asking ==
  ASSUME IInv, NEW p \in Procs
  PROVE  /\ pc[p] \in Publishing <=> request[p] # Nil
         /\ pc[p] \in Publishing => /\ request[p].expected = seen[p]
                                    /\ request[p].result = next[p]
                                    /\ request[p].at = IF pc[p] \in {"sync_root", "observe"}
                                                       THEN Len(history) ELSE 0
<1>1. /\ seen[p] \in Snapshots \cup {Nil} /\ Len(history) \in Nat
      /\ pc[p] \in Publishing => next[p] \in Snapshots
  BY LenProperties DEF IInv, TypeOK, ClientInv
<1>2. request[p] = Request(p)
  BY DEF request
<1> QED
  BY <1>1, <1>2, RequestAssumption DEF Request

(* A store that admits selects the end of the abstract history.            *)
LEMMA AdmittedNewest ==
  ASSUME IInv, dir.current # Nil
  PROVE  /\ history # <<>> /\ Canonical!Newest = dir.current.value
         /\ dir.current.ver = Len(history)
  BY DEF IInv, HistoryInv, Canonical!Newest

(* A step that shows nothing to the client.                                *)
LEMMA Silent ==
  ASSUME NEW p \in Procs, OthersAsk(p), Request(p)' = Request(p),
         UNCHANGED <<history, confirmed, seen, outcome>>
  PROVE  CanonicalStep
<1>1. request' = request
  BY RequestUnchanged
<1> QED
  BY <1>1 DEF CanonicalStep, Canonical!vars

(* A step by which the client gives its call up, or starts one that        *)
(* publishes nothing.                                                      *)
LEMMA Forgets ==
  ASSUME NEW p \in Procs, OthersAsk(p), pc'[p] \notin Publishing,
         UNCHANGED <<history, confirmed>>, outcome' = [outcome EXCEPT ![p] = "none"],
         seen' = seen \/ seen' = [seen EXCEPT ![p] = Nil]
  PROVE  CanonicalStep
<1>1. request' = [request EXCEPT ![p] = Nil]
  BY RequestOfOne DEF Request
<1> QED
  BY <1>1 DEF CanonicalStep, Canonical!Next, Canonical!Forget

(* A call that publishes is answered.                                      *)
LEMMA Answers ==
  ASSUME IInv, NEW p \in Procs, OthersAsk(p), pc[p] \in Publishing, pc'[p] = "idle",
         UNCHANGED <<history, seen>>,
         NEW a \in {"stale", "failed_before", "store_error", "published", "unconfirmed",
                    "indeterminate"},
         Canonical!Truthful(p, a), outcome' = [outcome EXCEPT ![p] = a],
         confirmed' = IF a = "published" THEN request[p].at ELSE confirmed
  PROVE  CanonicalStep
<1>1. request' = [request EXCEPT ![p] = Nil]
  BY RequestOfOne DEF Request, Publishing, BeforeSelection
<1>2. request[p] # Nil
  BY Asking
<1> QED
  BY <1>1, <1>2 DEF CanonicalStep, Canonical!Next, Canonical!Answer

(* Another call is refused.                                                *)
LEMMA Refuses ==
  ASSUME IInv, NEW p \in Procs, OthersAsk(p), pc[p] \notin Publishing, pc'[p] = "idle",
         UNCHANGED <<history, seen, confirmed>>,
         outcome' = [outcome EXCEPT ![p] = "store_error"]
  PROVE  CanonicalStep
<1>1. request' = request
  BY RequestUnchanged DEF Request, Publishing, BeforeSelection
<1>2. request[p] = Nil
  BY Asking
<1> QED
  BY <1>1, <1>2 DEF CanonicalStep, Canonical!Next, Canonical!Refuse

(* What Return and Throw do to the others.                                 *)
LEMMA ReturnAsks ==
  ASSUME TypeOK, NEW p \in Procs, NEW a, Return(p, a), UNCHANGED seen
  PROVE  OthersAsk(p) /\ pc'[p] = "idle" /\ outcome' = [outcome EXCEPT ![p] = a]
  BY DEF TypeOK, Return, OthersAsk

LEMMA GotoAsks ==
  ASSUME TypeOK, NEW p \in Procs, NEW from, NEW to, Goto(p, from, to), UNCHANGED <<seen, next>>
  PROVE  OthersAsk(p) /\ pc[p] = from /\ pc'[p] = to
  BY DEF TypeOK, Goto, OthersAsk

(* A step from one stage of a call to the next.                            *)
LEMMA Advances ==
  ASSUME TypeOK, NEW p \in Procs, NEW from, NEW to, Goto(p, from, to),
         UNCHANGED <<history, confirmed, seen, next, outcome>>,
         from \in Publishing <=> to \in Publishing,
         from \in {"sync_root", "observe"} <=> to \in {"sync_root", "observe"}
  PROVE  CanonicalStep
<1>1. OthersAsk(p) /\ pc[p] = from /\ pc'[p] = to
  BY GotoAsks
<1>2. Request(p)' = Request(p)
  BY <1>1 DEF Request
<1> QED
  BY <1>1, <1>2, Silent

-----------------------------------------------------------------------------
(* Construction.                                                           *)

LEMMA InitializationRefines ==
  ASSUME IInv, AnswersInv, NEW p \in Procs, Initialization(p)
  PROVE  CanonicalStep
<1>0. TypeOK /\ ClientInv(p) /\ AnswerInv(p)
  BY DEF IInv, AnswersInv
<1>1. CASE \/ LockInitialization(p) \/ EnsureLayout(p) \/ WriteBinding(p) \/ SealBinding(p)
           \/ SelectBinding(p) \/ SyncBinding(p) \/ RereadAdmitted(p) \/ SyncLayout(p)
  <2>1. /\ UNCHANGED <<history, confirmed, seen, next, outcome>>
        /\ \/ Goto(p, "init_lock", "init_layout")
           \/ Goto(p, "init_layout", "init_inspect")
           \/ Goto(p, "write_binding", "seal_binding")
           \/ Goto(p, "seal_binding", "select_binding")
           \/ Goto(p, "select_binding", "sync_binding")
           \/ Goto(p, "sync_binding", "init_reread")
           \/ Goto(p, "init_reread", "init_sync")
           \/ Goto(p, "init_sync", "init_retain")
    BY <1>1 DEF LockInitialization, EnsureLayout, WriteBinding, SealBinding, SelectBinding,
         SyncBinding, RereadAdmitted, SyncLayout, WriteTemporary, SealTemporary, handle,
         locals, ghosts
  <2> QED
    BY <1>0, <2>1, Advances DEF Publishing, BeforeSelection
<1>2. CASE InspectLayout(p)
  <2>0. /\ pc[p] = "init_inspect" /\ UNCHANGED <<history, confirmed, seen, outcome>>
        /\ pc[p] \notin Publishing /\ target_binding[p] \in Bindings
        /\ ~root_descriptor[p] /\ seen[p] = Nil /\ outcome[p] = "none"
    BY <1>0, <1>2 DEF InspectLayout, handle, ghosts, ClientInv, AnswerInv, Publishing,
         BeforeSelection
  <2>1. CASE /\ UNCHANGED next
             /\ \/ Goto(p, "init_inspect", "init_sync")
                \/ Goto(p, "init_inspect", "write_binding")
    BY <1>0, <2>0, <2>1, Advances DEF Publishing, BeforeSelection
  <2>2. CASE /\ pc' = [pc EXCEPT ![p] = "ensure"]
             /\ next' = [next EXCEPT ![p] = Empty(target_binding[p])]
    <3>1. OthersAsk(p) /\ pc'[p] = "ensure" /\ next'[p] = Empty(target_binding[p])
      BY <1>0, <2>0, <2>2 DEF TypeOK, OthersAsk
    <3>2. Request(p)' = [expected |-> seen[p], result |-> Empty(target_binding[p]), at |-> 0]
      BY <2>0, <3>1 DEF Request, Publishing, BeforeSelection
    <3>3. Empty(target_binding[p]) \in Snapshots
      BY <2>0, EmptyAssumption DEF Empty, Snapshots
    <3>4. request[p] = Nil
      BY <2>0, Asking
    <3>5. outcome' = [outcome EXCEPT ![p] = "none"]
      BY <1>0, <2>0 DEF TypeOK
    <3>6. request' = [request EXCEPT ![p] = [expected |-> seen[p],
                                             result |-> Empty(target_binding[p]), at |-> 0]]
      BY <2>0, <3>1, <3>2, RequestOfOne
    <3> QED
      BY <2>0, <3>3, <3>4, <3>5, <3>6 DEF CanonicalStep, Canonical!Next, Canonical!Submit
  <2> QED
    BY <1>2, <2>0, <2>1, <2>2 DEF InspectLayout, Goto
<1>3. CASE RetainAuthority(p)
  <2>1. pc[p] = "init_retain" /\ Return(p, "admitted") /\ UNCHANGED <<history, seen>>
        /\ confirmed' = dir.current.ver
    BY <1>3 DEF RetainAuthority
  <2>2. Alive
    BY <1>0, <2>1 DEF ClientInv
  <2>3. dir.current # Nil /\ history # <<>> /\ confirmed' = Len(history)
    BY <2>1, <2>2 DEF IInv, HistoryInv, Alive
  <2>4. OthersAsk(p) /\ pc'[p] = "idle" /\ outcome' = [outcome EXCEPT ![p] = "admitted"]
    BY <1>0, <2>1, ReturnAsks
  <2>5. request' = request /\ request[p] = Nil
    BY <2>1, <2>4, RequestUnchanged, Asking DEF Request, Publishing, BeforeSelection
  <2> QED
    BY <2>1, <2>3, <2>4, <2>5 DEF CanonicalStep, Canonical!Next, Canonical!Admit
<1> QED
  BY <1>1, <1>2, <1>3 DEF Initialization

-----------------------------------------------------------------------------
(* Opening and reading.                                                    *)

LEMMA ReadingRefines ==
  ASSUME IInv, AnswersInv, NEW p \in Procs, ValidateExisting(p) \/ ReadSnapshot(p)
  PROVE  CanonicalStep
<1>0. TypeOK
  BY DEF IInv
<1>1. dir.current # Nil /\ pc[p] \notin Publishing /\ request[p] = Nil
  BY Asking DEF ValidateExisting, ReadSnapshot, Admitted, Legible, Publishing,
       BeforeSelection
<1>2. history # <<>> /\ Canonical!Newest = dir.current.value
  BY <1>1, AdmittedNewest
<1>3. CASE ValidateExisting(p)
  <2>1. Return(p, "opened") /\ UNCHANGED <<seen, history, confirmed>>
    BY <1>3 DEF ValidateExisting, ghosts
  <2>2. OthersAsk(p) /\ pc'[p] = "idle" /\ outcome' = [outcome EXCEPT ![p] = "opened"]
    BY <1>0, <2>1, ReturnAsks
  <2>3. request' = request
    BY <1>1, <2>1, <2>2, RequestUnchanged DEF Request, Publishing, BeforeSelection
  <2> QED
    BY <1>1, <1>2, <2>1, <2>2, <2>3 DEF CanonicalStep, Canonical!Next, Canonical!Admit
<1>4. CASE ReadSnapshot(p)
  <2>1. /\ Return(p, "read") /\ UNCHANGED <<history, confirmed>>
        /\ seen' = [seen EXCEPT ![p] = dir.current.value]
    BY <1>4 DEF ReadSnapshot, ghosts
  <2>2. OthersAsk(p) /\ pc'[p] = "idle" /\ outcome' = [outcome EXCEPT ![p] = "read"]
    BY <1>0, <2>1 DEF TypeOK, Return, OthersAsk
  <2>3. request' = request
    BY <1>1, <2>1, <2>2, RequestUnchanged DEF Request, Publishing, BeforeSelection
  <2> QED
    BY <1>1, <1>2, <2>1, <2>2, <2>3 DEF CanonicalStep, Canonical!Next, Canonical!Read
<1> QED
  BY <1>3, <1>4

-----------------------------------------------------------------------------
(* Publication.                                                            *)

(* The rename of the selector is the abstract selection. *)
LEMMA SelectGenerationRefines ==
  ASSUME IInv, AnswersInv, NEW p \in Procs, SelectGeneration(p)
  PROVE  CanonicalStep
<1>0. TypeOK /\ ClientInv(p) /\ AnswerInv(p) /\ pc[p] = "select" /\ lock[p] = "EX"
  BY DEF IInv, AnswersInv, SelectGeneration, Goto, LockInv, Exclusive, BeforeSelection
<1>1. /\ pc' = [pc EXCEPT ![p] = "sync_root"] /\ history' = Append(history, next[p])
      /\ UNCHANGED <<confirmed, seen, next, outcome>>
  BY DEF SelectGeneration, Goto, handle, locals
<1>2. next[p] \in Snapshots /\ Len(history) \in Nat /\ Len(history') = Len(history) + 1
  BY <1>0, <1>1, AppendProperties, LenProperties
     DEF TypeOK, ClientInv, Publishing, BeforeSelection
<1>3. /\ request[p] # Nil /\ request[p].at = 0 /\ request[p].result = next[p]
      /\ request[p].expected = Canonical!Newest
      /\ request[p] = [expected |-> seen[p], result |-> next[p], at |-> 0]
  BY <1>0, Asking DEF AnswerInv, Publishing, BeforeSelection, request, Request
<1>4. ASSUME NEW q \in Procs \ {p} PROVE Request(q)' = Request(q)
  <2>1. pc[q] \in {"idle", "init_lock"} /\ pc'[q] = pc[q]
    BY <1>0, <1>1, OthersOutside DEF TypeOK
  <2> QED
    BY <2>1 DEF Request, Publishing, BeforeSelection
<1>5. Request(p)' = [expected |-> seen[p], result |-> next[p], at |-> Len(history) + 1]
  BY <1>0, <1>1, <1>2 DEF Request, Publishing, TypeOK
<1>6. Request(p)' = [request[p] EXCEPT !.at = Len(history) + 1]
  BY <1>3, <1>5
<1>7. request' = [request EXCEPT ![p].at = Len(history) + 1]
  BY <1>4, <1>6 DEF request
<1> QED
  BY <1>1, <1>3, <1>7 DEF CanonicalStep, Canonical!Next, Canonical!Select

(* publish() rereads and answers what it saw. *)
LEMMA ObserveRefines ==
  ASSUME IInv, NEW p \in Procs, Observe(p)
  PROVE  CanonicalStep
<1>0. TypeOK /\ ClientInv(p) /\ pc[p] = "observe" /\ pc[p] \in Publishing
  BY DEF IInv, Observe, Publishing
<1>1. Alive
  BY <1>0 DEF ClientInv
<1>2. /\ dir.current.ver = Len(history) /\ Len(history) # 0
      /\ request[p].at = Len(history)
  BY <1>0, <1>1, Asking, EmptySeq, LenProperties DEF IInv, HistoryInv, Alive, TypeOK
<1>3. OthersAsk(p) /\ pc'[p] = "idle" /\ outcome' = [outcome EXCEPT ![p] = Receipt(p)]
  BY <1>0, ReturnAsks DEF Observe, handle
<1>4. Receipt(p) \in {"published", "unconfirmed", "indeterminate"}
  BY DEF Receipt
<1>5. Canonical!Truthful(p, Receipt(p))
  BY <1>2, <1>4 DEF Canonical!Truthful
<1>6. /\ confirmed' = IF Receipt(p) = "published" THEN request[p].at ELSE confirmed
      /\ UNCHANGED <<history, seen>>
  BY <1>2 DEF Observe, handle
<1> QED
  BY <1>0, <1>3, <1>4, <1>5, <1>6, Answers

(* The comparison, under the lock. *)
LEMMA CompareExpectedRefines ==
  ASSUME IInv, NEW p \in Procs, CompareExpected(p)
  PROVE  CanonicalStep
<1>0. /\ TypeOK /\ pc[p] = "compare" /\ pc[p] \in Publishing /\ dir.current # Nil
      /\ UNCHANGED <<history, confirmed, seen>>
  BY DEF IInv, CompareExpected, Publishing, Admitted, Legible, handle, ghosts
<1>1. CASE dir.current.value = seen[p]
  <2>1. Goto(p, "compare", "ensure") /\ UNCHANGED <<next, outcome>>
    BY <1>1 DEF CompareExpected, Goto, locals
  <2> QED
    BY <1>0, <2>1, Advances DEF Publishing, BeforeSelection
<1>2. CASE dir.current.value # seen[p]
  <2>1. Return(p, "stale") /\ confirmed' = confirmed
    BY <1>2 DEF CompareExpected, ghosts
  <2>2. OthersAsk(p) /\ pc'[p] = "idle" /\ outcome' = [outcome EXCEPT ![p] = "stale"]
    BY <1>0, <2>1, ReturnAsks
  <2>3. Canonical!Truthful(p, "stale")
    BY <1>0, <1>2, Asking, AdmittedNewest DEF Canonical!Truthful
  <2> QED
    BY <1>0, <2>1, <2>2, <2>3, Answers
<1> QED
  BY <1>1, <1>2

LEMMA PublicationRefines ==
  ASSUME IInv, AnswersInv, NEW p \in Procs, Publication(p)
  PROVE  CanonicalStep
<1>0. TypeOK /\ AnswerInv(p)
  BY DEF IInv, AnswersInv
<1>1. CASE \/ EnsureGeneration(p) \/ WriteGeneration(p) \/ SealGeneration(p)
           \/ InstallGeneration(p) \/ SyncGenerations(p) \/ WriteSelector(p)
           \/ SealSelector(p) \/ (SyncRoot(p) /\ root_descriptor[p])
  <2>1. /\ UNCHANGED <<history, confirmed, seen, next, outcome>>
        /\ \/ Goto(p, "ensure", "sync_generations")
           \/ Goto(p, "ensure", "write_generation")
           \/ Goto(p, "write_generation", "seal_generation")
           \/ Goto(p, "seal_generation", "install")
           \/ Goto(p, "install", "sync_generations")
           \/ Goto(p, "sync_generations", "write_selector")
           \/ Goto(p, "write_selector", "seal_selector")
           \/ Goto(p, "seal_selector", "select")
           \/ Goto(p, "sync_root", "observe")
    BY <1>1 DEF EnsureGeneration, WriteGeneration, SealGeneration, InstallGeneration,
         SyncGenerations, WriteSelector, SealSelector, SyncRoot, WriteTemporary,
         SealTemporary, Goto, handle, locals, ghosts
  <2> QED
    BY <1>0, <2>1, Advances DEF Publishing, BeforeSelection
<1>2. CASE SyncRoot(p) /\ ~root_descriptor[p]
  <2>1. /\ UNCHANGED <<history, confirmed, seen, next, outcome>>
        /\ Goto(p, "sync_root", "write_binding")
    BY <1>2 DEF SyncRoot, Goto, handle, ghosts
  <2>2. OthersAsk(p) /\ pc[p] = "sync_root" /\ pc'[p] = "write_binding"
    BY <1>0, <2>1, GotoAsks
  <2>3. pc'[p] \notin Publishing /\ outcome' = [outcome EXCEPT ![p] = "none"]
    BY <1>0, <2>1, <2>2 DEF AnswerInv, TypeOK, Publishing, BeforeSelection
  <2> QED
    BY <2>1, <2>2, <2>3, Forgets
<1> QED
  BY <1>1, <1>2, SelectGenerationRefines, ObserveRefines, CompareExpectedRefines
     DEF Publication

-----------------------------------------------------------------------------
(* Refusals and failures.                                                  *)

(* A store_error is true of any call but a publication that selected. *)
LEMMA StoreErrors ==
  ASSUME IInv, AnswersInv, NEW p \in Procs, Return(p, "store_error"),
         UNCHANGED <<history, seen, confirmed>>,
         pc[p] \in {"sync_root", "observe"} => ~root_descriptor[p]
  PROVE  CanonicalStep
<1>0. TypeOK /\ AnswerInv(p)
  BY DEF IInv, AnswersInv
<1>1. OthersAsk(p) /\ pc'[p] = "idle" /\ outcome' = [outcome EXCEPT ![p] = "store_error"]
  BY <1>0, ReturnAsks
<1>2. CASE pc[p] \in Publishing
  <2>1. request[p].at = 0 \/ request[p].expected = Nil
    BY <1>0, <1>2, Asking DEF AnswerInv
  <2>2. Canonical!Truthful(p, "store_error")
    BY <2>1 DEF Canonical!Truthful
  <2> QED
    BY <1>1, <1>2, <2>2, Answers
<1>3. CASE pc[p] \notin Publishing
  BY <1>1, <1>3, Refuses
<1> QED
  BY <1>2, <1>3

LEMMA FailuresRefine ==
  ASSUME IInv, AnswersInv, NEW p \in Procs,
         Failure(p) \/ RefuseStore(p) \/ RefuseLock(p)
  PROVE  CanonicalStep
<1>0. TypeOK /\ ClientInv(p) /\ AnswerInv(p)
  BY DEF IInv, AnswersInv
<1>1. CASE RefuseStore(p) \/ RefuseLock(p) \/ FailStore(p)
  <2>1. /\ Return(p, "store_error") /\ UNCHANGED <<history, seen, confirmed>>
    BY <1>1 DEF RefuseStore, RefuseLock, FailStore, Throw, ghosts
  <2>2. pc[p] \in {"sync_root", "observe"} => ~root_descriptor[p]
    <3>1. CASE RefuseStore(p)
      BY <3>1 DEF RefuseStore, Acceptable
    <3>2. CASE RefuseLock(p)
      BY <3>2 DEF RefuseLock
    <3>3. CASE FailStore(p)
      BY <3>3 DEF FailStore, BeforeSelection
    <3> QED
      BY <1>1, <3>1, <3>2, <3>3
  <2> QED
    BY <2>1, <2>2, StoreErrors
<1>2. CASE FailBeforeSelection(p)
  <2>1. /\ pc[p] \in Publishing /\ pc[p] \notin {"sync_root", "observe"}
        /\ UNCHANGED <<history, seen, confirmed>>
        /\ Return(p, IF root_descriptor[p] THEN "failed_before" ELSE "store_error")
    BY <1>2 DEF FailBeforeSelection, Throw, BeforeSelection, Publishing, ghosts
  <2>2. CASE root_descriptor[p]
    <3>1. /\ OthersAsk(p) /\ pc'[p] = "idle"
          /\ outcome' = [outcome EXCEPT ![p] = "failed_before"]
      BY <1>0, <2>1, <2>2, ReturnAsks
    <3>2. Canonical!Truthful(p, "failed_before")
      BY <2>1, Asking DEF Canonical!Truthful
    <3> QED
      BY <2>1, <3>1, <3>2, Answers
  <2>3. CASE ~root_descriptor[p]
    BY <2>1, <2>3, StoreErrors
  <2> QED
    BY <2>2, <2>3
<1>3. CASE FailSyncRoot(p)
  <2>1. Goto(p, "sync_root", "observe") /\ UNCHANGED <<history, confirmed, seen, next, outcome>>
    BY <1>3 DEF FailSyncRoot, handle, locals, ghosts
  <2> QED
    BY <1>0, <2>1, Advances DEF Publishing
<1>4. CASE FailObserve(p)
  <2>1. /\ pc[p] = "observe" /\ pc[p] \in Publishing /\ Return(p, "indeterminate")
        /\ UNCHANGED <<history, confirmed, seen>>
    BY <1>4 DEF FailObserve, Publishing, handle, ghosts
  <2>2. Alive
    BY <1>0, <2>1 DEF ClientInv
  <2>3. request[p].at # 0
    BY <1>0, <2>1, <2>2, Asking, EmptySeq, LenProperties DEF Alive, TypeOK
  <2>4. /\ OthersAsk(p) /\ pc'[p] = "idle"
        /\ outcome' = [outcome EXCEPT ![p] = "indeterminate"]
    BY <1>0, <2>1, ReturnAsks
  <2>5. Canonical!Truthful(p, "indeterminate")
    BY <2>3 DEF Canonical!Truthful
  <2> QED
    BY <2>1, <2>4, <2>5, Answers
<1>5. CASE Kill(p)
  <2>1. /\ Return(p, "none") /\ UNCHANGED <<history, confirmed>>
        /\ seen' = [seen EXCEPT ![p] = Nil]
    BY <1>5 DEF Kill, ghosts
  <2>2. /\ OthersAsk(p) /\ pc'[p] = "idle"
        /\ outcome' = [outcome EXCEPT ![p] = "none"]
    BY <1>0, <2>1 DEF TypeOK, Return, OthersAsk
  <2> QED
    BY <2>1, <2>2, Forgets DEF Publishing, BeforeSelection
<1> QED
  BY <1>1, <1>2, <1>3, <1>4, <1>5 DEF Failure

-----------------------------------------------------------------------------
(* What a client starts, and the loss of power.                            *)

LEMMA CallsRefine ==
  ASSUME IInv, AnswersInv, NEW p \in Procs, Call(p)
  PROVE  CanonicalStep
<1>0. TypeOK /\ ClientInv(p)
  BY DEF IInv
<1>1. CASE (\E b \in Bindings : CreateRoot(p, b) \/ OpenExisting(p, b)) \/ LockRead(p)
  <2>1. /\ \/ Goto(p, "idle", "init_lock") \/ Goto(p, "idle", "open_validate")
           \/ Goto(p, "idle", "read")
        /\ UNCHANGED <<seen, next, history, confirmed>>
        /\ outcome' = [outcome EXCEPT ![p] = "none"]
    BY <1>1 DEF CreateRoot, OpenExisting, LockRead, handle, locals, ghosts
  <2>2. OthersAsk(p) /\ pc'[p] \in {"init_lock", "open_validate", "read"}
    BY <1>0, <2>1, GotoAsks
  <2> QED
    BY <2>1, <2>2, Forgets DEF Publishing, BeforeSelection
<1>2. ASSUME NEW c \in Contents, BeginPublication(p, c) PROVE CanonicalStep
  <2> DEFINE s == [target |-> target_binding[p], content |-> c]
  <2>1. /\ Goto(p, "idle", "compare") /\ root_descriptor[p]
        /\ UNCHANGED <<seen, history, confirmed>>
        /\ next' = [next EXCEPT ![p] = s]
        /\ outcome' = [outcome EXCEPT ![p] = "none"]
    BY <1>2 DEF BeginPublication, handle, ghosts
  <2>2. s \in Snapshots
    BY <1>0, <2>1 DEF ClientInv, Alive, Snapshots
  <2> HIDE DEF s
  <2>3. /\ OthersAsk(p) /\ pc[p] = "idle" /\ pc'[p] = "compare" /\ next'[p] = s
        /\ seen'[p] = seen[p]
    BY <1>0, <2>1 DEF TypeOK, Goto, OthersAsk
  <2>4. Request(p)' = [expected |-> seen[p], result |-> s, at |-> 0]
    BY <2>3 DEF Request, Publishing
  <2>5. request' = [request EXCEPT ![p] = [expected |-> seen[p], result |-> s, at |-> 0]]
    BY <2>1, <2>3, <2>4, RequestOfOne
  <2>6. request[p] = Nil
    BY <2>3, Asking DEF Publishing, BeforeSelection
  <2> QED
    BY <2>1, <2>2, <2>5, <2>6 DEF CanonicalStep, Canonical!Next, Canonical!Submit
<1>3. CASE RefuseLock(p)
  BY <1>3, FailuresRefine
<1>4. CASE Close(p)
  <2>1. /\ pc[p] = "idle" /\ UNCHANGED <<pc, next, history, confirmed>>
        /\ seen' = [seen EXCEPT ![p] = Nil] /\ outcome' = [outcome EXCEPT ![p] = "none"]
    BY <1>4 DEF Close, locals, ghosts
  <2>2. OthersAsk(p) /\ pc'[p] \notin Publishing
    BY <1>0, <2>1 DEF OthersAsk, TypeOK, Publishing, BeforeSelection
  <2> QED
    BY <2>1, <2>2, Forgets
<1> QED
  BY <1>1, <1>2, <1>3, <1>4 DEF Call

(* What the power loss keeps of the history goes beyond what is promised. *)
LEMMA PowerLossRefines ==
  ASSUME DurableRoot, IInv, PowerLoss
  PROVE  CanonicalStep
<1>p. PreExisting /\ RootKept
  BY RootStays DEF IInv
<1>0. /\ TypeOK /\ HistoryInv /\ LinkInv /\ DurableInv /\ history \in Seq(Snapshots)
      /\ confirmed \in Nat /\ Len(history) \in Nat
  BY LenProperties DEF IInv, TypeOK
<1>1. PICK l \in disk.linked, g \in disk.generations, c \in disk.current, b \in disk.binding :
        dir' = Image(l, g, c, b)
  BY DEF PowerLoss
<1>2. /\ history' = IF dir'.current = Nil THEN <<>> ELSE SubSeq(history, 1, dir'.current.ver)
      /\ pc' = [p \in Procs |-> "idle"] /\ seen' = [p \in Procs |-> Nil]
      /\ outcome' = [p \in Procs |-> "none"] /\ confirmed' = confirmed
  BY DEF PowerLoss
<1>3. l = TRUE
  BY <1>p, <1>0, <1>1 DEF LinkInv
<1>4. dir'.current = c
  BY <1>1, <1>3 DEF Image
<1>a. confirmed > 0 => \A v \in disk.current : v # Nil /\ v.ver >= confirmed
  BY <1>p, <1>0, Zenon DEF DurableInv
<1>5. \E n \in confirmed..Len(history) : history' = SubSeq(history, 1, n)
  <2>1. CASE c = Nil
    <3>1. confirmed = 0
      BY <1>0, <1>a, <2>1
    <3>2. history' = SubSeq(history, 1, 0)
      BY <1>2, <1>4, <2>1, SubSeqEmpty
    <3> QED
      BY <1>0, <3>1, <3>2
  <2>2. CASE c # Nil
    <3>1. c.ver \in 1..Len(history)
      BY <1>0, <2>2 DEF HistoryInv
    <3>2. c.ver >= confirmed
      BY <1>0, <1>a, <3>1
    <3>3. history' = SubSeq(history, 1, c.ver)
      BY <1>2, <1>4, <2>2
    <3> QED
      BY <1>0, <3>1, <3>2, <3>3
  <2> QED
    BY <2>1, <2>2
<1>6. request' = [p \in Procs |-> Nil]
  BY <1>2 DEF request, Request, Publishing, BeforeSelection
<1> QED
  BY <1>2, <1>5, <1>6 DEF CanonicalStep, Canonical!Next, Canonical!PowerLoss

LEMMA NextRefines ==
  ASSUME DurableRoot, IInv, AnswersInv, [Next]_vars
  PROVE  CanonicalStep
<1>1. CASE UNCHANGED vars
  <2>1. UNCHANGED <<pc, seen, next, history, confirmed, outcome>>
    BY <1>1 DEF vars, handle, locals, ghosts
  <2>2. request' = request
    BY <2>1 DEF request, Request
  <2> QED
    BY <2>1, <2>2 DEF CanonicalStep, Canonical!vars
<1>2. ASSUME NEW p \in Procs, Step(p) PROVE CanonicalStep
  BY <1>2, InitializationRefines, PublicationRefines, ReadingRefines, FailuresRefine DEF Step
<1> QED
  BY <1>1, <1>2, CallsRefine, FailuresRefine, PowerLossRefines DEF Next

-----------------------------------------------------------------------------
(* What a client answered and expects is kept.                             *)

LEMMA NextAnswers ==
  ASSUME IInv, AnswersInv, [Next]_vars
  PROVE  AnswersInv'
<1> SUFFICES ASSUME NEW q \in Procs PROVE AnswerInv(q)'
  BY DEF AnswersInv
<1>0. TypeOK /\ ClientInv(q) /\ AnswerInv(q)
  BY DEF IInv, AnswersInv
<1>1. CASE UNCHANGED vars
  BY <1>0, <1>1 DEF vars, handle, locals, ghosts, AnswerInv, Canonical!Newest
<1>2. CASE PowerLoss
  BY <1>2 DEF PowerLoss, AnswerInv, BeforeSelection
<1>3. ASSUME NEW p \in Procs, Step(p) \/ Call(p) \/ Failure(p), p # q PROVE AnswerInv(q)'
  <2>1. /\ pc'[q] = pc[q] /\ root_descriptor'[q] = root_descriptor[q]
        /\ seen'[q] = seen[q] /\ outcome'[q] = outcome[q]
        /\ history' = history \/ pc[p] = "select"
    <3> USE <1>0, <1>3 DEF TypeOK, Goto, Return, Throw, handle, locals, ghosts
    <3>1. CASE Initialization(p)
      BY <3>1 DEF Initialization, LockInitialization, EnsureLayout, InspectLayout,
           WriteBinding, WriteTemporary, SealBinding, SealTemporary, SelectBinding,
           SyncBinding, RereadAdmitted, SyncLayout, RetainAuthority
    <3>2. CASE Publication(p)
      BY <3>2 DEF Publication, CompareExpected, EnsureGeneration, WriteGeneration,
           WriteTemporary, SealGeneration, SealTemporary, InstallGeneration,
           SyncGenerations, WriteSelector, SealSelector, SelectGeneration, SyncRoot, Observe
    <3>3. CASE ValidateExisting(p) \/ ReadSnapshot(p) \/ RefuseStore(p)
      BY <3>3 DEF ValidateExisting, ReadSnapshot, RefuseStore
    <3>4. CASE Call(p)
      BY <3>4 DEF Call, CreateRoot, OpenExisting, BeginPublication, LockRead, RefuseLock,
           Close
    <3>5. CASE Failure(p)
      BY <3>5 DEF Failure, FailBeforeSelection, FailStore, FailSyncRoot, FailObserve, Kill
    <3> QED
      BY <3>1, <3>2, <3>3, <3>4, <3>5 DEF Step
  <2>2. pc[q] \in BeforeSelection => history' = history
    BY <1>3, <2>1, OthersOutside DEF IInv, LockInv, Exclusive, BeforeSelection
  <2> QED
    BY <1>0, <2>1, <2>2 DEF AnswerInv, Canonical!Newest
<1>4. CASE Step(q) /\ pc'[q] # "idle"
  <2>1. /\ pc[q] # "idle" /\ outcome'[q] = outcome[q]
        /\ root_descriptor'[q] = root_descriptor[q] /\ seen'[q] = seen[q]
    <3> USE <1>0, <1>4 DEF TypeOK, Goto, Return, Throw, handle, locals, ghosts
    <3>1. CASE Initialization(q)
      BY <3>1 DEF Initialization, LockInitialization, EnsureLayout, InspectLayout,
           WriteBinding, WriteTemporary, SealBinding, SealTemporary, SelectBinding,
           SyncBinding, RereadAdmitted, SyncLayout, RetainAuthority
    <3>2. CASE Publication(q)
      BY <3>2 DEF Publication, CompareExpected, EnsureGeneration, WriteGeneration,
           WriteTemporary, SealGeneration, SealTemporary, InstallGeneration,
           SyncGenerations, WriteSelector, SealSelector, SelectGeneration, SyncRoot, Observe
    <3>3. CASE ValidateExisting(q) \/ ReadSnapshot(q) \/ RefuseStore(q)
      BY <3>3 DEF ValidateExisting, ReadSnapshot, RefuseStore
    <3> QED
      BY <1>4, <3>1, <3>2, <3>3 DEF Step
  <2>2. pc'[q] \in BeforeSelection => seen[q] = Canonical!Newest /\ history' = history
    <3>1. CASE InspectLayout(q)
      <4>1. pc'[q] = "ensure" => Unfounded(dir)
        BY <1>0, <3>1 DEF InspectLayout, TypeOK
      <4>2. pc'[q] \in BeforeSelection => pc'[q] = "ensure"
        BY <1>0, <3>1 DEF InspectLayout, TypeOK, BeforeSelection
      <4>3. seen[q] = Nil /\ history' = history
        BY <1>0, <3>1 DEF InspectLayout, ClientInv, AnswerInv, ghosts
      <4>4. Unfounded(dir) => Canonical!Newest = Nil
        BY DEF IInv, HistoryInv, Unfounded, Canonical!Newest
      <4> QED
        BY <4>1, <4>2, <4>3, <4>4
    <3>2. CASE CompareExpected(q)
      <4>1. dir.current # Nil /\ dir.current.value = seen[q] /\ history' = history
        BY <1>0, <1>4, <3>2 DEF CompareExpected, TypeOK, Return, Admitted, Legible, ghosts
      <4> QED
        BY <4>1, AdmittedNewest
    <3>3. CASE \/ EnsureGeneration(q) \/ WriteGeneration(q) \/ SealGeneration(q)
               \/ InstallGeneration(q) \/ SyncGenerations(q) \/ WriteSelector(q)
               \/ SealSelector(q)
      <4>1. pc[q] \in BeforeSelection /\ history' = history
        BY <3>3 DEF EnsureGeneration, WriteGeneration, WriteTemporary, SealGeneration,
             SealTemporary, InstallGeneration, SyncGenerations, WriteSelector, SealSelector,
             Goto, BeforeSelection, ghosts
      <4> QED
        BY <1>0, <4>1 DEF AnswerInv
    <3>4. CASE SelectGeneration(q) \/ SyncRoot(q) \/ Observe(q)
      BY <1>0, <3>4 DEF SelectGeneration, SyncRoot, Observe, Goto, Return, TypeOK,
           BeforeSelection
    <3>5. CASE /\ Initialization(q) /\ ~InspectLayout(q)
      <4> USE <1>0 DEF TypeOK, BeforeSelection
      <4>1. CASE \/ LockInitialization(q) \/ EnsureLayout(q) \/ SelectBinding(q)
                 \/ SyncBinding(q) \/ RereadAdmitted(q) \/ SyncLayout(q)
        <5>1. CASE LockInitialization(q) \/ EnsureLayout(q) \/ SelectBinding(q)
          BY <5>1 DEF LockInitialization, EnsureLayout, SelectBinding, Goto
        <5>2. CASE SyncBinding(q) \/ RereadAdmitted(q) \/ SyncLayout(q)
          BY <5>2 DEF SyncBinding, RereadAdmitted, SyncLayout, Goto
        <5> QED
          BY <4>1, <5>1, <5>2
      <4>2. CASE WriteBinding(q) \/ SealBinding(q)
        BY <4>2 DEF WriteBinding, WriteTemporary, SealBinding, SealTemporary, Goto
      <4>3. CASE RetainAuthority(q)
        BY <4>3 DEF RetainAuthority, Return
      <4> QED
        BY <3>5, <4>1, <4>2, <4>3 DEF Initialization
    <3>6. CASE ValidateExisting(q) \/ ReadSnapshot(q) \/ RefuseStore(q)
      BY <1>0, <1>4, <3>6 DEF ValidateExisting, ReadSnapshot, RefuseStore, Return, Throw,
           TypeOK
    <3> QED
      BY <1>4, <3>1, <3>2, <3>3, <3>4, <3>5, <3>6 DEF Step, Publication
  <2> QED
    BY <1>0, <2>1, <2>2 DEF AnswerInv, Canonical!Newest
<1>5. CASE Step(q) /\ pc'[q] = "idle"
  <2>1. ~root_descriptor'[q] => seen'[q] = Nil
    <3> USE <1>0, <1>5 DEF TypeOK, AnswerInv, Throw, handle
    <3>1. CASE Initialization(q)
      BY <3>1 DEF Initialization, LockInitialization, EnsureLayout, InspectLayout,
           WriteBinding, WriteTemporary, SealBinding, SealTemporary, SelectBinding,
           SyncBinding, RereadAdmitted, SyncLayout, RetainAuthority
    <3>2. CASE Publication(q)
      BY <3>2 DEF Publication, CompareExpected, EnsureGeneration, WriteGeneration,
           WriteTemporary, SealGeneration, SealTemporary, InstallGeneration,
           SyncGenerations, WriteSelector, SealSelector, SelectGeneration, SyncRoot, Observe
    <3>3. CASE ValidateExisting(q) \/ RefuseStore(q)
      BY <3>3 DEF ValidateExisting, RefuseStore
    <3>4. CASE ReadSnapshot(q)
      BY <3>4 DEF ReadSnapshot, ClientInv
    <3> QED
      BY <1>5, <3>1, <3>2, <3>3, <3>4 DEF Step
  <2> QED
    BY <1>5, <2>1 DEF AnswerInv, BeforeSelection
<1>6. CASE Call(q)
  <2> USE <1>0 DEF TypeOK, AnswerInv, BeforeSelection, handle
  <2>1. CASE (\E b \in Bindings : CreateRoot(q, b) \/ OpenExisting(q, b)) \/ LockRead(q)
    <3>1. CASE \E b \in Bindings : CreateRoot(q, b)
      BY <3>1 DEF CreateRoot, Goto
    <3>2. CASE \E b \in Bindings : OpenExisting(q, b)
      BY <3>2 DEF OpenExisting, Goto
    <3>3. CASE LockRead(q)
      BY <3>3 DEF LockRead, Goto
    <3> QED
      BY <2>1, <3>1, <3>2, <3>3
  <2>2. CASE \E c \in Contents : BeginPublication(q, c)
    BY <2>2 DEF BeginPublication, Goto
  <2>3. CASE RefuseLock(q)
    BY <2>3 DEF RefuseLock, Throw, Return
  <2>4. CASE Close(q)
    BY <2>4 DEF Close
  <2> QED
    BY <1>6, <2>1, <2>2, <2>3, <2>4 DEF Call
<1>7. CASE Failure(q)
  <2> USE <1>0 DEF TypeOK, AnswerInv, BeforeSelection, handle
  <2>1. CASE FailBeforeSelection(q) \/ FailStore(q)
    BY <2>1 DEF FailBeforeSelection, FailStore, Throw, Return
  <2>2. CASE FailSyncRoot(q)
    BY <2>2 DEF FailSyncRoot, Goto
  <2>3. CASE FailObserve(q) \/ Kill(q)
    BY <2>3 DEF FailObserve, Kill, Return
  <2> QED
    BY <1>7, <2>1, <2>2, <2>3 DEF Failure
<1> QED
  BY <1>1, <1>2, <1>3, <1>4, <1>5, <1>6, <1>7 DEF Next

-----------------------------------------------------------------------------

(* The store of canonical_generation_store.cpp is the compare-and-publish  *)
(* register its header promises, for any clients and any number of errors  *)
(* and kills, and of power losses when the root is durable.                *)
THEOREM Refinement == DurableRoot => (Spec => ImplementsCanonicalStore)
<1>1. ASSUME DurableRoot PROVE Spec => ImplementsCanonicalStore
  <2>1. Init => Canonical!Init /\ AnswersInv
    BY AbstractInit, InitAnswers
  <2>2. IInv /\ AnswersInv /\ [Next]_vars => AnswersInv'
    BY NextAnswers
  <2>3. IInv /\ AnswersInv /\ [Next]_vars => [Canonical!Next]_Canonical!vars
    BY <1>1, NextRefines DEF CanonicalStep
  <2> QED
    BY <2>1, <2>2, <2>3, Invariance, PTL DEF Spec, ImplementsCanonicalStore, Canonical!Spec
<1> QED
  BY <1>1
=============================================================================
