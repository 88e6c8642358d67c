---------------------------- MODULE CanonicalStore ----------------------------
(***************************************************************************)
(* What the store of canonical_generation_store.h promises its clients: a  *)
(* history of snapshots, each selected by compare-and-publish against the  *)
(* one before; reads that return the newest; answers that are true; and a  *)
(* power loss that never takes back a selection reported as durable.       *)
(* GenerationStore implements it.                                          *)
(***************************************************************************)
EXTENDS Integers, Sequences

CONSTANTS Procs, Snapshots, Nil

VARIABLES history,    \* snapshots selected so far, oldest first
          confirmed,  \* how many of them are promised to survive
          request,    \* per client: the publication it has under way, or Nil
          seen,       \* per client: the snapshot it read last
          answer      \* per client: the answer of its last call

vars == <<history, confirmed, request, seen, answer>>

(* A store that selects nothing yet is at Nil: initialisation publishes    *)
(* the empty snapshot against it.                                          *)
Newest == IF history = <<>> THEN Nil ELSE history[Len(history)]

Init == /\ history = <<>> /\ confirmed = 0
        /\ request = [p \in Procs |-> Nil]
        /\ seen = [p \in Procs |-> Nil]
        /\ answer = [p \in Procs |-> "none"]

Submit(p) ==
    /\ request[p] = Nil
    /\ \E s \in Snapshots :
         request' = [request EXCEPT ![p] = [expected |-> seen[p], result |-> s, at |-> 0]]
    /\ answer' = [answer EXCEPT ![p] = "none"]
    /\ UNCHANGED <<history, confirmed, seen>>

(* The atomic compare-and-publish.                                         *)
Select(p) ==
    /\ request[p] # Nil /\ request[p].at = 0
    /\ request[p].expected = Newest
    /\ history' = Append(history, request[p].result)
    /\ request' = [request EXCEPT ![p].at = Len(history) + 1]
    /\ UNCHANGED <<confirmed, seen, answer>>

(* What may be answered: nothing was selected, or something was and it is  *)
(* durable, or it may not be. Only an initialisation (it expected nothing) *)
(* may give up after its selection.                                        *)
Truthful(p, a) ==
    LET r == request[p] IN
    \/ a = "stale" /\ r.at = 0 /\ r.expected # Newest
    \/ a = "failed_before" /\ r.at = 0
    \/ a = "store_error" /\ (r.at = 0 \/ r.expected = Nil)
    \/ a \in {"published", "unconfirmed", "indeterminate"} /\ r.at # 0

Answer(p) ==
    /\ request[p] # Nil
    /\ \E a \in {"stale", "failed_before", "store_error", "published", "unconfirmed",
                 "indeterminate"} :
         /\ Truthful(p, a)
         /\ answer' = [answer EXCEPT ![p] = a]
         /\ confirmed' = IF a = "published" THEN request[p].at ELSE confirmed
    /\ request' = [request EXCEPT ![p] = Nil]
    /\ UNCHANGED <<history, seen>>

Read(p) ==
    /\ request[p] = Nil /\ history # <<>>
    /\ seen' = [seen EXCEPT ![p] = Newest]
    /\ answer' = [answer EXCEPT ![p] = "read"]
    /\ UNCHANGED <<history, confirmed, request>>

(* A handle on a store that already selects something, which construction  *)
(* reports as durable and opening does not.                                *)
Admit(p) ==
    /\ request[p] = Nil /\ history # <<>>
    /\ \/ answer' = [answer EXCEPT ![p] = "admitted"] /\ confirmed' = Len(history)
       \/ answer' = [answer EXCEPT ![p] = "opened"] /\ UNCHANGED confirmed
    /\ UNCHANGED <<history, request, seen>>

Refuse(p) ==
    /\ request[p] = Nil
    /\ answer' = [answer EXCEPT ![p] = "store_error"]
    /\ UNCHANGED <<history, confirmed, request, seen>>

(* The client starts another call, closes its handle or dies.              *)
Forget(p) ==
    /\ request' = [request EXCEPT ![p] = Nil]
    /\ answer' = [answer EXCEPT ![p] = "none"]
    /\ \/ UNCHANGED seen
       \/ seen' = [seen EXCEPT ![p] = Nil]
    /\ UNCHANGED <<history, confirmed>>

PowerLoss ==
    /\ \E n \in confirmed..Len(history) : history' = SubSeq(history, 1, n)
    /\ request' = [p \in Procs |-> Nil]
    /\ seen' = [p \in Procs |-> Nil]
    /\ answer' = [p \in Procs |-> "none"]
    /\ UNCHANGED confirmed

Next == \/ \E p \in Procs : \/ Submit(p) \/ Select(p) \/ Answer(p) \/ Read(p)
                            \/ Admit(p) \/ Refuse(p) \/ Forget(p)
        \/ PowerLoss

Spec == Init /\ [][Next]_vars
=============================================================================
