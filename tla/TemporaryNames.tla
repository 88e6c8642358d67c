---------------------------- MODULE TemporaryNames ----------------------------
(***************************************************************************)
(* The private names under which canonical_generation_store.cpp prepares   *)
(* what it renames into place: prefix.tmp.<pid>.<sequence>, the sequence   *)
(* counted per process from 0. A killed process leaves its temporary       *)
(* behind; a later process with the same identifier counts from 0 again    *)
(* and meets it. The exclusive lock is held from the first temporary of a  *)
(* call to its last rename, so one call is under way at a time.            *)
(***************************************************************************)
EXTENDS Integers, Sequences, FiniteSets

CONSTANTS
    Pids,          \* process identifiers, reused for ever
    Nil,           \* no process
    MaxLeftovers,  \* bound on temporaries that killed processes leave
    MaxFaults,     \* bound on I/O errors
    MaxSequence    \* bound on the sequence number a call starts from

Prefixes == {"generation", "current", "binding"}

(* What a call prepares, in order.                                         *)
Plans == {<<"generation", "current", "binding">>, <<"current", "binding">>,
          <<"binding">>, <<"generation", "current">>, <<"current">>}

(* A file: its name, did its author live to name it so, are its bytes all  *)
(* there. A final name has no process and no number in it; the names of    *)
(* all generations are one here, that of the newest.                       *)
Files == [prefix : Prefixes, pid : Pids \cup {Nil}, number : Nat,
          own : BOOLEAN, whole : BOOLEAN]

ASSUME NilAssumption   == Nil \notin Pids
ASSUME BoundAssumption == {MaxLeftovers, MaxFaults, MaxSequence} \subseteq Nat

VARIABLES
    sequence,     \* unique_temporary_name's static counter, per process
    done,         \* did the process complete a call
    locked,       \* the process inside the exclusive lock, and for its call:
    pc, work,     \* where it stands, and what is left to prepare
    number,       \* the number in the name it prepares now
    files,        \* the files under temporary and final names
    faults

call == <<locked, pc, work, number>>
vars == <<sequence, done, call, files, faults>>

Init ==
    /\ sequence = [p \in Pids |-> 0] /\ done = [p \in Pids |-> FALSE]
    /\ locked = Nil /\ pc = "idle" /\ work = <<>> /\ number = 0
    /\ files = {}
    /\ faults = 0

-----------------------------------------------------------------------------

Named(p, n) == {f \in files : f.prefix = Head(work) /\ f.pid = p /\ f.number = n}
Mine(p)     == Named(p, number)
Final(kind) == {f \in files : f.prefix = kind /\ f.pid = Nil}
Temporaries == {f \in files : f.pid # Nil}

Inside(p, where) == locked = p /\ pc = where

(* Variant of Return: the locked descriptor outlives the call.             *)
ReturnLocked == UNCHANGED locked /\ pc' = "idle" /\ work' = <<>> /\ number' = 0

Return == locked' = Nil /\ pc' = "idle" /\ work' = <<>> /\ number' = 0

(* initialize() prepares what it does not find, publish() a selector; both *)
(* reuse a generation that is there already.                               *)
Missing ==
    IF Final("binding") # {} THEN {<<"generation", "current">>, <<"current">>}
    ELSE IF Final("current") # {} THEN {<<"binding">>}
    ELSE IF Final("generation") # {}
         THEN {<<"generation", "current", "binding">>, <<"current", "binding">>}
         ELSE {<<"generation", "current", "binding">>}

Begin(p) ==
    /\ locked = Nil
    /\ sequence[p] <= MaxSequence
    /\ locked' = p /\ pc' = "create" /\ work' \in Missing
    /\ UNCHANGED <<sequence, done, number, files, faults>>

(* unique_temporary_name: every call of it takes the next number.          *)
TakeNumber(p) == sequence' = [sequence EXCEPT ![p] = @ + 1]

Fresh(p) == [prefix |-> Head(work), pid |-> p, number |-> sequence[p],
             own |-> TRUE, whole |-> FALSE]

(* Variant of CreateTemporary: a file that is there is taken as prepared.  *)
CreateTemporaryShared(p) ==
    /\ Inside(p, "create")
    /\ TakeNumber(p)
    /\ files' = IF Named(p, sequence[p]) = {} THEN files \cup {Fresh(p)} ELSE files
    /\ number' = sequence[p]
    /\ pc' = IF Named(p, sequence[p]) = {} THEN "write" ELSE "rename"
    /\ UNCHANGED <<done, locked, work, faults>>

(* mkdirat or openat(O_CREAT | O_EXCL) makes the file, ...                 *)
CreateTemporary(p) ==
    /\ Inside(p, "create")
    /\ Named(p, sequence[p]) = {}
    /\ TakeNumber(p)
    /\ files' = files \cup {Fresh(p)}
    /\ number' = sequence[p] /\ pc' = "write"
    /\ UNCHANGED <<done, locked, work, faults>>

(* Variant of RefuseName: the clean-up covers the creation too.            *)
RefuseNameCleaning(p) ==
    /\ Inside(p, "create")
    /\ Named(p, sequence[p]) # {}
    /\ TakeNumber(p)
    /\ files' = files \ Named(p, sequence[p])
    /\ Return
    /\ UNCHANGED <<done, faults>>

(* Variant of RefuseName: a number whose name is taken is not used up.     *)
RefuseNameUncounted(p) ==
    /\ Inside(p, "create")
    /\ Named(p, sequence[p]) # {}
    /\ Return
    /\ UNCHANGED <<sequence, done, files, faults>>

(* ... or finds the name taken, and the call fails before its clean-up is  *)
(* in scope.                                                               *)
RefuseName(p) ==
    /\ Inside(p, "create")
    /\ Named(p, sequence[p]) # {}
    /\ TakeNumber(p)
    /\ Return
    /\ UNCHANGED <<done, files, faults>>

WriteTemporary(p) ==
    /\ Inside(p, "write")
    /\ files' = (files \ Mine(p)) \cup {[f EXCEPT !.whole = TRUE] : f \in Mine(p)}
    /\ pc' = "rename"
    /\ UNCHANGED <<sequence, done, locked, work, number, faults>>

(* The rename onto the final name.                                         *)
Rename(p) ==
    /\ Inside(p, "rename")
    /\ \E f \in Mine(p) :
         files' = (files \ ({f} \cup Final(f.prefix)))
                    \cup {[f EXCEPT !.pid = Nil, !.number = 0]}
    /\ pc' = "sync"
    /\ UNCHANGED <<sequence, done, locked, work, number, faults>>

(* The directory is synchronised, or publish() goes on without; then the   *)
(* next temporary of the call.                                             *)
SyncDirectory(p) ==
    /\ Inside(p, "sync")
    /\ IF Len(work) = 1
       THEN Return /\ done' = [done EXCEPT ![p] = TRUE]
       ELSE /\ pc' = "create" /\ work' = Tail(work)
            /\ UNCHANGED <<done, locked, number>>
    /\ UNCHANGED <<sequence, files, faults>>

(* Variant of Fail: the number of a call that failed is used again.        *)
FailReusing(p) ==
    /\ locked = p /\ pc \in {"write", "rename"}
    /\ faults < MaxFaults
    /\ faults' = faults + 1
    /\ files' \in {files, files \ Mine(p)}
    /\ sequence' = [sequence EXCEPT ![p] = number]
    /\ Return
    /\ UNCHANGED done

(* An error while the temporary is prepared removes it, by its name, and   *)
(* that may fail unnoticed.                                                *)
Fail(p) ==
    /\ locked = p /\ pc \in {"write", "rename"}
    /\ faults < MaxFaults
    /\ faults' = faults + 1
    /\ files' \in {files, files \ Mine(p)}
    /\ Return
    /\ UNCHANGED <<sequence, done>>

(* An error of mkdirat or openat: there is nothing to remove yet.          *)
FailCreate(p) ==
    /\ Inside(p, "create")
    /\ faults < MaxFaults
    /\ faults' = faults + 1
    /\ TakeNumber(p)
    /\ Return
    /\ UNCHANGED <<done, files>>

(* Variant of FailSync: the clean-up goes by the final name.               *)
FailSyncInstalled(p) ==
    /\ Inside(p, "sync")
    /\ faults < MaxFaults
    /\ faults' = faults + 1
    /\ files' = files \ Final(Head(work))
    /\ Return
    /\ UNCHANGED <<sequence, done>>

(* An error after the rename runs the clean-up of a generation or of a     *)
(* binding all the same, under the temporary's name; a selector has none.  *)
FailSync(p) ==
    /\ Inside(p, "sync")
    /\ faults < MaxFaults
    /\ faults' = faults + 1
    /\ files' \in {files, IF Head(work) = "current" THEN files ELSE files \ Mine(p)}
    /\ Return
    /\ UNCHANGED <<sequence, done>>

(* A process ends, by itself or killed in the middle of a call, and leaves *)
(* its temporaries to nobody; another one gets its identifier.             *)
Replace(p) ==
    /\ locked = p => Cardinality(Temporaries) <= MaxLeftovers
    /\ files' = {IF f.pid = p THEN [f EXCEPT !.own = FALSE] ELSE f : f \in files}
    /\ sequence' = [sequence EXCEPT ![p] = 0]
    /\ done' = [done EXCEPT ![p] = FALSE]
    /\ IF locked = p THEN Return ELSE UNCHANGED call
    /\ UNCHANGED faults

Step(p) == \/ CreateTemporary(p) \/ RefuseName(p) \/ WriteTemporary(p)
           \/ Rename(p) \/ SyncDirectory(p)
Error(p) == FailCreate(p) \/ Fail(p) \/ FailSync(p)

Next == \E p \in Pids : Begin(p) \/ Step(p) \/ Error(p) \/ Replace(p)

Spec == Init /\ [][Next]_vars

(* No system call waits, and a process tries again while it lives.         *)
RetrySpec == Spec /\ \A p \in Pids : WF_vars(Step(p)) /\ SF_vars(Begin(p))

-----------------------------------------------------------------------------

(* Every variable keeps its type; a call under way has something to do.    *)
TypeOK ==
    /\ sequence \in [Pids -> Nat] /\ done \in [Pids -> BOOLEAN]
    /\ locked \in Pids \cup {Nil} /\ number \in Nat
    /\ pc \in {"idle", "create", "write", "rename", "sync"}
    /\ work \in Plans \cup {<<>>}
    /\ (pc = "idle" <=> locked = Nil) /\ (pc = "idle" <=> work = <<>>)
    /\ files \subseteq Files
    /\ faults \in Nat

(* What is renamed onto a final name was written to its end by the process *)
(* that renames it: no leftover of a killed one, whatever its name, is     *)
(* ever taken for a process's own work.                                    *)
InstalledIsOwn == \A f \in files : f.pid = Nil => f.own /\ f.whole

(* No clean-up, whichever name it goes by, removes or rewrites a temporary *)
(* of an earlier process.                                                  *)
LeftoversStay ==
    [][\A f \in Temporaries : ~f.own => f \in files']_vars

(* What was renamed onto a final name stays there until another file is    *)
(* renamed onto it: the clean-up of a call that failed after its rename    *)
(* does not take it away.                                                  *)
InstalledStays ==
    [][\A kind \in Prefixes : Final(kind) # {} => Final(kind)' # {}]_vars

(* Only the leftovers of dead processes refuse a name: what a call left    *)
(* behind because its clean-up failed is not in the way of the next call   *)
(* of the same process.                                                    *)
OwnNamesAreFree ==
    \A p \in Pids : Inside(p, "create") => \A f \in Named(p, sequence[p]) : ~f.own

(* However many killed processes have used the names before, a process     *)
(* that is let live and tries again gets past their leftovers, because it  *)
(* never takes a number twice.                                             *)
RetriesGetThrough ==
    \A p \in Pids : <>[](done[p]) \/ []<><<Replace(p)>>_vars
=============================================================================
