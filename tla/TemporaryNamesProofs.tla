------------------------- MODULE TemporaryNamesProofs -------------------------
(***************************************************************************)
(* What a process works on under a temporary name is its own, for any      *)
(* identifiers, however they are reused: O_EXCL lets it in only where      *)
(* nothing is, and the clean-up and the rename go by the name it made,     *)
(* which is never the one a file was installed under.                      *)
(***************************************************************************)
EXTENDS TemporaryNames, TLAPS

(* What goes by the name under preparation was made by the process that    *)
(* prepares it, and is written to its end before it is renamed.            *)
OwnInv ==
    /\ pc \in {"write", "rename", "sync"} =>
         \A f \in Mine(locked) : f.own /\ (pc = "rename" => f.whole)
    /\ InstalledIsOwn

(* The numbers a process has used are behind it: its temporaries have      *)
(* numbers below the next one, also those a failed clean-up left.          *)
UsedInv == \A f \in Temporaries : f.own => f.number < sequence[f.pid]

NamesInv == TypeOK /\ OwnInv

-----------------------------------------------------------------------------

LEMMA InitNames == Init => NamesInv
  BY NilAssumption DEF Init, NamesInv, TypeOK, OwnInv, InstalledIsOwn, Plans

(* What a call has left to do is the end of a plan, and so a plan.         *)
LEMMA PlanTail ==
  ASSUME NEW w \in Plans
  PROVE  /\ w # <<>> /\ Head(w) \in Prefixes
         /\ Len(w) # 1 => Tail(w) \in Plans
<1>1. CASE w = <<"generation", "current", "binding">>
  <2>1. Tail(w) = <<"current", "binding">>
    BY <1>1
  <2> QED
    BY <1>1, <2>1 DEF Plans, Prefixes
<1>2. CASE w = <<"current", "binding">>
  <2>1. Tail(w) = <<"binding">>
    BY <1>2
  <2> QED
    BY <1>2, <2>1 DEF Plans, Prefixes
<1>3. CASE w = <<"generation", "current">>
  <2>1. Tail(w) = <<"current">>
    BY <1>3
  <2> QED
    BY <1>3, <2>1 DEF Plans, Prefixes
<1>4. CASE w = <<"binding">> \/ w = <<"current">>
  BY <1>4 DEF Prefixes
<1> QED
  BY <1>1, <1>2, <1>3, <1>4 DEF Plans

(* A file keeps its name and its author when it is written to, its name    *)
(* when it loses its author, and its author and its bytes when it is       *)
(* renamed.                                                                *)
LEMMA WrittenTo ==
  ASSUME NEW f \in Files
  PROVE  LET g == [f EXCEPT !.whole = TRUE]
         IN  /\ g \in Files /\ g.pid = f.pid /\ g.number = f.number
             /\ g.own = f.own /\ g.whole
  BY DEF Files

LEMMA Orphaned ==
  ASSUME NEW f \in Files
  PROVE  LET g == [f EXCEPT !.own = FALSE]
         IN  g \in Files /\ g.pid = f.pid /\ ~g.own
  BY DEF Files

LEMMA Renamed ==
  ASSUME NEW f \in Files
  PROVE  LET g == [f EXCEPT !.pid = Nil, !.number = 0]
         IN  /\ g \in Files /\ g.prefix = f.prefix /\ g.pid = Nil
             /\ g.own = f.own /\ g.whole = f.whole
  BY DEF Files

(* The call is over; what the process worked on is nobody's concern.       *)
LEMMA ReturnKeeps ==
  ASSUME NamesInv, Return, files' \subseteq Files,
         sequence' \in [Pids -> Nat], done' \in [Pids -> BOOLEAN], faults' \in Nat,
         InstalledIsOwn'
  PROVE  NamesInv'
  BY DEF NamesInv, TypeOK, OwnInv, Return, Plans

LEMMA BeginKeeps ==
  ASSUME NamesInv, NEW p \in Pids, Begin(p)
  PROVE  NamesInv'
<1>1. work' \in Plans /\ work' # <<>> /\ p # Nil
  BY PlanTail, NilAssumption DEF Begin, Missing, Plans
<1> QED
  BY <1>1 DEF NamesInv, TypeOK, OwnInv, InstalledIsOwn, Begin

LEMMA CreateTemporaryKeeps ==
  ASSUME NamesInv, NEW p \in Pids, CreateTemporary(p)
  PROVE  NamesInv'
<1>0. TypeOK /\ OwnInv /\ pc = "create" /\ locked = p /\ work \in Plans /\ p # Nil
  BY NilAssumption DEF NamesInv, TypeOK, CreateTemporary, Inside
<1>1. Fresh(p) \in Files /\ Fresh(p).own /\ Fresh(p).pid # Nil
  BY <1>0, PlanTail DEF Fresh, Files, TypeOK
<1>2. sequence' \in [Pids -> Nat] /\ number' \in Nat
  BY <1>0 DEF CreateTemporary, TakeNumber, TypeOK
<1>3. TypeOK'
  BY <1>0, <1>1, <1>2 DEF CreateTemporary, TypeOK
<1>4. \A f \in Mine(locked)' : f = Fresh(p)
  BY <1>0 DEF CreateTemporary, Mine, Named
<1> QED
  BY <1>0, <1>1, <1>3, <1>4 DEF NamesInv, OwnInv, InstalledIsOwn, CreateTemporary

LEMMA WriteTemporaryKeeps ==
  ASSUME NamesInv, NEW p \in Pids, WriteTemporary(p)
  PROVE  NamesInv'
<1>0. TypeOK /\ OwnInv /\ pc = "write" /\ locked = p /\ p # Nil
  BY NilAssumption DEF NamesInv, WriteTemporary, Inside
<1>1. \A f \in files' :
        \/ f \in files \ Mine(p)
        \/ \E u \in Mine(p) : f = [u EXCEPT !.whole = TRUE]
  BY DEF WriteTemporary
<1>2. ASSUME NEW u \in Mine(p)
      PROVE  LET f == [u EXCEPT !.whole = TRUE]
             IN  f \in Files /\ f.own /\ f.whole /\ f.pid # Nil
  <2>1. u \in Files /\ u.own /\ u.pid = p
    BY <1>0 DEF Mine, Named, TypeOK, OwnInv
  <2> QED
    BY <1>0, <2>1, WrittenTo
<1>3. TypeOK'
  BY <1>0, <1>1, <1>2 DEF WriteTemporary, TypeOK
<1>4. ASSUME NEW f \in Mine(p)' PROVE f.own /\ f.whole
  <2>1. f \in files' /\ (f \in files => f \in Mine(p))
    BY DEF Mine, Named, WriteTemporary
  <2> QED
    BY <1>1, <1>2, <2>1
<1>5. InstalledIsOwn'
  BY <1>0, <1>1, <1>2 DEF OwnInv, InstalledIsOwn
<1> QED
  BY <1>0, <1>3, <1>4, <1>5 DEF NamesInv, OwnInv, WriteTemporary

LEMMA RenameKeeps ==
  ASSUME NamesInv, NEW p \in Pids, Rename(p)
  PROVE  NamesInv'
<1>0. TypeOK /\ OwnInv /\ pc = "rename" /\ locked = p /\ p # Nil
  BY NilAssumption DEF NamesInv, Rename, Inside
<1>1. PICK f \in Mine(p) :
        files' = (files \ ({f} \cup Final(f.prefix))) \cup {[f EXCEPT !.pid = Nil, !.number = 0]}
  BY DEF Rename
<1>2. f.own /\ f.whole /\ f \in Files
  BY <1>0, <1>1 DEF OwnInv, Mine, Named, TypeOK
<1> DEFINE selected == [f EXCEPT !.pid = Nil, !.number = 0]
<1>3. selected \in Files /\ selected.own /\ selected.whole /\ selected.pid = Nil
  BY <1>2, Renamed
<1> HIDE DEF selected
<1>4. \A g \in files' : g \in files \/ g = selected
  BY <1>1 DEF selected
<1>5. UNCHANGED <<sequence, done, locked, work, number, faults>> /\ pc' = "sync"
  BY DEF Rename
<1>6. TypeOK'
  BY <1>0, <1>3, <1>4, <1>5 DEF TypeOK
<1>7. \A g \in Mine(locked)' : g.own
  <2>1. \A g \in Mine(locked)' : g \in Mine(locked)
    BY <1>0, <1>3, <1>4, <1>5 DEF Mine, Named
  <2> QED
    BY <1>0, <2>1 DEF OwnInv
<1>8. InstalledIsOwn'
  BY <1>0, <1>3, <1>4 DEF OwnInv, InstalledIsOwn
<1> QED
  BY <1>5, <1>6, <1>7, <1>8 DEF NamesInv, OwnInv

LEMMA SyncDirectoryKeeps ==
  ASSUME NamesInv, NEW p \in Pids, SyncDirectory(p)
  PROVE  NamesInv'
<1>0. TypeOK /\ OwnInv /\ pc = "sync" /\ locked = p /\ work \in Plans
      /\ UNCHANGED <<sequence, files, faults>> /\ InstalledIsOwn'
  BY DEF NamesInv, TypeOK, OwnInv, InstalledIsOwn, SyncDirectory, Inside
<1>1. CASE Len(work) = 1
  <2>1. Return /\ done' \in [Pids -> BOOLEAN]
    BY <1>0, <1>1 DEF SyncDirectory, TypeOK
  <2> QED
    BY <1>0, <2>1, ReturnKeeps DEF TypeOK
<1>2. CASE Len(work) # 1
  <2>1. pc' = "create" /\ work' = Tail(work) /\ UNCHANGED <<done, locked, number>>
    BY <1>2 DEF SyncDirectory
  <2>2. work' \in Plans /\ work' # <<>>
    BY <1>0, <1>2, <2>1, PlanTail
  <2> QED
    BY <1>0, <2>1, <2>2 DEF NamesInv, TypeOK, OwnInv
<1> QED
  BY <1>1, <1>2

LEMMA EndingsKeep ==
  ASSUME NamesInv, NEW p \in Pids, RefuseName(p) \/ Error(p)
  PROVE  NamesInv'
<1>1. /\ Return /\ files' \subseteq files /\ UNCHANGED done
      /\ sequence' \in [Pids -> Nat] /\ faults' \in Nat
  BY DEF NamesInv, TypeOK, RefuseName, TakeNumber, Error, FailCreate, Fail, FailSync
<1> QED
  BY <1>1, ReturnKeeps DEF NamesInv, TypeOK, OwnInv, InstalledIsOwn

LEMMA ReplaceKeeps ==
  ASSUME NamesInv, NEW p \in Pids, Replace(p)
  PROVE  NamesInv'
<1>0. TypeOK /\ OwnInv /\ p # Nil
  BY NilAssumption DEF NamesInv
<1>1. /\ files' = {IF f.pid = p THEN [f EXCEPT !.own = FALSE] ELSE f : f \in files}
      /\ sequence' \in [Pids -> Nat] /\ done' \in [Pids -> BOOLEAN]
      /\ UNCHANGED faults
  BY <1>0 DEF Replace, TypeOK
<1>2. \A g \in files' :
        /\ g \in Files
        /\ g.pid # p => g \in files
  <2>1. ASSUME NEW f \in files
        PROVE  LET g == IF f.pid = p THEN [f EXCEPT !.own = FALSE] ELSE f
               IN  g \in Files /\ (g.pid # p => g \in files)
    <3>1. f \in Files
      BY <1>0 DEF TypeOK
    <3> QED
      BY <3>1, Orphaned
  <2> QED
    BY <1>1, <2>1
<1>3. files' \subseteq Files /\ InstalledIsOwn'
  BY <1>0, <1>2 DEF OwnInv, InstalledIsOwn
<1>4. CASE locked = p
  BY <1>0, <1>1, <1>3, <1>4, ReturnKeeps DEF Replace, TypeOK
<1>5. CASE locked # p
  <2>1. UNCHANGED <<locked, pc, work, number>>
    BY <1>5 DEF Replace, call
  <2>2. \A f \in Mine(locked)' : f \in Mine(locked)
    BY <1>2, <1>5, <2>1 DEF Mine, Named
  <2> QED
    BY <1>0, <1>1, <1>3, <2>1, <2>2 DEF NamesInv, TypeOK, OwnInv
<1> QED
  BY <1>4, <1>5

LEMMA NextNames == NamesInv /\ [Next]_vars => NamesInv'
<1> SUFFICES ASSUME NamesInv, [Next]_vars PROVE NamesInv'
  OBVIOUS
<1>1. CASE UNCHANGED vars
  BY <1>1 DEF vars, call, NamesInv, TypeOK, OwnInv, InstalledIsOwn, Mine, Named
<1>2. ASSUME NEW p \in Pids, Begin(p) \/ Step(p) \/ Error(p) \/ Replace(p) PROVE NamesInv'
  BY <1>2, BeginKeeps, CreateTemporaryKeeps, WriteTemporaryKeeps, RenameKeeps,
     SyncDirectoryKeeps, EndingsKeep, ReplaceKeeps DEF Step
<1> QED
  BY <1>1, <1>2 DEF Next

(* A clean-up, write or rename goes by a temporary name of the process.    *)
LEMMA ErrorsRemoveOwn ==
  ASSUME NEW p \in Pids, Error(p), NEW f \in files, f \notin files'
  PROVE  f \in Mine(p) /\ locked = p /\ pc \in {"write", "rename", "sync"}
<1>1. CASE FailCreate(p)
  BY <1>1 DEF FailCreate
<1>2. CASE Fail(p)
  BY <1>2 DEF Fail
<1>3. CASE FailSync(p)
  BY <1>3 DEF FailSync, Inside
<1> QED
  BY <1>1, <1>2, <1>3 DEF Error

(* A leftover stays where it is: what a step writes, renames or removes is *)
(* the process's own.                                                      *)
LEMMA NextLeavesLeftovers ==
  ASSUME NamesInv, [Next]_vars, NEW f \in Temporaries, ~f.own
  PROVE  f \in files'
<1>0. f \in files /\ f \in Files /\ f.pid # Nil
  BY DEF NamesInv, TypeOK, Temporaries
<1>1. CASE UNCHANGED vars
  BY <1>0, <1>1 DEF vars
<1>2. ASSUME NEW p \in Pids, Begin(p) \/ RefuseName(p) \/ CreateTemporary(p) \/ SyncDirectory(p)
      PROVE  f \in files'
  BY <1>0, <1>2 DEF Begin, RefuseName, CreateTemporary, SyncDirectory
<1>3. ASSUME NEW p \in Pids, WriteTemporary(p) \/ Rename(p)
      PROVE  f \in files'
  <2>1. f \notin Mine(p)
    BY <1>3 DEF NamesInv, OwnInv, WriteTemporary, Rename, Inside
  <2> QED
    BY <1>0, <1>3, <2>1 DEF WriteTemporary, Rename, Final
<1>4. ASSUME NEW p \in Pids, Error(p) PROVE f \in files'
  BY <1>0, <1>4, ErrorsRemoveOwn DEF NamesInv, OwnInv
<1>5. ASSUME NEW p \in Pids, Replace(p) PROVE f \in files'
  <2>1. [f EXCEPT !.own = FALSE] = f
    BY <1>0 DEF Files
  <2> QED
    BY <1>0, <1>5, <2>1 DEF Replace
<1> QED
  BY <1>1, <1>2, <1>3, <1>4, <1>5 DEF Next, Step

(* A file that is installed does not go by any temporary name.             *)
LEMMA NextKeepsInstalled ==
  ASSUME NamesInv, [Next]_vars, NEW kind \in Prefixes, Final(kind) # {}
  PROVE  Final(kind)' # {}
<1> PICK f \in files : f.prefix = kind /\ f.pid = Nil
  BY DEF Final
<1>0. Nil \notin Pids /\ \A p \in Pids : f \notin Mine(p)
  BY NilAssumption DEF Mine, Named
<1>1. SUFFICES ASSUME f \notin files' PROVE Final(kind)' # {}
  BY DEF Final
<1>2. CASE UNCHANGED vars
  BY <1>1, <1>2 DEF vars
<1>3. ASSUME NEW p \in Pids,
             \/ Begin(p) \/ RefuseName(p) \/ CreateTemporary(p) \/ SyncDirectory(p)
             \/ WriteTemporary(p)
      PROVE  f \in files'
  BY <1>0, <1>3 DEF Begin, RefuseName, CreateTemporary, SyncDirectory, WriteTemporary
<1>4. ASSUME NEW p \in Pids, Error(p) PROVE f \in files'
  BY <1>0, <1>4, ErrorsRemoveOwn
<1>5. ASSUME NEW p \in Pids, Replace(p) PROVE f \in files'
  BY <1>0, <1>5 DEF Replace
<1>6. ASSUME NEW p \in Pids, Rename(p) PROVE Final(kind)' # {}
  <2>1. PICK g \in Mine(p) :
          files' = (files \ ({g} \cup Final(g.prefix)))
                     \cup {[g EXCEPT !.pid = Nil, !.number = 0]}
    BY <1>6 DEF Rename
  <2>2. g \in Files /\ g # f
    BY <1>0, <2>1 DEF Mine, Named, NamesInv, TypeOK
  <2>3. g.prefix = kind
    BY <1>1, <2>1, <2>2 DEF Final
  <2>4. /\ [g EXCEPT !.pid = Nil, !.number = 0] \in files'
        /\ [g EXCEPT !.pid = Nil, !.number = 0].prefix = kind
        /\ [g EXCEPT !.pid = Nil, !.number = 0].pid = Nil
    BY <2>1, <2>2, <2>3, Renamed
  <2> QED
    BY <2>4 DEF Final
<1> QED
  BY <1>1, <1>2, <1>3, <1>4, <1>5, <1>6 DEF Next, Step

-----------------------------------------------------------------------------

LEMMA NextUsesNumbers ==
  ASSUME TypeOK, UsedInv, [Next]_vars
  PROVE  UsedInv'
<1>0. /\ Nil \notin Pids /\ sequence \in [Pids -> Nat]
      /\ \A f \in files : f \in Files /\ f.number \in Nat /\ (f.pid # Nil => f.pid \in Pids)
      /\ \A f \in files : f.pid # Nil /\ f.own => f.number < sequence[f.pid]
  BY NilAssumption DEF TypeOK, Files, UsedInv, Temporaries
<1>1. CASE UNCHANGED vars
  BY <1>1 DEF vars, UsedInv, Temporaries
<1>2. ASSUME NEW p \in Pids, Begin(p) \/ SyncDirectory(p) \/ Fail(p) \/ FailSync(p)
      PROVE  UsedInv'
  <2>1. files' \subseteq files /\ sequence' = sequence
    BY <1>2 DEF Begin, SyncDirectory, Fail, FailSync
  <2> QED
    BY <1>0, <2>1 DEF UsedInv, Temporaries
<1>3. ASSUME NEW p \in Pids, Rename(p)
      PROVE  UsedInv'
  <2>1. PICK g \in Mine(p) :
          files' = (files \ ({g} \cup Final(g.prefix)))
                     \cup {[g EXCEPT !.pid = Nil, !.number = 0]}
    BY <1>3 DEF Rename
  <2>2. [g EXCEPT !.pid = Nil, !.number = 0].pid = Nil
    BY <1>0, <2>1, Renamed DEF Mine, Named
  <2>3. sequence' = sequence /\ \A f \in Temporaries' : f \in Temporaries
    BY <1>3, <2>1, <2>2 DEF Rename, Temporaries
  <2> QED
    BY <2>3 DEF UsedInv
<1>4. ASSUME NEW p \in Pids, CreateTemporary(p) \/ RefuseName(p) \/ FailCreate(p)
      PROVE  UsedInv'
  <2>1. sequence' = [sequence EXCEPT ![p] = @ + 1]
    BY <1>4 DEF CreateTemporary, RefuseName, FailCreate, TakeNumber
  <2>2. files' \subseteq files \cup {Fresh(p)}
    BY <1>4 DEF CreateTemporary, RefuseName, FailCreate
  <2>3. Fresh(p).number < sequence'[Fresh(p).pid]
    BY <1>0, <2>1 DEF Fresh
  <2>4. ASSUME NEW f \in files, f.pid # Nil, f.own PROVE f.number < sequence'[f.pid]
    <3>1. f.number < sequence[f.pid] /\ f.pid \in Pids /\ f.number \in Nat
      BY <1>0, <2>4
    <3>2. sequence[f.pid] \in Nat /\ sequence'[f.pid] \in Nat /\ sequence[f.pid] <= sequence'[f.pid]
      BY <1>0, <2>1, <3>1
    <3> QED
      BY <3>1, <3>2
  <2> QED
    BY <2>2, <2>3, <2>4 DEF UsedInv, Temporaries
<1>5. ASSUME NEW p \in Pids, WriteTemporary(p)
      PROVE  UsedInv'
  <2>1. /\ sequence' = sequence
        /\ \A u \in files' : \E f \in files : u = f \/ u = [f EXCEPT !.whole = TRUE]
    BY <1>5 DEF WriteTemporary, Mine, Named
  <2>2. ASSUME NEW u \in files', u.pid # Nil, u.own PROVE u.number < sequence[u.pid]
    <3>1. PICK f \in files : u = f \/ u = [f EXCEPT !.whole = TRUE]
      BY <2>1
    <3>2. u.pid = f.pid /\ u.own = f.own /\ u.number = f.number
      <4>1. f \in Files
        BY <1>0
      <4> QED
        BY <3>1, <4>1, WrittenTo
    <3>3. f.pid # Nil /\ f.own
      BY <2>2, <3>2
    <3>4. f.number < sequence[f.pid]
      BY <1>0, <3>1, <3>3
    <3> QED
      BY <3>2, <3>4
  <2> QED
    BY <2>1, <2>2 DEF UsedInv, Temporaries
<1>6. ASSUME NEW p \in Pids, Replace(p)
      PROVE  UsedInv'
  <2>1. files' = {IF f.pid = p THEN [f EXCEPT !.own = FALSE] ELSE f : f \in files}
    BY <1>6 DEF Replace
  <2>2. ASSUME NEW u \in files', u.own PROVE u \in files /\ u.pid # p
    <3>1. PICK f \in files : u = IF f.pid = p THEN [f EXCEPT !.own = FALSE] ELSE f
      BY <2>1
    <3>2. f.pid # p
      BY <1>0, <2>2, <3>1, Orphaned
    <3> QED
      BY <3>1, <3>2
  <2>3. \A q \in Pids \ {p} : sequence'[q] = sequence[q]
    BY <1>6 DEF Replace, TypeOK
  <2> QED
    BY <1>0, <2>2, <2>3 DEF UsedInv, Temporaries
<1> QED
  BY <1>1, <1>2, <1>3, <1>4, <1>5, <1>6 DEF Next, Step, Error

(* The invariant holds under any reuse of process identifiers.             *)
THEOREM NamesInvariant == Spec => []NamesInv
<1> QED
  BY InitNames, NextNames, PTL DEF Spec

(* Every variable keeps its type, and a call under way has work to do.     *)
THEOREM NamesTypes == Spec => []TypeOK
<1>1. NamesInv => TypeOK
  BY DEF NamesInv
<1> QED
  BY <1>1, NamesInvariant, PTL

(* Nothing is renamed onto a final name but what the renaming process made *)
(* and wrote to its end, whatever killed processes left under the names    *)
(* that unique_temporary_name hands out again.                             *)
THEOREM OwnWorkInstalled == Spec => []InstalledIsOwn
<1>1. NamesInv => InstalledIsOwn
  BY DEF NamesInv, OwnInv
<1> QED
  BY <1>1, NamesInvariant, PTL

(* A process never meets a temporary of its own: whoever is refused a name *)
(* is refused it by a dead process, whose numbers run out.                 *)
THEOREM OwnNamesStayFree == Spec => []OwnNamesAreFree
<1>1. Init => UsedInv
  BY DEF Init, UsedInv, Temporaries
<1>2. TypeOK /\ UsedInv => OwnNamesAreFree
  <2> SUFFICES ASSUME TypeOK, UsedInv, NEW p \in Pids, NEW f \in Named(p, sequence[p]), f.own
               PROVE  FALSE
    BY DEF OwnNamesAreFree
  <2>1. f \in files /\ f.pid = p /\ p # Nil /\ f.number = sequence[p] /\ sequence[p] \in Nat
    BY NilAssumption DEF Named, TypeOK
  <2> QED
    BY <2>1 DEF UsedInv, Temporaries
<1> QED
  BY <1>1, <1>2, NextUsesNumbers, NamesTypes, PTL DEF Spec

(* No clean-up, write or rename touches a leftover of an earlier process.  *)
THEOREM LeftoversUntouched == Spec => LeftoversStay
<1>1. NamesInv /\ [Next]_vars
        => [\A f \in Temporaries : ~f.own => f \in files']_vars
  BY NextLeavesLeftovers
<1> QED
  BY <1>1, NamesInvariant, PTL DEF Spec, LeftoversStay

(* No clean-up takes away what was renamed into place, also when it runs   *)
(* after the rename because the directory could not be synchronised.       *)
THEOREM InstalledUntouched == Spec => InstalledStays
<1>1. NamesInv /\ [Next]_vars
        => [\A kind \in Prefixes : Final(kind) # {} => Final(kind)' # {}]_vars
  BY NextKeepsInstalled
<1> QED
  BY <1>1, NamesInvariant, PTL DEF Spec, InstalledStays
=============================================================================
