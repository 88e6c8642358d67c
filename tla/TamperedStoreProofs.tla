-------------------------- MODULE TamperedStoreProofs --------------------------
(***************************************************************************)
(* What a client can rely on although every file may change under it, for  *)
(* any targets and contents and however often somebody tampers. What was   *)
(* read is only trusted for what cannot change: the identity a selector    *)
(* held at some moment, and the generation that authenticates itself by    *)
(* it. What was established of the files themselves is relied on only      *)
(* where AuthorityInv and QuietInv say that nobody tampered since.         *)
(***************************************************************************)
EXTENDS TamperedStore, TLAPS

Inspecting == {"layout", "inspect_binding", "inspect_selector"}
Selecting  == {"ensure", "validate", "install", "select"}
Reading    == {"binding", "selector", "generation"}

(* What a client reads for, step by step, and what it would select.        *)
PurposeInv ==
    /\ pc = "idle" <=> purpose = "none"
    /\ pc \in Inspecting \cup {"write_binding"} => purpose = "construct"
    /\ pc \in Selecting \cup {"sync_root"} => purpose \in {"publish", "construct"}
    /\ pc \in Reading => purpose # "construct"
    /\ pc # "idle" => outcome = "none"
    /\ purpose \in {"publish", "construct", "resume", "observe"}
         => next \in Snapshots /\ next.target = Target

(* The selector names what it holds; an identity that was parsed was named.*)
NamedInv ==
    /\ pc # "idle" => current \in named
    /\ pc = "generation" => selected \in Snapshots \cap named

(* The reread of a publication, if nobody tampered since its rename.       *)
QuietInv ==
    purpose = "observe" /\ quiet =>
      /\ pc \in {"selector", "generation"} => binding = Target
      /\ pc = "generation" => generations = "directory" /\ current = selected

(* What a constructor found, if nobody tampered since it began.            *)
AuthorityInv ==
    alone =>
      /\ purpose = "resume" => binding = Absent
      /\ purpose = "construct" /\ pc \notin {"layout", "inspect_binding"}
           => binding = Absent
      /\ purpose = "construct" /\ pc \in Selecting => current = Absent

TamperInv ==
    /\ TypeOK /\ PurposeInv /\ NamedInv /\ QuietInv /\ AuthorityInv
    /\ ReadsAreAuthentic /\ ReceiptsReadBack

-----------------------------------------------------------------------------

(* A Snapshot, as the calls make one.                                      *)
LEMMA Goals ==
  /\ Empty \in Snapshots /\ Empty.target = Target
  /\ \A c \in Contents : /\ [target |-> Target, content |-> c] \in Snapshots
                         /\ [target |-> Target, content |-> c].target = Target
  BY TargetAssumption DEF Empty, Snapshots

(* No snapshot and no binding is a file that cannot be read.               *)
LEMMA NotFiles == {Absent, Unfit, Junk} \cap Snapshots = {} /\ Target \in Files(Bindings)
                    /\ Target # Absent
  BY FileAssumption, TargetAssumption DEF Files

LEMMA InitTamper == Init => TamperInv
<1> SUFFICES ASSUME Init PROVE TamperInv
  OBVIOUS
<1> USE DEF Init
<1>1. TypeOK
  BY DEF TypeOK, PCs, Purposes, Outcomes, Files
<1>2. PurposeInv /\ NamedInv
  BY DEF PurposeInv, NamedInv, Inspecting, Selecting, Reading
<1>3. QuietInv /\ AuthorityInv
  BY DEF QuietInv, AuthorityInv
<1>4. ReadsAreAuthentic /\ ReceiptsReadBack
  BY DEF ReadsAreAuthentic, ReceiptsReadBack
<1> QED
  BY <1>1, <1>2, <1>3, <1>4 DEF TamperInv

(* A call starts.                                                          *)
LEMMA EnterKeeps ==
  ASSUME TamperInv, NEW where \in PCs, NEW why \in Purposes,
         NEW goal \in Snapshots \cup {Absent}, Enter(where, why, goal),
         \/ where = "layout" /\ why = "construct" /\ goal \in Snapshots /\ goal.target = Target
         \/ where = "binding" /\ why = "publish" /\ goal \in Snapshots /\ goal.target = Target
         \/ where = "binding" /\ why \in {"open", "read"}
  PROVE  TamperInv'
<1> USE DEF Enter, TamperInv
<1>1. TypeOK'
  BY DEF TypeOK, store, handle, Outcomes, Files
<1>2. PurposeInv' /\ NamedInv'
  BY DEF PurposeInv, NamedInv, Inspecting, Selecting, Reading, store
<1>3. QuietInv' /\ AuthorityInv'
  BY DEF QuietInv, AuthorityInv, Selecting
<1>4. ReadsAreAuthentic' /\ ReceiptsReadBack'
  BY DEF ReadsAreAuthentic, ReceiptsReadBack
<1> QED
  BY <1>1, <1>2, <1>3, <1>4

LEMMA CallKeeps ==
  ASSUME TamperInv, Call
  PROVE  TamperInv'
<1>1. CASE Construct
  BY <1>1, EnterKeeps, Goals DEF Construct, PCs, Purposes
<1>2. CASE OpenExisting \/ Read
  BY <1>2, EnterKeeps DEF OpenExisting, Read, PCs, Purposes
<1>3. ASSUME NEW c \in Contents, Publish(c) PROVE TamperInv'
  BY <1>3, EnterKeeps, Goals DEF Publish, PCs, Purposes
<1>4. CASE Close
  <2> USE <1>4 DEF Close, TamperInv, store, locals, answer, ghosts
  <2>1. TypeOK'
    BY DEF TypeOK
  <2>2. PurposeInv' /\ NamedInv' /\ QuietInv' /\ AuthorityInv'
    BY DEF PurposeInv, NamedInv, QuietInv, AuthorityInv
  <2>3. ReadsAreAuthentic' /\ ReceiptsReadBack'
    BY DEF ReadsAreAuthentic, ReceiptsReadBack, ReadsBack, Authentic
  <2> QED
    BY <2>1, <2>2, <2>3
<1> QED
  BY <1>1, <1>2, <1>3, <1>4 DEF Call

(* A call ends, with an answer that is true.                               *)
LEMMA ReturnKeeps ==
  ASSUME TamperInv, NEW a \in Outcomes, NEW s \in Snapshots \cup {Absent}, Return(a, s),
         root_descriptor' \in BOOLEAN, expected' \in Snapshots \cup {Absent},
         a \in {"opened", "read", "admitted"}
           => s \in named /\ s \in Snapshots /\ s.target = Target,
         a \in {"published", "unconfirmed"} /\ quiet => ReadsBack(s)
  PROVE  TamperInv'
<1> USE DEF Return, TamperInv, store, ghosts
<1>1. TypeOK'
  BY DEF TypeOK, PCs, Purposes
<1>2. PurposeInv' /\ NamedInv' /\ QuietInv' /\ AuthorityInv'
  BY DEF PurposeInv, NamedInv, QuietInv, AuthorityInv, Inspecting, Selecting, Reading
<1>3. ReadsAreAuthentic' /\ ReceiptsReadBack'
  BY DEF ReadsAreAuthentic, ReceiptsReadBack, ReadsBack, Authentic
<1> QED
  BY <1>1, <1>2, <1>3

LEMMA RefuseKeeps ==
  ASSUME TamperInv, Refuse \/ FailBefore
  PROVE  TamperInv'
<1>1. UNCHANGED <<root_descriptor, expected>>
  BY DEF Refuse, FailBefore, handle
<1>2. root_descriptor' \in BOOLEAN /\ expected' \in Snapshots \cup {Absent}
  BY <1>1 DEF TamperInv, TypeOK
<1>3. \E a \in {"indeterminate", "refused", "failed_before"} : Return(a, Absent)
  BY DEF Refuse, FailBefore
<1>4. PICK a \in {"indeterminate", "refused", "failed_before"} : Return(a, Absent)
  BY <1>3
<1>5. a \in Outcomes /\ a \notin {"opened", "read", "admitted", "published", "unconfirmed"}
  BY <1>4 DEF Outcomes
<1> QED
  BY <1>2, <1>4, <1>5, ReturnKeeps

(* What a read found: it authenticates itself as what was named.           *)
LEMMA FoundFacts ==
  ASSUME TamperInv, NEW why, Found(why)
  PROVE  /\ gens[selected] = selected /\ selected \in Snapshots \cap named
         /\ selected.target = Target
         /\ why = "observe" /\ quiet => ReadsBack(selected)
<1>1. /\ gens[selected] = selected /\ gens[selected].target = Target
      /\ selected \in Snapshots \cap named /\ pc = "generation" /\ purpose = why
  BY DEF TamperInv, NamedInv, Found, Authentic
<1>2. why = "observe" /\ quiet => ReadsBack(selected)
  BY <1>1 DEF TamperInv, QuietInv, ReadsBack, Found
<1> QED
  BY <1>1, <1>2

(* The steps that hand out what was read.                                  *)
LEMMA FinishKeeps ==
  ASSUME TamperInv, FinishOpen \/ FinishRead \/ Admit \/ Observe
  PROVE  TamperInv'
<1>0. TypeOK /\ PurposeInv
  BY DEF TamperInv
<1>1. CASE FinishOpen \/ FinishRead \/ Admit
  <2>1. PICK a \in {"opened", "read", "admitted"} : Return(a, gens[selected])
    BY <1>1 DEF FinishOpen, FinishRead, Admit
  <2>2. /\ gens[selected] \in Snapshots /\ gens[selected] \in named
        /\ gens[selected].target = Target
    BY <1>1, FoundFacts DEF FinishOpen, FinishRead, Admit
  <2>3. root_descriptor' \in BOOLEAN /\ expected' \in Snapshots \cup {Absent}
    BY <1>0, <1>1, <2>2 DEF FinishOpen, FinishRead, Admit, TypeOK
  <2> QED
    BY <2>1, <2>2, <2>3, ReturnKeeps DEF Outcomes
<1>2. CASE Observe
  <2> DEFINE a == Receipt(gens[selected])
  <2>1. Found("observe") /\ Return(a, next) /\ UNCHANGED <<root_descriptor, expected>>
    BY <1>2 DEF Observe, handle
  <2>2. a \in {"indeterminate", "published", "unconfirmed"}
    BY DEF Receipt
  <2>3. a # "indeterminate" => next = selected
    BY <2>1, FoundFacts DEF Receipt
  <2>4. next \in Snapshots
    BY <1>0, <2>1 DEF PurposeInv, Found
  <2>5. a \in {"published", "unconfirmed"} /\ quiet => ReadsBack(next)
    BY <2>1, <2>3, FoundFacts
  <2> HIDE DEF a
  <2>6. root_descriptor' \in BOOLEAN /\ expected' \in Snapshots \cup {Absent}
    BY <1>0, <2>1 DEF TypeOK
  <2> QED
    BY <2>1, <2>2, <2>4, <2>5, <2>6, ReturnKeeps DEF Outcomes
<1> QED
  BY <1>1, <1>2

(* A step of the call on files that it leaves alone.                       *)
LEMMA GoKeeps ==
  ASSUME TamperInv, UNCHANGED <<store, ghosts, next, handle, answer, durability_confirmed>>,
         selected' \in Snapshots \cup {Absent}, pc' \in PCs, purpose' \in Purposes,
         PurposeInv', NamedInv', QuietInv', AuthorityInv', outcome = "none"
  PROVE  TamperInv'
<1> USE DEF TamperInv, store, ghosts, handle, answer
<1>1. TypeOK'
  BY DEF TypeOK
<1>2. ReadsAreAuthentic' /\ ReceiptsReadBack'
  BY DEF ReadsAreAuthentic, ReceiptsReadBack
<1> QED
  BY <1>1, <1>2

LEMMA ReadingKeeps ==
  ASSUME TamperInv, ReadBinding \/ ReadSelector \/ RefuseGeneration \/ CompareExpected \/ Resume
  PROVE  TamperInv'
<1> USE DEF store, locals, ghosts, handle, answer
<1>0. TypeOK /\ PurposeInv /\ NamedInv /\ QuietInv /\ AuthorityInv
  BY DEF TamperInv
<1>1. CASE ReadBinding
  <2>1. CASE Refuse
    BY <2>1, RefuseKeeps
  <2>2. CASE ~Refuse
    <3>1. /\ binding = Target /\ pc = "binding" /\ pc' = "selector" /\ purpose' = purpose
          /\ UNCHANGED <<store, ghosts, selected, next, durability_confirmed, handle, answer>>
      BY <1>1, <2>2 DEF ReadBinding, GotoFor, Goto
    <3>2. PurposeInv' /\ NamedInv' /\ QuietInv' /\ AuthorityInv' /\ outcome = "none"
      BY <1>0, <3>1 DEF PurposeInv, NamedInv, QuietInv, AuthorityInv, Inspecting, Selecting,
           Reading
    <3> QED
      BY <1>0, <3>1, <3>2, GoKeeps DEF TypeOK, PCs
  <2> QED
    BY <2>1, <2>2
<1>2. CASE ReadSelector
  <2>1. CASE Refuse
    BY <2>1, RefuseKeeps
  <2>2. CASE ~Refuse
    <3>1. /\ generations = "directory" /\ current \in Snapshots /\ selected' = current
          /\ pc = "selector" /\ pc' = "generation" /\ purpose' = purpose
          /\ UNCHANGED <<store, ghosts, next, durability_confirmed, handle, answer>>
      BY <1>2, <2>2 DEF ReadSelector, Goto
    <3>2. PurposeInv' /\ NamedInv' /\ QuietInv' /\ AuthorityInv' /\ outcome = "none"
      BY <1>0, <3>1 DEF PurposeInv, NamedInv, QuietInv, AuthorityInv, Inspecting, Selecting,
           Reading
    <3> QED
      BY <1>0, <3>1, <3>2, GoKeeps DEF TypeOK, PCs
  <2> QED
    BY <2>1, <2>2
<1>3. CASE RefuseGeneration
  BY <1>3, RefuseKeeps DEF RefuseGeneration
<1>4. CASE CompareExpected
  <2>1. CASE /\ GotoFor("generation", "ensure", "publish") /\ UNCHANGED <<store, ghosts>>
    <3>1. PurposeInv' /\ NamedInv' /\ QuietInv' /\ AuthorityInv' /\ outcome = "none"
      BY <1>0, <1>4, <2>1 DEF CompareExpected, Found, GotoFor, Goto, PurposeInv, NamedInv,
           QuietInv, AuthorityInv, Inspecting, Selecting, Reading
    <3> QED
      BY <1>0, <2>1, <3>1, GoKeeps DEF GotoFor, Goto, TypeOK, PCs, Purposes
  <2>2. CASE Return("stale", Absent) /\ UNCHANGED handle
    BY <1>0, <2>2, ReturnKeeps DEF TypeOK, Outcomes
  <2> QED
    BY <1>4, <2>1, <2>2 DEF CompareExpected
<1>5. CASE Resume
  <2>1. CASE Refuse
    BY <2>1, RefuseKeeps
  <2>2. CASE /\ GotoFor("generation", "write_binding", "construct")
             /\ UNCHANGED <<store, ghosts>>
    <3>1. PurposeInv' /\ NamedInv' /\ QuietInv' /\ AuthorityInv' /\ outcome = "none"
      BY <1>0, <1>5, <2>2 DEF Resume, Found, GotoFor, Goto, PurposeInv, NamedInv, QuietInv,
           AuthorityInv, Inspecting, Selecting, Reading
    <3> QED
      BY <1>0, <2>2, <3>1, GoKeeps DEF GotoFor, Goto, TypeOK, PCs, Purposes
  <2> QED
    BY <1>5, <2>1, <2>2 DEF Resume
<1> QED
  BY <1>1, <1>2, <1>3, <1>4, <1>5

-----------------------------------------------------------------------------
(* Construction.                                                           *)

LEMMA ConstructionKeeps ==
  ASSUME TamperInv, EnsureLayout \/ InspectBinding \/ InspectSelector \/ WriteBinding
  PROVE  TamperInv'
<1> USE DEF store, locals, ghosts, handle, answer
<1>0. TypeOK /\ PurposeInv /\ NamedInv /\ QuietInv /\ AuthorityInv
  BY DEF TamperInv
<1>1. CASE Refuse
  BY <1>1, RefuseKeeps
<1>2. CASE InspectBinding /\ ~Refuse
  <2>1. /\ UNCHANGED <<store, ghosts, selected, next, durability_confirmed, handle, answer>>
        /\ pc = "inspect_binding"
        /\ \/ binding = Absent /\ pc' = "inspect_selector" /\ purpose' = purpose
           \/ binding = Target /\ pc' = "selector" /\ purpose' = "bound"
    BY <1>2 DEF InspectBinding, GotoFor, Goto
  <2>2. PurposeInv' /\ NamedInv' /\ QuietInv' /\ AuthorityInv' /\ outcome = "none"
    BY <1>0, <2>1 DEF PurposeInv, NamedInv, QuietInv, AuthorityInv, Inspecting, Selecting,
         Reading
  <2> QED
    BY <1>0, <2>1, <2>2, GoKeeps DEF TypeOK, PCs, Purposes
<1>3. CASE InspectSelector /\ ~Refuse
  <2>1. /\ UNCHANGED <<store, ghosts, selected, next, durability_confirmed, handle, answer>>
        /\ pc = "inspect_selector"
        /\ \/ current = Absent /\ pc' = "ensure" /\ purpose' = "construct"
           \/ pc' = "selector" /\ purpose' = "resume"
    BY <1>3 DEF InspectSelector, GotoFor, Goto
  <2>2. PurposeInv' /\ NamedInv' /\ QuietInv' /\ AuthorityInv' /\ outcome = "none"
    BY <1>0, <2>1 DEF PurposeInv, NamedInv, QuietInv, AuthorityInv, Inspecting, Selecting,
         Reading
  <2> QED
    BY <1>0, <2>1, <2>2, GoKeeps DEF TypeOK, PCs, Purposes
<1>4. CASE EnsureLayout /\ ~Refuse
  <2>1. /\ UNCHANGED <<binding, current, ghosts, locals, handle, answer>>
        /\ pc = "layout" /\ pc' = "inspect_binding" /\ generations' = "directory"
        /\ gens' = IF generations = "absent" THEN [s \in Snapshots |-> Absent] ELSE gens
    BY <1>4 DEF EnsureLayout, GotoFor, Goto
  <2>2. PurposeInv' /\ NamedInv' /\ QuietInv' /\ AuthorityInv' /\ outcome = "none"
    BY <1>0, <2>1 DEF PurposeInv, NamedInv, QuietInv, AuthorityInv, Inspecting, Selecting,
         Reading
  <2>3. TypeOK'
    BY <1>0, <2>1 DEF TypeOK, Files, PCs
  <2>4. ReadsAreAuthentic' /\ ReceiptsReadBack'
    BY <2>1, <2>2 DEF ReadsAreAuthentic, ReceiptsReadBack
  <2> QED
    BY <2>2, <2>3, <2>4 DEF TamperInv
<1>5. CASE WriteBinding /\ ~Refuse
  <2>1. /\ UNCHANGED <<current, generations, gens, ghosts, selected, next,
                       durability_confirmed, handle, answer>>
        /\ binding' = Target
        /\ pc = "write_binding" /\ pc' = "binding" /\ purpose' = "admit"
    BY <1>5 DEF WriteBinding, GotoFor, Goto
  <2>2. PurposeInv' /\ NamedInv' /\ QuietInv' /\ AuthorityInv' /\ outcome = "none"
    BY <1>0, <2>1 DEF PurposeInv, NamedInv, QuietInv, AuthorityInv, Inspecting, Selecting,
         Reading
  <2>3. TypeOK'
    BY <1>0, <2>1, NotFiles DEF TypeOK, PCs, Purposes
  <2>4. ReadsAreAuthentic' /\ ReceiptsReadBack'
    BY <2>1, <2>2 DEF ReadsAreAuthentic, ReceiptsReadBack
  <2> QED
    BY <2>2, <2>3, <2>4 DEF TamperInv
<1> QED
  BY <1>1, <1>2, <1>3, <1>4, <1>5

-----------------------------------------------------------------------------
(* Publication.                                                            *)

LEMMA PublicationKeeps ==
  ASSUME TamperInv, EnsureGeneration \/ ValidateExisting \/ InstallGeneration
                      \/ SelectGeneration \/ SyncRoot
  PROVE  TamperInv'
<1> USE DEF store, locals, ghosts, handle, answer
<1>0. TypeOK /\ PurposeInv /\ NamedInv /\ QuietInv /\ AuthorityInv
  BY DEF TamperInv
<1>1. CASE Refuse \/ FailBefore
  BY <1>1, RefuseKeeps
<1>2. CASE EnsureGeneration /\ ~Refuse
  <2>1. /\ UNCHANGED <<store, ghosts, locals, handle, answer>>
        /\ pc = "ensure" /\ pc' \in {"install", "validate"}
    BY <1>2 DEF EnsureGeneration
  <2>2. PurposeInv' /\ NamedInv' /\ QuietInv' /\ AuthorityInv' /\ outcome = "none"
    BY <1>0, <2>1 DEF PurposeInv, NamedInv, QuietInv, AuthorityInv, Inspecting, Selecting,
         Reading
  <2> QED
    BY <1>0, <2>1, <2>2, GoKeeps DEF TypeOK, PCs, Purposes
<1>3. CASE ValidateExisting /\ ~Refuse
  <2>1. /\ UNCHANGED <<store, ghosts, locals, handle, answer>>
        /\ pc = "validate" /\ pc' = "select"
    BY <1>3 DEF ValidateExisting, GotoFor, Goto
  <2>2. PurposeInv' /\ NamedInv' /\ QuietInv' /\ AuthorityInv' /\ outcome = "none"
    BY <1>0, <2>1 DEF PurposeInv, NamedInv, QuietInv, AuthorityInv, Inspecting, Selecting,
         Reading
  <2> QED
    BY <1>0, <2>1, <2>2, GoKeeps DEF TypeOK, PCs, Purposes
<1>4. CASE InstallGeneration
  <2>1. /\ UNCHANGED <<binding, current, generations, ghosts, locals, handle, answer>>
        /\ pc = "install" /\ pc' \in {"select", "validate"}
        /\ gens' = gens \/ gens' = [gens EXCEPT ![next] = next]
    BY <1>4 DEF InstallGeneration, GotoFor, Goto
  <2>2. PurposeInv' /\ NamedInv' /\ QuietInv' /\ AuthorityInv' /\ outcome = "none"
    BY <1>0, <2>1 DEF PurposeInv, NamedInv, QuietInv, AuthorityInv, Inspecting, Selecting,
         Reading
  <2>3. next \in Snapshots
    BY <1>0, <2>1 DEF PurposeInv, Selecting
  <2>4. TypeOK'
    BY <1>0, <2>1, <2>3 DEF TypeOK, Files, PCs
  <2>5. ReadsAreAuthentic' /\ ReceiptsReadBack'
    BY <2>1, <2>2 DEF ReadsAreAuthentic, ReceiptsReadBack
  <2> QED
    BY <2>2, <2>4, <2>5 DEF TamperInv
<1>5. CASE SelectGeneration /\ ~FailBefore
  <2>1. /\ UNCHANGED <<binding, generations, gens, tampers, alone, locals, handle, answer>>
        /\ pc = "select" /\ pc' = "sync_root"
        /\ current' = next /\ named' = named \cup {next} /\ quiet' = TRUE
    BY <1>5 DEF SelectGeneration, GotoFor, Goto
  <2>2. PurposeInv' /\ NamedInv' /\ QuietInv' /\ AuthorityInv' /\ outcome = "none"
    BY <1>0, <2>1 DEF PurposeInv, NamedInv, QuietInv, AuthorityInv, Inspecting, Selecting,
         Reading
  <2>3. next \in Snapshots
    BY <1>0, <2>1 DEF PurposeInv, Selecting
  <2>4. TypeOK'
    BY <1>0, <2>1, <2>3 DEF TypeOK, Files, PCs
  <2>5. ReadsAreAuthentic' /\ ReceiptsReadBack'
    BY <2>1, <2>2 DEF ReadsAreAuthentic, ReceiptsReadBack
  <2> QED
    BY <2>2, <2>4, <2>5 DEF TamperInv
<1>6. CASE SyncRoot /\ ~Refuse
  <2>1. /\ UNCHANGED <<store, ghosts, selected, next, handle, answer>> /\ pc = "sync_root"
        /\ \/ pc' = "binding" /\ purpose' = "observe" /\ durability_confirmed' \in BOOLEAN
              /\ purpose = "publish"
           \/ pc' = "write_binding" /\ purpose' = purpose /\ purpose = "construct"
              /\ UNCHANGED durability_confirmed
    BY <1>6 DEF SyncRoot, GotoFor, Goto
  <2>2. PurposeInv' /\ NamedInv' /\ QuietInv' /\ AuthorityInv' /\ outcome = "none"
    BY <1>0, <2>1 DEF PurposeInv, NamedInv, QuietInv, AuthorityInv, Inspecting, Selecting,
         Reading
  <2>3. TypeOK'
    BY <1>0, <2>1 DEF TypeOK, PCs, Purposes
  <2>4. ReadsAreAuthentic' /\ ReceiptsReadBack'
    BY <2>1, <2>2 DEF ReadsAreAuthentic, ReceiptsReadBack
  <2> QED
    BY <2>2, <2>3, <2>4 DEF TamperInv
<1> QED
  BY <1>1, <1>2, <1>3, <1>4, <1>5, <1>6

-----------------------------------------------------------------------------
(* The foreign writer.                                                     *)

LEMMA TamperKeeps ==
  ASSUME TamperInv, Tamper
  PROVE  TamperInv'
<1> USE DEF locals, handle, answer
<1>0. TypeOK /\ PurposeInv /\ NamedInv /\ ReadsAreAuthentic
  BY DEF TamperInv
<1>1. /\ UNCHANGED <<pc, locals, handle, answer>> /\ tampers' = tampers + 1
      /\ named' = named \cup {current'} /\ alone' = FALSE /\ quiet' = FALSE
  BY DEF Tamper
<1>2. /\ binding' \in Files(Bindings) /\ current' \in Files(Snapshots)
      /\ generations' \in {"absent", "directory", "other"}
  BY <1>0 DEF Tamper, TypeOK
<1>3. gens' \in [Snapshots -> Files(Snapshots)]
  <2>1. \/ gens' = gens
        \/ \E s \in Snapshots, f \in Files(Snapshots) : gens' = [gens EXCEPT ![s] = f]
    BY DEF Tamper
  <2> QED
    BY <1>0, <2>1 DEF TypeOK
<1>4. TypeOK'
  <2>1. named' \subseteq Files(Snapshots) /\ tampers' \in Nat
    BY <1>0, <1>1, <1>2 DEF TypeOK
  <2>2. /\ pc' \in PCs /\ purpose' \in Purposes /\ outcome' \in Outcomes
        /\ root_descriptor' \in BOOLEAN /\ durability_confirmed' \in BOOLEAN
        /\ expected' \in Snapshots \cup {Absent} /\ selected' \in Snapshots \cup {Absent}
        /\ next' \in Snapshots \cup {Absent} /\ result' \in Snapshots \cup {Absent}
    BY <1>0, <1>1 DEF TypeOK
  <2>3. alone' \in BOOLEAN /\ quiet' \in BOOLEAN
    BY <1>1
  <2> QED
    BY <1>2, <1>3, <2>1, <2>2, <2>3 DEF TypeOK
<1>5. PurposeInv' /\ NamedInv' /\ QuietInv' /\ AuthorityInv'
  BY <1>0, <1>1 DEF PurposeInv, NamedInv, QuietInv, AuthorityInv
<1>6. ReadsAreAuthentic' /\ ReceiptsReadBack'
  BY <1>0, <1>1 DEF ReadsAreAuthentic, ReceiptsReadBack
<1> QED
  BY <1>4, <1>5, <1>6 DEF TamperInv

LEMMA NextTamper == TamperInv /\ [Next]_vars => TamperInv'
<1> SUFFICES ASSUME TamperInv, [Next]_vars PROVE TamperInv'
  OBVIOUS
<1>1. CASE UNCHANGED vars
  <2> USE <1>1 DEF vars, store, locals, handle, answer, ghosts, TamperInv
  <2>1. TypeOK' /\ PurposeInv' /\ NamedInv' /\ QuietInv' /\ AuthorityInv'
    BY DEF TypeOK, PurposeInv, NamedInv, QuietInv, AuthorityInv
  <2>2. ReadsAreAuthentic' /\ ReceiptsReadBack'
    BY DEF ReadsAreAuthentic, ReceiptsReadBack, ReadsBack, Authentic
  <2> QED
    BY <2>1, <2>2
<1> QED
  BY <1>1, CallKeeps, ReadingKeeps, FinishKeeps, ConstructionKeeps, PublicationKeeps,
     TamperKeeps DEF Next, Step

-----------------------------------------------------------------------------
(* What a step never does.                                                 *)

(* Most steps leave the store alone.                                       *)
LEMMA StoreKept ==
  ASSUME [Next]_vars, ~EnsureLayout, ~WriteBinding, ~InstallGeneration, ~SelectGeneration,
         ~Tamper
  PROVE  UNCHANGED store
<1> USE DEF store
<1>1. CASE UNCHANGED vars
  BY <1>1 DEF vars
<1>2. CASE Call
  BY <1>2 DEF Call, Construct, OpenExisting, Read, Publish, Close, Enter
<1>3. CASE \/ ReadBinding \/ ReadSelector \/ RefuseGeneration
  BY <1>3 DEF ReadBinding, ReadSelector, RefuseGeneration, Refuse, Return
<1>4. CASE \/ FinishOpen \/ FinishRead \/ CompareExpected \/ Resume \/ Admit \/ Observe
  BY <1>4 DEF FinishOpen, FinishRead, CompareExpected, Resume, Admit, Observe, Refuse, Return
<1>5. CASE \/ InspectBinding \/ InspectSelector \/ EnsureGeneration \/ ValidateExisting
           \/ SyncRoot
  BY <1>5 DEF InspectBinding, InspectSelector, EnsureGeneration, ValidateExisting, SyncRoot,
       Refuse, Return
<1> QED
  BY <1>1, <1>2, <1>3, <1>4, <1>5 DEF Next, Step

LEMMA StepImmutable ==
  ASSUME TamperInv, [Next]_vars, tampers' = tampers, generations' = generations,
         NEW s \in Snapshots, gens[s] # Absent
  PROVE  gens'[s] = gens[s]
<1>1. ~Tamper
  BY DEF Tamper, TamperInv, TypeOK
<1>2. CASE EnsureLayout
  BY <1>2 DEF EnsureLayout, Refuse, Return, store
<1>3. CASE InstallGeneration
  BY <1>3 DEF InstallGeneration, TamperInv, TypeOK, store
<1>4. CASE WriteBinding \/ SelectGeneration
  BY <1>4 DEF WriteBinding, SelectGeneration, Refuse, FailBefore, Return, store
<1> QED
  BY <1>1, <1>2, <1>3, <1>4, StoreKept DEF store

LEMMA StepKeepsAuthority ==
  ASSUME TamperInv, [Next]_vars, tampers' = tampers, alone
  PROVE  /\ binding # Absent => binding' = binding
         /\ purpose # "publish" /\ current # Absent => current' = current
<1>0. ~Tamper /\ PurposeInv /\ AuthorityInv
  BY DEF Tamper, TamperInv, TypeOK
<1>1. CASE EnsureLayout \/ InstallGeneration
  BY <1>1 DEF EnsureLayout, InstallGeneration, Refuse, Return, store
<1>2. CASE WriteBinding
  <2>1. pc = "write_binding" /\ current' = current
    BY <1>2 DEF WriteBinding, GotoFor, Goto, Refuse, Return, store
  <2>2. binding = Absent
    BY <1>0, <2>1 DEF PurposeInv, AuthorityInv
  <2> QED
    BY <2>1, <2>2
<1>3. CASE SelectGeneration
  <2>1. pc = "select" /\ binding' = binding
    BY <1>3 DEF SelectGeneration, GotoFor, Goto, FailBefore, Return, store
  <2>2. purpose = "publish" \/ current = Absent
    BY <1>0, <2>1 DEF PurposeInv, AuthorityInv, Selecting
  <2> QED
    BY <2>1, <2>2
<1> QED
  BY <1>0, <1>1, <1>2, <1>3, StoreKept DEF store

-----------------------------------------------------------------------------

(* The invariant holds whatever is done to the files, and however often.   *)
THEOREM TamperInvariant == Spec => []TamperInv
<1> QED
  BY InitTamper, NextTamper, PTL DEF Spec

(* Every variable keeps its type.                                          *)
THEOREM TamperTypes == Spec => []TypeOK
<1>1. TamperInv => TypeOK
  BY DEF TamperInv
<1> QED
  BY <1>1, TamperInvariant, PTL

(* What opening, reading and constructing hand out is a snapshot of the    *)
(* client's own target that the selector named during the call, although   *)
(* each of the three files may be exchanged between any two reads.         *)
THEOREM AuthenticReads == Spec => []ReadsAreAuthentic
<1>1. TamperInv => ReadsAreAuthentic
  BY DEF TamperInv
<1> QED
  BY <1>1, TamperInvariant, PTL

(* A receipt that says "published" or "unconfirmed" says that the store    *)
(* reads back the result, unless somebody tampered after the selection.    *)
THEOREM TrueReceipts == Spec => []ReceiptsReadBack
<1>1. TamperInv => ReceiptsReadBack
  BY DEF TamperInv
<1> QED
  BY <1>1, TamperInvariant, PTL

(* No client replaces or repairs a generation that is there.               *)
THEOREM ImmutableGenerations == Spec => GenerationsImmutable
<1>1. TamperInv /\ [Next]_vars
        => [tampers' = tampers /\ generations' = generations =>
              \A s \in Snapshots : gens[s] # Absent => gens'[s] = gens[s]]_vars
  BY StepImmutable
<1> QED
  BY <1>1, TamperInvariant, PTL DEF Spec, GenerationsImmutable

(* In a store that nobody else touches, no client replaces a binding and   *)
(* no constructor a selector, readable or not.                             *)
THEOREM KeptAuthority == Spec => AuthorityKept
<1>1. TamperInv /\ [Next]_vars
        => [tampers' = tampers /\ alone =>
              /\ binding # Absent => binding' = binding
              /\ purpose # "publish" /\ current # Absent => current' = current]_vars
  BY StepKeepsAuthority
<1> QED
  BY <1>1, TamperInvariant, PTL DEF Spec, AuthorityKept
=============================================================================
