---------------------------- MODULE TamperedStore ----------------------------
(***************************************************************************)
(* One client of the store of canonical_generation_store.cpp beside a      *)
(* writer that ignores the lock: an administrator, a restored backup, a    *)
(* damaged disk. GenerationStore says what well-behaved processes do to    *)
(* each other; here a file may become anything between any two system      *)
(* calls, and every read goes file by file. Other clients of the library   *)
(* are outside while this one holds the lock, so one is enough.            *)
(*                                                                         *)
(* A file is Absent, Unfit, Junk, or the value its bytes decode to. Unfit  *)
(* is what read_file_at refuses before it looks at a byte: a symbolic      *)
(* link, a FIFO, a writable or multiply linked or overlong file; for a     *)
(* generation also a directory that is none or that is writable. Junk is   *)
(* bytes that do not parse. A snapshot stands for its identity and for its *)
(* encoding. Temporaries are left alone by the foreign writer.             *)
(***************************************************************************)
EXTENDS Integers

CONSTANTS
    Bindings,       \* state targets
    Target,         \* the one this client was given
    Contents,       \* package contents a snapshot may have
    EmptyContent,   \* no packages
    Absent, Unfit, Junk,
    MaxTampers      \* bound on what the foreign writer does

Snapshots == [target : Bindings, content : Contents]
Empty     == [target |-> Target, content |-> EmptyContent]
Files(values) == values \cup {Absent, Unfit, Junk}

ASSUME TargetAssumption == Target \in Bindings /\ EmptyContent \in Contents
ASSUME FileAssumption   == {Absent, Unfit, Junk} \cap (Bindings \cup Snapshots) = {}
ASSUME TamperAssumption == MaxTampers \in Nat

VARIABLES
    binding, current,  \* the two files in the root
    generations,       \* what the root's entry generations is
    gens,              \* the entries of that directory, by final name
    pc,                \* where the client stands in its call
    purpose,           \* what it reads the store for
    root_descriptor,   \* does it hold an admitted handle
    expected,          \* the snapshot it last read
    selected,          \* the identity parsed from the selector
    next,              \* the snapshot the call would select
    durability_confirmed,
    outcome,           \* the answer of the last call, and ...
    result,            \* ... the snapshot it returned or published
    tampers,           \* how often the foreign writer struck
    named,             \* ghost: what current named since the call began
    alone,             \* ghost: nobody tampered since the call began, ...
    quiet              \* ghost: ... since the call renamed the selector

store  == <<binding, current, generations, gens>>
locals == <<purpose, selected, next, durability_confirmed>>
handle == <<root_descriptor, expected>>
answer == <<outcome, result>>
ghosts == <<tampers, named, alone, quiet>>
vars   == <<store, pc, locals, handle, answer, ghosts>>

PCs == {"idle", "layout", "inspect_binding", "inspect_selector", "binding", "selector",
        "generation", "ensure", "validate", "install", "select", "sync_root",
        "write_binding"}
Purposes == {"none", "open", "read", "publish", "construct", "bound", "resume", "admit",
             "observe"}
Outcomes == {"none", "opened", "read", "stale", "refused", "admitted", "failed_before",
             "published", "unconfirmed", "indeterminate"}

Init ==
    /\ binding = Absent /\ current = Absent /\ generations = "absent"
    /\ gens = [s \in Snapshots |-> Absent]
    /\ pc = "idle" /\ purpose = "none"
    /\ root_descriptor = FALSE /\ expected = Absent
    /\ selected = Absent /\ next = Absent /\ durability_confirmed = FALSE
    /\ outcome = "none" /\ result = Absent
    /\ tampers = 0 /\ named = {} /\ alone = TRUE /\ quiet = TRUE

-----------------------------------------------------------------------------
(* Calls.                                                                  *)

(* A call takes the lock and starts at one of its steps.                   *)
Enter(where, why, goal) ==
    /\ pc = "idle" /\ pc' = where
    /\ purpose' = why /\ next' = goal
    /\ selected' = Absent /\ durability_confirmed' = FALSE
    /\ outcome' = "none" /\ result' = Absent
    /\ named' = {current} /\ alone' = TRUE /\ quiet' = TRUE
    /\ UNCHANGED <<store, handle, tampers>>

Construct    == ~root_descriptor /\ Enter("layout", "construct", Empty)
OpenExisting == ~root_descriptor /\ Enter("binding", "open", Absent)
Read         == root_descriptor /\ Enter("binding", "read", Absent)
Publish(c)   == /\ root_descriptor /\ expected # Absent
                /\ Enter("binding", "publish", [target |-> Target, content |-> c])

Close == /\ pc = "idle" /\ root_descriptor
         /\ root_descriptor' = FALSE /\ expected' = Absent
         /\ UNCHANGED <<store, pc, locals, answer, ghosts>>

(* The call goes on with a step that reads for the same or a new purpose.  *)
Goto(from, to) == pc = from /\ pc' = to
GotoFor(from, to, why) ==
    /\ Goto(from, to) /\ purpose' = why
    /\ UNCHANGED <<selected, next, durability_confirmed, handle, answer>>

Return(a, s) == /\ pc' = "idle" /\ purpose' = "none"
                /\ selected' = Absent /\ next' = Absent /\ durability_confirmed' = FALSE
                /\ outcome' = a /\ result' = s
                /\ UNCHANGED <<store, ghosts>>

(* store_error leaves the call; only the reread of publish() catches it.   *)
Refuse == /\ Return(IF purpose = "observe" THEN "indeterminate" ELSE "refused", Absent)
          /\ UNCHANGED handle

(* before_selection_failure, which publish() answers.                      *)
FailBefore == /\ Return(IF purpose = "publish" THEN "failed_before" ELSE "refused", Absent)
              /\ UNCHANGED handle

-----------------------------------------------------------------------------
(* read_snapshot_locked: the binding, the selector, the generation.        *)

ReadBinding ==
    \/ /\ binding = Target
       /\ GotoFor("binding", "selector", purpose)
       /\ UNCHANGED <<store, ghosts>>
    \/ pc = "binding" /\ binding # Target /\ Refuse

(* Variant of ReadSelector: what current holds is not parsed.              *)
ReadSelectorUnparsed ==
    \/ /\ generations = "directory" /\ current \notin {Absent, Unfit}
       /\ Goto("selector", "generation")
       /\ selected' = current
       /\ UNCHANGED <<store, purpose, next, durability_confirmed, handle, answer, ghosts>>
    \/ /\ pc = "selector"
       /\ generations # "directory" \/ current \in {Absent, Unfit}
       /\ Refuse

(* generations/ is opened first, then current is read and parsed.          *)
ReadSelector ==
    \/ /\ generations = "directory" /\ current \in Snapshots
       /\ Goto("selector", "generation")
       /\ selected' = current
       /\ UNCHANGED <<store, purpose, next, durability_confirmed, handle, answer, ghosts>>
    \/ /\ pc = "selector"
       /\ generations # "directory" \/ current \notin Snapshots
       /\ Refuse

(* Variant of Authentic: the identity is not compared.                     *)
AuthenticByTarget(s) == gens[s] \in Snapshots /\ gens[s].target = Target

(* read_generation_at: what the selected generation holds decodes to a     *)
(* snapshot of this target, and to the identity under which it was found.  *)
Authentic(s) == gens[s] \in Snapshots /\ gens[s].target = Target /\ gens[s] = s

RefuseGeneration == pc = "generation" /\ ~Authentic(selected) /\ Refuse

(* What a read is for: it is handed out, ...                               *)
Found(why) == pc = "generation" /\ purpose = why /\ Authentic(selected)

FinishOpen ==
    /\ Found("open")
    /\ Return("opened", gens[selected])
    /\ root_descriptor' = TRUE
    /\ UNCHANGED expected

FinishRead ==
    /\ Found("read")
    /\ Return("read", gens[selected])
    /\ expected' = gens[selected]
    /\ UNCHANGED root_descriptor

(* ... compared with the one the caller expects, ...                       *)
CompareExpected ==
    /\ Found("publish")
    /\ \/ gens[selected] = expected /\ GotoFor("generation", "ensure", "publish")
                                    /\ UNCHANGED <<store, ghosts>>
       \/ gens[selected] # expected /\ Return("stale", Absent) /\ UNCHANGED handle

(* ... found to be the empty one of an unbound store, ...                  *)
Resume ==
    /\ Found("resume")
    /\ \/ gens[selected] = Empty /\ GotoFor("generation", "write_binding", "construct")
                                 /\ UNCHANGED <<store, ghosts>>
       \/ gens[selected] # Empty /\ Refuse

(* ... what a constructor needs to be admitted, ...                        *)
Admit ==
    /\ Found("bound") \/ Found("admit")
    /\ Return("admitted", gens[selected])
    /\ root_descriptor' = TRUE
    /\ UNCHANGED expected

(* ... or the evidence for the receipt of a publication.                   *)
Receipt(s) == IF s # next THEN "indeterminate"
              ELSE IF durability_confirmed THEN "published" ELSE "unconfirmed"

Observe ==
    /\ Found("observe")
    /\ Return(Receipt(gens[selected]), next)
    /\ UNCHANGED handle

-----------------------------------------------------------------------------
(* initialize().                                                           *)

(* ensure_directory_at: mkdir, or whatever is there is opened.             *)
EnsureLayout ==
    \/ /\ generations # "other"
       /\ GotoFor("layout", "inspect_binding", purpose)
       /\ generations' = "directory"
       /\ gens' = IF generations = "absent" THEN [s \in Snapshots |-> Absent] ELSE gens
       /\ UNCHANGED <<binding, current, ghosts>>
    \/ pc = "layout" /\ generations = "other" /\ Refuse

(* Variant of InspectBinding: a binding that cannot be read is none.       *)
InspectBindingLeniently ==
    \/ /\ GotoFor("inspect_binding",
                  IF binding = Target THEN "selector" ELSE "inspect_selector",
                  IF binding = Target THEN "bound" ELSE purpose)
       /\ binding \in Files({Target})
       /\ UNCHANGED <<store, ghosts>>
    \/ pc = "inspect_binding" /\ binding \notin Files({Target}) /\ Refuse

InspectBinding ==
    \/ /\ binding = Absent
       /\ GotoFor("inspect_binding", "inspect_selector", purpose)
       /\ UNCHANGED <<store, ghosts>>
    \/ /\ binding = Target
       /\ GotoFor("inspect_binding", "selector", "bound")
       /\ UNCHANGED <<store, ghosts>>
    \/ pc = "inspect_binding" /\ binding \notin {Absent, Target} /\ Refuse

InspectSelector ==
    \/ /\ current = Absent
       /\ GotoFor("inspect_selector", "ensure", "construct")
       /\ UNCHANGED <<store, ghosts>>
    \/ /\ current \notin {Absent, Unfit}
       /\ GotoFor("inspect_selector", "selector", "resume")
       /\ UNCHANGED <<store, ghosts>>
    \/ pc = "inspect_selector" /\ current = Unfit /\ Refuse

(* The rename of the binding; what is in its way may be a directory.       *)
WriteBinding ==
    \/ /\ GotoFor("write_binding", "binding", "admit")
       /\ binding' = Target
       /\ UNCHANGED <<current, generations, gens, ghosts>>
    \/ pc = "write_binding" /\ binding = Unfit /\ Refuse

-----------------------------------------------------------------------------
(* ensure_generation() and the selection.                                  *)

(* The directory is opened; is there an entry under the final name?        *)
EnsureGeneration ==
    \/ /\ generations = "directory"
       /\ pc = "ensure"
       /\ pc' = IF gens[next] = Absent THEN "install" ELSE "validate"
       /\ UNCHANGED <<store, locals, handle, answer, ghosts>>
    \/ pc = "ensure" /\ generations # "directory" /\ Refuse

(* validate_existing_generation, of an entry found or met by the rename.   *)
ValidateExisting ==
    \/ /\ GotoFor("validate", "select", purpose)
       /\ gens[next] = next
       /\ UNCHANGED <<store, ghosts>>
    \/ pc = "validate" /\ gens[next] # next /\ Refuse

(* Variant of InstallGeneration: a plain rename.                           *)
InstallGenerationReplacing ==
    /\ GotoFor("install", "select", purpose)
    /\ gens' = [gens EXCEPT ![next] = next]
    /\ UNCHANGED <<binding, current, generations, ghosts>>

(* renameat2(RENAME_NOREPLACE); on EEXIST the temporary is removed and the *)
(* entry that came in between is judged.                                   *)
InstallGeneration ==
    \/ /\ GotoFor("install", "select", purpose)
       /\ gens[next] = Absent
       /\ gens' = [gens EXCEPT ![next] = next]
       /\ UNCHANGED <<binding, current, generations, ghosts>>
    \/ /\ GotoFor("install", "validate", purpose)
       /\ gens[next] # Absent
       /\ UNCHANGED <<store, ghosts>>

(* The rename of the selector; what is in its way may be a directory.      *)
SelectGeneration ==
    \/ /\ GotoFor("select", "sync_root", purpose)
       /\ current' = next
       /\ named' = named \cup {next} /\ quiet' = TRUE
       /\ UNCHANGED <<binding, generations, gens, tampers, alone>>
    \/ pc = "select" /\ current = Unfit /\ FailBefore

(* Variant of SyncRoot: a synchronised root is answered without a reread.  *)
SyncRootUnread ==
    \/ /\ pc = "sync_root" /\ purpose = "publish"
       /\ Return("published", next) /\ UNCHANGED handle
    \/ /\ purpose = "construct"
       /\ GotoFor("sync_root", "write_binding", purpose)
       /\ UNCHANGED <<store, ghosts>>

(* fsync of the root: publish() goes on whatever it returns, initialize()  *)
(* only when it succeeds.                                                  *)
SyncRoot ==
    \/ \E confirmed \in BOOLEAN :
         /\ purpose = "publish"
         /\ Goto("sync_root", "binding") /\ purpose' = "observe"
         /\ durability_confirmed' = confirmed
         /\ UNCHANGED <<store, selected, next, handle, answer, ghosts>>
    \/ /\ purpose = "construct"
       /\ GotoFor("sync_root", "write_binding", purpose)
       /\ UNCHANGED <<store, ghosts>>
    \/ pc = "sync_root" /\ purpose = "construct" /\ Refuse

-----------------------------------------------------------------------------
(* The foreign writer makes of one file whatever it likes.                 *)
Tamper ==
    /\ tampers < MaxTampers
    /\ tampers' = tampers + 1
    /\ \/ binding' \in Files(Bindings) /\ UNCHANGED <<current, generations, gens>>
       \/ current' \in Files(Snapshots) /\ UNCHANGED <<binding, generations, gens>>
       \/ /\ generations' \in {"absent", "directory", "other"}
          /\ UNCHANGED <<binding, current, gens>>
       \/ /\ \E s \in Snapshots, f \in Files(Snapshots) : gens' = [gens EXCEPT ![s] = f]
          /\ UNCHANGED <<binding, current, generations>>
    /\ named' = named \cup {current'} /\ alone' = FALSE /\ quiet' = FALSE
    /\ UNCHANGED <<pc, locals, handle, answer>>

Call == Construct \/ OpenExisting \/ Read \/ (\E c \in Contents : Publish(c)) \/ Close

Step == \/ ReadBinding \/ ReadSelector \/ RefuseGeneration
        \/ FinishOpen \/ FinishRead \/ CompareExpected \/ Resume \/ Admit \/ Observe
        \/ EnsureLayout \/ InspectBinding \/ InspectSelector \/ WriteBinding
        \/ EnsureGeneration \/ ValidateExisting \/ InstallGeneration
        \/ SelectGeneration \/ SyncRoot

Next == Call \/ Step \/ Tamper

Spec == Init /\ [][Next]_vars

-----------------------------------------------------------------------------

(* Every variable keeps its type.                                          *)
TypeOK ==
    /\ binding \in Files(Bindings) /\ current \in Files(Snapshots)
    /\ generations \in {"absent", "directory", "other"}
    /\ gens \in [Snapshots -> Files(Snapshots)]
    /\ pc \in PCs /\ purpose \in Purposes
    /\ root_descriptor \in BOOLEAN /\ durability_confirmed \in BOOLEAN
    /\ expected \in Snapshots \cup {Absent} /\ selected \in Snapshots \cup {Absent}
    /\ next \in Snapshots \cup {Absent}
    /\ outcome \in Outcomes /\ result \in Snapshots \cup {Absent}
    /\ tampers \in Nat /\ named \subseteq Files(Snapshots)
    /\ alone \in BOOLEAN /\ quiet \in BOOLEAN

(* Whatever is done to the files while a call reads them one by one, the   *)
(* snapshot it hands out is one of its own target that the selector named  *)
(* at some moment of the call: a forged or moved generation is never read  *)
(* as another one.                                                         *)
ReadsAreAuthentic ==
    outcome \in {"opened", "read", "admitted"} =>
      result \in named /\ result \in Snapshots /\ result.target = Target

(* The store reads back s.                                                 *)
ReadsBack(s) == /\ binding = Target /\ generations = "directory"
                /\ current = s /\ Authentic(s)

(* A publication that is answered as visible is: damage done to the        *)
(* binding or to the generation while it was under way never goes into a   *)
(* "published" or "unconfirmed" receipt. Only what is done after the       *)
(* selector was renamed can make the receipt outdated.                     *)
ReceiptsReadBack ==
    outcome \in {"published", "unconfirmed"} /\ quiet => ReadsBack(result)

(* No call of the client replaces a generation, whole or corrupt, its own  *)
(* or foreign, present at the first look or only at the rename. (A client  *)
(* that finds no generations/ makes a new one.)                            *)
GenerationsImmutable ==
    [][tampers' = tampers /\ generations' = generations =>
         \A s \in Snapshots : gens[s] # Absent => gens'[s] = gens[s]]_vars

(* In a store nobody else touches during the call, a client never replaces *)
(* a binding, readable or not, and a constructor never replaces a selector *)
(* that is there: a damaged store is refused, not initialised again.       *)
AuthorityKept ==
    [][tampers' = tampers /\ alone =>
         /\ binding # Absent => binding' = binding
         /\ purpose # "publish" /\ current # Absent => current' = current]_vars
=============================================================================
