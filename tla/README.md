# A verification of libpkgstate-posix

libpkgstate-posix keeps the installed-package state of a target in one store
directory. This directory holds TLA+ modules that model that store, TLC
configurations that check them on small instances, and TLAPS proofs of the
properties that matter most. Paths below are relative to the repository, of
which `src/` is a copy; `cpp:n` is line n of
`src/src/canonical_generation_store.cpp`.

## The system

    root/
      binding                          the state target, written once
      current                          selector: identity of the chosen snapshot
      generations/v1-sha256-<id>/snapshot   one immutable snapshot each

| Part | State | Operations | Interacts through |
|---|---|---|---|
| Store construction (`initialize`, cpp:883) | the directory; the handle's descriptor | create the layout, select the empty generation, write the binding, or admit what is there | the exclusive lock |
| Opening (`open_existing`, cpp:867) and reading (`read`, cpp:851) | the handle | validate binding, selector and generation | the shared lock |
| Publication (`begin_publication`, cpp:860, `publish`, cpp:712) | transaction: lock, snapshot read under it | install a generation, replace the selector, synchronise, reread, answer | the exclusive lock; libpkgstate compares the expected snapshot in between |
| Lock (`lock_directory`, cpp:154) | `flock` on an open description of the root | shared or exclusive, never waiting | released with the descriptor |
| Generation installation (`ensure_generation`, cpp:584) | a private temporary directory | write, make immutable, synchronise, rename without replacing, or reuse | `renameat2(RENAME_NOREPLACE)` |
| Atomic metadata (`write_atomic_metadata`, cpp:318) | a private temporary file | write, make immutable, synchronise, rename, synchronise the root | `rename` |
| Retained authority (`reopen_directory_authority`, cpp:146) | the root's descriptor | reopen `.` | outlives a renamed path |
| File reads and writes (cpp:207, cpp:280) | offset into a file | short counts, `EINTR`, change while reading | |
| Selector and generation names (cpp:388, cpp:401) | none | conversions | |
| `pkgstate-init`, `pkgstate-check` | exit status, report | construct or open, then read | the store, two locks one after the other |
| libpkgstate | codecs, the compare-and-publish sequence | external to the repository | |

### What is hard

* **Crash consistency.** Four directory entries (the root's own, `generations/`,
  `current`, `binding`) and the generations become durable on different
  `fsync`s; a power loss keeps any mix of what was not synchronised yet.
* **Kills and errors** between any two system calls leave half-built stores
  that the next constructor must finish, or refuse.
* **Honest answers.** After the selector was renamed a failure may not be
  reported as "not published"; before it was synchronised success may not be
  reported as durable.
* **Interleaving.** Constructors for different targets on one fresh directory,
  publishers that read the same snapshot, readers beside both.
* **Lock contention** is answered by refusal and never by waiting.

* **The world outside the lock.** The configured path is renamed or replaced
  under an open handle, a process identifier is used again, a file is cut,
  overwritten or restored from a backup by somebody who never asked for the
  lock.
* **Cut calls.** `read` and `write` may do less than they were asked for, or be
  interrupted.

Per component, what makes it correct:

| Part | Properties |
|---|---|
| Store | one target for ever (`OneTarget`), what was reported durable survives (`ConfirmedSurvives`), or is lost only with the root itself (`OnlyRootIsLost`), no selected generation disappears (`SelectedRetained`), no kill makes it unusable (`StoreOpens`), the whole is a compare-and-publish register (`ImplementsCanonicalStore`), every call ends (`CallsReturn`), after a bounded number of steps (theorem `CallsGoForward`), construction can be retried to success (`RetriedConstructionSucceeds`) |
| Retained authority | `HandleNotRedirected`, `HandleBound`, `LinksRefused`, `NothingLost` |
| Temporaries | `InstalledIsOwn`, `OwnNamesAreFree`, `LeftoversStay`, `InstalledStays`, `RetriesGetThrough` |
| Files | `ResultInOrder`, `NoPrefix`, `AcceptedIsWhole`, `WrittenIsDurable`, `LoopsAdvance`, `LoopsEnd` |
| Names | `SelectorsAreExact`, `SelectorsReadBack` |
| Damaged stores | `ReadsAreAuthentic`, `ReceiptsReadBack`, `GenerationsImmutable`, `AuthorityKept` |
| Tools | `InitializedForGood`, `PackagesKept`, `CheckReportsTruth`, `RunsAsGiven`, `UsageErrorsAreReal`, `ReportIsTrue` |

## The modules

| Module | Content |
|---|---|
| `GenerationStore` | the store: clients, directory, disk, failures |
| `GenerationStoreProperties` | type invariant, safety, refinement mapping, fairness, liveness |
| `CanonicalStore` | what the store promises: an atomic compare-and-publish register that loses only unconfirmed selections |
| `GenerationStoreInvariant` | the inductive invariant `IInv` |
| `GenerationStoreProofs`, `GenerationStoreRefinement` | the proofs: `IInv` and what follows from it, and that no store gets stuck; that the store implements `CanonicalStore` |
| `StoreTools`, `StoreToolsProofs` | `pkgstate-init` and `pkgstate-check` as clients of `GenerationStore`, with properties, invariant and proofs |
| `ToolCommand`, `CheckReport`, `CheckReportProofs` | the tools' command line; `pkgstate-check` from command line to report; the proofs about both |
| `StoreAuthority`, `StoreAuthorityProofs` | which directory a handle works in while its path changes |
| `TemporaryNames`, `TemporaryNamesProofs` | the private names and what killed processes leave under them |
| `SelectorCodec`, `StoreFiles`, `StoreFilesProofs` | the text of the selector; one file written and read with cut calls |
| `TamperedStore`, `TamperedStoreProofs` | one client beside a writer that ignores the lock |
| `MC...` | small instances for TLC |

`GenerationStore` is the core, and each of the others opens what it takes as one
step or rules out: `StoreAuthority` asks which directory its `dir` is,
`TemporaryNames` whether a temporary is private, `StoreFiles` what lies
inside one write or read, `TamperedStore` what happens when its assumption of
well-behaved writers fails, the tools who calls it. `StoreTools` composes with it
by EXTENDS; the other modules abstract from the store to what their
question needs, and say so at their head.

### GenerationStore

A client is one process, or one handle of it: it is constructed
(`CreateRoot` ... `RetainAuthority`) or opened, then reads, publishes and
closes. `pc[p]` is its place in the call it is making. Every action is one
system call that others can observe, or a run of calls on a temporary whose
name nobody else uses: writing a temporary and making it immutable are one
step, synchronising it another.

* `dir` and `gens` are the directory as processes see it.
* `disk` and `diskGens` hold for each directory entry the *set* of versions a
  power loss may leave. Creating or renaming adds a version; `fsync` of the
  containing directory leaves only the one seen. Entries are lost or kept
  independently, as POSIX allows. A file renamed before its bytes were
  synchronised may come back `Torn`; `draft` says whether they were.
* `lock` is the `flock` each client holds. It goes away with the descriptor: on
  return, exception and kill.
* `target_binding`, `root_descriptor`, `durability_confirmed` have the names of
  the members and locals they stand for. `seen` is the snapshot the caller
  read last and gives to compare-and-publish as the one it expects; `next` is
  the snapshot being published.
* `history` and `confirmed` are ghosts: the selections of this timeline, and how
  many of them a caller was told are durable. A selector carries the index of
  its selection in `history` (`ver`), so that equal snapshots selected twice
  are told apart. A power loss cuts `history` to what is found again.

A failed call has an action per way in which the code fails: `FailBeforeSelection`
(the `before_selection_failure` of cpp:100, which `publish` answers and `initialize`
rethrows), `FailStore` (`store_error` leaves the call), `FailSyncRoot` (`publish`
goes on when the root cannot be synchronised), `FailObserve` (the reread fails).
`RefuseLock` and `RefuseStore` are the refusals the code decides on its own.

`Variant of X` definitions are the plausible mistakes against which the
properties are tested; nothing else uses them.

### StoreTools

A tool is a client of `GenerationStore` that runs a program: `Begin` (options), a
construction or an opening, `ReadState`, `Exit`. `status` is how far it is or the
exit status it ended with. Its steps are the store's own actions,
restricted by the program; the other clients stay free. The store is unlocked
between the two calls of a tool, which is where publishers come in.

### ToolCommand and CheckReport

Both tools share one parser (pkgstate_init.cpp:77, pkgstate_check.cpp:78). An
action takes one option: `given` are the arguments looked at, `path` and `identity` the
members of `parsed`, and `exit_status` says whether the tool still parses, goes on to
the store, or has ended. The five identity options behave alike and are one
constant set. `CheckReport` continues `pkgstate-check` with `inspect()`
(pkgstate_check.cpp:158): a walk over packages and manifest entries that
increments five totals, and a last loop over `owners_by_path`. Opening and
reading the store is one step there; `StoreTools` takes it apart.

### StoreAuthority

`path` is what the configured name currently is: nothing, a directory, or a link
to one. Everything that runs under one lock is one step on one directory
(`dirs`); between any two, `Rename` and its like change the path. A constructor
creates what the path names (`Construct`), opens it refusing a final link (links among the components before
it are followed by the code and left out here)
(`OpenRoot`), locks, initialises or validates, and retains the directory it
opened; a read or publication starts from `root_descriptor` and never from the
path (`Begin`). `touched` is a ghost: the directories the calls of a handle used.

### TemporaryNames

`files` are the files of the store by name: a prefix, and for a temporary a process
identifier and a number; and two ghosts: is its author still alive, and are its bytes all
there. A rename drops identifier and number, so what is installed and what is being
prepared are told apart by their names only, as `unlinkat` does it. A call takes one
temporary after another: it may be refused the name (`RefuseName`) or the file
(`FailCreate`) before its clean-up is in scope, fail while it prepares (`Fail`), or
fail to synchronise after the rename (`FailSync`), when the clean-up of a
generation (cpp:652) or of a binding (cpp:353) runs all the same, by the temporary's name. `sequence` is
the static counter of `unique_temporary_name` (cpp:311), which `Replace` (the process
is killed and another gets its identifier) sets back to 0. The lock is held from the
first temporary of a call to its end, so one call is under way at a
time. A one-shot process whose identifier is always the same (in a container,
say) starts from 0 each time and meets the same leftover each time:
`RetriesGetThrough` speaks of processes that try again, for only within a
process does the number go on.

### SelectorCodec and StoreFiles

`SelectorCodec` has `parse_selector`, `generation_name` and the text that
`write_current_temporary` writes, over an alphabet in which `v1:sha256:` is one
symbol. `StoreFiles` is one file: written by `write_all` and sealed, possibly killed
or failed half way, then read by `read_file_at`; or any other file that may be
found in its place. `WriteSome` and `ReadSome` take any number of bytes; `Interrupt`
is `EINTR`; `Change` is somebody who writes a piece of several bytes at any place of
the file, or cuts it, between two calls of the reader. `versions` is a ghost: what the
file held since `fstat`, in order.

`read_file_at` promises no snapshot of a file that others write to. A write of two
bytes that comes between two short reads is returned half old, half new, as long as the length
stays the same, and nothing in the function notices. `ResultInOrder` says what it does
promise: the length that `fstat` saw, no byte skipped or read twice, and none older than
one before it. `SmallChangesAreWhole` says when one change cannot be halved. The
store does not rely on more: a mixed snapshot does not have the identity in its
selector and is refused (`ReadsAreAuthentic`), a mixed binding or selector is only taken
when it is the caller's target, or names a generation that is there, and the library's
own writers never write to a file under a final name.

### TamperedStore

Every file of the store, one by one, is `Absent`, `Unfit` (refused before a byte is
looked at: a link, a FIFO, a writable or overlong file), `Junk` (bytes that
do not parse) or the value its bytes decode to. Any of them may change
between two system calls (`Tamper`). One client is enough: the others are
outside while it holds the lock. The foreign writer leaves temporaries alone, and
errors of the operating system appear here as failed renames and a failed
`fsync` only, since `GenerationStore` has the rest. The ghosts `alone` and `quiet` say that
nobody tampered since the call began, or since its selector was renamed.

### Assumptions

* A snapshot stands for its identity: the digest is injective, and the codecs
  of libpkgstate invert each other.
* `fsync` that reports success makes the entry durable, also when an earlier
  `fsync` failed. (Some kernels report an error once and drop the pages; the
  code's retry-by-reconstruction would then need more than this model says.)
* In `GenerationStore` only this library writes into the store and every writer
  takes the lock. `TamperedStore` drops this, and has the `EEXIST` branch of the
  rename (cpp:636), which needs a writer that does not.
* A client uses one handle, one call at a time. Several handles of a process
  are several clients, as `flock` treats them.
* libpkgstate compares the transaction's snapshot with the expected one and
  publishes only when they are equal (`src/DESIGN.md:5`).

## The runs

| Run | Properties | Instance | Distinct states |
|---|---|---|---|
| `store_safety` | `ConfirmedSurvives`, `SelectedRetained`, `OneTarget`, `StoreOpens`, `IInv` (with `TypeOK`), `ImplementsCanonicalStore` | 2 clients, 2 targets, durable root, 3 selections, 1 error, 1 kill, 1 power loss | 521 000 |
| `store_progress` | `OnlyRootIsLost`, `CallsReturn`, `RetriedConstructionSucceeds` | 2 clients, 1 target, no root at first, 2 selections, 2 errors, 2 kills, under `LiveSpec` | 63 000 |
| `tools_outcomes` | `InitializedForGood`, `PackagesKept`, `CheckReportsTruth` | one tool of each kind and a publisher, 1 target, 2 selections, 1 error, 1 kill, 1 power loss | 1 350 000 |
| `tampered_reads` | `TypeOK`, `ReadsAreAuthentic`, `ReceiptsReadBack`, `GenerationsImmutable`, `AuthorityKept` | 1 client, 2 targets, 2 contents, 2 tamperings | 235 000 |
| `authority_renames` | `TypeOK`, `HandleNotRedirected`, `HandleBound`, `LinksRefused`, `NothingLost` | 2 clients, 2 directories and a linked one, 2 targets, 2 changes of the path | 387 000 |
| `names_leftovers` | `TypeOK`, `InstalledIsOwn`, `OwnNamesAreFree`, `LeftoversStay`, `InstalledStays`, `RetriesGetThrough` | 1 identifier, 1 leftover of a kill and 1 of a failed clean-up, 1 error, under `RetrySpec` | 229 000 |
| `store_files` | `TypeOK`, `ResultInOrder`, `NoPrefix`, `AcceptedIsWhole`, `WrittenIsDurable`, `SelectorsAreExact`, `SelectorsReadBack`, `LoopsAdvance`, `LoopsEnd` | every file of up to 5 bytes against a limit of 4, 1 change (a write of up to 2 bytes, or a cut), 1 `EINTR`, under `LiveSpec` | 1 450 000 |
| `check_tool` | `RunsAsGiven`, `UsageErrorsAreReal`, `ReportIsTrue` | every command line of up to 3 arguments, every snapshot of 2 packages and 2 paths | 1 150 000 |
| `check_status`, `loss_selector`, `loss_binding`, `loss_root` | one each, violated | see Findings | |

**Bounds.** `MaxSelections` counts the selections of a timeline: two are the
fewest that let one be superseded, reused and compared against a stale
expectation; the third lets the first snapshot be selected again. `MaxFaults`,
`MaxKills` and `MaxLosses` count injected failures; one or two of each suffice to
interrupt a call, interrupt the one that repairs it, and lose power after that.
Two clients suffice for every conflict over the lock, since under it there is
only "the one inside" and "the others". `MaxTampers` of 2 lets a file be changed and
changed back, or two be changed that must agree. `MaxRenames` of 2 moves a directory
away and puts another under its name. `MaxLeftovers` bounds what is under temporary names
at a kill; with one there and one that a failed clean-up leaves, a process meets one
leftover after another. `MaxSequence` must be at least three times these and the
errors together, so that it never ends a retry that the code would not. A
selector is three symbols here (prefix, digit, line end), the limit of `store_files` is
one byte more and the files are one byte longer than that: cut selectors, and ones with a
byte too many at any place, reach the parser, and files just over the limit are refused
by their size. Two joined selectors are six bytes and beyond this limit;
`ExactSelectors` has them, as it has files and limits of any length. `MaxPiece` of 2 is the fewest
bytes a write can have that two reads may see by halves. The alphabet has no second
prefix; a text that begins with a digit takes the place of one. The proofs lift these and the
other bounds for the safety properties. The tools run with one target, and the
theorems `InitIsFinal`, `ToolsKeepStore` and `SelectionsKept` cover any number.
Symmetry is used in `authority_renames` only, which has no temporal property.
Deadlock is checked in every run: an idle client can always construct, open or
close again, and the one-shot modules end in a `Done` step.

**Fairness.**

* `LiveSpec` of the store: weak fairness of each client's steps inside a call. No
  system call a call makes can wait (locks are `LOCK_NB`, files are opened
  `O_NONBLOCK`), so the operating system only has to go on running the process.
  Nothing is assumed about calls being made.
* `RetriedConstructionSucceeds` carries its own hypothesis: a client that is
  persistent (`Persistent`, strong because failures interrupt its being idle) and is
  alone from some point on. Without the second two clients may refuse each
  other for ever, since the lock is never queued for, and nothing in the code
  promises otherwise.
* `RetrySpec` of `TemporaryNames`: a process in a call goes on, and one that is let live calls
  again.
* `LiveSpec` of `StoreFiles`: the process goes on; `Interrupt` is bounded, as a signal that
  interrupts every call for ever would keep the loops of the code busy.

## Findings

The violation runs show places where a document or message says something
else than the code does.

* `loss_selector` - `src/DESIGN.md:9`: "New generation bytes and directory metadata
  are synchronized before selector replacement is exposed and synchronized."
  In `initialize` the root's entry for `generations/` (cpp:901) is first synchronised
  together with the selector (cpp:948): a power loss in between may leave
  `current` and no `generations/`, which every later constructor refuses.
* `loss_binding` - a constructor that finds a selector without a binding (cpp:962)
  writes the binding without synchronising the root, although cpp:948 refuses to
  bind when the selection could not be confirmed. A power loss may leave
  the binding without the selector: a store that is refused for good.
* `loss_root` - `canonical_generation_store.h:33-34` says that construction "durably
  binds the directory", but the new root's own entry in its parent is never
  synchronised. Where the root exists durably before
  (`PreExisting`), the promise holds; where it does not, `OnlyRootIsLost` says
  that the root's own entry is all that a first power loss can take.

* `check_status` - pkgstate-check(1) defines exit status 1 as "The store or binding is
  invalid." A store that a publisher has locked is refused with the same
  `store_error` and the same status, although nothing is wrong with it.

Two disagreements are recorded here and not run, since no state of a model tells more
than the lines themselves:

* pkgstate-check(1) defines exit status 0 as "The store is valid and the report was
  emitted"; pkgstate_check.cpp:205 writes to `std::cout` and never looks at it,
  so a full disk or a closed pipe is status 0 as well.
* `src/docs/qualification.md:15`: a "bound incomplete store is never silently
  reconstructed". The constructor recreates a missing `generations/` (cpp:901)
  before it looks at the binding, and refuses only then. What the store holds
  stays as it is, and that is what `AuthorityKept` says.

## The proofs

The theorems hold for every set of clients, targets, contents, directories and
identifiers, files and command lines of every length, snapshots of every finite size, and
all bounds. `DurableRoot` is `PreExisting \/ MaxLosses = 0`: the root was durable before the
first client, or no power loss comes.

| Module | Theorem | Statement |
|---|---|---|
| `GenerationStoreProofs` | `Invariance` | `Spec => []IInv` |
| | `TypeCorrect` | `Spec => []TypeOK` |
| | `Durability` | `PreExisting => (Spec => []ConfirmedSurvives)` |
| | `OnlyTheRootIsLost` | `Spec => []OnlyRootIsLost` |
| | `Retention` | `DurableRoot => (Spec => []SelectedRetained)` |
| | `SingleTarget` | `Spec => []OneTarget` |
| | `StoreNeverStuck` | `Spec => []StoreOpens` |
| | `CallsGoForward` | `Spec => CallsAdvance` |
| | `NamesStayFree` | `Spec => []InstallsUnderFreeName` |
| `GenerationStoreRefinement` | `Refinement` | `DurableRoot => (Spec => ImplementsCanonicalStore)` |
| `StoreToolsProofs` | `ToolsKeepStore` | `ToolSpec => [](IInv /\ ToolTypeOK)` |
| | `InitIsFinal` | `DurableRoot => (ToolSpec => []InitializedForGood)` |
| | `SelectionsKept` | `ToolSpec => PackagesKept` |
| | `ReportedStoresAreValid` | `ToolSpec => CheckReportsTruth` |
| `CheckReportProofs` | `ReportTypes`, `CommandsAreObeyed`, `ErrorsAreReal`, `TrueReport` | the types, and the three properties of `check_tool` |
| `StoreAuthorityProofs` | `AuthorityTypes`, `HandlesAreNotRedirected`, `HandlesAreBound`, `LinksAreRefused`, `NothingIsLost` | the five properties of `authority_renames` |
| `TemporaryNamesProofs` | `NamesTypes`, `OwnWorkInstalled`, `OwnNamesStayFree`, `LeftoversUntouched`, `InstalledUntouched` | the safety properties of `names_leftovers` |
| `TamperedStoreProofs` | `TamperTypes`, `AuthenticReads`, `TrueReceipts`, `ImmutableGenerations`, `KeptAuthority` | the five properties of `tampered_reads` |
| `StoreFilesProofs` | `FilesTypes`, `NothingMissing`, `BytesInOrder`, `AcceptedFilesAreWhole`, `DurableWrites`, `LoopsGoForward`, `ExactSelectors`, `WrittenSelectors` | the safety properties and `LoopsAdvance` of `store_files` |
| | `SmallChangesNotHalved` | `Spec => []SmallChangesAreWhole` |

**The store.** None of the properties is inductive alone. `ConfirmedSurvives` speaks of
the disk; what keeps it true is what the client under the lock has established
so far: that its temporary is durable when it is renamed, that the generation
is durable before the selector names it, that the root is synchronised when the
answer claims it. `IInv` says this in parts:

* `LockInv`: who stands inside a locked region holds the lock, and an exclusive
  lock excludes all others;
* `LinkInv`: a root that was durable at first stays so;
* `HistoryInv`: the selector is the end of `history`, and what a power loss may
  bring back is an earlier entry of it or none;
* `LayoutInv`: nothing is torn, nothing is on disk that is not seen, and either all
  of `history` is whole or (a power loss took `generations/`) no generation is
  left and none will be;
* `TargetInv`: one target in the binding and in all selections;
* `DurableInv`: what was confirmed is on disk, as long as no power loss has taken the root
  (`RootKept`);
* `ClientInv(p)`: what `p` has established where it stands, and that the name it is about to
  install its generation under is still free.

The proof has one lemma per action. An action under the exclusive lock
need not be shown to respect what the other clients established, as they stand
outside and `LockInv` says so (`OthersOutside`, `ExclusiveStep`); an action that
changes neither directory nor history is covered by `SilentStep`. Two actions
are neither: `CreateRoot` runs before the lock, and `PowerLoss` changes
everything, but leaves every client idle.

`StoreNeverStuck` adds `OpenInv`, which says what the directory keeps when nobody is
inside: a binding only over a selection, a selection only out of a `generations/`
that is there, and without a binding only the empty snapshot of its own
target. `Refinement` adds `AnswersInv`: a client that is about to select still
expects the newest selection, which is what makes its rename the abstract
compare-and-publish. Each step then maps to one of `CanonicalStore` or to a stutter.

`CallsGoForward` has the measure `Way`, the most steps a call may still take (19 from
`initialize`'s lock to its end): each step of a call lowers it, and failures, kills and the
other clients never raise it. `NamesStayFree` says that a client which is to rename its
generation finds the name free, the one condition of a step that has no refusal (`Throw`)
beside it: `EnsureGeneration` found it so, and until the rename every other client is
outside the exclusive lock. Both together are the half of `CallsReturn` that
does not need fairness: a call has a bounded number of steps, and none that waits.

**The tools** inherit this: every step of theirs is a client's step or a stutter
(`ToolsAreClients`), so `IInv` holds beside them. `InitIsFinal` adds `ToolInv` (a tool's
handle is for its argument, and what gave it one was reported durable) and one
fact about all steps of the store: a confirmed store stays confirmed and bound to
the same target (`StoreLasts`), power losses included. `SelectionsKept` adds `KeepInv`:
`pkgstate-init` publishes nothing through its handle, and without one `ClientInv` says that
nothing is selected where it selects. `ReportedStoresAreValid` adds `CheckInv`: the
tool does nothing but open and read, and what it has read is an entry of `history`, which
only a power loss shortens; a power loss also ends the tool, so no hypothesis about
the root is needed. That its handle is for a store that is still bound and readable when
it ends is `ClientInv`, publishers in between or not.

**The report.** `CommandInv` says of every option what of `given` its member of `parsed` stands
for; the cases of `RunsAsGiven` are where a later argument could displace an
earlier one. `CountersInv` makes each total the cardinality of a set that grows with the
walk (`OneMoreElement` is the step of all of them), `WalkInv` says how far the walk
is, and at its end these sets are those of the snapshot. A path's owners are its
packages because a manifest names a path once. The sums the code makes are thus
counted without induction over data.

**Retained authority.** The invariant ties each step of a call to one directory and says
what the lock on that directory keeps true (`RootInv`, `TouchedInv`, `BoundInv`); no part of
it but `PathInv` speaks of the path, so a rename has nothing to disturb.

**Temporaries.** `OwnInv`: what goes by the name under preparation was made by the process
that prepares it. `O_EXCL` gives it and the cleanups, which go by that name, keep it. A
temporary's name has an identifier in it and a final name none (`Nil`), which is all that
`InstalledUntouched` needs: no clean-up, before or after the rename, reaches a final name.
`UsedInv` is for `OwnNamesStayFree`: the temporaries of a living process have numbers below its
counter, also those that a failed clean-up left.

**Damaged stores.** `TamperInv` separates what may be trusted for ever (the identity a
selector held, the generation that authenticates itself by it: `NamedInv`) from what was seen
of the files and holds only while nobody tampers (`QuietInv`, `AuthorityInv`).

**Files.** `FilesInv` says that the written file is the beginning of its bytes, and immutable
only when it is all of them; that what was read is the beginning of a file that nobody
changed. `BytesInOrder` needs more (`OrderInv`): the last of `versions` is the file as it is, and
there is a moment for each byte read, the later ones never before the earlier; what
is read next is of the last moment. It holds for any number of changes of any size.
`SmallChangesNotHalved` follows from it: with two versions the moments split the result
once, and a single byte that differs is on one side of the split. `LoopsGoForward` has the measure `StepsLeft`: each step
of writer and reader lowers it and nothing that is done to the file raises it. This is
the half of `LoopsEnd` that does not need fairness, and it holds however often the file is
changed, where the run has to bound the changes. The selector's two theorems rest on lemmas
about texts of any length (`SelectorIsExact`, `SelectorLeadsBack`).

The theorems use the named assumptions on the constants of their modules
(`Nil`, `Torn`, `Absent` and the like are no values of the sets they stand beside, the
empty content is a content, the bounds are numbers, the line end is no digit, packages
and paths are finitely many, and an identity option is none of the others:
`OptionsAssumption`). `Durability` supposes `PreExisting`, and `Retention`,
`InitIsFinal` and `Refinement` suppose `DurableRoot`; `loss_root` shows what happens
otherwise, and `OnlyTheRootIsLost`, which supposes nothing, that this is all that does.

Only model-checked: the liveness properties `CallsReturn`, `RetriedConstructionSucceeds`,
`RetriesGetThrough` and `LoopsEnd`, since liveness under fairness and `ENABLED` are outside
what the installed provers can do. Every invariant and every action property of a
passing run is also a theorem. The type invariants of the tools (`ToolTypeOK` and that of
`CheckReport`), `InstallsUnderFreeName`, `CallsAdvance` and `SmallChangesAreWhole` are
theorems that no run lists of its own; the store's `TypeOK` and what `InstallsUnderFreeName`
says are conjuncts of `IInv`, which one does.

## Not modelled

The wording of diagnostics and of `pkgstate-init`'s report, the encoding of snapshots and
bindings (libpkgstate's), the build and documentation tooling, ABI tests. Errors that
are not `pkgstate::error` (`std::bad_alloc`, `std::filesystem` beyond `create_directories`)
leave a call as exceptions like `store_error` does, but are not told apart. That a
publisher ever gets the lock is not stated: a reader that polls may refuse it
for ever, and nothing in the code promises otherwise. The lines of the
implementation that no definition stands for are the constructors and
moves of descriptor wrappers, the texts of errors, usage and report, and includes.
