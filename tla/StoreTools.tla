------------------------------ MODULE StoreTools ------------------------------
(***************************************************************************)
(* pkgstate-init and pkgstate-check as clients of GenerationStore. Each is *)
(* a process that makes two calls, a construction or an opening and then a *)
(* read, and ends with an exit status. The store is unlocked between the   *)
(* two, so publishers and other tools may come in between.                 *)
(***************************************************************************)
EXTENDS GenerationStore

CONSTANTS Inits,  \* clients that run pkgstate-init
          Checks  \* clients that run pkgstate-check

Tools == Inits \cup Checks

ASSUME ToolsAssumption == Tools \subseteq Procs /\ Inits \cap Checks = {}

VARIABLES
    status,    \* how far the tool is, or the exit status it ended with last
    argument,  \* the target the tool was given
    sound      \* ghost: the store was that target's when the tool began

toolvars == <<status, argument, sound>>

ToolInit ==
    /\ Init
    /\ status = [p \in Tools |-> "none"]
    /\ argument = [p \in Tools |-> Nil]
    /\ sound = [p \in Tools |-> FALSE]

Running(p) == status[p] \in {"starting", "running"}

(* parse_options and parse_binding.                                        *)
Begin(p, b) ==
    /\ ~Running(p)
    /\ status' = [status EXCEPT ![p] = "starting"]
    /\ argument' = [argument EXCEPT ![p] = b]
    /\ sound' = [sound EXCEPT ![p] = Admitted(dir, gens, b)]
    /\ UNCHANGED vars

(* The store object: pkgstate-init constructs it, ...                      *)
InitConstructs(p) ==
    /\ p \in Inits /\ status[p] = "starting"
    /\ status' = [status EXCEPT ![p] = "running"]
    /\ CreateRoot(p, argument[p])
    /\ UNCHANGED <<argument, sound>>

(* ... pkgstate-check opens it.                                            *)
CheckOpens(p) ==
    /\ p \in Checks /\ status[p] = "starting"
    /\ status' = [status EXCEPT ![p] = "running"]
    /\ OpenExisting(p, argument[p]) \/ RefuseLock(p)
    /\ UNCHANGED <<argument, sound>>

ReadState(p) ==
    /\ status[p] = "running" /\ outcome[p] \in {"admitted", "opened"}
    /\ LockRead(p) \/ (RefuseLock(p) /\ ~MayLock(p, "SH"))
    /\ UNCHANGED toolvars

(* Variant of ExitStatus: errors are reported, but not by the status.      *)
ExitStatusReporting(p) == "0"

(* main(): any store_error ends in EXIT_FAILURE, and pkgstate-init throws  *)
(* one when the store it read holds packages.                              *)
ExitStatus(p) ==
    IF \/ outcome[p] = "store_error"
       \/ p \in Inits /\ seen[p].content # EmptyContent
    THEN "1" ELSE "0"

Exit(p) ==
    /\ status[p] = "running" /\ pc[p] = "idle" /\ outcome[p] \in {"read", "store_error"}
    /\ status' = [status EXCEPT ![p] = ExitStatus(p)]
    /\ Close(p) \/ (~root_descriptor[p] /\ UNCHANGED vars)
    /\ UNCHANGED <<argument, sound>>

(* A system call of the tool fails; between its read and its end it makes  *)
(* none that matters.                                                      *)
ToolFails(p) ==
    /\ \/ status[p] = "starting"
       \/ status[p] = "running" /\ outcome[p] \notin {"read", "store_error"}
    /\ FailBeforeSelection(p) \/ FailStore(p)
    /\ status' = [status EXCEPT ![p] = "running"]
    /\ UNCHANGED <<argument, sound>>

(* The tool is killed, in a call or between its calls.                     *)
ToolKilled(p) ==
    /\ status[p] = "running"
    /\ Kill(p) \/ Close(p)
    /\ status' = [status EXCEPT ![p] = "none"]
    /\ UNCHANGED <<argument, sound>>

(* The machine goes down; what a tool has already reported stays reported. *)
Blackout ==
    /\ PowerLoss
    /\ status' = [p \in Tools |-> IF Running(p) THEN "none" ELSE status[p]]
    /\ UNCHANGED <<argument, sound>>

ToolStep(p) ==
    \/ Step(p) /\ UNCHANGED toolvars
    \/ InitConstructs(p) \/ CheckOpens(p) \/ ReadState(p) \/ Exit(p)

ToolNext ==
    \/ \E p \in Tools : \/ \E b \in Bindings : Begin(p, b)
                        \/ ToolStep(p) \/ ToolFails(p) \/ ToolKilled(p)
    \/ \E p \in Procs \ Tools : (Step(p) \/ Call(p) \/ Failure(p)) /\ UNCHANGED toolvars
    \/ Blackout

ToolSpec == ToolInit /\ [][ToolNext]_<<vars, toolvars>>

-----------------------------------------------------------------------------

(* The tools' own variables keep their types, and a running tool knows its *)
(* target.                                                                 *)
ToolTypeOK ==
    /\ status \in [Tools -> {"none", "starting", "running", "0", "1"}]
    /\ argument \in [Tools -> Bindings \cup {Nil}]
    /\ sound \in [Tools -> BOOLEAN]
    /\ \A p \in Tools : Running(p) => argument[p] \in Bindings

(* When pkgstate-init has reported success, the store is that target's for *)
(* good: it opens and reads whatever is published, killed or lost later.   *)
InitializedForGood ==
    \A p \in Inits : status[p] = "0" => Admitted(dir, gens, argument[p])

(* Why InitializedForGood holds: a tool's handle is for its argument, and  *)
(* what gave it one was reported durable.                                  *)
ToolInvOf(p) ==
    /\ pc[p] # "open_validate"
    /\ pc[p] # "idle" \/ root_descriptor[p]
         => status[p] = "running" /\ target_binding[p] = argument[p]
    /\ root_descriptor[p] => confirmed > 0
    /\ outcome[p] = "read" => root_descriptor[p]
    /\ status[p] = "0" => confirmed > 0 /\ argument[p] = dir.binding

ToolInv == \A p \in Inits : ToolInvOf(p)

(* When pkgstate-check ends with status 0 the store is valid for the       *)
(* target it was given, although it lets go of the lock before and after   *)
(* it reads, and what it reports was selected in it.                       *)
CheckReportsTruth ==
    [][\A p \in Checks : status[p] = "running" /\ status'[p] = "0"
         => /\ Admitted(dir, gens, argument[p])
            /\ \E i \in 1..Len(history) : seen[p] = history[i]]_<<vars, toolvars>>

(* Why it holds: the tool reads and does nothing else, with a handle for   *)
(* its argument.                                                           *)
CheckInvOf(p) ==
    /\ pc[p] \in {"idle", "open_validate", "read"}
    /\ pc[p] # "idle" \/ root_descriptor[p]
         => status[p] = "running" /\ target_binding[p] = argument[p]
    /\ outcome[p] = "read" =>
         root_descriptor[p] /\ \E i \in 1..Len(history) : seen[p] = history[i]

CheckInv == \A p \in Checks : CheckInvOf(p)

(* "It never erases packages": whatever store it is run on, and however it *)
(* is interrupted, no step of pkgstate-init replaces what is selected.     *)
PackagesKept ==
    [][\A p \in Inits : pc'[p] # pc[p] /\ losses' = losses /\ dir.current # Nil
         => dir'.current = dir.current]_<<vars, toolvars>>

(* pkgstate-check(1) gives exit status 1 one meaning: "The store or        *)
(* binding is invalid." So where no system call fails, a store that was    *)
(* valid for its target when the tool began is not reported as invalid.    *)
CheckRefusesOnlyInvalid ==
    \A p \in Checks : status[p] = "1" /\ faults = 0 /\ losses = 0 => ~sound[p]
=============================================================================
