----------------------------- MODULE ToolCommand -----------------------------
(***************************************************************************)
(* The command line of pkgstate-init and pkgstate-check, which share one   *)
(* parser: getopt_long hands out one option after the other and puts the   *)
(* operands it passes aside, and the rest is looked at when the options    *)
(* are used up. What the tool then does is in StoreTools and CheckReport.  *)
(***************************************************************************)
EXTENDS Integers, Sequences

CONSTANTS
    StorePaths,    \* store paths other than the empty string
    Identities,    \* the options that name an identity: five in the code
    Names,         \* what they may be given
    None,          \* the empty path, or an identity not given
    MaxArguments   \* bound: arguments on a command line

ASSUME NoneAssumption == None \notin StorePaths \cup Names

Flags == {"version", "help"}

ASSUME OptionsAssumption ==
    Identities \cap (Flags \cup {"canonical-store", "unknown", "positional"}) = {}

Arguments ==
    [option : {"canonical-store"}, value : StorePaths \cup {None}]
      \cup [option : Identities, value : Names]
      \cup [option : Flags \cup {"unknown", "positional"}, value : {None}]

VARIABLES
    given,        \* the arguments looked at so far
    path,         \* parsed.path
    identity,     \* the other members of parsed
    exit_status   \* "none" while it parses, "run" when the store is next

command == <<given, path, identity, exit_status>>

CommandInit ==
    /\ given = <<>>
    /\ path = None
    /\ identity = [i \in Identities |-> None]
    /\ exit_status = "none"

(* Variant of TakeStore: a second path replaces the first.                 *)
TakeStoreAgain(a) ==
    /\ a.option = "canonical-store"
    /\ path' = a.value
    /\ UNCHANGED <<identity, exit_status>>

(* -c: refused when a path has been taken, which an empty one is not.      *)
TakeStore(a) ==
    /\ a.option = "canonical-store"
    /\ path' = IF path = None THEN a.value ELSE path
    /\ exit_status' = IF path = None THEN "none" ELSE "2"
    /\ UNCHANGED identity

(* Variant of TakeIdentity: an identity is refused twice, as a store is.   *)
TakeIdentityOnce(a) ==
    /\ a.option \in Identities
    /\ identity' = [identity EXCEPT ![a.option] = a.value]
    /\ exit_status' = IF identity[a.option] = None THEN "none" ELSE "2"
    /\ UNCHANGED path

(* The last name an identity is given stays.                               *)
TakeIdentity(a) ==
    /\ a.option \in Identities
    /\ identity' = [identity EXCEPT ![a.option] = a.value]
    /\ UNCHANGED <<path, exit_status>>

(* -V and -h answer at once; an unknown option, or one without its         *)
(* argument, throws; an operand waits.                                     *)
TakeFlag(a) ==
    /\ a.option \in Flags \cup {"unknown", "positional"}
    /\ exit_status' = CASE a.option \in Flags -> "0"
                        [] a.option = "unknown" -> "2"
                        [] OTHER -> "none"
    /\ UNCHANGED <<path, identity>>

NextOption ==
    /\ exit_status = "none" /\ Len(given) < MaxArguments
    /\ \E a \in Arguments :
         /\ given' = Append(given, a)
         /\ TakeStore(a) \/ TakeIdentity(a) \/ TakeFlag(a)

(* optind # argc: an operand was passed.                                   *)
Operands == \E i \in DOMAIN given : given[i].option = "positional"

EndOfOptions ==
    /\ exit_status = "none"
    /\ exit_status' = IF Operands \/ path = None \/ \E i \in Identities : identity[i] = None
                      THEN "2" ELSE "run"
    /\ UNCHANGED <<given, path, identity>>

ParseOptions == NextOption \/ EndOfOptions

-----------------------------------------------------------------------------

Positions(option) == {i \in DOMAIN given : given[i].option = option}
Stores == {i \in Positions("canonical-store") : given[i].value # None}

(* The tool runs only when the command line leaves no doubt about the      *)
(* store: one path and no other was given, no operand was passed over, and *)
(* every identity is the last one given for it.                            *)
RunsAsGiven ==
    exit_status = "run" =>
      /\ \E i \in Stores : Stores = {i} /\ path = given[i].value
      /\ \A o \in Identities :
           \E i \in Positions(o) : (\A j \in Positions(o) : j <= i) /\ identity[o] = given[i].value
      /\ \A i \in DOMAIN given : given[i].option \in Identities \cup {"canonical-store"}

(* Status 2 is for command lines that really are wrong: they hold an       *)
(* operand or an unknown option, lack the store or an identity, or have    *)
(* another -c, an empty one even, after the store was named.               *)
UsageErrorsAreReal ==
    exit_status = "2" =>
      \/ \E i \in DOMAIN given : given[i].option \in {"unknown", "positional"}
      \/ \E i \in Stores, j \in Positions("canonical-store") : i < j
      \/ Stores = {}
      \/ \E o \in Identities : Positions(o) = {}
=============================================================================
