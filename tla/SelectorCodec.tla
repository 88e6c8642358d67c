---------------------------- MODULE SelectorCodec ----------------------------
(***************************************************************************)
(* The text of root/current: what write_current_temporary writes for an    *)
(* identity, what parse_selector accepts, and the generation directory     *)
(* that generation_name derives.                                           *)
(*                                                                         *)
(* "v1:sha256:" is one symbol here, and so is the prefix of another        *)
(* algorithm; what installed_state_snapshot_identity::parse accepts        *)
(* belongs to libpkgstate: a prefix followed by hexadecimal digits.        *)
(***************************************************************************)
EXTENDS Integers, Sequences

CONSTANTS
    Hex,        \* hexadecimal digits
    Digits,     \* how many a SHA-256 identity has
    Newline,
    Sha256,     \* "v1:sha256:"
    OtherAlgo,  \* another prefix that libpkgstate might parse
    Refused     \* store_error

Alphabet == Hex \cup {Newline, Sha256, OtherAlgo}

ASSUME DigitsAssumption  == Digits \in Nat \ {0}
ASSUME RefusedAssumption == Refused \notin Seq(Alphabet)
ASSUME SymbolsAssumption == Newline \notin Hex \cup {Sha256, OtherAlgo}

(* installed_state_snapshot_identity::parse: some algorithm, some digits.  *)
Parse(text) ==
    IF /\ text # <<>> /\ text[1] \in {Sha256, OtherAlgo}
       /\ \A i \in 2..Len(text) : text[i] \in Hex
    THEN text ELSE Refused

(* What write_current_temporary writes.                                    *)
SelectorText(identity) == Append(identity, Newline)

(* Variants of ParseSelector: the last byte is dropped without a look; the *)
(* line end is kept.                                                       *)
ParseSelectorUnterminated(text) ==
    IF text = <<>> THEN Refused ELSE Parse(SubSeq(text, 1, Len(text) - 1))
ParseSelectorWhole(text) ==
    IF text = <<>> \/ text[Len(text)] # Newline THEN Refused ELSE Parse(text)

ParseSelector(text) ==
    IF \/ text = <<>> \/ text[Len(text)] # Newline
       \/ \E i \in 1..(Len(text) - 1) : text[i] = Newline
    THEN Refused
    ELSE Parse(SubSeq(text, 1, Len(text) - 1))

(* "v1-sha256-" and the digits, for the one algorithm the store uses.      *)
GenerationName(identity) ==
    IF Len(identity) = Digits + 1 /\ identity[1] = Sha256
    THEN SubSeq(identity, 2, Len(identity)) ELSE Refused

(* The directory a reader opens for a selector.                            *)
Selected(text) ==
    LET identity == ParseSelector(text) IN
    IF identity = Refused THEN Refused ELSE GenerationName(identity)
=============================================================================
