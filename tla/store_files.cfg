\* Files of up to two bytes more than the selector and one more than the limit. What begins
\* with a digit stands for a text with another algorithm's prefix.
CONSTANTS
    zero = zero
    Hex <- OneDigit
    Digits = 1
    Newline = Newline
    Sha256 = Sha256
    OtherAlgo = zero
    Refused = Refused
    Nil = Nil
    MaximumSize = 4
    MaxLength = 5
    MaxPiece = 2
    MaxChanges = 1
    MaxInterrupts = 1
SPECIFICATION LiveSpec
INVARIANTS
    TypeOK ResultInOrder NoPrefix AcceptedIsWhole WrittenIsDurable
    SelectorsAreExact SelectorsReadBack
PROPERTIES LoopsAdvance LoopsEnd
