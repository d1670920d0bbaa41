----------------------------- MODULE MCTopicName -----------------------------
(* TopicName on every spelling of at most MaxLength characters, and the names *)
(* in its directories with numbers of one and two digits.                    *)
EXTENDS InfoFileName, SequencesExt

CONSTANT MaxLength

MCNames == BoundedSeq(Char, MaxLength)

MCNumbers == BoundedSeq(Digit, 2) \ {<<>>}
=============================================================================
