-------------------------- MODULE MCStringReplace --------------------------
(***************************************************************************)
(* An instance of StringReplace for TLC: all strings of two characters up  *)
(* to a length, so that a text occurs not at all, once, often, next to     *)
(* itself, and overlapping itself.                                         *)
(***************************************************************************)
EXTENDS StringReplace

CONSTANTS
    MaxText,  \* bound: the length of the string,
    MaxWord   \* and of what is replaced, and by what

MCChar == {1, 2}
MCStrings(length) == UNION {[1..n -> MCChar] : n \in 0..length}
MCText == MCStrings(MaxText)
MCWord == MCStrings(MaxWord)
===========================================================================
