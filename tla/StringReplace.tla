--------------------------- MODULE StringReplace ---------------------------
(***************************************************************************)
(* gyou::Replace: replaces a text in a string, in place.  A text that does *)
(* not grow is moved from the front to the back, a text that grows from    *)
(* the back to the front of a string that was made long enough before.     *)
(* One step is one turn of a loop.                                         *)
(***************************************************************************)
EXTENDS Replacement

CONSTANTS
    Char,     \* characters
    Nul,      \* what std::string::resize appends
    Text,     \* the strings in which Replace is called to replace,
    Word,     \* and what it is called to replace, and by what
    SizeMod   \* bound: size_t counts modulo this (2^64)

ASSUME TextAssumption ==
    /\ Text \subseteq Seq(Char)
    /\ Word \subseteq Seq(Char)
    /\ SizeMod \in Nat
    /\ \A t \in Text : Len(t) + 1 < SizeMod

VARIABLES
    arg,    \* str as it was passed
    what,   \* what to replace,
    with,   \* and by what
    str,    \* the buffer
    stage,  \* which loop runs
    pos,    \* where CountOccurrences goes on
    found,  \* the positions it has counted (the code has only how many)
    rpos,   \* up to where (from where) the argument has still to be read
    wpos    \* the same for what is written

args == <<arg, what, with>>

vars == <<args, str, stage, pos, found, rpos, wpos>>

---------------------------------------------------------------------------
(* std::string and the algorithms on it.                                   *)

npos == SizeMod - 1

\* Subtraction of two size_t.
Minus(m, n) == IF m >= n THEN m - n ELSE m - n + SizeMod

\* The first occurrence at or after a position.
Find(s, w, from) ==
    LET At == {p \in 0..Len(s) : p >= from /\ OccursAt(s, w, p)}
    IN  IF At = {} THEN npos
        ELSE CHOOSE p \in At : \A q \in At : p <= q

\* The last occurrence at or before a position.
RFind(s, w, from) ==
    LET At == {p \in 0..Len(s) : p <= from /\ OccursAt(s, w, p)}
    IN  IF At = {} THEN npos
        ELSE CHOOSE p \in At : \A q \in At : p >= q

\* t is copied to the positions from dest on; what has no room is not.
Copied(s, t, dest) ==
    [i \in 1..Len(s) |->
        IF dest < i /\ i <= dest + Len(t) THEN t[i - dest] ELSE s[i]]

Part(s, first, last) == SubSeq(s, first + 1, last)

Resized(s, size) ==
    [i \in 1..size |-> IF i <= Len(s) THEN s[i] ELSE Nul]

---------------------------------------------------------------------------

Init ==
    /\ arg \in Text
    /\ what \in Word \ {<<>>}
    /\ with \in Word
    /\ str = arg
    /\ stage = "replace"
    /\ pos = 0
    /\ found = <<>>
    /\ rpos = 0
    /\ wpos = 0

Replace ==
    /\ stage = "replace"
    /\ stage' = IF Len(what) >= Len(with) THEN "forward" ELSE "count"
    /\ UNCHANGED <<args, str, pos, found, rpos, wpos>>

\* Mutant: the search goes on at the next character.
CountsOverlapping ==
    /\ stage = "count"
    /\ LET p == Find(str, what, pos)
       IN  /\ p # npos
           /\ found' = Append(found, p)
           /\ pos' = p + 1
    /\ UNCHANGED <<args, str, stage, rpos, wpos>>

\* CountOccurrences.
Counts ==
    /\ stage = "count"
    /\ LET p == Find(str, what, pos)
       IN  /\ p # npos
           /\ found' = Append(found, p)
           /\ pos' = p + Len(what)
    /\ UNCHANGED <<args, str, stage, rpos, wpos>>

\* The string gets as long as it will be.
MakesRoom ==
    /\ stage = "count"
    /\ Find(str, what, pos) = npos
    /\ stage' = "backward"
    /\ rpos' = Len(str)
    /\ wpos' = Len(str) + Len(found) * (Len(with) - Len(what))
    /\ str' = Resized(str, wpos')
    /\ UNCHANGED <<args, pos, found>>

\* Mutant: the next occurrence is searched for from where the text is written.
NextReadFromWritten ==
    LET p == Find(str, what, wpos)
    IN  IF p = npos THEN Len(str) ELSE p

\* Up to where the argument can be kept.
NextRead ==
    LET p == Find(str, what, rpos)
    IN  IF p = npos THEN Len(str) ELSE p

\* Mutant: the read position stays at the occurrence.
PastNothing(p) == p

\* The read position once the occurrence at p is replaced.
Past(p) == p + Len(what)

\* A turn of ReplaceNotLonger: what lies before the next occurrence is moved up
\* and the new text put behind it; at the end of the string the rest is cut.
Forward ==
    LET gap == wpos + NextRead - rpos
        moved == Copied(str, Part(str, rpos, NextRead), wpos)
    IN  /\ stage = "forward"
        /\ \/ /\ NextRead = Len(str)
              /\ stage' = "done"
              /\ str' = Resized(moved, gap)
              /\ rpos' = NextRead
              /\ wpos' = gap
           \/ /\ NextRead # Len(str)
              /\ str' = Copied(moved, with, gap)
              /\ rpos' = Past(NextRead)
              /\ wpos' = gap + Len(with)
              /\ UNCHANGED stage
        /\ UNCHANGED <<args, pos, found>>

\* From where the argument can be kept: the end of its last occurrence.
KeptFrom ==
    LET p == RFind(str, what, Minus(rpos, Len(what)))
    IN  IF p = npos THEN 0 ELSE p + Len(what)

\* A turn of ReplaceLonger: what lies behind the last occurrence is moved down,
\* and the new text put before it.
Backward ==
    LET dest == wpos - (rpos - KeptFrom)
        moved == Copied(str, Part(str, KeptFrom, rpos), dest)
    IN  /\ stage = "backward"
        /\ wpos # rpos
        /\ IF dest = KeptFrom
           THEN str' = moved /\ wpos' = dest /\ rpos' = dest
           ELSE /\ str' = Copied(moved, with, dest - Len(with))
                /\ wpos' = dest - Len(with)
                /\ rpos' = Minus(KeptFrom, Len(what))
        /\ UNCHANGED <<args, stage, pos, found>>

\* Nothing has to be moved any more.
Stops ==
    /\ stage = "backward"
    /\ wpos = rpos
    /\ stage' = "done"
    /\ UNCHANGED <<args, str, pos, found, rpos, wpos>>

Over == stage = "done" /\ UNCHANGED vars

Step == Replace \/ Counts \/ MakesRoom \/ Forward \/ Backward \/ Stops

Next == Step \/ Over

Fairness == WF_vars(Step)

Spec == Init /\ [][Next]_vars /\ Fairness

---------------------------------------------------------------------------
(* What the result is compared with.                                       *)

FromTheLeft == ReplacedFrom(arg, what, with)[0]

FromTheRight == ReplacedUpTo(arg, what, with)[Len(arg)]

\* Two occurrences of the text may share characters.
OverlapsItself ==
    \E n \in 1..(Len(what) - 1) : OccursAt(what, SubSeq(what, 1, n), Len(what) - n)

---------------------------------------------------------------------------
(* Properties.                                                             *)

TypeOK ==
    /\ arg \in Text /\ what \in Word \ {<<>>} /\ with \in Word
    /\ str \in Seq(Char \cup {Nul})
    /\ stage \in {"replace", "forward", "count", "backward", "done"}
    /\ pos \in 0..Len(arg)
    /\ found \in Seq(0..Len(arg))
    /\ rpos \in 0..Len(arg)
    /\ wpos \in Nat

\* The buffer is read and written at once, but what is still to be read is
\* what was passed: no search ever meets text that was put in.
ReadsTheArgument ==
    /\ stage = "forward" =>
          /\ Len(str) = Len(arg)
          /\ \A i \in (rpos + 1)..Len(arg) : str[i] = arg[i]
    /\ stage = "backward" => \A i \in 1..rpos : str[i] = arg[i]

\* No iterator leaves the buffer, no copy overwrites what is still to be read,
\* and rpos - what.size() does not wrap round.
StaysInBuffer ==
    /\ stage = "forward" => wpos <= rpos /\ rpos <= Len(str)
    /\ stage = "backward" =>
          /\ rpos <= wpos /\ wpos <= Len(str)
          /\ rpos # wpos =>
                /\ Len(what) <= rpos
                /\ Len(what) <= KeptFrom /\ KeptFrom <= rpos
                /\ Len(with) <= wpos - (rpos - KeptFrom)

\* Every occurrence is replaced and nothing else: a growing text from the right,
\* any other from the left; which of the two it was cannot be told from the
\* result, unless occurrences may overlap.
ReplacesOccurrences ==
    stage = "done" =>
        /\ str = Replaced(arg, what, with)
        /\ ~OverlapsItself => FromTheLeft = FromTheRight

\* Replace returns.
ReplaceEnds == <>(stage = "done")
===========================================================================
