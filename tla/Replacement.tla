---------------------------- MODULE Replacement ----------------------------
(***************************************************************************)
(* What gyou::Replace makes of a string: every occurrence of a text in it  *)
(* is replaced by another, and nothing else.  StringReplace has the loops  *)
(* that do it in place.  Positions count from 0, as in the code; the       *)
(* character at position p is s[p + 1].                                    *)
(***************************************************************************)
EXTENDS Integers, Sequences

OccursAt(s, w, p) ==
    /\ p + Len(w) <= Len(s)
    /\ \A i \in 1..Len(w) : s[p + i] = w[i]

Occurs(s, w) == \E p \in 0..Len(s) : OccursAt(s, w, p)

\* What becomes of a string from a position on, if the occurrences are taken
\* from the left, each behind the one before.
ReplacedFrom(s, w, v) ==
    LET tail[p \in 0..Len(s)] ==
            IF p = Len(s) THEN <<>>
            ELSE IF OccursAt(s, w, p) THEN v \o tail[p + Len(w)]
            ELSE <<s[p + 1]>> \o tail[p + 1]
    IN  tail

\* What becomes of a string up to a position, if they are taken from the right.
ReplacedUpTo(s, w, v) ==
    LET head[p \in 0..Len(s)] ==
            IF p = 0 THEN <<>>
            ELSE IF p >= Len(w) /\ OccursAt(s, w, p - Len(w))
                 THEN head[p - Len(w)] \o v
            ELSE Append(head[p - 1], s[p])
    IN  head

\* Mutant: only the last occurrence is replaced.
ReplacedLast(s, w, v) ==
    IF ~Occurs(s, w) THEN s
    ELSE LET p == CHOOSE p \in 0..Len(s) :
                      OccursAt(s, w, p) /\ \A q \in (p + 1)..Len(s) : ~OccursAt(s, w, q)
         IN  SubSeq(s, 1, p) \o v \o SubSeq(s, p + Len(w) + 1, Len(s))

\* A growing text is replaced from the right, any other from the left.
Replaced(s, w, v) ==
    IF Len(w) >= Len(v) THEN ReplacedFrom(s, w, v)[0] ELSE ReplacedUpTo(s, w, v)[Len(s)]

=============================================================================
