---------------------------- MODULE VersionNames ----------------------------
(***************************************************************************)
(* Names as the program reads them: the stem of an ebuild file and the tag *)
(* of a release, each by a PCRE2 regular expression that is looked for     *)
(* again and again up to the end of the text, the last match deciding.     *)
(*                                                                         *)
(* A text is a sequence of characters, without capital letters.  What      *)
(* follows a version is optional in both expressions, so that the longest  *)
(* version is the one PCRE2 takes; a position is where a part ends, that   *)
(* is, one behind its last character.                                      *)
(***************************************************************************)
EXTENDS Integers, Sequences, FiniteSetsExt

Underscore == "_"

Ascii == <<"+", "-", ".", "0", "1", "2", "3", "4", "5", "6", "7", "8", "9", Underscore,
           "a", "b", "c", "d", "e", "f", "g", "h", "i", "j", "k", "l", "m", "n",
           "o", "p", "q", "r", "s", "t", "u", "v", "w", "x", "y", "z">>

Digit == {"0", "1", "2", "3", "4", "5", "6", "7", "8", "9"}
Letter == {"a", "b", "c", "d", "e", "f", "g", "h", "i", "j", "k", "l", "m",
           "n", "o", "p", "q", "r", "s", "t", "u", "v", "w", "x", "y", "z"}
WordChar == Digit \cup Letter \cup {Underscore}
NameChar == WordChar \cup {"+", "-"}
TextChar == NameChar \cup {"."}

\* pre|p|beta|alpha|rc
Words == {<<"p", "r", "e">>, <<"p">>, <<"b", "e", "t", "a">>,
          <<"a", "l", "p", "h", "a">>, <<"r", "c">>}

At(s, p) == IF p \in DOMAIN s THEN s[p] ELSE "end"

DigitsEnd(s, p) == Min({q \in p..(Len(s) + 1) : At(s, q) \notin Digit})

\* \d+(\.\d+)*
NumberEnd(s, p) ==
    Max({q \in p..(Len(s) + 1) :
            \A i \in p..(q - 1) :
                \/ s[i] \in Digit
                \/ s[i] = "." /\ i > p /\ s[i - 1] \in Digit /\ At(s, i + 1) \in Digit})

\* (pre|p|beta|alpha|rc)\d*, or nothing.
WordEnd(s, p) ==
    LET longest == {n \in 1..(Len(s) + 1 - p) : SubSeq(s, p, p + n - 1) \in Words}
    IN  IF longest = {} THEN p ELSE DigitsEnd(s, p + Max(longest))

\* (_(pre|p|beta|alpha|rc)\d*)*
SuffixesEnd(s) ==
    LET end[p \in 1..(Len(s) + 1)] ==
            IF At(s, p) = Underscore /\ WordEnd(s, p + 1) > p + 1
            THEN end[WordEnd(s, p + 1)]
            ELSE p
    IN  end

\* A version of portage.
VersionEnd(s, p) ==
    LET e == NumberEnd(s, p)
    IN  SuffixesEnd(s)[IF At(s, e) \in Letter THEN e + 1 ELSE e]

\* (-r\d+)?
RevisionEnd(s, p) ==
    IF At(s, p) = "-" /\ At(s, p + 1) = "r" /\ At(s, p + 2) \in Digit
    THEN DigitsEnd(s, p + 2)
    ELSE p

\* [\w][\w+-]*? and a hyphen with a digit behind it: the first such hyphens.
Hyphens(s, i) ==
    {j \in (i + 1)..Len(s) :
        /\ s[i] \in WordChar
        /\ s[j] = "-" /\ At(s, j + 1) \in Digit
        /\ \A k \in (i + 1)..(j - 1) : s[k] \in NameChar}

---------------------------------------------------------------------------
(* The stem of an ebuild file.                                             *)

NotParsed == [pn |-> <<>>, pn_inval |-> <<>>, ver |-> <<>>, rev |-> <<>>]

\* The first match at or behind a position; a version before the version is an
\* invalid part of the name.
PortageMatch(s, from) ==
    LET i == Min({n \in from..Len(s) : Hyphens(s, n) # {}})
        j == Min(Hyphens(s, i))
        k == RevisionEnd(s, VersionEnd(s, j + 1))
        d == IF At(s, k) = "-" /\ At(s, k + 1) \in Digit THEN k ELSE j
        e == VersionEnd(s, d + 1)
    IN  [pn |-> SubSeq(s, i, d - 1), pn_inval |-> SubSeq(s, j, d - 1),
         ver |-> SubSeq(s, d + 1, e - 1),
         rev |-> SubSeq(s, e + 2, RevisionEnd(s, e) - 1),
         end |-> RevisionEnd(s, e)]

Or(new, old) == IF new = <<>> THEN old ELSE new

\* Mutant: the first match decides.
EarlierOver(later, m) ==
    [pn |-> m.pn, pn_inval |-> m.pn_inval, ver |-> m.ver, rev |-> m.rev]

\* A later match decides, but a group that takes no part in it keeps what the
\* match before gave it.
Over(later, m) ==
    [pn |-> Or(later.pn, m.pn), pn_inval |-> Or(later.pn_inval, m.pn_inval),
     ver |-> Or(later.ver, m.ver), rev |-> Or(later.rev, m.rev)]

\* What the matches at or behind a position give.
ParsedFrom(s) ==
    LET parsed[from \in 1..(Len(s) + 1)] ==
            IF \A n \in from..Len(s) : Hyphens(s, n) = {} THEN NotParsed
            ELSE LET m == PortageMatch(s, from) IN Over(parsed[m.end], m)
    IN  parsed

parse_ebuild_name(stem) == ParsedFrom(stem)[1]

---------------------------------------------------------------------------
(* The tag of a release.                                                   *)

\* ([-_.]?(?<tag>(pre|p|beta|alpha|rc)\d*)|(?<subver>[a-z]))*(-r\d+)?
TagSuffixes(s) ==
    LET more[p \in 1..(Len(s) + 1)] ==
            LET w == IF At(s, p) \in {"-", ".", Underscore} THEN p + 1 ELSE p
                e == WordEnd(s, w)
            IN  IF e > w
                THEN [more[e] EXCEPT !.tag = Or(@, SubSeq(s, w, e - 1))]
                ELSE IF At(s, p) \in Letter
                THEN [more[p + 1] EXCEPT !.subver = Or(@, <<s[p]>>)]
                ELSE [tag |-> <<>>, subver |-> <<>>, end |-> RevisionEnd(s, p)]
    IN  more

\* Mutant: a tag has no name.
PastNoName(s, i) == i

\* ((?<name>[\w][\w+-]*?)-)?
PastName(s, i) == IF Hyphens(s, i) # {} THEN Min(Hyphens(s, i)) + 1 ELSE i

\* Where a match can start, at or behind a position.
Starts(s, from) == {n \in from..Len(s) : s[PastName(s, n)] \in Digit}

\* The first match at or behind a position.
TagMatch(s, from) ==
    LET v == PastName(s, Min(Starts(s, from)))
        e == NumberEnd(s, v)
        more == TagSuffixes(s)[e]
    IN  [ver |-> SubSeq(s, v, e - 1), tag |-> more.tag, subver |-> more.subver,
         end |-> more.end]

\* What the matches at or behind a position give.
TagFrom(s) ==
    LET read[from \in 1..(Len(s) + 1)] ==
            IF Starts(s, from) = {} THEN [ver |-> <<>>, tag |-> <<>>, subver |-> <<>>]
            ELSE LET m == TagMatch(s, from)
                     later == read[m.end]
                 IN  [ver |-> Or(later.ver, m.ver), tag |-> Or(later.tag, m.tag),
                      subver |-> Or(later.subver, m.subver)]
    IN  read

Joined(part) == IF part = <<>> THEN <<>> ELSE <<"-">> \o part

\* <<>> if there is no match.
tag_to_portage_version(tag) ==
    LET res == TagFrom(tag)[1]
    IN  res.ver \o Joined(res.tag) \o Joined(res.subver)

---------------------------------------------------------------------------
(* std::string's operator<.                                                *)

Rank(c) == CHOOSE i \in DOMAIN Ascii : Ascii[i] = c

Less(s, t) ==
    \E n \in 0..Len(s) :
        /\ n < Len(t)
        /\ \A i \in 1..n : s[i] = t[i]
        /\ n < Len(s) => Rank(s[n + 1]) < Rank(t[n + 1])

=============================================================================
