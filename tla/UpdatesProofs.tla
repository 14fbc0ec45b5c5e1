--------------------------- MODULE UpdatesProofs ---------------------------
(***************************************************************************)
(* Theorems about Updates for every package, version, revision and history *)
(* of releases: a name is read like portage reads it, or refused; of a     *)
(* plain tag the number is read; what is merged is the package with the    *)
(* version fetched, and among numbers of one shape an upgrade.             *)
(*                                                                         *)
(* Three kinds of lemmas carry the reading.  The regular expressions are   *)
(* loops over positions, so first every recursive function is shown to     *)
(* exist (RecursionHasASolution).  Then each part of a version is shown to *)
(* end at the same place in a text and in a piece of it (NumberCut,        *)
(* WordCut, SuffixesCut, VersionCut, RevisionCut), and not to pass a       *)
(* hyphen with a digit behind it (VersionStops, RevisionStops).  With      *)
(* these, a match that begins within the package either is refused, or     *)
(* ends before the package's hyphen, or begins its version there: by       *)
(* induction from that hyphen down, the last match is the right one        *)
(* (NameIsReadWell).                                                       *)
(*                                                                         *)
(* The merging rests on what Replaced keeps.  It copies or replaces piece  *)
(* by piece (ReplacedByPieces), and a hyphen is never in a version, so a   *)
(* hyphen parts its work in two (ReplacedBesideHyphen).  What is put in    *)
(* has no hyphen with a digit behind it (FetchedIs), so none arises beside *)
(* the package's own (ReplacedIsSmooth): either the package is as before   *)
(* and what was fetched is its version (FetchedIsRead), or portage has no  *)
(* manifest for the name (PackageStays).                                   *)
(***************************************************************************)
EXTENDS Updates, FiniteSetTheorems, SequenceTheorems, TLAPS

\* Only its lemmas about numbers and strings are used, which say nothing of its
\* variables.
Strings == INSTANCE StringReplaceProofs
    WITH Char <- TextChar, Nul <- "end", Text <- {}, Word <- {}, SizeMod <- 1,
         arg <- name, what <- parsed, with <- fetched, str <- new_name, stage <- stage,
         pos <- published, found <- history, rpos <- published, wpos <- published

---------------------------------------------------------------------------
(* Numbers.                                                                *)

LEMMA LeastIs ==
    ASSUME NEW T, T \subseteq Nat, T # {}
    PROVE  /\ Min(T) \in T
           /\ \A n \in T : Min(T) <= n
<1> DEFINE Is(m) == \A n \in T : m <= n
<1>1. \E m \in T : Is(m)
  BY Strings!LeastNumber
<1>2. Min(T) = CHOOSE m \in T : Is(m)
  BY DEF Min
<1> HIDE DEF Is
<1>3. Min(T) \in T /\ Is(Min(T))
  BY <1>1, <1>2
<1> QED
  BY <1>3 DEF Is

LEMMA GreatestIs ==
    ASSUME NEW b \in Nat, NEW T, T \subseteq 0..b, T # {}
    PROVE  /\ Max(T) \in T
           /\ \A n \in T : Max(T) >= n
<1> DEFINE Is(m) == \A n \in T : m >= n
<1>1. \E m \in T : Is(m)
  BY Strings!GreatestNumber
<1>2. Max(T) = CHOOSE m \in T : Is(m)
  BY DEF Max
<1> HIDE DEF Is
<1>3. Max(T) \in T /\ Is(Max(T))
  BY <1>1, <1>2
<1> QED
  BY <1>3 DEF Is

\* What holds at a position if it holds at all later ones holds at all.
LEMMA FromTheEnd ==
    ASSUME NEW b \in Nat, NEW T,
           \A p \in 0..b : (\A q \in (p + 1)..b : q \in T) => p \in T
    PROVE  0..b \subseteq T
  BY Strings!FromTheEnd

\* What holds of a number if it holds of all smaller ones holds of all.
LEMMA FromTheBeginning ==
    ASSUME NEW b \in Nat, NEW T,
           \A p \in 0..b : (\A q \in 0..(p - 1) : q \in T) => p \in T
    PROVE  0..b \subseteq T
  BY Strings!FromTheBeginning

\* A recursive definition, each value of which rests on values of lower rank.
Grounded(D, V, b, rank, Rule) ==
    /\ V # {} /\ b \in Nat
    /\ rank \in [D -> 0..b]
    /\ Rule \in [D -> [[D -> V] -> V]]
    /\ \A p \in D : \A f, g \in [D -> V] :
          (\A q \in D : rank[q] < rank[p] => f[q] = g[q]) => Rule[p][f] = Rule[p][g]

\* It has a solution.
LEMMA RecursionHasASolution ==
    ASSUME NEW D, NEW V, NEW b, NEW rank, NEW Rule, Grounded(D, V, b, rank, Rule)
    PROVE  \E f \in [D -> V] : \A p \in D : f[p] = Rule[p][f]
<1> DEFINE Solves(f, n) == \A p \in D : rank[p] <= n => f[p] = Rule[p][f]
           Holds(n) == \E f \in [D -> V] : Solves(f, n)
           T == {n \in 0..b : Holds(n)}
<1>0. /\ V # {} /\ b \in Nat /\ rank \in [D -> 0..b] /\ Rule \in [D -> [[D -> V] -> V]]
      /\ \A p \in D : \A f, g \in [D -> V] :
            (\A q \in D : rank[q] < rank[p] => f[q] = g[q]) => Rule[p][f] = Rule[p][g]
  BY DEF Grounded
<1> USE <1>0
<1>1. ASSUME NEW n \in 0..b, \A m \in 0..(n - 1) : m \in T
      PROVE  Holds(n)
  <2>0. n \in Nat /\ \A p \in D : rank[p] \in Nat
    BY <1>0
  <2>1. PICK f \in [D -> V] : \A p \in D : rank[p] < n => f[p] = Rule[p][f]
    <3>1. CASE n = 0
      <4>1. PICK v \in V : TRUE
        OBVIOUS
      <4>2. [p \in D |-> v] \in [D -> V]
        BY <4>1
      <4>3. \A p \in D : ~ (rank[p] < n)
        BY <3>1
      <4> QED
        BY <4>2, <4>3
    <3>2. CASE n # 0
      <4>1. n - 1 \in 0..(n - 1)
        BY <3>2
      <4>2. PICK f \in [D -> V] : Solves(f, n - 1)
        BY <4>1, <1>1
      <4>3. \A p \in D : rank[p] < n => rank[p] <= n - 1
        OBVIOUS
      <4> QED
        BY <4>2, <4>3
    <3> QED
      BY <3>1, <3>2
  <2> DEFINE g == [p \in D |-> IF rank[p] = n THEN Rule[p][f] ELSE f[p]]
  <2>2. g \in [D -> V]
    BY <2>1
  <2>3. \A p \in D : rank[p] < n => g[p] = f[p]
    OBVIOUS
  <2>4. \A p \in D : rank[p] = n => g[p] = Rule[p][f]
    OBVIOUS
  <2> HIDE DEF g
  <2>5. ASSUME NEW p \in D, rank[p] <= n PROVE g[p] = Rule[p][g]
    <3>1. \A q \in D : rank[q] < rank[p] => g[q] = f[q]
      BY <2>3, <2>5
    <3>2. Rule[p][g] = Rule[p][f]
      BY <3>1, <2>1, <2>2
    <3>3. rank[p] \in Int /\ n \in Int
      BY <2>0
    <3>4. rank[p] < n \/ rank[p] = n
      <4> DEFINE r == rank[p]
      <4>1. r \in Int /\ n \in Int /\ r <= n
        BY <3>3, <2>5
      <4> HIDE DEF r
      <4>2. r < n \/ r = n
        BY <4>1
      <4> QED
        BY <4>2 DEF r
    <3> QED
      BY <3>2, <3>4, <2>1, <2>3, <2>4
  <2> QED
    BY <2>2, <2>5
<1> HIDE DEF Holds
<1>2. 0..b \subseteq T
  <2>1. \A p \in 0..b : (\A q \in 0..(p - 1) : q \in T) => p \in T
    BY <1>1
  <2> HIDE DEF T
  <2> QED
    BY <2>1, FromTheBeginning
<1>3. Holds(b)
  BY <1>2
<1> QED
  BY <1>3 DEF Holds

---------------------------------------------------------------------------
(* Characters.                                                             *)

LEMMA NoDigit ==
    /\ "end" \notin Digit /\ "-" \notin Digit /\ "." \notin Digit /\ Underscore \notin Digit
    /\ "+" \notin Digit /\ "r" \notin Digit
  BY DEF Digit, Underscore

LEMMA NoLetter ==
    /\ "end" \notin Letter /\ "-" \notin Letter /\ "." \notin Letter /\ Underscore \notin Letter
    /\ "+" \notin Letter /\ "r" \in Letter
  BY DEF Letter, Underscore

LEMMA NoUnderscore ==
    Underscore # "end" /\ Underscore # "-" /\ Underscore # "." /\ Underscore # "+"
  BY DEF Underscore

LEMMA DigitsAreNoLetters == \A c \in Digit : c \notin Letter
  BY DEF Digit, Letter

LEMMA AtIs ==
    ASSUME NEW s \in Seq(TextChar)
    PROVE  /\ Len(s) \in Nat
           /\ \A p \in 1..Len(s) : At(s, p) = s[p] /\ s[p] \in TextChar
           /\ \A p \in Int : p \notin 1..Len(s) => At(s, p) = "end"
  BY DEF At

LEMMA ConcatIs ==
    ASSUME NEW s \in Seq(TextChar), NEW t \in Seq(TextChar)
    PROVE  /\ s \o t \in Seq(TextChar)
           /\ Len(s \o t) = Len(s) + Len(t)
           /\ \A i \in 1..Len(s) : (s \o t)[i] = s[i]
           /\ \A i \in 1..Len(t) : (s \o t)[i + Len(s)] = t[i]
  BY AtIs

IsText(t) == t \in Seq(TextChar)

Equals(s, t) == s = t

LEMMA Regrouped ==
    ASSUME NEW a, NEW b, NEW c, IsText(a), IsText(b), IsText(c)
    PROVE  Equals(a \o (b \o c), (a \o b) \o c)
<1>1. /\ a \in Seq(TextChar) /\ b \in Seq(TextChar) /\ c \in Seq(TextChar)
  BY DEF IsText
<1>2. a \o (b \o c) = (a \o b) \o c
  BY <1>1, ConcatAssociative, SMTT(20)
<1> QED
  BY <1>2 DEF Equals

LEMMA SameTexts ==
    ASSUME NEW s, NEW t, IsText(s), IsText(t), Len(s) = Len(t), \A i \in 1..Len(t) : s[i] = t[i]
    PROVE  s = t
  BY DEF IsText

LEMMA SubSeqIs ==
    ASSUME NEW s \in Seq(TextChar), NEW p \in 1..(Len(s) + 1), NEW q \in (p - 1)..Len(s)
    PROVE  /\ SubSeq(s, p, q) \in Seq(TextChar)
           /\ Len(SubSeq(s, p, q)) = q - p + 1
           /\ \A i \in 1..(q - p + 1) : SubSeq(s, p, q)[i] = s[i + p - 1]
  BY AtIs

---------------------------------------------------------------------------
(* Where the parts of a version end.                                       *)

LEMMA DigitsEndIs ==
    ASSUME NEW s \in Seq(TextChar), NEW p \in 1..(Len(s) + 1)
    PROVE  /\ DigitsEnd(s, p) \in p..(Len(s) + 1)
           /\ \A i \in p..(DigitsEnd(s, p) - 1) : s[i] \in Digit
           /\ At(s, DigitsEnd(s, p)) \notin Digit
<1> DEFINE T == {q \in p..(Len(s) + 1) : At(s, q) \notin Digit}
           e == DigitsEnd(s, p)
<1>1. Len(s) + 1 \in T /\ T \subseteq Nat /\ T \subseteq p..(Len(s) + 1)
  <2>1. Len(s) + 1 \in p..(Len(s) + 1) /\ Len(s) + 1 \in Int /\ Len(s) + 1 \notin 1..Len(s)
    BY AtIs
  <2>2. At(s, Len(s) + 1) \notin Digit
    BY <2>1, AtIs, NoDigit
  <2> QED
    BY <2>1, <2>2
<1>2. e \in T /\ \A q \in T : e <= q
  <2>1. e = Min(T)
    BY DEF DigitsEnd
  <2> HIDE DEF T, e
  <2> QED
    BY <2>1, <1>1, LeastIs
<1>3. ASSUME NEW i \in p..(e - 1) PROVE s[i] \in Digit
  <2>1. i \in p..(Len(s) + 1) /\ ~ (e <= i)
    BY <1>1, <1>2
  <2>2. i \notin T
    BY <2>1, <1>2
  <2>3. i \in 1..Len(s)
    BY <2>1, <1>1, <1>2
  <2> QED
    BY <2>1, <2>2, <2>3, AtIs
<1> QED
  BY <1>1, <1>2, <1>3

\* What a number may have at a position.
NumberAt(s, p, i) ==
    \/ s[i] \in Digit
    \/ s[i] = "." /\ i > p /\ s[i - 1] \in Digit /\ At(s, i + 1) \in Digit

LEMMA NumberEndIs ==
    ASSUME NEW s \in Seq(TextChar), NEW p \in 1..(Len(s) + 1)
    PROVE  /\ NumberEnd(s, p) \in p..(Len(s) + 1)
           /\ \A i \in p..(NumberEnd(s, p) - 1) : NumberAt(s, p, i)
           /\ \A q \in p..(Len(s) + 1) :
                 (\A i \in p..(q - 1) : NumberAt(s, p, i)) => q <= NumberEnd(s, p)
<1> DEFINE T == {q \in p..(Len(s) + 1) : \A i \in p..(q - 1) : NumberAt(s, p, i)}
           e == NumberEnd(s, p)
<1>1. p \in T /\ Len(s) + 1 \in Nat /\ T \subseteq 0..(Len(s) + 1)
  BY AtIs
<1>2. e \in T /\ \A q \in T : e >= q
  <2>1. e = Max(T)
    BY DEF NumberEnd, NumberAt
  <2> HIDE DEF T, e
  <2> QED
    BY <2>1, <1>1, GreatestIs
<1> QED
  BY <1>2

LEMMA WordsAreLetters ==
    ASSUME NEW w \in Words
    PROVE  w \in Seq(Letter) /\ Len(w) \in 1..5
<1>1. w = <<"p", "r", "e">> \/ w = <<"p">> \/ w = <<"b", "e", "t", "a">>
      \/ w = <<"a", "l", "p", "h", "a">> \/ w = <<"r", "c">>
  BY DEF Words
<1>2. {"p", "r", "e", "b", "t", "a", "l", "h", "c"} \subseteq Letter
  BY DEF Letter, Underscore
<1>3. <<"p", "r", "e">> \in Seq(Letter) /\ <<"p">> \in Seq(Letter) /\ <<"r", "c">> \in Seq(Letter)
  BY <1>2
<1>4. <<"b", "e", "t", "a">> \in Seq(Letter)
  BY <1>2
<1>5. <<"a", "l", "p", "h", "a">> \in Seq(Letter)
  BY <1>2
<1>6. Len(w) \in 1..5
  BY <1>1
<1> QED
  BY <1>1, <1>3, <1>4, <1>5, <1>6

\* A word of n characters.
WordAt(s, p, n) == SubSeq(s, p, p + n - 1) \in Words

LEMMA WordEndIs ==
    ASSUME NEW s \in Seq(TextChar), NEW p \in 1..(Len(s) + 1)
    PROVE  \/ /\ WordEnd(s, p) = p
              /\ \A n \in 1..(Len(s) + 1 - p) : ~ WordAt(s, p, n)
           \/ \E n \in 1..(Len(s) + 1 - p) :
                 /\ WordAt(s, p, n)
                 /\ \A m \in 1..(Len(s) + 1 - p) : WordAt(s, p, m) => m <= n
                 /\ WordEnd(s, p) = DigitsEnd(s, p + n)
<1> DEFINE T == {n \in 1..(Len(s) + 1 - p) : WordAt(s, p, n)}
<1>1. WordEnd(s, p) = IF T = {} THEN p ELSE DigitsEnd(s, p + Max(T))
  BY DEF WordEnd, WordAt
<1>2. CASE T = {}
  BY <1>1, <1>2
<1>3. CASE T # {}
  <2>1. Len(s) + 1 - p \in Nat /\ T \subseteq 0..(Len(s) + 1 - p)
    BY AtIs
  <2>2. Max(T) \in T /\ \A m \in T : Max(T) >= m
    <3> HIDE DEF T
    <3> QED
      BY <2>1, <1>3, GreatestIs
  <2>3. WordEnd(s, p) = DigitsEnd(s, p + Max(T))
    BY <1>1, <1>3
  <2> DEFINE n == Max(T)
  <2>4. n \in 1..(Len(s) + 1 - p) /\ WordAt(s, p, n)
    BY <2>2
  <2>5. \A m \in 1..(Len(s) + 1 - p) : WordAt(s, p, m) => m <= n
    BY <2>2
  <2> HIDE DEF n
  <2> QED
    BY <2>3, <2>4, <2>5 DEF n
<1> QED
  BY <1>2, <1>3

\* A word and the digits behind it are letters and digits, and there is none in
\* nothing.
LEMMA WordEndRange ==
    ASSUME NEW s \in Seq(TextChar), NEW p \in 1..(Len(s) + 1)
    PROVE  /\ WordEnd(s, p) \in p..(Len(s) + 1)
           /\ \A i \in p..(WordEnd(s, p) - 1) : s[i] \in Letter \cup Digit
<1>1. CASE WordEnd(s, p) = p
  BY <1>1, AtIs
<1>2. ASSUME NEW n \in 1..(Len(s) + 1 - p), WordAt(s, p, n),
             WordEnd(s, p) = DigitsEnd(s, p + n)
      PROVE  /\ WordEnd(s, p) \in p..(Len(s) + 1)
             /\ \A i \in p..(WordEnd(s, p) - 1) : s[i] \in Letter \cup Digit
  <2>1. p + n \in 1..(Len(s) + 1) /\ p + n > p /\ p + n \in Int /\ Len(s) \in Nat
    BY AtIs
  <2>2. /\ WordEnd(s, p) \in (p + n)..(Len(s) + 1)
        /\ \A i \in (p + n)..(WordEnd(s, p) - 1) : s[i] \in Digit
    BY <2>1, <1>2, DigitsEndIs
  <2>3. ASSUME NEW i \in p..(p + n - 1) PROVE s[i] \in Letter
    <3> DEFINE w == SubSeq(s, p, p + n - 1)
    <3>1. w \in Seq(Letter)
      BY <1>2, WordsAreLetters DEF WordAt
    <3>2. p \in 1..(Len(s) + 1) /\ p + n - 1 \in (p - 1)..Len(s)
      BY <2>1
    <3> DEFINE q == p + n - 1
               k == i - p + 1
    <3>3. Len(w) = n /\ w[k] = s[i]
      <4>1. q - p + 1 = n /\ k \in 1..n /\ k + p - 1 = i
        BY <2>1
      <4> HIDE DEF q, k
      <4>2. Len(SubSeq(s, p, q)) = n /\ SubSeq(s, p, q)[k] = s[k + p - 1]
        BY <3>2, <4>1, SubSeqIs DEF q
      <4> QED
        BY <4>1, <4>2 DEF q
    <3> HIDE DEF w
    <3>4. i - p + 1 \in 1..Len(w)
      BY <3>3
    <3> QED
      BY <3>1, <3>3, <3>4
  <2> QED
    BY <2>1, <2>2, <2>3
<1> QED
  BY <1>1, <1>2, WordEndIs

\* The equation SuffixesEnd is defined by.
SuffixRule(s, f, p) ==
    IF At(s, p) = Underscore /\ WordEnd(s, p + 1) > p + 1 THEN f[WordEnd(s, p + 1)] ELSE p

\* Where it asks again.
LEMMA SuffixGoesOn ==
    ASSUME NEW s \in Seq(TextChar), NEW p \in 1..(Len(s) + 1), At(s, p) = Underscore
    PROVE  /\ p \in 1..Len(s) /\ p + 1 \in 1..(Len(s) + 1)
           /\ WordEnd(s, p + 1) \in (p + 1)..(Len(s) + 1)
<1>1. Len(s) \in Nat
  BY AtIs
<1>2. p \in Int
  BY <1>1
<1>3. p \in 1..Len(s)
  BY <1>2, AtIs, NoUnderscore
<1>4. p + 1 \in 1..(Len(s) + 1)
  BY <1>1, <1>3
<1>5. WordEnd(s, p + 1) \in (p + 1)..(Len(s) + 1)
  BY <1>4, WordEndRange
<1> QED
  BY <1>3, <1>4, <1>5

LEMMA SuffixesEndDefined ==
    ASSUME NEW s \in Seq(TextChar)
    PROVE  \A p \in 1..(Len(s) + 1) :
              /\ SuffixesEnd(s)[p] \in p..(Len(s) + 1)
              /\ SuffixesEnd(s)[p] = SuffixRule(s, SuffixesEnd(s), p)
<1> DEFINE b == Len(s) + 1
           D == 1..b
           rank == [p \in D |-> b - p]
           Rule == [p \in D |-> [f \in [D -> D] |-> SuffixRule(s, f, p)]]
           Solves(g) == g = [p \in D |-> SuffixRule(s, g, p)]
           end == SuffixesEnd(s)
<1>1. b \in Nat /\ D # {} /\ rank \in [D -> 0..b]
  <2>1. b \in Nat /\ b >= 1
    <3>1. Len(s) \in Nat
      BY AtIs
    <3> QED
      BY <3>1
  <2> HIDE DEF b
  <2>2. b \in 1..b
    BY <2>1
  <2>3. \A p \in 1..b : b - p \in 0..b
    BY <2>1
  <2> QED
    BY <2>1, <2>2, <2>3
<1>2. ASSUME NEW p \in D, At(s, p) = Underscore /\ WordEnd(s, p + 1) > p + 1
      PROVE  WordEnd(s, p + 1) \in D /\ rank[WordEnd(s, p + 1)] < rank[p]
  <2>1. p \in 1..(Len(s) + 1) /\ At(s, p) = Underscore
    BY <1>2
  <2>2. WordEnd(s, p + 1) \in (p + 1)..b
    BY <2>1, SuffixGoesOn
  <2> HIDE DEF b
  <2>3. p \in 1..b /\ p \in Int
    OBVIOUS
  <2>4. WordEnd(s, p + 1) \in D
    BY <2>2, <2>3, <1>1
  <2> QED
    BY <2>2, <2>3, <2>4, <1>1
<1>3. ASSUME NEW p \in D, NEW f \in [D -> D]
      PROVE  SuffixRule(s, f, p) \in D
  BY <1>2 DEF SuffixRule
<1>4. Rule \in [D -> [[D -> D] -> D]]
  BY <1>3
<1>5. ASSUME NEW p \in D, NEW f \in [D -> D], NEW g \in [D -> D],
             \A q \in D : rank[q] < rank[p] => f[q] = g[q]
      PROVE  Rule[p][f] = Rule[p][g]
  <2>1. SuffixRule(s, f, p) = SuffixRule(s, g, p)
    BY <1>2, <1>5 DEF SuffixRule
  <2> QED
    BY <2>1
<1>6. PICK f \in [D -> D] : \A p \in D : f[p] = Rule[p][f]
  <2> HIDE DEF D, rank, Rule, b
  <2>1. Grounded(D, D, b, rank, Rule)
    BY <1>1, <1>4, <1>5 DEF Grounded
  <2> QED
    BY <2>1, RecursionHasASolution
<1>7. Solves(f)
  BY <1>6
<1>8. end = CHOOSE g : Solves(g)
  BY DEF SuffixesEnd, SuffixRule
<1>9. Solves(end)
  <2> HIDE DEF Solves, end
  <2> QED
    BY <1>7, <1>8
<1> HIDE DEF end
<1>10. \A p \in D : end[p] = SuffixRule(s, end, p)
  BY <1>9
<1>11. \A p \in 0..b : p = 0 \/ end[p] \in p..b
  <2> DEFINE T == {p \in 0..b : p = 0 \/ end[p] \in p..b}
  <2>1. ASSUME NEW p \in 0..b, \A q \in (p + 1)..b : q \in T
        PROVE  p = 0 \/ end[p] \in p..b
    <3> SUFFICES ASSUME p # 0 PROVE end[p] \in p..b
      OBVIOUS
    <3>1. p \in D
      BY <1>1
    <3>2. CASE At(s, p) = Underscore /\ WordEnd(s, p + 1) > p + 1
      <4> DEFINE q == WordEnd(s, p + 1)
      <4>1. q \in (p + 1)..b /\ q # 0
        <5>1. q \in (p + 1)..b
          BY <3>1, <3>2, SuffixGoesOn
        <5> HIDE DEF q, b
        <5> QED
          BY <5>1, <3>1
      <4>2. end[p] = end[q]
        BY <3>1, <3>2, <1>10 DEF SuffixRule
      <4> HIDE DEF q
      <4>3. end[q] \in q..b
        BY <4>1, <2>1
      <4> QED
        BY <4>1, <4>2, <4>3
    <3>3. CASE ~ (At(s, p) = Underscore /\ WordEnd(s, p + 1) > p + 1)
      <4>1. end[p] = p
        BY <3>1, <3>3, <1>10 DEF SuffixRule
      <4> HIDE DEF b
      <4> QED
        BY <4>1, <3>1, <1>1
    <3> QED
      BY <3>2, <3>3
  <2>2. 0..b \subseteq T
    <3>1. \A p \in 0..b : (\A q \in (p + 1)..b : q \in T) => p \in T
      BY <2>1
    <3> HIDE DEF T
    <3> QED
      BY <3>1, <1>1, FromTheEnd
  <2> QED
    BY <2>2
<1>12. \A p \in D : p # 0 /\ p \in 0..b
  BY <1>1
<1> QED
  BY <1>10, <1>11, <1>12 DEF end

\* Suffixes are letters, digits and underscores.
SuffixChar == Letter \cup Digit \cup {Underscore}

LEMMA SuffixesEndRange ==
    ASSUME NEW s \in Seq(TextChar), NEW p \in 1..(Len(s) + 1)
    PROVE  \A i \in p..(SuffixesEnd(s)[p] - 1) : s[i] \in SuffixChar
<1> DEFINE b == Len(s) + 1
           end == SuffixesEnd(s)
           Fits(n) == n = 0 \/ \A i \in n..(end[n] - 1) : s[i] \in SuffixChar
           T == {n \in 0..b : Fits(n)}
<1>1. b \in Nat
  BY AtIs
<1>2. \A n \in 1..b : end[n] \in n..b /\ end[n] = SuffixRule(s, end, n)
  BY SuffixesEndDefined
<1> HIDE DEF end
<1>3. ASSUME NEW n \in 0..b, \A q \in (n + 1)..b : q \in T, n # 0
      PROVE  \A i \in n..(end[n] - 1) : s[i] \in SuffixChar
  <2>1. n \in 1..b
    BY <1>1, <1>3
  <2>2. CASE At(s, n) = Underscore /\ WordEnd(s, n + 1) > n + 1
    <3> DEFINE q == WordEnd(s, n + 1)
    <3>1. /\ q \in (n + 1)..b /\ q # 0 /\ n \in 1..Len(s) /\ n + 1 \in 1..b
      <4>1. q \in (n + 1)..b /\ n \in 1..Len(s) /\ n + 1 \in 1..b
        BY <2>1, <2>2, SuffixGoesOn
      <4> HIDE DEF q, b
      <4> QED
        BY <4>1, <2>1
    <3>2. end[n] = end[q]
      BY <2>1, <2>2, <1>2 DEF SuffixRule
    <3>3. \A i \in (n + 1)..(q - 1) : s[i] \in Letter \cup Digit
      BY <3>1, WordEndRange
    <3>4. s[n] = Underscore
      BY <2>2, <3>1, AtIs
    <3> HIDE DEF q
    <3>5. \A i \in q..(end[q] - 1) : s[i] \in SuffixChar
      BY <3>1, <1>3
    <3>6. ASSUME NEW i \in n..(end[n] - 1) PROVE s[i] \in SuffixChar
      <4>1. i = n \/ i \in (n + 1)..(q - 1) \/ i \in q..(end[q] - 1)
        BY <3>1, <3>2, <2>1, <1>2
      <4> QED
        BY <4>1, <3>3, <3>4, <3>5 DEF SuffixChar
    <3> QED
      BY <3>6
  <2>3. CASE ~ (At(s, n) = Underscore /\ WordEnd(s, n + 1) > n + 1)
    <3>1. end[n] = n
      BY <2>1, <2>3, <1>2 DEF SuffixRule
    <3> QED
      BY <3>1, <2>1
  <2> QED
    BY <2>2, <2>3
<1>4. 0..b \subseteq T
  <2>1. \A n \in 0..b : (\A q \in (n + 1)..b : q \in T) => n \in T
    BY <1>3
  <2> HIDE DEF T
  <2> QED
    BY <2>1, <1>1, FromTheEnd
<1>5. p # 0 /\ p \in 0..b
  BY <1>1
<1> QED
  BY <1>4, <1>5 DEF end

---------------------------------------------------------------------------
(* Parts of a text.                                                        *)

\* A text is what another has behind a position.
Within(t, s, o) ==
    /\ o \in Nat
    /\ o + Len(t) <= Len(s)
    /\ \A i \in 1..Len(t) : t[i] = s[i + o]

LEMMA AtWithin ==
    ASSUME NEW s \in Seq(TextChar), NEW t \in Seq(TextChar), NEW o, Within(t, s, o),
           NEW p \in 1..Len(t)
    PROVE  /\ p + o \in 1..Len(s)
           /\ t[p] = s[p + o]
           /\ At(t, p) = s[p + o] /\ At(s, p + o) = s[p + o]
<1>1. Len(t) \in Nat /\ Len(s) \in Nat /\ o \in Nat /\ o + Len(t) <= Len(s)
  BY AtIs DEF Within
<1>2. p + o \in 1..Len(s)
  BY <1>1
<1>3. t[p] = s[p + o]
  BY DEF Within
<1> QED
  BY <1>2, <1>3, AtIs

\* A part that ends within the span of t ends there in t, too; one that ends
\* behind it reaches its end in t.
LEMMA DigitsCut ==
    ASSUME NEW s \in Seq(TextChar), NEW t \in Seq(TextChar), NEW o, Within(t, s, o),
           NEW p \in 1..(Len(t) + 1), DigitsEnd(s, p + o) <= o + Len(t) + 1
    PROVE  DigitsEnd(t, p) + o = DigitsEnd(s, p + o)
<1> DEFINE m == Len(t)
           n == Len(s)
           e == DigitsEnd(s, p + o)
           f == DigitsEnd(t, p)
<1>1. m \in Nat /\ n \in Nat /\ o \in Nat /\ o + m <= n /\ p \in 1..(m + 1)
  BY AtIs DEF Within
<1>2. p + o \in 1..(n + 1)
  <2> HIDE DEF m, n
  <2> QED
    BY <1>1
<1>3. /\ e \in (p + o)..(n + 1)
      /\ \A i \in (p + o)..(e - 1) : s[i] \in Digit
      /\ At(s, e) \notin Digit
  BY <1>2, DigitsEndIs
<1>4. /\ f \in p..(m + 1)
      /\ \A i \in p..(f - 1) : t[i] \in Digit
      /\ At(t, f) \notin Digit
  BY DigitsEndIs
<1>5. e <= o + m + 1
  OBVIOUS
<1>6. \A i \in 1..m : At(t, i) = s[i + o] /\ At(s, i + o) = s[i + o] /\ t[i] = s[i + o]
  BY AtWithin
<1> HIDE DEF m, n, e, f
<1>7. ~ (f + o < e)
  <2> SUFFICES ASSUME f + o < e PROVE FALSE
    OBVIOUS
  <2>1. f \in 1..m /\ f + o \in (p + o)..(e - 1)
    BY <1>1, <1>3, <1>4, <1>5
  <2> QED
    BY <2>1, <1>3, <1>4, <1>6
<1>8. ~ (f + o > e)
  <2> SUFFICES ASSUME f + o > e PROVE FALSE
    OBVIOUS
  <2> DEFINE i == e - o
  <2>1. i \in p..(f - 1) /\ i \in 1..m /\ i + o = e
    BY <1>1, <1>3, <1>4, <1>5
  <2> HIDE DEF i
  <2> QED
    BY <2>1, <1>3, <1>4, <1>6
<1>9. f + o = e
  BY <1>1, <1>3, <1>4, <1>7, <1>8
<1> QED
  BY <1>9 DEF e, f

\* What stands behind a number does not go on with it.
LEMMA NumberStops ==
    ASSUME NEW s \in Seq(TextChar), NEW p \in 1..(Len(s) + 1)
    PROVE  At(s, NumberEnd(s, p)) \notin Digit
<1> DEFINE n == Len(s)
           e == NumberEnd(s, p)
<1>1. n \in Nat
  BY AtIs
<1>2. /\ e \in p..(n + 1)
      /\ \A i \in p..(e - 1) : NumberAt(s, p, i)
      /\ \A q \in p..(n + 1) :
            (\A i \in p..(q - 1) : NumberAt(s, p, i)) => q <= e
  BY NumberEndIs
<1> HIDE DEF e
<1>3. ASSUME At(s, e) \in Digit PROVE FALSE
  <2>0. e \in Int /\ "end" \notin Digit
    BY <1>1, <1>2, NoDigit
  <2>1. e \in 1..n /\ At(s, e) = s[e]
    BY <2>0, <1>3, AtIs
  <2>2. NumberAt(s, p, e)
    BY <2>1, <1>3 DEF NumberAt
  <2> HIDE DEF n
  <2>3. \A i \in p..(e + 1 - 1) : i = e \/ i \in p..(e - 1)
    BY <1>1, <1>2, <2>1
  <2>4. e + 1 \in p..(n + 1)
    BY <1>1, <1>2, <2>1
  <2>5. e + 1 <= e
    BY <2>2, <2>3, <2>4, <1>2
  <2> QED
    BY <2>5, <2>0
<1> QED
  BY <1>3 DEF e

LEMMA NumberCut ==
    ASSUME NEW s \in Seq(TextChar), NEW t \in Seq(TextChar), NEW o, Within(t, s, o),
           NEW p \in 1..(Len(t) + 1), NumberEnd(s, p + o) <= o + Len(t) + 1
    PROVE  NumberEnd(t, p) + o = NumberEnd(s, p + o)
<1> DEFINE m == Len(t)
           n == Len(s)
           e == NumberEnd(s, p + o)
           f == NumberEnd(t, p)
<1>1. m \in Nat /\ n \in Nat /\ o \in Nat /\ o + m <= n /\ p \in 1..(m + 1)
  BY AtIs DEF Within
<1>2. p + o \in 1..(n + 1)
  <2> HIDE DEF m, n
  <2> QED
    BY <1>1
<1>3. /\ e \in (p + o)..(n + 1)
      /\ \A i \in (p + o)..(e - 1) : NumberAt(s, p + o, i)
      /\ \A q \in (p + o)..(n + 1) :
            (\A i \in (p + o)..(q - 1) : NumberAt(s, p + o, i)) => q <= e
      /\ At(s, e) \notin Digit
  BY <1>2, NumberEndIs, NumberStops
<1>4. /\ f \in p..(m + 1)
      /\ \A i \in p..(f - 1) : NumberAt(t, p, i)
      /\ \A q \in p..(m + 1) :
            (\A i \in p..(q - 1) : NumberAt(t, p, i)) => q <= f
      /\ At(t, f) \notin Digit
  BY NumberEndIs, NumberStops
<1>5. e <= o + m + 1
  OBVIOUS
<1>6. \A i \in 1..m : At(t, i) = s[i + o] /\ At(s, i + o) = s[i + o] /\ t[i] = s[i + o]
  BY AtWithin
<1>7. At(t, m + 1) \notin Digit
  BY AtIs, NoDigit
<1> HIDE DEF m, n, e, f
<1>8. e <= f + o
  <2> DEFINE q == e - o
  <2>1. q \in p..(m + 1) /\ q + o = e
    BY <1>1, <1>3, <1>5
  <2> HIDE DEF q
  <2>2. ASSUME NEW i \in p..(q - 1) PROVE NumberAt(t, p, i)
    <3> DEFINE j == i + o
    <3>1. i \in 1..m /\ j \in (p + o)..(e - 1) /\ j + 1 = (i + 1) + o /\ j = i + o
      BY <1>1, <2>1
    <3>2. NumberAt(s, p + o, j) /\ t[i] = s[j]
      BY <3>1, <1>3, <1>6
    <3> HIDE DEF j
    <3>3. CASE s[j] \in Digit
      BY <3>2, <3>3 DEF NumberAt
    <3>4. CASE s[j] \notin Digit
      <4>1. s[j] = "." /\ j > p + o /\ s[j - 1] \in Digit /\ At(s, j + 1) \in Digit
        BY <3>2, <3>4 DEF NumberAt
      <4>2. i > p /\ i - 1 \in 1..m /\ j - 1 = (i - 1) + o
        BY <4>1, <3>1, <1>1, <2>1
      <4>3. t[i - 1] \in Digit
        BY <4>1, <4>2, <1>6
      <4>4. j + 1 # e
        BY <4>1, <1>3
      <4>5. i + 1 \in 1..m
        BY <4>4, <3>1, <2>1, <1>1
      <4>6. At(t, i + 1) \in Digit
        BY <4>1, <4>5, <3>1, <1>6
      <4> QED
        BY <3>2, <4>1, <4>2, <4>3, <4>6 DEF NumberAt
    <3> QED
      BY <3>3, <3>4
  <2>3. q <= f
    BY <2>1, <2>2, <1>4
  <2> QED
    BY <2>1, <2>3, <1>1, <1>4
<1>9. f + o <= e
  <2> DEFINE q == f + o
  <2>1. q \in (p + o)..(n + 1)
    BY <1>1, <1>4
  <2> HIDE DEF q
  <2>2. ASSUME NEW j \in (p + o)..(q - 1) PROVE NumberAt(s, p + o, j)
    <3> DEFINE i == j - o
    <3>1. i \in p..(f - 1) /\ i \in 1..m /\ i + o = j
      BY <1>1, <1>4, <2>1 DEF q
    <3> HIDE DEF i
    <3>2. NumberAt(t, p, i) /\ t[i] = s[j]
      BY <3>1, <1>4, <1>6
    <3>3. CASE t[i] \in Digit
      BY <3>2, <3>3 DEF NumberAt
    <3>4. CASE t[i] \notin Digit
      <4>1. t[i] = "." /\ i > p /\ t[i - 1] \in Digit /\ At(t, i + 1) \in Digit
        BY <3>2, <3>4 DEF NumberAt
      <4>2. j > p + o /\ i - 1 \in 1..m /\ j - 1 = (i - 1) + o /\ j + 1 = (i + 1) + o
        BY <4>1, <3>1, <1>1
      <4>3. s[j - 1] \in Digit
        BY <4>1, <4>2, <1>6
      <4>4. i + 1 # m + 1
        BY <4>1, <1>7
      <4>5. i + 1 \in 1..m
        BY <4>4, <3>1, <1>1
      <4>6. At(s, j + 1) \in Digit
        BY <4>1, <4>5, <4>2, <1>6
      <4> QED
        BY <3>2, <4>1, <4>2, <4>3, <4>6 DEF NumberAt
    <3> QED
      BY <3>3, <3>4
  <2>3. q <= e
    BY <2>1, <2>2, <1>3
  <2> QED
    BY <2>3 DEF q
<1>10. f + o = e
  BY <1>1, <1>3, <1>4, <1>8, <1>9
<1> QED
  BY <1>10 DEF e, f

\* What stands at a position, n characters.
Piece(s, p, n) == SubSeq(s, p, p + n - 1)

LEMMA SamePieces ==
    ASSUME NEW s \in Seq(TextChar), NEW t \in Seq(TextChar), NEW o, Within(t, s, o),
           NEW p \in 1..(Len(t) + 1), NEW k \in 0..(Len(t) + 1 - p), NEW a, a = p + o
    PROVE  Piece(t, p, k) = Piece(s, a, k)
<1> DEFINE m == Len(t)
           n == Len(s)
           q == p + k - 1
           c == a + k - 1
           x == SubSeq(t, p, q)
           y == SubSeq(s, a, c)
<1>1. m \in Nat /\ n \in Nat /\ o \in Nat /\ o + m <= n
  BY AtIs DEF Within
<1>2. p \in Int /\ p <= m + 1 /\ 1 <= p /\ k \in Int /\ 0 <= k /\ k <= m + 1 - p
  <2>1. p \in 1..(m + 1) /\ k \in 0..(m + 1 - p)
    OBVIOUS
  <2> HIDE DEF m, n
  <2> QED
    BY <2>1, <1>1
<1>3. /\ a \in 1..(n + 1) /\ c \in (a - 1)..n /\ a \in Int /\ a = p + o
      /\ q \in (p - 1)..m /\ q - p + 1 = k /\ c - a + 1 = k
  <2> HIDE DEF m, n
  <2> QED
    BY <1>1, <1>2
<1> HIDE DEF q, c
<1>4. x \in Seq(TextChar) /\ Len(x) = k /\ \A i \in 1..k : x[i] = t[i + p - 1]
  BY <1>3, SubSeqIs
<1>5. y \in Seq(TextChar) /\ Len(y) = k /\ \A i \in 1..k : y[i] = s[i + a - 1]
  BY <1>3, SubSeqIs
<1>6. \A i \in 1..m : t[i] = s[i + o]
  BY DEF Within
<1> HIDE DEF x, y, m, n
<1>7. ASSUME NEW i \in 1..k PROVE x[i] = y[i]
  <2>1. i + p - 1 \in 1..m /\ (i + p - 1) + o = i + a - 1
    BY <1>1, <1>2, <1>3
  <2>2. x[i] = t[i + p - 1] /\ y[i] = s[i + a - 1]
    BY <1>4, <1>5
  <2> QED
    BY <2>1, <2>2, <1>6
<1>8. x = y
  BY <1>4, <1>5, <1>7
<1> QED
  BY <1>8 DEF x, y, q, c, Piece

LEMMA WordCut ==
    ASSUME NEW s \in Seq(TextChar), NEW t \in Seq(TextChar), NEW o, Within(t, s, o),
           NEW p \in 1..(Len(t) + 1), WordEnd(s, p + o) <= o + Len(t) + 1
    PROVE  WordEnd(t, p) + o = WordEnd(s, p + o)
<1> DEFINE m == Len(t)
           n == Len(s)
<1>1. m \in Nat /\ n \in Nat /\ o \in Nat /\ o + m <= n /\ p \in 1..(m + 1)
  BY AtIs DEF Within
<1>2. p + o \in 1..(n + 1) /\ p \in Int
  <2> HIDE DEF m, n
  <2> QED
    BY <1>1
<1>3. ASSUME NEW k \in 1..(m + 1 - p)
      PROVE  /\ WordAt(t, p, k) <=> WordAt(s, p + o, k)
             /\ k \in 1..(n + 1 - (p + o))
  <2> DEFINE a == p + o
  <2>1. k \in 0..(m + 1 - p) /\ k \in 1..(n + 1 - a)
    <3> HIDE DEF m, n
    <3> QED
      BY <1>1, <1>2
  <2>2. Piece(t, p, k) = Piece(s, a, k)
    BY <2>1, SamePieces
  <2> QED
    BY <2>1, <2>2 DEF WordAt, Piece
<1>4. CASE \A k \in 1..(n + 1 - (p + o)) : ~ WordAt(s, p + o, k)
  <2>1. WordEnd(s, p + o) = p + o
    BY <1>2, <1>4, WordEndIs
  <2>2. \A k \in 1..(m + 1 - p) : ~ WordAt(t, p, k)
    BY <1>3, <1>4
  <2>3. WordEnd(t, p) = p
    BY <2>2, WordEndIs
  <2> QED
    BY <2>1, <2>3
<1>5. ASSUME NEW k \in 1..(n + 1 - (p + o)), WordAt(s, p + o, k)
      PROVE  WordEnd(t, p) + o = WordEnd(s, p + o)
  <2>1. PICK l \in 1..(n + 1 - (p + o)) :
           /\ WordAt(s, p + o, l)
           /\ \A j \in 1..(n + 1 - (p + o)) : WordAt(s, p + o, j) => j <= l
           /\ WordEnd(s, p + o) = DigitsEnd(s, p + o + l)
    BY <1>2, <1>5, WordEndIs
  <2>2. p + o + l \in 1..(n + 1)
    <3> HIDE DEF m, n
    <3> QED
      BY <1>1, <1>2
  <2>3. DigitsEnd(s, p + o + l) \in (p + o + l)..(n + 1)
    BY <2>2, DigitsEndIs
  <2>4. l \in 1..(m + 1 - p)
    <3>1. DigitsEnd(s, p + o + l) <= o + m + 1
      BY <2>1
    <3> DEFINE e == DigitsEnd(s, p + o + l)
    <3> HIDE DEF m, n, e
    <3>2. e \in (p + o + l)..(n + 1) /\ e <= o + m + 1
      BY <2>3, <3>1 DEF e
    <3> QED
      BY <3>2, <1>1, <1>2
  <2>5. WordAt(t, p, l)
    BY <2>4, <2>1, <1>3
  <2>6. PICK k1 \in 1..(m + 1 - p) :
           /\ WordAt(t, p, k1)
           /\ \A j \in 1..(m + 1 - p) : WordAt(t, p, j) => j <= k1
           /\ WordEnd(t, p) = DigitsEnd(t, p + k1)
    BY <2>4, <2>5, WordEndIs
  <2>7. k1 = l
    <3>1. l <= k1
      BY <2>4, <2>5, <2>6
    <3>2. k1 <= l
      BY <2>6, <1>3, <2>1
    <3>3. k1 \in Int /\ l \in Int
      <4> HIDE DEF m, n
      <4> QED
        BY <2>4, <1>1, <1>2
    <3> QED
      BY <3>1, <3>2, <3>3
  <2>8. p + l \in 1..(m + 1) /\ p + l + o = p + o + l
    <3> HIDE DEF m, n
    <3> QED
      BY <2>4, <1>1, <1>2
  <2>9. DigitsEnd(s, p + l + o) <= o + Len(t) + 1
    BY <2>1, <2>8
  <2>10. DigitsEnd(t, p + l) + o = DigitsEnd(s, p + l + o)
    <3>1. p + l \in 1..(Len(t) + 1)
      BY <2>8
    <3> QED
      BY <3>1, <2>9, DigitsCut
  <2> QED
    BY <2>1, <2>6, <2>7, <2>8, <2>10
<1> QED
  BY <1>4, <1>5

LEMMA SuffixesCut ==
    ASSUME NEW s \in Seq(TextChar), NEW t \in Seq(TextChar), NEW o, Within(t, s, o)
    PROVE  \A p \in 1..(Len(t) + 1) :
              SuffixesEnd(s)[p + o] <= o + Len(t) + 1 =>
                  SuffixesEnd(t)[p] + o = SuffixesEnd(s)[p + o]
<1> DEFINE m == Len(t)
           n == Len(s)
           Fits(p) == SuffixesEnd(s)[p + o] <= o + m + 1 =>
                         SuffixesEnd(t)[p] + o = SuffixesEnd(s)[p + o]
           T == {p \in 0..(m + 1) : p = 0 \/ Fits(p)}
<1>1. m \in Nat /\ n \in Nat /\ o \in Nat /\ o + m <= n
  BY AtIs DEF Within
<1>2. \A p \in 1..(m + 1) :
         /\ SuffixesEnd(t)[p] \in p..(m + 1)
         /\ SuffixesEnd(t)[p] = SuffixRule(t, SuffixesEnd(t), p)
  BY SuffixesEndDefined
<1>3. \A p \in 1..(n + 1) :
         /\ SuffixesEnd(s)[p] \in p..(n + 1)
         /\ SuffixesEnd(s)[p] = SuffixRule(s, SuffixesEnd(s), p)
  BY SuffixesEndDefined
<1>4. ASSUME NEW p \in 0..(m + 1), \A q \in (p + 1)..(m + 1) : q \in T, p # 0,
             SuffixesEnd(s)[p + o] <= o + m + 1
      PROVE  SuffixesEnd(t)[p] + o = SuffixesEnd(s)[p + o]
  <2> DEFINE a == p + o
  <2>1. p \in 1..(m + 1) /\ a \in 1..(n + 1) /\ p \in Int /\ a \in Int /\ p <= m + 1
    <3>1. p # 0
      BY <1>4
    <3> HIDE DEF m, n
    <3> QED
      BY <3>1, <1>1
  <2>2. SuffixesEnd(s)[a] <= o + m + 1
    BY <1>4
  <2>3. p \in 1..m => At(t, p) = At(s, a)
    BY AtWithin
  <2>4. p \notin 1..m => At(t, p) # Underscore
    BY <2>1, AtIs, NoUnderscore
  <2> DEFINE v == WordEnd(t, p + 1)
             w == WordEnd(s, a + 1)
  <2>5. ASSUME p \in 1..m, w <= o + m + 1 PROVE v + o = w
    <3>1. p + 1 \in 1..(m + 1) /\ p + 1 + o = a + 1
      <4> HIDE DEF m, n
      <4> QED
        BY <2>1, <1>1, <2>5
    <3>2. WordEnd(s, p + 1 + o) <= o + m + 1
      BY <3>1, <2>5
    <3>3. WordEnd(t, p + 1) + o = WordEnd(s, p + 1 + o)
      BY <3>1, <3>2, WordCut
    <3> QED
      BY <3>1, <3>3
  <2>6. CASE At(s, a) = Underscore /\ w > a + 1
    <3>1. SuffixesEnd(s)[a] = SuffixesEnd(s)[w]
      BY <2>1, <2>6, <1>3 DEF SuffixRule
    <3>2. w \in (a + 1)..(n + 1)
      BY <2>1, <2>6, SuffixGoesOn
    <3>3. SuffixesEnd(s)[w] \in w..(n + 1)
      <4>1. w \in 1..(n + 1)
        <5> HIDE DEF m, n, w
        <5> QED
          BY <3>2, <2>1, <1>1
      <4> QED
        BY <4>1, <1>3
    <3>4. w \in Int /\ w <= o + m + 1 /\ a + 1 < w /\ p \in 1..m
      <4>0. SuffixesEnd(s)[w] <= o + m + 1 /\ w > a + 1
        BY <2>2, <3>1, <2>6
      <4> DEFINE e == SuffixesEnd(s)[w]
      <4>1. e \in w..(n + 1) /\ e <= o + m + 1 /\ w > a + 1
        BY <3>3, <4>0
      <4>2. w \in (a + 1)..(n + 1)
        BY <3>2
      <4> HIDE DEF m, n, w, e
      <4>3. w \in Int /\ w <= o + m + 1 /\ a + 1 < w
        BY <4>1, <4>2, <2>1, <1>1
      <4> QED
        BY <4>3, <2>1, <1>1
    <3>5. v + o = w
      BY <3>4, <2>5
    <3>6. At(t, p) = Underscore
      BY <3>4, <2>3, <2>6
    <3>7. v \in (p + 1)..(m + 1)
      BY <3>6, <2>1, SuffixGoesOn
    <3>8. v > p + 1 /\ v # 0 /\ v \in 1..(m + 1)
      <4> HIDE DEF m, n, w, v
      <4> QED
        BY <3>4, <3>5, <3>7, <2>1, <1>1
    <3>9. SuffixesEnd(t)[p] = SuffixesEnd(t)[v]
      BY <2>1, <3>6, <3>8, <1>2 DEF SuffixRule
    <3>10. SuffixesEnd(s)[v + o] <= o + m + 1
      BY <3>1, <3>5, <2>2
    <3>11. v \in T
      BY <3>7, <1>4
    <3>12. SuffixesEnd(t)[v] + o = SuffixesEnd(s)[v + o]
      BY <3>8, <3>10, <3>11
    <3> QED
      BY <3>1, <3>5, <3>9, <3>12
  <2>7. CASE ~ (At(s, a) = Underscore /\ w > a + 1)
    <3>1. SuffixesEnd(s)[a] = a
      BY <2>1, <2>7, <1>3 DEF SuffixRule
    <3>2. ~ (At(t, p) = Underscore /\ v > p + 1)
      <4> SUFFICES ASSUME At(t, p) = Underscore, v > p + 1 PROVE FALSE
        OBVIOUS
      <4>1. p \in 1..m /\ At(s, a) = Underscore
        BY <2>3, <2>4
      <4>2. w \in (a + 1)..(n + 1) /\ ~ (w > a + 1)
        BY <4>1, <2>1, <2>7, SuffixGoesOn
      <4>3. w = a + 1 /\ w <= o + m + 1
        <5> HIDE DEF m, n, w
        <5> QED
          BY <4>1, <4>2, <2>1, <1>1
      <4>4. v + o = w
        BY <4>1, <4>3, <2>5
      <4>5. v \in (p + 1)..(m + 1)
        BY <2>1, SuffixGoesOn
      <4> HIDE DEF m, n, w, v
      <4> QED
        BY <4>3, <4>4, <4>5, <2>1, <1>1
    <3>3. SuffixesEnd(t)[p] = p
      BY <2>1, <3>2, <1>2 DEF SuffixRule
    <3> QED
      BY <3>1, <3>3
  <2> QED
    BY <2>6, <2>7
<1>5. 0..(m + 1) \subseteq T
  <2>1. \A p \in 0..(m + 1) : (\A q \in (p + 1)..(m + 1) : q \in T) => p \in T
    BY <1>4
  <2>2. m + 1 \in Nat
    BY <1>1
  <2> HIDE DEF T, m
  <2> QED
    BY <2>1, <2>2, FromTheEnd
<1>6. ASSUME NEW p \in 1..(m + 1) PROVE Fits(p)
  <2>1. p \in 0..(m + 1) /\ p # 0
    <3> HIDE DEF m, n
    <3> QED
      BY <1>1
  <2>2. p \in T
    BY <2>1, <1>5
  <2> QED
    BY <2>1, <2>2
<1> QED
  BY <1>6

\* What a version consists of.
VersionChar == SuffixChar \cup {"."}

LEMMA VersionEndRange ==
    ASSUME NEW s \in Seq(TextChar), NEW p \in 1..(Len(s) + 1)
    PROVE  /\ VersionEnd(s, p) \in p..(Len(s) + 1)
           /\ NumberEnd(s, p) \in p..VersionEnd(s, p)
           /\ \A i \in p..(VersionEnd(s, p) - 1) : s[i] \in VersionChar
<1> DEFINE n == Len(s)
           e == NumberEnd(s, p)
           x == IF At(s, e) \in Letter THEN e + 1 ELSE e
           v == VersionEnd(s, p)
<1>1. n \in Nat /\ p \in Int
  <2>1. n \in Nat
    BY AtIs
  <2> QED
    BY <2>1
<1>2. e \in p..(n + 1) /\ \A i \in p..(e - 1) : NumberAt(s, p, i)
  BY NumberEndIs
<1>3. e \in Int /\ e \in 1..(n + 1)
  <2> HIDE DEF e, n
  <2> QED
    BY <1>1, <1>2
<1>4. x \in e..(n + 1) /\ x \in {e, e + 1} /\ \A i \in e..(x - 1) : s[i] \in Letter
  <2>1. CASE At(s, e) \in Letter
    <3>1. e \in 1..n /\ s[e] = At(s, e)
      BY <2>1, <1>3, AtIs, NoLetter
    <3>2. x = e + 1
      BY <2>1
    <3> HIDE DEF e, n, x
    <3> QED
      BY <2>1, <3>1, <3>2, <1>1
  <2>2. CASE At(s, e) \notin Letter
    <3>1. x = e
      BY <2>2
    <3> HIDE DEF e, n, x
    <3> QED
      BY <3>1, <1>1, <1>3
  <2> QED
    BY <2>1, <2>2
<1>5. v = SuffixesEnd(s)[x]
  BY DEF VersionEnd
<1>6. x \in 1..(n + 1)
  <2> HIDE DEF e, n, x
  <2> QED
    BY <1>1, <1>3, <1>4
<1>7. v \in x..(n + 1) /\ \A i \in x..(v - 1) : s[i] \in SuffixChar
  <2> HIDE DEF x, v
  <2> QED
    BY <1>5, <1>6, SuffixesEndDefined, SuffixesEndRange
<1> HIDE DEF e, n, x, v
<1>8. v \in p..(n + 1) /\ e \in p..v
  BY <1>1, <1>2, <1>3, <1>4, <1>7
<1>9. ASSUME NEW i \in p..(v - 1) PROVE s[i] \in VersionChar
  <2>1. i \in p..(e - 1) \/ i \in e..(x - 1) \/ i \in x..(v - 1)
    BY <1>1, <1>3, <1>4, <1>6, <1>7
  <2>2. CASE i \in p..(e - 1)
    BY <2>2, <1>2 DEF NumberAt, VersionChar, SuffixChar
  <2>3. CASE i \in e..(x - 1)
    BY <2>3, <1>4 DEF VersionChar, SuffixChar
  <2>4. CASE i \in x..(v - 1)
    BY <2>4, <1>7 DEF VersionChar
  <2> QED
    BY <2>1, <2>2, <2>3, <2>4
<1> QED
  BY <1>8, <1>9 DEF v, e, n

LEMMA VersionCut ==
    ASSUME NEW s \in Seq(TextChar), NEW t \in Seq(TextChar), NEW o, Within(t, s, o),
           NEW p \in 1..(Len(t) + 1), VersionEnd(s, p + o) <= o + Len(t) + 1
    PROVE  VersionEnd(t, p) + o = VersionEnd(s, p + o)
<1> DEFINE m == Len(t)
           n == Len(s)
           e == NumberEnd(s, p + o)
           f == NumberEnd(t, p)
           x == IF At(s, e) \in Letter THEN e + 1 ELSE e
           y == IF At(t, f) \in Letter THEN f + 1 ELSE f
           v == VersionEnd(s, p + o)
<1>1. m \in Nat /\ n \in Nat /\ o \in Nat /\ o + m <= n /\ p \in 1..(m + 1)
  BY AtIs DEF Within
<1>2. p + o \in 1..(n + 1) /\ p \in Int
  <2> HIDE DEF m, n
  <2> QED
    BY <1>1
<1>3. v \in (p + o)..(n + 1) /\ e \in (p + o)..v /\ v <= o + m + 1
  BY <1>2, VersionEndRange
<1>4. e \in Int /\ e <= o + m + 1 /\ v \in Int /\ e >= p + o
  <2> HIDE DEF m, n, e, v
  <2> QED
    BY <1>1, <1>2, <1>3
<1>5. f + o = e /\ f \in 1..(m + 1) /\ f \in Int
  <2>1. f + o = e
    BY <1>4, NumberCut
  <2>2. f \in p..(m + 1)
    BY NumberEndIs
  <2> HIDE DEF m, n, e, f
  <2> QED
    BY <2>1, <2>2, <1>1, <1>2
<1>6. v = SuffixesEnd(s)[x] /\ VersionEnd(t, p) = SuffixesEnd(t)[y]
  BY DEF VersionEnd
<1>7. y + o = x /\ y \in 1..(m + 1)
  <2>1. CASE At(s, e) \in Letter
    <3>1. x = e + 1
      BY <2>1
    <3>2. e \in 1..n
      BY <1>4, <2>1, NoLetter, AtIs
    <3>3. e + 1 \in 1..(n + 1)
      <4> HIDE DEF e, n
      <4> QED
        BY <3>2, <1>1
    <3>4. v \in (e + 1)..(n + 1)
      BY <3>1, <3>3, <1>6, SuffixesEndDefined
    <3>5. f \in 1..m /\ f + 1 \in 1..(m + 1) /\ f + 1 + o = e + 1
      <4> HIDE DEF m, n, e, f, v
      <4> QED
        BY <3>4, <1>1, <1>3, <1>5, <1>4
    <3>6. At(t, f) = At(s, f + o)
      BY <3>5, AtWithin
    <3>7. y = f + 1
      BY <3>6, <2>1, <1>5
    <3> QED
      BY <3>1, <3>5, <3>7
  <2>2. CASE At(s, e) \notin Letter
    <3>1. x = e
      BY <2>2
    <3>2. At(t, f) \notin Letter
      <4>1. CASE f \in 1..m
        <5>1. At(t, f) = At(s, f + o)
          BY <4>1, AtWithin
        <5> QED
          BY <5>1, <2>2, <1>5
      <4>2. CASE f \notin 1..m
        BY <4>2, <1>5, AtIs, NoLetter
      <4> QED
        BY <4>1, <4>2
    <3>3. y = f
      BY <3>2
    <3> QED
      BY <3>1, <3>3, <1>5
  <2> QED
    BY <2>1, <2>2
<1>8. SuffixesEnd(s)[y + o] <= o + m + 1
  BY <1>3, <1>6, <1>7
<1>9. SuffixesEnd(t)[y] + o = SuffixesEnd(s)[y + o]
  <2> HIDE DEF y
  <2> QED
    BY <1>7, <1>8, SuffixesCut
<1> QED
  BY <1>6, <1>7, <1>9

LEMMA RevisionEndRange ==
    ASSUME NEW s \in Seq(TextChar), NEW p \in 1..(Len(s) + 1)
    PROVE  /\ RevisionEnd(s, p) \in p..(Len(s) + 1)
           /\ \/ RevisionEnd(s, p) = p
              \/ /\ p \in 1..Len(s) /\ p + 1 \in 1..Len(s) /\ p + 2 \in 1..Len(s)
                 /\ s[p] = "-" /\ s[p + 1] = "r" /\ s[p + 2] \in Digit
                 /\ RevisionEnd(s, p) = DigitsEnd(s, p + 2)
                 /\ RevisionEnd(s, p) \in (p + 3)..(Len(s) + 1)
           /\ \A i \in p..(RevisionEnd(s, p) - 1) : s[i] \in {"-", "r"} \cup Digit
<1> DEFINE n == Len(s)
           r == RevisionEnd(s, p)
<1>1. n \in Nat
  BY AtIs
<1>2. p \in Int /\ 1 <= p /\ p <= n + 1 /\ p + 1 \in Int /\ p + 2 \in Int
  <2>1. p \in 1..(n + 1)
    OBVIOUS
  <2> HIDE DEF n
  <2> QED
    BY <2>1, <1>1
<1>3. CASE At(s, p) = "-" /\ At(s, p + 1) = "r" /\ At(s, p + 2) \in Digit
  <2>1. p \in 1..n /\ p + 1 \in 1..n /\ p + 2 \in 1..n
    BY <1>2, <1>3, AtIs, NoDigit
  <2>2. s[p] = "-" /\ s[p + 1] = "r" /\ s[p + 2] \in Digit
    BY <1>3, <2>1, AtIs
  <2>3. r = DigitsEnd(s, p + 2)
    BY <1>3 DEF RevisionEnd
  <2>4. p + 2 \in 1..(n + 1)
    <3> HIDE DEF n
    <3> QED
      BY <2>1, <1>1
  <2>5. /\ r \in (p + 2)..(n + 1) /\ At(s, r) \notin Digit
        /\ \A i \in (p + 2)..(r - 1) : s[i] \in Digit
    BY <2>3, <2>4, DigitsEndIs
  <2>6. r # p + 2
    BY <2>5, <1>3
  <2> HIDE DEF r, n
  <2>7. r \in (p + 3)..(n + 1) /\ r \in p..(n + 1)
    BY <2>5, <2>6, <1>1, <1>2
  <2>8. \A i \in p..(r - 1) : i = p \/ i = p + 1 \/ i \in (p + 2)..(r - 1)
    BY <2>7, <1>2, <1>1
  <2>9. \A i \in p..(r - 1) : s[i] \in {"-", "r"} \cup Digit
    BY <2>2, <2>5, <2>8
  <2> QED
    BY <2>1, <2>2, <2>3, <2>7, <2>9 DEF r, n
<1>4. CASE ~ (At(s, p) = "-" /\ At(s, p + 1) = "r" /\ At(s, p + 2) \in Digit)
  <2>1. r = p
    BY <1>4 DEF RevisionEnd
  <2> HIDE DEF r, n
  <2>2. r \in p..(n + 1) /\ \A i \in p..(r - 1) : FALSE
    BY <2>1, <1>1, <1>2
  <2> QED
    BY <2>1, <2>2 DEF r, n
<1> QED
  BY <1>3, <1>4

LEMMA RevisionCut ==
    ASSUME NEW s \in Seq(TextChar), NEW t \in Seq(TextChar), NEW o, Within(t, s, o),
           NEW p \in 1..(Len(t) + 1), RevisionEnd(s, p + o) <= o + Len(t) + 1
    PROVE  RevisionEnd(t, p) + o = RevisionEnd(s, p + o)
<1> DEFINE m == Len(t)
           n == Len(s)
           a == p + o
           r == RevisionEnd(s, a)
<1>1. m \in Nat /\ n \in Nat /\ o \in Nat /\ o + m <= n /\ p \in 1..(m + 1)
  BY AtIs DEF Within
<1>2. a \in 1..(n + 1) /\ p \in Int /\ a \in Int /\ a = p + o
  <2> HIDE DEF m, n
  <2> QED
    BY <1>1
<1>3. \A i \in 1..m : At(t, i) = At(s, i + o) /\ t[i] = At(t, i)
  BY AtWithin
<1>4. r <= o + m + 1
  OBVIOUS
<1> HIDE DEF a
<1>5. CASE r = a
  <2>1. ASSUME At(t, p) = "-" /\ At(t, p + 1) = "r" /\ At(t, p + 2) \in Digit
        PROVE  FALSE
    <3>1. p \in Int /\ p + 1 \in Int /\ p + 2 \in Int
      BY <1>2
    <3>2. p \in 1..m /\ p + 1 \in 1..m /\ p + 2 \in 1..m
      BY <3>1, <2>1, AtIs, NoDigit
    <3>3. p + o = a /\ p + 1 + o = a + 1 /\ p + 2 + o = a + 2
      BY <1>1, <1>2
    <3>4. At(s, p + o) = "-" /\ At(s, p + 1 + o) = "r" /\ At(s, p + 2 + o) \in Digit
      BY <3>2, <2>1, <1>3
    <3>5. At(s, a) = "-" /\ At(s, a + 1) = "r" /\ At(s, a + 2) \in Digit
      BY <3>3, <3>4
    <3>6. r = DigitsEnd(s, a + 2)
      BY <3>5 DEF RevisionEnd
    <3>7. a + 2 \in 1..(n + 1)
      <4> HIDE DEF m, n
      <4> QED
        BY <3>2, <3>3, <1>1
    <3>8. r \in (a + 2)..(n + 1)
      BY <3>6, <3>7, DigitsEndIs
    <3> HIDE DEF r, n
    <3> QED
      BY <3>8, <1>1, <1>2, <1>5
  <2>2. RevisionEnd(t, p) = p
    BY <2>1 DEF RevisionEnd
  <2> QED
    BY <2>2, <1>2, <1>5
<1>6. CASE r # a
  <2>1. /\ a + 1 \in 1..n /\ a + 2 \in 1..n
        /\ s[a] = "-" /\ s[a + 1] = "r" /\ s[a + 2] \in Digit
        /\ r = DigitsEnd(s, a + 2)
        /\ r \in (a + 3)..(n + 1)
    BY <1>2, <1>6, RevisionEndRange
  <2>2. p \in 1..m /\ p + 1 \in 1..m /\ p + 2 \in 1..m /\ p + 2 \in 1..(m + 1)
    <3> HIDE DEF m, n, r
    <3> QED
      BY <2>1, <1>1, <1>2, <1>4
  <2>3. p + o = a /\ p + 1 + o = a + 1 /\ p + 2 + o = a + 2
    BY <1>1, <1>2
  <2>4. s[p + o] = "-" /\ s[p + 1 + o] = "r" /\ s[p + 2 + o] \in Digit
    BY <2>1, <2>3
  <2>5. At(t, p) = "-" /\ At(t, p + 1) = "r" /\ At(t, p + 2) \in Digit
    BY <2>2, <2>4, AtWithin
  <2>6. RevisionEnd(t, p) = DigitsEnd(t, p + 2)
    BY <2>5 DEF RevisionEnd
  <2>7. DigitsEnd(s, p + 2 + o) = r
    BY <2>1, <2>3
  <2>8. DigitsEnd(t, p + 2) + o = DigitsEnd(s, p + 2 + o)
    <3>1. DigitsEnd(s, p + 2 + o) <= o + Len(t) + 1
      BY <2>7, <1>4
    <3> QED
      BY <2>2, <3>1, DigitsCut
  <2> QED
    BY <2>6, <2>7, <2>8 DEF a
<1> QED
  BY <1>5, <1>6 DEF a

---------------------------------------------------------------------------
(* What no version goes past.                                              *)

LEMMA NoVersionChar == "end" \notin VersionChar /\ "-" \notin VersionChar
  BY DEF VersionChar, SuffixChar, Digit, Letter, Underscore

LEMMA VersionStops ==
    ASSUME NEW s \in Seq(TextChar), NEW p \in 1..(Len(s) + 1), NEW q \in p..(Len(s) + 1),
           At(s, q) \notin VersionChar
    PROVE  VersionEnd(s, p) <= q
<1> DEFINE n == Len(s)
           v == VersionEnd(s, p)
<1>1. n \in Nat
  BY AtIs
<1>2. v \in p..(n + 1) /\ \A i \in p..(v - 1) : s[i] \in VersionChar
  BY VersionEndRange
<1>3. p \in Int /\ q \in Int /\ q <= n + 1 /\ 1 <= p /\ p <= q /\ v \in Int /\ v <= n + 1
  <2>1. p \in 1..(n + 1) /\ q \in p..(n + 1)
    OBVIOUS
  <2> HIDE DEF n, v
  <2> QED
    BY <2>1, <1>1, <1>2
<1>4. ASSUME v > q PROVE FALSE
  <2>1. q \in p..(v - 1) /\ q \in 1..n
    <3> HIDE DEF n, v
    <3> QED
      BY <1>1, <1>3, <1>4
  <2>2. s[q] \in VersionChar /\ At(s, q) = s[q]
    BY <2>1, <1>2, AtIs
  <2> QED
    BY <2>2
<1> HIDE DEF n, v
<1>5. v <= q
  BY <1>3, <1>4
<1> QED
  BY <1>5 DEF v

\* A hyphen with a digit behind it is not in a revision.
LEMMA RevisionStops ==
    ASSUME NEW s \in Seq(TextChar), NEW p \in 1..(Len(s) + 1), NEW q \in p..Len(s),
           s[q] = "-", At(s, q + 1) \in Digit
    PROVE  RevisionEnd(s, p) <= q
<1> DEFINE n == Len(s)
           r == RevisionEnd(s, p)
<1>1. n \in Nat
  BY AtIs
<1>2. p \in Int /\ q \in Int /\ q <= n /\ 1 <= p /\ p <= q
  <2>1. p \in 1..(n + 1) /\ q \in p..n
    OBVIOUS
  <2> HIDE DEF n
  <2> QED
    BY <2>1, <1>1
<1>3. CASE r = p
  BY <1>2, <1>3
<1>4. CASE r # p
  <2>1. /\ p + 1 \in 1..n /\ s[p + 1] = "r" /\ p + 2 \in 1..n
        /\ r = DigitsEnd(s, p + 2)
    BY <1>4, RevisionEndRange
  <2>2. q + 1 # p + 1
    <3>1. At(s, p + 1) = "r"
      BY <2>1, AtIs
    <3> QED
      BY <3>1, NoDigit
  <2>3. q # p + 1
    BY <2>1
  <2>4. \A i \in (p + 2)..(r - 1) : s[i] \in Digit
    <3>1. p + 2 \in 1..(n + 1)
      <4> HIDE DEF n
      <4> QED
        BY <2>1, <1>1
    <3> QED
      BY <2>1, <3>1, DigitsEndIs
  <2>5. q \notin (p + 2)..(r - 1)
    BY <2>4, NoDigit
  <2>6. r \in p..(n + 1)
    BY RevisionEndRange
  <2> HIDE DEF r, n
  <2>7. r <= q
    BY <2>2, <2>3, <2>5, <2>6, <1>1, <1>2
  <2> QED
    BY <2>7 DEF r
<1> QED
  BY <1>3, <1>4

---------------------------------------------------------------------------
(* Versions in names.                                                      *)

LEMMA PieceIsWithin ==
    ASSUME NEW s \in Seq(TextChar), NEW p \in 1..(Len(s) + 1), NEW q \in (p - 1)..Len(s)
    PROVE  Within(SubSeq(s, p, q), s, p - 1)
<1> DEFINE n == Len(s)
           t == SubSeq(s, p, q)
           o == p - 1
<1>1. n \in Nat
  BY AtIs
<1>2. p \in Int /\ q \in Int /\ q <= n /\ 1 <= p /\ p - 1 <= q
  <2>1. p \in 1..(n + 1) /\ q \in (p - 1)..n
    OBVIOUS
  <2> HIDE DEF n
  <2> QED
    BY <2>1, <1>1
<1>3. Len(t) = q - p + 1 /\ \A i \in 1..(q - p + 1) : t[i] = s[i + p - 1]
  BY SubSeqIs
<1>4. o \in Nat /\ o + Len(t) <= n
  <2> DEFINE m == Len(t)
  <2>1. m = q - p + 1
    BY <1>3
  <2> HIDE DEF n, m
  <2>2. o \in Nat /\ o + m <= n
    BY <2>1, <1>1, <1>2
  <2> QED
    BY <2>2 DEF m
<1>5. ASSUME NEW i \in 1..Len(t) PROVE t[i] = s[i + o]
  <2>1. i \in 1..(q - p + 1) /\ i \in Int
    BY <1>3, <1>2
  <2>2. i + o = i + p - 1
    BY <2>1, <1>2
  <2> QED
    BY <2>1, <2>2, <1>3
<1> QED
  BY <1>4, <1>5 DEF Within

LEMMA VersionBegins ==
    ASSUME NEW s \in Seq(TextChar), NEW p \in 1..Len(s), s[p] \in Digit
    PROVE  VersionEnd(s, p) > p
<1> DEFINE n == Len(s)
           e == NumberEnd(s, p)
           v == VersionEnd(s, p)
<1>1. n \in Nat
  BY AtIs
<1>2. p \in 1..(n + 1) /\ p + 1 \in p..(n + 1) /\ p \in Int /\ \A i \in p..(p + 1 - 1) : i = p
  <2>1. p \in 1..n
    OBVIOUS
  <2> HIDE DEF n
  <2> QED
    BY <2>1, <1>1
<1>3. \A i \in p..(p + 1 - 1) : NumberAt(s, p, i)
  BY <1>2 DEF NumberAt
<1>4. p + 1 <= e
  BY <1>2, <1>3, NumberEndIs
<1>5. e \in p..v /\ v \in p..(n + 1)
  BY <1>2, VersionEndRange
<1> HIDE DEF n, e, v
<1>6. v > p
  BY <1>1, <1>2, <1>4, <1>5
<1> QED
  BY <1>6 DEF v

\* What is cut out of a text as a version is one.
LEMMA TrimmedIsVersion ==
    ASSUME NEW s \in Seq(TextChar), NEW p \in 1..Len(s), s[p] \in Digit,
           NEW v, v = SubSeq(s, p, VersionEnd(s, p) - 1)
    PROVE  v \in Seq(TextChar) /\ IsVersion(v)
<1> DEFINE n == Len(s)
           e == VersionEnd(s, p)
           o == p - 1
           q == e - 1
           m == Len(v)
<1>1. n \in Nat
  BY AtIs
<1>2. p \in 1..(n + 1) /\ p \in Int /\ 1 <= p
  <2>1. p \in 1..n
    OBVIOUS
  <2> HIDE DEF n
  <2> QED
    BY <2>1, <1>1
<1>3. e \in p..(n + 1) /\ e > p
  BY <1>2, VersionEndRange, VersionBegins
<1>4. q \in (p - 1)..n /\ e \in Int /\ q - p + 1 = e - p
  <2> HIDE DEF n, e
  <2> QED
    BY <1>1, <1>2, <1>3
<1>5. /\ v \in Seq(TextChar) /\ m = e - p
      /\ \A i \in 1..(e - p) : v[i] = s[i + p - 1]
      /\ Within(v, s, o)
  <2>1. v = SubSeq(s, p, q)
    OBVIOUS
  <2>2. q \in (p - 1)..Len(s) /\ p \in 1..(Len(s) + 1)
    BY <1>2, <1>4
  <2> HIDE DEF q, n
  <2>3. SubSeq(s, p, q) \in Seq(TextChar) /\ Within(SubSeq(s, p, q), s, p - 1)
    BY <2>2, SubSeqIs, PieceIsWithin
  <2>4. /\ Len(SubSeq(s, p, q)) = q - p + 1
        /\ \A i \in 1..(q - p + 1) : SubSeq(s, p, q)[i] = s[i + p - 1]
    BY <2>2, SubSeqIs
  <2> QED
    BY <2>1, <2>3, <2>4, <1>4
<1>6. 1 \in 1..(m + 1) /\ m >= 1 /\ 1 + o = p /\ o + m + 1 = e /\ 1 + p - 1 = p /\ 1 \in 1..(e - p)
      /\ o \in Int
  <2>1. m = e - p
    BY <1>5
  <2> HIDE DEF n, e, m
  <2> QED
    BY <2>1, <1>1, <1>2, <1>3, <1>4
<1>7. VersionEnd(v, 1) + o = e
  <2>1. VersionEnd(s, 1 + o) <= o + Len(v) + 1
    BY <1>6, <1>4
  <2>2. 1 \in 1..(Len(v) + 1)
    BY <1>6
  <2>3. VersionEnd(v, 1) + o = VersionEnd(s, 1 + o)
    <3> HIDE DEF o
    <3> QED
      BY <2>1, <2>2, <1>5, VersionCut
  <2> QED
    BY <2>3, <1>6
<1>8. VersionEnd(v, 1) = m + 1
  <2>1. VersionEnd(v, 1) \in 1..(m + 1)
    BY <1>5, <1>6, VersionEndRange
  <2> DEFINE w == VersionEnd(v, 1)
  <2>2. w \in Int /\ m \in Int
    <3>1. m \in Nat /\ w \in 1..(m + 1)
      BY <1>5, <2>1, AtIs
    <3> HIDE DEF w, m
    <3> QED
      BY <3>1
  <2>3. w + o = e /\ o + m + 1 = e
    BY <1>6, <1>7
  <2> HIDE DEF w, o, m, e
  <2>4. w = m + 1
    BY <2>2, <2>3, <1>6
  <2> QED
    BY <2>4 DEF w
<1>9. v # <<>> /\ v[1] \in Digit
  <2>1. Len(v) # 0
    <3>1. m \in Nat /\ m >= 1
      BY <1>5, <1>6, AtIs
    <3> HIDE DEF m
    <3>2. m # 0
      BY <3>1
    <3> QED
      BY <3>2 DEF m
  <2>2. v[1] = s[1 + p - 1]
    BY <1>5, <1>6
  <2> QED
    BY <2>1, <2>2, <1>6
<1> QED
  BY <1>5, <1>8, <1>9 DEF IsVersion

LEMMA RevisionBegins ==
    ASSUME NEW r \in Seq(TextChar), IsRevision(r)
    PROVE  r = <<>> \/ (Len(r) >= 1 /\ r[1] = "-" /\ RevisionEnd(r, 1) = Len(r) + 1)
<1> DEFINE m == Len(r)
<1>1. CASE r # <<>>
  <2>1. m \in Nat /\ m # 0
    BY <1>1, AtIs
  <2>2. RevisionEnd(r, 1) = m + 1
    BY <1>1 DEF IsRevision
  <2>3. 1 \in 1..(m + 1) /\ m + 1 # 1 /\ m >= 1
    <3> HIDE DEF m
    <3> QED
      BY <2>1
  <2>4. r[1] = "-"
    BY <2>2, <2>3, RevisionEndRange
  <2> QED
    BY <2>2, <2>3, <2>4
<1> QED
  BY <1>1

\* A version and a revision behind it.
LEMMA VersionAndRevision ==
    ASSUME NEW v \in Seq(TextChar), IsVersion(v), NEW r \in Seq(TextChar), IsRevision(r)
    PROVE  /\ v \o r \in Seq(TextChar)
           /\ At(v \o r, 1) \in Digit
           /\ VersionEnd(v \o r, 1) = Len(v) + 1
           /\ RevisionEnd(v \o r, Len(v) + 1) = Len(v \o r) + 1
<1> DEFINE t == v \o r
           k == Len(v)
           m == Len(r)
           n == Len(t)
<1>1. /\ t \in Seq(TextChar) /\ n = k + m
      /\ \A i \in 1..k : t[i] = v[i]
      /\ \A i \in 1..m : t[i + k] = r[i]
  BY AtIs
<1>2. k \in Nat /\ m \in Nat /\ v # <<>>
  BY AtIs DEF IsVersion
<1>3. k >= 1
  <2>1. k # 0
    BY <1>2
  <2> HIDE DEF k
  <2> QED
    BY <2>1, <1>2
<1>4. 1 \in 1..k /\ 1 \in 1..n /\ 1 \in 1..(n + 1) /\ k + 1 \in 1..(n + 1) /\ 1 \in 1..(k + 1)
  <2> HIDE DEF k, m, n
  <2> QED
    BY <1>1, <1>2, <1>3
<1>5. At(t, 1) \in Digit
  BY <1>1, <1>4, AtIs DEF IsVersion
<1>6. Within(v, t, 0) /\ Within(r, t, k)
  <2>1. k <= n /\ k + m <= n /\ \A i \in 1..k : i + 0 = i
    <3> HIDE DEF k, m, n
    <3> QED
      BY <1>1, <1>2
  <2> QED
    BY <2>1, <1>1, <1>2 DEF Within
<1>7. m # 0 => At(t, k + 1) = "-"
  <2> SUFFICES ASSUME m # 0 PROVE At(t, k + 1) = "-"
    OBVIOUS
  <2>1. 1 \in 1..m /\ 1 + k = k + 1 /\ k + 1 \in 1..n
    <3> HIDE DEF m, k, n
    <3> QED
      BY <1>1, <1>2
  <2>2. r[1] = "-"
    BY RevisionBegins
  <2>3. At(t, k + 1) = t[k + 1]
    <3> HIDE DEF t
    <3> QED
      BY <2>1, <1>1, AtIs
  <2> QED
    BY <2>1, <2>2, <2>3, <1>1
<1>8. m = 0 => At(t, k + 1) = "end"
  <2> SUFFICES ASSUME m = 0 PROVE At(t, k + 1) = "end"
    OBVIOUS
  <2>1. k + 1 \in Int /\ k + 1 \notin 1..n
    <3> HIDE DEF m, k, n
    <3> QED
      BY <1>1, <1>2
  <2> QED
    BY <2>1, <1>1, AtIs
<1>9. VersionEnd(t, 1) <= k + 1
  <2>1. At(t, k + 1) \notin VersionChar
    BY <1>7, <1>8, NoVersionChar
  <2>2. k + 1 \in 1..(Len(t) + 1) /\ 1 \in 1..(Len(t) + 1)
    BY <1>4
  <2> HIDE DEF t
  <2> QED
    BY <2>1, <2>2, <1>1, VersionStops
<1>10. VersionEnd(t, 1) = k + 1
  <2>1. VersionEnd(v, 1) = k + 1
    BY DEF IsVersion
  <2>2. VersionEnd(t, 1 + 0) <= 0 + Len(v) + 1
    BY <1>9, <1>2
  <2>3. 1 \in 1..(Len(v) + 1)
    BY <1>4
  <2>4. VersionEnd(v, 1) + 0 = VersionEnd(t, 1 + 0)
    <3> HIDE DEF t
    <3> QED
      BY <2>2, <2>3, <1>1, <1>6, VersionCut
  <2> QED
    BY <2>1, <2>4, <1>2
<1>11. RevisionEnd(t, k + 1) = n + 1
  <2>1. CASE m = 0
    <3>1. RevisionEnd(t, k + 1) = k + 1
      BY <2>1, <1>8 DEF RevisionEnd
    <3> HIDE DEF k, m, n, t
    <3> QED
      BY <2>1, <3>1, <1>1, <1>2
  <2>2. CASE m # 0
    <3>1. RevisionEnd(r, 1) = m + 1
      BY <2>2, RevisionBegins
    <3>2. RevisionEnd(t, k + 1) \in (k + 1)..(n + 1)
      <4> HIDE DEF n, t
      <4>1. k + 1 \in 1..(Len(t) + 1) /\ t \in Seq(TextChar)
        BY <1>1, <1>4 DEF n
      <4> QED
        BY <4>1, RevisionEndRange DEF n
    <3> DEFINE e == RevisionEnd(t, k + 1)
    <3>3. e <= k + m + 1 /\ 1 + k = k + 1
      <4> HIDE DEF e, n, m, k
      <4> QED
        BY <3>2, <1>1, <1>2 DEF e
    <3>4. RevisionEnd(t, 1 + k) <= k + Len(r) + 1 /\ 1 \in 1..(Len(r) + 1)
      <4>1. 1 \in 1..(m + 1)
        <5> HIDE DEF m
        <5> QED
          BY <1>2
      <4> QED
        BY <4>1, <3>3
    <3>5. RevisionEnd(r, 1) + k = RevisionEnd(t, 1 + k)
      <4> HIDE DEF t, k
      <4> QED
        BY <3>4, <1>1, <1>6, RevisionCut
    <3> QED
      BY <3>1, <3>3, <3>5, <1>1, <1>2
  <2> QED
    BY <2>1, <2>2
<1> QED
  BY <1>1, <1>5, <1>10, <1>11

LEMMA EbuildIsVersioned ==
    ASSUME pn \in Seq(TextChar), NEW v \in Seq(TextChar), IsVersion(v),
           NEW r \in Seq(TextChar), IsRevision(r)
    PROVE  /\ Ebuild(v, r) \in Seq(TextChar)
           /\ Versioned(Ebuild(v, r)) = v \o r
           /\ v \o r # <<>>
<1> DEFINE t == v \o r
           s == Ebuild(v, r)
           l == Len(pn)
           m == Len(t)
           n == Len(s)
<1>1. /\ t \in Seq(TextChar) /\ At(t, 1) \in Digit
      /\ RevisionEnd(t, VersionEnd(t, 1)) = Len(t) + 1
  BY VersionAndRevision
<1>2. m \in Nat /\ l \in Nat /\ 1 \in Int
  BY <1>1, AtIs
<1>3. 1 \in 1..m /\ m >= 1
  <2>1. 1 \in 1..m
    <3> HIDE DEF t
    <3> QED
      BY <1>1, <1>2, AtIs, NoDigit
  <2> HIDE DEF m
  <2> QED
    BY <2>1, <1>2
<1>4. "-" \in TextChar
  BY DEF TextChar, NameChar
<1>5. s = pn \o (<<"-">> \o t)
  <2> DEFINE g == <<"-">>
             a == pn \o g
  <2>1. g \in Seq(TextChar)
    BY <1>4
  <2> HIDE DEF g
  <2>2. a \in Seq(TextChar)
    BY <2>1, ConcatIs
  <2>3. IsText(pn) /\ IsText(g) /\ IsText(v) /\ IsText(r)
    BY <2>1 DEF IsText
  <2>4. s = (a \o v) \o r
    BY DEF Ebuild, g
  <2> HIDE DEF s, a, t
  <2>5. IsText(a) /\ IsText(t)
    BY <1>1, <2>2 DEF IsText
  <2>6. Equals(a \o (v \o r), (a \o v) \o r)
    BY <2>3, <2>5, Regrouped
  <2>7. Equals(pn \o (g \o t), (pn \o g) \o t)
    BY <2>3, <2>5, Regrouped
  <2> QED
    BY <2>4, <2>6, <2>7 DEF a, g, t, Equals
<1>6. /\ s \in Seq(TextChar) /\ n = l + 1 + m
      /\ \A i \in 1..l : s[i] = pn[i]
      /\ s[l + 1] = "-"
      /\ \A i \in 1..m : s[i + (l + 1)] = t[i]
  <2> DEFINE u == <<"-">> \o t
  <2>1. /\ u \in Seq(TextChar) /\ Len(u) = 1 + m /\ u[1] = "-"
        /\ \A i \in 1..m : u[i + 1] = t[i]
    <3> HIDE DEF t
    <3> QED
      BY <1>1, <1>4
  <2> HIDE DEF t
  <2>2. m \in Nat /\ l \in Nat
    BY <1>2
  <2> HIDE DEF u
  <2>3. /\ pn \o u \in Seq(TextChar) /\ Len(pn \o u) = l + Len(u)
        /\ \A i \in 1..l : (pn \o u)[i] = pn[i]
        /\ \A i \in 1..Len(u) : (pn \o u)[i + l] = u[i]
    BY <2>1, ConcatIs
  <2>4. s = pn \o u
    BY <1>5 DEF u
  <2> HIDE DEF s, m, l
  <2>5. n = l + 1 + m
    BY <2>1, <2>2, <2>3, <2>4
  <2>6. s[l + 1] = "-"
    <3>1. 1 \in 1..Len(u) /\ 1 + l = l + 1
      BY <2>1, <2>2
    <3> QED
      BY <2>1, <2>3, <2>4, <3>1
  <2>7. ASSUME NEW i \in 1..m PROVE s[i + (l + 1)] = t[i]
    <3>1. i + 1 \in 1..Len(u) /\ i + 1 + l = i + (l + 1)
      BY <2>1, <2>2
    <3>2. s[i + 1 + l] = u[i + 1]
      BY <2>3, <2>4, <3>1
    <3> QED
      BY <2>1, <3>1, <3>2
  <2> QED
    BY <2>3, <2>4, <2>5, <2>6, <2>7
<1>7. SubSeq(s, 1, l + 1) = Append(pn, "-")
  <2> DEFINE q == l + 1
             x == SubSeq(s, 1, q)
             y == Append(pn, "-")
  <2>1. 1 \in 1..(n + 1) /\ q \in (1 - 1)..n /\ q - 1 + 1 = q
    <3> HIDE DEF n, l, m
    <3> QED
      BY <1>2, <1>6
  <2>2. x \in Seq(TextChar) /\ Len(x) = q /\ \A i \in 1..q : x[i] = s[i + 1 - 1]
    <3> HIDE DEF q, s
    <3> QED
      BY <2>1, <1>6, SubSeqIs
  <2>3. y \in Seq(TextChar) /\ Len(y) = q /\ y[q] = "-" /\ \A i \in 1..l : y[i] = pn[i]
    BY <1>4
  <2>4. \A i \in 1..q : i + 1 - 1 = i /\ (i = q \/ i \in 1..l)
    <3> HIDE DEF l
    <3> QED
      BY <1>2
  <2>5. \A i \in 1..q : x[i] = y[i]
    <3> HIDE DEF x, y, s
    <3> QED
      BY <2>2, <2>3, <2>4, <1>6
  <2> HIDE DEF x, y
  <2>6. x = y
    BY <2>2, <2>3, <2>5
  <2> QED
    BY <2>6 DEF x, y
<1>8. SubSeq(s, l + 2, n) = t
  <2> DEFINE p == l + 2
             x == SubSeq(s, p, n)
  <2>1. p \in 1..(n + 1) /\ n \in (p - 1)..n /\ n - p + 1 = m
    <3> HIDE DEF n, l, m
    <3> QED
      BY <1>2, <1>6
  <2>2. x \in Seq(TextChar) /\ Len(x) = m /\ \A i \in 1..m : x[i] = s[i + p - 1]
    <3> HIDE DEF p, s
    <3> QED
      BY <2>1, <1>6, SubSeqIs
  <2>3. \A i \in 1..m : i + p - 1 = i + (l + 1)
    <3> HIDE DEF l, m
    <3> QED
      BY <1>2
  <2>4. \A i \in 1..m : x[i] = t[i]
    <3> HIDE DEF x, s, t
    <3> QED
      BY <2>2, <2>3, <1>6
  <2> HIDE DEF x, t
  <2>5. IsText(x) /\ IsText(t) /\ Len(x) = Len(t) /\ \A i \in 1..Len(t) : x[i] = t[i]
    BY <2>2, <2>4, <1>1 DEF IsText
  <2>6. x = t
    BY <2>5, SameTexts
  <2> QED
    BY <2>6 DEF x
<1>9. l + 1 < n
  <2> HIDE DEF l, n, m
  <2> QED
    BY <1>2, <1>3, <1>6
<1>10. Versioned(s) = t
  <2> HIDE DEF s, t
  <2> QED
    BY <1>1, <1>7, <1>8, <1>9 DEF Versioned
<1>11. t # <<>>
  BY <1>3
<1> QED
  BY <1>6, <1>10, <1>11

\* Where the hyphen between package and version stands, and where the version ends.
HyphenAt == Len(pn) + 1
VersionTill(s) == VersionEnd(s, HyphenAt + 1)

\* What Versioned promises of a name.
LEMMA VersionedIs ==
    ASSUME pn \in Seq(TextChar), NEW s \in Seq(TextChar), Versioned(s) # <<>>,
           NEW h, h = HyphenAt, NEW e, e = VersionTill(s)
    PROVE  /\ h \in 1..Len(s) /\ h + 1 \in 1..Len(s)
           /\ \A i \in 1..Len(pn) : s[i] = pn[i]
           /\ s[h] = "-" /\ s[h + 1] \in Digit
           /\ e \in (h + 2)..(Len(s) + 1)
           /\ RevisionEnd(s, e) = Len(s) + 1
           /\ PortageVersion(s) = SubSeq(s, h + 1, e - 1)
           /\ PortageRevision(s) = SubSeq(s, e, Len(s))
<1> DEFINE n == Len(s)
           l == Len(pn)
           p == h + 1
           t == SubSeq(s, p, n)
           m == Len(t)
           k == VersionEnd(t, 1)
<1>1. n \in Nat /\ l \in Nat
  BY AtIs
<1>0. h = l + 1 /\ e = VersionEnd(s, p)
  BY DEF HyphenAt, VersionTill
<1>2. /\ l + 1 < n /\ SubSeq(s, 1, l + 1) = Append(pn, "-")
      /\ Versioned(s) = SubSeq(s, l + 2, n)
      /\ At(SubSeq(s, l + 2, n), 1) \in Digit
      /\ RevisionEnd(SubSeq(s, l + 2, n), VersionEnd(SubSeq(s, l + 2, n), 1))
            = Len(SubSeq(s, l + 2, n)) + 1
  BY DEF Versioned
<1>3. /\ h \in 1..n /\ p \in 1..n /\ h \in Int /\ h = l + 1 /\ p = l + 2 /\ p - 1 = h
      /\ p \in 1..(n + 1) /\ n \in (p - 1)..n /\ n - p + 1 = n - h /\ n - h >= 1
  <2> HIDE DEF n, l
  <2> QED
    BY <1>0, <1>1, <1>2
<1>4. /\ Versioned(s) = t /\ At(t, 1) \in Digit
      /\ RevisionEnd(t, k) = m + 1
  BY <1>2, <1>3
<1>5. \A i \in 1..l : s[i] = pn[i]
  <2> DEFINE q == l + 1
             x == SubSeq(s, 1, q)
             y == Append(pn, "-")
  <2>1. 1 \in 1..(n + 1) /\ q \in (1 - 1)..n /\ q - 1 + 1 = q
    <3> HIDE DEF n, l
    <3> QED
      BY <1>1, <1>2
  <2>2. x \in Seq(TextChar) /\ Len(x) = q /\ \A i \in 1..q : x[i] = s[i + 1 - 1]
    <3> HIDE DEF q
    <3> QED
      BY <2>1, SubSeqIs
  <2>3. \A i \in 1..l : y[i] = pn[i]
    OBVIOUS
  <2>4. \A i \in 1..l : i + 1 - 1 = i /\ i \in 1..q
    <3> HIDE DEF l
    <3> QED
      BY <1>1
  <2>5. x = y
    BY <1>2
  <2> HIDE DEF x, y, l
  <2> QED
    BY <2>2, <2>3, <2>4, <2>5
<1>6. s[h] = "-"
  <2> DEFINE x == SubSeq(s, 1, h)
             y == Append(pn, "-")
  <2>1. 1 \in 1..(n + 1) /\ h \in (1 - 1)..n /\ h - 1 + 1 = h /\ h \in 1..h /\ h + 1 - 1 = h
    <3> HIDE DEF n, l
    <3> QED
      BY <1>1, <1>3
  <2>2. \A i \in 1..(h - 1 + 1) : x[i] = s[i + 1 - 1]
    BY <2>1, SubSeqIs
  <2>3. y[h] = "-"
    <3>1. y[l + 1] = "-"
      OBVIOUS
    <3> QED
      BY <3>1, <1>3
  <2>4. x = y
    BY <1>2, <1>3
  <2> HIDE DEF x, y
  <2> QED
    BY <2>1, <2>2, <2>3, <2>4
<1>7. t \in Seq(TextChar) /\ Within(t, s, h) /\ m = n - h /\ \A i \in 1..m : t[i] = s[i + h]
  <2>1. t \in Seq(TextChar) /\ Within(t, s, p - 1)
    <3> HIDE DEF p, n
    <3> QED
      BY <1>3, SubSeqIs, PieceIsWithin DEF n
  <2>2. Len(SubSeq(s, p, n)) = n - p + 1
    <3> HIDE DEF p
    <3> QED
      BY <1>3, SubSeqIs
  <2> QED
    BY <2>1, <2>2, <1>3 DEF Within
<1>8. m \in Nat /\ m >= 1 /\ 1 \in 1..m /\ 1 \in 1..(m + 1) /\ 1 + h = p /\ h + m + 1 = n + 1
  <2>1. m = n - h
    BY <1>7
  <2> HIDE DEF m, n
  <2> QED
    BY <2>1, <1>1, <1>3
<1>9. s[p] \in Digit
  <2>1. t[1] = s[p]
    BY <1>7, <1>8
  <2>2. At(t, 1) = t[1]
    <3> HIDE DEF t
    <3> QED
      BY <1>7, <1>8, AtIs DEF m
  <2> QED
    BY <2>1, <2>2, <1>4
<1>10. e \in p..(n + 1) /\ e > p
  BY <1>0, <1>3, <1>9, VersionEndRange, VersionBegins
<1>11. k + h = e /\ k \in 1..(m + 1)
  <2>1. VersionEnd(s, 1 + h) <= h + Len(t) + 1
    <3>1. e <= n + 1
      <4> HIDE DEF n, p
      <4> QED
        BY <1>10, <1>1
    <3> QED
      BY <3>1, <1>0, <1>8
  <2>2. VersionEnd(t, 1) + h = VersionEnd(s, 1 + h)
    <3> HIDE DEF t
    <3> QED
      BY <2>1, <1>7, <1>8, VersionCut DEF m
  <2>3. k \in 1..(m + 1)
    <3> HIDE DEF t
    <3> QED
      BY <1>7, <1>8, VersionEndRange DEF m
  <2> QED
    BY <2>2, <2>3, <1>0, <1>8
<1>12. RevisionEnd(s, e) = n + 1
  <2>1. RevisionEnd(s, k + h) <= h + Len(t) + 1
    <3>1. e \in 1..(n + 1)
      <4> HIDE DEF n, p
      <4> QED
        BY <1>10, <1>1, <1>3
    <3>2. RevisionEnd(s, e) \in e..(n + 1)
      BY <3>1, RevisionEndRange
    <3> DEFINE r == RevisionEnd(s, e)
    <3>3. r <= n + 1
      <4> HIDE DEF n, r
      <4> QED
        BY <3>1, <3>2, <1>1 DEF r
    <3> QED
      BY <3>3, <1>8, <1>11
  <2>2. RevisionEnd(t, k) + h = RevisionEnd(s, k + h)
    <3> HIDE DEF t, k
    <3> QED
      BY <2>1, <1>7, <1>11, RevisionCut DEF m
  <2>3. m + 1 + h = n + 1
    <3> HIDE DEF m, n
    <3> QED
      BY <1>1, <1>3, <1>8
  <2> QED
    BY <2>2, <2>3, <1>4, <1>11
<1>13. PortageVersion(s) = SubSeq(s, p, e - 1)
  <2> DEFINE c == k - 1
  <2>1. c \in 0..m /\ c + 1 = k /\ p = 1 + h /\ 1 + c - 1 = c /\ p + c - 1 = e - 1
    <3> HIDE DEF m, k
    <3> QED
      BY <1>3, <1>8, <1>11
  <2>2. c \in 0..(Len(t) + 1 - 1)
    <3>1. m + 1 - 1 = m
      <4> HIDE DEF m
      <4> QED
        BY <1>8
    <3> HIDE DEF c
    <3> QED
      BY <2>1, <3>1
  <2>3. Piece(t, 1, c) = Piece(s, p, c)
    <3> HIDE DEF t, c, p
    <3> QED
      BY <2>1, <2>2, <1>7, <1>8, SamePieces
  <2>4. PortageVersion(s) = SubSeq(t, 1, c)
    BY <1>4 DEF PortageVersion
  <2> QED
    BY <2>1, <2>3, <2>4 DEF Piece
<1>14. PortageRevision(s) = SubSeq(s, e, n)
  <2>1. k \in 1..(m + 1) /\ e = k + h /\ m \in Int
    BY <1>7, <1>8, <1>11
  <2>2. SubSeq(t, k, m) = SubSeq(s, e, n)
    <3> DEFINE x == SubSeq(t, k, m)
               y == SubSeq(s, e, n)
    <3>1. /\ m \in (k - 1)..m /\ n \in (e - 1)..n /\ e \in 1..(n + 1)
          /\ m - k + 1 = n - e + 1
          /\ \A i \in 1..(m - k + 1) : i + k - 1 \in 1..m /\ i + k - 1 + h = i + e - 1
      <4> HIDE DEF m, n, k
      <4> QED
        BY <2>1, <1>1, <1>3, <1>7, <1>8
    <3>2. x \in Seq(TextChar) /\ Len(x) = m - k + 1 /\ \A i \in 1..(m - k + 1) : x[i] = t[i + k - 1]
      <4> HIDE DEF t, k
      <4> QED
        BY <2>1, <3>1, <1>7, SubSeqIs DEF m
    <3>3. y \in Seq(TextChar) /\ Len(y) = n - e + 1 /\ \A i \in 1..(n - e + 1) : y[i] = s[i + e - 1]
      BY <3>1, SubSeqIs
    <3> HIDE DEF x, y, m, n, t, k
    <3>4. ASSUME NEW i \in 1..(m - k + 1) PROVE x[i] = y[i]
      <4> DEFINE j == i + k - 1
      <4>1. j \in 1..m /\ j + h = i + e - 1
        BY <3>1
      <4>2. x[i] = t[j]
        BY <3>2
      <4>3. y[i] = s[i + e - 1]
        BY <3>1, <3>3
      <4>4. t[j] = s[j + h]
        <5> HIDE DEF j
        <5> QED
          BY <4>1, <1>7
      <4> QED
        BY <4>1, <4>2, <4>3, <4>4
    <3>5. x = y
      <4> DEFINE w == m - k + 1
      <4>1. Len(x) = w /\ Len(y) = w /\ \A i \in 1..w : x[i] = y[i]
        BY <3>1, <3>2, <3>3, <3>4
      <4> HIDE DEF w
      <4> QED
        BY <4>1, <3>2, <3>3
    <3> QED
      BY <3>5 DEF x, y
  <2>3. Len(PortageVersion(s)) + 1 = k
    <3> DEFINE f == e - 1
    <3>1. f \in (p - 1)..n /\ f - p + 1 + 1 = k
      <4>1. p \in Int /\ n \in Nat /\ e \in (p + 1)..(n + 1) /\ p = h + 1 /\ h \in Int
        <5> HIDE DEF n, p, k
        <5> QED
          BY <1>1, <1>3, <1>10
      <4>2. k + h = e /\ k \in Int
        BY <1>11, <1>8
      <4> HIDE DEF n, p, k
      <4> QED
        BY <4>1, <4>2, SMTT(20)
    <3>2. Len(SubSeq(s, p, f)) = f - p + 1
      <4> HIDE DEF p, f
      <4> QED
        BY <3>1, <1>3, SubSeqIs
    <3> QED
      BY <3>1, <3>2, <1>13
  <2>4. PortageRevision(s) = SubSeq(t, k, m)
    BY <2>3, <1>4 DEF PortageRevision
  <2> QED
    BY <2>2, <2>4
<1>15. e \in (h + 2)..(n + 1)
  <2> HIDE DEF n
  <2> QED
    BY <1>1, <1>3, <1>10
<1> QED
  BY <1>3, <1>5, <1>6, <1>9, <1>12, <1>13, <1>14, <1>15

---------------------------------------------------------------------------
(* Matches in a name.                                                      *)

LEMMA EmptySubSeq ==
    ASSUME NEW s \in Seq(TextChar), NEW p \in Int, NEW q \in Int, q < p
    PROVE  SubSeq(s, p, q) = <<>>
  OBVIOUS

LEMMA SubSeqIsText ==
    ASSUME NEW s \in Seq(TextChar), NEW p \in Nat, p >= 1, NEW q \in Int, q <= Len(s)
    PROVE  SubSeq(s, p, q) \in Seq(TextChar)
<1> DEFINE n == Len(s)
<1>1. n \in Nat
  BY AtIs
<1>2. CASE q < p
  <2>1. SubSeq(s, p, q) = <<>>
    BY <1>2, EmptySubSeq
  <2> QED
    BY <2>1
<1>3. CASE ~ (q < p)
  <2>1. p \in 1..(n + 1) /\ q \in (p - 1)..n
    <3>1. q <= n
      OBVIOUS
    <3> HIDE DEF n
    <3> QED
      BY <3>1, <1>1, <1>3
  <2> QED
    BY <2>1, SubSeqIs
<1> QED
  BY <1>2, <1>3

NoMatch(s, from) == \A n \in from..Len(s) : Hyphens(s, n) = {}

\* Where the parts of a match begin or end.
NameBegins(s, from) == Min({n \in from..Len(s) : Hyphens(s, n) # {}})
FirstHyphen(s, from) == Min(Hyphens(s, NameBegins(s, from)))
FirstEnd(s, from) == RevisionEnd(s, VersionEnd(s, FirstHyphen(s, from) + 1))
LastHyphen(s, from) ==
    IF At(s, FirstEnd(s, from)) = "-" /\ At(s, FirstEnd(s, from) + 1) \in Digit
    THEN FirstEnd(s, from)
    ELSE FirstHyphen(s, from)
MatchTill(s, from) == VersionEnd(s, LastHyphen(s, from) + 1)

LEMMA MatchIs ==
    ASSUME NEW s, NEW from
    PROVE  /\ PortageMatch(s, from).pn =
                  SubSeq(s, NameBegins(s, from), LastHyphen(s, from) - 1)
           /\ PortageMatch(s, from).pn_inval =
                  SubSeq(s, FirstHyphen(s, from), LastHyphen(s, from) - 1)
           /\ PortageMatch(s, from).ver =
                  SubSeq(s, LastHyphen(s, from) + 1, MatchTill(s, from) - 1)
           /\ PortageMatch(s, from).rev =
                  SubSeq(s, MatchTill(s, from) + 2, RevisionEnd(s, MatchTill(s, from)) - 1)
           /\ PortageMatch(s, from).end = RevisionEnd(s, MatchTill(s, from))
  BY DEF PortageMatch, NameBegins, FirstHyphen, FirstEnd, LastHyphen, MatchTill

LEMMA HyphenIs ==
    ASSUME NEW s \in Seq(TextChar), NEW i \in 1..Len(s), NEW j \in Hyphens(s, i)
    PROVE  /\ j \in (i + 1)..Len(s) /\ j \in 1..Len(s) /\ j + 1 \in 1..Len(s)
           /\ s[i] \in WordChar /\ s[j] = "-" /\ s[j + 1] \in Digit
           /\ \A k \in (i + 1)..(j - 1) : s[k] \in NameChar
<1> DEFINE n == Len(s)
<1>1. n \in Nat
  BY AtIs
<1>2. /\ j \in (i + 1)..n /\ s[i] \in WordChar /\ s[j] = "-" /\ At(s, j + 1) \in Digit
      /\ \A k \in (i + 1)..(j - 1) : s[k] \in NameChar
  BY DEF Hyphens
<1>3. j \in 1..n /\ j + 1 \in Int
  <2>1. i \in 1..n
    OBVIOUS
  <2> HIDE DEF n
  <2> QED
    BY <2>1, <1>1, <1>2
<1>4. j + 1 \in 1..n
  BY <1>2, <1>3, AtIs, NoDigit
<1>5. s[j + 1] \in Digit
  BY <1>2, <1>4, AtIs
<1> QED
  BY <1>2, <1>3, <1>4, <1>5

LEMMA MatchBegins ==
    ASSUME NEW s \in Seq(TextChar), NEW from \in 1..(Len(s) + 1), ~ NoMatch(s, from)
    PROVE  /\ NameBegins(s, from) \in from..Len(s)
           /\ \A l \in from..Len(s) : Hyphens(s, l) # {} => NameBegins(s, from) <= l
           /\ FirstHyphen(s, from) \in Hyphens(s, NameBegins(s, from))
           /\ \A l \in Hyphens(s, NameBegins(s, from)) : FirstHyphen(s, from) <= l
<1> DEFINE n == Len(s)
           T == {l \in from..Len(s) : Hyphens(s, l) # {}}
           i == NameBegins(s, from)
           H == Hyphens(s, i)
<1>1. n \in Nat
  BY AtIs
<1>2. T # {}
  BY DEF NoMatch
<1>3. T \subseteq Nat
  <2>1. from..n \subseteq Nat
    <3>1. from \in 1..(n + 1)
      OBVIOUS
    <3> HIDE DEF n
    <3> QED
      BY <3>1, <1>1
  <2> QED
    BY <2>1
<1>4. i = Min(T)
  BY DEF NameBegins
<1>5. i \in T /\ \A l \in T : i <= l
  <2> HIDE DEF T, i
  <2> QED
    BY <1>2, <1>3, <1>4, LeastIs
<1>6. i \in from..n /\ H # {}
  BY <1>5
<1>7. i \in 1..n
  <2>1. from \in 1..(n + 1)
    OBVIOUS
  <2> HIDE DEF n, i
  <2> QED
    BY <2>1, <1>1, <1>6
<1>8. H \subseteq Nat
  <2>1. \A l \in H : l \in 1..n
    <3> HIDE DEF i
    <3> QED
      BY <1>7, HyphenIs
  <2>2. \A l \in 1..n : l \in Nat
    <3> HIDE DEF n
    <3> QED
      BY <1>1
  <2> QED
    BY <2>1, <2>2
<1>9. FirstHyphen(s, from) = Min(H)
  BY DEF FirstHyphen
<1>10. Min(H) \in H /\ \A l \in H : Min(H) <= l
  <2> HIDE DEF H
  <2> QED
    BY <1>6, <1>8, LeastIs
<1> QED
  BY <1>5, <1>6, <1>9, <1>10

\* A version and a revision behind a hyphen.
LEMMA AfterHyphen ==
    ASSUME NEW s \in Seq(TextChar), NEW j \in Int, j + 1 \in 1..Len(s), s[j + 1] \in Digit
    PROVE  /\ VersionEnd(s, j + 1) \in (j + 2)..(Len(s) + 1)
           /\ RevisionEnd(s, VersionEnd(s, j + 1)) \in VersionEnd(s, j + 1)..(Len(s) + 1)
           /\ RevisionEnd(s, VersionEnd(s, j + 1)) \in (j + 2)..(Len(s) + 1)
<1> DEFINE n == Len(s)
           p == j + 1
           v == VersionEnd(s, p)
           r == RevisionEnd(s, v)
<1>1. n \in Nat
  BY AtIs
<1>2. p \in 1..n /\ p \in 1..(n + 1)
  <2>1. p \in 1..n
    OBVIOUS
  <2> HIDE DEF n, p
  <2> QED
    BY <2>1, <1>1
<1>3. v \in p..(n + 1) /\ v > p
  <2> HIDE DEF p
  <2> QED
    BY <1>2, VersionEndRange, VersionBegins DEF p
<1>4. v \in (j + 2)..(n + 1) /\ v \in 1..(n + 1)
  <2> HIDE DEF n, v
  <2> QED
    BY <1>1, <1>2, <1>3
<1>5. r \in v..(n + 1)
  <2> HIDE DEF v
  <2> QED
    BY <1>4, RevisionEndRange
<1>6. r \in (j + 2)..(n + 1)
  <2> HIDE DEF n, v, r
  <2> QED
    BY <1>1, <1>4, <1>5
<1> QED
  BY <1>4, <1>5, <1>6

LEMMA MatchParts ==
    ASSUME NEW s \in Seq(TextChar), NEW from \in 1..(Len(s) + 1), ~ NoMatch(s, from)
    PROVE  /\ NameBegins(s, from) \in 1..Len(s) /\ NameBegins(s, from) >= from
           /\ s[NameBegins(s, from)] \in WordChar
           /\ FirstHyphen(s, from) \in (NameBegins(s, from) + 1)..Len(s)
           /\ FirstHyphen(s, from) \in 1..Len(s) /\ FirstHyphen(s, from) + 1 \in 1..Len(s)
           /\ s[FirstHyphen(s, from)] = "-" /\ s[FirstHyphen(s, from) + 1] \in Digit
           /\ FirstEnd(s, from) \in (FirstHyphen(s, from) + 2)..(Len(s) + 1)
           /\ LastHyphen(s, from) \in {FirstHyphen(s, from), FirstEnd(s, from)}
           /\ LastHyphen(s, from) \in 1..Len(s) /\ LastHyphen(s, from) + 1 \in 1..Len(s)
           /\ s[LastHyphen(s, from)] = "-" /\ s[LastHyphen(s, from) + 1] \in Digit
           /\ MatchTill(s, from) \in (LastHyphen(s, from) + 2)..(Len(s) + 1)
           /\ RevisionEnd(s, MatchTill(s, from)) \in MatchTill(s, from)..(Len(s) + 1)
           /\ RevisionEnd(s, MatchTill(s, from)) > from
<1> DEFINE n == Len(s)
           i == NameBegins(s, from)
           j == FirstHyphen(s, from)
           k == FirstEnd(s, from)
           d == LastHyphen(s, from)
           e == MatchTill(s, from)
           r == RevisionEnd(s, e)
<1>1. n \in Nat /\ from \in Int /\ from >= 1
  <2>1. n \in Nat
    BY AtIs
  <2>2. from \in 1..(n + 1)
    OBVIOUS
  <2> HIDE DEF n
  <2> QED
    BY <2>1, <2>2
<1>2. i \in from..n /\ j \in Hyphens(s, i)
  BY MatchBegins
<1>3. i \in 1..n /\ i >= from
  <2> HIDE DEF n, i
  <2> QED
    BY <1>1, <1>2
<1>4. /\ j \in (i + 1)..n /\ j \in 1..n /\ j + 1 \in 1..n
      /\ s[i] \in WordChar /\ s[j] = "-" /\ s[j + 1] \in Digit
  <2> HIDE DEF i, j
  <2> QED
    BY <1>2, <1>3, HyphenIs
<1>5. j \in Int
  <2> HIDE DEF n, j
  <2> QED
    BY <1>4
<1>6. k \in (j + 2)..(n + 1)
  <2>1. k = RevisionEnd(s, VersionEnd(s, j + 1))
    BY DEF FirstEnd
  <2> HIDE DEF j, k
  <2> QED
    BY <2>1, <1>4, <1>5, AfterHyphen
<1>7. k \in Int /\ k \in 1..(n + 1) /\ k + 1 \in Int /\ j < k
  <2> HIDE DEF n, j, k
  <2> QED
    BY <1>1, <1>5, <1>6, <1>4
<1>8. d = j \/ (d = k /\ k \in 1..n /\ k + 1 \in 1..n /\ s[k] = "-" /\ s[k + 1] \in Digit)
  <2>1. CASE At(s, k) = "-" /\ At(s, k + 1) \in Digit
    <3>1. k \in 1..n /\ k + 1 \in 1..n
      BY <2>1, <1>7, AtIs, NoDigit
    <3>2. s[k] = "-" /\ s[k + 1] \in Digit
      BY <2>1, <3>1, AtIs
    <3> QED
      BY <2>1, <3>1, <3>2 DEF LastHyphen
  <2>2. CASE ~ (At(s, k) = "-" /\ At(s, k + 1) \in Digit)
    BY <2>2 DEF LastHyphen
  <2> QED
    BY <2>1, <2>2
<1>9. /\ d \in 1..n /\ d + 1 \in 1..n /\ s[d] = "-" /\ s[d + 1] \in Digit
      /\ d \in Int /\ j <= d
  <2> HIDE DEF n, j, k, d
  <2> QED
    BY <1>4, <1>5, <1>7, <1>8
<1>10. e \in (d + 2)..(n + 1) /\ r \in e..(n + 1)
  <2>1. e = VersionEnd(s, d + 1)
    BY DEF MatchTill
  <2> HIDE DEF d, e
  <2> QED
    BY <2>1, <1>9, AfterHyphen
<1>11. r > from
  <2> HIDE DEF n, i, j, d, e, r
  <2> QED
    BY <1>1, <1>3, <1>4, <1>5, <1>9, <1>10
<1> QED
  BY <1>3, <1>4, <1>6, <1>8, <1>9, <1>10, <1>11

Parsed ==
    [pn : Seq(TextChar), pn_inval : Seq(TextChar), ver : Seq(TextChar), rev : Seq(TextChar)]

\* A match's version is one, and its end is behind its beginning.
LEMMA MatchIsParsed ==
    ASSUME NEW s \in Seq(TextChar), NEW from \in 1..(Len(s) + 1), ~ NoMatch(s, from)
    PROVE  /\ PortageMatch(s, from).pn \in Seq(TextChar)
           /\ PortageMatch(s, from).pn_inval \in Seq(TextChar)
           /\ PortageMatch(s, from).ver \in Seq(TextChar)
           /\ PortageMatch(s, from).rev \in Seq(TextChar)
           /\ IsVersion(PortageMatch(s, from).ver)
           /\ PortageMatch(s, from).end \in 1..(Len(s) + 1)
           /\ PortageMatch(s, from).end > from
<1> DEFINE n == Len(s)
           i == NameBegins(s, from)
           j == FirstHyphen(s, from)
           d == LastHyphen(s, from)
           e == MatchTill(s, from)
           r == RevisionEnd(s, e)
           m == PortageMatch(s, from)
<1>1. n \in Nat
  BY AtIs
<1>2. /\ i \in 1..n /\ j \in 1..n /\ d \in 1..n /\ d + 1 \in 1..n /\ s[d + 1] \in Digit
      /\ e \in (d + 2)..(n + 1) /\ r \in e..(n + 1) /\ r > from
  BY MatchParts
<1>3. /\ i \in Nat /\ i >= 1 /\ j \in Nat /\ j >= 1 /\ d - 1 \in Int /\ d - 1 <= n
      /\ e + 2 \in Nat /\ e + 2 >= 1 /\ r - 1 \in Int /\ r - 1 <= n /\ r \in 1..(n + 1)
  <2> HIDE DEF n, i, j, d, e, r
  <2> QED
    BY <1>1, <1>2
<1>4. /\ m.pn = SubSeq(s, i, d - 1) /\ m.pn_inval = SubSeq(s, j, d - 1)
      /\ m.ver = SubSeq(s, d + 1, e - 1) /\ m.rev = SubSeq(s, e + 2, r - 1)
      /\ m.end = r
  BY MatchIs
<1>5. m.ver \in Seq(TextChar) /\ IsVersion(m.ver)
  <2>1. e = VersionEnd(s, d + 1)
    BY DEF MatchTill
  <2> DEFINE p == d + 1
             v == m.ver
  <2>2. p \in 1..Len(s) /\ s[p] \in Digit /\ v = SubSeq(s, p, VersionEnd(s, p) - 1)
    BY <2>1, <1>2, <1>4
  <2> HIDE DEF p, v
  <2> QED
    BY <2>2, TrimmedIsVersion DEF v
<1>6. m.pn \in Seq(TextChar)
  <2> DEFINE q == d - 1
  <2> HIDE DEF i, q
  <2> QED
    BY <1>3, <1>4, SubSeqIsText DEF q
<1>7. m.pn_inval \in Seq(TextChar)
  <2> DEFINE q == d - 1
  <2> HIDE DEF j, q
  <2> QED
    BY <1>3, <1>4, SubSeqIsText DEF q
<1>8. m.rev \in Seq(TextChar)
  <2> DEFINE p == e + 2
             q == r - 1
  <2>1. p \in Nat /\ p >= 1 /\ q \in Int /\ q <= Len(s) /\ m.rev = SubSeq(s, p, q)
    BY <1>3, <1>4
  <2> HIDE DEF p, q, m
  <2> QED
    BY <2>1, SubSeqIsText
<1> QED
  BY <1>2, <1>3, <1>4, <1>5, <1>6, <1>7, <1>8

\* The equation ParsedFrom is defined by.
ParseRule(s, f, from) ==
    IF NoMatch(s, from) THEN NotParsed
    ELSE Over(f[PortageMatch(s, from).end], PortageMatch(s, from))

LEMMA NotParsedIs == NotParsed \in Parsed
  BY DEF NotParsed, Parsed

LEMMA OverIs ==
    ASSUME NEW later \in Parsed, NEW m,
           m.pn \in Seq(TextChar), m.pn_inval \in Seq(TextChar),
           m.ver \in Seq(TextChar), m.rev \in Seq(TextChar)
    PROVE  Over(later, m) \in Parsed
  BY DEF Over, Or, Parsed

LEMMA ParsedFromDefined ==
    ASSUME NEW s \in Seq(TextChar)
    PROVE  \A from \in 1..(Len(s) + 1) :
              /\ ParsedFrom(s)[from] \in Parsed
              /\ ParsedFrom(s)[from] = ParseRule(s, ParsedFrom(s), from)
<1> DEFINE b == Len(s) + 1
           D == 1..b
           V == Parsed
           rank == [p \in D |-> b - p]
           Rule == [p \in D |-> [f \in [D -> V] |-> ParseRule(s, f, p)]]
           Solves(g) == g = [p \in D |-> ParseRule(s, g, p)]
           parsed_ == ParsedFrom(s)
<1>1. b \in Nat /\ rank \in [D -> 0..b]
  <2>1. b \in Nat
    BY AtIs
  <2> HIDE DEF b
  <2>2. \A p \in 1..b : b - p \in 0..b
    BY <2>1
  <2> QED
    BY <2>1, <2>2
<1>2. ASSUME NEW p \in D, ~ NoMatch(s, p)
      PROVE  /\ PortageMatch(s, p).end \in D
             /\ rank[PortageMatch(s, p).end] < rank[p]
  <2> DEFINE q == PortageMatch(s, p).end
  <2>1. q \in D /\ q > p
    BY <1>2, MatchIsParsed
  <2> HIDE DEF b, q
  <2>2. b - q < b - p
    BY <2>1, <1>1
  <2> QED
    BY <2>1, <2>2 DEF q
<1>3. ASSUME NEW p \in D, NEW f \in [D -> V]
      PROVE  ParseRule(s, f, p) \in V
  <2>1. CASE NoMatch(s, p)
    BY <2>1, NotParsedIs DEF ParseRule
  <2>2. CASE ~ NoMatch(s, p)
    <3> DEFINE m == PortageMatch(s, p)
    <3>1. /\ m.pn \in Seq(TextChar) /\ m.pn_inval \in Seq(TextChar)
          /\ m.ver \in Seq(TextChar) /\ m.rev \in Seq(TextChar)
      BY <2>2, MatchIsParsed
    <3>2. f[m.end] \in V
      BY <2>2, <1>2
    <3>3. ParseRule(s, f, p) = Over(f[m.end], m)
      BY <2>2 DEF ParseRule
    <3> HIDE DEF m
    <3> QED
      BY <3>1, <3>2, <3>3, OverIs
  <2> QED
    BY <2>1, <2>2
<1>4. Rule \in [D -> [[D -> V] -> V]]
  BY <1>3
<1>5. ASSUME NEW p \in D, NEW f \in [D -> V], NEW g \in [D -> V],
             \A q \in D : rank[q] < rank[p] => f[q] = g[q]
      PROVE  Rule[p][f] = Rule[p][g]
  <2>1. ParseRule(s, f, p) = ParseRule(s, g, p)
    BY <1>2, <1>5 DEF ParseRule
  <2> QED
    BY <2>1
<1>6. PICK f \in [D -> V] : \A p \in D : f[p] = Rule[p][f]
  <2>1. V # {}
    BY NotParsedIs
  <2> HIDE DEF D, V, rank, Rule, b
  <2>2. Grounded(D, V, b, rank, Rule)
    BY <2>1, <1>1, <1>4, <1>5 DEF Grounded
  <2> QED
    BY <2>2, RecursionHasASolution
<1>7. Solves(f)
  BY <1>6
<1>8. parsed_ = CHOOSE g : Solves(g)
  BY DEF ParsedFrom, ParseRule, NoMatch
<1>9. Solves(parsed_)
  <2> HIDE DEF Solves, parsed_
  <2> QED
    BY <1>7, <1>8
<1> HIDE DEF parsed_
<1>10. \A p \in D : parsed_[p] = ParseRule(s, parsed_, p)
  BY <1>9
<1>11. ASSUME NEW p \in 0..b, \A q \in (p + 1)..b : q = 0 \/ parsed_[q] \in V
       PROVE  p = 0 \/ parsed_[p] \in V
  <2> SUFFICES ASSUME p # 0 PROVE parsed_[p] \in V
    OBVIOUS
  <2>1. p \in D
    <3> HIDE DEF b
    <3> QED
      BY <1>1
  <2>2. CASE NoMatch(s, p)
    BY <2>1, <2>2, <1>10, NotParsedIs DEF ParseRule
  <2>3. CASE ~ NoMatch(s, p)
    <3> DEFINE m == PortageMatch(s, p)
               q == m.end
    <3>1. /\ m.pn \in Seq(TextChar) /\ m.pn_inval \in Seq(TextChar)
          /\ m.ver \in Seq(TextChar) /\ m.rev \in Seq(TextChar)
          /\ q \in D /\ q > p
      BY <2>1, <2>3, MatchIsParsed
    <3>2. q # 0 /\ q \in (p + 1)..b
      <4> HIDE DEF b, q
      <4> QED
        BY <3>1, <2>1, <1>1
    <3>3. parsed_[q] \in V
      BY <3>2, <1>11
    <3>4. parsed_[p] = Over(parsed_[q], m)
      BY <2>1, <2>3, <1>10 DEF ParseRule
    <3> HIDE DEF m, q
    <3> QED
      BY <3>1, <3>3, <3>4, OverIs
  <2> QED
    BY <2>2, <2>3
<1>12. \A p \in 0..b : p = 0 \/ parsed_[p] \in V
  <2> DEFINE T == {p \in 0..b : p = 0 \/ parsed_[p] \in V}
  <2>1. \A p \in 0..b : (\A q \in (p + 1)..b : q \in T) => p \in T
    BY <1>11
  <2> HIDE DEF T
  <2>2. 0..b \subseteq T
    BY <2>1, <1>1, FromTheEnd
  <2> QED
    BY <2>2 DEF T
<1>13. \A p \in D : p # 0 /\ p \in 0..b
  <2> HIDE DEF b
  <2> QED
    BY <1>1
<1> QED
  BY <1>10, <1>12, <1>13 DEF parsed_

\* A version read in a name is a version of portage.
LEMMA ParsedVersion ==
    ASSUME NEW s \in Seq(TextChar)
    PROVE  \A from \in 1..(Len(s) + 1) :
              ParsedFrom(s)[from].ver = <<>> \/ IsVersion(ParsedFrom(s)[from].ver)
<1> DEFINE b == Len(s) + 1
           Fits(p) == ParsedFrom(s)[p].ver = <<>> \/ IsVersion(ParsedFrom(s)[p].ver)
           T == {p \in 0..b : p = 0 \/ Fits(p)}
<1>1. b \in Nat
  BY AtIs
<1>2. ASSUME NEW p \in 0..b, \A q \in (p + 1)..b : q \in T, p # 0
      PROVE  Fits(p)
  <2>1. p \in 1..b
    <3> HIDE DEF b
    <3> QED
      BY <1>1, <1>2
  <2>2. CASE NoMatch(s, p)
    <3>1. ParsedFrom(s)[p] = NotParsed
      BY <2>1, <2>2, ParsedFromDefined DEF ParseRule
    <3> QED
      BY <3>1 DEF NotParsed
  <2>3. CASE ~ NoMatch(s, p)
    <3> DEFINE m == PortageMatch(s, p)
               q == m.end
    <3>1. q \in 1..b /\ q > p /\ IsVersion(m.ver)
      BY <2>1, <2>3, MatchIsParsed
    <3>2. q # 0 /\ q \in (p + 1)..b
      <4> HIDE DEF b, q
      <4> QED
        BY <3>1, <2>1, <1>1
    <3>3. Fits(q)
      BY <3>2, <1>2
    <3>4. ParsedFrom(s)[p] = Over(ParsedFrom(s)[q], m)
      BY <2>1, <2>3, ParsedFromDefined DEF ParseRule
    <3>5. ParsedFrom(s)[p].ver = Or(ParsedFrom(s)[q].ver, m.ver)
      BY <3>4 DEF Over
    <3> QED
      BY <3>1, <3>3, <3>5 DEF Or
  <2> QED
    BY <2>2, <2>3
<1>3. 0..b \subseteq T
  <2>1. \A p \in 0..b : (\A q \in (p + 1)..b : q \in T) => p \in T
    BY <1>2
  <2> HIDE DEF T, b
  <2> QED
    BY <2>1, <1>1, FromTheEnd
<1>4. \A p \in 1..b : p # 0 /\ p \in 0..b
  <2> HIDE DEF b
  <2> QED
    BY <1>1
<1> QED
  BY <1>3, <1>4

---------------------------------------------------------------------------
(* Which version is read.                                                  *)

\* A package whose names end in a word, and a name of an ebuild of it.
Named(s) ==
    /\ pn \in Seq(NameChar) /\ pn # <<>> /\ EndsInAWord(pn)
    /\ s \in Seq(TextChar)
    /\ Versioned(s) # <<>>

LEMMA NameIsText ==
    /\ NameChar \subseteq TextChar /\ Seq(NameChar) \subseteq Seq(TextChar)
<1>1. NameChar \subseteq TextChar
  BY DEF TextChar
<1> QED
  BY <1>1

LEMMA NamedIs ==
    ASSUME NEW s, Named(s), NEW h, h = HyphenAt, NEW e, e = VersionTill(s)
    PROVE  /\ pn \in Seq(TextChar) /\ Len(pn) \in Nat /\ Len(pn) >= 1 /\ h = Len(pn) + 1
           /\ s \in Seq(TextChar) /\ Len(s) \in Nat
           /\ h \in 1..Len(s) /\ h + 1 \in 1..Len(s) /\ h \in Int /\ h - 1 \in 1..Len(s)
           /\ \A i \in 1..(h - 1) : s[i] = pn[i] /\ s[i] \in NameChar
           /\ s[h - 1] \in WordChar
           /\ s[h] = "-" /\ s[h + 1] \in Digit /\ At(s, h) = "-" /\ At(s, h + 1) \in Digit
           /\ e = VersionEnd(s, h + 1)
           /\ e \in (h + 2)..(Len(s) + 1) /\ e \in Int /\ e \in 1..(Len(s) + 1)
           /\ RevisionEnd(s, e) = Len(s) + 1
           /\ PortageVersion(s) = SubSeq(s, h + 1, e - 1)
           /\ PortageRevision(s) = SubSeq(s, e, Len(s))
<1> DEFINE n == Len(s)
           l == Len(pn)
<1>1. /\ pn \in Seq(NameChar) /\ pn # <<>> /\ EndsInAWord(pn)
      /\ s \in Seq(TextChar) /\ Versioned(s) # <<>> /\ pn \in Seq(TextChar)
  BY NameIsText DEF Named
<1>2. n \in Nat /\ l \in Nat /\ l # 0
  BY <1>1, AtIs
<1>3. h = l + 1 /\ e = VersionEnd(s, h + 1)
  BY DEF HyphenAt, VersionTill
<1>4. /\ h \in 1..n /\ h + 1 \in 1..n
      /\ \A i \in 1..l : s[i] = pn[i]
      /\ s[h] = "-" /\ s[h + 1] \in Digit
      /\ e \in (h + 2)..(n + 1)
      /\ RevisionEnd(s, e) = n + 1
      /\ PortageVersion(s) = SubSeq(s, h + 1, e - 1)
      /\ PortageRevision(s) = SubSeq(s, e, n)
  BY <1>1, VersionedIs
<1>5. l >= 1 /\ h \in Int /\ h - 1 = l /\ h - 1 \in 1..n /\ e \in Int /\ e \in 1..(n + 1) /\ l \in 1..l
  <2> HIDE DEF n, l
  <2> QED
    BY <1>2, <1>3, <1>4
<1>6. \A i \in 1..l : pn[i] \in NameChar
  BY <1>1
<1>7. s[h - 1] \in WordChar
  <2>1. pn[l] \in WordChar
    BY <1>1 DEF EndsInAWord
  <2> HIDE DEF l
  <2> QED
    BY <2>1, <1>4, <1>5
<1>8. At(s, h) = "-" /\ At(s, h + 1) \in Digit
  BY <1>1, <1>4, AtIs
<1>9. \A i \in 1..(h - 1) : s[i] = pn[i] /\ s[i] \in NameChar
  <2> HIDE DEF l
  <2> QED
    BY <1>4, <1>5, <1>6
<1> QED
  BY <1>1, <1>2, <1>3, <1>4, <1>5, <1>7, <1>8, <1>9

\* Before the hyphen behind the package there is always a match, and it begins
\* within the package.
LEMMA MatchWithin ==
    ASSUME NEW s, Named(s), NEW h, h = HyphenAt, NEW from \in 1..(h - 1)
    PROVE  /\ from \in 1..(Len(s) + 1)
           /\ ~ NoMatch(s, from)
           /\ NameBegins(s, from) \in 1..(h - 1)
           /\ FirstHyphen(s, from) \in (NameBegins(s, from) + 1)..h
<1> DEFINE n == Len(s)
           l == h - 1
           i == NameBegins(s, from)
           j == FirstHyphen(s, from)
<1>1. /\ n \in Nat /\ h \in 1..n /\ h \in Int /\ l \in 1..n /\ s \in Seq(TextChar)
      /\ \A k \in 1..l : s[k] \in NameChar
      /\ s[l] \in WordChar /\ s[h] = "-" /\ At(s, h + 1) \in Digit
  BY NamedIs
<1>2. from \in 1..(n + 1) /\ l \in from..n /\ h \in (l + 1)..n /\ \A k \in (l + 1)..(h - 1) : FALSE
      /\ from \in Int /\ from <= l /\ 1 <= from
  <2> HIDE DEF n
  <2> QED
    BY <1>1
<1>3. h \in Hyphens(s, l)
  <2> HIDE DEF l
  <2> QED
    BY <1>1, <1>2 DEF Hyphens
<1>4. ~ NoMatch(s, from)
  BY <1>2, <1>3 DEF NoMatch
<1>5. /\ i \in from..n /\ i <= l /\ j \in Hyphens(s, i)
      /\ \A k \in Hyphens(s, i) : j <= k
  BY <1>1, <1>2, <1>3, <1>4, MatchBegins
<1>6. i \in 1..l /\ i \in 1..n
  <2> HIDE DEF n, l, i
  <2> QED
    BY <1>1, <1>2, <1>5
<1>7. h \in Hyphens(s, i)
  <2>1. s[i] \in WordChar
    <3> HIDE DEF i, j
    <3> QED
      BY <1>1, <1>5, <1>6, HyphenIs
  <2>2. h \in (i + 1)..n /\ \A k \in (i + 1)..(h - 1) : k \in 1..l
    <3> HIDE DEF n, i
    <3> QED
      BY <1>1, <1>6
  <2> HIDE DEF i, l
  <2> QED
    BY <2>1, <2>2, <1>1 DEF Hyphens
<1>8. j \in (i + 1)..n /\ j <= h
  <2>1. j <= h
    BY <1>5, <1>7
  <2>2. j \in (i + 1)..n
    <3> HIDE DEF i, j
    <3> QED
      BY <1>1, <1>5, <1>6, HyphenIs
  <2> QED
    BY <2>1, <2>2
<1>9. j \in (i + 1)..h
  <2> HIDE DEF n, i, j, l
  <2> QED
    BY <1>1, <1>6, <1>8
<1> QED
  BY <1>2, <1>4, <1>6, <1>9

\* What is read in a name is refused or right.
ReadWell(s, P) ==
    \/ P.pn_inval # <<>>
    \/ /\ P.ver = SubSeq(s, HyphenAt + 1, VersionTill(s) - 1)
       /\ ~ HasRevision(pn) => P.rev = SubSeq(s, VersionTill(s) + 2, Len(s))

LEMMA OverGives ==
    ASSUME NEW later, NEW m
    PROVE  /\ Over(later, m).pn_inval = IF later.pn_inval = <<>> THEN m.pn_inval ELSE later.pn_inval
           /\ Over(later, m).ver = IF later.ver = <<>> THEN m.ver ELSE later.ver
           /\ Over(later, m).rev = IF later.rev = <<>> THEN m.rev ELSE later.rev
  BY DEF Over, Or

\* A match whose first hyphen is the one behind the package.
LEMMA ReadAtThePackage ==
    ASSUME NEW s, Named(s), NEW h, h = HyphenAt, NEW from \in 1..(h - 1),
           FirstHyphen(s, from) = h
    PROVE  ReadWell(s, ParsedFrom(s)[from])
<1> DEFINE n == Len(s)
           e == VersionTill(s)
           m == PortageMatch(s, from)
           X == ParsedFrom(s)
<1>1. /\ n \in Nat /\ h \in 1..n /\ h \in Int /\ s \in Seq(TextChar)
      /\ e = VersionEnd(s, h + 1) /\ e \in Int
      /\ RevisionEnd(s, e) = n + 1
  BY NamedIs
<1>2. from \in 1..(n + 1) /\ ~ NoMatch(s, from)
  BY MatchWithin
<1>3. FirstEnd(s, from) = n + 1
  BY <1>1 DEF FirstEnd
<1>4. At(s, n + 1) = "end"
  <2>1. n + 1 \in Int /\ n + 1 \notin 1..n
    BY <1>1
  <2> QED
    BY <2>1, <1>1, AtIs
<1>5. LastHyphen(s, from) = h
  <2> HIDE DEF n
  <2> QED
    BY <1>3, <1>4 DEF LastHyphen
<1>6. MatchTill(s, from) = e
  BY <1>1, <1>5 DEF MatchTill
<1>7. /\ m.pn_inval = SubSeq(s, h, h - 1) /\ m.ver = SubSeq(s, h + 1, e - 1)
      /\ m.rev = SubSeq(s, e + 2, (n + 1) - 1) /\ m.end = n + 1
  <2> HIDE DEF m, n, e
  <2> QED
    BY <1>1, <1>5, <1>6, MatchIs DEF m
<1>8. (n + 1) - 1 = n /\ n + 1 \in 1..(n + 1) /\ SubSeq(s, h, h - 1) = <<>>
  <2>1. h - 1 \in Int /\ h - 1 < h
    BY <1>1
  <2>2. SubSeq(s, h, h - 1) = <<>>
    BY <2>1, <1>1, EmptySubSeq
  <2> HIDE DEF n
  <2> QED
    BY <1>1, <2>2
<1>9. X[n + 1] = NotParsed
  <2>1. NoMatch(s, n + 1)
    BY <1>1 DEF NoMatch
  <2> QED
    BY <2>1, <1>1, <1>8, ParsedFromDefined DEF ParseRule
<1>10. X[from] = Over(NotParsed, m)
  <2>1. X[from] = ParseRule(s, X, from)
    BY <1>1, <1>2, ParsedFromDefined
  <2> HIDE DEF X
  <2> QED
    BY <2>1, <1>2, <1>7, <1>9 DEF ParseRule
<1>11. X[from].ver = m.ver /\ X[from].rev = m.rev
  <2>1. NotParsed.ver = <<>> /\ NotParsed.rev = <<>>
    BY DEF NotParsed
  <2> HIDE DEF X, m
  <2> QED
    BY <2>1, <1>10, OverGives
<1>12. X[from].ver = SubSeq(s, h + 1, e - 1) /\ X[from].rev = SubSeq(s, e + 2, n)
  <2> HIDE DEF X, m, e, n
  <2> QED
    BY <1>7, <1>8, <1>11
<1>13. ReadWell(s, X[from])
  <2> HIDE DEF X, m
  <2> QED
    BY <1>12 DEF ReadWell
<1> QED
  BY <1>13

\* A match that begins and ends within the package.
LEMMA ReadBeforeThePackage ==
    ASSUME NEW s, Named(s), NEW h, h = HyphenAt, NEW from \in 1..(h - 1),
           FirstHyphen(s, from) < h,
           \A k \in (from + 1)..(h - 1) : ReadWell(s, ParsedFrom(s)[k])
    PROVE  ReadWell(s, ParsedFrom(s)[from])
<1> DEFINE n == Len(s)
           e == VersionTill(s)
           m == PortageMatch(s, from)
           X == ParsedFrom(s)
           i == NameBegins(s, from)
           j == FirstHyphen(s, from)
           v == VersionEnd(s, j + 1)
           k == FirstEnd(s, from)
<1>1. /\ n \in Nat /\ h \in 1..n /\ h \in Int /\ s \in Seq(TextChar)
      /\ e = VersionEnd(s, h + 1) /\ e \in (h + 2)..(n + 1) /\ e \in Int
      /\ s[h] = "-" /\ At(s, h) = "-" /\ At(s, h + 1) \in Digit
  BY NamedIs
<1>2. from \in 1..(n + 1) /\ ~ NoMatch(s, from) /\ i \in 1..(h - 1) /\ j \in (i + 1)..h
  BY MatchWithin
<1>3. /\ i >= from /\ j + 1 \in 1..n /\ j \in 1..n /\ s[j + 1] \in Digit
      /\ k \in (j + 2)..(n + 1)
      /\ LastHyphen(s, from) \in {j, k}
      /\ m.end \in 1..(n + 1)
  BY <1>1, <1>2, MatchParts, MatchIsParsed
<1>4. v \in (j + 2)..(n + 1) /\ j \in Int
  <2> HIDE DEF j, n
  <2>1. j \in Int
    BY <1>1, <1>2
  <2> QED
    BY <2>1, <1>1, <1>3, AfterHyphen DEF n
<1>5. k = RevisionEnd(s, v)
  BY DEF FirstEnd
<1>6. v <= h
  <2>1. j + 1 \in 1..(n + 1) /\ h \in (j + 1)..(n + 1)
    <3>1. j < h
      OBVIOUS
    <3> HIDE DEF n, j, i
    <3> QED
      BY <3>1, <1>1, <1>3, <1>4
  <2> HIDE DEF n, j
  <2> QED
    BY <2>1, <1>1, NoVersionChar, VersionStops DEF n
<1>7. v \in 1..(n + 1) /\ h \in v..n
  <2> HIDE DEF n, j, v
  <2> QED
    BY <1>1, <1>3, <1>4, <1>6
<1>8. k <= h
  <2> HIDE DEF n, v, k
  <2> QED
    BY <1>1, <1>5, <1>7, RevisionStops DEF n
<1>9. X[from] = Over(X[m.end], m)
  <2>1. X[from] = ParseRule(s, X, from)
    BY <1>1, <1>2, ParsedFromDefined
  <2> HIDE DEF X
  <2> QED
    BY <2>1, <1>2 DEF ParseRule
<1>10. X[m.end] \in Parsed
  <2> HIDE DEF m, n
  <2> QED
    BY <1>1, <1>3, ParsedFromDefined DEF n
<1>11. ASSUME LastHyphen(s, from) = k PROVE ReadWell(s, X[from])
  <2>1. m.pn_inval = SubSeq(s, j, k - 1)
    BY <1>11, MatchIs
  <2>2. j \in 1..(n + 1) /\ k - 1 \in (j - 1)..n /\ (k - 1) - j + 1 # 0
    <3> HIDE DEF n, j, k
    <3> QED
      BY <1>1, <1>3, <1>4
  <2>3. Len(SubSeq(s, j, k - 1)) = (k - 1) - j + 1
    <3> HIDE DEF j, k, n
    <3> QED
      BY <2>2, <1>1, SubSeqIs DEF n
  <2>4. SubSeq(s, j, k - 1) # <<>>
    <3> DEFINE w == SubSeq(s, j, k - 1)
    <3>1. Len(w) # 0
      <4> HIDE DEF j, k, n
      <4> QED
        BY <2>2, <2>3
    <3>2. w # <<>>
      <4> HIDE DEF w
      <4> QED
        BY <3>1
    <3> QED
      BY <3>2
  <2>5. X[from].pn_inval # <<>>
    <3> DEFINE later == X[m.end]
    <3>1. X[from] = Over(later, m)
      BY <1>9
    <3>2. m.pn_inval # <<>>
      BY <2>1, <2>4
    <3> HIDE DEF X, m, later
    <3>3. Over(later, m).pn_inval = IF later.pn_inval = <<>> THEN m.pn_inval ELSE later.pn_inval
      BY OverGives
    <3> QED
      BY <3>1, <3>2, <3>3
  <2> HIDE DEF X, j, k, n, m
  <2> QED
    BY <2>5 DEF ReadWell
<1>12. ASSUME LastHyphen(s, from) # k PROVE ReadWell(s, X[from])
  <2>1. LastHyphen(s, from) = j
    BY <1>3, <1>12
  <2>2. k # h
    BY <1>1, <1>12 DEF LastHyphen
  <2>3. k \in (from + 1)..(h - 1)
    <3> HIDE DEF n, i, j, k
    <3> QED
      BY <1>1, <1>2, <1>3, <1>4, <1>8, <2>2
  <2>4. MatchTill(s, from) = v
    BY <2>1 DEF MatchTill
  <2>5. m.end = k /\ m.rev = SubSeq(s, v + 2, k - 1)
    <3> HIDE DEF m, v, k
    <3> QED
      BY <2>4, <1>5, MatchIs DEF m
  <2>6. ReadWell(s, X[k])
    BY <2>3
  <2>7. SubSeq(s, h + 1, e - 1) # <<>>
    <3>1. h + 1 \in 1..(n + 1) /\ e - 1 \in ((h + 1) - 1)..n /\ (e - 1) - (h + 1) + 1 # 0
      <4> HIDE DEF n, e
      <4> QED
        BY <1>1
    <3>2. Len(SubSeq(s, h + 1, e - 1)) = (e - 1) - (h + 1) + 1
      <4> HIDE DEF n, e
      <4> QED
        BY <3>1, <1>1, SubSeqIs DEF n
    <3> HIDE DEF n, e
    <3> QED
      BY <3>1, <3>2
  <2>8. ASSUME ~ HasRevision(pn) PROVE m.rev = <<>>
    <3>1. Within(pn, s, 0) /\ pn \in Seq(TextChar) /\ h = Len(pn) + 1 /\ Len(pn) \in Nat
      <4>1. /\ \A q \in 1..(h - 1) : s[q] = pn[q]
            /\ pn \in Seq(TextChar) /\ h = Len(pn) + 1 /\ Len(pn) \in Nat
        BY NamedIs
      <4> QED
        BY <4>1, <1>1 DEF Within
    <3>2. v \in 1..(Len(pn) + 1) /\ v + 0 = v
      <4> HIDE DEF v, j, n
      <4> QED
        BY <1>6, <1>7, <3>1
    <3>3. RevisionEnd(s, v + 0) <= 0 + Len(pn) + 1
      <4> HIDE DEF v, k
      <4> QED
        BY <1>5, <1>8, <3>1, <3>2
    <3>4. RevisionEnd(pn, v) + 0 = RevisionEnd(s, v + 0)
      <4> HIDE DEF v
      <4> QED
        BY <1>1, <3>1, <3>2, <3>3, RevisionCut
    <3>5. RevisionEnd(pn, v) = k
      <4>1. RevisionEnd(pn, v) \in v..(Len(pn) + 1)
        <5> HIDE DEF v
        <5> QED
          BY <3>1, <3>2, RevisionEndRange
      <4> HIDE DEF v, k
      <4> QED
        BY <1>5, <3>2, <3>4, <4>1
    <3>6. k \in v..(n + 1)
      <4> HIDE DEF v, n
      <4> QED
        BY <1>1, <1>5, <1>7, RevisionEndRange DEF n
    <3>7. k = v
      <4> SUFFICES ASSUME k # v PROVE FALSE
        OBVIOUS
      <4>1. v \in 1..Len(pn) /\ k > v
        <5> HIDE DEF v, k, n
        <5> QED
          BY <3>1, <3>2, <3>6, <1>8, <2>3
      <4>2. v \in DOMAIN pn
        BY <4>1, <3>1
      <4> HIDE DEF v, k
      <4> QED
        BY <4>1, <4>2, <3>5, <2>8 DEF HasRevision
    <3>8. v + 2 \in Int /\ v - 1 \in Int /\ v - 1 < v + 2
      <4> HIDE DEF v
      <4> QED
        BY <1>7
    <3> HIDE DEF v, k, m
    <3> QED
      BY <3>7, <3>8, <2>5, <1>1, EmptySubSeq
  <2>9. X[from] = Over(X[k], m)
    BY <1>9, <2>5
  <2> DEFINE later == X[k]
  <2>10. X[from] = Over(later, m) /\ ReadWell(s, later)
    BY <2>6, <2>9
  <2> HIDE DEF X, later, m
  <2>11. /\ Over(later, m).pn_inval = IF later.pn_inval = <<>> THEN m.pn_inval ELSE later.pn_inval
         /\ Over(later, m).ver = IF later.ver = <<>> THEN m.ver ELSE later.ver
         /\ Over(later, m).rev = IF later.rev = <<>> THEN m.rev ELSE later.rev
    BY OverGives
  <2>12. CASE later.pn_inval # <<>>
    BY <2>10, <2>11, <2>12 DEF ReadWell
  <2>13. CASE later.pn_inval = <<>>
    <3>1. /\ later.ver = SubSeq(s, h + 1, e - 1)
          /\ ~ HasRevision(pn) => later.rev = SubSeq(s, e + 2, n)
      <4> HIDE DEF n
      <4> QED
        BY <2>10, <2>13 DEF ReadWell, n
    <3>2. Over(later, m).ver = later.ver
      BY <3>1, <2>7, <2>11
    <3>3. ~ HasRevision(pn) => Over(later, m).rev = later.rev
      BY <2>8, <2>11
    <3>4. /\ X[from].ver = SubSeq(s, h + 1, e - 1)
          /\ ~ HasRevision(pn) => X[from].rev = SubSeq(s, e + 2, n)
      <4> HIDE DEF n, e
      <4> QED
        BY <3>1, <3>2, <3>3, <2>10
    <3> QED
      BY <3>4 DEF ReadWell
  <2> QED
    BY <2>12, <2>13
<1> QED
  BY <1>3, <1>11, <1>12

LEMMA NameIsReadWell ==
    ASSUME NEW s, Named(s)
    PROVE  ReadWell(s, ParsedFrom(s)[1])
<1> DEFINE h == HyphenAt
           X == ParsedFrom(s)
           T == {p \in 0..(h - 1) : p >= 1 => ReadWell(s, X[p])}
<1>1. h \in Int /\ h - 1 \in Nat /\ h - 1 >= 1
  <2>1. Len(pn) \in Nat /\ Len(pn) >= 1 /\ h = Len(pn) + 1
    BY NamedIs
  <2> HIDE DEF h
  <2> QED
    BY <2>1
<1>2. ASSUME NEW p \in 0..(h - 1), \A q \in (p + 1)..(h - 1) : q \in T
      PROVE  p \in T
  <2> SUFFICES ASSUME p >= 1 PROVE ReadWell(s, X[p])
    OBVIOUS
  <2>1. p \in 1..(h - 1)
    <3> HIDE DEF h
    <3> QED
      BY <1>1
  <2>2. \A q \in (p + 1)..(h - 1) : ReadWell(s, X[q])
    <3> SUFFICES ASSUME NEW q \in (p + 1)..(h - 1) PROVE ReadWell(s, X[q])
      OBVIOUS
    <3>1. q \in T
      BY <1>2
    <3>2. q >= 1
      <4> HIDE DEF h, T
      <4> QED
        BY <1>1
    <3> HIDE DEF h, X
    <3> QED
      BY <3>1, <3>2
  <2>3. FirstHyphen(s, p) = h \/ FirstHyphen(s, p) < h
    <3>1. NameBegins(s, p) \in 1..(h - 1) /\ FirstHyphen(s, p) \in (NameBegins(s, p) + 1)..h
      <4> HIDE DEF h
      <4> QED
        BY <2>1, MatchWithin DEF h
    <3> HIDE DEF h
    <3> QED
      BY <3>1, <1>1
  <2>4. CASE FirstHyphen(s, p) = h
    <3> HIDE DEF h
    <3> QED
      BY <2>1, <2>4, ReadAtThePackage DEF h
  <2>5. CASE FirstHyphen(s, p) < h
    <3> HIDE DEF h
    <3> QED
      BY <2>1, <2>2, <2>5, ReadBeforeThePackage DEF h
  <2> QED
    BY <2>3, <2>4, <2>5
<1>3. 0..(h - 1) \subseteq T
  <2> DEFINE b == h - 1
  <2>1. b \in Nat /\ \A p \in 0..b : (\A q \in (p + 1)..b : q \in T) => p \in T
    BY <1>1, <1>2
  <2> HIDE DEF b, T
  <2>2. 0..b \subseteq T
    BY <2>1, FromTheEnd
  <2> QED
    BY <2>2 DEF b
<1>4. 1 \in 0..(h - 1)
  <2> HIDE DEF h
  <2> QED
    BY <1>1
<1>5. 1 \in T
  <2> HIDE DEF h, T
  <2> QED
    BY <1>3, <1>4
<1> QED
  BY <1>5

\* The rest of a name behind its version is a revision.
LEMMA RevisionOf ==
    ASSUME NEW s \in Seq(TextChar), NEW e \in 1..(Len(s) + 1), RevisionEnd(s, e) = Len(s) + 1,
           NEW r, r = SubSeq(s, e + 2, Len(s))
    PROVE  SubSeq(s, e, Len(s)) = IF r = <<>> THEN <<>> ELSE <<"-", "r">> \o r
<1> DEFINE n == Len(s)
           w == SubSeq(s, e, n)
           d == <<"-", "r">>
<1>1. n \in Nat /\ e \in Int /\ n \in Int /\ e + 2 \in Int
  BY AtIs
<1>2. CASE RevisionEnd(s, e) = e
  <2>1. n < e /\ n < e + 2
    <3> HIDE DEF n
    <3> QED
      BY <1>1, <1>2 DEF n
  <2>2. w = <<>> /\ r = <<>>
    BY <2>1, <1>1, EmptySubSeq
  <2> QED
    BY <2>2
<1>3. CASE RevisionEnd(s, e) # e
  <2>1. /\ e \in 1..n /\ e + 1 \in 1..n /\ e + 2 \in 1..n
        /\ s[e] = "-" /\ s[e + 1] = "r"
    BY <1>3, RevisionEndRange
  <2>2. e + 2 \in 1..(n + 1) /\ n \in ((e + 2) - 1)..n /\ n \in (e - 1)..n
    <3> HIDE DEF n
    <3> QED
      BY <1>1, <2>1
  <2>3. /\ r \in Seq(TextChar) /\ Len(r) = n - (e + 2) + 1
        /\ \A i \in 1..(n - (e + 2) + 1) : r[i] = s[i + (e + 2) - 1]
    BY <2>2, SubSeqIs
  <2>4. /\ w \in Seq(TextChar) /\ Len(w) = n - e + 1
        /\ \A i \in 1..(n - e + 1) : w[i] = s[i + e - 1]
    BY <2>2, SubSeqIs
  <2>5. d \in Seq(TextChar) /\ Len(d) = 2 /\ d[1] = "-" /\ d[2] = "r"
    BY DEF TextChar, NameChar, WordChar, Letter
  <2> HIDE DEF d
  <2>6. /\ d \o r \in Seq(TextChar) /\ Len(d \o r) = Len(d) + Len(r)
        /\ \A i \in 1..Len(d) : (d \o r)[i] = d[i]
        /\ \A i \in 1..Len(r) : (d \o r)[i + Len(d)] = r[i]
    BY <2>3, <2>5, ConcatIs
  <2> DEFINE x == d \o r
  <2>7. /\ x \in Seq(TextChar) /\ Len(x) = 2 + Len(r)
        /\ x[1] = "-" /\ x[2] = "r"
        /\ \A i \in 1..Len(r) : x[i + 2] = r[i]
    <3>1. Len(r) \in Nat /\ Len(d \o r) = 2 + Len(r)
      BY <2>3, <2>5, <2>6
    <3>2. (d \o r)[1] = "-" /\ (d \o r)[2] = "r"
      <4>1. 1 \in 1..Len(d) /\ 2 \in 1..Len(d)
        BY <2>5
      <4> QED
        BY <4>1, <2>5, <2>6
    <3>3. \A i \in 1..Len(r) : (d \o r)[i + 2] = r[i]
      BY <2>5, <2>6
    <3> QED
      BY <2>6, <3>1, <3>2, <3>3
  <2> HIDE DEF n, w, x
  <2>8. Len(x) = Len(w)
    BY <2>3, <2>4, <2>7, <1>1
  <2>9. \A i \in 1..Len(w) : x[i] = w[i]
    <3> SUFFICES ASSUME NEW i \in 1..Len(w) PROVE x[i] = w[i]
      OBVIOUS
    <3>1. i \in 1..(n - e + 1) /\ w[i] = s[i + e - 1]
      BY <2>4
    <3>2. CASE i = 1
      BY <3>1, <3>2, <2>1, <2>7, <1>1
    <3>3. CASE i = 2
      <4>1. i + e - 1 = e + 1
        BY <3>3, <1>1
      <4> QED
        BY <4>1, <3>1, <3>3, <2>1, <2>7
    <3>4. CASE i # 1 /\ i # 2
      <4>1. i - 2 \in 1..Len(r) /\ (i - 2) + 2 = i
            /\ i - 2 \in 1..(n - (e + 2) + 1) /\ (i - 2) + (e + 2) - 1 = i + e - 1
        BY <3>1, <3>4, <2>3, <1>1
      <4>2. x[(i - 2) + 2] = r[i - 2]
        BY <4>1, <2>7
      <4>3. r[i - 2] = s[(i - 2) + (e + 2) - 1]
        BY <4>1, <2>3
      <4> QED
        BY <4>1, <4>2, <4>3, <3>1
    <3> QED
      BY <3>2, <3>3, <3>4
  <2>10. x = w
    BY <2>4, <2>7, <2>8, <2>9
  <2>11. r # <<>>
    <3>1. Len(r) # 0
      BY <2>1, <2>3, <1>1
    <3> QED
      BY <3>1
  <2> QED
    BY <2>10, <2>11 DEF x, d, w, n
<1> QED
  BY <1>2, <1>3

LEMMA NameIsReadLikePortage ==
    ASSUME NEW s, Named(s), NEW P, P = parse_ebuild_name(s), P.pn_inval = <<>>
    PROVE  /\ P.ver = PortageVersion(s)
           /\ ~ HasRevision(pn) =>
                 PortageRevision(s) = IF P.rev = <<>> THEN <<>> ELSE <<"-", "r">> \o P.rev
<1> DEFINE h == HyphenAt
           e == VersionTill(s)
           n == Len(s)
<1>1. P.ver = SubSeq(s, h + 1, e - 1) /\ (~ HasRevision(pn) => P.rev = SubSeq(s, e + 2, n))
  <2>1. ReadWell(s, P)
    BY NameIsReadWell DEF parse_ebuild_name
  <2> QED
    BY <2>1 DEF ReadWell
<1>2. /\ s \in Seq(TextChar) /\ e \in 1..(n + 1)
      /\ RevisionEnd(s, e) = n + 1
      /\ PortageVersion(s) = SubSeq(s, h + 1, e - 1)
      /\ PortageRevision(s) = SubSeq(s, e, n)
  BY NamedIs
<1>3. ASSUME ~ HasRevision(pn)
      PROVE  PortageRevision(s) = IF P.rev = <<>> THEN <<>> ELSE <<"-", "r">> \o P.rev
  <2> DEFINE r == P.rev
  <2>1. r = SubSeq(s, e + 2, n)
    BY <1>1, <1>3
  <2> HIDE DEF r, e
  <2>2. SubSeq(s, e, n) = IF r = <<>> THEN <<>> ELSE <<"-", "r">> \o r
    BY <2>1, <1>2, RevisionOf
  <2> QED
    BY <2>2, <1>2 DEF r
<1> HIDE DEF h, e
<1> QED
  BY <1>1, <1>2, <1>3

---------------------------------------------------------------------------
(* Numbers as texts.                                                       *)

Digits == Seq(Digit) \ {<<>>}

LEMMA DigitOf == \A i \in 0..9 : Ascii[i + 4] \in Digit
<1> SUFFICES ASSUME NEW i \in 0..9 PROVE Ascii[i + 4] \in Digit
  OBVIOUS
<1>1. i \in {0, 1, 2, 3, 4, 5, 6, 7, 8, 9}
  OBVIOUS
<1>2. /\ Ascii[4] = "0" /\ Ascii[5] = "1" /\ Ascii[6] = "2" /\ Ascii[7] = "3"
      /\ Ascii[8] = "4" /\ Ascii[9] = "5" /\ Ascii[10] = "6" /\ Ascii[11] = "7"
      /\ Ascii[12] = "8" /\ Ascii[13] = "9"
  BY DEF Ascii
<1> HIDE DEF Ascii
<1> QED
  BY <1>1, <1>2 DEF Digit

DecimalRule(f, m) ==
    IF m < 10 THEN <<Ascii[m + 4]>> ELSE Append(f[m \div 10], Ascii[(m % 10) + 4])

LEMMA DecimalStep ==
    ASSUME NEW m \in Nat, NEW f, m >= 10 => f[m \div 10] \in Digits
    PROVE  DecimalRule(f, m) \in Digits
<1>1. CASE m < 10
  <2>1. m \in 0..9
    BY <1>1
  <2>2. Ascii[m + 4] \in Digit
    BY <2>1, DigitOf
  <2>3. DecimalRule(f, m) = <<Ascii[m + 4]>>
    BY <1>1 DEF DecimalRule
  <2> DEFINE c == Ascii[m + 4]
  <2> HIDE DEF c
  <2>4. <<c>> \in Digits
    BY <2>2 DEF Digits, c
  <2> QED
    BY <2>3, <2>4 DEF c
<1>2. CASE m >= 10
  <2>1. m % 10 \in 0..9
    OBVIOUS
  <2> DEFINE c == Ascii[(m % 10) + 4]
             t == f[m \div 10]
  <2>2. c \in Digit
    <3> DEFINE k == m % 10
    <3> HIDE DEF k
    <3>1. Ascii[k + 4] \in Digit
      BY <2>1, DigitOf DEF k
    <3> QED
      BY <3>1 DEF k
  <2>3. DecimalRule(f, m) = Append(t, c)
    <3>1. ~ (m < 10)
      BY <1>2
    <3> QED
      BY <3>1 DEF DecimalRule
  <2>4. t \in Seq(Digit)
    BY <1>2 DEF Digits
  <2> HIDE DEF c, t
  <2>5. Append(t, c) \in Seq(Digit) /\ Append(t, c) # <<>>
    <3>1. Append(t, c) \in Seq(Digit)
      BY <2>2, <2>4
    <3>2. Len(Append(t, c)) = Len(t) + 1 /\ Len(t) \in Nat
      BY <2>2, <2>4
    <3> DEFINE x == Append(t, c)
    <3>3. Len(x) # 0
      BY <3>2
    <3> HIDE DEF x
    <3>4. x # <<>>
      BY <3>3
    <3> QED
      BY <3>1, <3>4 DEF x
  <2> QED
    BY <2>3, <2>5 DEF Digits
<1> QED
  BY <1>1, <1>2

LEMMA Tenth ==
    ASSUME NEW m \in Nat, m >= 10
    PROVE  m \div 10 \in 0..m /\ m \div 10 < m
  OBVIOUS

LEMMA DecimalDefined ==
    ASSUME NEW n \in Nat
    PROVE  \E f \in [0..n -> Digits] :
              Decimal(n) = f[n] /\ \A m \in 0..n : f[m] = DecimalRule(f, m)
<1> DEFINE D == 0..n
           V == Digits
           rank == [m \in D |-> m]
           Rule == [m \in D |-> [f \in [D -> V] |-> DecimalRule(f, m)]]
           Solves(g) == g = [m \in D |-> DecimalRule(g, m)]
           text == CHOOSE g : Solves(g)
<1>1. rank \in [D -> 0..n] /\ V # {}
  <2>1. <<Ascii[0 + 4]>> \in V
    BY DecimalStep DEF DecimalRule
  <2> QED
    BY <2>1
<1>2. ASSUME NEW m \in D, m >= 10
      PROVE  m \div 10 \in D /\ rank[m \div 10] < rank[m] /\ m \div 10 \in Nat
  <2>1. m \div 10 \in 0..m /\ m \div 10 < m
    BY <1>2, Tenth
  <2> DEFINE q == m \div 10
  <2> HIDE DEF q
  <2>2. q \in D /\ q < m /\ q \in Nat
    BY <2>1 DEF q
  <2> QED
    BY <2>2 DEF q
<1>3. ASSUME NEW m \in D, NEW f \in [D -> V]
      PROVE  DecimalRule(f, m) \in V
  <2>1. m >= 10 => f[m \div 10] \in V
    BY <1>2
  <2> QED
    BY <2>1, DecimalStep
<1>4. Rule \in [D -> [[D -> V] -> V]]
  BY <1>3
<1>5. ASSUME NEW m \in D, NEW f \in [D -> V], NEW g \in [D -> V],
             \A q \in D : rank[q] < rank[m] => f[q] = g[q]
      PROVE  Rule[m][f] = Rule[m][g]
  <2>1. m >= 10 => f[m \div 10] = g[m \div 10]
    BY <1>2, <1>5
  <2>2. m >= 10 \/ m < 10
    OBVIOUS
  <2>3. DecimalRule(f, m) = DecimalRule(g, m)
    BY <2>1, <2>2 DEF DecimalRule
  <2> QED
    BY <2>3
<1>6. PICK f \in [D -> V] : \A m \in D : f[m] = Rule[m][f]
  <2> HIDE DEF D, V, rank, Rule
  <2>1. Grounded(D, V, n, rank, Rule)
    BY <1>1, <1>4, <1>5 DEF Grounded
  <2> QED
    BY <2>1, RecursionHasASolution
<1>7. Solves(f)
  BY <1>6
<1>8. Decimal(n) = text[n]
  BY DEF Decimal, DecimalRule
<1>9. Solves(text)
  <2> HIDE DEF Solves
  <2> QED
    BY <1>7
<1> HIDE DEF text
<1>10. \A m \in D : text[m] = DecimalRule(text, m)
  BY <1>9
<1>11. D \subseteq {m \in D : text[m] \in V}
  <2> DEFINE T == {m \in D : text[m] \in V}
  <2>1. ASSUME NEW m \in D, \A q \in 0..(m - 1) : q \in T
        PROVE  m \in T
    <3>1. m >= 10 => text[m \div 10] \in V
      <4> SUFFICES ASSUME m >= 10 PROVE text[m \div 10] \in V
        OBVIOUS
      <4> DEFINE q == m \div 10
      <4>1. q < m /\ q \in Nat
        BY <1>2
      <4> HIDE DEF q
      <4>2. q \in 0..(m - 1)
        BY <4>1
      <4> QED
        BY <4>2, <2>1 DEF q
    <3>2. DecimalRule(text, m) \in V
      BY <3>1, DecimalStep
    <3> QED
      BY <3>2, <1>10
  <2> HIDE DEF T
  <2>2. 0..n \subseteq T
    BY <2>1, FromTheBeginning
  <2> QED
    BY <2>2 DEF T
<1>12. text \in [D -> V]
  <2>1. text = [m \in D |-> DecimalRule(text, m)] /\ \A m \in D : text[m] \in V
    BY <1>9, <1>11
  <2> HIDE DEF D, V
  <2> QED
    BY <2>1, <1>10
<1> QED
  BY <1>8, <1>10, <1>12

LEMMA DecimalIs ==
    ASSUME NEW n \in Nat
    PROVE  Decimal(n) \in Digits
<1>1. n \in 0..n
  OBVIOUS
<1> QED
  BY <1>1, DecimalDefined

\* Digits with single dots between them.
IsDotted(t) ==
    /\ t \in Seq(TextChar) /\ Len(t) >= 1
    /\ t[1] \in Digit /\ t[Len(t)] \in Digit
    /\ \A i \in 1..Len(t) :
          \/ t[i] \in Digit
          \/ t[i] = "." /\ i - 1 \in 1..Len(t) /\ t[i - 1] \in Digit
                        /\ i + 1 \in 1..Len(t) /\ t[i + 1] \in Digit

LEMMA DigitsAreDotted ==
    ASSUME NEW d \in Digits
    PROVE  IsDotted(d)
<1>1. Digit \subseteq TextChar
  BY DEF TextChar, NameChar, WordChar
<1>2. d \in Seq(TextChar) /\ d \in Seq(Digit) /\ Len(d) \in Nat /\ Len(d) # 0
  BY <1>1 DEF Digits
<1>3. 1 \in 1..Len(d) /\ Len(d) \in 1..Len(d) /\ Len(d) >= 1
  BY <1>2
<1>4. \A i \in 1..Len(d) : d[i] \in Digit
  BY <1>2
<1> QED
  BY <1>2, <1>3, <1>4 DEF IsDotted

LEMMA DottedOn ==
    ASSUME NEW t, IsDotted(t), NEW d \in Digits
    PROVE  IsDotted((t \o <<".">>) \o d)
<1> DEFINE dot == <<".">>
           a == t \o dot
           x == a \o d
           l == Len(t)
           k == Len(d)
<1>1. /\ t \in Seq(TextChar) /\ l >= 1 /\ l \in Nat
      /\ t[1] \in Digit /\ t[l] \in Digit
      /\ \A i \in 1..l :
            \/ t[i] \in Digit
            \/ t[i] = "." /\ i - 1 \in 1..l /\ t[i - 1] \in Digit
                          /\ i + 1 \in 1..l /\ t[i + 1] \in Digit
  BY AtIs DEF IsDotted
<1>2. /\ d \in Seq(TextChar) /\ k >= 1 /\ k \in Nat
      /\ \A i \in 1..k : d[i] \in Digit
  <2>1. d \in Seq(Digit)
    BY DEF Digits
  <2> QED
    BY <2>1, DigitsAreDotted, AtIs DEF IsDotted
<1>3. dot \in Seq(TextChar) /\ Len(dot) = 1 /\ dot[1] = "."
  BY DEF TextChar
<1> HIDE DEF dot
<1>4. /\ a \in Seq(TextChar) /\ Len(a) = l + Len(dot)
      /\ \A i \in 1..l : a[i] = t[i]
      /\ \A i \in 1..Len(dot) : a[i + l] = dot[i]
  BY <1>1, <1>3, ConcatIs
<1>5. Len(a) = l + 1 /\ a[l + 1] = "."
  <2>1. 1 \in 1..Len(dot) /\ 1 + l = l + 1
    <3> HIDE DEF l
    <3> QED
      BY <1>1, <1>3
  <2> HIDE DEF l, a
  <2> QED
    BY <2>1, <1>3, <1>4
<1> HIDE DEF a
<1>6. /\ x \in Seq(TextChar) /\ Len(x) = Len(a) + k
      /\ \A i \in 1..Len(a) : x[i] = a[i]
      /\ \A i \in 1..k : x[i + Len(a)] = d[i]
  BY <1>2, <1>4, ConcatIs
<1> HIDE DEF l, k, x
<1>7. /\ Len(x) = l + 1 + k
      /\ \A i \in 1..l : x[i] = t[i]
      /\ x[l + 1] = "."
  <2>1. \A i \in 1..l : i \in 1..Len(a) /\ x[i] = a[i]
    BY <1>1, <1>5, <1>6
  <2>2. l + 1 \in 1..Len(a)
    BY <1>1, <1>5
  <2> QED
    BY <2>1, <2>2, <1>4, <1>5, <1>6
<1>8. \A i \in (l + 2)..Len(x) : x[i] \in Digit
  <2> SUFFICES ASSUME NEW i \in (l + 2)..Len(x) PROVE x[i] \in Digit
    OBVIOUS
  <2>1. i - Len(a) \in 1..k /\ (i - Len(a)) + Len(a) = i
    BY <1>1, <1>2, <1>5, <1>7
  <2> QED
    BY <2>1, <1>2, <1>6
<1>9. 1 \in 1..l /\ l \in 1..l /\ Len(x) >= 1 /\ Len(x) \in (l + 2)..Len(x) /\ l + 2 \in (l + 2)..Len(x)
      /\ (l + 1) - 1 = l /\ (l + 1) + 1 = l + 2 /\ l \in 1..Len(x) /\ l + 2 \in 1..Len(x)
  BY <1>1, <1>2, <1>7
<1>10. ASSUME NEW i \in 1..Len(x)
       PROVE  \/ x[i] \in Digit
              \/ x[i] = "." /\ i - 1 \in 1..Len(x) /\ x[i - 1] \in Digit
                            /\ i + 1 \in 1..Len(x) /\ x[i + 1] \in Digit
  <2>1. i \in 1..l \/ i = l + 1 \/ i \in (l + 2)..Len(x)
    BY <1>1, <1>7
  <2>2. CASE i \in 1..l
    <3>1. CASE t[i] \in Digit
      BY <2>2, <3>1, <1>7
    <3>2. CASE t[i] \notin Digit
      <4>1. t[i] = "." /\ i - 1 \in 1..l /\ t[i - 1] \in Digit /\ i + 1 \in 1..l /\ t[i + 1] \in Digit
        BY <2>2, <3>2, <1>1
      <4>2. i - 1 \in 1..Len(x) /\ i + 1 \in 1..Len(x)
        BY <4>1, <1>1, <1>2, <1>7
      <4> QED
        BY <4>1, <4>2, <2>2, <1>7
    <3> QED
      BY <3>1, <3>2
  <2>3. CASE i = l + 1
    BY <2>3, <1>1, <1>7, <1>8, <1>9
  <2>4. CASE i \in (l + 2)..Len(x)
    BY <2>4, <1>8
  <2> QED
    BY <2>1, <2>2, <2>3, <2>4
<1>11. IsDotted(x)
  BY <1>1, <1>6, <1>7, <1>8, <1>9, <1>10 DEF IsDotted
<1> QED
  BY <1>11 DEF x, a, dot

DottedRule(n, f, i) ==
    IF i = 1 THEN Decimal(n[1]) ELSE f[i - 1] \o <<".">> \o Decimal(n[i])

DottedText == {t \in Seq(TextChar) : IsDotted(t)}

LEMMA DottedDefined ==
    ASSUME NEW n \in Seq(Nat), n # <<>>
    PROVE  \E f \in [1..Len(n) -> DottedText] :
              Dotted(n) = f[Len(n)] /\ \A i \in 1..Len(n) : f[i] = DottedRule(n, f, i)
<1> DEFINE b == Len(n)
           D == 1..b
           V == DottedText
           rank == [i \in D |-> i]
           Rule == [i \in D |-> [f \in [D -> V] |-> DottedRule(n, f, i)]]
           Solves(g) == g = [i \in D |-> DottedRule(n, g, i)]
           text == CHOOSE g : Solves(g)
<1>1. /\ b \in Nat /\ b >= 1 /\ rank \in [D -> 0..b]
      /\ \A i \in D : Decimal(n[i]) \in Digits /\ n[i] \in Nat
      /\ 1 \in D /\ b \in D
  <2>1. b \in Nat /\ b # 0
    OBVIOUS
  <2>2. \A i \in D : n[i] \in Nat
    OBVIOUS
  <2> HIDE DEF b
  <2> QED
    BY <2>1, <2>2, DecimalIs
<1>2. V # {}
  <2> DEFINE d == Decimal(n[1])
  <2>1. d \in Digits
    BY <1>1
  <2> HIDE DEF d
  <2>2. IsDotted(d)
    BY <2>1, DigitsAreDotted
  <2> QED
    BY <2>2 DEF IsDotted, DottedText
<1>3. ASSUME NEW i \in D, NEW f, i # 1 => f[i - 1] \in V
      PROVE  DottedRule(n, f, i) \in V
  <2>1. CASE i = 1
    <3> DEFINE d == Decimal(n[1])
    <3>1. d \in Digits
      BY <1>1
    <3> HIDE DEF d
    <3>2. IsDotted(d)
      BY <3>1, DigitsAreDotted
    <3> QED
      BY <2>1, <3>2 DEF IsDotted, DottedText, DottedRule, d
  <2>2. CASE i # 1
    <3> DEFINE d == Decimal(n[i])
               t == f[i - 1]
    <3>1. d \in Digits /\ IsDotted(t)
      BY <1>1, <1>3, <2>2 DEF DottedText
    <3>2. DottedRule(n, f, i) = (t \o <<".">>) \o d
      BY <2>2 DEF DottedRule
    <3> HIDE DEF d, t
    <3>3. IsDotted((t \o <<".">>) \o d)
      BY <3>1, DottedOn
    <3> QED
      BY <3>2, <3>3 DEF IsDotted, DottedText
  <2> QED
    BY <2>1, <2>2
<1>4. ASSUME NEW i \in D, i # 1 PROVE i - 1 \in D /\ rank[i - 1] < rank[i]
  <2> HIDE DEF b
  <2>1. i - 1 \in D /\ i - 1 < i
    BY <1>1, <1>4
  <2> QED
    BY <2>1
<1>5. Rule \in [D -> [[D -> V] -> V]]
  <2>1. ASSUME NEW i \in D, NEW f \in [D -> V] PROVE DottedRule(n, f, i) \in V
    <3>1. i # 1 => f[i - 1] \in V
      BY <1>4
    <3> QED
      BY <3>1, <1>3
  <2> QED
    BY <2>1
<1>6. ASSUME NEW i \in D, NEW f \in [D -> V], NEW g \in [D -> V],
             \A q \in D : rank[q] < rank[i] => f[q] = g[q]
      PROVE  Rule[i][f] = Rule[i][g]
  <2>1. DottedRule(n, f, i) = DottedRule(n, g, i)
    BY <1>4, <1>6 DEF DottedRule
  <2> QED
    BY <2>1
<1>7. PICK f \in [D -> V] : \A i \in D : f[i] = Rule[i][f]
  <2> HIDE DEF D, V, rank, Rule, b
  <2>1. Grounded(D, V, b, rank, Rule)
    BY <1>1, <1>2, <1>5, <1>6 DEF Grounded
  <2> QED
    BY <2>1, RecursionHasASolution
<1>8. Solves(f)
  BY <1>7
<1>9. Dotted(n) = text[b]
  BY DEF Dotted, DottedRule
<1>10. Solves(text)
  <2> HIDE DEF Solves
  <2> QED
    BY <1>8
<1> HIDE DEF text
<1>11. \A i \in D : text[i] = DottedRule(n, text, i)
  BY <1>10
<1>12. \A i \in 0..b : i = 0 \/ text[i] \in V
  <2> DEFINE T == {i \in 0..b : i = 0 \/ text[i] \in V}
  <2>1. ASSUME NEW i \in 0..b, \A q \in 0..(i - 1) : q \in T
        PROVE  i \in T
    <3> SUFFICES ASSUME i # 0 PROVE text[i] \in V
      OBVIOUS
    <3>1. i \in D
      <4> HIDE DEF b
      <4> QED
        BY <1>1
    <3>2. i # 1 => text[i - 1] \in V
      <4> SUFFICES ASSUME i # 1 PROVE text[i - 1] \in V
        OBVIOUS
      <4>1. i - 1 \in 0..(i - 1) /\ i - 1 # 0
        <5> HIDE DEF b
        <5> QED
          BY <3>1, <1>1
      <4>2. i - 1 \in T
        BY <4>1, <2>1
      <4> HIDE DEF V
      <4> QED
        BY <4>1, <4>2
    <3> QED
      BY <3>1, <3>2, <1>3, <1>11
  <2> HIDE DEF T, V
  <2>2. 0..b \subseteq T
    BY <2>1, <1>1, FromTheBeginning
  <2> QED
    BY <2>2 DEF T
<1>13. text \in [D -> V]
  <2>1. \A i \in D : i \in 0..b /\ i # 0
    <3> HIDE DEF b
    <3> QED
      BY <1>1
  <2>2. text = [i \in D |-> DottedRule(n, text, i)] /\ \A i \in D : text[i] \in V
    BY <2>1, <1>10, <1>12
  <2> HIDE DEF D, V
  <2> QED
    BY <2>2, <1>11
<1> QED
  BY <1>9, <1>11, <1>13

LEMMA DottedIs ==
    ASSUME NEW n \in Seq(Nat), n # <<>>
    PROVE  IsDotted(Dotted(n))
<1>1. Len(n) \in 1..Len(n)
  <2>1. Len(n) \in Nat /\ Len(n) # 0
    OBVIOUS
  <2> QED
    BY <2>1
<1> QED
  BY <1>1, DottedDefined DEF DottedText

\* A number is read to its end.
LEMMA DottedEnds ==
    ASSUME NEW s \in Seq(TextChar), NEW t, IsDotted(t), NEW o, Within(t, s, o),
           NEW e, e = o + Len(t) + 1, At(s, e) \notin Digit \cup {"."}
    PROVE  NumberEnd(s, o + 1) = e
<1> DEFINE p == o + 1
           l == Len(t)
           n == Len(s)
           q == NumberEnd(s, p)
<1>1. /\ t \in Seq(TextChar) /\ l \in Nat /\ l >= 1 /\ o \in Nat /\ n \in Nat /\ o + l <= n
      /\ \A i \in 1..l : t[i] = s[i + o]
      /\ t[1] \in Digit /\ t[l] \in Digit
      /\ \A i \in 1..l :
            \/ t[i] \in Digit
            \/ t[i] = "." /\ i - 1 \in 1..l /\ t[i - 1] \in Digit
                          /\ i + 1 \in 1..l /\ t[i + 1] \in Digit
  BY AtIs DEF IsDotted, Within
<1>2. p \in 1..(n + 1) /\ e \in p..(n + 1) /\ p \in Int /\ e \in Int
  <2> HIDE DEF n, l
  <2> QED
    BY <1>1 DEF l
<1>3. /\ q \in p..(n + 1)
      /\ \A i \in p..(q - 1) : NumberAt(s, p, i)
      /\ \A k \in p..(n + 1) : (\A i \in p..(k - 1) : NumberAt(s, p, i)) => k <= q
  <2> HIDE DEF p
  <2> QED
    BY <1>2, NumberEndIs
<1>4. ASSUME NEW i \in p..(e - 1) PROVE NumberAt(s, p, i)
  <2> DEFINE k == i - o
  <2>1. k \in 1..l /\ k + o = i /\ i \in Int /\ k \in Int
    <3> HIDE DEF l
    <3> QED
      BY <1>1 DEF l
  <2>2. t[k] = s[i]
    <3> HIDE DEF k, l
    <3> QED
      BY <2>1, <1>1
  <2>3. CASE t[k] \in Digit
    BY <2>2, <2>3 DEF NumberAt
  <2>4. CASE t[k] \notin Digit
    <3>1. t[k] = "." /\ k - 1 \in 1..l /\ t[k - 1] \in Digit /\ k + 1 \in 1..l /\ t[k + 1] \in Digit
      <4> HIDE DEF k, l
      <4> QED
        BY <2>1, <2>4, <1>1
    <3>2. (k - 1) + o = i - 1 /\ (k + 1) + o = i + 1 /\ i + 1 \in 1..n /\ i > p
      <4> HIDE DEF n, l
      <4> QED
        BY <3>1, <1>1
    <3>3. s[i - 1] \in Digit /\ s[i + 1] \in Digit
      <4>1. t[k - 1] = s[(k - 1) + o] /\ t[k + 1] = s[(k + 1) + o]
        <5> HIDE DEF k, l
        <5> QED
          BY <3>1, <1>1
      <4> HIDE DEF k
      <4> QED
        BY <4>1, <3>1, <3>2
    <3>4. At(s, i + 1) = s[i + 1]
      BY <3>2, AtIs
    <3> QED
      BY <2>2, <3>1, <3>2, <3>3, <3>4 DEF NumberAt
  <2> QED
    BY <2>3, <2>4
<1>5. e <= q
  <2> HIDE DEF q, p, n
  <2> QED
    BY <1>2, <1>3, <1>4
<1>6. q <= e
  <2> SUFFICES ASSUME q > e PROVE FALSE
    <3> HIDE DEF q, p, n
    <3> QED
      BY <1>2, <1>3
  <2>1. e \in p..(q - 1) /\ e \in 1..n
    <3> HIDE DEF q, n
    <3> QED
      BY <1>1, <1>2, <1>3
  <2>2. NumberAt(s, p, e) /\ At(s, e) = s[e]
    <3> HIDE DEF q, p
    <3> QED
      BY <2>1, <1>3, AtIs
  <2> QED
    BY <2>2 DEF NumberAt
<1>7. q = e
  <2> HIDE DEF q, p, n
  <2> QED
    BY <1>2, <1>3, <1>5, <1>6
<1> QED
  BY <1>7

LEMMA DottedIsVersion ==
    ASSUME NEW t, IsDotted(t)
    PROVE  t \in Seq(TextChar) /\ IsVersion(t) /\ NumberEnd(t, 1) = Len(t) + 1
<1> DEFINE n == Len(t)
           e == 0 + n + 1
<1>1. t \in Seq(TextChar) /\ n \in Nat /\ n >= 1 /\ t[1] \in Digit
  BY AtIs DEF IsDotted
<1>2. e = n + 1 /\ 0 + 1 = 1 /\ e \in Int /\ e \notin 1..n /\ 1 \in 1..(n + 1)
  <2> HIDE DEF n
  <2> QED
    BY <1>1 DEF e
<1>3. Within(t, t, 0)
  <2>1. 0 + n <= n /\ \A i \in 1..n : i + 0 = i
    <3> HIDE DEF n
    <3> QED
      BY <1>1
  <2> QED
    BY <2>1 DEF Within
<1>4. At(t, e) \notin Digit \cup {"."}
  <2>1. At(t, e) = "end"
    <3> HIDE DEF e
    <3> QED
      BY <1>1, <1>2, AtIs
  <2> QED
    BY <2>1, NoDigit
<1>5. NumberEnd(t, 1) = e
  <2>1. NumberEnd(t, 0 + 1) = e
    <3> HIDE DEF e
    <3> QED
      BY <1>1, <1>3, <1>4, DottedEnds DEF e
  <2> QED
    BY <2>1, <1>2
<1>6. /\ VersionEnd(t, 1) \in 1..(n + 1)
      /\ NumberEnd(t, 1) \in 1..VersionEnd(t, 1)
  BY <1>1, <1>2, VersionEndRange
<1>7. VersionEnd(t, 1) = n + 1
  <2> HIDE DEF n, e
  <2> QED
    BY <1>1, <1>2, <1>5, <1>6
<1>8. t # <<>>
  BY <1>1
<1> QED
  BY <1>1, <1>2, <1>5, <1>7, <1>8 DEF IsVersion

---------------------------------------------------------------------------
(* Replaced texts.                                                         *)

LEMMA ReplacedIsText ==
    ASSUME NEW s \in Seq(TextChar), NEW w \in Seq(TextChar), NEW v \in Seq(TextChar), w # <<>>
    PROVE  Replaced(s, w, v) \in Seq(TextChar)
<1>1. Len(s) \in Nat /\ 0 \in 0..Len(s) /\ Len(s) \in 0..Len(s)
  OBVIOUS
<1>2. Strings!ReplacedFrom(s, w, v) \in [0..Len(s) -> Seq(TextChar)]
  BY Strings!FromTheLeftDefined
<1>3. Strings!ReplacedUpTo(s, w, v) \in [0..Len(s) -> Seq(TextChar)]
  BY Strings!FromTheRightDefined
<1>4. ReplacedFrom(s, w, v) = Strings!ReplacedFrom(s, w, v)
  BY DEF ReplacedFrom, Strings!ReplacedFrom, OccursAt, Strings!OccursAt
<1>5. ReplacedUpTo(s, w, v) = Strings!ReplacedUpTo(s, w, v)
  BY DEF ReplacedUpTo, Strings!ReplacedUpTo, OccursAt, Strings!OccursAt
<1>6. ReplacedFrom(s, w, v)[0] \in Seq(TextChar)
  BY <1>1, <1>2, <1>4
<1>7. ReplacedUpTo(s, w, v)[Len(s)] \in Seq(TextChar)
  BY <1>1, <1>3, <1>5
<1> QED
  BY <1>6, <1>7 DEF Replaced

---------------------------------------------------------------------------
(* What Replaced makes of a text.                                          *)

\* The equations of ReplacedFrom,
ByTheLeft(s, w, v, f) ==
    /\ f \in [0..Len(s) -> Seq(TextChar)]
    /\ f[Len(s)] = <<>>
    /\ \A p \in 0..(Len(s) - 1) :
          \/ OccursAt(s, w, p) /\ p + Len(w) \in (p + 1)..Len(s) /\ f[p] = v \o f[p + Len(w)]
          \/ ~ OccursAt(s, w, p) /\ f[p] = <<s[p + 1]>> \o f[p + 1]

\* and of ReplacedUpTo.
ByTheRight(s, w, v, f) ==
    /\ f \in [0..Len(s) -> Seq(TextChar)]
    /\ f[0] = <<>>
    /\ \A p \in 1..Len(s) :
          \/ /\ p - Len(w) \in 0..(p - 1) /\ OccursAt(s, w, p - Len(w))
             /\ f[p] = f[p - Len(w)] \o v
          \/ /\ ~ (p - Len(w) >= 0 /\ OccursAt(s, w, p - Len(w)))
             /\ f[p] = Append(f[p - 1], s[p])

LEMMA FromTheLeftIs ==
    ASSUME NEW s \in Seq(TextChar), NEW w \in Seq(TextChar), NEW v \in Seq(TextChar), w # <<>>,
           NEW f, f = ReplacedFrom(s, w, v)
    PROVE  ByTheLeft(s, w, v, f)
<1>1. Len(s) \in Nat /\ Len(w) \in Nat /\ Len(w) # 0
  BY EmptySeq
<1>2. f = Strings!ReplacedFrom(s, w, v)
  BY DEF ReplacedFrom, Strings!ReplacedFrom, OccursAt, Strings!OccursAt
<1>3. /\ f \in [0..Len(s) -> Seq(TextChar)]
      /\ \A p \in 0..Len(s) : f[p] = Strings!LeftRule(s, w, v, f, p)
  BY <1>2, Strings!FromTheLeftDefined
<1>4. \A p \in 0..Len(s) :
         f[p] = IF p = Len(s) THEN <<>>
                ELSE IF OccursAt(s, w, p) THEN v \o f[p + Len(w)]
                ELSE <<s[p + 1]>> \o f[p + 1]
  BY <1>3 DEF Strings!LeftRule, OccursAt, Strings!OccursAt
<1>5. f[Len(s)] = <<>>
  <2>1. Len(s) \in 0..Len(s)
    BY <1>1
  <2> QED
    BY <2>1, <1>4
<1>6. ASSUME NEW p \in 0..(Len(s) - 1)
      PROVE  \/ OccursAt(s, w, p) /\ p + Len(w) \in (p + 1)..Len(s) /\ f[p] = v \o f[p + Len(w)]
             \/ ~ OccursAt(s, w, p) /\ f[p] = <<s[p + 1]>> \o f[p + 1]
  <2>1. p \in 0..Len(s) /\ p # Len(s)
    BY <1>1
  <2>2. OccursAt(s, w, p) => p + Len(w) \in (p + 1)..Len(s)
    BY <1>1 DEF OccursAt
  <2> QED
    BY <2>1, <2>2, <1>4
<1> QED
  BY <1>3, <1>5, <1>6 DEF ByTheLeft

LEMMA FromTheRightIs ==
    ASSUME NEW s \in Seq(TextChar), NEW w \in Seq(TextChar), NEW v \in Seq(TextChar), w # <<>>,
           NEW f, f = ReplacedUpTo(s, w, v)
    PROVE  ByTheRight(s, w, v, f)
<1>1. Len(s) \in Nat /\ Len(w) \in Nat /\ Len(w) # 0
  BY EmptySeq
<1>2. f = Strings!ReplacedUpTo(s, w, v)
  BY DEF ReplacedUpTo, Strings!ReplacedUpTo, OccursAt, Strings!OccursAt
<1>3. /\ f \in [0..Len(s) -> Seq(TextChar)]
      /\ \A p \in 0..Len(s) : f[p] = Strings!RightRule(s, w, v, f, p)
  BY <1>2, Strings!FromTheRightDefined
<1>4. \A p \in 0..Len(s) :
         f[p] = IF p = 0 THEN <<>>
                ELSE IF p >= Len(w) /\ OccursAt(s, w, p - Len(w)) THEN f[p - Len(w)] \o v
                ELSE Append(f[p - 1], s[p])
  BY <1>3 DEF Strings!RightRule, OccursAt, Strings!OccursAt
<1>5. f[0] = <<>>
  BY <1>1, <1>4
<1>6. ASSUME NEW p \in 1..Len(s)
      PROVE  \/ /\ p - Len(w) \in 0..(p - 1) /\ OccursAt(s, w, p - Len(w))
                /\ f[p] = f[p - Len(w)] \o v
             \/ /\ ~ (p - Len(w) >= 0 /\ OccursAt(s, w, p - Len(w)))
                /\ f[p] = Append(f[p - 1], s[p])
  <2>1. p \in 0..Len(s) /\ p # 0
    BY <1>1
  <2>2. /\ p >= Len(w) <=> p - Len(w) >= 0
        /\ p >= Len(w) => p - Len(w) \in 0..(p - 1)
    BY <1>1
  <2> QED
    BY <2>1, <2>2, <1>4
<1> QED
  BY <1>3, <1>5, <1>6 DEF ByTheRight

\* What has two ends of a text, its characters and the new text where the old one
\* is, and whatever they make together, has what becomes of the text.
Pieces(s, w, v, C) ==
    /\ \A p \in 0..Len(s) : <<p, p, <<>>>> \in C
    /\ \A p \in 1..Len(s) : <<p - 1, p, <<s[p]>>>> \in C
    /\ \A p \in 0..Len(s) : OccursAt(s, w, p) => <<p, p + Len(w), v>> \in C
    /\ \A p, q, r \in 0..Len(s) : \A a, b \in Seq(TextChar) :
          p <= q /\ q <= r /\ <<p, q, a>> \in C /\ <<q, r, b>> \in C => <<p, r, a \o b>> \in C

LEMMA ReplacedByPieces ==
    ASSUME NEW s \in Seq(TextChar), NEW w \in Seq(TextChar), NEW v \in Seq(TextChar), w # <<>>,
           NEW C, Pieces(s, w, v, C)
    PROVE  <<0, Len(s), Replaced(s, w, v)>> \in C
<1> DEFINE n == Len(s)
<1>1. n \in Nat /\ Len(w) \in Nat
  OBVIOUS
<1>2. ASSUME NEW f, f = ReplacedFrom(s, w, v)
      PROVE  <<0, n, f[0]>> \in C
  <2>1. /\ f \in [0..n -> Seq(TextChar)]
        /\ f[n] = <<>>
        /\ \A p \in 0..(n - 1) :
              \/ OccursAt(s, w, p) /\ p + Len(w) \in (p + 1)..n /\ f[p] = v \o f[p + Len(w)]
              \/ ~ OccursAt(s, w, p) /\ f[p] = <<s[p + 1]>> \o f[p + 1]
    <3>1. ByTheLeft(s, w, v, f)
      BY <1>2, FromTheLeftIs
    <3> QED
      BY <3>1 DEF ByTheLeft
  <2> DEFINE T == {p \in 0..n : <<p, n, f[p]>> \in C}
  <2>2. ASSUME NEW p \in 0..n, \A q \in (p + 1)..n : q \in T
        PROVE  p \in T
    <3>1. CASE p = n
      BY <3>1, <2>1, <1>1 DEF Pieces
    <3>2. CASE p # n
      <4>1. p \in 0..(n - 1) /\ p + 1 \in (p + 1)..n /\ p + 1 \in 1..n /\ n \in 0..n
            /\ p + 1 \in 0..n /\ p <= p + 1 /\ p + 1 <= n /\ (p + 1) - 1 = p
        BY <3>2, <1>1
      <4> HIDE DEF n
      <4>2. CASE OccursAt(s, w, p) /\ p + Len(w) \in (p + 1)..n /\ f[p] = v \o f[p + Len(w)]
        <5>1. p + Len(w) \in 0..n /\ p <= p + Len(w) /\ p + Len(w) <= n
          BY <4>2, <1>1
        <5>2. <<p, p + Len(w), v>> \in C
          BY <4>2 DEF Pieces, n
        <5>3. <<p + Len(w), n, f[p + Len(w)]>> \in C /\ f[p + Len(w)] \in Seq(TextChar)
          BY <4>2, <5>1, <2>2, <2>1
        <5>4. <<p, n, v \o f[p + Len(w)]>> \in C
          BY <4>1, <5>1, <5>2, <5>3 DEF Pieces, n
        <5> QED
          BY <5>4, <4>2
      <4>3. CASE f[p] = <<s[p + 1]>> \o f[p + 1]
        <5>1. <<p, p + 1, <<s[p + 1]>>>> \in C
          BY <4>1 DEF Pieces, n
        <5>2. <<p + 1, n, f[p + 1]>> \in C /\ f[p + 1] \in Seq(TextChar)
          BY <4>1, <2>2, <2>1
        <5>3. <<s[p + 1]>> \in Seq(TextChar)
          <6>1. s[p + 1] \in TextChar
            BY <4>1, ElementOfSeq DEF n
          <6> QED
            BY <6>1
        <5>4. <<p, n, <<s[p + 1]>> \o f[p + 1]>> \in C
          BY <4>1, <5>1, <5>2, <5>3 DEF Pieces, n
        <5> QED
          BY <5>4, <4>3
      <4> QED
        BY <4>1, <4>2, <4>3, <2>1
    <3> QED
      BY <3>1, <3>2
  <2>3. 0..n \subseteq T
    <3> HIDE DEF T, n
    <3> QED
      BY <2>2, <1>1, FromTheEnd
  <2> QED
    BY <2>3, <1>1
<1>3. ASSUME NEW f, f = ReplacedUpTo(s, w, v)
      PROVE  <<0, n, f[n]>> \in C
  <2>1. /\ f \in [0..n -> Seq(TextChar)]
        /\ f[0] = <<>>
        /\ \A p \in 1..n :
              \/ /\ p - Len(w) \in 0..(p - 1) /\ OccursAt(s, w, p - Len(w))
                 /\ f[p] = f[p - Len(w)] \o v
              \/ f[p] = Append(f[p - 1], s[p])
    <3>1. ByTheRight(s, w, v, f)
      BY <1>3, FromTheRightIs
    <3> QED
      BY <3>1 DEF ByTheRight
  <2> DEFINE T == {p \in 0..n : <<0, p, f[p]>> \in C}
  <2>2. ASSUME NEW p \in 0..n, \A q \in 0..(p - 1) : q \in T
        PROVE  p \in T
    <3>1. CASE p = 0
      BY <3>1, <2>1, <1>1 DEF Pieces
    <3>2. CASE p # 0
      <4>1. p \in 1..n /\ p - 1 \in 0..(p - 1) /\ p - 1 \in 0..n /\ 0 \in 0..n
            /\ 0 <= p - 1 /\ p - 1 <= p
        BY <3>2, <1>1
      <4> HIDE DEF n
      <4>2. CASE /\ p - Len(w) \in 0..(p - 1) /\ OccursAt(s, w, p - Len(w))
                 /\ f[p] = f[p - Len(w)] \o v
        <5> DEFINE q == p - Len(w)
        <5>1. q \in 0..n /\ 0 <= q /\ q <= p /\ q + Len(w) = p
          BY <4>2, <1>1
        <5>2. OccursAt(s, w, q) /\ q \in 0..(p - 1) /\ f[p] = f[q] \o v
          BY <4>2
        <5> HIDE DEF q
        <5>3. <<q, p, v>> \in C
          <6>1. <<q, q + Len(w), v>> \in C
            BY <5>1, <5>2 DEF Pieces, n
          <6> QED
            BY <6>1, <5>1
        <5>4. <<0, q, f[q]>> \in C /\ f[q] \in Seq(TextChar)
          BY <5>1, <5>2, <2>2, <2>1
        <5>5. <<0, p, f[q] \o v>> \in C
          BY <4>1, <5>1, <5>3, <5>4 DEF Pieces, n
        <5> QED
          BY <5>5, <5>2
      <4>3. CASE f[p] = Append(f[p - 1], s[p])
        <5>1. <<p - 1, p, <<s[p]>>>> \in C
          BY <4>1 DEF Pieces, n
        <5>2. <<0, p - 1, f[p - 1]>> \in C /\ f[p - 1] \in Seq(TextChar)
          BY <4>1, <2>2, <2>1
        <5>3. s[p] \in TextChar
          BY <4>1, ElementOfSeq DEF n
        <5>4. <<s[p]>> \in Seq(TextChar)
          BY <5>3
        <5>5. <<0, p, f[p - 1] \o <<s[p]>>>> \in C
          BY <4>1, <5>1, <5>2, <5>4 DEF Pieces, n
        <5>6. Append(f[p - 1], s[p]) = f[p - 1] \o <<s[p]>>
          BY <5>2, <5>3, AppendIsConcat
        <5> QED
          BY <5>5, <5>6, <4>3
      <4> QED
        BY <4>1, <4>2, <4>3, <2>1
    <3> QED
      BY <3>1, <3>2
  <2>3. 0..n \subseteq T
    <3> HIDE DEF T, n
    <3> QED
      BY <2>2, <1>1, FromTheBeginning
  <2> QED
    BY <2>3, <1>1
<1> QED
  BY <1>2, <1>3 DEF Replaced

\* Two texts with a hyphen between them.
Hyphened(x, y, z) ==
    /\ z \in Seq(TextChar)
    /\ Len(z) = Len(x) + 1 + Len(y)
    /\ \A i \in 1..Len(x) : z[i] = x[i]
    /\ z[Len(x) + 1] = "-"
    /\ \A i \in 1..Len(y) : z[i + (Len(x) + 1)] = y[i]

WithoutHyphen(w) == \A i \in 1..Len(w) : w[i] # "-"

\* A text without a hyphen occurs before the hyphen or behind it.
LEMMA OccursBesideHyphen ==
    ASSUME NEW x \in Seq(TextChar), NEW y \in Seq(TextChar), NEW z, Hyphened(x, y, z),
           NEW w \in Seq(TextChar), w # <<>>, WithoutHyphen(w)
    PROVE  /\ \A p \in 0..(Len(x) - 1) : OccursAt(z, w, p) <=> OccursAt(x, w, p)
           /\ ~ OccursAt(z, w, Len(x))
           /\ \A p \in 0..Len(y) : OccursAt(z, w, p + (Len(x) + 1)) <=> OccursAt(y, w, p)
           /\ \A p \in 0..Len(x) : p + Len(w) > Len(x) => ~ OccursAt(z, w, p)
<1> DEFINE l == Len(x)
           m == Len(y)
           n == Len(z)
           k == Len(w)
<1>1. l \in Nat /\ m \in Nat /\ n \in Nat /\ k \in Nat /\ k # 0 /\ n = l + 1 + m
  BY EmptySeq DEF Hyphened
<1>2. ASSUME NEW p \in 0..l, p + k > l PROVE ~ OccursAt(z, w, p)
  <2>1. l + 1 - p \in 1..k /\ p + (l + 1 - p) = l + 1
    BY <1>1, <1>2
  <2>2. z[l + 1] = "-"
    BY DEF Hyphened
  <2>3. w[l + 1 - p] # "-"
    BY <2>1 DEF WithoutHyphen
  <2> QED
    BY <2>1, <2>2, <2>3 DEF OccursAt
<1>3. ASSUME NEW p \in 0..l, p + k <= l PROVE OccursAt(z, w, p) <=> OccursAt(x, w, p)
  <2>1. p + k <= n
    BY <1>1, <1>3
  <2>2. \A i \in 1..k : p + i \in 1..l
    BY <1>1, <1>3
  <2>3. \A i \in 1..k : z[p + i] = x[p + i]
    BY <2>2 DEF Hyphened
  <2> QED
    BY <2>1, <2>3, <1>3 DEF OccursAt
<1>4. ASSUME NEW p \in 0..m PROVE OccursAt(z, w, p + (l + 1)) <=> OccursAt(y, w, p)
  <2>1. (p + (l + 1)) + k <= n <=> p + k <= m
    BY <1>1
  <2>2. CASE p + k <= m
    <3>1. \A i \in 1..k : p + i \in 1..m /\ (p + (l + 1)) + i = (p + i) + (l + 1)
      BY <1>1, <2>2
    <3>2. \A i \in 1..k : z[(p + (l + 1)) + i] = y[p + i]
      BY <3>1 DEF Hyphened
    <3> QED
      BY <3>2, <2>1, <2>2 DEF OccursAt
  <2>3. CASE ~ (p + k <= m)
    BY <2>3, <2>1 DEF OccursAt
  <2> QED
    BY <2>2, <2>3
<1>5. ASSUME NEW p \in 0..(l - 1) PROVE OccursAt(z, w, p) <=> OccursAt(x, w, p)
  <2>1. p \in 0..l /\ p \in Int /\ (p + k > l \/ p + k <= l)
    BY <1>1
  <2>2. CASE p + k > l
    <3>1. ~ (p + k <= l)
      BY <1>1, <2>1, <2>2
    <3>2. ~ OccursAt(x, w, p)
      BY <3>1 DEF OccursAt
    <3> QED
      BY <3>2, <2>1, <2>2, <1>2
  <2>3. CASE p + k <= l
    BY <2>1, <2>3, <1>3
  <2> QED
    BY <2>1, <2>2, <2>3
<1>6. ~ OccursAt(z, w, l)
  BY <1>1, <1>2
<1> QED
  BY <1>2, <1>4, <1>5, <1>6

\* In the second of two texts, which is the first with a hyphen and more behind it, a
\* text without a hyphen is replaced.
Splitting(x, y, z, w, v) ==
    /\ x \in Seq(TextChar) /\ y \in Seq(TextChar) /\ Hyphened(x, y, z)
    /\ w \in Seq(TextChar) /\ w # <<>> /\ WithoutHyphen(w)
    /\ v \in Seq(TextChar)

\* Then each side of the hyphen is replaced for itself, from the left
LeftSplit(x, y, z, w, v) ==
    ReplacedFrom(z, w, v)[0] =
        (ReplacedFrom(x, w, v)[0] \o <<"-">>) \o ReplacedFrom(y, w, v)[0]

LEMMA LeftSplits ==
    ASSUME NEW x, NEW y, NEW z, NEW w, NEW v, Splitting(x, y, z, w, v)
    PROVE  LeftSplit(x, y, z, w, v)
<1> DEFINE l == Len(x)
           m == Len(y)
           n == Len(z)
           k == Len(w)
           F == ReplacedFrom(z, w, v)
           X == ReplacedFrom(x, w, v)
           Y == ReplacedFrom(y, w, v)
           h == <<"-">>
<1>a. /\ x \in Seq(TextChar) /\ y \in Seq(TextChar) /\ Hyphened(x, y, z)
      /\ w \in Seq(TextChar) /\ w # <<>> /\ WithoutHyphen(w)
      /\ v \in Seq(TextChar)
  BY DEF Splitting
<1> USE <1>a
<1>1. /\ l \in Nat /\ m \in Nat /\ n \in Nat /\ k \in Nat /\ k # 0 /\ n = l + 1 + m
      /\ z \in Seq(TextChar) /\ z[l + 1] = "-" /\ \A i \in 1..l : z[i] = x[i]
      /\ \A i \in 1..m : z[i + (l + 1)] = y[i]
  BY EmptySeq DEF Hyphened
<1>2. /\ \A p \in 0..(l - 1) : OccursAt(z, w, p) <=> OccursAt(x, w, p)
      /\ ~ OccursAt(z, w, l)
      /\ \A p \in 0..m : OccursAt(z, w, p + (l + 1)) <=> OccursAt(y, w, p)
  BY OccursBesideHyphen
<1>3. ByTheLeft(z, w, v, F) /\ ByTheLeft(x, w, v, X) /\ ByTheLeft(y, w, v, Y)
  BY <1>1, FromTheLeftIs
<1> HIDE DEF F, X, Y
<1>4. /\ F \in [0..n -> Seq(TextChar)] /\ F[n] = <<>>
      /\ \A p \in 0..(n - 1) :
            \/ OccursAt(z, w, p) /\ p + k \in (p + 1)..n /\ F[p] = v \o F[p + k]
            \/ ~ OccursAt(z, w, p) /\ F[p] = <<z[p + 1]>> \o F[p + 1]
  BY <1>3 DEF ByTheLeft
<1>5. /\ X \in [0..l -> Seq(TextChar)] /\ X[l] = <<>>
      /\ \A p \in 0..(l - 1) :
            \/ OccursAt(x, w, p) /\ p + k \in (p + 1)..l /\ X[p] = v \o X[p + k]
            \/ ~ OccursAt(x, w, p) /\ X[p] = <<x[p + 1]>> \o X[p + 1]
  BY <1>3 DEF ByTheLeft
<1>6. /\ Y \in [0..m -> Seq(TextChar)] /\ Y[m] = <<>>
      /\ \A p \in 0..(m - 1) :
            \/ OccursAt(y, w, p) /\ p + k \in (p + 1)..m /\ Y[p] = v \o Y[p + k]
            \/ ~ OccursAt(y, w, p) /\ Y[p] = <<y[p + 1]>> \o Y[p + 1]
  BY <1>3 DEF ByTheLeft
<1> DEFINE T == {p \in 0..m : F[p + (l + 1)] = Y[p]}
<1>7. ASSUME NEW p \in 0..m, \A q \in (p + 1)..m : q \in T
      PROVE  p \in T
  <2>1. CASE p = m
    <3>1. p + (l + 1) = n
      BY <2>1, <1>1
    <3> QED
      BY <3>1, <2>1, <1>4, <1>6
  <2>2. CASE p # m
    <3>1. /\ p \in 0..(m - 1) /\ p + (l + 1) \in 0..(n - 1)
          /\ p + 1 \in (p + 1)..m /\ p + 1 \in 1..m
          /\ (p + (l + 1)) + 1 = (p + 1) + (l + 1)
          /\ (p + (l + 1)) + k = (p + k) + (l + 1)
      BY <2>2, <1>1
    <3> DEFINE q == p + (l + 1)
    <3> HIDE DEF q, l, m, n, k
    <3>2. OccursAt(z, w, q) <=> OccursAt(y, w, p)
      BY <1>2 DEF q
    <3>3. CASE OccursAt(y, w, p)
      <4>1. p + k \in (p + 1)..m /\ Y[p] = v \o Y[p + k]
        BY <3>1, <3>3, <1>6
      <4>2. F[q] = v \o F[q + k]
        BY <3>1, <3>2, <3>3, <1>4 DEF q
      <4>3. F[q + k] = Y[p + k]
        BY <4>1, <3>1, <1>7 DEF q
      <4> QED
        BY <4>1, <4>2, <4>3 DEF q
    <3>4. CASE ~ OccursAt(y, w, p)
      <4>1. Y[p] = <<y[p + 1]>> \o Y[p + 1]
        BY <3>1, <3>4, <1>6
      <4>2. F[q] = <<z[q + 1]>> \o F[q + 1]
        BY <3>1, <3>2, <3>4, <1>4 DEF q
      <4>3. F[q + 1] = Y[p + 1] /\ z[q + 1] = y[p + 1]
        BY <3>1, <1>1, <1>7 DEF q
      <4> QED
        BY <4>1, <4>2, <4>3 DEF q
    <3> QED
      BY <3>3, <3>4
  <2> QED
    BY <2>1, <2>2
<1>8. F[l + 1] = Y[0]
  <2>1. 0..m \subseteq T
    <3> HIDE DEF T, m
    <3> QED
      BY <1>1, <1>7, FromTheEnd
  <2>2. 0 \in 0..m /\ 0 + (l + 1) = l + 1
    BY <1>1
  <2> HIDE DEF m, l
  <2> QED
    BY <2>1, <2>2
<1>9. F[l] = h \o Y[0]
  <2>1. l \in 0..(n - 1)
    BY <1>1
  <2> HIDE DEF l, n, k
  <2> QED
    BY <2>1, <1>1, <1>2, <1>4, <1>8
<1> DEFINE e == h \o Y[0]
           D == {p \in 0..l : F[p] = X[p] \o e}
<1>10. h \in Seq(TextChar) /\ Y[0] \in Seq(TextChar) /\ e \in Seq(TextChar)
  <2>1. "-" \in TextChar
    BY DEF TextChar, NameChar
  <2>2. h \in Seq(TextChar)
    BY <2>1
  <2>3. Y[0] \in Seq(TextChar)
    <3>1. 0 \in 0..m
      BY <1>1
    <3> HIDE DEF m
    <3> QED
      BY <3>1, <1>6
  <2> QED
    BY <2>2, <2>3
<1> HIDE DEF h
<1>11. ASSUME NEW p \in 0..l, \A q \in (p + 1)..l : q \in D
       PROVE  p \in D
  <2> HIDE DEF e
  <2>1. CASE p = l
    <3>1. X[p] \o e = e
      BY <2>1, <1>5, <1>10
    <3> QED
      BY <3>1, <2>1, <1>9 DEF e
  <2>2. CASE p # l
    <3>1. /\ p \in 0..(l - 1) /\ p \in 0..(n - 1)
          /\ p + 1 \in (p + 1)..l /\ p + 1 \in 1..l /\ p + 1 \in 0..l
      BY <2>2, <1>1
    <3> HIDE DEF l, m, n, k
    <3>2. OccursAt(z, w, p) <=> OccursAt(x, w, p)
      BY <3>1, <1>2
    <3>3. CASE OccursAt(x, w, p)
      <4>1. p + k \in (p + 1)..l /\ X[p] = v \o X[p + k]
        BY <3>1, <3>3, <1>5
      <4>2. F[p] = v \o F[p + k]
        BY <3>1, <3>2, <3>3, <1>4
      <4>3. F[p + k] = X[p + k] \o e
        BY <4>1, <1>11
      <4>4. X[p + k] \in Seq(TextChar)
        <5>1. p + k \in 0..l
          BY <4>1, <1>1
        <5> QED
          BY <5>1, <1>5
      <4>5. v \o (X[p + k] \o e) = (v \o X[p + k]) \o e
        <5> DEFINE c == X[p + k]
        <5> HIDE DEF c
        <5>1. IsText(v) /\ IsText(c) /\ IsText(e)
          BY <4>4, <1>10 DEF c, IsText
        <5>2. Equals(v \o (c \o e), (v \o c) \o e)
          BY <5>1, Regrouped
        <5> QED
          BY <5>2 DEF c, Equals
      <4> QED
        BY <4>1, <4>2, <4>3, <4>5
    <3>4. CASE ~ OccursAt(x, w, p)
      <4>1. X[p] = <<x[p + 1]>> \o X[p + 1]
        BY <3>1, <3>4, <1>5
      <4>2. F[p] = <<z[p + 1]>> \o F[p + 1]
        BY <3>1, <3>2, <3>4, <1>4
      <4>3. F[p + 1] = X[p + 1] \o e /\ z[p + 1] = x[p + 1]
        BY <3>1, <1>1, <1>11
      <4>4. X[p + 1] \in Seq(TextChar) /\ <<x[p + 1]>> \in Seq(TextChar)
        <5>1. x[p + 1] \in TextChar
          BY <3>1, ElementOfSeq DEF l
        <5>2. <<x[p + 1]>> \in Seq(TextChar)
          BY <5>1
        <5> QED
          BY <5>2, <3>1, <1>5
      <4>5. <<x[p + 1]>> \o (X[p + 1] \o e) = (<<x[p + 1]>> \o X[p + 1]) \o e
        <5> DEFINE c == <<x[p + 1]>>
                   d == X[p + 1]
        <5> HIDE DEF c, d
        <5>1. IsText(c) /\ IsText(d) /\ IsText(e)
          BY <4>4, <1>10 DEF c, d, IsText
        <5>2. Equals(c \o (d \o e), (c \o d) \o e)
          BY <5>1, Regrouped
        <5> QED
          BY <5>2 DEF c, d, Equals
      <4> QED
        BY <4>1, <4>2, <4>3, <4>5
    <3> QED
      BY <3>3, <3>4
  <2> QED
    BY <2>1, <2>2
<1>12. F[0] = X[0] \o e
  <2>1. 0..l \subseteq D
    <3> HIDE DEF D, l
    <3> QED
      BY <1>1, <1>11, FromTheEnd
  <2>2. 0 \in 0..l
    BY <1>1
  <2> HIDE DEF l, e
  <2> QED
    BY <2>1, <2>2
<1>13. X[0] \o e = (X[0] \o h) \o Y[0]
  <2>1. X[0] \in Seq(TextChar)
    <3>1. 0 \in 0..l
      BY <1>1
    <3> HIDE DEF l
    <3> QED
      BY <3>1, <1>5
  <2>2. X[0] \o (h \o Y[0]) = (X[0] \o h) \o Y[0]
    <3> DEFINE a == X[0]
               b == Y[0]
    <3>1. IsText(a) /\ IsText(h) /\ IsText(b)
      BY <2>1, <1>10 DEF IsText
    <3> HIDE DEF a, b
    <3>2. Equals(a \o (h \o b), (a \o h) \o b)
      BY <3>1, Regrouped
    <3> QED
      BY <3>2 DEF a, b, Equals
  <2> QED
    BY <2>2
<1> QED
  BY <1>12, <1>13 DEF F, X, Y, h, LeftSplit

LEMMA AppendRegrouped ==
    ASSUME NEW a, NEW b, IsText(a), IsText(b), NEW c \in TextChar
    PROVE  Equals(Append(a \o b, c), a \o Append(b, c))
<1>1. /\ a \in Seq(TextChar) /\ b \in Seq(TextChar) /\ <<c>> \in Seq(TextChar)
      /\ a \o b \in Seq(TextChar)
  BY DEF IsText
<1>2. IsText(<<c>>)
  BY <1>1 DEF IsText
<1>3. Equals(a \o (b \o <<c>>), (a \o b) \o <<c>>)
  BY <1>2, Regrouped
<1>4. Append(a \o b, c) = (a \o b) \o <<c>>
  BY <1>1, AppendIsConcat
<1>5. Append(b, c) = b \o <<c>>
  BY <1>1, AppendIsConcat
<1> QED
  BY <1>3, <1>4, <1>5 DEF Equals

\* and from the right.
RightSplit(x, y, z, w, v) ==
    ReplacedUpTo(z, w, v)[Len(z)] =
        (ReplacedUpTo(x, w, v)[Len(x)] \o <<"-">>) \o ReplacedUpTo(y, w, v)[Len(y)]

LEMMA RightSplits ==
    ASSUME NEW x, NEW y, NEW z, NEW w, NEW v, Splitting(x, y, z, w, v)
    PROVE  RightSplit(x, y, z, w, v)
<1> DEFINE l == Len(x)
           m == Len(y)
           n == Len(z)
           k == Len(w)
           F == ReplacedUpTo(z, w, v)
           X == ReplacedUpTo(x, w, v)
           Y == ReplacedUpTo(y, w, v)
           h == <<"-">>
<1>a. /\ x \in Seq(TextChar) /\ y \in Seq(TextChar) /\ Hyphened(x, y, z)
      /\ w \in Seq(TextChar) /\ w # <<>> /\ WithoutHyphen(w)
      /\ v \in Seq(TextChar)
  BY DEF Splitting
<1> USE <1>a
<1>1. /\ l \in Nat /\ m \in Nat /\ n \in Nat /\ k \in Nat /\ k # 0 /\ n = l + 1 + m
      /\ z \in Seq(TextChar) /\ z[l + 1] = "-" /\ \A i \in 1..l : z[i] = x[i]
      /\ \A i \in 1..m : z[i + (l + 1)] = y[i]
  BY EmptySeq DEF Hyphened
<1>2. /\ \A p \in 0..(l - 1) : OccursAt(z, w, p) <=> OccursAt(x, w, p)
      /\ \A p \in 0..m : OccursAt(z, w, p + (l + 1)) <=> OccursAt(y, w, p)
      /\ \A p \in 0..l : p + k > l => ~ OccursAt(z, w, p)
  BY OccursBesideHyphen
<1>3. ByTheRight(z, w, v, F) /\ ByTheRight(x, w, v, X) /\ ByTheRight(y, w, v, Y)
  BY <1>1, FromTheRightIs
<1> HIDE DEF F, X, Y
<1>4. /\ F \in [0..n -> Seq(TextChar)] /\ F[0] = <<>>
      /\ \A p \in 1..n :
            \/ p - k \in 0..(p - 1) /\ OccursAt(z, w, p - k) /\ F[p] = F[p - k] \o v
            \/ ~ (p - k >= 0 /\ OccursAt(z, w, p - k)) /\ F[p] = Append(F[p - 1], z[p])
  BY <1>3 DEF ByTheRight
<1>5. /\ X \in [0..l -> Seq(TextChar)] /\ X[0] = <<>>
      /\ \A p \in 1..l :
            \/ p - k \in 0..(p - 1) /\ OccursAt(x, w, p - k) /\ X[p] = X[p - k] \o v
            \/ ~ (p - k >= 0 /\ OccursAt(x, w, p - k)) /\ X[p] = Append(X[p - 1], x[p])
  BY <1>3 DEF ByTheRight
<1>6. /\ Y \in [0..m -> Seq(TextChar)] /\ Y[0] = <<>>
      /\ \A p \in 1..m :
            \/ p - k \in 0..(p - 1) /\ OccursAt(y, w, p - k) /\ Y[p] = Y[p - k] \o v
            \/ ~ (p - k >= 0 /\ OccursAt(y, w, p - k)) /\ Y[p] = Append(Y[p - 1], y[p])
  BY <1>3 DEF ByTheRight
<1> DEFINE T == {p \in 0..l : F[p] = X[p]}
<1>7. ASSUME NEW p \in 0..l, \A q \in 0..(p - 1) : q \in T
      PROVE  p \in T
  <2>1. CASE p = 0
    BY <2>1, <1>4, <1>5
  <2>2. CASE p # 0
    <3>1. /\ p \in 1..l /\ p \in 1..n /\ p - 1 \in 0..(p - 1) /\ p \in Int
          /\ \A q \in 0..(p - 1) : q \in 0..(l - 1)
          /\ p - k >= 0 => p - k \in 0..(p - 1)
      BY <2>2, <1>1
    <3> DEFINE q == p - k
    <3> HIDE DEF q, l, m, n, k
    <3>2. q >= 0 => (OccursAt(z, w, q) <=> OccursAt(x, w, q))
      BY <3>1, <1>2 DEF q
    <3>3. CASE q >= 0 /\ OccursAt(x, w, q)
      <4>1. F[p] = F[q] \o v /\ X[p] = X[q] \o v /\ q \in 0..(p - 1)
        BY <3>1, <3>2, <3>3, <1>4, <1>5 DEF q
      <4> QED
        BY <4>1, <1>7
    <3>4. CASE ~ (q >= 0 /\ OccursAt(x, w, q))
      <4>1. F[p] = Append(F[p - 1], z[p]) /\ X[p] = Append(X[p - 1], x[p])
        <5>1. ~ (q >= 0 /\ OccursAt(z, w, q))
          BY <3>2, <3>4
        <5>2. q \in 0..(p - 1) => q >= 0
          OBVIOUS
        <5>3. F[p] = Append(F[p - 1], z[p])
          BY <5>1, <5>2, <3>1, <1>4 DEF q
        <5>4. X[p] = Append(X[p - 1], x[p])
          BY <3>4, <5>2, <3>1, <1>5 DEF q
        <5> QED
          BY <5>3, <5>4
      <4>2. F[p - 1] = X[p - 1] /\ z[p] = x[p]
        BY <3>1, <1>1, <1>7
      <4> QED
        BY <4>1, <4>2
    <3> QED
      BY <3>3, <3>4
  <2> QED
    BY <2>1, <2>2
<1>8. F[l] = X[l]
  <2>1. 0..l \subseteq T
    <3> HIDE DEF T, l
    <3> QED
      BY <1>1, <1>7, FromTheBeginning
  <2>2. l \in 0..l
    BY <1>1
  <2> HIDE DEF l
  <2> QED
    BY <2>1, <2>2
<1> DEFINE e == X[l] \o h
<1>9. h \in Seq(TextChar) /\ X[l] \in Seq(TextChar) /\ e \in Seq(TextChar) /\ "-" \in TextChar
  <2>1. "-" \in TextChar
    BY DEF TextChar, NameChar
  <2>2. h \in Seq(TextChar)
    BY <2>1
  <2>3. X[l] \in Seq(TextChar)
    <3>1. l \in 0..l
      BY <1>1
    <3> HIDE DEF l
    <3> QED
      BY <3>1, <1>5
  <2> QED
    BY <2>1, <2>2, <2>3
<1>10. F[l + 1] = e
  <2>1. /\ l + 1 \in 1..n /\ (l + 1) - 1 = l
        /\ (l + 1) - k >= 0 => (l + 1) - k \in 0..l /\ ((l + 1) - k) + k > l
    BY <1>1
  <2> DEFINE q == (l + 1) - k
             a == X[l]
  <2> HIDE DEF q, l, m, n, k, h
  <2>2. ~ (q >= 0 /\ OccursAt(z, w, q))
    BY <2>1, <1>2 DEF q
  <2>3. q \in 0..((l + 1) - 1) => q >= 0
    OBVIOUS
  <2>4. F[l + 1] = Append(F[(l + 1) - 1], z[l + 1])
    BY <2>1, <2>2, <2>3, <1>4 DEF q
  <2>5. F[l + 1] = Append(a, "-")
    BY <2>1, <2>4, <1>1, <1>8
  <2> HIDE DEF a
  <2>6. a \in Seq(TextChar) /\ "-" \in TextChar
    BY <1>9 DEF a
  <2>7. Append(a, "-") = a \o <<"-">>
    BY <2>6, AppendIsConcat
  <2> QED
    BY <2>5, <2>7 DEF a, h
<1> HIDE DEF h
<1> DEFINE D == {p \in 0..m : F[p + (l + 1)] = e \o Y[p]}
<1>11. ASSUME NEW p \in 0..m, \A q \in 0..(p - 1) : q \in D
       PROVE  p \in D
  <2>1. CASE p = 0
    <3>1. F[0 + (l + 1)] = e
      <4>1. 0 + (l + 1) = l + 1
        BY <1>1
      <4> HIDE DEF e, l
      <4> QED
        BY <4>1, <1>10
    <3>2. e \o <<>> = e
      <4>1. e \in Seq(TextChar)
        BY <1>9
      <4> HIDE DEF e
      <4> QED
        BY <4>1, ConcatEmptySeq
    <3> HIDE DEF e
    <3> QED
      BY <3>1, <3>2, <2>1, <1>6
  <2>2. CASE p # 0
    <3> DEFINE q == p - k
               o == l + 1
    <3>1. /\ p \in 1..m /\ p + o \in 1..n /\ p - 1 \in 0..(p - 1) /\ p \in Int
          /\ q >= 0 => q \in 0..(p - 1) /\ q \in 0..m
          /\ (p + o) - k = q + o /\ (p + o) - 1 = (p - 1) + o
          /\ q + o >= 0 /\ q < 0 => q + o \in 0..l /\ (q + o) + k > l
          /\ q \in Int /\ q >= 0 => q + o >= 0
          /\ p - 1 \in 0..m
      BY <2>2, <1>1
    <3> HIDE DEF q, l, m, n, k, e, o
    <3>2. CASE q >= 0 /\ OccursAt(y, w, q)
      <4>1. OccursAt(z, w, q + o) /\ q + o >= 0
        BY <3>1, <3>2, <1>2 DEF o
      <4>2. F[p + o] = F[q + o] \o v
        BY <3>1, <4>1, <1>4
      <4>3. Y[p] = Y[q] \o v /\ q \in 0..(p - 1)
        BY <3>1, <3>2, <1>6 DEF q
      <4>4. F[q + o] = e \o Y[q]
        BY <4>3, <1>11 DEF o
      <4> DEFINE c == Y[q]
      <4>5. IsText(v) /\ IsText(c) /\ IsText(e)
        BY <3>1, <3>2, <1>6, <1>9 DEF c, IsText
      <4> HIDE DEF c
      <4>6. Equals(e \o (c \o v), (e \o c) \o v)
        BY <4>5, Regrouped
      <4> QED
        BY <4>2, <4>3, <4>4, <4>6 DEF c, o, Equals
    <3>3. CASE ~ (q >= 0 /\ OccursAt(y, w, q))
      <4>1. ~ (q + o >= 0 /\ OccursAt(z, w, q + o))
        <5>1. CASE q >= 0
          BY <5>1, <3>1, <3>3, <1>2 DEF o
        <5>2. CASE ~ (q >= 0)
          <6>1. q < 0
            <7>1. q \in Int
              BY <1>1 DEF q
            <7> QED
              BY <7>1, <5>2
          <6> QED
            BY <6>1, <3>1, <1>2
        <5> QED
          BY <5>1, <5>2
      <4>2. F[p + o] = Append(F[(p + o) - 1], z[p + o])
        <5> DEFINE r == p + o
        <5>1. r \in 1..n /\ r - k = q + o
          BY <3>1
        <5> HIDE DEF r
        <5>2. r - k \in 0..(r - 1) => r - k >= 0
          OBVIOUS
        <5>3. F[r] = Append(F[r - 1], z[r])
          BY <5>1, <5>2, <4>1, <1>4
        <5> QED
          BY <5>3 DEF r
      <4>3. Y[p] = Append(Y[p - 1], y[p])
        <5>1. q \in 0..(p - 1) => q >= 0
          OBVIOUS
        <5> QED
          BY <5>1, <3>1, <3>3, <1>6 DEF q
      <4>4. F[(p - 1) + o] = e \o Y[p - 1] /\ z[p + o] = y[p]
        BY <3>1, <1>1, <1>11 DEF o
      <4> DEFINE c == Y[p - 1]
                 d == y[p]
      <4>5. IsText(c) /\ IsText(e)
        BY <3>1, <1>6, <1>9 DEF c, IsText
      <4>6. d \in TextChar
        BY <3>1, ElementOfSeq DEF d, m
      <4> HIDE DEF c, d
      <4>7. Equals(Append(e \o c, d), e \o Append(c, d))
        BY <4>5, <4>6, AppendRegrouped
      <4> QED
        BY <3>1, <4>2, <4>3, <4>4, <4>7 DEF c, d, o, Equals
    <3> QED
      BY <3>2, <3>3
  <2> QED
    BY <2>1, <2>2
<1>12. F[n] = e \o Y[m]
  <2>1. 0..m \subseteq D
    <3> HIDE DEF D, m
    <3> QED
      BY <1>1, <1>11, FromTheBeginning
  <2>2. m \in 0..m /\ m + (l + 1) = n
    BY <1>1
  <2> HIDE DEF l, e, m, n
  <2> QED
    BY <2>1, <2>2
<1> QED
  BY <1>12 DEF F, X, Y, h, RightSplit

\* Both ways.
ReplacedApart(x, y, z, w, v) ==
    Replaced(z, w, v) = (Replaced(x, w, v) \o <<"-">>) \o Replaced(y, w, v)

LEMMA ReplacedBesideHyphen ==
    ASSUME NEW x, NEW y, NEW z, NEW w, NEW v, Splitting(x, y, z, w, v)
    PROVE  ReplacedApart(x, y, z, w, v)
<1>1. LeftSplit(x, y, z, w, v)
  BY LeftSplits
<1>2. RightSplit(x, y, z, w, v)
  BY RightSplits
<1>3. CASE Len(w) >= Len(v)
  BY <1>1, <1>3, Zenon DEF Replaced, LeftSplit, ReplacedApart
<1>4. CASE ~ (Len(w) >= Len(v))
  BY <1>2, <1>4, Zenon DEF Replaced, RightSplit, ReplacedApart
<1> QED
  BY <1>3, <1>4

\* A hyphen with a digit behind it.
Mark(s, j) == s[j] = "-" /\ At(s, j + 1) \in Digit

\* A text that brings no such hyphen to what it is put together with, unless that
\* begins with a hyphen.
Smooth(s) ==
    /\ \A j \in 1..Len(s) : ~ Mark(s, j)
    /\ s # <<>> => s[Len(s)] # "-"

LEMMA SmoothTogether ==
    ASSUME NEW a \in Seq(TextChar), NEW b \in Seq(TextChar), Smooth(a), Smooth(b)
    PROVE  Smooth(a \o b)
<1> DEFINE l == Len(a)
           m == Len(b)
           c == a \o b
<1>1. /\ l \in Nat /\ m \in Nat /\ c \in Seq(TextChar) /\ Len(c) = l + m
      /\ \A i \in 1..l : c[i] = a[i]
      /\ \A i \in 1..m : c[i + l] = b[i]
  BY ConcatIs
<1>2. /\ \A i \in 1..l : At(a, i) = a[i] /\ At(c, i) = c[i]
      /\ \A i \in 1..m : At(b, i) = b[i] /\ At(c, i + l) = c[i + l]
      /\ At(c, l + m + 1) = "end"
  <2>1. /\ \A i \in 1..l : i \in 1..Len(c)
        /\ \A i \in 1..m : i + l \in 1..Len(c)
        /\ l + m + 1 \in Int /\ l + m + 1 \notin 1..Len(c)
    BY <1>1
  <2> HIDE DEF c
  <2> QED
    BY <2>1, <1>1, AtIs
<1>3. a = <<>> <=> l = 0
  BY EmptySeq
<1>4. b = <<>> <=> m = 0
  BY EmptySeq
<1>5. c = <<>> <=> l + m = 0
  BY <1>1, EmptySeq
<1>6. ASSUME NEW j \in 1..(l + m) PROVE ~ Mark(c, j)
  <2>1. CASE j < l
    <3>1. j \in 1..l /\ j + 1 \in 1..l
      BY <1>1, <2>1
    <3>2. ~ Mark(a, j)
      BY <3>1 DEF Smooth
    <3>3. c[j] = a[j] /\ At(c, j + 1) = At(a, j + 1)
      BY <3>1, <1>1, <1>2
    <3> QED
      BY <3>2, <3>3 DEF Mark
  <2>2. CASE j = l
    <3>1. j \in 1..l /\ l # 0
      BY <1>1, <2>2
    <3>2. a[l] # "-"
      BY <3>1, <1>3 DEF Smooth
    <3>3. c[j] = a[l]
      BY <3>1, <2>2, <1>1
    <3> QED
      BY <3>2, <3>3 DEF Mark
  <2>3. CASE j > l
    <3> DEFINE i == j - l
    <3>1. i \in 1..m /\ i + l = j /\ (i = m \/ i + 1 \in 1..m) /\ (i + 1) + l = j + 1
          /\ m + 1 \in Int /\ m + 1 \notin 1..m /\ (i = m => j + 1 = l + m + 1)
      BY <1>1, <2>3
    <3>2. ~ Mark(b, i)
      BY <3>1 DEF Smooth
    <3>3. c[j] = b[i]
      <4> HIDE DEF i, c
      <4> QED
        BY <3>1, <1>1
    <3>4. At(c, j + 1) = At(b, i + 1)
      <4>1. CASE i = m
        <5>1. At(b, m + 1) = "end"
          BY <3>1, AtIs
        <5> HIDE DEF i, c
        <5> QED
          BY <4>1, <5>1, <3>1, <1>2
      <4>2. CASE i + 1 \in 1..m
        <5> HIDE DEF i, c
        <5>1. At(b, i + 1) = b[i + 1] /\ At(c, (i + 1) + l) = c[(i + 1) + l]
              /\ c[(i + 1) + l] = b[i + 1]
          BY <4>2, <1>1, <1>2
        <5> QED
          BY <5>1, <3>1
      <4> HIDE DEF i
      <4> QED
        BY <4>1, <4>2, <3>1
    <3> HIDE DEF i, c
    <3> QED
      BY <3>2, <3>3, <3>4 DEF Mark
  <2> QED
    BY <1>1, <2>1, <2>2, <2>3
<1>7. ASSUME c # <<>> PROVE c[l + m] # "-"
  <2>1. CASE m = 0
    <3>1. l \in 1..l /\ l + m = l /\ l # 0
      BY <2>1, <1>1, <1>5, <1>7
    <3>2. a[l] # "-"
      BY <3>1, <1>3 DEF Smooth
    <3> HIDE DEF c
    <3> QED
      BY <3>1, <3>2, <1>1
  <2>2. CASE m # 0
    <3>1. m \in 1..m /\ l + m = m + l
      BY <2>2, <1>1
    <3>2. b[m] # "-"
      BY <2>2, <1>4 DEF Smooth
    <3> HIDE DEF c
    <3> QED
      BY <3>1, <3>2, <1>1
  <2> QED
    BY <2>1, <2>2
<1>8. Smooth(c)
  <2> HIDE DEF c
  <2> QED
    BY <1>1, <1>6, <1>7 DEF Smooth
<1> QED
  BY <1>8

\* Without hyphens in it, and with a smooth text to put into it, a text gets smooth.
LEMMA ReplacedIsSmooth ==
    ASSUME NEW s \in Seq(TextChar), WithoutHyphen(s), NEW w \in Seq(TextChar), w # <<>>,
           NEW v \in Seq(TextChar), Smooth(v)
    PROVE  Smooth(Replaced(s, w, v))
<1> DEFINE n == Len(s)
           C == {c \in (0..n) \X (0..n) \X Seq(TextChar) : Smooth(c[3])}
<1>1. n \in Nat /\ Len(w) \in Nat
  OBVIOUS
<1>2. \A p, q \in 0..n : \A t \in Seq(TextChar) : <<p, q, t>> \in C <=> Smooth(t)
  OBVIOUS
<1>3. \A p, q, t : <<p, q, t>> \in C => Smooth(t)
  OBVIOUS
<1>4. Pieces(s, w, v, C)
  <2> HIDE DEF C
  <2>1. ASSUME NEW p \in 0..n PROVE <<p, p, <<>>>> \in C
    <3>1. Smooth(<<>>) /\ <<>> \in Seq(TextChar)
      BY DEF Smooth
    <3> QED
      BY <3>1, <1>2
  <2>2. ASSUME NEW p \in 1..n PROVE <<p - 1, p, <<s[p]>>>> \in C
    <3>1. p - 1 \in 0..n /\ p \in 0..n
      BY <1>1
    <3>2. s[p] # "-" /\ s[p] \in TextChar
      BY ElementOfSeq DEF WithoutHyphen
    <3> DEFINE c == s[p]
    <3> HIDE DEF c
    <3>3. <<c>> \in Seq(TextChar) /\ c # "-"
      BY <3>2 DEF c
    <3>4. Smooth(<<c>>)
      BY <3>3 DEF Smooth, Mark
    <3> HIDE DEF n
    <3> QED
      BY <3>1, <3>3, <3>4, <1>2 DEF c
  <2>3. ASSUME NEW p \in 0..n, OccursAt(s, w, p) PROVE <<p, p + Len(w), v>> \in C
    <3>1. p + Len(w) \in 0..n
      BY <1>1, <2>3 DEF OccursAt
    <3> HIDE DEF n
    <3> QED
      BY <3>1, <1>2
  <2>4. ASSUME NEW p \in 0..n, NEW q \in 0..n, NEW r \in 0..n,
               NEW a \in Seq(TextChar), NEW b \in Seq(TextChar),
               <<p, q, a>> \in C, <<q, r, b>> \in C
        PROVE  <<p, r, a \o b>> \in C
    <3>1. Smooth(a) /\ Smooth(b)
      BY <2>4, <1>3
    <3>2. Smooth(a \o b) /\ a \o b \in Seq(TextChar)
      BY <3>1, SmoothTogether
    <3> HIDE DEF n
    <3> QED
      BY <3>2, <1>2
  <2> QED
    BY <2>1, <2>2, <2>3, <2>4 DEF Pieces
<1>5. <<0, n, Replaced(s, w, v)>> \in C
  <2> HIDE DEF C
  <2> QED
    BY <1>4, ReplacedByPieces
<1> HIDE DEF C
<1> QED
  BY <1>3, <1>5

\* What can become of the first character.
Begins(s, w, v, t) == t # <<>> /\ (t[1] = s[1] \/ (w[1] = s[1] /\ t[1] = v[1]))

LEMMA ReplacedBegins ==
    ASSUME NEW s \in Seq(TextChar), s # <<>>, NEW w \in Seq(TextChar), w # <<>>,
           NEW v \in Seq(TextChar), v # <<>>
    PROVE  Begins(s, w, v, Replaced(s, w, v))
<1> DEFINE n == Len(s)
           Is(p, q, t) == /\ p = q => t = <<>>
                          /\ p # q => t # <<>>
                          /\ p = 0 /\ q # 0 => Begins(s, w, v, t)
           C == {c \in (0..n) \X (0..n) \X Seq(TextChar) : Is(c[1], c[2], c[3])}
<1>1. n \in Nat /\ n # 0 /\ Len(w) \in Nat /\ Len(w) # 0 /\ <<>> \in Seq(TextChar)
  BY EmptySeq
<1>2. \A p, q \in 0..n : \A t \in Seq(TextChar) : <<p, q, t>> \in C <=> Is(p, q, t)
  <2> HIDE DEF Is
  <2> QED
    OBVIOUS
<1>3. \A p, q, t : <<p, q, t>> \in C => Is(p, q, t)
  <2> HIDE DEF Is
  <2> QED
    OBVIOUS
<1>4. Pieces(s, w, v, C)
  <2> HIDE DEF C
  <2>1. ASSUME NEW p \in 0..n PROVE <<p, p, <<>>>> \in C
    <3>1. Is(p, p, <<>>)
      OBVIOUS
    <3> HIDE DEF Is, n
    <3> QED
      BY <3>1, <1>1, <1>2
  <2>2. ASSUME NEW p \in 1..n PROVE <<p - 1, p, <<s[p]>>>> \in C
    <3>1. p - 1 \in 0..n /\ p \in 0..n /\ p - 1 # p /\ (p - 1 = 0 => p = 1)
      BY <1>1
    <3>2. s[p] \in TextChar
      BY ElementOfSeq
    <3> DEFINE c == s[p]
    <3> HIDE DEF c
    <3>3. <<c>> \in Seq(TextChar) /\ <<c>> # <<>> /\ <<c>>[1] = c
      BY <3>2 DEF c
    <3>4. Is(p - 1, p, <<c>>)
      BY <3>1, <3>3 DEF Begins, c
    <3> HIDE DEF n, Is
    <3> QED
      BY <3>1, <3>3, <3>4, <1>2 DEF c
  <2>3. ASSUME NEW p \in 0..n, OccursAt(s, w, p) PROVE <<p, p + Len(w), v>> \in C
    <3>1. p + Len(w) \in 0..n /\ p # p + Len(w)
      BY <1>1, <2>3 DEF OccursAt
    <3>2. p = 0 => w[1] = s[1]
      <4>1. 1 \in 1..Len(w) /\ (p = 0 => p + 1 = 1)
        BY <1>1
      <4> QED
        BY <4>1, <2>3 DEF OccursAt
    <3>3. Is(p, p + Len(w), v)
      BY <3>1, <3>2 DEF Begins
    <3> HIDE DEF n, Is
    <3> QED
      BY <3>1, <3>3, <1>2
  <2>4. ASSUME NEW p \in 0..n, NEW q \in 0..n, NEW r \in 0..n, p <= q, q <= r,
               NEW a \in Seq(TextChar), NEW b \in Seq(TextChar),
               <<p, q, a>> \in C, <<q, r, b>> \in C
        PROVE  <<p, r, a \o b>> \in C
    <3>1. Is(p, q, a) /\ Is(q, r, b)
      BY <2>4, <1>3
    <3>2. a \o b \in Seq(TextChar)
      OBVIOUS
    <3>3. Is(p, r, a \o b)
      <4>1. CASE a = <<>>
        <5>1. p = q
          BY <4>1, <3>1
        <5>2. a \o b = b
          BY <4>1
        <5> QED
          BY <5>1, <5>2, <3>1
      <4>2. CASE a # <<>>
        <5>1. p # q
          BY <4>2, <3>1
        <5>2. p # r /\ q # 0
          BY <5>1, <1>1, <2>4
        <5>3. a \o b # <<>> /\ (a \o b)[1] = a[1]
          <6>1. Len(a) \in Nat /\ Len(a) # 0
            BY <4>2, EmptySeq
          <6>2. /\ 1 \in 1..Len(a) /\ Len(a \o b) = Len(a) + Len(b) /\ Len(b) \in Nat
                /\ \A i \in 1..Len(a) : (a \o b)[i] = a[i]
            BY <6>1, ConcatIs
          <6>3. Len(a \o b) # 0
            BY <6>1, <6>2
          <6> DEFINE c == a \o b
          <6> HIDE DEF c
          <6>4. c # <<>>
            BY <6>3, EmptySeq DEF c
          <6> QED
            BY <6>2, <6>4 DEF c
        <5>4. p = 0 => Begins(s, w, v, a)
          BY <3>1, <5>2
        <5> DEFINE c == a \o b
        <5> HIDE DEF c
        <5>5. p = 0 => Begins(s, w, v, c)
          BY <5>3, <5>4 DEF Begins, c
        <5>6. c # <<>>
          BY <5>3 DEF c
        <5>7. Is(p, r, c)
          BY <5>2, <5>5, <5>6
        <5> QED
          BY <5>7 DEF c
      <4> QED
        BY <4>1, <4>2
    <3> HIDE DEF n, Is
    <3> QED
      BY <3>2, <3>3, <1>2
  <2> QED
    BY <2>1, <2>2, <2>3, <2>4 DEF Pieces
<1>5. <<0, n, Replaced(s, w, v)>> \in C
  <2> HIDE DEF C
  <2> QED
    BY <1>4, ReplacedByPieces
<1>6. Is(0, n, Replaced(s, w, v))
  <2> HIDE DEF C, Is
  <2> QED
    BY <1>3, <1>5
<1> QED
  BY <1>1, <1>6

\* Where the old text does not occur, nothing changes.
LEMMA NothingToReplace ==
    ASSUME NEW s \in Seq(TextChar), NEW w \in Seq(TextChar), w # <<>>,
           NEW v \in Seq(TextChar), ~ Occurs(s, w)
    PROVE  Replaced(s, w, v) = s
<1> DEFINE n == Len(s)
           Is(p, q, t) == p <= q /\ Len(t) = q - p /\ \A i \in 1..(q - p) : t[i] = s[i + p]
           C == {c \in (0..n) \X (0..n) \X Seq(TextChar) : Is(c[1], c[2], c[3])}
<1>1. n \in Nat
  OBVIOUS
<1>2. \A p, q \in 0..n : \A t \in Seq(TextChar) : <<p, q, t>> \in C <=> Is(p, q, t)
  <2> HIDE DEF Is
  <2> QED
    OBVIOUS
<1>3. \A p, q, t : <<p, q, t>> \in C => Is(p, q, t) /\ t \in Seq(TextChar)
  <2> HIDE DEF Is
  <2> QED
    OBVIOUS
<1>4. Pieces(s, w, v, C)
  <2> HIDE DEF C
  <2>1. ASSUME NEW p \in 0..n PROVE <<p, p, <<>>>> \in C
    <3>1. <<>> \in Seq(TextChar) /\ Len(<<>>) = 0 /\ p - p = 0 /\ p <= p
      BY <1>1
    <3>2. Is(p, p, <<>>)
      BY <3>1
    <3> HIDE DEF Is, n
    <3> QED
      BY <3>1, <3>2, <1>2
  <2>2. ASSUME NEW p \in 1..n PROVE <<p - 1, p, <<s[p]>>>> \in C
    <3>1. p - 1 \in 0..n /\ p \in 0..n /\ p - 1 <= p /\ p - (p - 1) = 1 /\ 1 + (p - 1) = p
      BY <1>1
    <3>2. s[p] \in TextChar
      BY ElementOfSeq
    <3> DEFINE c == s[p]
    <3> HIDE DEF c
    <3>3. <<c>> \in Seq(TextChar) /\ Len(<<c>>) = 1 /\ <<c>>[1] = c
      BY <3>2 DEF c
    <3>4. \A i \in 1..1 : <<c>>[i] = s[i + (p - 1)]
      <4>1. \A i \in 1..1 : i = 1
        OBVIOUS
      <4> QED
        BY <4>1, <3>1, <3>3 DEF c
    <3>5. Is(p - 1, p, <<c>>)
      BY <3>1, <3>3, <3>4
    <3> HIDE DEF n, Is
    <3> QED
      BY <3>1, <3>3, <3>5, <1>2 DEF c
  <2>3. ASSUME NEW p \in 0..n, OccursAt(s, w, p) PROVE <<p, p + Len(w), v>> \in C
    BY <2>3 DEF Occurs
  <2>4. ASSUME NEW p \in 0..n, NEW q \in 0..n, NEW r \in 0..n, p <= q, q <= r,
               NEW a \in Seq(TextChar), NEW b \in Seq(TextChar),
               <<p, q, a>> \in C, <<q, r, b>> \in C
        PROVE  <<p, r, a \o b>> \in C
    <3>1. Is(p, q, a) /\ Is(q, r, b)
      <4> HIDE DEF Is, n
      <4> QED
        BY <2>4, <1>3
    <3> DEFINE c == a \o b
    <3>2. /\ c \in Seq(TextChar) /\ Len(c) = Len(a) + Len(b)
          /\ \A i \in 1..Len(a) : c[i] = a[i]
          /\ \A i \in 1..Len(b) : c[i + Len(a)] = b[i]
      BY ConcatIs
    <3> HIDE DEF c
    <3>3. Len(a) = q - p /\ Len(b) = r - q
      BY <3>1
    <3>4. ASSUME NEW i \in 1..(r - p) PROVE c[i] = s[i + p]
      <4>1. CASE i \in 1..(q - p)
        BY <4>1, <3>1, <3>2, <3>3
      <4>2. CASE i \notin 1..(q - p)
        <5> DEFINE j == i - (q - p)
        <5>1. j \in 1..(r - q) /\ j + (q - p) = i /\ j + q = i + p
          BY <4>2, <2>4
        <5> HIDE DEF j
        <5>2. c[j + (q - p)] = b[j] /\ b[j] = s[j + q]
          BY <5>1, <3>1, <3>2, <3>3
        <5> QED
          BY <5>1, <5>2
      <4> QED
        BY <4>1, <4>2
    <3>5. p <= r /\ Len(c) = r - p
      BY <2>4, <3>2, <3>3
    <3>6. Is(p, r, c)
      BY <3>4, <3>5
    <3> HIDE DEF n, Is
    <3>7. <<p, r, c>> \in C
      BY <3>2, <3>6, <1>2
    <3> QED
      BY <3>7 DEF c
  <2> QED
    BY <2>1, <2>2, <2>3, <2>4 DEF Pieces
<1>5. <<0, n, Replaced(s, w, v)>> \in C
  <2> HIDE DEF C
  <2> QED
    BY <1>4, ReplacedByPieces
<1> DEFINE t == Replaced(s, w, v)
<1> HIDE DEF t
<1>6. Is(0, n, t) /\ t \in Seq(TextChar)
  <2> HIDE DEF C, Is
  <2> QED
    BY <1>3, <1>5 DEF t
<1>7. Len(t) = n /\ \A i \in 1..n : t[i] = s[i]
  BY <1>1, <1>6
<1>8. t = s
  BY <1>6, <1>7
<1> QED
  BY <1>8 DEF t

\* The old text becomes the new one.
LEMMA ReplacedWhole ==
    ASSUME NEW w \in Seq(TextChar), w # <<>>, NEW v \in Seq(TextChar)
    PROVE  Replaced(w, w, v) = v
<1> DEFINE n == Len(w)
<1>1. n \in Nat /\ n # 0
  BY EmptySeq
<1>2. OccursAt(w, w, 0)
  <2>1. 0 + n <= n /\ \A i \in 1..n : 0 + i = i
    BY <1>1
  <2> QED
    BY <2>1 DEF OccursAt
<1>3. ASSUME NEW f, f = ReplacedFrom(w, w, v)
      PROVE  f[0] = v
  <2>1. ByTheLeft(w, w, v, f)
    BY <1>3, FromTheLeftIs
  <2>2. 0 \in 0..(n - 1) /\ 0 + n = n
    BY <1>1
  <2>3. f[0] = v \o f[n] /\ f[n] = <<>>
    <3>1. f[0] = v \o f[0 + n] /\ f[n] = <<>>
      <4> HIDE DEF n
      <4> QED
        BY <1>2, <2>1, <2>2 DEF ByTheLeft, n
    <3> QED
      BY <3>1, <2>2
  <2> QED
    BY <2>3
<1>4. ASSUME NEW f, f = ReplacedUpTo(w, w, v)
      PROVE  f[n] = v
  <2>1. ByTheRight(w, w, v, f)
    BY <1>4, FromTheRightIs
  <2>2. n \in 1..n /\ n - n = 0 /\ 0 >= 0
    BY <1>1
  <2>3. f[n] = f[0] \o v /\ f[0] = <<>>
    <3> HIDE DEF n
    <3> QED
      BY <1>2, <2>1, <2>2 DEF ByTheRight, n
  <2> QED
    BY <2>3
<1> QED
  BY <1>3, <1>4 DEF Replaced

\* What is behind a position, unchanged.
Same(s, p, t) == Len(t) = Len(s) - p /\ \A i \in 1..(Len(s) - p) : t[i] = s[i + p]

\* From the left, a text does not get longer, and only what has no occurrence stays.
LEMMA LeftDiffers ==
    ASSUME NEW s \in Seq(TextChar), NEW w \in Seq(TextChar), w # <<>>, NEW v \in Seq(TextChar),
           Len(w) >= Len(v), w # v, NEW f, ByTheLeft(s, w, v, f)
    PROVE  \A p \in 0..Len(s) :
              /\ Len(f[p]) <= Len(s) - p
              /\ Same(s, p, f[p]) => \A q \in p..Len(s) : ~ OccursAt(s, w, q)
<1> DEFINE n == Len(s)
           k == Len(w)
           m == Len(v)
           Is(p) == /\ Len(f[p]) <= n - p
                    /\ Same(s, p, f[p]) => \A q \in p..n : ~ OccursAt(s, w, q)
           T == {p \in 0..n : Is(p)}
<1>1. n \in Nat /\ k \in Nat /\ m \in Nat /\ k # 0 /\ k >= m
  BY EmptySeq
<1>2. /\ f \in [0..n -> Seq(TextChar)] /\ f[n] = <<>>
      /\ \A p \in 0..(n - 1) :
            \/ OccursAt(s, w, p) /\ p + k \in (p + 1)..n /\ f[p] = v \o f[p + k]
            \/ ~ OccursAt(s, w, p) /\ f[p] = <<s[p + 1]>> \o f[p + 1]
  BY DEF ByTheLeft
<1>3. ASSUME NEW p \in 0..n, \A q \in (p + 1)..n : q \in T
      PROVE  Is(p)
  <2>1. CASE p = n
    <3>1. Len(f[p]) <= n - p
      <4>1. Len(f[n]) = 0
        BY <1>2, EmptySeq
      <4> QED
        BY <4>1, <1>1, <2>1
    <3>2. ASSUME NEW q \in p..n PROVE ~ OccursAt(s, w, q)
      <4>1. q = n /\ ~ (n + k <= n)
        BY <1>1, <2>1, <3>2
      <4> QED
        BY <4>1 DEF OccursAt
    <3> QED
      BY <3>1, <3>2
  <2>2. CASE p # n
    <3>1. p \in 0..(n - 1) /\ p + 1 \in (p + 1)..n /\ p \in Nat /\ p + 1 \in 1..n
      BY <2>2, <1>1
    <3>2. CASE OccursAt(s, w, p)
      <4>1. p + k \in (p + 1)..n /\ f[p] = v \o f[p + k]
        <5> HIDE DEF n, k
        <5> QED
          BY <3>1, <3>2, <1>2
      <4> DEFINE t == f[p + k]
                 c == v \o t
      <4>2. t \in Seq(TextChar) /\ Len(t) \in Nat
        <5>1. p + k \in 0..n
          BY <4>1, <1>1
        <5>2. t \in Seq(TextChar)
          <6> HIDE DEF n, k
          <6> QED
            BY <5>1, <1>2
        <5> HIDE DEF t
        <5> QED
          BY <5>2
      <4>3. Len(t) <= n - (p + k)
        <5>1. Is(p + k)
          BY <4>1, <1>3
        <5> QED
          BY <5>1
      <4> HIDE DEF t
      <4>4. Len(c) = m + Len(t) /\ \A i \in 1..m : c[i] = v[i]
        BY <4>2, ConcatIs
      <4> HIDE DEF c
      <4>5. f[p] = c
        BY <4>1 DEF c, t
      <4>6. Len(c) <= n - p
        BY <4>2, <4>3, <4>4, <1>1, <3>1
      <4>7. ~ Same(s, p, c)
        <5> SUFFICES ASSUME Same(s, p, c) PROVE FALSE
          OBVIOUS
        <5>1. Len(c) = n - p
          BY DEF Same
        <5>2. m = k
          BY <5>1, <4>2, <4>3, <4>4, <1>1, <3>1
        <5>3. ASSUME NEW i \in 1..k PROVE w[i] = v[i]
          <6>1. i \in 1..(n - p) /\ i + p = p + i /\ i \in 1..m
            BY <5>2, <3>1, <4>1, <1>1
          <6>2. c[i] = s[i + p]
            BY <6>1 DEF Same
          <6>3. s[p + i] = w[i]
            BY <3>2 DEF OccursAt
          <6> QED
            BY <6>1, <6>2, <6>3, <4>4
        <5>4. w = v
          BY <5>2, <5>3
        <5> QED
          BY <5>4
      <4> QED
        BY <4>5, <4>6, <4>7
    <3>3. CASE ~ OccursAt(s, w, p)
      <4>1. f[p] = <<s[p + 1]>> \o f[p + 1]
        <5> HIDE DEF n, k
        <5> QED
          BY <3>1, <3>3, <1>2
      <4> DEFINE t == f[p + 1]
                 d == s[p + 1]
                 c == <<d>> \o t
      <4>2. t \in Seq(TextChar) /\ Len(t) \in Nat
        <5>1. p + 1 \in 0..n
          BY <3>1, <1>1
        <5>2. t \in Seq(TextChar)
          <6> HIDE DEF n, k
          <6> QED
            BY <5>1, <1>2
        <5> HIDE DEF t
        <5> QED
          BY <5>2
      <4>3. Is(p + 1)
        BY <3>1, <1>3
      <4>4. d \in TextChar
        BY <3>1, ElementOfSeq
      <4> HIDE DEF d
      <4>5. Len(t) <= n - (p + 1)
        BY <4>3
      <4>6. Same(s, p + 1, t) => \A q \in (p + 1)..n : ~ OccursAt(s, w, q)
        BY <4>3
      <4> HIDE DEF t
      <4>7. Len(c) = 1 + Len(t) /\ \A i \in 1..Len(t) : c[i + 1] = t[i]
        <5>1. <<d>> \in Seq(TextChar) /\ Len(<<d>>) = 1
          BY <4>4
        <5> QED
          BY <5>1, <4>2, ConcatIs
      <4> HIDE DEF c
      <4>8. f[p] = c
        BY <4>1 DEF c, d, t
      <4>9. Len(c) <= n - p
        BY <4>2, <4>5, <4>7, <1>1, <3>1
      <4>10. ASSUME Same(s, p, c), NEW q \in p..n PROVE ~ OccursAt(s, w, q)
        <5>1. Len(c) = n - p /\ \A i \in 1..(n - p) : c[i] = s[i + p]
          BY <4>10 DEF Same
        <5>2. Len(t) = n - (p + 1)
          <6>1. Len(c) = n - p /\ Len(c) = 1 + Len(t) /\ Len(t) \in Nat /\ p \in Nat /\ n \in Nat
            BY <5>1, <4>2, <4>7, <1>1, <3>1
          <6> HIDE DEF n
          <6> QED
            BY <6>1
        <5>3. ASSUME NEW i \in 1..(n - (p + 1)) PROVE t[i] = s[i + (p + 1)]
          <6>1. i + 1 \in 1..(n - p) /\ (i + 1) + p = i + (p + 1) /\ i \in 1..Len(t)
            BY <5>2, <3>1, <1>1
          <6> HIDE DEF n
          <6> QED
            BY <6>1, <5>1, <4>7
        <5>4. Same(s, p + 1, t)
          BY <5>2, <5>3 DEF Same
        <5>5. q = p \/ q \in (p + 1)..n
          BY <3>1, <1>1
        <5> QED
          BY <5>4, <5>5, <4>6, <3>3
      <4> QED
        BY <4>8, <4>9, <4>10
    <3> QED
      BY <3>2, <3>3
  <2> QED
    BY <2>1, <2>2
<1> HIDE DEF Is
<1>4. 0..n \subseteq T
  <2>1. \A p \in 0..n : (\A q \in (p + 1)..n : q \in T) => p \in T
    BY <1>3
  <2> HIDE DEF T, n
  <2> QED
    BY <2>1, <1>1, FromTheEnd
<1>5. \A p \in 0..n : Is(p)
  BY <1>4
<1> QED
  BY <1>5 DEF Is

\* From the right, a text does not get shorter, and gets longer if it has an occurrence.
LEMMA RightDiffers ==
    ASSUME NEW s \in Seq(TextChar), NEW w \in Seq(TextChar), w # <<>>, NEW v \in Seq(TextChar),
           Len(w) < Len(v), NEW f, ByTheRight(s, w, v, f)
    PROVE  \A p \in 0..Len(s) :
              /\ Len(f[p]) >= p
              /\ Len(f[p]) = p => \A q \in 0..p : q + Len(w) <= p => ~ OccursAt(s, w, q)
<1> DEFINE n == Len(s)
           k == Len(w)
           m == Len(v)
           Is(p) == /\ Len(f[p]) >= p
                    /\ Len(f[p]) = p => \A q \in 0..p : q + k <= p => ~ OccursAt(s, w, q)
           T == {p \in 0..n : Is(p)}
<1>1. n \in Nat /\ k \in Nat /\ m \in Nat /\ k # 0 /\ k < m
  BY EmptySeq
<1>2. /\ f \in [0..n -> Seq(TextChar)] /\ f[0] = <<>>
      /\ \A p \in 1..n :
            \/ p - k \in 0..(p - 1) /\ OccursAt(s, w, p - k) /\ f[p] = f[p - k] \o v
            \/ ~ (p - k >= 0 /\ OccursAt(s, w, p - k)) /\ f[p] = Append(f[p - 1], s[p])
  BY DEF ByTheRight
<1>3. ASSUME NEW p \in 0..n, \A q \in 0..(p - 1) : q \in T
      PROVE  Is(p)
  <2>1. CASE p = 0
    <3>1. Len(f[p]) = 0
      BY <1>2, <2>1, EmptySeq
    <3>2. \A q \in 0..p : ~ (q + k <= p)
      BY <2>1, <1>1
    <3> QED
      BY <2>1, <3>1, <3>2
  <2>2. CASE p # 0
    <3>1. p \in 1..n /\ p - 1 \in 0..(p - 1) /\ p - 1 \in 0..n /\ p \in Nat
      BY <2>2, <1>1
    <3>2. CASE p - k \in 0..(p - 1) /\ f[p] = f[p - k] \o v
      <4> DEFINE t == f[p - k]
                 c == t \o v
      <4>1. Len(t) >= p - k
        <5>1. Is(p - k)
          BY <3>2, <1>3
        <5> QED
          BY <5>1
      <4>2. t \in Seq(TextChar) /\ Len(t) \in Nat
        <5>1. p - k \in 0..n
          BY <3>1, <3>2, <1>1
        <5>2. t \in Seq(TextChar)
          <6> HIDE DEF n, k
          <6> QED
            BY <5>1, <1>2
        <5> HIDE DEF t
        <5> QED
          BY <5>2
      <4> HIDE DEF t
      <4>3. Len(c) = Len(t) + m
        BY <4>2, ConcatIs
      <4> HIDE DEF c
      <4>4. f[p] = c
        BY <3>2 DEF c, t
      <4>5. Len(c) > p
        BY <4>1, <4>2, <4>3, <1>1, <3>1
      <4>6. Len(c) >= p /\ Len(c) # p
        BY <4>2, <4>3, <4>5, <1>1, <3>1
      <4> QED
        BY <4>4, <4>6
    <3>3. CASE ~ (p - k >= 0 /\ OccursAt(s, w, p - k)) /\ f[p] = Append(f[p - 1], s[p])
      <4> DEFINE t == f[p - 1]
                 d == s[p]
                 c == Append(t, d)
      <4>1. Is(p - 1)
        BY <3>1, <1>3
      <4>2. t \in Seq(TextChar) /\ Len(t) \in Nat /\ d \in TextChar
        <5>1. t \in Seq(TextChar)
          <6> HIDE DEF n, k
          <6> QED
            BY <3>1, <1>2
        <5>2. d \in TextChar
          BY <3>1, ElementOfSeq
        <5> HIDE DEF t, d
        <5> QED
          BY <5>1, <5>2
      <4>3. /\ Len(t) >= p - 1
            /\ Len(t) = p - 1 => \A q \in 0..(p - 1) : q + k <= p - 1 => ~ OccursAt(s, w, q)
        BY <4>1
      <4> HIDE DEF t, d
      <4>4. Len(c) = Len(t) + 1
        BY <4>2
      <4> HIDE DEF c
      <4>5. f[p] = c
        BY <3>3 DEF c, t, d
      <4>6. Len(c) >= p
        BY <4>2, <4>3, <4>4, <3>1
      <4>7. ASSUME Len(c) = p, NEW q \in 0..p, q + k <= p PROVE ~ OccursAt(s, w, q)
        <5>1. Len(t) = p - 1
          BY <4>2, <4>4, <4>7, <3>1
        <5>2. CASE q + k = p
          <6>1. p - k = q /\ q >= 0
            BY <5>2, <1>1
          <6> HIDE DEF k
          <6> QED
            BY <6>1, <3>3
        <5>3. CASE q + k # p
          <6>1. q \in 0..(p - 1) /\ q + k <= p - 1
            BY <5>3, <4>7, <1>1, <3>1
          <6> QED
            BY <6>1, <5>1, <4>3
        <5> QED
          BY <5>2, <5>3
      <4> QED
        BY <4>5, <4>6, <4>7
    <3>4. \/ p - k \in 0..(p - 1) /\ f[p] = f[p - k] \o v
          \/ ~ (p - k >= 0 /\ OccursAt(s, w, p - k)) /\ f[p] = Append(f[p - 1], s[p])
      <4> HIDE DEF n, k
      <4> QED
        BY <3>1, <1>2
    <3> QED
      BY <3>2, <3>3, <3>4
  <2> QED
    BY <2>1, <2>2
<1> HIDE DEF Is
<1>4. 0..n \subseteq T
  <2>1. \A p \in 0..n : (\A q \in 0..(p - 1) : q \in T) => p \in T
    BY <1>3
  <2> HIDE DEF T, n
  <2> QED
    BY <2>1, <1>1, FromTheBeginning
<1>5. \A p \in 0..n : Is(p)
  BY <1>4
<1> QED
  BY <1>5 DEF Is

\* A text changes if it has an occurrence of what is replaced by another text.
LEMMA ReplacedDiffers ==
    ASSUME NEW s \in Seq(TextChar), NEW w \in Seq(TextChar), w # <<>>, NEW v \in Seq(TextChar),
           w # v, Replaced(s, w, v) = s
    PROVE  ~ Occurs(s, w)
<1> DEFINE n == Len(s)
<1>1. n \in Nat /\ Len(w) \in Nat /\ Len(v) \in Nat
  OBVIOUS
<1>2. CASE Len(w) >= Len(v)
  <2> DEFINE f == ReplacedFrom(s, w, v)
  <2>1. ByTheLeft(s, w, v, f)
    BY FromTheLeftIs
  <2>2. f[0] = s
    BY <1>2 DEF Replaced
  <2> HIDE DEF f
  <2>3. Same(s, 0, f[0])
    <3>1. n - 0 = n /\ \A i \in 1..n : i + 0 = i
      BY <1>1
    <3> QED
      BY <3>1, <2>2 DEF Same
  <2>4. 0 \in 0..n
    BY <1>1
  <2>5. \A q \in 0..n : ~ OccursAt(s, w, q)
    BY <2>1, <2>3, <2>4, <1>2, LeftDiffers
  <2> QED
    BY <2>5 DEF Occurs
<1>3. CASE Len(w) < Len(v)
  <2> DEFINE f == ReplacedUpTo(s, w, v)
  <2>1. ByTheRight(s, w, v, f)
    BY FromTheRightIs
  <2>2. f[n] = s
    <3>1. ~ (Len(w) >= Len(v))
      BY <1>1, <1>3
    <3> QED
      BY <3>1 DEF Replaced
  <2> HIDE DEF f
  <2>3. n \in 0..n /\ Len(f[n]) = n
    BY <1>1, <2>2
  <2>4. \A q \in 0..n : q + Len(w) <= n => ~ OccursAt(s, w, q)
    BY <2>1, <2>3, <1>3, RightDiffers
  <2> QED
    BY <2>4 DEF Occurs, OccursAt
<1> QED
  BY <1>1, <1>2, <1>3

---------------------------------------------------------------------------
(* Where versions stand in names.                                          *)

\* Behind one of a text's hyphens stands a version.
Stands(s, v) ==
    \E d \in 1..Len(s) :
        /\ d + 1 \in 1..Len(s) /\ Mark(s, d)
        /\ v = SubSeq(s, d + 1, VersionEnd(s, d + 1) - 1)

LEMMA MatchStands ==
    ASSUME NEW s \in Seq(TextChar), NEW from \in 1..(Len(s) + 1), ~ NoMatch(s, from)
    PROVE  Stands(s, PortageMatch(s, from).ver)
<1> DEFINE d == LastHyphen(s, from)
           v == PortageMatch(s, from).ver
<1>1. d \in 1..Len(s) /\ d + 1 \in 1..Len(s) /\ s[d] = "-" /\ s[d + 1] \in Digit
  BY MatchParts
<1>2. At(s, d + 1) = s[d + 1]
  <2> HIDE DEF d
  <2> QED
    BY <1>1, AtIs
<1>3. v = SubSeq(s, d + 1, VersionEnd(s, d + 1) - 1)
  <2>1. MatchTill(s, from) = VersionEnd(s, d + 1)
    BY DEF MatchTill
  <2> HIDE DEF d, v
  <2> QED
    BY <2>1, MatchIs DEF v, d
<1> HIDE DEF d, v
<1>4. Stands(s, v)
  BY <1>1, <1>2, <1>3 DEF Stands, Mark
<1> QED
  BY <1>4 DEF v

\* What is read as a version stands behind a hyphen.
LEMMA ParsedVersionStands ==
    ASSUME NEW s \in Seq(TextChar)
    PROVE  \A from \in 1..(Len(s) + 1) :
              ParsedFrom(s)[from].ver = <<>> \/ Stands(s, ParsedFrom(s)[from].ver)
<1> DEFINE b == Len(s) + 1
           Fits(p) == ParsedFrom(s)[p].ver = <<>> \/ Stands(s, ParsedFrom(s)[p].ver)
           T == {p \in 0..b : p = 0 \/ Fits(p)}
<1>1. b \in Nat
  BY AtIs
<1>2. ASSUME NEW p \in 0..b, \A q \in (p + 1)..b : q \in T, p # 0
      PROVE  Fits(p)
  <2>1. p \in 1..b
    <3> HIDE DEF b
    <3> QED
      BY <1>1, <1>2
  <2>2. CASE NoMatch(s, p)
    <3>1. ParsedFrom(s)[p] = NotParsed
      BY <2>1, <2>2, ParsedFromDefined DEF ParseRule
    <3> QED
      BY <3>1 DEF NotParsed
  <2>3. CASE ~ NoMatch(s, p)
    <3> DEFINE m == PortageMatch(s, p)
               q == m.end
    <3>1. q \in 1..b /\ q > p
      BY <2>1, <2>3, MatchIsParsed
    <3>2. Stands(s, m.ver)
      BY <2>1, <2>3, MatchStands
    <3>3. q # 0 /\ q \in (p + 1)..b
      <4> HIDE DEF b, q
      <4> QED
        BY <3>1, <2>1, <1>1
    <3>4. Fits(q)
      BY <3>3, <1>2
    <3>5. ParsedFrom(s)[p] = Over(ParsedFrom(s)[q], m)
      BY <2>1, <2>3, ParsedFromDefined DEF ParseRule
    <3>6. ParsedFrom(s)[p].ver = Or(ParsedFrom(s)[q].ver, m.ver)
      BY <3>5 DEF Over
    <3> QED
      BY <3>2, <3>4, <3>6 DEF Or
  <2> QED
    BY <2>2, <2>3
<1>3. 0..b \subseteq T
  <2>1. \A p \in 0..b : (\A q \in (p + 1)..b : q \in T) => p \in T
    BY <1>2
  <2> HIDE DEF T, b
  <2> QED
    BY <2>1, <1>1, FromTheEnd
<1>4. \A p \in 1..b : p # 0 /\ p \in 0..b
  <2> HIDE DEF b
  <2> QED
    BY <1>1
<1> QED
  BY <1>3, <1>4

\* In the name of an ebuild the last hyphen with a digit behind it is the package's.
LEMMA NoMarkBehind ==
    ASSUME pn \in Seq(TextChar), NEW s \in Seq(TextChar), Versioned(s) # <<>>,
           NEW h, h = HyphenAt
    PROVE  \A j \in (h + 1)..Len(s) : ~ Mark(s, j)
<1> DEFINE e == VersionTill(s)
           n == Len(s)
<1>1. /\ h \in 1..n /\ h + 1 \in 1..n /\ s[h + 1] \in Digit
      /\ e \in (h + 2)..(n + 1) /\ RevisionEnd(s, e) = n + 1
  BY VersionedIs
<1>2. n \in Nat /\ h \in Int /\ e \in Int /\ h + 1 \in 1..(n + 1) /\ e \in 1..(n + 1)
  <2>1. n \in Nat
    OBVIOUS
  <2> HIDE DEF n, e
  <2> QED
    BY <1>1, <2>1
<1>3. e = VersionEnd(s, h + 1)
  BY DEF VersionTill
<1>4. \A i \in (h + 1)..(e - 1) : s[i] \in VersionChar
  BY <1>2, <1>3, VersionEndRange
<1>5. /\ \/ RevisionEnd(s, e) = e
         \/ e + 1 \in 1..n /\ e + 2 \in 1..n /\ s[e + 1] = "r" /\ RevisionEnd(s, e) = DigitsEnd(s, e + 2)
  BY <1>2, RevisionEndRange
<1>6. At(s, n + 1) = "end"
  <2>1. n + 1 \in Int /\ n + 1 \notin 1..n
    BY <1>2
  <2> QED
    BY <2>1, AtIs
<1> HIDE DEF e, n
<1> SUFFICES ASSUME NEW j \in (h + 1)..n, Mark(s, j) PROVE FALSE
  BY DEF n
<1>7. CASE j < e
  <2>1. s[j] \in VersionChar
    BY <1>2, <1>4, <1>7
  <2> QED
    BY <2>1, NoVersionChar DEF Mark
<1>8. CASE j >= e
  <2>1. e # n + 1
    BY <1>2, <1>8
  <2>2. e + 1 \in 1..n /\ e + 2 \in 1..n /\ s[e + 1] = "r" /\ n + 1 = DigitsEnd(s, e + 2)
    BY <2>1, <1>1, <1>5
  <2>3. \A i \in (e + 2)..n : s[i] \in Digit
    <3>1. e + 2 \in 1..(n + 1)
      BY <1>2, <2>2
    <3>2. \A i \in (e + 2)..(DigitsEnd(s, e + 2) - 1) : s[i] \in Digit
      BY <3>1, DigitsEndIs DEF n
    <3> QED
      BY <3>2, <2>2, <1>2
  <2>4. CASE j = e
    <3>1. At(s, e + 1) = "r"
      BY <2>2, AtIs DEF n
    <3> QED
      BY <3>1, <2>4, NoDigit DEF Mark
  <2>5. CASE j = e + 1
    BY <2>5, <2>2 DEF Mark
  <2>6. CASE j > e + 1
    <3>1. j \in (e + 2)..n
      BY <1>2, <2>6
    <3>2. s[j] \in Digit
      BY <3>1, <2>3
    <3> QED
      BY <3>2, NoDigit DEF Mark
  <2> QED
    BY <1>2, <1>8, <2>4, <2>5, <2>6
<1> QED
  BY <1>2, <1>7, <1>8

---------------------------------------------------------------------------
(* The parts of what is fetched.                                           *)

\* What is read behind a number: words and letters, and never a revision.
Suffix(t) ==
    \/ t = <<>>
    \/ t[1] \in Letter /\ WithoutHyphen(t) /\ (t[1] = "r" => At(t, 2) \notin Digit)

\* And how it is fetched.
Behind(t) ==
    /\ Smooth(t)
    /\ \/ t = <<>>
       \/ /\ 2 \in 1..Len(t) /\ t[1] = "-" /\ t[2] \notin Digit
          /\ t[2] = "r" => At(t, 3) \notin Digit

LEMMA NoHyphens ==
    /\ \A c \in Letter : c # "-" /\ c \notin Digit
    /\ \A c \in Digit : c # "-"
    /\ \A c \in VersionChar : c # "-"
<1>1. "-" \notin Letter /\ "-" \notin Digit
  BY NoLetter, NoDigit
<1> QED
  BY <1>1, DigitsAreNoLetters, NoVersionChar

LEMMA WordsEnd ==
    ASSUME NEW w \in Words
    PROVE  w[1] \in Letter /\ (w[1] = "r" => Len(w) = 2 /\ w[2] = "c")
<1>1. w = <<"p", "r", "e">> \/ w = <<"p">> \/ w = <<"b", "e", "t", "a">>
      \/ w = <<"a", "l", "p", "h", "a">> \/ w = <<"r", "c">>
  BY DEF Words
<1>2. w[1] \in {"p", "b", "a", "r"} /\ (w[1] = "r" => Len(w) = 2 /\ w[2] = "c")
  BY <1>1
<1> QED
  BY <1>2 DEF Letter

LEMMA WordIsSuffix ==
    ASSUME NEW s \in Seq(TextChar), NEW p \in 1..(Len(s) + 1), WordEnd(s, p) > p,
           NEW t, t = SubSeq(s, p, WordEnd(s, p) - 1)
    PROVE  t \in Seq(TextChar) /\ Suffix(t)
<1> DEFINE n == Len(s)
           e == WordEnd(s, p)
           k == e - p
<1>1. n \in Nat /\ p \in Int /\ p >= 1 /\ p <= n + 1
  BY AtIs
<1>2. e \in p..(n + 1) /\ \A i \in p..(e - 1) : s[i] \in Letter \cup Digit
  BY WordEndRange
<1>3. e - 1 \in (p - 1)..n /\ k \in Nat /\ k >= 1 /\ (e - 1) - p + 1 = k
      /\ \A i \in 1..k : i + p - 1 \in p..(e - 1)
  <2>1. e > p
    OBVIOUS
  <2> HIDE DEF n, e
  <2> QED
    BY <2>1, <1>1, <1>2
<1>4. t \in Seq(TextChar) /\ Len(t) = k /\ \A i \in 1..k : t[i] = s[i + p - 1]
  <2> DEFINE q == e - 1
  <2>1. q \in (p - 1)..Len(s) /\ q - p + 1 = k /\ t = SubSeq(s, p, q)
    BY <1>3
  <2> HIDE DEF q, k
  <2> QED
    BY <2>1, SubSeqIs
<1>5. WithoutHyphen(t)
  <2> SUFFICES ASSUME NEW i \in 1..Len(t) PROVE t[i] # "-"
    BY DEF WithoutHyphen
  <2>1. i \in 1..k
    BY <1>4
  <2> HIDE DEF e, k
  <2>2. t[i] = s[i + p - 1] /\ s[i + p - 1] \in Letter \cup Digit
    BY <2>1, <1>2, <1>3, <1>4
  <2> QED
    BY <2>2, NoHyphens
<1>6. PICK m \in 1..(n + 1 - p) : WordAt(s, p, m) /\ e = DigitsEnd(s, p + m)
  <2>1. e # p
    BY <1>1, <1>2
  <2> QED
    BY <2>1, WordEndIs
<1> DEFINE w == SubSeq(s, p, p + m - 1)
<1>7. w \in Words
  BY <1>6 DEF WordAt
<1>8. Len(w) = m /\ \A i \in 1..m : w[i] = s[i + p - 1]
  <2> DEFINE q == p + m - 1
  <2>1. q \in (p - 1)..n /\ q - p + 1 = m
    <3> HIDE DEF n
    <3> QED
      BY <1>1, <1>6
  <2> HIDE DEF q
  <2>2. Len(SubSeq(s, p, q)) = m /\ \A i \in 1..m : SubSeq(s, p, q)[i] = s[i + p - 1]
    BY <2>1, SubSeqIs
  <2> QED
    BY <2>2 DEF q
<1>9. e >= p + m
  <2>1. p + m \in 1..(n + 1)
    <3> HIDE DEF n
    <3> QED
      BY <1>1, <1>6
  <2>2. DigitsEnd(s, p + m) \in (p + m)..(n + 1)
    BY <2>1, DigitsEndIs
  <2> HIDE DEF n, e
  <2> QED
    BY <2>2, <1>6, <1>1
<1>10. \A i \in 1..m : i \in 1..k /\ t[i] = w[i]
  <2>1. \A i \in 1..m : i \in 1..k
    <3> HIDE DEF n, e
    <3> QED
      BY <1>9, <1>1, <1>2, <1>6
  <2> HIDE DEF k, w
  <2> QED
    BY <2>1, <1>4, <1>8
<1>11. w[1] \in Letter /\ (w[1] = "r" => Len(w) = 2 /\ w[2] = "c")
  BY <1>7, WordsEnd
<1>12. t[1] = w[1]
  <2>1. 1 \in 1..m
    BY <1>1, <1>6
  <2> HIDE DEF w
  <2> QED
    BY <2>1, <1>10
<1>13. w[1] = "r" => 2 \in 1..m
  <2> HIDE DEF w
  <2> QED
    BY <1>8, <1>11
<1>14. t[1] = "r" => At(t, 2) \notin Digit
  <2> SUFFICES ASSUME t[1] = "r" PROVE At(t, 2) \notin Digit
    OBVIOUS
  <2>1. 2 \in 1..m
    BY <1>12, <1>13
  <2>2. 2 \in 1..Len(t) /\ t[2] = "c"
    <3> HIDE DEF w, k
    <3> QED
      BY <2>1, <1>4, <1>10, <1>11, <1>12
  <2>3. At(t, 2) = "c"
    BY <2>2, <1>4, AtIs
  <2> QED
    BY <2>3 DEF Digit
<1> QED
  BY <1>4, <1>5, <1>11, <1>12, <1>14 DEF Suffix

LEMMA LetterIsSuffix ==
    ASSUME NEW c \in Letter
    PROVE  <<c>> \in Seq(TextChar) /\ Suffix(<<c>>)
<1>1. c # "-" /\ c \in TextChar
  BY NoHyphens DEF TextChar, NameChar, WordChar
<1> DEFINE t == <<c>>
<1>2. t \in Seq(TextChar) /\ Len(t) = 1 /\ t[1] = c /\ 2 \notin 1..Len(t)
  BY <1>1
<1> HIDE DEF t
<1>3. WithoutHyphen(t)
  BY <1>1, <1>2 DEF WithoutHyphen
<1>4. At(t, 2) = "end"
  BY <1>2, AtIs
<1>5. Suffix(t)
  BY <1>2, <1>3, <1>4, NoDigit DEF Suffix
<1> QED
  BY <1>2, <1>5 DEF t

LEMMA JoinedIs ==
    ASSUME NEW t \in Seq(TextChar), Suffix(t)
    PROVE  Joined(t) \in Seq(TextChar) /\ Behind(Joined(t))
<1>1. CASE t = <<>>
  <2>1. Joined(t) = <<>>
    BY <1>1 DEF Joined
  <2>2. Smooth(<<>>)
    BY DEF Smooth
  <2> QED
    BY <2>1, <2>2 DEF Behind
<1>2. CASE t # <<>>
  <2> DEFINE y == Joined(t)
             m == Len(t)
  <2>1. y = <<"-">> \o t
    BY <1>2 DEF Joined
  <2>2. <<"-">> \in Seq(TextChar) /\ Len(<<"-">>) = 1 /\ <<"-">>[1] = "-"
    BY DEF TextChar, NameChar
  <2>3. m \in Nat /\ m # 0
    BY <1>2, EmptySeq
  <2> DEFINE d == <<"-">>
  <2> HIDE DEF d, y
  <2>4. y \in Seq(TextChar) /\ Len(y) = 1 + m /\ y[1] = "-" /\ \A i \in 1..m : y[i + 1] = t[i]
    <3>1. y = d \o t /\ d \in Seq(TextChar) /\ Len(d) = 1 /\ d[1] = "-" /\ 1 \in 1..1
      BY <2>1, <2>2 DEF d
    <3>2. /\ d \o t \in Seq(TextChar) /\ Len(d \o t) = Len(d) + Len(t)
          /\ \A i \in 1..Len(d) : (d \o t)[i] = d[i]
          /\ \A i \in 1..Len(t) : (d \o t)[i + Len(d)] = t[i]
      BY <3>1, ConcatIs
    <3> QED
      BY <3>1, <3>2
  <2>5. /\ t[1] \in Letter /\ WithoutHyphen(t) /\ (t[1] = "r" => At(t, 2) \notin Digit)
    BY <1>2 DEF Suffix
  <2>6. 2 \in 1..Len(y) /\ y[2] = t[1]
    <3> HIDE DEF m
    <3>1. 1 \in 1..m /\ 2 \in 1..(1 + m) /\ 1 + 1 = 2
      BY <2>3
    <3>2. y[1 + 1] = t[1]
      BY <3>1, <2>4
    <3> QED
      BY <3>1, <3>2, <2>4
  <2>7. At(y, 3) = At(t, 2)
    <3>1. CASE 2 \in 1..m
      <4>1. y[2 + 1] = t[2] /\ 2 + 1 = 3 /\ 3 \in 1..Len(y)
        BY <3>1, <2>3, <2>4
      <4> QED
        BY <3>1, <4>1, <2>4, AtIs
    <3>2. CASE 2 \notin 1..m
      <4>1. 3 \notin 1..Len(y)
        BY <3>2, <2>3, <2>4
      <4> QED
        BY <3>2, <4>1, <2>4, AtIs
    <3> QED
      BY <3>1, <3>2
  <2>8. Smooth(y)
    <3>1. \A j \in 1..Len(y) : j = 1 \/ (j # 1 /\ y[j] # "-")
      <4> SUFFICES ASSUME NEW j \in 1..Len(y), j # 1 PROVE y[j] # "-"
        OBVIOUS
      <4> DEFINE i == j - 1
      <4>1. i \in 1..m /\ i + 1 = j
        <5> HIDE DEF m
        <5> QED
          BY <2>3, <2>4
      <4> HIDE DEF i
      <4>2. y[i + 1] = t[i] /\ t[i] # "-"
        BY <4>1, <2>4, <2>5 DEF WithoutHyphen
      <4> QED
        BY <4>1, <4>2
    <3>2. ~ Mark(y, 1)
      <4>1. At(y, 1 + 1) = t[1]
        BY <2>4, <2>6, AtIs
      <4> QED
        BY <4>1, <2>5, NoHyphens DEF Mark
    <3>3. Len(y) \in 1..Len(y) /\ Len(y) # 1
      <4> HIDE DEF m
      <4> QED
        BY <2>3, <2>4
    <3> QED
      BY <3>1, <3>2, <3>3 DEF Smooth, Mark
  <2>9. y[2] \notin Digit
    BY <2>5, <2>6, NoHyphens
  <2>10. y[2] = "r" => At(y, 3) \notin Digit
    BY <2>5, <2>6, <2>7
  <2>11. Behind(y)
    BY <2>4, <2>6, <2>8, <2>9, <2>10 DEF Behind
  <2> QED
    BY <2>4, <2>11 DEF y
<1> QED
  BY <1>1, <1>2

LEMMA BehindTogether ==
    ASSUME NEW a \in Seq(TextChar), Behind(a), NEW b \in Seq(TextChar), Behind(b)
    PROVE  a \o b \in Seq(TextChar) /\ Behind(a \o b)
<1>1. CASE a = <<>>
  <2>1. a \o b = b
    BY <1>1
  <2> QED
    BY <2>1
<1>2. CASE b = <<>>
  <2>1. a \o b = a
    BY <1>2
  <2> QED
    BY <2>1
<1>3. CASE a # <<>> /\ b # <<>>
  <2> DEFINE c == a \o b
             l == Len(a)
             m == Len(b)
  <2>1. /\ c \in Seq(TextChar) /\ Len(c) = l + m
        /\ \A i \in 1..l : c[i] = a[i]
        /\ \A i \in 1..m : c[i + l] = b[i]
    BY ConcatIs
  <2>2. l \in Nat /\ m \in Nat
    BY AtIs
  <2>3. Smooth(c)
    BY SmoothTogether DEF Behind
  <2>4. /\ 2 \in 1..l /\ a[1] = "-" /\ a[2] \notin Digit /\ (a[2] = "r" => At(a, 3) \notin Digit)
        /\ 2 \in 1..m /\ b[1] = "-"
    BY <1>3 DEF Behind
  <2> HIDE DEF c
  <2>5. 2 \in 1..Len(c) /\ c[1] = "-" /\ c[2] = a[2]
    <3> HIDE DEF l, m
    <3>1. 1 \in 1..l /\ 2 \in 1..(l + m)
      BY <2>2, <2>4
    <3> QED
      BY <3>1, <2>1, <2>4
  <2>6. CASE 3 \in 1..l
    <3>1. 3 \in 1..Len(c) /\ c[3] = a[3]
      <4> HIDE DEF l, m
      <4> QED
        BY <2>6, <2>1, <2>2
    <3>2. At(c, 3) = At(a, 3)
      BY <3>1, <2>1, <2>6, AtIs
    <3>3. Behind(c)
      BY <2>3, <2>4, <2>5, <3>2 DEF Behind
    <3> QED
      BY <3>3, <2>1 DEF c
  <2>7. CASE 3 \notin 1..l
    <3>1. 3 \in 1..Len(c) /\ c[3] = b[1]
      <4> HIDE DEF l, m
      <4>1. l = 2 /\ 1 \in 1..m /\ 1 + l = 3 /\ 3 \in 1..(l + m)
        BY <2>7, <2>2, <2>4
      <4>2. c[1 + l] = b[1]
        BY <4>1, <2>1
      <4> QED
        BY <4>1, <4>2, <2>1
    <3>2. At(c, 3) \notin Digit
      <4>1. At(c, 3) = "-"
        BY <3>1, <2>1, <2>4, AtIs
      <4> QED
        BY <4>1, NoDigit
    <3>3. Behind(c)
      BY <2>3, <2>4, <2>5, <3>2 DEF Behind
    <3> QED
      BY <3>3, <2>1 DEF c
  <2> QED
    BY <2>6, <2>7
<1> QED
  BY <1>1, <1>2, <1>3

\* The number in a tag is a version.
LEMMA NumberIsVersion ==
    ASSUME NEW s \in Seq(TextChar), NEW p \in 1..Len(s), s[p] \in Digit,
           NEW v, v = SubSeq(s, p, NumberEnd(s, p) - 1)
    PROVE  v \in Seq(TextChar) /\ IsVersion(v)
<1> DEFINE n == Len(s)
           e == NumberEnd(s, p)
           o == p - 1
           q == e - 1
           m == Len(v)
<1>1. n \in Nat /\ p \in Int /\ p >= 1 /\ p <= n /\ p \in 1..(n + 1)
  <2>1. n \in Nat /\ p \in 1..n
    BY AtIs
  <2> HIDE DEF n
  <2> QED
    BY <2>1
<1>2. e \in p..(n + 1) /\ At(s, e) \notin Digit
  BY <1>1, NumberEndIs, NumberStops
<1>3. e # p
  <2>1. At(s, p) = s[p]
    BY AtIs
  <2> QED
    BY <2>1, <1>2
<1>4. q \in (p - 1)..n /\ q - p + 1 = e - p /\ e - p >= 1 /\ o \in Nat /\ 1 + p - 1 = p
      /\ o + (e - p) + 1 = e /\ 1 + o = p /\ e - p \in Nat
  <2> HIDE DEF n, e
  <2> QED
    BY <1>1, <1>2, <1>3
<1>5. v \in Seq(TextChar) /\ m = q - p + 1 /\ \A i \in 1..(q - p + 1) : v[i] = s[i + p - 1]
      /\ Within(v, s, o)
  <2>1. v = SubSeq(s, p, q)
    OBVIOUS
  <2> HIDE DEF q
  <2> QED
    BY <2>1, <1>1, <1>4, SubSeqIs, PieceIsWithin
<1>6. m = e - p /\ m \in Nat /\ m >= 1 /\ 1 \in 1..m /\ 1 \in 1..(m + 1)
  <2> HIDE DEF m, e, q
  <2> QED
    BY <1>4, <1>5
<1>7. v[1] = s[p] /\ v # <<>>
  <2>1. v[1] = s[1 + p - 1]
    <3> HIDE DEF m, e, q
    <3> QED
      BY <1>4, <1>5, <1>6
  <2>2. v # <<>>
    <3>1. m # 0
      <4> HIDE DEF m, e, q
      <4> QED
        BY <1>6
    <3> QED
      BY <3>1, EmptySeq
  <2>3. 1 + p - 1 = p
    BY <1>4
  <2> HIDE DEF e, q
  <2> QED
    BY <2>1, <2>2, <2>3
<1>8. NumberEnd(v, 1) = m + 1
  <2>1. NumberEnd(s, 1 + o) <= o + m + 1
    <3>1. NumberEnd(s, 1 + o) = e
      BY <1>4
    <3> HIDE DEF e, m, o
    <3> QED
      BY <3>1, <1>2, <1>4, <1>6, <1>1
  <2>2. NumberEnd(v, 1) + o = NumberEnd(s, 1 + o)
    <3> HIDE DEF o
    <3> QED
      BY <2>1, <1>5, <1>6, NumberCut
  <2> DEFINE k == NumberEnd(v, 1)
  <2>3. k \in Int /\ k + o = e
    <3>1. k \in 1..(m + 1)
      BY <1>5, <1>6, NumberEndIs
    <3>2. NumberEnd(s, 1 + o) = e
      BY <1>4
    <3> HIDE DEF m, k, e
    <3> QED
      BY <3>1, <3>2, <2>2, <1>6 DEF k
  <2> HIDE DEF k, e, m
  <2> QED
    BY <2>3, <1>2, <1>4, <1>6, <1>1 DEF k
<1>9. VersionEnd(v, 1) = m + 1
  <2> DEFINE x == VersionEnd(v, 1)
  <2>1. x \in 1..(m + 1) /\ NumberEnd(v, 1) \in 1..x
    BY <1>5, <1>6, VersionEndRange
  <2> HIDE DEF m, x
  <2> QED
    BY <2>1, <1>6, <1>8 DEF x
<1> QED
  BY <1>5, <1>7, <1>9 DEF IsVersion

---------------------------------------------------------------------------
(* What is read in a tag.                                                  *)

WordFrom(s, p) == IF At(s, p) \in {"-", ".", Underscore} THEN p + 1 ELSE p
WithTag(r, t) == [r EXCEPT !.tag = Or(@, t)]
WithSubver(r, t) == [r EXCEPT !.subver = Or(@, t)]

TagRule(s, f, p) ==
    IF WordEnd(s, WordFrom(s, p)) > WordFrom(s, p)
    THEN WithTag(f[WordEnd(s, WordFrom(s, p))],
                 SubSeq(s, WordFrom(s, p), WordEnd(s, WordFrom(s, p)) - 1))
    ELSE IF At(s, p) \in Letter
    THEN WithSubver(f[p + 1], <<s[p]>>)
    ELSE [tag |-> <<>>, subver |-> <<>>, end |-> RevisionEnd(s, p)]

Suffixes == {t \in Seq(TextChar) : Suffix(t)}
TagParts(s) == [tag : Suffixes, subver : Suffixes, end : 1..(Len(s) + 1)]

LEMMA NoSuffix == <<>> \in Suffixes
  BY DEF Suffixes, Suffix

LEMMA WithIs ==
    ASSUME NEW s, NEW r \in TagParts(s), NEW t \in Suffixes
    PROVE  /\ WithTag(r, t) \in TagParts(s) /\ WithTag(r, t).end = r.end
           /\ WithSubver(r, t) \in TagParts(s) /\ WithSubver(r, t).end = r.end
  BY DEF WithTag, WithSubver, TagParts, Or

\* Where it asks again.
LEMMA WordGoesOn ==
    ASSUME NEW s \in Seq(TextChar), NEW p \in 1..(Len(s) + 1)
    PROVE  /\ WordFrom(s, p) \in p..(Len(s) + 1) /\ WordFrom(s, p) \in 1..(Len(s) + 1)
           /\ WordEnd(s, WordFrom(s, p)) \in WordFrom(s, p)..(Len(s) + 1)
           /\ WordEnd(s, WordFrom(s, p)) > WordFrom(s, p) =>
                 /\ WordEnd(s, WordFrom(s, p)) \in (p + 1)..(Len(s) + 1)
                 /\ WordEnd(s, WordFrom(s, p)) \in 1..(Len(s) + 1)
                 /\ SubSeq(s, WordFrom(s, p), WordEnd(s, WordFrom(s, p)) - 1) \in Suffixes
           /\ At(s, p) \in Letter =>
                 /\ p + 1 \in (p + 1)..(Len(s) + 1) /\ p + 1 \in 1..(Len(s) + 1)
                 /\ <<s[p]>> \in Suffixes
<1> DEFINE n == Len(s)
           w == WordFrom(s, p)
           e == WordEnd(s, w)
<1>1. n \in Nat /\ p \in Int /\ (p \in 1..n \/ At(s, p) = "end")
      /\ \A i \in 1..n : At(s, i) = s[i] /\ s[i] \in TextChar
  BY AtIs
<1>2. w \in p..(n + 1) /\ w \in 1..(n + 1)
  <2>1. At(s, p) \in {"-", ".", Underscore} => p \in 1..n
    BY <1>1, NoUnderscore
  <2>2. (w = p + 1 /\ p \in 1..n) \/ w = p
    BY <2>1 DEF WordFrom
  <2> HIDE DEF n, w
  <2> QED
    BY <1>1, <2>2 DEF n
<1>3. e \in w..(n + 1)
  <2> HIDE DEF w
  <2> QED
    BY <1>2, WordEndRange
<1>4. ASSUME e > w
      PROVE  /\ e \in (p + 1)..(n + 1) /\ e \in 1..(n + 1)
             /\ SubSeq(s, w, e - 1) \in Suffixes
  <2>1. e \in (p + 1)..(n + 1) /\ e \in 1..(n + 1) /\ w \in Nat /\ w >= 1 /\ e - 1 \in Int /\ e - 1 <= n
    <3> HIDE DEF n, w, e
    <3> QED
      BY <1>1, <1>2, <1>3, <1>4
  <2>2. w \in 1..(Len(s) + 1) /\ WordEnd(s, w) > w
    BY <1>2, <1>4
  <2> DEFINE t == SubSeq(s, w, e - 1)
  <2>3. t = SubSeq(s, w, WordEnd(s, w) - 1)
    OBVIOUS
  <2> HIDE DEF w, t
  <2>4. t \in Seq(TextChar) /\ Suffix(t)
    BY <2>2, <2>3, WordIsSuffix
  <2> QED
    BY <2>1, <2>4 DEF Suffixes, t
<1>5. ASSUME At(s, p) \in Letter
      PROVE  /\ p + 1 \in (p + 1)..(n + 1) /\ p + 1 \in 1..(n + 1)
             /\ <<s[p]>> \in Suffixes
  <2>1. p \in 1..n
    BY <1>1, <1>5, NoLetter
  <2>2. <<s[p]>> \in Suffixes
    <3>1. s[p] \in Letter
      BY <2>1, <1>1, <1>5
    <3> QED
      BY <3>1, LetterIsSuffix DEF Suffixes
  <2> HIDE DEF n
  <2>3. p + 1 \in (p + 1)..(n + 1) /\ p + 1 \in 1..(n + 1)
    BY <2>1, <1>1
  <2> QED
    BY <2>2, <2>3
<1> QED
  BY <1>2, <1>3, <1>4, <1>5

LEMMA TagStep ==
    ASSUME NEW s \in Seq(TextChar), NEW p \in 1..(Len(s) + 1), NEW f,
           \A q \in (p + 1)..(Len(s) + 1) : f[q] \in TagParts(s) /\ f[q].end >= q
    PROVE  TagRule(s, f, p) \in TagParts(s) /\ TagRule(s, f, p).end >= p
<1> DEFINE n == Len(s)
           w == WordFrom(s, p)
           e == WordEnd(s, w)
           t == SubSeq(s, w, e - 1)
<1>1. n \in Nat /\ p \in Int
  BY AtIs
<1>2. CASE e > w
  <2>1. e \in (p + 1)..(n + 1) /\ t \in Suffixes
    BY <1>2, WordGoesOn
  <2>2. TagRule(s, f, p) = WithTag(f[e], t)
    BY <1>2 DEF TagRule
  <2> HIDE DEF e, t, w
  <2>3. f[e] \in TagParts(s) /\ f[e].end >= e
    BY <2>1
  <2> DEFINE r == f[e]
  <2> HIDE DEF r
  <2>4. WithTag(r, t) \in TagParts(s) /\ WithTag(r, t).end = r.end
    BY <2>1, <2>3, WithIs DEF r
  <2>5. r.end \in 1..(n + 1)
    BY <2>3 DEF TagParts, r
  <2> HIDE DEF n
  <2>6. r.end >= p
    BY <2>1, <2>3, <2>5, <1>1 DEF r
  <2> QED
    BY <2>2, <2>4, <2>6 DEF r
<1>3. CASE ~ (e > w) /\ At(s, p) \in Letter
  <2> DEFINE x == <<s[p]>>
             r == f[p + 1]
  <2>1. p + 1 \in (p + 1)..(n + 1) /\ x \in Suffixes
    BY <1>3, WordGoesOn
  <2>2. TagRule(s, f, p) = WithSubver(r, x)
    BY <1>3 DEF TagRule
  <2>3. r \in TagParts(s) /\ r.end >= p + 1
    BY <2>1
  <2> HIDE DEF r, x
  <2>4. WithSubver(r, x) \in TagParts(s) /\ WithSubver(r, x).end = r.end
    BY <2>1, <2>3, WithIs
  <2>5. r.end \in 1..(n + 1)
    BY <2>3 DEF TagParts
  <2> HIDE DEF n
  <2>6. r.end >= p
    BY <2>3, <2>5, <1>1
  <2> QED
    BY <2>2, <2>4, <2>6
<1>4. CASE ~ (e > w) /\ At(s, p) \notin Letter
  <2>1. TagRule(s, f, p) = [tag |-> <<>>, subver |-> <<>>, end |-> RevisionEnd(s, p)]
    BY <1>4 DEF TagRule
  <2>2. RevisionEnd(s, p) \in p..(n + 1)
    BY RevisionEndRange
  <2> DEFINE k == RevisionEnd(s, p)
  <2> HIDE DEF k
  <2>3. k \in 1..(n + 1) /\ k >= p
    <3> HIDE DEF n
    <3> QED
      BY <2>2, <1>1 DEF k, n
  <2>4. TagRule(s, f, p) = [tag |-> <<>>, subver |-> <<>>, end |-> k]
    BY <2>1 DEF k
  <2> QED
    BY <2>3, <2>4, NoSuffix DEF TagParts
<1> QED
  BY <1>2, <1>3, <1>4

LEMMA TagSuffixesDefined ==
    ASSUME NEW s \in Seq(TextChar)
    PROVE  \A p \in 1..(Len(s) + 1) :
              /\ TagSuffixes(s)[p] \in TagParts(s)
              /\ TagSuffixes(s)[p].end >= p
              /\ TagSuffixes(s)[p] = TagRule(s, TagSuffixes(s), p)
<1> DEFINE b == Len(s) + 1
           D == 1..b
           V == TagParts(s)
           Good(f, p) == f[p] \in V /\ f[p].end >= p
           W == [D -> V]
           Rule == [p \in D |-> [f \in W |-> IF \A q \in (p + 1)..b : f[q].end >= q
                                             THEN TagRule(s, f, p)
                                             ELSE [tag |-> <<>>, subver |-> <<>>, end |-> b]]]
           rank == [p \in D |-> b - p]
           Solves(g) == g = [p \in D |-> TagRule(s, g, p)]
           more == TagSuffixes(s)
<1>1. b \in Nat /\ b >= 1 /\ rank \in [D -> 0..b]
  <2>1. Len(s) \in Nat /\ b \in Nat /\ b >= 1
    BY AtIs
  <2> HIDE DEF b
  <2>2. \A p \in 1..b : b - p \in 0..b
    BY <2>1
  <2> QED
    BY <2>1, <2>2
<1>2. [tag |-> <<>>, subver |-> <<>>, end |-> b] \in V
  <2> HIDE DEF b
  <2>1. b \in 1..b
    BY <1>1
  <2> QED
    BY <2>1, NoSuffix DEF TagParts, b
<1>3. ASSUME NEW p \in D, NEW f \in W, \A q \in (p + 1)..b : f[q].end >= q
      PROVE  TagRule(s, f, p) \in V
  <2>1. \A q \in (p + 1)..b : q \in D
    <3> HIDE DEF b
    <3> QED
      BY <1>1
  <2>2. \A q \in (p + 1)..b : f[q] \in V /\ f[q].end >= q
    BY <2>1, <1>3
  <2> QED
    BY <2>2, TagStep
<1>4. Rule \in [D -> [W -> V]]
  <2> HIDE DEF V, b
  <2> QED
    BY <1>2, <1>3
<1>5. ASSUME NEW p \in D, NEW q \in (p + 1)..b
      PROVE  q \in D /\ rank[q] < rank[p]
  <2> HIDE DEF b
  <2>1. q \in 1..b /\ b - q < b - p
    BY <1>1
  <2> QED
    BY <2>1
<1>6. ASSUME NEW p \in D, NEW f, NEW g, \A q \in (p + 1)..b : f[q] = g[q]
      PROVE  TagRule(s, f, p) = TagRule(s, g, p)
  <2> DEFINE w == WordFrom(s, p)
             e == WordEnd(s, w)
  <2>1. CASE e > w
    <3>1. e \in (p + 1)..b
      BY <2>1, WordGoesOn
    <3>2. f[e] = g[e]
      <4> HIDE DEF e, b
      <4> QED
        BY <3>1, <1>6
    <3> QED
      BY <2>1, <3>2 DEF TagRule
  <2>2. CASE ~ (e > w) /\ At(s, p) \in Letter
    <3>1. p + 1 \in (p + 1)..b
      BY <2>2, WordGoesOn
    <3>2. f[p + 1] = g[p + 1]
      <4> HIDE DEF b
      <4> QED
        BY <3>1, <1>6
    <3> QED
      BY <2>2, <3>2 DEF TagRule
  <2>3. CASE ~ (e > w) /\ At(s, p) \notin Letter
    BY <2>3 DEF TagRule
  <2> QED
    BY <2>1, <2>2, <2>3
<1>7. ASSUME NEW p \in D, NEW f \in W, NEW g \in W,
             \A q \in D : rank[q] < rank[p] => f[q] = g[q]
      PROVE  Rule[p][f] = Rule[p][g]
  <2>1. \A q \in (p + 1)..b : f[q] = g[q]
    BY <1>5, <1>7
  <2>2. TagRule(s, f, p) = TagRule(s, g, p)
    BY <2>1, <1>6
  <2> HIDE DEF V, b
  <2> QED
    BY <2>1, <2>2
<1>8. PICK f \in W : \A p \in D : f[p] = Rule[p][f]
  <2>1. V # {}
    BY <1>2
  <2> DEFINE W2 == [D -> V]
  <2>2. Rule \in [D -> [W2 -> V]]
    BY <1>4
  <2>3. \A p \in D : \A f, g \in W2 :
          (\A q \in D : rank[q] < rank[p] => f[q] = g[q]) => Rule[p][f] = Rule[p][g]
    BY <1>7
  <2> HIDE DEF D, V, rank, Rule, b
  <2>4. Grounded(D, V, b, rank, Rule)
    BY <1>1, <2>1, <2>2, <2>3 DEF Grounded
  <2>5. \E f \in [D -> V] : \A p \in D : f[p] = Rule[p][f]
    BY <2>4, RecursionHasASolution
  <2> QED
    BY <2>5
<1>9. \A p \in D : Good(f, p) /\ f[p] = TagRule(s, f, p)
  <2> DEFINE T == {p \in 0..b : p = 0 \/ (Good(f, p) /\ f[p] = TagRule(s, f, p))}
  <2>1. ASSUME NEW p \in 0..b, \A q \in (p + 1)..b : q \in T
        PROVE  p \in T
    <3> SUFFICES ASSUME p # 0 PROVE Good(f, p) /\ f[p] = TagRule(s, f, p)
      OBVIOUS
    <3>1. p \in D
      <4> HIDE DEF b
      <4> QED
        BY <1>1
    <3>2. \A q \in (p + 1)..b : f[q] \in V /\ f[q].end >= q
      <4> SUFFICES ASSUME NEW q \in (p + 1)..b PROVE f[q] \in V /\ f[q].end >= q
        OBVIOUS
      <4>1. q \in T
        BY <2>1
      <4>2. q # 0
        <5> HIDE DEF b, T
        <5> QED
          BY <3>1, <1>1
      <4> QED
        BY <4>1, <4>2
    <3>3. f[p] = TagRule(s, f, p)
      <4>1. f[p] = Rule[p][f]
        BY <3>1, <1>8
      <4> HIDE DEF V, b
      <4> QED
        BY <4>1, <3>1, <3>2
    <3>4. TagRule(s, f, p) \in TagParts(s) /\ TagRule(s, f, p).end >= p
      BY <3>1, <3>2, TagStep
    <3> QED
      BY <3>3, <3>4
  <2>2. 0..b \subseteq T
    <3>1. \A p \in 0..b : (\A q \in (p + 1)..b : q \in T) => p \in T
      BY <2>1
    <3> HIDE DEF T, b
    <3> QED
      BY <3>1, <1>1, FromTheEnd
  <2>3. \A p \in D : p \in 0..b /\ p # 0
    <3> HIDE DEF b
    <3> QED
      BY <1>1
  <2> QED
    BY <2>2, <2>3
<1>10. Solves(f)
  <2> DEFINE x == [p \in D |-> TagRule(s, f, p)]
  <2>1. x = [p \in D |-> f[p]]
    BY <1>9
  <2>2. f = [p \in D |-> f[p]]
    OBVIOUS
  <2> QED
    BY <2>1, <2>2
<1>11. more = CHOOSE g : Solves(g)
  BY DEF TagSuffixes, TagRule, WithTag, WithSubver, WordFrom
<1>12. Solves(more)
  <2> HIDE DEF Solves, more
  <2> QED
    BY <1>10, <1>11
<1> HIDE DEF more
<1>13. \A p \in D : more[p] = TagRule(s, more, p)
  BY <1>12
<1>14. \A p \in D : Good(more, p)
  <2> DEFINE T == {p \in 0..b : p = 0 \/ Good(more, p)}
  <2>1. ASSUME NEW p \in 0..b, \A q \in (p + 1)..b : q \in T
        PROVE  p \in T
    <3> SUFFICES ASSUME p # 0 PROVE Good(more, p)
      OBVIOUS
    <3>1. p \in D
      <4> HIDE DEF b
      <4> QED
        BY <1>1
    <3>2. \A q \in (p + 1)..b : more[q] \in V /\ more[q].end >= q
      <4> SUFFICES ASSUME NEW q \in (p + 1)..b PROVE more[q] \in V /\ more[q].end >= q
        OBVIOUS
      <4>1. q \in T
        BY <2>1
      <4>2. q # 0
        <5> HIDE DEF b, T
        <5> QED
          BY <3>1, <1>1
      <4> QED
        BY <4>1, <4>2
    <3>3. TagRule(s, more, p) \in TagParts(s) /\ TagRule(s, more, p).end >= p
      BY <3>1, <3>2, TagStep
    <3> QED
      BY <3>1, <3>3, <1>13
  <2>2. 0..b \subseteq T
    <3>1. \A p \in 0..b : (\A q \in (p + 1)..b : q \in T) => p \in T
      BY <2>1
    <3> HIDE DEF T, b
    <3> QED
      BY <3>1, <1>1, FromTheEnd
  <2>3. \A p \in D : p \in 0..b /\ p # 0
    <3> HIDE DEF b
    <3> QED
      BY <1>1
  <2> QED
    BY <2>2, <2>3
<1> QED
  BY <1>13, <1>14 DEF more

\* Where a version in a tag can begin.
LEMMA PastNameIs ==
    ASSUME NEW s \in Seq(TextChar), NEW i \in 1..Len(s)
    PROVE  PastName(s, i) \in i..Len(s)
<1> DEFINE H == Hyphens(s, i)
           n == Len(s)
<1>1. n \in Nat /\ i \in Int
  BY AtIs
<1>2. CASE H = {}
  <2>1. PastName(s, i) = i
    BY <1>2 DEF PastName
  <2> HIDE DEF n
  <2> QED
    BY <2>1, <1>1 DEF n
<1>3. CASE H # {}
  <2> DEFINE j == Min(H)
  <2>1. H \subseteq Nat
    BY <1>1 DEF Hyphens
  <2>2. j \in H
    <3> HIDE DEF H
    <3> QED
      BY <1>3, <2>1, LeastIs DEF j
  <2> HIDE DEF j
  <2>3. j \in (i + 1)..n /\ j + 1 \in 1..n
    BY <2>2, HyphenIs
  <2>4. PastName(s, i) = j + 1
    BY <1>3 DEF PastName, j
  <2> HIDE DEF n
  <2>5. j + 1 \in i..n
    BY <2>3, <1>1
  <2> QED
    BY <2>4, <2>5 DEF n
<1> QED
  BY <1>2, <1>3

LEMMA StartsIs ==
    ASSUME NEW s \in Seq(TextChar), NEW from \in 1..(Len(s) + 1), Starts(s, from) # {},
           NEW i, i = Min(Starts(s, from)), NEW v, v = PastName(s, i)
    PROVE  /\ i \in from..Len(s) /\ i \in 1..Len(s)
           /\ v \in i..Len(s) /\ v \in 1..Len(s) /\ s[v] \in Digit
           /\ NumberEnd(s, v) \in (v + 1)..(Len(s) + 1) /\ NumberEnd(s, v) \in 1..(Len(s) + 1)
<1> DEFINE T == Starts(s, from)
           n == Len(s)
           e == NumberEnd(s, v)
<1>1. n \in Nat /\ from \in Int /\ from >= 1
  BY AtIs
<1>2. T \subseteq Nat
  <2>1. \A k \in from..n : k \in Nat
    <3> HIDE DEF n
    <3> QED
      BY <1>1
  <2> QED
    BY <2>1 DEF Starts
<1>3. i \in T
  <2> HIDE DEF T
  <2> QED
    BY <1>2, LeastIs DEF T
<1>4. i \in from..n /\ s[v] \in Digit
  BY <1>3 DEF Starts
<1>5. i \in 1..n
  <2> HIDE DEF n
  <2> QED
    BY <1>1, <1>4
<1>6. v \in i..n
  BY <1>5, PastNameIs
<1>7. v \in 1..n /\ v \in 1..(n + 1) /\ v + 1 \in v..(n + 1) /\ \A k \in v..((v + 1) - 1) : k = v
  <2> HIDE DEF n
  <2> QED
    BY <1>1, <1>5, <1>6
<1>8. e \in v..(n + 1) /\ v + 1 <= e
  <2>1. NumberAt(s, v, v)
    BY <1>4 DEF NumberAt
  <2> QED
    BY <2>1, <1>7, NumberEndIs
<1>9. e \in (v + 1)..(n + 1) /\ e \in 1..(n + 1)
  <2> HIDE DEF n, e
  <2> QED
    BY <1>1, <1>7, <1>8
<1> QED
  BY <1>4, <1>5, <1>6, <1>7, <1>9

\* What is read: nothing, or a version and what may be behind it.
TagRead ==
    {r \in [ver : Seq(TextChar), tag : Suffixes, subver : Suffixes] :
        \/ r.ver = <<>> /\ r.tag = <<>> /\ r.subver = <<>>
        \/ IsVersion(r.ver)}

LEMMA TagMatchIs ==
    ASSUME NEW s \in Seq(TextChar), NEW from \in 1..(Len(s) + 1), Starts(s, from) # {}
    PROVE  /\ TagMatch(s, from).ver \in Seq(TextChar) /\ IsVersion(TagMatch(s, from).ver)
           /\ TagMatch(s, from).tag \in Suffixes /\ TagMatch(s, from).subver \in Suffixes
           /\ TagMatch(s, from).end \in (from + 1)..(Len(s) + 1)
           /\ TagMatch(s, from).end \in 1..(Len(s) + 1)
<1> DEFINE n == Len(s)
           i == Min(Starts(s, from))
           v == PastName(s, i)
           e == NumberEnd(s, v)
           w == SubSeq(s, v, e - 1)
           more == TagSuffixes(s)[e]
<1>1. n \in Nat /\ from \in Int /\ from >= 1
  BY AtIs
<1>2. /\ i \in from..n /\ v \in i..n /\ v \in 1..n /\ s[v] \in Digit
      /\ e \in (v + 1)..(n + 1) /\ e \in 1..(n + 1)
  BY StartsIs
<1>3. more \in TagParts(s) /\ more.end >= e
  BY <1>2, TagSuffixesDefined
<1>4. /\ TagMatch(s, from).ver = w /\ TagMatch(s, from).tag = more.tag
      /\ TagMatch(s, from).subver = more.subver /\ TagMatch(s, from).end = more.end
  BY DEF TagMatch
<1>5. w \in Seq(TextChar) /\ IsVersion(w)
  <2>1. w = SubSeq(s, v, NumberEnd(s, v) - 1) /\ v \in 1..Len(s) /\ s[v] \in Digit
    BY <1>2
  <2> HIDE DEF w, v
  <2> QED
    BY <2>1, NumberIsVersion
<1>6. more.tag \in Suffixes /\ more.subver \in Suffixes /\ more.end \in 1..(n + 1)
  <2> HIDE DEF more
  <2> QED
    BY <1>3 DEF TagParts
<1>7. more.end \in (from + 1)..(n + 1)
  <2> DEFINE k == more.end
  <2> HIDE DEF k, n, e, v, i
  <2> QED
    BY <1>1, <1>2, <1>3, <1>6 DEF k
<1> QED
  BY <1>4, <1>5, <1>6, <1>7

ReadOn(later, m) ==
    [ver |-> Or(later.ver, m.ver), tag |-> Or(later.tag, m.tag),
     subver |-> Or(later.subver, m.subver)]

ReadRule(s, f, from) ==
    IF Starts(s, from) = {} THEN [ver |-> <<>>, tag |-> <<>>, subver |-> <<>>]
    ELSE ReadOn(f[TagMatch(s, from).end], TagMatch(s, from))

LEMMA ReadOnIs ==
    ASSUME NEW later \in TagRead, NEW m,
           m.ver \in Seq(TextChar), IsVersion(m.ver),
           m.tag \in Suffixes, m.subver \in Suffixes
    PROVE  ReadOn(later, m) \in TagRead
  BY DEF ReadOn, Or, TagRead

LEMMA ReadStep ==
    ASSUME NEW s \in Seq(TextChar), NEW from \in 1..(Len(s) + 1), NEW f,
           \A q \in (from + 1)..(Len(s) + 1) : f[q] \in TagRead
    PROVE  ReadRule(s, f, from) \in TagRead
<1>1. CASE Starts(s, from) = {}
  <2>1. [ver |-> <<>>, tag |-> <<>>, subver |-> <<>>] \in TagRead
    BY NoSuffix DEF TagRead
  <2> QED
    BY <1>1, <2>1 DEF ReadRule
<1>2. CASE Starts(s, from) # {}
  <2> DEFINE m == TagMatch(s, from)
             later == f[m.end]
  <2>1. /\ m.ver \in Seq(TextChar) /\ IsVersion(m.ver)
        /\ m.tag \in Suffixes /\ m.subver \in Suffixes
        /\ m.end \in (from + 1)..(Len(s) + 1)
    BY <1>2, TagMatchIs
  <2>2. ReadRule(s, f, from) = ReadOn(later, m)
    BY <1>2 DEF ReadRule
  <2> HIDE DEF m
  <2>3. later \in TagRead
    BY <2>1
  <2> HIDE DEF later
  <2>4. ReadOn(later, m) \in TagRead
    BY <2>1, <2>3, ReadOnIs
  <2> QED
    BY <2>2, <2>4
<1> QED
  BY <1>1, <1>2

LEMMA TagFromDefined ==
    ASSUME NEW s \in Seq(TextChar)
    PROVE  \A from \in 1..(Len(s) + 1) :
              /\ TagFrom(s)[from] \in TagRead
              /\ TagFrom(s)[from] = ReadRule(s, TagFrom(s), from)
<1> DEFINE b == Len(s) + 1
           D == 1..b
           V == TagRead
           rank == [p \in D |-> b - p]
           Rule == [p \in D |-> [f \in [D -> V] |-> ReadRule(s, f, p)]]
           Solves(g) == g = [p \in D |-> ReadRule(s, g, p)]
           read == TagFrom(s)
<1>1. b \in Nat /\ b >= 1 /\ rank \in [D -> 0..b]
  <2>1. b \in Nat /\ b >= 1
    BY AtIs
  <2> HIDE DEF b
  <2>2. \A p \in 1..b : b - p \in 0..b
    BY <2>1
  <2> QED
    BY <2>1, <2>2
<1>2. ASSUME NEW p \in D, NEW q \in (p + 1)..b
      PROVE  q \in D /\ rank[q] < rank[p]
  <2> HIDE DEF b
  <2>1. q \in 1..b /\ b - q < b - p
    BY <1>1
  <2> QED
    BY <2>1
<1>3. ASSUME NEW p \in D, NEW f \in [D -> V]
      PROVE  ReadRule(s, f, p) \in V
  <2>1. \A q \in (p + 1)..b : f[q] \in TagRead
    <3> SUFFICES ASSUME NEW q \in (p + 1)..b PROVE f[q] \in TagRead
      OBVIOUS
    <3>1. q \in D
      BY <1>2
    <3> QED
      BY <3>1
  <2> QED
    BY <2>1, ReadStep
<1>4. Rule \in [D -> [[D -> V] -> V]]
  BY <1>3
<1>5. ASSUME NEW p \in D, NEW f \in [D -> V], NEW g \in [D -> V],
             \A q \in D : rank[q] < rank[p] => f[q] = g[q]
      PROVE  Rule[p][f] = Rule[p][g]
  <2>1. \A q \in (p + 1)..b : f[q] = g[q]
    BY <1>2, <1>5
  <2>2. ReadRule(s, f, p) = ReadRule(s, g, p)
    <3>1. CASE Starts(s, p) = {}
      BY <3>1 DEF ReadRule
    <3>2. CASE Starts(s, p) # {}
      <4>1. TagMatch(s, p).end \in (p + 1)..b
        BY <3>2, TagMatchIs
      <4>2. f[TagMatch(s, p).end] = g[TagMatch(s, p).end]
        <5> HIDE DEF b
        <5> QED
          BY <2>1, <4>1
      <4> QED
        BY <3>2, <4>2 DEF ReadRule
    <3> QED
      BY <3>1, <3>2
  <2> QED
    BY <2>2
<1>6. PICK f \in [D -> V] : \A p \in D : f[p] = Rule[p][f]
  <2>1. V # {}
    <3>1. [ver |-> <<>>, tag |-> <<>>, subver |-> <<>>] \in TagRead
      BY NoSuffix DEF TagRead
    <3> QED
      BY <3>1
  <2> HIDE DEF D, V, rank, Rule, b
  <2>2. Grounded(D, V, b, rank, Rule)
    BY <2>1, <1>1, <1>4, <1>5 DEF Grounded
  <2> QED
    BY <2>2, RecursionHasASolution
<1>7. Solves(f)
  BY <1>6
<1>8. read = CHOOSE g : Solves(g)
  BY DEF TagFrom, ReadRule, ReadOn
<1>9. Solves(read)
  <2> HIDE DEF Solves, read
  <2> QED
    BY <1>7, <1>8
<1> HIDE DEF read
<1>10. \A p \in D : read[p] = ReadRule(s, read, p)
  BY <1>9
<1>11. \A p \in D : read[p] \in V
  <2> DEFINE T == {p \in 0..b : p = 0 \/ read[p] \in V}
  <2>1. ASSUME NEW p \in 0..b, \A q \in (p + 1)..b : q \in T
        PROVE  p \in T
    <3> SUFFICES ASSUME p # 0 PROVE read[p] \in V
      OBVIOUS
    <3>1. p \in D
      <4> HIDE DEF b
      <4> QED
        BY <1>1
    <3>2. \A q \in (p + 1)..b : read[q] \in V
      <4> SUFFICES ASSUME NEW q \in (p + 1)..b PROVE read[q] \in V
        OBVIOUS
      <4>1. q \in T
        BY <2>1
      <4>2. q # 0
        <5> HIDE DEF b, T
        <5> QED
          BY <3>1, <1>1
      <4> HIDE DEF V
      <4> QED
        BY <4>1, <4>2
    <3>3. ReadRule(s, read, p) \in V
      BY <3>1, <3>2, ReadStep
    <3> QED
      BY <3>1, <3>3, <1>10
  <2>2. 0..b \subseteq T
    <3> HIDE DEF T, b
    <3>1. \A p \in 0..b : (\A q \in (p + 1)..b : q \in T) => p \in T
      BY <2>1
    <3> QED
      BY <3>1, <1>1, FromTheEnd
  <2>3. \A p \in D : p \in 0..b /\ p # 0
    <3> HIDE DEF b
    <3> QED
      BY <1>1
  <2> QED
    BY <2>2, <2>3
<1> QED
  BY <1>10, <1>11 DEF read

\* What is fetched.
IsFetched(t) ==
    \E n, b \in Seq(TextChar) : IsVersion(n) /\ Behind(b) /\ t = n \o b

Fetchable == {t \in Seq(TextChar) : t = <<>> \/ IsFetched(t)}

LEMMA FetchedIs ==
    ASSUME NEW s \in Seq(TextChar)
    PROVE  tag_to_portage_version(s) \in Fetchable
<1> DEFINE res == TagFrom(s)[1]
           tag == Joined(res.tag)
           subver == Joined(res.subver)
           ver == res.ver
           b == tag \o subver
<1>1. res \in TagRead
  <2>1. 1 \in 1..(Len(s) + 1)
    BY AtIs
  <2> QED
    BY <2>1, TagFromDefined
<1>2. tag_to_portage_version(s) = (ver \o tag) \o subver
  BY DEF tag_to_portage_version
<1> HIDE DEF res
<1>3. ver \in Seq(TextChar) /\ res.tag \in Suffixes /\ res.subver \in Suffixes
  BY <1>1 DEF TagRead
<1>4. /\ tag \in Seq(TextChar) /\ Behind(tag)
      /\ subver \in Seq(TextChar) /\ Behind(subver)
  <2>1. \A t \in Suffixes : Joined(t) \in Seq(TextChar) /\ Behind(Joined(t))
    BY JoinedIs DEF Suffixes
  <2> QED
    BY <2>1, <1>3
<1>5. CASE ver = <<>> /\ res.tag = <<>> /\ res.subver = <<>>
  <2>1. tag = <<>> /\ subver = <<>>
    BY <1>5 DEF Joined
  <2>2. (ver \o tag) \o subver = <<>>
    BY <1>5, <2>1
  <2> HIDE DEF ver, tag, subver
  <2> QED
    BY <1>2, <2>2 DEF Fetchable
<1>6. CASE IsVersion(ver)
  <2> HIDE DEF ver, tag, subver
  <2>1. b \in Seq(TextChar) /\ Behind(b)
    BY <1>4, BehindTogether
  <2>2. IsText(ver) /\ IsText(tag) /\ IsText(subver)
    BY <1>3, <1>4 DEF IsText, ver
  <2>3. Equals(ver \o (tag \o subver), (ver \o tag) \o subver)
    BY <2>2, Regrouped
  <2>4. ver \in Seq(TextChar)
    BY <2>2 DEF IsText
  <2> HIDE DEF b
  <2>5. ver \o b \in Seq(TextChar)
    BY <2>1, <2>4, ConcatIs
  <2> DEFINE t == ver \o b
  <2>6. tag_to_portage_version(s) = t
    BY <1>2, <2>3 DEF b, Equals
  <2>7. IsFetched(t)
    BY <1>6, <2>1, <2>4 DEF IsFetched
  <2> HIDE DEF t
  <2>8. t \in Seq(TextChar)
    BY <2>5 DEF t
  <2> QED
    BY <2>6, <2>7, <2>8 DEF Fetchable
<1>7. (ver = <<>> /\ res.tag = <<>> /\ res.subver = <<>>) \/ IsVersion(ver)
  BY <1>1 DEF TagRead
<1> QED
  BY <1>5, <1>6, <1>7

---------------------------------------------------------------------------
(* What is read in a plain tag.                                            *)

\* A text with a number at its end, behind a prefix of a length.
NumberBehind(s, t, o) ==
    /\ s \in Seq(TextChar) /\ IsDotted(t) /\ Within(t, s, o)
    /\ Len(s) = o + Len(t)

LEMMA NumberBehindIs ==
    ASSUME NEW s, NEW t, NEW o, NumberBehind(s, t, o)
    PROVE  /\ s \in Seq(TextChar) /\ Len(s) \in Nat /\ o \in Nat
           /\ o + 1 \in 1..Len(s) /\ s[o + 1] \in Digit
           /\ \A j \in 1..Len(s) : s[j] = "-" => j <= o
           /\ NumberEnd(s, o + 1) = Len(s) + 1
           /\ SubSeq(s, o + 1, Len(s)) = t
<1> DEFINE n == Len(s)
           l == Len(t)
           e == o + l + 1
<1>1. /\ s \in Seq(TextChar) /\ IsDotted(t) /\ Within(t, s, o) /\ n = o + l
      /\ t \in Seq(TextChar) /\ o \in Nat /\ l >= 1 /\ t[1] \in Digit
      /\ \A i \in 1..l : t[i] = s[i + o]
      /\ \A i \in 1..l : t[i] \in Digit \/ t[i] = "."
  BY DEF NumberBehind, IsDotted, Within
<1>2. n \in Nat /\ l \in Nat
  BY <1>1, AtIs
<1>3. /\ o + 1 \in 1..n /\ 1 \in 1..l /\ 1 + o = o + 1 /\ e = n + 1 /\ e \in Int /\ e \notin 1..n
      /\ o + 1 \in 1..(n + 1) /\ n \in ((o + 1) - 1)..n /\ n - (o + 1) + 1 = l
  <2> HIDE DEF n, l
  <2> QED
    BY <1>1, <1>2 DEF e
<1>4. s[o + 1] \in Digit
  <2> HIDE DEF l
  <2> QED
    BY <1>1, <1>3
<1>5. ASSUME NEW j \in 1..n, s[j] = "-" PROVE j <= o
  <2> SUFFICES ASSUME j > o PROVE FALSE
    BY <1>1
  <2>1. j - o \in 1..l /\ (j - o) + o = j
    <3> HIDE DEF n, l
    <3> QED
      BY <1>1, <1>2
  <2> DEFINE i == j - o
  <2>2. t[i] = s[i + o] /\ (t[i] \in Digit \/ t[i] = ".")
    <3> HIDE DEF i, l
    <3> QED
      BY <2>1, <1>1 DEF i
  <2>3. t[i] = "-"
    <3> HIDE DEF i
    <3> QED
      BY <2>1, <2>2, <1>5 DEF i
  <2> HIDE DEF i
  <2> QED
    BY <2>2, <2>3, NoDigit
<1>6. NumberEnd(s, o + 1) = e
  <2>1. At(s, e) = "end"
    <3> HIDE DEF e
    <3> QED
      BY <1>1, <1>3, AtIs
  <2>2. At(s, e) \notin Digit \cup {"."}
    BY <2>1, NoDigit
  <2> HIDE DEF e
  <2> QED
    BY <2>2, <1>1, DottedEnds DEF e
<1>7. SubSeq(s, o + 1, n) = t
  <2> DEFINE x == SubSeq(s, o + 1, n)
             p == o + 1
  <2>1. /\ x \in Seq(TextChar) /\ Len(x) = n - p + 1
        /\ \A i \in 1..(n - p + 1) : x[i] = s[i + p - 1]
    <3>1. p \in 1..(n + 1) /\ n \in (p - 1)..n
      BY <1>3
    <3> HIDE DEF p
    <3> QED
      BY <3>1, <1>1, SubSeqIs DEF p
  <2> HIDE DEF x
  <2>2. Len(x) = l
    BY <2>1, <1>3
  <2>3. \A i \in 1..l : x[i] = t[i]
    <3> SUFFICES ASSUME NEW i \in 1..l PROVE x[i] = t[i]
      OBVIOUS
    <3>1. i \in 1..(n - p + 1) /\ i + p - 1 = i + o
      <4> HIDE DEF l, n
      <4> QED
        BY <1>1, <1>2, <1>3
    <3>2. x[i] = s[i + p - 1]
      <4> HIDE DEF p, n
      <4> QED
        BY <2>1, <3>1
    <3> HIDE DEF p, l
    <3> QED
      BY <3>1, <3>2, <1>1
  <2>4. x = t
    <3> HIDE DEF l
    <3> QED
      BY <2>1, <2>2, <2>3, <1>1 DEF l
  <2> QED
    BY <2>4 DEF x
<1> QED
  BY <1>1, <1>2, <1>3, <1>4, <1>5, <1>6, <1>7

\* Then the number is all that is read, if it is where the first match begins.
LEMMA NumberIsRead ==
    ASSUME NEW s, NEW t, NEW o, NumberBehind(s, t, o), Starts(s, 1) # {},
           PastName(s, Min(Starts(s, 1))) = o + 1
    PROVE  tag_to_portage_version(s) = t
<1> DEFINE n == Len(s)
           e == n + 1
           m == TagMatch(s, 1)
           R == TagFrom(s)
           last == TagSuffixes(s)[e]
<1>1. /\ s \in Seq(TextChar) /\ n \in Nat /\ NumberEnd(s, o + 1) = e
      /\ SubSeq(s, o + 1, n) = t
  BY NumberBehindIs
<1>2. e \in 1..e /\ e \in Int /\ 1 \in 1..e /\ e - 1 = n /\ e \notin 1..n /\ e..n = {}
      /\ \A k \in e..e : k = e
  <2> HIDE DEF n
  <2> QED
    BY <1>1
<1>3. last.tag = <<>> /\ last.subver = <<>> /\ last.end = e
  <2>1. At(s, e) = "end"
    <3> HIDE DEF e
    <3> QED
      BY <1>1, <1>2, AtIs
  <2>2. WordFrom(s, e) = e
    BY <2>1, NoUnderscore DEF WordFrom
  <2>3. WordEnd(s, e) = e
    <3>1. WordEnd(s, e) \in e..(n + 1)
      BY <1>1, <1>2, WordEndRange
    <3> QED
      BY <3>1, <1>2
  <2>4. ~ (e > e)
    <3> HIDE DEF e
    <3> QED
      BY <1>2
  <2>5. last = TagRule(s, TagSuffixes(s), e)
    BY <1>1, <1>2, TagSuffixesDefined
  <2>6. At(s, e) \notin Letter
    BY <2>1, NoLetter
  <2>7. last = [tag |-> <<>>, subver |-> <<>>, end |-> RevisionEnd(s, e)]
    <3> HIDE DEF e, last
    <3> QED
      BY <2>2, <2>3, <2>4, <2>5, <2>6 DEF TagRule
  <2>8. RevisionEnd(s, e) = e
    <3>1. RevisionEnd(s, e) \in e..(n + 1)
      BY <1>1, <1>2, RevisionEndRange
    <3> QED
      BY <3>1, <1>2
  <2> HIDE DEF e, last
  <2> QED
    BY <2>7, <2>8
<1>4. m.ver = t /\ m.tag = <<>> /\ m.subver = <<>> /\ m.end = e
  <2> DEFINE v == PastName(s, Min(Starts(s, 1)))
             till == NumberEnd(s, v)
             more == TagSuffixes(s)[till]
  <2>1. /\ m.ver = SubSeq(s, v, till - 1) /\ m.tag = more.tag
        /\ m.subver = more.subver /\ m.end = more.end
    BY DEF TagMatch
  <2>2. v = o + 1 /\ till = e
    BY <1>1
  <2>3. m.ver = SubSeq(s, o + 1, e - 1) /\ m.tag = last.tag /\ m.subver = last.subver /\ m.end = last.end
    <3> HIDE DEF m, v, e
    <3> QED
      BY <2>1, <2>2
  <2> HIDE DEF m, e, last
  <2> QED
    BY <2>3, <1>1, <1>2, <1>3
<1>5. R[e] = [ver |-> <<>>, tag |-> <<>>, subver |-> <<>>]
  <2>1. R[e] = ReadRule(s, R, e)
    BY <1>1, <1>2, TagFromDefined
  <2>2. Starts(s, e) = {}
    BY <1>2 DEF Starts
  <2> HIDE DEF R, e
  <2> QED
    BY <2>1, <2>2 DEF ReadRule
<1>6. R[1] = ReadOn(R[e], m)
  <2>1. R[1] = ReadRule(s, R, 1)
    BY <1>1, <1>2, TagFromDefined
  <2> HIDE DEF R, e, m
  <2> QED
    BY <2>1, <1>4 DEF ReadRule, m
<1>7. R[1] = [ver |-> t, tag |-> <<>>, subver |-> <<>>]
  <2> HIDE DEF R, m, e
  <2> QED
    BY <1>4, <1>5, <1>6 DEF ReadOn, Or
<1>8. tag_to_portage_version(s) = (t \o <<>>) \o <<>>
  <2> DEFINE r == R[1]
  <2>1. tag_to_portage_version(s) = (r.ver \o Joined(r.tag)) \o Joined(r.subver)
    BY DEF tag_to_portage_version
  <2>2. r = [ver |-> t, tag |-> <<>>, subver |-> <<>>]
    BY <1>7
  <2> HIDE DEF r
  <2>3. r.ver = t /\ r.tag = <<>> /\ r.subver = <<>>
    BY <2>2
  <2>4. Joined(<<>>) = <<>>
    BY DEF Joined
  <2> QED
    BY <2>1, <2>3, <2>4
<1>9. t \in Seq(TextChar)
  BY DEF NumberBehind, IsDotted
<1> QED
  BY <1>8, <1>9

\* There is no hyphen behind the number's first digit.
LEMMA HyphensBefore ==
    ASSUME NEW s, NEW t, NEW o, NumberBehind(s, t, o), NEW i \in 1..Len(s),
           NEW j \in Hyphens(s, i)
    PROVE  j <= o /\ j \in (i + 1)..Len(s) /\ j + 1 \in 1..Len(s) /\ j \in Int
<1>1. s \in Seq(TextChar) /\ \A k \in 1..Len(s) : s[k] = "-" => k <= o
  BY NumberBehindIs
<1>2. j \in (i + 1)..Len(s) /\ j \in 1..Len(s) /\ j + 1 \in 1..Len(s) /\ s[j] = "-"
  BY <1>1, HyphenIs
<1> QED
  BY <1>1, <1>2

\* No digit is before the number.
LEMMA PlainWithoutDigits ==
    ASSUME NEW s, NEW t, NEW o, NumberBehind(s, t, o), \A i \in 1..o : s[i] \notin Digit
    PROVE  tag_to_portage_version(s) = t
<1> DEFINE n == Len(s)
           T == Starts(s, 1)
           i == Min(T)
           v == PastName(s, i)
<1>1. /\ s \in Seq(TextChar) /\ n \in Nat /\ o \in Nat /\ o + 1 \in 1..n /\ s[o + 1] \in Digit
      /\ 1 \in 1..(n + 1)
  <2>1. /\ s \in Seq(TextChar) /\ n \in Nat /\ o \in Nat /\ o + 1 \in 1..n /\ s[o + 1] \in Digit
    BY NumberBehindIs
  <2> HIDE DEF n
  <2> QED
    BY <2>1
<1>2. o + 1 \in T
  <2>1. Hyphens(s, o + 1) = {}
    <3> SUFFICES ASSUME NEW j \in Hyphens(s, o + 1) PROVE FALSE
      OBVIOUS
    <3> DEFINE k == o + 1
    <3>1. k \in 1..n /\ j \in Hyphens(s, k)
      BY <1>1
    <3> HIDE DEF k
    <3>2. j <= o /\ j \in (k + 1)..Len(s) /\ j \in Int
      BY <3>1, HyphensBefore
    <3> HIDE DEF n
    <3> QED
      BY <3>2, <1>1 DEF k
  <2>2. PastName(s, o + 1) = o + 1
    BY <2>1 DEF PastName
  <2> QED
    BY <2>2, <1>1 DEF Starts
<1>3. T # {}
  BY <1>2
<1>4. i \in 1..n /\ v \in i..n /\ v \in 1..n /\ s[v] \in Digit
  BY <1>1, <1>3, StartsIs
<1>5. i <= o + 1
  <2>1. T \subseteq Nat
    BY <1>1 DEF Starts
  <2> HIDE DEF T
  <2> QED
    BY <2>1, <1>2, LeastIs
<1>6. v <= o + 1
  <2> DEFINE H == Hyphens(s, i)
  <2>1. CASE H = {}
    <3>1. v = i
      BY <2>1 DEF PastName
    <3> QED
      BY <3>1, <1>5
  <2>2. CASE H # {}
    <3> DEFINE j == Min(H)
    <3>1. v = j + 1
      BY <2>2 DEF PastName
    <3>2. H \subseteq Nat
      <4> HIDE DEF i
      <4> QED
        BY <1>1, <1>4 DEF Hyphens
    <3>3. j \in H
      <4> HIDE DEF H
      <4> QED
        BY <2>2, <3>2, LeastIs
    <3>4. j <= o /\ j \in Int
      <4> HIDE DEF i, j
      <4> QED
        BY <3>3, <1>4, HyphensBefore
    <3> HIDE DEF j, v
    <3> QED
      BY <3>1, <3>4, <1>1
  <2> QED
    BY <2>1, <2>2
<1>7. v > o
  <2> SUFFICES ASSUME ~ (v > o) PROVE FALSE
    OBVIOUS
  <2>1. v \in 1..o
    <3> HIDE DEF v, n, i
    <3> QED
      BY <1>1, <1>4
  <2> QED
    BY <2>1, <1>4
<1>8. v = o + 1
  <2> HIDE DEF v, n, i
  <2> QED
    BY <1>1, <1>4, <1>6, <1>7
<1> QED
  BY <1>3, <1>8, NumberIsRead

\* Its name ends at the first hyphen with a digit behind it.
LEMMA PlainWithName ==
    ASSUME NEW s, NEW t, NEW o, NumberBehind(s, t, o), o >= 1, o \in Hyphens(s, 1),
           \A j \in Hyphens(s, 1) : j >= o
    PROVE  tag_to_portage_version(s) = t
<1> DEFINE n == Len(s)
           T == Starts(s, 1)
           H == Hyphens(s, 1)
           i == Min(T)
<1>1. /\ s \in Seq(TextChar) /\ n \in Nat /\ o \in Nat /\ o + 1 \in 1..n /\ s[o + 1] \in Digit
  BY NumberBehindIs
<1>2. Min(H) = o
  <2>1. H \subseteq Nat
    BY <1>1 DEF Hyphens
  <2>2. Min(H) \in H /\ Min(H) <= o
    <3> HIDE DEF H
    <3>1. o \in H
      BY DEF H
    <3> QED
      BY <2>1, <3>1, LeastIs
  <2>3. Min(H) >= o /\ Min(H) \in Nat
    BY <2>1, <2>2
  <2> DEFINE x == Min(H)
  <2> HIDE DEF x, H
  <2>4. x = o
    BY <2>2, <2>3, <1>1 DEF x
  <2> QED
    BY <2>4 DEF x
<1>3. PastName(s, 1) = o + 1
  BY <1>2 DEF PastName
<1>4. 1 \in 1..n
  <2> HIDE DEF n
  <2> QED
    BY <1>1
<1>5. 1 \in T
  BY <1>1, <1>3, <1>4 DEF Starts
<1>6. i = 1
  <2>1. T \subseteq 1..n
    BY DEF Starts
  <2>2. T \subseteq Nat
    <3> HIDE DEF T, n
    <3> QED
      BY <2>1, <1>1
  <2>3. i \in T /\ i <= 1
    <3> HIDE DEF T
    <3> QED
      BY <1>5, <2>2, LeastIs DEF i
  <2> HIDE DEF i, T, n
  <2> QED
    BY <2>1, <2>3, <1>1
<1>7. PastName(s, i) = o + 1
  BY <1>3, <1>6
<1>8. T # {}
  BY <1>5
<1> QED
  BY <1>7, <1>8, NumberIsRead

LEMMA PlainTagIsItsNumber ==
    ASSUME NEW rel, rel.folders \in Seq(Seq(TextChar)), rel.prefix \in Seq(TextChar),
           rel.suffix \in Seq(TextChar), rel.number \in Seq(Nat), rel.number # <<>>, Plain(rel)
    PROVE  tag_to_portage_version(FifthSegment(rel)) = Dotted(rel.number)
<1> DEFINE p == rel.prefix
           t == Dotted(rel.number)
           o == Len(p)
           s == p \o t
           zero == <<"0">>
           z == Append(p, "0")
<1>1. IsDotted(t) /\ t \in Seq(TextChar) /\ p \in Seq(TextChar)
  <2> DEFINE num == rel.number
  <2>1. num \in Seq(Nat) /\ num # <<>>
    OBVIOUS
  <2> HIDE DEF num
  <2>2. IsDotted(Dotted(num))
    BY <2>1, DottedIs
  <2>3. IsDotted(t)
    BY <2>2 DEF num
  <2> HIDE DEF t
  <2> QED
    BY <2>3 DEF IsDotted
<1>2. FifthSegment(rel) = s
  <2>1. rel.folders = <<>> /\ rel.suffix = <<>>
    BY DEF Plain
  <2>2. Tag(rel) = Append(<<>>, s \o <<>>)
    BY <2>1 DEF Tag
  <2>3. s \in Seq(TextChar)
    <3> HIDE DEF p, t
    <3> QED
      BY <1>1, ConcatIs
  <2> HIDE DEF s
  <2>4. s \o <<>> = s
    BY <2>3
  <2>5. Tag(rel) = <<s>>
    BY <2>2, <2>4
  <2> QED
    BY <2>5 DEF FifthSegment
<1> HIDE DEF t, p
<1>3. /\ s \in Seq(TextChar) /\ Len(s) = o + Len(t) /\ o \in Nat /\ Len(t) \in Nat
      /\ \A i \in 1..o : s[i] = p[i]
      /\ \A i \in 1..Len(t) : s[i + o] = t[i]
  <2>1. /\ p \o t \in Seq(TextChar)
        /\ Len(p \o t) = Len(p) + Len(t)
        /\ \A i \in 1..Len(p) : (p \o t)[i] = p[i]
        /\ \A i \in 1..Len(t) : (p \o t)[i + Len(p)] = t[i]
    BY <1>1, ConcatIs
  <2>2. Len(p) \in Nat /\ Len(t) \in Nat
    BY <1>1
  <2> QED
    BY <2>1, <2>2
<1> HIDE DEF s
<1>4. NumberBehind(s, t, o)
  <2>1. o + Len(t) <= Len(s)
    <3> HIDE DEF o
    <3> QED
      BY <1>3
  <2> HIDE DEF o
  <2> QED
    BY <2>1, <1>1, <1>3 DEF NumberBehind, Within
<1>5. CASE \A i \in DOMAIN p : p[i] \notin Digit
  <2>1. DOMAIN p = 1..o
    BY <1>1
  <2>2. \A i \in 1..o : s[i] \notin Digit
    BY <2>1, <1>3, <1>5
  <2> HIDE DEF o
  <2>3. tag_to_portage_version(s) = t
    BY <2>2, <1>4, PlainWithoutDigits
  <2> QED
    BY <2>3, <1>2 DEF t
<1>6. CASE Hyphens(z, 1) # {} /\ o = Min(Hyphens(z, 1))
  <2>1. /\ z \in Seq(TextChar) /\ Len(z) = o + 1
        /\ \A i \in 1..o : z[i] = p[i]
        /\ z[o + 1] = "0"
    <3>1. "0" \in TextChar
      BY DEF TextChar, NameChar, WordChar, Digit
    <3> QED
      BY <3>1, <1>1
  <2>2. s[o + 1] \in Digit /\ z[o + 1] \in Digit /\ o + 1 \in 1..Len(s)
    <3>1. s[o + 1] \in Digit /\ o + 1 \in 1..Len(s)
      <4> HIDE DEF o
      <4> QED
        BY <1>4, NumberBehindIs
    <3>2. "0" \in Digit
      BY DEF Digit
    <3> QED
      BY <2>1, <3>1, <3>2
  <2> HIDE DEF z
  <2>3. /\ o \in Hyphens(z, 1)
        /\ \A j \in Hyphens(z, 1) : j >= o
    <3> DEFINE T == Hyphens(z, 1)
    <3>1. T \subseteq Nat
      BY <2>1, <1>3 DEF Hyphens
    <3> HIDE DEF T
    <3>2. Min(T) \in T /\ \A j \in T : Min(T) <= j
      BY <3>1, <1>6, LeastIs DEF T
    <3>3. o = Min(T)
      BY <1>6 DEF T
    <3> HIDE DEF o
    <3>4. o \in T /\ \A j \in T : o <= j
      BY <3>2, <3>3
    <3>5. \A j \in T : j >= o
      BY <3>1, <3>4
    <3> QED
      BY <3>4, <3>5 DEF T
  <2> HIDE DEF o
  <2>4. o \in (1 + 1)..(o + 1) /\ o >= 1 /\ 1 \in 1..o
    <3>1. o \in (1 + 1)..Len(z)
      BY <2>3 DEF Hyphens
    <3> QED
      BY <3>1, <2>1, <1>3
  <2>5. \A i \in 1..(o + 1) : At(z, i) = z[i] /\ At(s, i) = s[i]
    <3> SUFFICES ASSUME NEW i \in 1..(o + 1) PROVE At(z, i) = z[i] /\ At(s, i) = s[i]
      OBVIOUS
    <3>1. i \in 1..Len(z) /\ i \in 1..Len(s)
      BY <2>1, <2>2, <1>3
    <3> QED
      BY <3>1, <2>1, <1>3, AtIs
  <2>6. \A i \in 1..o : z[i] = s[i]
    BY <2>1, <1>3
  <2>7. ASSUME NEW j \in 2..o
        PROVE  j \in Hyphens(z, 1) <=> j \in Hyphens(s, 1)
    <3>1. j \in 1..o /\ j + 1 \in 1..(o + 1) /\ j \in (1 + 1)..Len(z) /\ j \in (1 + 1)..Len(s)
          /\ \A k \in (1 + 1)..(j - 1) : k \in 1..o
      <4> DEFINE a == Len(z)
                 b == Len(s)
      <4>1. o \in Nat /\ a = o + 1 /\ b \in Nat /\ o + 1 <= b
        <5> HIDE DEF o
        <5>1. Len(z) = o + 1 /\ o \in Nat /\ o + 1 \in 1..Len(s)
          BY <2>1, <2>2, <1>3
        <5>2. Len(s) \in Nat
          BY <1>3
        <5> QED
          BY <5>1, <5>2
      <4> HIDE DEF a, b, o
      <4>2. j \in 1..o /\ j + 1 \in 1..(o + 1) /\ j \in (1 + 1)..a /\ j \in (1 + 1)..b
        BY <4>1
      <4>3. \A k \in (1 + 1)..(j - 1) : k \in 1..o
        BY <4>1
      <4> QED
        BY <4>2, <4>3 DEF a, b
    <3>2. At(z, j + 1) \in Digit <=> At(s, j + 1) \in Digit
      <4>1. CASE j = o
        BY <4>1, <3>1, <2>2, <2>5
      <4>2. CASE j # o
        <5>1. j + 1 \in 1..o
          BY <4>2, <1>3
        <5> QED
          BY <5>1, <3>1, <2>5, <2>6
      <4> QED
        BY <4>1, <4>2
    <3>3. z[1] = s[1] /\ z[j] = s[j] /\ \A k \in (1 + 1)..(j - 1) : z[k] = s[k]
      BY <3>1, <2>4, <2>6
    <3> QED
      BY <3>1, <3>2, <3>3 DEF Hyphens
  <2>8. o \in Hyphens(s, 1)
    <3>1. o \in 2..o
      BY <2>4
    <3> QED
      BY <3>1, <2>3, <2>7
  <2>9. ASSUME NEW j \in Hyphens(s, 1) PROVE j >= o
    <3>1. 1 \in 1..Len(s)
      BY <2>2, <1>3
    <3>2. j <= o /\ j \in (1 + 1)..Len(s)
      BY <3>1, <1>4, HyphensBefore
    <3>3. j \in 2..o
      BY <3>2, <1>3
    <3> QED
      BY <3>3, <2>3, <2>7
  <2>10. tag_to_portage_version(s) = t
    BY <2>4, <2>8, <2>9, <1>4, PlainWithName
  <2> QED
    BY <2>10, <1>2 DEF t
<1>7. \/ \A i \in DOMAIN p : p[i] \notin Digit
      \/ Hyphens(z, 1) # {} /\ o = Min(Hyphens(z, 1))
  BY DEF Plain, p
<1> QED
  BY <1>5, <1>6, <1>7

---------------------------------------------------------------------------
(* What is read of any name.                                               *)

\* What is not empty has a version.
LEMMA ParsedHasVersion ==
    ASSUME NEW s \in Seq(TextChar)
    PROVE  /\ parse_ebuild_name(s) \in Parsed
           /\ parse_ebuild_name(s).ver = <<>> \/ IsVersion(parse_ebuild_name(s).ver)
           /\ parse_ebuild_name(s) # NotParsed => parse_ebuild_name(s).ver # <<>>
<1> DEFINE X == ParsedFrom(s)
           m == PortageMatch(s, 1)
           P == parse_ebuild_name(s)
<1>1. 1 \in 1..(Len(s) + 1) /\ P = X[1]
  BY AtIs DEF parse_ebuild_name
<1>2. P \in Parsed
  BY <1>1, ParsedFromDefined
<1>3. P.ver = <<>> \/ IsVersion(P.ver)
  BY <1>1, ParsedVersion
<1>4. ASSUME P # NotParsed PROVE P.ver # <<>>
  <2>1. P = ParseRule(s, X, 1)
    BY <1>1, ParsedFromDefined
  <2>2. ~ NoMatch(s, 1)
    <3> HIDE DEF P, X
    <3> QED
      BY <2>1, <1>4 DEF ParseRule
  <2>3. P = Over(X[m.end], m)
    <3> HIDE DEF P, X
    <3> QED
      BY <2>1, <2>2 DEF ParseRule
  <2>4. m.ver # <<>>
    <3>1. IsVersion(m.ver)
      BY <2>2, <1>1, MatchIsParsed
    <3> QED
      BY <3>1 DEF IsVersion
  <2> DEFINE later == X[m.end]
  <2> HIDE DEF later, m, P
  <2>5. Over(later, m).ver = IF later.ver = <<>> THEN m.ver ELSE later.ver
    BY OverGives
  <2> QED
    BY <2>3, <2>4, <2>5 DEF later
<1> QED
  BY <1>2, <1>3, <1>4

---------------------------------------------------------------------------
(* What is merged.                                                         *)

LEMMA VersionIsSmooth ==
    ASSUME NEW n \in Seq(TextChar), IsVersion(n)
    PROVE  /\ WithoutHyphen(n) /\ Smooth(n)
           /\ n # <<>> /\ 1 \in 1..Len(n) /\ n[1] \in Digit
<1>1. n # <<>> /\ n[1] \in Digit /\ VersionEnd(n, 1) = Len(n) + 1 /\ Len(n) \in Nat /\ Len(n) # 0
  <2>1. n # <<>>
    BY DEF IsVersion
  <2> QED
    BY <2>1, EmptySeq DEF IsVersion
<1>2. 1 \in 1..(Len(n) + 1) /\ 1 \in 1..Len(n) /\ Len(n) \in 1..Len(n)
  BY <1>1
<1>3. \A i \in 1..(Len(n) + 1 - 1) : n[i] \in VersionChar
  BY <1>1, <1>2, VersionEndRange
<1>4. \A i \in 1..Len(n) : n[i] # "-"
  BY <1>1, <1>3, NoHyphens
<1> QED
  BY <1>1, <1>2, <1>4 DEF WithoutHyphen, Smooth, Mark

LEMMA FetchedBegins ==
    ASSUME NEW t \in Seq(TextChar), IsFetched(t)
    PROVE  t # <<>> /\ t[1] \in Digit /\ Smooth(t)
<1>1. PICK n \in Seq(TextChar), b \in Seq(TextChar) : IsVersion(n) /\ Behind(b) /\ t = n \o b
  BY DEF IsFetched
<1>2. Smooth(n) /\ n # <<>> /\ 1 \in 1..Len(n) /\ n[1] \in Digit
  BY <1>1, VersionIsSmooth
<1>3. Smooth(b)
  BY <1>1 DEF Behind
<1>4. Smooth(t)
  BY <1>1, <1>2, <1>3, SmoothTogether
<1>5. t[1] = n[1] /\ Len(t) = Len(n) + Len(b)
  BY <1>1, <1>2, ConcatIs
<1>6. Len(t) # 0
  BY <1>2, <1>5, AtIs
<1>7. t # <<>>
  BY <1>6, EmptySeq
<1> QED
  BY <1>2, <1>4, <1>5, <1>7

\* What may follow a smooth text without making a version of it.
Trails(b) ==
    /\ \A j \in 1..Len(b) : ~ Mark(b, j)
    /\ b = <<>> \/ (1 \in 1..Len(b) /\ b[1] = "-")

LEMMA NoMarkTogether ==
    ASSUME NEW a \in Seq(TextChar), NEW b \in Seq(TextChar), Smooth(a), Trails(b)
    PROVE  \A j \in 1..Len(a \o b) : ~ Mark(a \o b, j)
<1> DEFINE l == Len(a)
           m == Len(b)
           c == a \o b
<1>1. /\ l \in Nat /\ m \in Nat /\ c \in Seq(TextChar) /\ Len(c) = l + m
      /\ \A i \in 1..l : c[i] = a[i]
      /\ \A i \in 1..m : c[i + l] = b[i]
  BY ConcatIs, AtIs
<1> HIDE DEF c
<1> SUFFICES ASSUME NEW j \in 1..Len(c) PROVE ~ Mark(c, j)
  BY DEF c
<1>2. CASE j < l
  <2>1. j \in 1..l /\ j + 1 \in 1..l /\ j + 1 \in 1..Len(c)
    <3> HIDE DEF l, m
    <3> QED
      BY <1>1, <1>2
  <2>2. At(c, j + 1) = c[j + 1] /\ At(a, j + 1) = a[j + 1] /\ c[j + 1] = a[j + 1] /\ c[j] = a[j]
    BY <2>1, <1>1, AtIs
  <2> QED
    BY <2>1, <2>2 DEF Smooth, Mark
<1>3. CASE j = l
  <2>1. l # 0 /\ l \in 1..l
    <3> HIDE DEF l, m
    <3> QED
      BY <1>1, <1>3
  <2>2. a # <<>>
    BY <2>1
  <2>3. c[j] # "-"
    BY <2>1, <2>2, <1>1, <1>3 DEF Smooth
  <2> QED
    BY <2>3 DEF Mark
<1>4. CASE j > l
  <2> DEFINE i == j - l
  <2>1. i \in 1..m /\ i + l = j /\ (i + 1 \in 1..m => i + 1 + l = j + 1) /\ j \in Int
        /\ (j + 1 \in 1..Len(c) => i + 1 \in 1..m)
    <3> HIDE DEF l, m
    <3> QED
      BY <1>1, <1>4
  <2> HIDE DEF i
  <2>2. c[j] = b[i]
    BY <2>1, <1>1
  <2>3. CASE j + 1 \in 1..Len(c)
    <3>1. i + 1 \in 1..m /\ i + 1 + l = j + 1
      BY <2>1, <2>3
    <3>2. c[(i + 1) + l] = b[i + 1]
      BY <3>1, <1>1
    <3>3. At(c, j + 1) = At(b, i + 1)
      <4>1. At(c, j + 1) = c[j + 1]
        BY <2>3, <1>1, AtIs
      <4>2. At(b, i + 1) = b[i + 1]
        BY <3>1, <1>1, AtIs
      <4> QED
        BY <4>1, <4>2, <3>1, <3>2
    <3> QED
      BY <2>1, <2>2, <3>3 DEF Trails, Mark
  <2>4. CASE j + 1 \notin 1..Len(c)
    <3>1. j + 1 \in Int
      BY <2>1
    <3>2. At(c, j + 1) = "end"
      BY <3>1, <2>4, <1>1, AtIs
    <3> QED
      BY <3>2, NoDigit DEF Mark
  <2> QED
    BY <2>3, <2>4
<1>5. j \in Int /\ l \in Int
  BY <1>1
<1> QED
  BY <1>2, <1>3, <1>4, <1>5

\* Behind the hyphen of its package, a name has a version and a revision: nothing, or
\* a hyphen and rd.
Parted(s, ver, rev, rest) ==
    /\ ver \in Seq(TextChar) /\ rev \in Seq(TextChar) /\ rest \in Seq(TextChar)
    /\ ver # <<>> /\ ver[1] \in Digit /\ WithoutHyphen(ver)
    /\ Hyphened(pn, rest, s)
    /\ \/ rev = <<>> /\ rest = ver
       \/ \E rd \in Seq(TextChar) :
             /\ rev = <<"-">> \o rd /\ Hyphened(ver, rd, rest)
             /\ rd # <<>> /\ rd[1] = "r" /\ WithoutHyphen(rd)

LEMMA NameIsParted ==
    ASSUME pn \in Seq(TextChar), NEW s \in Seq(TextChar), Versioned(s) # <<>>
    PROVE  \E rest : Parted(s, PortageVersion(s), PortageRevision(s), rest)
<1> DEFINE l == Len(pn)
           h == HyphenAt
           e == VersionTill(s)
           n == Len(s)
           ver == SubSeq(s, h + 1, e - 1)
           rev == SubSeq(s, e, n)
           rest == SubSeq(s, h + 1, n)
           rd == SubSeq(s, e + 1, n)
<1>1. /\ h \in 1..n /\ h + 1 \in 1..n
      /\ \A i \in 1..l : s[i] = pn[i]
      /\ s[h] = "-" /\ s[h + 1] \in Digit
      /\ e \in (h + 2)..(n + 1)
      /\ RevisionEnd(s, e) = n + 1
      /\ PortageVersion(s) = ver
      /\ PortageRevision(s) = rev
  BY VersionedIs
<1>2. l \in Nat /\ h = l + 1 /\ n \in Nat
  BY AtIs DEF HyphenAt
<1>3. e = VersionEnd(s, h + 1) /\ h + 1 \in 1..(n + 1) /\ e \in 1..(n + 1)
  <2>1. e = VersionEnd(s, h + 1)
    BY DEF VersionTill
  <2> HIDE DEF l, h, e, n
  <2> QED
    BY <2>1, <1>1, <1>2
<1>4. \A i \in (h + 1)..(e - 1) : s[i] \in VersionChar
  BY <1>3, VersionEndRange
<1>5. \/ RevisionEnd(s, e) = e
      \/ /\ e \in 1..n /\ e + 1 \in 1..n /\ e + 2 \in 1..n
         /\ s[e] = "-" /\ s[e + 1] = "r" /\ RevisionEnd(s, e) = DigitsEnd(s, e + 2)
  BY <1>3, RevisionEndRange
<1> HIDE DEF l, h, e, n
<1>6. /\ e - 1 \in h..n /\ n \in h..n /\ (e - 1) - (h + 1) + 1 = e - 1 - h
      /\ n - (h + 1) + 1 = n - h /\ e - 1 - h \in Nat /\ e - 1 - h >= 1 /\ n - h \in Nat
      /\ n = l + 1 + (n - h) /\ (h + 1) - 1 = h
  BY <1>1, <1>2
<1>7. /\ ver \in Seq(TextChar) /\ Len(ver) = e - 1 - h
      /\ \A i \in 1..(e - 1 - h) : ver[i] = s[i + (h + 1) - 1]
  <2> DEFINE p == h + 1
             q == e - 1
  <2>1. p \in 1..(Len(s) + 1) /\ q \in (p - 1)..Len(s) /\ q - p + 1 = e - 1 - h
    BY <1>3, <1>6 DEF n
  <2> HIDE DEF p, q
  <2>2. /\ SubSeq(s, p, q) \in Seq(TextChar) /\ Len(SubSeq(s, p, q)) = q - p + 1
        /\ \A i \in 1..(q - p + 1) : SubSeq(s, p, q)[i] = s[i + p - 1]
    BY <2>1, SubSeqIs
  <2> QED
    BY <2>1, <2>2 DEF p, q
<1>8. /\ rest \in Seq(TextChar) /\ Len(rest) = n - h
      /\ \A i \in 1..(n - h) : rest[i] = s[i + (h + 1) - 1]
  <2> DEFINE p == h + 1
  <2>1. p \in 1..(Len(s) + 1) /\ n \in (p - 1)..Len(s) /\ n - p + 1 = n - h
    BY <1>3, <1>6 DEF n
  <2> HIDE DEF p
  <2>2. /\ SubSeq(s, p, n) \in Seq(TextChar) /\ Len(SubSeq(s, p, n)) = n - p + 1
        /\ \A i \in 1..(n - p + 1) : SubSeq(s, p, n)[i] = s[i + p - 1]
    <3> HIDE DEF n
    <3> QED
      BY <2>1, SubSeqIs
  <2> QED
    BY <2>1, <2>2 DEF p
<1> HIDE DEF ver, rest
<1>9. ver # <<>> /\ ver[1] \in Digit /\ WithoutHyphen(ver)
  <2>1. Len(ver) # 0 /\ 1 \in 1..(e - 1 - h) /\ 1 + (h + 1) - 1 = h + 1
    BY <1>6, <1>7, <1>2
  <2>2. ver[1] = s[1 + (h + 1) - 1]
    BY <2>1, <1>7
  <2>3. ASSUME NEW i \in 1..Len(ver) PROVE ver[i] # "-"
    <3>1. i \in 1..(e - 1 - h) /\ i + (h + 1) - 1 \in (h + 1)..(e - 1)
      BY <1>7, <1>6, <1>1, <1>2
    <3> QED
      BY <3>1, <1>7, <1>4, NoHyphens
  <2> QED
    BY <2>1, <2>2, <2>3, <1>1, <1>7, EmptySeq DEF WithoutHyphen
<1>10. Hyphened(pn, rest, s)
  <2>1. \A i \in 1..Len(rest) : s[i + (l + 1)] = rest[i]
    <3> SUFFICES ASSUME NEW i \in 1..(n - h) PROVE s[i + (l + 1)] = rest[i]
      BY <1>8
    <3>1. i + (l + 1) = i + (h + 1) - 1
      BY <1>2, <1>6
    <3> QED
      BY <3>1, <1>8
  <2>2. Len(s) = l + 1 + Len(rest)
    BY <1>6, <1>8 DEF n
  <2> QED
    BY <2>1, <2>2, <1>1, <1>2 DEF Hyphened, l
<1>11. CASE RevisionEnd(s, e) = e
  <2>1. e = n + 1
    BY <1>1, <1>11
  <2>2. rev = <<>>
    <3>1. n < e /\ e \in Int /\ n \in Int
      BY <2>1, <1>2
    <3> QED
      BY <3>1, EmptySubSeq
  <2>3. rest = ver
    <3>1. n - h = e - 1 - h
      BY <2>1, <1>1, <1>2
    <3> QED
      BY <3>1, <1>7, <1>8
  <2>4. Parted(s, ver, rev, rest)
    <3>1. rev \in Seq(TextChar)
      BY <2>2
    <3> HIDE DEF rev
    <3> QED
      BY <3>1, <2>2, <2>3, <1>7, <1>8, <1>9, <1>10 DEF Parted
  <2> QED
    BY <2>4, <1>1
<1>12. CASE RevisionEnd(s, e) # e
  <2>1. /\ e \in 1..n /\ e + 1 \in 1..n /\ e + 2 \in 1..n
        /\ s[e] = "-" /\ s[e + 1] = "r" /\ n + 1 = DigitsEnd(s, e + 2)
    BY <1>1, <1>5, <1>12
  <2>2. /\ n \in e..n /\ n - (e + 1) + 1 = n - e /\ n - e \in Nat /\ n - e >= 1 /\ e \in Int
        /\ e + 1 \in 1..(n + 1) /\ e \in 1..(n + 1) /\ n \in (e - 1)..n /\ n - e + 1 = 1 + (n - e)
        /\ (e + 1) - 1 = e
    BY <2>1, <1>2
  <2>3. /\ rd \in Seq(TextChar) /\ Len(rd) = n - e
        /\ \A i \in 1..(n - e) : rd[i] = s[i + (e + 1) - 1]
    <3> DEFINE p == e + 1
    <3>1. p \in 1..(Len(s) + 1) /\ n \in (p - 1)..Len(s) /\ n - p + 1 = n - e
      BY <2>2 DEF n
    <3> HIDE DEF p
    <3>2. /\ SubSeq(s, p, n) \in Seq(TextChar) /\ Len(SubSeq(s, p, n)) = n - p + 1
          /\ \A i \in 1..(n - p + 1) : SubSeq(s, p, n)[i] = s[i + p - 1]
      BY <3>1, SubSeqIs
    <3> QED
      BY <3>1, <3>2 DEF p
  <2>4. /\ rev \in Seq(TextChar) /\ Len(rev) = 1 + (n - e)
        /\ \A i \in 1..(1 + (n - e)) : rev[i] = s[i + e - 1]
    <3>1. e \in 1..(Len(s) + 1) /\ n \in (e - 1)..Len(s) /\ n - e + 1 = 1 + (n - e)
      BY <2>2 DEF n
    <3>2. /\ SubSeq(s, e, n) \in Seq(TextChar) /\ Len(SubSeq(s, e, n)) = n - e + 1
          /\ \A i \in 1..(n - e + 1) : SubSeq(s, e, n)[i] = s[i + e - 1]
      BY <3>1, SubSeqIs
    <3> QED
      BY <3>1, <3>2
  <2> HIDE DEF rd, rev
  <2>5. rev = <<"-">> \o rd
    <3> DEFINE d == <<"-">>
    <3>1. d \in Seq(TextChar) /\ Len(d) = 1 /\ d[1] = "-" /\ 1 \in 1..1
      BY DEF TextChar, NameChar
    <3> HIDE DEF d
    <3> DEFINE y == d \o rd
    <3>2. /\ y \in Seq(TextChar) /\ Len(y) = 1 + (n - e) /\ y[1] = "-"
          /\ \A i \in 1..(n - e) : y[i + 1] = rd[i]
      <4>1. /\ d \o rd \in Seq(TextChar) /\ Len(d \o rd) = Len(d) + Len(rd)
            /\ \A i \in 1..Len(d) : (d \o rd)[i] = d[i]
            /\ \A i \in 1..Len(rd) : (d \o rd)[i + Len(d)] = rd[i]
        BY <3>1, <2>3, ConcatIs
      <4> QED
        BY <4>1, <3>1, <2>3
    <3> HIDE DEF y
    <3>3. ASSUME NEW i \in 1..(1 + (n - e)) PROVE rev[i] = y[i]
      <4>1. CASE i = 1
        <5>1. 1 \in 1..(1 + (n - e)) /\ 1 + e - 1 = e
          BY <2>2
        <5>2. rev[1] = s[1 + e - 1]
          BY <5>1, <2>4
        <5> QED
          BY <4>1, <5>1, <5>2, <2>1, <3>2
      <4>2. CASE i # 1
        <5> DEFINE k == i - 1
        <5>1. k \in 1..(n - e) /\ k + 1 = i /\ k + (e + 1) - 1 = i + e - 1
          BY <4>2, <2>2
        <5> HIDE DEF k
        <5>2. y[k + 1] = rd[k] /\ rd[k] = s[k + (e + 1) - 1]
          BY <5>1, <3>2, <2>3
        <5> QED
          BY <5>1, <5>2, <2>4
      <4> QED
        BY <4>1, <4>2
    <3>4. rev = y
      BY <3>2, <3>3, <2>4
    <3> QED
      BY <3>4 DEF y, d
  <2>6. Hyphened(ver, rd, rest)
    <3>1. n - h = (e - 1 - h) + 1 + (n - e) /\ e - h = (e - 1 - h) + 1 /\ e - h \in 1..(n - h)
          /\ (e - h) + (h + 1) - 1 = e
      BY <2>1, <1>1, <1>2
    <3>2. ASSUME NEW i \in 1..(e - 1 - h) PROVE rest[i] = ver[i]
      <4>1. i \in 1..(n - h)
        BY <1>1, <1>2, <2>1
      <4> QED
        BY <4>1, <1>7, <1>8
    <3>3. rest[e - h] = "-"
      <4>1. rest[e - h] = s[(e - h) + (h + 1) - 1]
        BY <3>1, <1>8
      <4> QED
        BY <4>1, <3>1, <2>1
    <3>4. ASSUME NEW i \in 1..(n - e) PROVE rest[i + (e - h)] = rd[i]
      <4> DEFINE k == i + (e - h)
      <4>1. k \in 1..(n - h) /\ k + (h + 1) - 1 = i + (e + 1) - 1
        BY <1>1, <1>2, <2>1
      <4> HIDE DEF k
      <4>2. rest[k] = s[k + (h + 1) - 1] /\ rd[i] = s[i + (e + 1) - 1]
        BY <4>1, <1>8, <2>3
      <4>3. rest[k] = rd[i]
        BY <4>1, <4>2
      <4> QED
        BY <4>3 DEF k
    <3>5. Len(ver) + 1 = e - h /\ Len(rest) = Len(ver) + 1 + Len(rd) /\ Len(ver) = e - 1 - h /\ Len(rd) = n - e
      BY <3>1, <1>7, <1>8, <2>3
    <3> QED
      BY <3>2, <3>3, <3>4, <3>5, <1>8 DEF Hyphened
  <2>7. rd # <<>> /\ rd[1] = "r"
    <3>1. Len(rd) # 0 /\ 1 \in 1..(n - e) /\ 1 + (e + 1) - 1 = e + 1
      BY <2>2, <2>3
    <3>2. rd[1] = s[1 + (e + 1) - 1]
      BY <3>1, <2>3
    <3> QED
      BY <3>1, <3>2, <2>1, <2>3, EmptySeq
  <2>8. WithoutHyphen(rd)
    <3>1. \A i \in (e + 2)..(DigitsEnd(s, e + 2) - 1) : s[i] \in Digit
      <4>1. e + 2 \in 1..(n + 1)
        BY <2>1, <1>2
      <4> QED
        BY <4>1, DigitsEndIs DEF n
    <3> SUFFICES ASSUME NEW i \in 1..(n - e) PROVE rd[i] # "-"
      BY <2>3 DEF WithoutHyphen
    <3>2. CASE i = 1
      BY <3>2, <2>7
    <3>3. CASE i # 1
      <4> DEFINE k == i + (e + 1) - 1
      <4>1. k \in (e + 2)..(n + 1 - 1)
        BY <3>3, <2>2, <1>2
      <4>2. rd[i] = s[k]
        BY <2>3
      <4> HIDE DEF k
      <4>3. s[k] \in Digit
        <5> DEFINE f == DigitsEnd(s, e + 2)
        <5>1. n + 1 = f /\ \A j \in (e + 2)..(f - 1) : s[j] \in Digit
          BY <2>1, <3>1
        <5> HIDE DEF f
        <5> QED
          BY <5>1, <4>1, <1>2
      <4> QED
        BY <4>2, <4>3, NoHyphens
    <3> QED
      BY <3>2, <3>3
  <2>9. Parted(s, ver, rev, rest)
    BY <2>3, <2>4, <2>5, <2>6, <2>7, <2>8, <1>7, <1>8, <1>9, <1>10 DEF Parted
  <2> QED
    BY <2>9, <1>1
<1> QED
  BY <1>11, <1>12

\* A text with a hyphen before it.
LEMMA HyphenBefore ==
    ASSUME NEW t \in Seq(TextChar), NEW y, y = <<"-">> \o t
    PROVE  /\ y \in Seq(TextChar) /\ Len(y) = 1 + Len(t) /\ y[1] = "-" /\ 1 \in 1..Len(y)
           /\ \A i \in 1..Len(t) : y[i + 1] = t[i]
<1> DEFINE d == <<"-">>
<1>1. d \in Seq(TextChar) /\ Len(d) = 1 /\ d[1] = "-" /\ 1 \in 1..1 /\ y = d \o t
  BY DEF TextChar, NameChar
<1> HIDE DEF d
<1>2. /\ d \o t \in Seq(TextChar) /\ Len(d \o t) = Len(d) + Len(t)
      /\ \A i \in 1..Len(d) : (d \o t)[i] = d[i]
      /\ \A i \in 1..Len(t) : (d \o t)[i + Len(d)] = t[i]
  BY <1>1, ConcatIs
<1>3. Len(t) \in Nat
  BY AtIs
<1>4. Len(y) = 1 + Len(t)
  BY <1>1, <1>2
<1>5. 1 \in 1..Len(y)
  BY <1>3, <1>4
<1> QED
  BY <1>1, <1>2, <1>4, <1>5

LEMMA TrailsBehindHyphen ==
    ASSUME NEW t \in Seq(TextChar), t # <<>>, t[1] \notin Digit, Smooth(t),
           NEW y, y = <<"-">> \o t
    PROVE  Trails(y)
<1>1. /\ y \in Seq(TextChar) /\ Len(y) = 1 + Len(t) /\ y[1] = "-" /\ 1 \in 1..Len(y)
      /\ \A i \in 1..Len(t) : y[i + 1] = t[i]
  BY HyphenBefore
<1> DEFINE m == Len(t)
<1>2. m \in Nat /\ m # 0
  BY EmptySeq
<1>3. \A i \in Int : At(y, i + 1) = At(t, i) \/ i \notin 1..(m + 1)
  <2> SUFFICES ASSUME NEW i \in 1..(m + 1) PROVE At(y, i + 1) = At(t, i)
    OBVIOUS
  <2>1. CASE i \in 1..m
    <3>1. i + 1 \in 1..Len(y)
      BY <2>1, <1>1, <1>2
    <3>2. At(y, i + 1) = y[i + 1] /\ At(t, i) = t[i]
      BY <3>1, <2>1, <1>1, AtIs
    <3> QED
      BY <3>2, <2>1, <1>1
  <2>2. CASE i \notin 1..m
    <3>1. i + 1 \notin 1..Len(y) /\ i \in Int /\ i + 1 \in Int
      BY <2>2, <1>1, <1>2
    <3>2. At(y, i + 1) = "end" /\ At(t, i) = "end"
      BY <3>1, <2>2, <1>1, AtIs
    <3> QED
      BY <3>2
  <2> QED
    BY <2>1, <2>2
<1>4. ASSUME NEW j \in 1..Len(y) PROVE ~ Mark(y, j)
  <2>1. CASE j = 1
    <3>1. At(y, 1 + 1) = At(t, 1) /\ 1 \in 1..m
      BY <1>2, <1>3
    <3>2. At(t, 1) = t[1]
      BY <3>1, AtIs
    <3> QED
      BY <2>1, <3>1, <3>2 DEF Mark
  <2>2. CASE j # 1
    <3> DEFINE i == j - 1
    <3>1. i \in 1..m /\ i + 1 = j /\ j \in Int /\ j \in 1..(m + 1)
      BY <2>2, <1>1, <1>2
    <3> HIDE DEF i
    <3>2. y[i + 1] = t[i] /\ ~ Mark(t, i)
      BY <3>1, <1>1 DEF Smooth
    <3>3. At(y, j + 1) = At(t, i + 1)
      <4>1. At(y, j + 1) = At(t, j)
        BY <3>1, <1>3
      <4> QED
        BY <4>1, <3>1
    <3> QED
      BY <3>1, <3>2, <3>3 DEF Mark
  <2> QED
    BY <2>1, <2>2
<1> QED
  BY <1>1, <1>4 DEF Trails

\* What Replaced makes of what is behind the package.
RestBecomes(ver, rev, rest, w, v) ==
    \E r \in Seq(TextChar) :
        /\ Replaced(rest, w, v) = Replaced(ver, w, v) \o r
        /\ Trails(r)
        /\ ~ Occurs(rev, w) => r = rev

LEMMA RestIsReplaced ==
    ASSUME NEW s, NEW ver, NEW rev, NEW rest, Parted(s, ver, rev, rest),
           NEW w \in Seq(TextChar), IsVersion(w), NEW v \in Seq(TextChar), IsFetched(v)
    PROVE  RestBecomes(ver, rev, rest, w, v)
<1>1. /\ ver \in Seq(TextChar) /\ rev \in Seq(TextChar) /\ rest \in Seq(TextChar)
      /\ WithoutHyphen(ver)
  BY DEF Parted
<1>2. WithoutHyphen(w) /\ w # <<>> /\ w[1] \in Digit
  BY VersionIsSmooth
<1>3. v # <<>> /\ v[1] \in Digit /\ Smooth(v)
  BY FetchedBegins
<1> DEFINE V == Replaced(ver, w, v)
<1>4. V \in Seq(TextChar)
  BY <1>1, <1>2, ReplacedIsText
<1>5. CASE rev = <<>> /\ rest = ver
  <2> HIDE DEF V
  <2>1. V \o <<>> = V /\ <<>> \in Seq(TextChar)
    BY <1>4
  <2>2. Trails(<<>>)
    BY DEF Trails
  <2>3. Replaced(rest, w, v) = V \o <<>>
    BY <1>5, <2>1 DEF V
  <2> QED
    BY <1>5, <2>1, <2>2, <2>3 DEF RestBecomes, V
<1>6. ASSUME NEW rd \in Seq(TextChar), rev = <<"-">> \o rd, Hyphened(ver, rd, rest),
             rd # <<>>, rd[1] = "r", WithoutHyphen(rd)
      PROVE  RestBecomes(ver, rev, rest, w, v)
  <2> DEFINE D == Replaced(rd, w, v)
             r == <<"-">> \o D
  <2>1. D \in Seq(TextChar)
    BY <1>2, ReplacedIsText
  <2>2. Smooth(D)
    BY <1>6, <1>2, <1>3, ReplacedIsSmooth
  <2>3. D # <<>> /\ D[1] = "r"
    <3>1. Begins(rd, w, v, D)
      BY <1>6, <1>2, <1>3, ReplacedBegins
    <3> HIDE DEF D
    <3>2. w[1] # "r"
      BY <1>2, NoDigit
    <3> QED
      BY <3>1, <3>2, <1>6 DEF Begins
  <2>4. ReplacedApart(ver, rd, rest, w, v)
    <3>1. Splitting(ver, rd, rest, w, v)
      BY <1>1, <1>2, <1>6 DEF Splitting
    <3> QED
      BY <3>1, ReplacedBesideHyphen
  <2>5. Replaced(rest, w, v) = (V \o <<"-">>) \o D
    BY <2>4 DEF ReplacedApart
  <2> HIDE DEF D, V
  <2>6. V \o (<<"-">> \o D) = (V \o <<"-">>) \o D
    <3> DEFINE d == <<"-">>
    <3>1. IsText(V) /\ IsText(D) /\ IsText(d)
      BY <1>4, <2>1 DEF IsText, TextChar, NameChar
    <3> HIDE DEF d
    <3>2. Equals(V \o (d \o D), (V \o d) \o D)
      BY <3>1, Regrouped
    <3> QED
      BY <3>2 DEF d, Equals
  <2>7. D[1] \notin Digit
    BY <2>3, NoDigit
  <2>8. r \in Seq(TextChar) /\ Trails(r)
    <3>1. r = <<"-">> \o D
      OBVIOUS
    <3> HIDE DEF r
    <3>2. r \in Seq(TextChar)
      BY <3>1, <2>1, HyphenBefore
    <3>3. Trails(r)
      BY <3>1, <2>1, <2>2, <2>3, <2>7, TrailsBehindHyphen
    <3> QED
      BY <3>2, <3>3
  <2>9. ASSUME ~ Occurs(rev, w) PROVE r = rev
    <3>1. /\ Len(rev) = 1 + Len(rd) /\ \A i \in 1..Len(rd) : rev[i + 1] = rd[i]
      BY <1>6, HyphenBefore
    <3>2. Len(rd) \in Nat /\ Len(w) \in Nat
      BY AtIs
    <3>3. ~ Occurs(rd, w)
      <4> SUFFICES ASSUME NEW p \in 0..Len(rd), OccursAt(rd, w, p) PROVE FALSE
        BY DEF Occurs
      <4>1. p + Len(w) <= Len(rd) /\ \A i \in 1..Len(w) : rd[p + i] = w[i]
        BY DEF OccursAt
      <4> DEFINE q == p + 1
                 k == Len(w)
                 m == Len(rd)
      <4>2. q \in 0..Len(rev) /\ q + k <= Len(rev)
        <5> HIDE DEF k, m
        <5> QED
          BY <3>1, <3>2, <4>1 DEF k, m
      <4>3. ASSUME NEW i \in 1..k PROVE rev[q + i] = w[i]
        <5> DEFINE j == p + i
        <5>1. j \in 1..m /\ j + 1 = q + i
          <6> HIDE DEF k, m
          <6> QED
            BY <4>1, <3>2 DEF k, m
        <5> HIDE DEF j, q
        <5>2. rev[j + 1] = rd[j]
          BY <5>1, <3>1
        <5>3. rd[j] = w[i]
          BY <4>1 DEF j
        <5> QED
          BY <5>1, <5>2, <5>3
      <4>4. OccursAt(rev, w, q)
        BY <4>2, <4>3 DEF OccursAt
      <4> QED
        BY <4>2, <4>4, <2>9 DEF Occurs
    <3>4. D = rd
      BY <3>3, <1>2, NothingToReplace DEF D
    <3> QED
      BY <3>4, <1>6
  <2> HIDE DEF r
  <2>10. Replaced(rest, w, v) = V \o r
    BY <2>5, <2>6 DEF r
  <2> QED
    BY <2>8, <2>9, <2>10 DEF RestBecomes, V
<1> QED
  BY <1>5, <1>6 DEF Parted

\* A text put together of the new package, version and rest.
Composed(m, x, v, r) ==
    /\ m \in Seq(TextChar) /\ x \in Seq(TextChar) /\ v \in Seq(TextChar) /\ r \in Seq(TextChar)
    /\ Len(m) = Len(x) + 1 + Len(v) + Len(r)
    /\ \A i \in 1..Len(x) : m[i] = x[i]
    /\ m[Len(x) + 1] = "-"
    /\ \A i \in 1..Len(v) : m[i + (Len(x) + 1)] = v[i]
    /\ \A i \in 1..Len(r) : m[i + (Len(x) + 1 + Len(v))] = r[i]

LEMMA ComposedIs ==
    ASSUME NEW x \in Seq(TextChar), NEW v \in Seq(TextChar), NEW r \in Seq(TextChar),
           NEW m, m = (x \o <<"-">>) \o (v \o r)
    PROVE  Composed(m, x, v, r)
<1> DEFINE d == <<"-">>
           a == x \o d
           b == v \o r
           l == Len(x)
           k == Len(v)
           g == Len(r)
<1>1. d \in Seq(TextChar) /\ Len(d) = 1 /\ d[1] = "-" /\ 1 \in 1..1 /\ m = a \o b
  BY DEF TextChar, NameChar
<1>2. l \in Nat /\ k \in Nat /\ g \in Nat
  BY AtIs
<1> HIDE DEF d
<1>3. /\ a \in Seq(TextChar) /\ Len(a) = l + 1 /\ (\A i \in 1..l : a[i] = x[i]) /\ a[l + 1] = "-"
  <2>1. /\ x \o d \in Seq(TextChar) /\ Len(x \o d) = Len(x) + Len(d)
        /\ \A i \in 1..Len(x) : (x \o d)[i] = x[i]
        /\ \A i \in 1..Len(d) : (x \o d)[i + Len(x)] = d[i]
    BY <1>1, ConcatIs
  <2>2. (x \o d)[1 + Len(x)] = "-" /\ 1 + Len(x) = l + 1
    BY <1>1, <1>2, <2>1
  <2> QED
    BY <2>1, <2>2, <1>1
<1>4. /\ b \in Seq(TextChar) /\ Len(b) = k + g /\ (\A i \in 1..k : b[i] = v[i])
      /\ \A i \in 1..g : b[i + k] = r[i]
  BY ConcatIs
<1> HIDE DEF a, b, l, k, g
<1>5. /\ m \in Seq(TextChar) /\ Len(m) = Len(a) + Len(b)
      /\ \A i \in 1..Len(a) : m[i] = a[i]
      /\ \A i \in 1..Len(b) : m[i + Len(a)] = b[i]
  <2>1. a \in Seq(TextChar) /\ b \in Seq(TextChar)
    BY <1>3, <1>4
  <2>2. /\ a \o b \in Seq(TextChar) /\ Len(a \o b) = Len(a) + Len(b)
        /\ \A i \in 1..Len(a) : (a \o b)[i] = a[i]
        /\ \A i \in 1..Len(b) : (a \o b)[i + Len(a)] = b[i]
    BY <2>1, ConcatIs
  <2>3. m = a \o b
    BY <1>1
  <2> QED
    BY <2>2, <2>3
<1>6. Len(m) = l + 1 + k + g
  BY <1>2, <1>3, <1>4, <1>5
<1>7. ASSUME NEW i \in 1..l PROVE m[i] = x[i]
  <2>1. i \in 1..Len(a)
    BY <1>2, <1>3
  <2> QED
    BY <2>1, <1>3, <1>5
<1>8. m[l + 1] = "-"
  <2>1. l + 1 \in 1..Len(a)
    BY <1>2, <1>3
  <2> QED
    BY <2>1, <1>3, <1>5
<1>9. ASSUME NEW i \in 1..k PROVE m[i + (l + 1)] = v[i]
  <2>1. i \in 1..Len(b)
    BY <1>2, <1>4
  <2> QED
    BY <2>1, <1>3, <1>4, <1>5
<1>10. ASSUME NEW i \in 1..g PROVE m[i + (l + 1 + k)] = r[i]
  <2> DEFINE j == i + k
  <2>1. j \in 1..Len(b) /\ j + (l + 1) = i + (l + 1 + k)
    BY <1>2, <1>4
  <2>2. b[j] = r[i]
    BY <1>4
  <2> HIDE DEF j
  <2>3. m[j + (l + 1)] = b[j]
    BY <2>1, <1>3, <1>5
  <2> QED
    BY <2>1, <2>2, <2>3
<1> QED
  BY <1>5, <1>6, <1>7, <1>8, <1>9, <1>10 DEF Composed, l, k, g

\* The last hyphen with a digit behind it is where the package ends.
LEMMA PackageStays ==
    ASSUME pn \in Seq(TextChar), NEW m, NEW x, NEW y, Composed(m, x, y, <<>>),
           Versioned(m) # <<>>, y # <<>>, y[1] \in Digit, \A j \in 1..Len(y) : ~ Mark(y, j)
    PROVE  x = pn
<1> DEFINE h == HyphenAt
           l == Len(pn)
           a == Len(x) + 1
           k == Len(y)
           n == Len(m)
<1>1. /\ m \in Seq(TextChar) /\ x \in Seq(TextChar) /\ y \in Seq(TextChar)
      /\ \A i \in 1..Len(x) : m[i] = x[i]
      /\ m[a] = "-"
      /\ \A i \in 1..k : m[i + a] = y[i]
  BY DEF Composed
<1>2. Len(x) \in Nat /\ a \in Nat /\ k \in Nat /\ k # 0 /\ n = a + k /\ l \in Nat /\ h = l + 1
  <2>1. Len(x) \in Nat /\ k \in Nat /\ l \in Nat /\ k # 0
    BY <1>1, EmptySeq
  <2>2. n = Len(x) + 1 + k + Len(<<>>) /\ Len(<<>>) = 0
    BY DEF Composed
  <2> QED
    BY <2>1, <2>2 DEF HyphenAt
<1>3. /\ h \in 1..n /\ h + 1 \in 1..n /\ m[h] = "-" /\ m[h + 1] \in Digit
      /\ \A i \in 1..l : m[i] = pn[i]
  BY <1>1, VersionedIs
<1>4. \A j \in (h + 1)..n : ~ Mark(m, j)
  BY <1>1, NoMarkBehind
<1> HIDE DEF h, l, n, k
<1>5. a <= h
  <2>1. Mark(m, a)
    <3>1. a + 1 \in 1..n /\ 1 \in 1..k /\ 1 + a = a + 1
      <4> HIDE DEF a
      <4> QED
        BY <1>2
    <3>2. At(m, a + 1) = m[a + 1] /\ m[1 + a] = y[1]
      BY <3>1, <1>1, AtIs DEF n
    <3> QED
      BY <3>1, <3>2, <1>1 DEF Mark
  <2>2. a > h => a \in (h + 1)..n
    <3> HIDE DEF a
    <3> QED
      BY <1>2
  <2>3. ~ (a > h)
    BY <2>1, <2>2, <1>4
  <2> HIDE DEF a
  <2> QED
    BY <2>3, <1>2
<1>6. ~ (h > a)
  <2> SUFFICES ASSUME h > a PROVE FALSE
    OBVIOUS
  <2> HIDE DEF a
  <2> DEFINE j == h - a
  <2>1. j \in 1..k /\ j + 1 \in 1..k /\ j + a = h /\ (j + 1) + a = h + 1
    BY <1>2, <1>3
  <2> HIDE DEF j
  <2>2. m[j + a] = y[j] /\ m[(j + 1) + a] = y[j + 1]
    BY <2>1, <1>1
  <2>3. At(y, j + 1) = y[j + 1]
    BY <2>1, <1>1, AtIs DEF k
  <2>4. Mark(y, j)
    BY <2>1, <2>2, <2>3, <1>3 DEF Mark
  <2> QED
    BY <2>1, <2>4 DEF k
<1>7. Len(x) = l
  <2>1. a = h
    <3> HIDE DEF a
    <3> QED
      BY <1>2, <1>5, <1>6
  <2> QED
    BY <2>1, <1>2
<1>8. \A i \in 1..l : x[i] = pn[i]
  BY <1>1, <1>3, <1>7
<1> QED
  BY <1>1, <1>7, <1>8 DEF l

\* What stands behind a hyphen, and is not in the package, is the version.
LEMMA StandsBehindPackage ==
    ASSUME pn \in Seq(TextChar), NEW s \in Seq(TextChar), Versioned(s) # <<>>,
           NEW w \in Seq(TextChar), Stands(s, w), ~ Occurs(pn, w)
    PROVE  w = PortageVersion(s)
<1> DEFINE h == HyphenAt
           l == Len(pn)
           n == Len(s)
<1>1. PICK d \in 1..n : /\ d + 1 \in 1..n /\ Mark(s, d)
                        /\ w = SubSeq(s, d + 1, VersionEnd(s, d + 1) - 1)
  BY DEF Stands
<1> DEFINE e == VersionEnd(s, d + 1)
<1>2. n \in Nat /\ l \in Nat /\ h = l + 1 /\ d \in Int /\ d + 1 \in 1..(n + 1)
  <2>1. n \in Nat /\ l \in Nat
    BY AtIs
  <2> HIDE DEF n
  <2> QED
    BY <2>1, <1>1 DEF HyphenAt
<1>3. /\ h \in 1..n /\ h + 1 \in 1..n /\ s[h] = "-" /\ s[h + 1] \in Digit
      /\ \A i \in 1..l : s[i] = pn[i]
      /\ PortageVersion(s) = SubSeq(s, h + 1, VersionTill(s) - 1)
  BY VersionedIs
<1>4. \A j \in (h + 1)..n : ~ Mark(s, j)
  BY NoMarkBehind
<1>5. VersionTill(s) = VersionEnd(s, h + 1)
  BY DEF VersionTill
<1>6. e \in (d + 1)..(n + 1)
  BY <1>2, VersionEndRange
<1>7. CASE d = h
  BY <1>1, <1>3, <1>5, <1>7
<1>8. CASE d > h
  <2>1. d \in (h + 1)..n
    <3> HIDE DEF n, h, l
    <3> QED
      BY <1>8, <1>1, <1>2
  <2> QED
    BY <2>1, <1>1, <1>4
<1>9. CASE d < h
  <2>1. e <= h
    <3>1. h \in (d + 1)..(n + 1)
      <4> HIDE DEF n, h, l
      <4> QED
        BY <1>9, <1>2, <1>3
    <3>2. At(s, h) \notin VersionChar
      <4>1. At(s, h) = "-"
        BY <1>3, AtIs
      <4> QED
        BY <4>1, NoVersionChar
    <3> HIDE DEF h
    <3> QED
      BY <3>1, <3>2, <1>2, VersionStops
  <2> DEFINE p == d + 1
             q == e - 1
             k == q - p + 1
  <2>2. p \in 1..(n + 1) /\ q \in (p - 1)..n /\ k \in Nat /\ d + k <= l /\ d \in 0..l
        /\ \A i \in 1..k : d + i \in 1..l /\ i + p - 1 = d + i
    <3> HIDE DEF n, h, l, e
    <3> QED
      BY <2>1, <1>1, <1>2, <1>3, <1>6
  <2>3. w = SubSeq(s, p, q)
    BY <1>1
  <2> HIDE DEF p, q, e, h
  <2>4. Len(w) = k /\ \A i \in 1..k : w[i] = s[i + p - 1]
    BY <2>2, <2>3, SubSeqIs
  <2> HIDE DEF k
  <2>5. \A i \in 1..k : pn[d + i] = w[i]
    BY <2>2, <2>4, <1>3
  <2>6. OccursAt(pn, w, d)
    BY <2>2, <2>4, <2>5 DEF OccursAt
  <2> QED
    BY <2>2, <2>6 DEF Occurs
<1>10. d = h \/ d > h \/ d < h
  <2> HIDE DEF h, l, n
  <2> QED
    BY <1>2
<1> QED
  BY <1>7, <1>8, <1>9, <1>10

\* Of what is fetched, all is read as the version of a name that has one.
LEMMA FetchedIsRead ==
    ASSUME pn \in Seq(TextChar), NEW m, NEW v, NEW r, Composed(m, pn, v, r),
           IsFetched(v), Trails(r), Versioned(m) # <<>>
    PROVE  PortageVersion(m) = v /\ PortageRevision(m) = r
<1> DEFINE h == HyphenAt
           l == Len(pn)
           n == Len(m)
           e == VersionTill(m)
<1>1. PICK u \in Seq(TextChar), b \in Seq(TextChar) : IsVersion(u) /\ Behind(b) /\ v = u \o b
  BY DEF IsFetched
<1> DEFINE k == Len(u)
           g == Len(b)
           c == Len(r)
           q == h + k + 1
<1>2. /\ m \in Seq(TextChar) /\ v \in Seq(TextChar) /\ r \in Seq(TextChar)
      /\ n = l + 1 + Len(v) + c
      /\ \A i \in 1..Len(v) : m[i + (l + 1)] = v[i]
      /\ \A i \in 1..c : m[i + (l + 1 + Len(v))] = r[i]
  BY DEF Composed
<1>3. /\ Len(v) = k + g /\ (\A i \in 1..k : v[i] = u[i]) /\ (\A i \in 1..g : v[i + k] = b[i])
      /\ k \in Nat /\ g \in Nat /\ c \in Nat /\ l \in Nat /\ h = l + 1
  <2>1. k \in Nat /\ g \in Nat /\ c \in Nat /\ l \in Nat
    BY <1>2, AtIs
  <2> QED
    BY <2>1, <1>1, ConcatIs DEF HyphenAt
<1>4. n = h + k + g + c /\ n \in Nat /\ h \in Nat /\ q \in Nat
  <2> HIDE DEF n, h, l, k, g, c
  <2> QED
    BY <1>2, <1>3
<1>5. \A i \in 1..k : m[i + h] = u[i]
  <2> SUFFICES ASSUME NEW i \in 1..k PROVE m[i + h] = u[i]
    OBVIOUS
  <2>1. i \in 1..Len(v) /\ i + (l + 1) = i + h
    <3> HIDE DEF n, h, l, k, g, c
    <3> QED
      BY <1>3
  <2> HIDE DEF h
  <2>2. m[i + (l + 1)] = v[i] /\ v[i] = u[i]
    BY <2>1, <1>2, <1>3
  <2> QED
    BY <2>1, <2>2
<1>6. \A i \in 1..g : m[i + (h + k)] = b[i]
  <2> SUFFICES ASSUME NEW i \in 1..g PROVE m[i + (h + k)] = b[i]
    OBVIOUS
  <2> DEFINE j == i + k
  <2>1. j \in 1..Len(v) /\ j + (l + 1) = i + (h + k)
    <3> HIDE DEF n, h, l, k, g, c
    <3> QED
      BY <1>3
  <2>2. v[j] = b[i]
    BY <1>3
  <2> HIDE DEF h, j
  <2>3. m[j + (l + 1)] = v[j]
    BY <2>1, <1>2
  <2> QED
    BY <2>1, <2>2, <2>3
<1>7. \A i \in 1..c : m[i + (h + k + g)] = r[i]
  <2> SUFFICES ASSUME NEW i \in 1..c PROVE m[i + (h + k + g)] = r[i]
    OBVIOUS
  <2>1. i + (l + 1 + Len(v)) = i + (h + k + g)
    <3> HIDE DEF n, h, l, k, g, c
    <3> QED
      BY <1>3
  <2>2. m[i + (l + 1 + Len(v))] = r[i]
    BY <1>2
  <2> HIDE DEF h
  <2> QED
    BY <2>1, <2>2
<1>8. /\ h \in 1..n /\ e \in (h + 2)..(n + 1)
      /\ RevisionEnd(m, e) = n + 1
      /\ PortageVersion(m) = SubSeq(m, h + 1, e - 1)
      /\ PortageRevision(m) = SubSeq(m, e, n)
  <2>1. m \in Seq(TextChar) /\ h = HyphenAt /\ e = VersionTill(m)
    BY <1>2
  <2> HIDE DEF h, e, l, n, k, g, c, q
  <2>2. /\ h \in 1..Len(m) /\ e \in (h + 2)..(Len(m) + 1)
        /\ RevisionEnd(m, e) = Len(m) + 1
        /\ PortageVersion(m) = SubSeq(m, h + 1, e - 1)
        /\ PortageRevision(m) = SubSeq(m, e, Len(m))
    BY <2>1, VersionedIs, SMTT(60)
  <2> QED
    BY <2>2 DEF n
<1>9. e = VersionEnd(m, 1 + h)
  <2>1. h + 1 = 1 + h
    BY <1>4
  <2> QED
    BY <2>1 DEF VersionTill
<1>10. b = <<>> \/ (b[1] = "-" /\ 2 \in 1..g /\ (b[2] = "r" => At(b, 3) \notin Digit))
  BY <1>1 DEF Behind
<1>11. r = <<>> \/ (1 \in 1..c /\ r[1] = "-")
  BY DEF Trails
<1>12. At(m, q) \notin VersionChar
  <2>1. CASE b # <<>>
    <3>1. 1 \in 1..g /\ 1 + (h + k) = q /\ q \in 1..n
      <4>1. 2 \in 1..g
        BY <2>1, <1>10
      <4> HIDE DEF n, h, l, k, g, c
      <4> QED
        BY <4>1, <1>3, <1>4
    <3>2. m[1 + (h + k)] = b[1]
      BY <3>1, <1>6
    <3>3. At(m, q) = "-"
      <4> HIDE DEF q
      <4> QED
        BY <3>1, <3>2, <2>1, <1>10, <1>2, AtIs
    <3> QED
      BY <3>3, NoVersionChar
  <2>2. CASE b = <<>> /\ r # <<>>
    <3>0. g = 0
      BY <2>2
    <3>1. 1 \in 1..c /\ 1 + (h + k + g) = q /\ q \in 1..n
      <4> HIDE DEF n, h, l, k, g, c
      <4> QED
        BY <3>0, <2>2, <1>11, <1>3, <1>4
    <3>2. m[1 + (h + k + g)] = r[1]
      BY <3>1, <1>7
    <3>3. At(m, q) = "-"
      <4> HIDE DEF q
      <4> QED
        BY <3>1, <3>2, <2>2, <1>11, <1>2, AtIs
    <3> QED
      BY <3>3, NoVersionChar
  <2>3. CASE b = <<>> /\ r = <<>>
    <3>1. g = 0 /\ c = 0
      BY <2>3
    <3>2. q \in Int /\ q \notin 1..n
      <4> HIDE DEF n, h, l, k, g, c
      <4> QED
        BY <3>1, <1>3, <1>4
    <3>3. At(m, q) = "end"
      <4> HIDE DEF q
      <4> QED
        BY <3>2, <1>2, AtIs
    <3> QED
      BY <3>3, NoVersionChar
  <2> QED
    BY <2>1, <2>2, <2>3
<1>13. e = q
  <2>1. VersionEnd(u, 1) = k + 1 /\ k >= 1
    <3>1. u # <<>> /\ VersionEnd(u, 1) = k + 1
      BY <1>1 DEF IsVersion
    <3>2. k # 0
      BY <3>1, EmptySeq
    <3> HIDE DEF k
    <3> QED
      BY <3>1, <3>2, <1>3
  <2>2. 1 + h \in 1..(n + 1) /\ q \in (1 + h)..(n + 1) /\ 1 \in 1..(k + 1) /\ q = h + k + 1
    <3> HIDE DEF n, h, l, k, g, c
    <3> QED
      BY <1>3, <1>4
  <2>3. VersionEnd(m, 1 + h) <= q
    <3> HIDE DEF q, h
    <3> QED
      BY <2>2, <1>12, <1>2, VersionStops
  <2>4. Within(u, m, h)
    <3>1. h \in Nat /\ h + k <= n
      <4> HIDE DEF n, h, l, k, g, c
      <4> QED
        BY <1>3, <1>4
    <3> QED
      BY <3>1, <1>5 DEF Within
  <2>5. VersionEnd(u, 1) + h = VersionEnd(m, 1 + h)
    <3>1. VersionEnd(m, 1 + h) <= h + k + 1
      BY <2>3
    <3> HIDE DEF h
    <3> QED
      BY <3>1, <2>2, <2>4, <1>2, VersionCut
  <2> HIDE DEF n, h, l, k, g, c
  <2> QED
    BY <2>1, <2>5, <1>3, <1>4, <1>9
<1>14. b = <<>>
  <2> SUFFICES ASSUME b # <<>> PROVE FALSE
    OBVIOUS
  <2>1. 2 \in 1..g /\ q \in 1..n /\ q + 1 \in 1..n /\ q + 2 \in Int /\ q # n + 1
        /\ 2 + (h + k) = q + 1 /\ q \in 1..(n + 1)
    <3> HIDE DEF n, h, l, k, g, c
    <3> QED
      BY <1>10, <1>3, <1>4
  <2>2. m[2 + (h + k)] = b[2]
    BY <2>1, <1>6
  <2>3. q + 2 \in 1..n /\ m[q + 1] = "r" /\ m[q + 2] \in Digit
    <3>1. RevisionEnd(m, q) # q
      BY <2>1, <1>8, <1>13
    <3> HIDE DEF q
    <3> QED
      BY <3>1, <2>1, <1>2, RevisionEndRange
  <2>4. b[2] = "r"
    <3> HIDE DEF q, h
    <3> QED
      BY <2>1, <2>2, <2>3
  <2>5. At(b, 3) \notin Digit
    BY <2>4, <1>10
  <2>6. CASE 3 \in 1..g
    <3>1. m[3 + (h + k)] = b[3] /\ At(b, 3) = b[3]
      BY <2>6, <1>6, AtIs
    <3>2. 3 + (h + k) = q + 2
      <4> HIDE DEF n, h, l, k, g, c
      <4> QED
        BY <1>3, <1>4
    <3> HIDE DEF q, h, k
    <3> QED
      BY <3>1, <3>2, <2>3, <2>5
  <2>7. CASE 3 \notin 1..g
    <3>1. g = 2 /\ 1 + (h + k + g) = q + 2 /\ c # 0
      <4>1. 2 \in 1..g /\ q + 2 \in 1..n /\ q = h + k + 1
        BY <2>1, <2>3
      <4> HIDE DEF n, h, l, k, g, c, q
      <4>2. g = 2
        BY <4>1, <2>7, <1>3
      <4> QED
        BY <4>1, <4>2, <1>3, <1>4
    <3>2. r # <<>>
      BY <3>1
    <3>3. m[1 + (h + k + g)] = r[1] /\ r[1] = "-"
      BY <3>2, <1>7, <1>11
    <3>4. m[q + 2] = "-"
      <4> HIDE DEF q, h, k, g
      <4> QED
        BY <3>1, <3>3
    <3> QED
      BY <3>4, <2>3, NoDigit
  <2> QED
    BY <2>6, <2>7
<1>15. g = 0 /\ Len(v) = k /\ e = h + k + 1 /\ n = h + k + c
  <2>1. g = 0
    BY <1>14
  <2> HIDE DEF n, h, l, k, g, c
  <2> QED
    BY <2>1, <1>13, <1>3, <1>4
<1>16. PortageVersion(m) = v
  <2> DEFINE p == h + 1
             x == e - 1
             t == SubSeq(m, p, x)
  <2>1. p \in 1..(n + 1) /\ x \in (p - 1)..n /\ x - p + 1 = k /\ \A i \in 1..k : i + p - 1 = i + h
    <3> HIDE DEF n, h, l, k, g, c, e, q
    <3> QED
      BY <1>15, <1>3, <1>4
  <2> HIDE DEF p, x, k, h
  <2>2. t \in Seq(TextChar) /\ Len(t) = k /\ \A i \in 1..k : t[i] = m[i + p - 1]
    BY <2>1, <1>2, SubSeqIs
  <2> HIDE DEF t
  <2>3. \A i \in 1..k : t[i] = v[i]
    BY <2>1, <2>2, <1>5, <1>3
  <2>4. t = v
    BY <2>2, <2>3, <1>2, <1>15
  <2> QED
    BY <2>4, <1>8 DEF t, p, x
<1>17. PortageRevision(m) = r
  <2> DEFINE t == SubSeq(m, e, n)
  <2>1. e \in 1..(n + 1) /\ n \in (e - 1)..n /\ n - e + 1 = c
        /\ \A i \in 1..c : i + e - 1 = i + (h + k + g)
    <3> HIDE DEF n, h, l, k, g, c, e, q
    <3> QED
      BY <1>15, <1>3, <1>4
  <2> HIDE DEF k, h, e, g, c
  <2>2. t \in Seq(TextChar) /\ Len(t) = c /\ \A i \in 1..c : t[i] = m[i + e - 1]
    BY <2>1, <1>2, SubSeqIs
  <2> HIDE DEF t
  <2>3. \A i \in 1..c : t[i] = r[i]
    BY <2>1, <2>2, <1>7
  <2>4. t = r
    <3>1. r \in Seq(TextChar) /\ Len(r) = c
      BY <1>2 DEF c
    <3> QED
      BY <3>1, <2>2, <2>3
  <2> QED
    BY <2>4, <1>8 DEF t
<1> QED
  BY <1>16, <1>17

\* What portage reads in the name before and after.
MergedAs(s, m, w, v) ==
    /\ PortageVersion(s) = w
    /\ PortageVersion(m) = v
    /\ \/ PortageRevision(m) = PortageRevision(s)
       \/ Occurs(PortageRevision(s), w)

LEMMA RenamedIsMergedAs ==
    ASSUME pn \in Seq(TextChar), NEW s \in Seq(TextChar), Versioned(s) # <<>>,
           NEW w \in Seq(TextChar), IsVersion(w), Stands(s, w),
           NEW v \in Seq(TextChar), IsFetched(v), w # v,
           NEW m, m = Replaced(s, w, v), Versioned(m) # <<>>
    PROVE  MergedAs(s, m, w, v)
<1> DEFINE ver == PortageVersion(s)
           rev == PortageRevision(s)
           X == Replaced(pn, w, v)
           V == Replaced(ver, w, v)
<1>1. PICK rest : Parted(s, ver, rev, rest)
  BY NameIsParted
<1> HIDE DEF ver, rev
<1>2. /\ ver \in Seq(TextChar) /\ rest \in Seq(TextChar)
      /\ ver # <<>> /\ ver[1] \in Digit /\ WithoutHyphen(ver)
      /\ Hyphened(pn, rest, s)
  BY <1>1 DEF Parted
<1>3. WithoutHyphen(w) /\ w # <<>>
  BY VersionIsSmooth
<1>4. v # <<>> /\ v[1] \in Digit /\ Smooth(v)
  BY FetchedBegins
<1> DEFINE Y == Replaced(rest, w, v)
<1>5. X \in Seq(TextChar) /\ V \in Seq(TextChar) /\ Y \in Seq(TextChar) /\ m \in Seq(TextChar)
  BY <1>2, <1>3, ReplacedIsText
<1>6. m = (X \o <<"-">>) \o Y
  <2>1. Splitting(pn, rest, s, w, v)
    BY <1>2, <1>3 DEF Splitting
  <2>2. ReplacedApart(pn, rest, s, w, v)
    BY <2>1, ReplacedBesideHyphen
  <2> QED
    BY <2>2 DEF ReplacedApart
<1>7. PICK r \in Seq(TextChar) : /\ Y = V \o r /\ Trails(r)
                                 /\ ~ Occurs(rev, w) => r = rev
  <2>1. RestBecomes(ver, rev, rest, w, v)
    BY <1>1, RestIsReplaced
  <2> QED
    BY <2>1 DEF RestBecomes
<1>8. Smooth(V) /\ V # <<>> /\ V[1] \in Digit
  <2>1. Smooth(V)
    BY <1>2, <1>3, <1>4, ReplacedIsSmooth
  <2>2. Begins(ver, w, v, V)
    BY <1>2, <1>3, <1>4, ReplacedBegins
  <2> HIDE DEF V
  <2> QED
    BY <2>1, <2>2, <1>2, <1>4 DEF Begins
<1> HIDE DEF X, V, Y
<1>9. Y # <<>> /\ Y[1] \in Digit /\ \A j \in 1..Len(Y) : ~ Mark(Y, j)
  <2>1. \A j \in 1..Len(V \o r) : ~ Mark(V \o r, j)
    BY <1>5, <1>7, <1>8, NoMarkTogether
  <2>2. Len(V) \in Nat /\ Len(r) \in Nat /\ Len(V) # 0
    BY <1>5, <1>8, EmptySeq
  <2>3. 1 \in 1..Len(V)
    BY <2>2
  <2>4. (V \o r)[1] = V[1] /\ Len(V \o r) = Len(V) + Len(r)
    BY <2>3, <1>5, ConcatIs
  <2>5. Len(V \o r) # 0
    BY <2>2, <2>4
  <2>6. Y # <<>>
    BY <2>5, <1>5, <1>7, EmptySeq
  <2> QED
    BY <2>1, <2>4, <2>6, <1>7, <1>8
<1>10. X = pn
  <2>1. Y \o <<>> = Y /\ <<>> \in Seq(TextChar)
    BY <1>5
  <2>2. m = (X \o <<"-">>) \o (Y \o <<>>)
    BY <2>1, <1>6
  <2>3. Composed(m, X, Y, <<>>)
    BY <2>1, <2>2, <1>5, ComposedIs
  <2> QED
    BY <2>3, <1>9, PackageStays
<1>11. ~ Occurs(pn, w)
  BY <1>3, <1>10, ReplacedDiffers DEF X
<1>12. ver = w
  BY <1>11, StandsBehindPackage DEF ver
<1>13. V = v
  BY <1>3, <1>12, ReplacedWhole DEF V
<1>14. Composed(m, pn, v, r)
  <2>1. m = (pn \o <<"-">>) \o (v \o r)
    BY <1>6, <1>7, <1>10, <1>13
  <2> QED
    BY <2>1, <1>7, ComposedIs
<1>15. PortageVersion(m) = v /\ PortageRevision(m) = r
  BY <1>7, <1>14, FetchedIsRead
<1> QED
  BY <1>7, <1>12, <1>15 DEF MergedAs, ver, rev

---------------------------------------------------------------------------
(* The order of texts.                                                     *)

LEMMA RankIs ==
    /\ \A c \in TextChar : Rank(c) \in 1..40 /\ Ascii[Rank(c)] = c
    /\ DOMAIN Ascii = 1..40
<1>1. DOMAIN Ascii = 1..40
  BY DEF Ascii
<1>2. ASSUME NEW c \in TextChar PROVE \E i \in 1..40 : Ascii[i] = c
  BY DEF TextChar, NameChar, WordChar, Digit, Letter, Ascii
<1> QED
  BY <1>1, <1>2 DEF Rank

LEMMA LessIsOther ==
    ASSUME NEW s \in Seq(TextChar), NEW t \in Seq(TextChar), Less(s, t)
    PROVE  s # t /\ t # <<>>
<1>1. PICK n \in 0..Len(s) : /\ n < Len(t)
                             /\ n < Len(s) => Rank(s[n + 1]) < Rank(t[n + 1])
  BY DEF Less
<1>2. n \in Nat /\ Len(s) \in Nat /\ Len(t) \in Nat
  BY AtIs
<1>3. t # <<>>
  BY <1>1, <1>2
<1>4. ASSUME s = t PROVE FALSE
  <2>1. n + 1 \in 1..Len(s)
    BY <1>1, <1>2, <1>4
  <2> DEFINE c == s[n + 1]
  <2>2. c \in TextChar /\ Rank(c) < Rank(c)
    BY <2>1, <1>1, <1>2, <1>4
  <2> HIDE DEF c
  <2>3. Rank(c) \in 1..40
    BY <2>2, RankIs
  <2> DEFINE k == Rank(c)
  <2>4. k < k /\ k \in 1..40
    BY <2>2, <2>3
  <2> HIDE DEF k
  <2> QED
    BY <2>4
<1> QED
  BY <1>3, <1>4

\* The numbers in Decimal.
LEMMA DecimalEquation ==
    ASSUME NEW n \in Nat
    PROVE  /\ n < 10 => Decimal(n) = <<Ascii[n + 4]>>
           /\ n >= 10 => Decimal(n) = Append(Decimal(n \div 10), Ascii[(n % 10) + 4])
<1>1. PICK f \in [0..n -> Digits] :
         Decimal(n) = f[n] /\ \A m \in 0..n : f[m] = DecimalRule(f, m)
  BY DecimalDefined
<1>2. f[n] = DecimalRule(f, n)
  BY <1>1
<1>3. CASE n < 10
  BY <1>1, <1>2, <1>3 DEF DecimalRule
<1>4. CASE n >= 10
  <2> DEFINE k == n \div 10
  <2>1. k \in 0..n /\ k < n
    BY <1>4, Tenth
  <2> HIDE DEF k
  <2>2. k \in Nat /\ k \in 0..k
    BY <2>1
  <2>3. PICK g \in [0..k -> Digits] :
           Decimal(k) = g[k] /\ \A m \in 0..k : g[m] = DecimalRule(g, m)
    BY <2>2, DecimalDefined
  <2> DEFINE T == {m \in 0..k : f[m] = g[m]}
  <2>4. ASSUME NEW m \in 0..k, \A q \in 0..(m - 1) : q \in T
        PROVE  m \in T
    <3>1. m \in 0..n /\ m \in Nat
      BY <2>1
    <3>2. f[m] = DecimalRule(f, m) /\ g[m] = DecimalRule(g, m)
      BY <3>1, <1>1, <2>3
    <3>3. CASE m < 10
      BY <3>2, <3>3 DEF DecimalRule
    <3>4. CASE m >= 10
      <4> DEFINE q == m \div 10
      <4>1. q \in 0..m /\ q < m
        BY <3>1, <3>4, Tenth
      <4>2. q \in 0..(m - 1)
        <5> HIDE DEF q
        <5> QED
          BY <4>1, <3>1
      <4>3. f[q] = g[q]
        <5> HIDE DEF q
        <5> QED
          BY <4>2, <2>4
      <4> QED
        BY <4>3, <3>2, <3>4 DEF DecimalRule
    <3> QED
      BY <3>1, <3>3, <3>4
  <2>5. 0..k \subseteq T
    <3> HIDE DEF T
    <3> QED
      BY <2>2, <2>4, FromTheBeginning
  <2>6. f[k] = Decimal(k)
    BY <2>2, <2>3, <2>5
  <2>7. f[n] = Append(f[k], Ascii[(n % 10) + 4])
    <3>1. ~ (n < 10)
      BY <1>4
    <3> QED
      BY <3>1, <1>2 DEF DecimalRule, k
  <2> QED
    BY <1>1, <1>4, <2>6, <2>7 DEF k
<1> QED
  BY <1>3, <1>4

\* The order of characters within two texts.
Before(s, t) ==
    \E p \in 1..Len(s) :
        /\ p \in 1..Len(t)
        /\ \A i \in 1..(p - 1) : s[i] = t[i]
        /\ Rank(s[p]) < Rank(t[p])

LEMMA NotBefore ==
    ASSUME NEW s \in Seq(TextChar), NEW t \in Seq(TextChar), Less(s, t), Before(t, s)
    PROVE  FALSE
<1>1. PICK n \in 0..Len(s) : /\ n < Len(t)
                             /\ \A i \in 1..n : s[i] = t[i]
                             /\ n < Len(s) => Rank(s[n + 1]) < Rank(t[n + 1])
  BY DEF Less
<1>2. PICK p \in 1..Len(t) : /\ p \in 1..Len(s)
                             /\ \A i \in 1..(p - 1) : t[i] = s[i]
                             /\ Rank(t[p]) < Rank(s[p])
  BY DEF Before
<1>3. Len(s) \in Nat /\ Len(t) \in Nat /\ n \in Nat /\ p \in Nat
  BY AtIs
<1> DEFINE a == Rank(s[p])
           b == Rank(t[p])
<1>4. a \in 1..40 /\ b \in 1..40
  <2> DEFINE c == s[p]
             d == t[p]
  <2>1. c \in TextChar /\ d \in TextChar
    BY <1>2
  <2> HIDE DEF c, d
  <2>2. Rank(c) \in 1..40 /\ Rank(d) \in 1..40
    BY <2>1, RankIs
  <2> QED
    BY <2>2 DEF c, d
<1>5. b < a
  BY <1>2
<1>6. CASE p <= n
  <2>1. s[p] = t[p]
    BY <1>1, <1>2, <1>3, <1>6
  <2>2. a = b
    BY <2>1
  <2> HIDE DEF a, b
  <2> QED
    BY <2>2, <1>4, <1>5
<1>7. CASE p = n + 1
  <2>1. n < Len(s)
    BY <1>2, <1>3, <1>7
  <2>2. a < b
    BY <2>1, <1>1, <1>7
  <2> HIDE DEF a, b
  <2> QED
    BY <2>2, <1>4, <1>5
<1>8. CASE p > n + 1
  <2> DEFINE q == n + 1
  <2>1. q \in 1..(p - 1) /\ q \in 1..Len(s) /\ n < Len(s)
    BY <1>2, <1>3, <1>8
  <2>2. s[q] = t[q] /\ Rank(s[q]) < Rank(t[q])
    BY <2>1, <1>1, <1>2
  <2> DEFINE c == s[q]
             k == Rank(c)
  <2>3. c \in TextChar /\ k < k
    BY <2>1, <2>2
  <2> HIDE DEF c
  <2>4. Rank(c) \in 1..40
    BY <2>3, RankIs
  <2>5. k \in 1..40
    BY <2>4
  <2> HIDE DEF k
  <2> QED
    BY <2>3, <2>5
<1> QED
  BY <1>3, <1>6, <1>7, <1>8

\* What is behind does not count,
LEMMA BeforeOnTheRight ==
    ASSUME NEW s \in Seq(TextChar), NEW t \in Seq(TextChar), Before(s, t),
           NEW x \in Seq(TextChar), NEW y \in Seq(TextChar)
    PROVE  Before(s \o x, t \o y)
<1>1. PICK p \in 1..Len(s) : /\ p \in 1..Len(t)
                             /\ \A i \in 1..(p - 1) : s[i] = t[i]
                             /\ Rank(s[p]) < Rank(t[p])
  BY DEF Before
<1> DEFINE a == s \o x
           b == t \o y
<1>2. /\ Len(a) = Len(s) + Len(x) /\ \A i \in 1..Len(s) : a[i] = s[i]
  BY ConcatIs
<1>3. /\ Len(b) = Len(t) + Len(y) /\ \A i \in 1..Len(t) : b[i] = t[i]
  BY ConcatIs
<1>4. Len(s) \in Nat /\ Len(x) \in Nat /\ Len(t) \in Nat /\ Len(y) \in Nat /\ p \in Nat
  BY AtIs
<1> HIDE DEF a, b
<1>5. p \in 1..Len(a) /\ p \in 1..Len(b)
  BY <1>1, <1>2, <1>3, <1>4
<1>6. a[p] = s[p] /\ b[p] = t[p]
  BY <1>1, <1>2, <1>3
<1>7. ASSUME NEW i \in 1..(p - 1) PROVE a[i] = b[i]
  <2>1. i \in 1..Len(s) /\ i \in 1..Len(t)
    BY <1>1, <1>4
  <2> QED
    BY <2>1, <1>1, <1>2, <1>3
<1>8. Before(a, b)
  BY <1>1, <1>5, <1>6, <1>7 DEF Before
<1> QED
  BY <1>8 DEF a, b

\* nor does what is the same before.
LEMMA BeforeOnTheLeft ==
    ASSUME NEW s \in Seq(TextChar), NEW t \in Seq(TextChar), Before(s, t),
           NEW x \in Seq(TextChar)
    PROVE  Before(x \o s, x \o t)
<1>1. PICK p \in 1..Len(s) : /\ p \in 1..Len(t)
                             /\ \A i \in 1..(p - 1) : s[i] = t[i]
                             /\ Rank(s[p]) < Rank(t[p])
  BY DEF Before
<1> DEFINE a == x \o s
           b == x \o t
           l == Len(x)
           q == p + l
<1>2. /\ Len(a) = l + Len(s) /\ (\A i \in 1..l : a[i] = x[i])
      /\ \A i \in 1..Len(s) : a[i + l] = s[i]
  BY ConcatIs
<1>3. /\ Len(b) = l + Len(t) /\ (\A i \in 1..l : b[i] = x[i])
      /\ \A i \in 1..Len(t) : b[i + l] = t[i]
  BY ConcatIs
<1>4. Len(s) \in Nat /\ l \in Nat /\ Len(t) \in Nat /\ p \in Nat
  BY AtIs
<1> HIDE DEF a, b, l
<1>5. q \in 1..Len(a) /\ q \in 1..Len(b)
  BY <1>1, <1>2, <1>3, <1>4
<1>6. a[q] = s[p] /\ b[q] = t[p]
  BY <1>1, <1>2, <1>3
<1>7. ASSUME NEW i \in 1..(q - 1) PROVE a[i] = b[i]
  <2>1. CASE i \in 1..l
    BY <2>1, <1>2, <1>3
  <2>2. CASE i \notin 1..l
    <3> DEFINE j == i - l
    <3>1. j \in 1..(p - 1) /\ j \in 1..Len(s) /\ j \in 1..Len(t) /\ j + l = i
      BY <2>2, <1>1, <1>4
    <3> HIDE DEF j
    <3>2. a[j + l] = s[j] /\ b[j + l] = t[j] /\ s[j] = t[j]
      BY <3>1, <1>1, <1>2, <1>3
    <3> QED
      BY <3>1, <3>2
  <2> QED
    BY <2>1, <2>2
<1> HIDE DEF q
<1>8. Before(a, b)
  BY <1>1, <1>5, <1>6, <1>7 DEF Before
<1> QED
  BY <1>8 DEF a, b

LEMMA RankOfDigit ==
    ASSUME NEW i \in 0..9
    PROVE  Rank(Ascii[i + 4]) = i + 4
<1> DEFINE c == Ascii[i + 4]
           k == Rank(c)
<1>1. c \in Digit
  BY DigitOf
<1>2. k \in 1..40 /\ Ascii[k] = c
  <2>1. c \in TextChar
    BY <1>1 DEF TextChar, NameChar, WordChar
  <2> HIDE DEF c
  <2>2. Rank(c) \in 1..40 /\ Ascii[Rank(c)] = c
    BY <2>1, RankIs
  <2> QED
    BY <2>2
<1>3. \A j \in 1..40 : \A d \in 4..13 : Ascii[j] = Ascii[d] => j = d
  <2>1. Underscore \notin Digit
    BY NoDigit
  <2> QED
    BY <2>1 DEF Ascii, Digit
<1>4. i + 4 \in 4..13
  OBVIOUS
<1> HIDE DEF k
<1> QED
  BY <1>2, <1>3, <1>4 DEF k

LEMMA DecimalText ==
    ASSUME NEW n \in Nat
    PROVE  Decimal(n) \in Seq(TextChar) /\ Len(Decimal(n)) \in Nat /\ Len(Decimal(n)) >= 1
<1> DEFINE d == Decimal(n)
<1>1. d \in Digits
  BY DecimalIs
<1> HIDE DEF d
<1>2. IsDotted(d)
  BY <1>1, DigitsAreDotted
<1>3. d \in Seq(TextChar) /\ Len(d) >= 1
  BY <1>2 DEF IsDotted
<1> QED
  BY <1>3 DEF d

\* Numbers of as many digits are in the order of their digits.
LEMMA DecimalsInOrder ==
    ASSUME NEW a \in Nat, NEW b \in Nat, a < b, Len(Decimal(a)) = Len(Decimal(b))
    PROVE  Before(Decimal(a), Decimal(b))
<1> DEFINE T == {y \in 0..b : \A x \in 0..(y - 1) :
                    Len(Decimal(x)) = Len(Decimal(y)) => Before(Decimal(x), Decimal(y))}
<1>1. ASSUME NEW y \in 0..b, \A q \in 0..(y - 1) : q \in T
      PROVE  y \in T
  <2> SUFFICES ASSUME NEW x \in 0..(y - 1), Len(Decimal(x)) = Len(Decimal(y))
               PROVE  Before(Decimal(x), Decimal(y))
    OBVIOUS
  <2>1. x \in Nat /\ y \in Nat /\ x < y
    OBVIOUS
  <2>2. CASE y < 10
    <3>1. x \in 0..9 /\ y \in 0..9 /\ x < 10
      BY <2>1, <2>2
    <3>2. Decimal(x) = <<Ascii[x + 4]>> /\ Decimal(y) = <<Ascii[y + 4]>>
      BY <2>1, <2>2, <3>1, DecimalEquation
    <3>3. Rank(Ascii[x + 4]) = x + 4 /\ Rank(Ascii[y + 4]) = y + 4
      BY <3>1, RankOfDigit
    <3> DEFINE c == Ascii[x + 4]
               d == Ascii[y + 4]
    <3>4. Rank(c) < Rank(d)
      BY <2>1, <3>3
    <3> HIDE DEF c, d
    <3>5. Before(<<c>>, <<d>>)
      BY <3>4 DEF Before
    <3> QED
      BY <3>2, <3>5 DEF c, d
  <2>3. CASE y >= 10
    <3> DEFINE u == x \div 10
               v == y \div 10
               e == x % 10
               f == y % 10
    <3>1. Decimal(y) = Append(Decimal(v), Ascii[f + 4])
      BY <2>1, <2>3, DecimalEquation
    <3>2. u \in Nat /\ v \in Nat /\ e \in 0..9 /\ f \in 0..9 /\ v < y /\ u <= v
          /\ x = 10 * u + e /\ y = 10 * v + f
      BY <2>1, <2>3
    <3>3. /\ Decimal(v) \in Seq(TextChar) /\ Len(Decimal(v)) \in Nat /\ Len(Decimal(v)) >= 1
      <4> HIDE DEF v
      <4> QED
        BY <3>2, DecimalText
    <3> DEFINE c == Ascii[e + 4]
               d == Ascii[f + 4]
    <3>4. c \in TextChar /\ d \in TextChar /\ Rank(c) = e + 4 /\ Rank(d) = f + 4
      <4> HIDE DEF e, f
      <4>1. c \in Digit /\ d \in Digit
        BY <3>2, DigitOf
      <4>2. Rank(c) = e + 4 /\ Rank(d) = f + 4
        BY <3>2, RankOfDigit
      <4> HIDE DEF c, d
      <4> QED
        BY <4>1, <4>2 DEF TextChar, NameChar, WordChar
    <3> DEFINE D == Decimal(v)
    <3>5. Len(Decimal(y)) = Len(D) + 1
      <4> HIDE DEF D, d
      <4>1. Decimal(y) = Append(D, d)
        BY <3>1 DEF D, d
      <4> QED
        BY <4>1, <3>3, <3>4 DEF D
    <3>6. x >= 10
      <4> SUFFICES ASSUME x < 10 PROVE FALSE
        BY <2>1
      <4>1. Decimal(x) = <<Ascii[x + 4]>>
        BY <2>1, DecimalEquation
      <4>2. Len(Decimal(x)) = 1
        BY <4>1
      <4> DEFINE k == Len(D)
      <4>3. k \in Nat /\ k >= 1
        BY <3>3
      <4>4. k + 1 = 1
        BY <4>2, <3>5
      <4> HIDE DEF k
      <4> QED
        BY <4>3, <4>4
    <3>7. Decimal(x) = Append(Decimal(u), Ascii[e + 4])
      BY <2>1, <3>6, DecimalEquation
    <3>8. /\ Decimal(u) \in Seq(TextChar) /\ Len(Decimal(u)) \in Nat
      <4> HIDE DEF u
      <4> QED
        BY <3>2, DecimalText
    <3> DEFINE C == Decimal(u)
    <3>9. Decimal(x) = Append(C, c) /\ Decimal(y) = Append(D, d)
      BY <3>1, <3>7
    <3> HIDE DEF C, D, c, d, u, v, e, f
    <3>10. /\ C \in Seq(TextChar) /\ D \in Seq(TextChar)
           /\ Append(C, c) = C \o <<c>> /\ Append(D, d) = D \o <<d>>
           /\ <<c>> \in Seq(TextChar) /\ <<d>> \in Seq(TextChar)
           /\ Len(C) = Len(D)
      <4>1. C \in Seq(TextChar) /\ D \in Seq(TextChar)
        BY <3>3, <3>8 DEF C, D
      <4>2. Len(Append(C, c)) = Len(C) + 1 /\ Len(Append(D, d)) = Len(D) + 1 /\ Len(C) \in Nat /\ Len(D) \in Nat
        BY <4>1, <3>4
      <4>3. Len(C) = Len(D)
        BY <4>2, <3>9
      <4>4. Append(C, c) = C \o <<c>> /\ Append(D, d) = D \o <<d>>
        BY <4>1, <3>4, AppendIsConcat
      <4> QED
        BY <4>1, <4>3, <4>4, <3>4
    <3>11. CASE u < v
      <4>1. v \in T /\ u \in 0..(v - 1)
        <5> HIDE DEF T
        <5>1. v \in 0..(y - 1) /\ u \in 0..(v - 1)
          BY <3>2, <3>11, <2>1
        <5> QED
          BY <5>1, <1>1
      <4>2. Len(Decimal(u)) = Len(Decimal(v))
        BY <3>10 DEF C, D
      <4>3. Before(C, D)
        BY <4>1, <4>2 DEF C, D
      <4>4. Before(C \o <<c>>, D \o <<d>>)
        BY <4>3, <3>10, BeforeOnTheRight
      <4> QED
        BY <4>4, <3>9, <3>10
    <3>12. CASE u = v
      <4>1. C = D
        BY <3>12 DEF C, D
      <4>2. e < f
        BY <3>2, <3>12, <2>1
      <4>3. Rank(c) < Rank(d)
        BY <4>2, <3>2, <3>4
      <4>4. Before(<<c>>, <<d>>)
        BY <4>3 DEF Before
      <4>5. Before(C \o <<c>>, C \o <<d>>)
        BY <4>4, <3>10, BeforeOnTheLeft
      <4> QED
        BY <4>1, <4>5, <3>9, <3>10
    <3> QED
      BY <3>2, <3>11, <3>12
  <2> QED
    BY <2>1, <2>2, <2>3
<1> HIDE DEF T
<1>2. 0..b \subseteq T
  BY <1>1, FromTheBeginning
<1>3. b \in T /\ a \in 0..(b - 1)
  BY <1>2
<1> QED
  BY <1>3 DEF T

\* Numbers of the same shape are in the order of the first difference.
LEMMA DottedInOrder ==
    ASSUME NEW m \in Seq(Nat), NEW n \in Seq(Nat), m # <<>>, SameShape(m, n),
           NEW k \in 1..Len(m), \A j \in 1..(k - 1) : m[j] = n[j], m[k] < n[k]
    PROVE  Before(Dotted(m), Dotted(n))
<1> DEFINE b == Len(m)
<1>1. b \in Nat /\ b >= 1 /\ Len(n) = b /\ b \in 1..b /\ n # <<>>
  <2>1. b \in Nat /\ b # 0 /\ Len(n) = b
    BY EmptySeq DEF SameShape
  <2>2. n # <<>>
    BY <2>1
  <2> HIDE DEF b
  <2> QED
    BY <2>1, <2>2
<1>2. \A i \in 1..b : m[i] \in Nat /\ n[i] \in Nat /\ Len(Decimal(m[i])) = Len(Decimal(n[i]))
  <2>1. DOMAIN m = 1..b
    OBVIOUS
  <2>2. \A i \in 1..b : m[i] \in Nat /\ n[i] \in Nat
    BY <1>1
  <2> QED
    BY <2>1, <2>2 DEF SameShape
<1>3. PICK f \in [1..b -> DottedText] : Dotted(m) = f[b] /\ \A i \in 1..b : f[i] = DottedRule(m, f, i)
  BY DottedDefined
<1>4. PICK g \in [1..b -> DottedText] : Dotted(n) = g[b] /\ \A i \in 1..b : g[i] = DottedRule(n, g, i)
  <2> HIDE DEF b
  <2>1. \E g \in [1..Len(n) -> DottedText] :
          Dotted(n) = g[Len(n)] /\ \A i \in 1..Len(n) : g[i] = DottedRule(n, g, i)
    BY <1>1, DottedDefined, Zenon
  <2> QED
    BY <2>1, <1>1, Zenon
<1>5. \A i \in 1..b : f[i] \in Seq(TextChar) /\ g[i] \in Seq(TextChar)
  BY DEF DottedText
<1> DEFINE Is(i) == (i < k => f[i] = g[i]) /\ (i >= k => Before(f[i], g[i]))
           T == {i \in 0..b : i = 0 \/ Is(i)}
<1> DEFINE dot == <<".">>
<1>6. dot \in Seq(TextChar)
  BY DEF TextChar
<1> HIDE DEF dot, b
<1>7. ASSUME NEW i \in 1..b, i # 1 => Is(i - 1)
      PROVE  Is(i)
  <2> DEFINE x == Decimal(m[i])
             y == Decimal(n[i])
  <2>1. x \in Seq(TextChar) /\ y \in Seq(TextChar)
    BY <1>2, DecimalText
  <2>2. i < k => x = y
    <3>1. i < k => i \in 1..(k - 1)
      BY <1>1 DEF b
    <3> QED
      BY <3>1
  <2>3. i = k => Before(x, y)
    <3> SUFFICES ASSUME i = k PROVE Before(x, y)
      OBVIOUS
    <3> DEFINE p == m[i]
               q == n[i]
    <3>1. p \in Nat /\ q \in Nat /\ p < q /\ Len(Decimal(p)) = Len(Decimal(q))
      BY <1>2
    <3> HIDE DEF p, q
    <3>2. Before(Decimal(p), Decimal(q))
      BY <3>1, DecimalsInOrder
    <3> QED
      BY <3>2 DEF p, q
  <2> HIDE DEF x, y
  <2>4. f[i] = DottedRule(m, f, i) /\ g[i] = DottedRule(n, g, i)
    BY <1>3, <1>4
  <2>5. i \in Int /\ k \in Int
    BY <1>1 DEF b
  <2>6. CASE i = 1
    <3>1. f[i] = x /\ g[i] = y
      BY <2>4, <2>6 DEF DottedRule, x, y
    <3>2. i = k \/ i < k
      BY <2>5, <2>6 DEF b
    <3>3. (i < k => f[i] = g[i]) /\ (i >= k => i = k)
      BY <3>1, <3>2, <2>2, <2>5
    <3> QED
      BY <3>1, <3>3, <2>3
  <2>7. CASE i # 1
    <3> DEFINE j == i - 1
               s == f[j]
               t == g[j]
    <3>1. j \in 1..b /\ (j < k <=> i - 1 < k)
      BY <2>5, <2>7, <1>1
    <3>2. s \in Seq(TextChar) /\ t \in Seq(TextChar) /\ (j < k => s = t) /\ (j >= k => Before(s, t))
      <4>1. Is(j)
        BY <1>7, <2>7
      <4> HIDE DEF j
      <4> QED
        BY <4>1, <3>1, <1>5
    <3>3. f[i] = (s \o dot) \o x /\ g[i] = (t \o dot) \o y
      BY <2>4, <2>7 DEF DottedRule, x, y, dot
    <3> HIDE DEF s, t
    <3>4. s \o dot \in Seq(TextChar) /\ t \o dot \in Seq(TextChar)
      BY <3>2, <1>6, ConcatIs
    <3>5. CASE i < k
      <4>1. j < k
        BY <3>5, <2>5
      <4>2. f[i] = g[i]
        BY <4>1, <3>2, <3>3, <3>5, <2>2
      <4>3. ~ (i >= k)
        BY <3>5, <2>5
      <4> QED
        BY <4>2, <4>3
    <3>6. CASE i = k
      <4>1. j < k
        BY <3>6, <2>5
      <4>2. s = t
        BY <4>1, <3>2
      <4>3. Before((s \o dot) \o x, (s \o dot) \o y)
        BY <3>4, <3>6, <2>1, <2>3, BeforeOnTheLeft
      <4>4. Before(f[i], g[i])
        BY <4>2, <4>3, <3>3
      <4>5. ~ (i < k)
        BY <3>6, <2>5
      <4> QED
        BY <4>4, <4>5
    <3>7. CASE i > k
      <4>1. j >= k
        BY <3>7, <2>5
      <4>2. Before(s, t)
        BY <4>1, <3>2
      <4>3. Before(s \o dot, t \o dot)
        BY <4>2, <3>2, <1>6, BeforeOnTheRight
      <4>4. Before((s \o dot) \o x, (t \o dot) \o y)
        BY <4>3, <3>4, <2>1, BeforeOnTheRight
      <4>5. Before(f[i], g[i])
        BY <4>4, <3>3
      <4>6. ~ (i < k)
        BY <3>7, <2>5
      <4> QED
        BY <4>5, <4>6
    <3>8. i < k \/ i = k \/ i > k
      BY <2>5
    <3> QED
      BY <3>5, <3>6, <3>7, <3>8
  <2> QED
    BY <2>6, <2>7
<1>8. \A i \in 0..b : (\A q \in 0..(i - 1) : q \in T) => i \in T
  <2> SUFFICES ASSUME NEW i \in 0..b, \A q \in 0..(i - 1) : q \in T PROVE i \in T
    OBVIOUS
  <2>1. CASE i = 0
    BY <2>1
  <2>2. CASE i # 0
    <3>1. i \in 1..b
      BY <2>2, <1>1
    <3>2. i # 1 => i - 1 \in 0..(i - 1) /\ i - 1 # 0
      BY <3>1, <1>1
    <3>3. i # 1 => Is(i - 1)
      <4> HIDE DEF Is
      <4> QED
        BY <3>2
    <3>4. Is(i)
      BY <3>1, <3>3, <1>7
    <3> HIDE DEF Is
    <3> QED
      BY <3>4
  <2> QED
    BY <2>1, <2>2
<1>9. b \in T
  <2> HIDE DEF T
  <2>1. 0..b \subseteq T
    BY <1>1, <1>8, FromTheBeginning
  <2> QED
    BY <2>1, <1>1
<1>10. Is(b)
  <2> HIDE DEF Is
  <2> QED
    BY <1>9, <1>1
<1>11. b >= k
  BY <1>1 DEF b
<1> QED
  BY <1>3, <1>4, <1>10, <1>11

\* Among numbers of the same shape, what is less is older.
LEMMA LessIsOlder ==
    ASSUME NEW m \in Seq(Nat), NEW n \in Seq(Nat), m # <<>>, SameShape(m, n),
           Less(Dotted(m), Dotted(n))
    PROVE  Older(m, n)
<1> DEFINE b == Len(m)
           T == {i \in 1..b : m[i] # n[i]}
           k == Min(T)
<1>1. b \in Nat /\ Len(n) = b /\ n # <<>>
  <2>1. b \in Nat /\ b # 0 /\ Len(n) = b
    BY EmptySeq DEF SameShape
  <2> QED
    BY <2>1
<1>2. Dotted(m) \in Seq(TextChar) /\ Dotted(n) \in Seq(TextChar)
  BY <1>1, DottedIs DEF IsDotted
<1>3. T # {}
  <2> SUFFICES ASSUME T = {} PROVE FALSE
    OBVIOUS
  <2>1. \A i \in 1..b : m[i] = n[i]
    OBVIOUS
  <2>2. m = n
    BY <2>1, <1>1
  <2> QED
    BY <2>2, <1>2, LessIsOther
<1>4. k \in T /\ \A i \in T : k <= i
  <2>1. T \subseteq Nat
    OBVIOUS
  <2> HIDE DEF T
  <2> QED
    BY <2>1, <1>3, LeastIs
<1>5. k \in 1..b /\ m[k] # n[k] /\ k \in Nat /\ k - 1 \in 0..b /\ k - 1 < b /\ (k - 1) + 1 = k
  <2>1. k \in 1..b /\ m[k] # n[k]
    BY <1>4
  <2> HIDE DEF k, T, b
  <2> QED
    BY <2>1, <1>1
<1>6. \A j \in 1..(k - 1) : m[j] = n[j]
  <2> SUFFICES ASSUME NEW j \in 1..(k - 1), m[j] # n[j] PROVE FALSE
    OBVIOUS
  <2>1. j \in 1..b /\ ~ (k <= j)
    <3> HIDE DEF k, b
    <3> QED
      BY <1>1, <1>5
  <2> HIDE DEF k
  <2> QED
    BY <2>1, <1>4
<1> HIDE DEF k, T
<1>7. m[k] \in Nat /\ n[k] \in Nat
  BY <1>1, <1>5
<1>8. ~ (n[k] < m[k])
  <2> SUFFICES ASSUME n[k] < m[k] PROVE FALSE
    OBVIOUS
  <2>1. SameShape(n, m)
    <3>1. DOMAIN m = 1..b /\ DOMAIN n = 1..b
      BY <1>1
    <3> QED
      BY <3>1 DEF SameShape
  <2>2. k \in 1..Len(n) /\ \A j \in 1..(k - 1) : n[j] = m[j]
    BY <1>1, <1>5, <1>6
  <2>3. Before(Dotted(n), Dotted(m))
    BY <2>1, <2>2, <1>1, DottedInOrder
  <2> QED
    BY <2>3, <1>2, NotBefore
<1>9. m[k] < n[k]
  <2> DEFINE x == m[k]
             y == n[k]
  <2>1. x \in Nat /\ y \in Nat /\ x # y /\ ~ (y < x)
    BY <1>5, <1>7, <1>8
  <2> HIDE DEF x, y
  <2>2. x < y
    BY <2>1
  <2> QED
    BY <2>2 DEF x, y
<1>10. SubSeq(m, 1, k - 1) = SubSeq(n, 1, k - 1)
  <2> DEFINE q == k - 1
  <2>1. q \in 0..b /\ q <= Len(n) /\ \A j \in 1..q : m[j] = n[j]
    BY <1>1, <1>5, <1>6
  <2> HIDE DEF q
  <2>2. /\ Len(SubSeq(m, 1, q)) = q /\ \A j \in 1..q : SubSeq(m, 1, q)[j] = m[j]
    BY <2>1, <1>1
  <2>3. /\ Len(SubSeq(n, 1, q)) = q /\ \A j \in 1..q : SubSeq(n, 1, q)[j] = n[j]
    BY <2>1, <1>1
  <2>4. SubSeq(m, 1, q) \in Seq(Nat) /\ SubSeq(n, 1, q) \in Seq(Nat)
    BY <2>1, <1>1
  <2>5. SubSeq(m, 1, q) = SubSeq(n, 1, q)
    BY <2>1, <2>2, <2>3, <2>4
  <2> QED
    BY <2>5 DEF q
<1> QED
  <2> DEFINE q == k - 1
  <2>1. q \in 0..Len(m) /\ q < Len(n) /\ SubSeq(m, 1, q) = SubSeq(n, 1, q) /\ m[q + 1] < n[q + 1]
    BY <1>1, <1>5, <1>9, <1>10
  <2> HIDE DEF q
  <2> QED
    BY <2>1 DEF Older

---------------------------------------------------------------------------
(* The invariant.                                                          *)

Read == stage \in {"fetching", "comparing", "changing", "renamed"}
Asked == stage \in {"comparing", "changing", "renamed"}
Changed == stage \in {"changing", "renamed"}

\* What is fetched of one of the releases.
FetchedOf(i) == tag_to_portage_version(FifthSegment(history[i]))

UInv ==
    /\ TypeOK
    /\ name \in Seq(TextChar)
    /\ parsed \in Parsed
    /\ fetched \in Fetchable
    /\ new_name \in Seq(TextChar)
    /\ Read => /\ parsed = parse_ebuild_name(name)
               /\ parsed.pn_inval = <<>> /\ parsed.ver # <<>>
    /\ Asked => \/ fetched = <<>>
                \/ \E i \in 1..published : fetched = FetchedOf(i)
    /\ Changed => Less(parsed.ver, fetched)
    /\ stage = "renamed" => new_name = Replaced(name, parsed.ver, fetched)

LEMMA PackageIsText ==
    ASSUME pn \in PackageName
    PROVE  pn \in Seq(NameChar) /\ pn \in Seq(TextChar) /\ pn # <<>>
  BY UpdatesAssumption, NameIsText

LEMMA ReleaseIs ==
    ASSUME history \in Histories, NEW i \in 1..Len(history)
    PROVE  /\ Len(history) \in Nat
           /\ history[i].folders \in Seq(Seq(TextChar)) /\ history[i].prefix \in Seq(TextChar)
           /\ history[i].suffix \in Seq(TextChar)
           /\ history[i].number \in Seq(Nat) /\ history[i].number # <<>>
<1>1. history \in Seq(Release)
  BY UpdatesAssumption
<1>2. history[i] \in Release
  BY <1>1
<1>3. Number \subseteq Seq(Nat) \ {<<>>}
  BY UpdatesAssumption
<1> DEFINE r == history[i]
<1> HIDE DEF r
<1>4. /\ r.folders \in Seq(Seq(TextChar)) /\ r.prefix \in Seq(TextChar)
      /\ r.suffix \in Seq(TextChar) /\ r.number \in Number
  BY <1>2 DEF Release, r
<1> QED
  BY <1>1, <1>3, <1>4 DEF r

LEMMA FifthSegmentIsText ==
    ASSUME NEW rel, rel.folders \in Seq(Seq(TextChar)), rel.prefix \in Seq(TextChar),
           rel.suffix \in Seq(TextChar), rel.number \in Seq(Nat), rel.number # <<>>
    PROVE  FifthSegment(rel) \in Seq(TextChar)
<1> DEFINE t == Dotted(rel.number)
           f == rel.folders
           num == rel.number
           x == (rel.prefix \o t) \o rel.suffix
<1>1. t \in Seq(TextChar)
  <2>1. num \in Seq(Nat) /\ num # <<>>
    OBVIOUS
  <2> HIDE DEF num
  <2>2. IsDotted(Dotted(num))
    BY <2>1, DottedIs
  <2> QED
    BY <2>2 DEF IsDotted, num
<1> HIDE DEF t
<1>2. x \in Seq(TextChar)

  BY <1>1
<1>3. FifthSegment(rel) = Head(Append(f, x))
  BY DEF FifthSegment, Tag, t
<1>4. f \in Seq(Seq(TextChar))
  OBVIOUS
<1> HIDE DEF x, f
<1> DEFINE S == Seq(TextChar)
<1>5. Append(f, x) \in Seq(S) /\ Append(f, x) # <<>>
  <2> HIDE DEF S
  <2>1. x \in S /\ f \in Seq(S)
    BY <1>2, <1>4 DEF S
  <2>2. Append(f, x) \in Seq(S) /\ Len(Append(f, x)) = Len(f) + 1 /\ Len(f) \in Nat
    BY <2>1
  <2> DEFINE y == Append(f, x)
  <2>3. Len(y) # 0
    BY <2>2
  <2> HIDE DEF y
  <2>4. y # <<>>
    BY <2>3
  <2> QED
    BY <2>2, <2>4 DEF y
<1>6. Head(Append(f, x)) \in S
  <2> DEFINE y == Append(f, x)
  <2> HIDE DEF S, y
  <2>1. y \in Seq(S) /\ y # <<>>
    BY <1>5 DEF y
  <2>2. Head(y) \in S
    BY <2>1
  <2> QED
    BY <2>2 DEF y
<1> QED
  BY <1>3, <1>6

LEMMA VersionsAndRevisions ==
    /\ \A n \in Number : Dotted(n) \in Seq(TextChar) /\ IsVersion(Dotted(n))
    /\ \A v \in OddVersion : v \in Seq(TextChar) /\ IsVersion(v)
    /\ \A r \in Revision : r \in Seq(TextChar) /\ IsRevision(r)
<1>1. ASSUME NEW n \in Number PROVE Dotted(n) \in Seq(TextChar) /\ IsVersion(Dotted(n))
  <2>1. n \in Seq(Nat) /\ n # <<>>
    BY UpdatesAssumption
  <2>2. IsDotted(Dotted(n))
    BY <2>1, DottedIs
  <2> QED
    BY <2>2, DottedIsVersion
<1>2. \A v \in OddVersion : v \in Seq(TextChar) /\ IsVersion(v)
  BY UpdatesAssumption
<1>3. \A r \in Revision : r \in Seq(TextChar) /\ IsRevision(r)
  BY UpdatesAssumption, NameIsText
<1> QED
  BY <1>1, <1>2, <1>3

LEMMA InitUInv == Init => UInv
<1> SUFFICES ASSUME Init PROVE UInv
  OBVIOUS
<1> USE DEF Init
<1>1. PICK v \in {Dotted(n) : n \in Number} \cup OddVersion, r \in Revision : name = Ebuild(v, r)
  OBVIOUS
<1>2. v \in Seq(TextChar) /\ IsVersion(v) /\ r \in Seq(TextChar) /\ IsRevision(r)
  BY VersionsAndRevisions
<1>3. pn \in Seq(TextChar)
  BY PackageIsText
<1>4. name \in Seq(TextChar) /\ Versioned(name) # <<>>
  BY <1>1, <1>2, <1>3, EbuildIsVersioned
<1>5. history \in Seq(Release)
  BY UpdatesAssumption
<1>6. Len(history) \in Nat
  BY <1>5
<1>7. published \in 0..Len(history)
  BY <1>6
<1>8. parsed \in Parsed /\ parsed.ver = <<>>
  BY NotParsedIs DEF NotParsed
<1>9. fetched \in Fetchable
  BY DEF Fetchable
<1>10. TypeOK
  BY <1>4, <1>7, <1>8 DEF TypeOK
<1> QED
  BY <1>4, <1>8, <1>9, <1>10 DEF UInv, Read, Asked, Changed

\* Steps that change nothing but the stage, to one in which no more is promised.
LEMMA StageKeepsUInv ==
    ASSUME UInv, stage' \in {"idle", "changing"},
           stage' = "changing" => stage = "comparing" /\ Less(parsed.ver, fetched),
           UNCHANGED <<pn, name, history, published, parsed, fetched, new_name>>
    PROVE  UInv'
<1>1. TypeOK'
  BY DEF UInv, TypeOK, Versioned
<1>2. Read' => Read /\ name' = name /\ parsed' = parsed
  BY DEF Read
<1>3. Asked' => Asked
  BY DEF Asked
<1>4. \A i \in 1..published : FetchedOf(i)' = FetchedOf(i)
  BY DEF FetchedOf
<1>5. Changed' => Less(parsed.ver, fetched)' /\ stage' # "renamed"
  BY DEF Changed
<1> QED
  BY <1>1, <1>2, <1>3, <1>4, <1>5 DEF UInv

LEMMA PublishesKeepsUInv == UInv /\ Publishes => UInv'
<1> SUFFICES ASSUME UInv, Publishes PROVE UInv'
  OBVIOUS
<1> USE DEF Publishes
<1>1. published' \in 0..Len(history) /\ \A i \in 1..published : i \in 1..published'
  <2>1. published \in 0..Len(history)
    BY DEF UInv, TypeOK
  <2>2. Len(history) \in Nat
    BY UpdatesAssumption DEF UInv, TypeOK
  <2> QED
    BY <2>1, <2>2
<1>2. TypeOK'
  BY <1>1 DEF UInv, TypeOK, Versioned
<1>3. \A i \in 1..published : FetchedOf(i)' = FetchedOf(i)
  BY DEF FetchedOf
<1>4. Asked' => \/ fetched' = <<>>
                \/ \E i \in 1..published' : fetched' = FetchedOf(i)'
  BY <1>1, <1>3 DEF UInv, Asked
<1> QED
  BY <1>2, <1>4 DEF UInv, Read, Changed

LEMMA ParsesKeepsUInv == UInv /\ Parses => UInv'
<1> SUFFICES ASSUME UInv, Parses PROVE UInv'
  OBVIOUS
<1> USE DEF Parses
<1>1. name \in Seq(TextChar)
  BY DEF UInv
<1>2. /\ parsed' \in Parsed
      /\ parsed'.ver = <<>> \/ IsVersion(parsed'.ver)
      /\ parsed' # NotParsed => parsed'.ver # <<>>
  BY <1>1, ParsedHasVersion
<1>3. TypeOK'
  BY <1>2 DEF UInv, TypeOK, Versioned
<1>4. Read' => parsed'.pn_inval = <<>> /\ parsed' # NotParsed
  BY DEF Read
<1>5. ~ Asked' /\ ~ Changed' /\ stage' # "renamed"
  BY DEF Asked, Changed
<1>6. fetched' \in Fetchable
  BY DEF Fetchable
<1> QED
  BY <1>2, <1>3, <1>4, <1>5, <1>6 DEF UInv

LEMMA FetchesKeepsUInv == UInv /\ Fetches => UInv'
<1> SUFFICES ASSUME UInv, Fetches PROVE UInv'
  OBVIOUS
<1> USE DEF Fetches
<1>1. published \in 0..Len(history) /\ history \in Histories
  BY DEF UInv, TypeOK
<1>2. \/ fetched' = <<>>
      \/ published \in 1..published /\ published \in 1..Len(history)
         /\ fetched' = FetchedOf(published)
  <2>1. Len(history) \in Nat
    BY <1>1, UpdatesAssumption
  <2>2. published = 0 \/ (published \in 1..published /\ published \in 1..Len(history))
    BY <1>1, <2>1
  <2>3. published # 0 => fetched' = FetchedOf(published)
    BY DEF FetchedOf, LatestRelease
  <2> QED
    BY <2>2, <2>3
<1>3. fetched' \in Fetchable
  <2> HIDE DEF Fetches
  <2>1. CASE fetched' = <<>>
    <3>1. <<>> \in Fetchable
      BY DEF Fetchable
    <3> QED
      BY <2>1, <3>1
  <2>2. CASE published \in 1..Len(history) /\ fetched' = FetchedOf(published)
    <3> DEFINE rel == history[published]
    <3>1. /\ rel.folders \in Seq(Seq(TextChar)) /\ rel.prefix \in Seq(TextChar)
          /\ rel.suffix \in Seq(TextChar) /\ rel.number \in Seq(Nat) /\ rel.number # <<>>
      BY <2>2, <1>1, ReleaseIs
    <3>2. fetched' = tag_to_portage_version(FifthSegment(rel))
      BY <2>2 DEF FetchedOf
    <3> HIDE DEF rel
    <3>3. FifthSegment(rel) \in Seq(TextChar)
      BY <3>1, FifthSegmentIsText
    <3>4. tag_to_portage_version(FifthSegment(rel)) \in Fetchable
      BY <3>3, FetchedIs
    <3> QED
      BY <3>2, <3>4
  <2> QED
    BY <1>2, <2>1, <2>2
<1>4. stage' \in {"failed", "comparing"}
  OBVIOUS
<1>5. TypeOK'
  <2>1. fetched' = <<>> \/ fetched'[1] \in Digit
    BY <1>3, FetchedBegins DEF Fetchable
  <2> QED
    BY <1>4, <2>1 DEF UInv, TypeOK, Versioned
<1>6. Read' => /\ parsed' = parse_ebuild_name(name')
               /\ parsed'.pn_inval = <<>> /\ parsed'.ver # <<>>
  BY DEF UInv, Read
<1>7. \/ fetched' = <<>>
      \/ \E i \in 1..published' : fetched' = FetchedOf(i)'
  BY <1>2 DEF FetchedOf
<1>8. ~ Changed' /\ stage' # "renamed"
  BY <1>4 DEF Changed
<1> QED
  BY <1>3, <1>5, <1>6, <1>7, <1>8 DEF UInv

LEMMA RenamesKeepsUInv == UInv /\ Renames => UInv'
<1> SUFFICES ASSUME UInv, Renames PROVE UInv'
  OBVIOUS
<1> USE DEF Renames
<1> DEFINE w == parsed.ver
<1>1. /\ name \in Seq(TextChar) /\ w \in Seq(TextChar) /\ w # <<>> /\ fetched \in Seq(TextChar)
  <2>1. Read /\ parsed \in Parsed
    BY DEF Read, UInv
  <2>2. w \in Seq(TextChar)
    BY <2>1 DEF Parsed
  <2> QED
    BY <2>1, <2>2 DEF UInv, Fetchable
<1>2. new_name' = Replaced(name, w, fetched)
  OBVIOUS
<1> HIDE DEF w
<1>3. Replaced(name, w, fetched) \in Seq(TextChar)
  BY <1>1, ReplacedIsText
<1>4. TypeOK'
  BY DEF UInv, TypeOK, Versioned
<1>5. Read /\ Asked
  BY DEF Read, Asked
<1>6. \A i \in 1..published : FetchedOf(i)' = FetchedOf(i)
  BY DEF FetchedOf
<1>7. Less(parsed.ver, fetched)
  BY DEF UInv, Changed
<1>8. UNCHANGED <<name, parsed, fetched>>
  OBVIOUS
<1>9. Less(parsed.ver, fetched)' /\ new_name' = Replaced(name, parsed.ver, fetched)'
  BY <1>2, <1>7, <1>8 DEF w
<1> QED
  BY <1>2, <1>3, <1>4, <1>5, <1>6, <1>9 DEF UInv

LEMMA AppliesKeepsUInv == UInv /\ Applies => UInv'
<1> SUFFICES ASSUME UInv, Applies PROVE UInv'
  OBVIOUS
<1> USE DEF Applies
<1>1. Versioned(name') # <<>> /\ pn' = pn
  OBVIOUS
<1>2. (Versioned(name) # <<>>)'
  BY <1>1 DEF Versioned
<1>3. TypeOK'
  BY <1>2 DEF UInv, TypeOK
<1>4. ~ Read' /\ ~ Asked' /\ ~ Changed' /\ stage' # "renamed"
  BY DEF Read, Asked, Changed
<1> QED
  BY <1>3, <1>4 DEF UInv

LEMMA NextKeepsUInv == UInv /\ [Next]_vars => UInv'
<1> SUFFICES ASSUME UInv, [Next]_vars PROVE UInv'
  OBVIOUS
<1>1. CASE Publishes
  BY <1>1, PublishesKeepsUInv
<1>2. CASE Parses
  BY <1>2, ParsesKeepsUInv
<1>3. CASE Fetches
  BY <1>3, FetchesKeepsUInv
<1>4. CASE Compares
  <2>1. stage' \in {"idle", "changing"} /\ (stage' = "changing" => Less(parsed.ver, fetched))
    BY <1>4 DEF Compares, IsChanged
  <2> QED
    BY <2>1, <1>4, StageKeepsUInv DEF Compares
<1>5. CASE Renames
  BY <1>5, RenamesKeepsUInv
<1>6. CASE Applies
  BY <1>6, AppliesKeepsUInv
<1>7. CASE ApplyFails
  BY <1>7, StageKeepsUInv DEF ApplyFails
<1>8. CASE Fails
  BY <1>8, StageKeepsUInv DEF Fails
<1>9. CASE UNCHANGED vars
  <2>1. TypeOK'
    BY <1>9 DEF vars, UInv, TypeOK, Versioned
  <2>2. \A i \in 1..published : FetchedOf(i)' = FetchedOf(i)
    BY <1>9 DEF vars, FetchedOf
  <2> QED
    BY <2>1, <2>2, <1>9 DEF vars, UInv, Read, Asked, Changed
<1> QED
  BY <1>1, <1>2, <1>3, <1>4, <1>5, <1>6, <1>7, <1>8, <1>9 DEF Next, Run

LEMMA UInvariant == Spec => []UInv
<1> QED
  BY InitUInv, NextKeepsUInv, PTL DEF Spec

\* An ebuild keeps a name with a version of its package, and what is read in it or
\* fetched for it is no version or begins like one, whatever packages, versions and
\* releases there are.
THEOREM UpdatesAreWellTyped == Spec => []TypeOK
<1>1. UInv => TypeOK
  BY DEF UInv
<1> QED
  BY <1>1, UInvariant, PTL

\* The last match of the regular expression decides, and some match always begins
\* at the package's own hyphen or is refused: parse_ebuild_name agrees with portage.
THEOREM NamesAreReadLikePortage == Spec => []VersionIsReadLikePortage
<1>1. UInv => VersionIsReadLikePortage
  <2> SUFFICES ASSUME UInv, Read, EndsInAWord(pn)
               PROVE  /\ parsed.ver = PortageVersion(name)
                      /\ ~ HasRevision(pn) =>
                            PortageRevision(name) =
                                IF parsed.rev = <<>> THEN <<>> ELSE <<"-", "r">> \o parsed.rev
    BY DEF VersionIsReadLikePortage, Read
  <2>1. Named(name)
    BY PackageIsText DEF Named, UInv, TypeOK
  <2>2. parsed = parse_ebuild_name(name) /\ parsed.pn_inval = <<>>
    BY DEF UInv
  <2> QED
    BY <2>1, <2>2, NameIsReadLikePortage
<1> QED
  BY <1>1, UInvariant, PTL

\* Of a plain tag the regular expression takes the number and nothing else.
THEOREM PlainTagsGiveNumbers == Spec => []PlainTagGivesItsNumber
<1>1. UInv => PlainTagGivesItsNumber
  <2> SUFFICES ASSUME UInv, \A i \in 1..published : Plain(history[i]), Asked, fetched # <<>>
               PROVE  \E i \in 1..published : fetched = Dotted(history[i].number)
    BY DEF PlainTagGivesItsNumber, Asked
  <2>1. PICK i \in 1..published : fetched = FetchedOf(i)
    BY DEF UInv
  <2>2. i \in 1..Len(history) /\ history \in Histories
    <3>1. published \in 0..Len(history) /\ history \in Histories
      BY DEF UInv, TypeOK
    <3>2. Len(history) \in Nat
      BY <3>1, UpdatesAssumption
    <3> QED
      BY <3>1, <3>2
  <2> DEFINE rel == history[i]
  <2>3. /\ rel.folders \in Seq(Seq(TextChar)) /\ rel.prefix \in Seq(TextChar)
        /\ rel.suffix \in Seq(TextChar) /\ rel.number \in Seq(Nat) /\ rel.number # <<>>
    BY <2>2, ReleaseIs
  <2>4. Plain(rel) /\ fetched = tag_to_portage_version(FifthSegment(rel))
    BY <2>1 DEF FetchedOf
  <2> HIDE DEF rel
  <2>5. fetched = Dotted(rel.number)
    BY <2>3, <2>4, PlainTagIsItsNumber
  <2> QED
    BY <2>5 DEF rel
<1> QED
  BY <1>1, UInvariant, PTL

\* A step that changes the name.
LEMMA MergesAre ==
    ASSUME UInv, [Next]_vars, name' # name
    PROVE  /\ MergedAs(name, name', parsed.ver, fetched)
           /\ Less(parsed.ver, fetched)
           /\ parsed.ver \in Seq(TextChar) /\ fetched \in Seq(TextChar)
<1>1. Applies
  BY DEF Next, Run, Publishes, Parses, Fetches, Compares, Renames, ApplyFails, Fails, vars
<1>2. stage = "renamed" /\ name' = new_name /\ Versioned(new_name) # <<>>
  BY <1>1 DEF Applies
<1> DEFINE w == parsed.ver
<1>3. Less(w, fetched) /\ new_name = Replaced(name, w, fetched)
  BY <1>2 DEF UInv, Changed
<1>4. /\ parsed \in Parsed /\ parsed = parse_ebuild_name(name) /\ w # <<>>
      /\ name \in Seq(TextChar) /\ new_name \in Seq(TextChar)
      /\ fetched \in Fetchable
      /\ pn \in PackageName /\ Versioned(name) # <<>> /\ (w = <<>> \/ IsVersion(w))
  BY <1>2 DEF UInv, Read, TypeOK
<1>5. pn \in Seq(TextChar)
  BY <1>4, PackageIsText
<1>6. w \in Seq(TextChar) /\ fetched \in Seq(TextChar)
  BY <1>4 DEF Parsed, Fetchable
<1>7. Stands(name, w)
  <2>1. 1 \in 1..(Len(name) + 1)
    BY <1>4, AtIs
  <2>2. w = ParsedFrom(name)[1].ver
    BY <1>4 DEF parse_ebuild_name
  <2> HIDE DEF w
  <2> QED
    BY <2>1, <2>2, <1>4, ParsedVersionStands
<1> HIDE DEF w
<1>8. w # fetched /\ fetched # <<>>
  BY <1>3, <1>6, LessIsOther
<1>9. IsFetched(fetched)
  BY <1>4, <1>8 DEF Fetchable
<1>10. MergedAs(name, new_name, w, fetched)
  BY <1>2, <1>3, <1>4, <1>5, <1>6, <1>7, <1>8, <1>9, RenamedIsMergedAs
<1> QED
  BY <1>2, <1>3, <1>6, <1>10 DEF w

\* Wherever the text of the version is, what gets a manifest and is merged is the same
\* package with the version that was fetched, and with its revision unless the text is
\* in that, too: in another part of the name it would have moved the last hyphen with a
\* digit behind it.
THEOREM MergesAreFetched == Spec => MergedIsFetched
<1>1. UInv /\ [Next]_vars =>
        [name' # name =>
          /\ PortageVersion(name) = parsed.ver
          /\ PortageVersion(name') = fetched
          /\ \/ PortageRevision(name') = PortageRevision(name)
             \/ Occurs(PortageRevision(name), parsed.ver)]_vars
  BY MergesAre DEF MergedAs
<1> QED
  BY <1>1, UInvariant, PTL DEF Spec, MergedIsFetched

\* Of two numbers of one shape the later is always the newer: Compares only asks
\* which text is less, and here texts are in the order of the numbers.
THEOREM NewNumbersAreUpgrades == Spec => UpdatesAreUpgrades
<1>1. ASSUME UInv, [Next]_vars, name' # name,
             NEW m \in Number, NEW n \in Number,
             PortageVersion(name) = Dotted(m), PortageVersion(name') = Dotted(n), SameShape(m, n)
      PROVE  Older(m, n)
  <2>1. m \in Seq(Nat) /\ n \in Seq(Nat) /\ m # <<>>
    BY UpdatesAssumption
  <2>2. PortageVersion(name) = parsed.ver /\ PortageVersion(name') = fetched /\ Less(parsed.ver, fetched)
    BY <1>1, MergesAre DEF MergedAs
  <2>3. Less(Dotted(m), Dotted(n))
    BY <1>1, <2>2
  <2> QED
    BY <1>1, <2>1, <2>3, LessIsOlder
<1>2. UInv /\ [Next]_vars =>
        [name' # name =>
          \A m, n \in Number :
              PortageVersion(name) = Dotted(m) /\ PortageVersion(name') = Dotted(n) /\ SameShape(m, n)
              => Older(m, n)]_vars
  BY <1>1
<1> QED
  BY <1>2, UInvariant, PTL DEF Spec, UpdatesAreUpgrades

===========================================================================
