------------------------ MODULE StringReplaceProofs ------------------------
(***************************************************************************)
(* Theorems about StringReplace for all strings: the in-place algorithms   *)
(* search only what was passed, stay within the buffer, never subtract     *)
(* below zero, return, and have then replaced every occurrence and nothing *)
(* else.  Two of these are not local: that a search from the back succeeds *)
(* rests on the occurrences counted from the front, and that it finds the  *)
(* right one on where they may share characters.                           *)
(***************************************************************************)
EXTENDS StringReplace, TLAPS, WellFoundedInduction, SequenceTheorems

---------------------------------------------------------------------------
(* Least and greatest numbers.                                             *)

\* A nonempty set of natural numbers has a least element.
LEMMA LeastNumber ==
    ASSUME NEW T, T \subseteq Nat, T # {}
    PROVE  \E m \in T : \A n \in T : m <= n
<1> DEFINE R == {p \in Nat \X Nat : p[1] < p[2]}
<1>1. IsWellFoundedOn(R, Nat)
  BY NatLessThanWellFounded DEF OpToRel
<1>2. \E m \in T : \A n \in T : ~ (<<n, m>> \in R)
  BY <1>1, WFMin, Zenon
<1>3. \A m, n \in T : (<<n, m>> \in R) <=> n < m
  OBVIOUS
<1> HIDE DEF R
<1>4. \A m, n \in T : ~ (n < m) => m <= n
  OBVIOUS
<1> QED
  BY <1>2, <1>3, <1>4

\* A bounded nonempty one has a greatest element.
LEMMA GreatestNumber ==
    ASSUME NEW b \in Nat, NEW T, T \subseteq 0..b, T # {}
    PROVE  \E m \in T : \A n \in T : m >= n
<1> DEFINE D == {b - n : n \in T}
<1>1. D \subseteq Nat /\ D # {}
  <2>1. \A n \in T : b - n \in Nat
    OBVIOUS
  <2> QED
    BY <2>1
<1>2. PICK d \in D : \A e \in D : d <= e
  BY <1>1, LeastNumber
<1>3. PICK m \in T : d = b - m
  OBVIOUS
<1>4. ASSUME NEW n \in T PROVE m >= n
  <2>1. b - m <= b - n
    BY <1>2, <1>3
  <2>2. b \in Int /\ m \in Int /\ n \in Int
    OBVIOUS
  <2> HIDE DEF D
  <2> QED
    BY <2>1, <2>2
<1> QED
  BY <1>4

---------------------------------------------------------------------------
(* Searching.                                                              *)

\* find returns npos or an occurrence that begins at the position or later.
LEMMA FindFinds ==
    ASSUME NEW s, NEW w, NEW from \in Nat, Len(s) \in Nat, Len(w) \in Nat
    PROVE  LET p == Find(s, w, from)
           IN  p # npos => /\ p \in from..Len(s)
                           /\ OccursAt(s, w, p)
<1> DEFINE At == {p \in 0..Len(s) : p >= from /\ OccursAt(s, w, p)}
<1>1. CASE At = {}
  BY <1>1 DEF Find
<1>2. CASE At # {}
  <2>1. At \subseteq Nat
    OBVIOUS
  <2>2. \E p \in At : \A q \in At : p <= q
    BY <1>2, <2>1, LeastNumber
  <2>3. Find(s, w, from) \in At
    BY <1>2, <2>2 DEF Find
  <2> QED
    BY <2>3
<1> QED
  BY <1>1, <1>2

\* rfind returns the last occurrence up to the position, if there is one.
LEMMA RFindFindsLast ==
    ASSUME NEW s, NEW w, NEW from \in Nat, Len(s) \in Nat, Len(w) \in Nat,
           NEW q \in 0..from, q <= Len(s), OccursAt(s, w, q), from < npos
    PROVE  LET p == RFind(s, w, from)
           IN  /\ p # npos
               /\ p \in q..from
               /\ p <= Len(s)
               /\ OccursAt(s, w, p)
<1> DEFINE At == {p \in 0..Len(s) : p <= from /\ OccursAt(s, w, p)}
<1>1. q \in At /\ At \subseteq 0..Len(s)
  OBVIOUS
<1>2. \E p \in At : \A r \in At : p >= r
  BY <1>1, GreatestNumber
<1>3. RFind(s, w, from) \in At /\ \A r \in At : RFind(s, w, from) >= r
  BY <1>1, <1>2 DEF RFind
<1>4. RFind(s, w, from) >= q
  BY <1>1, <1>3
<1>5. /\ RFind(s, w, from) \in 0..Len(s)
      /\ RFind(s, w, from) <= from
      /\ OccursAt(s, w, RFind(s, w, from))
  BY <1>3
<1> HIDE DEF At
<1> QED
  BY <1>4, <1>5

---------------------------------------------------------------------------
(* Copying.                                                                *)

\* A function on 1..n is a sequence of length n.
LEMMA FunctionIsSeq ==
    ASSUME NEW S, NEW n \in Nat, NEW f \in [1..n -> S]
    PROVE  f \in Seq(S) /\ Len(f) = n
<1>1. f \in Seq(S)
  BY SeqDef
<1>2. Len(f) \in Nat /\ 1..Len(f) = 1..n
  BY <1>1, LenProperties
<1> QED
  BY <1>1, <1>2

\* A copy keeps the buffer's length and what lies outside of it.
LEMMA CopyKeepsRest ==
    ASSUME NEW S, NEW s \in Seq(S), NEW t \in Seq(S), NEW dest \in Int
    PROVE  /\ Copied(s, t, dest) \in Seq(S)
           /\ Len(Copied(s, t, dest)) = Len(s)
           /\ \A i \in 1..Len(s) :
                 i <= dest \/ dest + Len(t) < i => Copied(s, t, dest)[i] = s[i]
<1>1. \A i \in 1..Len(s) :
         (IF dest < i /\ i <= dest + Len(t) THEN t[i - dest] ELSE s[i]) \in S
  <2> SUFFICES ASSUME NEW i \in 1..Len(s), dest < i /\ i <= dest + Len(t)
               PROVE  t[i - dest] \in S
    BY ElementOfSeq
  <2>1. i - dest \in 1..Len(t)
    OBVIOUS
  <2> QED
    BY <2>1, ElementOfSeq
<1>2. Copied(s, t, dest) \in [1..Len(s) -> S]
  BY <1>1 DEF Copied
<1>3. Len(s) \in Nat
  OBVIOUS
<1>4. Copied(s, t, dest) \in Seq(S) /\ Len(Copied(s, t, dest)) = Len(s)
  BY <1>2, <1>3, FunctionIsSeq
<1>5. \A i \in 1..Len(s) :
         i <= dest \/ dest + Len(t) < i => Copied(s, t, dest)[i] = s[i]
  BY <1>3 DEF Copied
<1> QED
  BY <1>4, <1>5

\* Part is a part of the string.
LEMMA PartOfSeq ==
    ASSUME NEW S, NEW s \in Seq(S), NEW first \in 0..Len(s),
           NEW last \in first..Len(s)
    PROVE  Part(s, first, last) \in Seq(S) /\ Len(Part(s, first, last)) = last - first
BY SubSeqProperties DEF Part

\* A string that is made longer or shorter.
LEMMA ResizedSeq ==
    ASSUME NEW S, NEW s \in Seq(S), NEW size \in Nat
    PROVE  /\ Resized(s, size) \in Seq(S \cup {Nul})
           /\ Len(Resized(s, size)) = size
           /\ \A i \in 1..size : i <= Len(s) => Resized(s, size)[i] = s[i]
<1>1. \A i \in 1..size : (IF i <= Len(s) THEN s[i] ELSE Nul) \in S \cup {Nul}
  <2> SUFFICES ASSUME NEW i \in 1..size, i <= Len(s) PROVE s[i] \in S
    OBVIOUS
  <2> QED
    BY ElementOfSeq
<1>2. Resized(s, size) \in [1..size -> S \cup {Nul}]
  BY <1>1 DEF Resized
<1>3. Resized(s, size) \in Seq(S \cup {Nul}) /\ Len(Resized(s, size)) = size
  BY <1>2, FunctionIsSeq
<1>4. \A i \in 1..size : i <= Len(s) => Resized(s, size)[i] = s[i]
  BY DEF Resized
<1> QED
  BY <1>3, <1>4

---------------------------------------------------------------------------
(* The invariant.                                                          *)

\* How much longer the string gets with every occurrence.
Growth == Len(with) - Len(what)

\* The positions counted are disjoint occurrences in the argument, in order.
Counted ==
    /\ \A k \in 1..Len(found) : OccursAt(arg, what, found[k])
    /\ \A k \in 1..Len(found) : k > 1 => found[k - 1] + Len(what) <= found[k]

CountingUpToPos ==
    stage = "count" =>
        /\ str = arg
        /\ Growth > 0
        /\ Len(found) > 0 => found[Len(found)] + Len(what) <= pos

\* There is room for as many occurrences as are counted and not yet replaced,
\* and the last of them has not been passed.
RoomFor(k) ==
    /\ wpos = rpos + k * Growth
    /\ k > 0 => found[k] + Len(what) <= rpos

MovingBackward ==
    stage = "backward" =>
        /\ Growth > 0
        /\ wpos <= Len(str)
        /\ \A i \in 1..rpos : str[i] = arg[i]
        /\ \E k \in 0..Len(found) : RoomFor(k)

MovingForward ==
    stage = "forward" =>
        /\ Len(what) >= Len(with)
        /\ wpos <= rpos
        /\ Len(str) = Len(arg)
        /\ \A i \in (rpos + 1)..Len(arg) : str[i] = arg[i]

Starting ==
    stage = "replace" => str = arg /\ pos = 0 /\ found = <<>> /\ rpos = 0 /\ wpos = 0

IInv ==
    /\ TypeOK
    /\ Starting
    /\ Counted
    /\ CountingUpToPos
    /\ MovingBackward
    /\ MovingForward

\* What the constants and the types say of lengths.
LEMMA Lengths ==
    ASSUME TypeOK
    PROVE  /\ arg \in Seq(Char) /\ what \in Seq(Char) /\ with \in Seq(Char)
           /\ Len(arg) \in Nat /\ Len(what) \in Nat \ {0} /\ Len(with) \in Nat
           /\ Len(str) \in Nat /\ Len(found) \in Nat /\ Growth \in Int
           /\ Len(arg) < npos /\ npos \in Nat
<1>1. arg \in Seq(Char) /\ what \in Seq(Char) /\ with \in Seq(Char)
  BY TextAssumption DEF TypeOK
<1>2. what # <<>> /\ Len(arg) + 1 < SizeMod /\ SizeMod \in Nat
  BY TextAssumption DEF TypeOK
<1>3. Len(what) # 0
  BY <1>1, <1>2
<1>4. /\ Len(arg) \in Nat /\ Len(what) \in Nat /\ Len(with) \in Nat
      /\ Len(str) \in Nat /\ Len(found) \in Nat
  BY <1>1 DEF TypeOK
<1> QED
  BY <1>1, <1>2, <1>3, <1>4 DEF Growth, npos

LEMMA InitIInv == Init => IInv
<1> SUFFICES ASSUME Init PROVE IInv
  OBVIOUS
<1>1. arg \in Seq(Char)
  BY TextAssumption DEF Init
<1>2. TypeOK
  <2>1. arg \in Text /\ what \in Word \ {<<>>} /\ with \in Word
    BY DEF Init
  <2>2. str \in Seq(Char \cup {Nul})
    BY <1>1 DEF Init
  <2>3. pos \in 0..Len(arg) /\ rpos \in 0..Len(arg) /\ wpos \in Nat
    BY <1>1 DEF Init
  <2>4. found \in Seq(0..Len(arg))
    BY DEF Init
  <2>5. stage \in {"replace", "forward", "count", "backward", "done"}
    BY DEF Init
  <2> QED
    BY <2>1, <2>2, <2>3, <2>4, <2>5 DEF TypeOK
<1>3. Starting /\ CountingUpToPos /\ MovingBackward /\ MovingForward
  BY DEF Init, Starting, CountingUpToPos, MovingBackward, MovingForward
<1>4. Counted
  BY DEF Init, Counted
<1> QED
  BY <1>2, <1>3, <1>4 DEF IInv

---------------------------------------------------------------------------
(* The steps.                                                              *)

LEMMA ReplaceKeepsIInv ==
    ASSUME IInv, Replace
    PROVE  IInv'
<1>1. /\ UNCHANGED <<arg, what, with, str, pos, found, rpos, wpos>>
      /\ str = arg /\ pos = 0 /\ found = <<>> /\ rpos = 0 /\ wpos = 0
      /\ stage' = IF Len(what) >= Len(with) THEN "forward" ELSE "count"
  BY DEF IInv, Starting, Replace, args
<1>2. Len(what) \in Nat /\ Len(with) \in Nat
  BY Lengths DEF IInv
<1>3. TypeOK' /\ Counted'
  BY <1>1 DEF IInv, TypeOK, Counted, OccursAt
<1>4. Starting' /\ MovingBackward'
  BY <1>1 DEF Starting, MovingBackward
<1>5. CountingUpToPos'
  BY <1>1, <1>2 DEF CountingUpToPos, Growth
<1>6. MovingForward'
  BY <1>1, <1>2 DEF MovingForward
<1> QED
  BY <1>3, <1>4, <1>5, <1>6 DEF IInv

\* An occurrence found is counted behind all others.
LEMMA CountsKeepsIInv ==
    ASSUME IInv, Counts
    PROVE  IInv'
<1> DEFINE p == Find(str, what, pos)
<1>1. /\ UNCHANGED <<arg, what, with, str, stage, rpos, wpos>>
      /\ stage = "count" /\ str = arg /\ p # npos
      /\ found' = Append(found, p)
      /\ pos' = p + Len(what)
  BY DEF IInv, CountingUpToPos, Counts, args
<1>2. /\ Len(what) \in Nat \ {0} /\ Len(arg) \in Nat /\ pos \in Nat
      /\ Len(found) \in Nat /\ found \in Seq(0..Len(arg))
  BY Lengths DEF IInv, TypeOK
<1>3. p \in pos..Len(arg) /\ OccursAt(arg, what, p)
  BY <1>1, <1>2, FindFinds
<1> HIDE DEF p
<1>4. p \in 0..Len(arg) /\ pos' \in 0..Len(arg)
  BY <1>1, <1>2, <1>3 DEF OccursAt
<1>5. /\ found' \in Seq(0..Len(arg))
      /\ Len(found') = Len(found) + 1
      /\ found'[Len(found) + 1] = p
      /\ \A k \in 1..Len(found) : found'[k] = found[k]
  BY <1>1, <1>2, <1>4, AppendProperties
<1>6. TypeOK'
  BY <1>1, <1>4, <1>5 DEF IInv, TypeOK
<1>7. Len(found) > 0 => found[Len(found)] + Len(what) <= p
  <2>1. Len(found) > 0 => found[Len(found)] + Len(what) <= pos
    BY <1>1 DEF IInv, CountingUpToPos
  <2>2. Len(found) > 0 => found[Len(found)] \in 0..Len(arg)
    BY <1>2, ElementOfSeq
  <2> QED
    BY <2>1, <2>2, <1>2, <1>3
<1>8. Counted'
  <2>1. ASSUME NEW k \in 1..(Len(found) + 1)
        PROVE  OccursAt(arg, what, found'[k])
    <3>1. CASE k = Len(found) + 1
      BY <3>1, <1>3, <1>5
    <3>2. CASE k \in 1..Len(found)
      BY <3>2, <1>5 DEF IInv, Counted
    <3> QED
      BY <3>1, <3>2, <1>2
  <2>2. ASSUME NEW k \in 1..(Len(found) + 1), k > 1
        PROVE  found'[k - 1] + Len(what) <= found'[k]
    <3>1. CASE k = Len(found) + 1
      <4>1. k - 1 = Len(found) /\ Len(found) > 0 /\ Len(found) \in 1..Len(found)
        BY <3>1, <2>2, <1>2
      <4> QED
        BY <4>1, <3>1, <1>5, <1>7
    <3>2. CASE k \in 1..Len(found)
      <4>1. k - 1 \in 1..Len(found)
        BY <3>2, <2>2, <1>2
      <4> QED
        BY <4>1, <3>2, <2>2, <1>5 DEF IInv, Counted
    <3> QED
      BY <3>1, <3>2, <1>2
  <2> QED
    BY <2>1, <2>2, <1>1, <1>5 DEF Counted, OccursAt
<1>9. CountingUpToPos'
  <2>1. found'[Len(found')] + Len(what) <= pos'
    BY <1>1, <1>2, <1>4, <1>5
  <2> QED
    BY <2>1, <1>1 DEF IInv, CountingUpToPos, Growth
<1> QED
  BY <1>1, <1>6, <1>8, <1>9
     DEF IInv, Starting, MovingBackward, MovingForward

\* The room made is enough for all that were counted.
LEMMA RoomForAll ==
    ASSUME IInv, MakesRoom
    PROVE  RoomFor(Len(found))'
<1>1. /\ UNCHANGED <<arg, what, with, pos, found>>
      /\ Len(found) > 0 => found[Len(found)] + Len(what) <= pos
      /\ str = arg /\ rpos' = Len(str) /\ wpos' = Len(str) + Len(found) * Growth
  BY DEF IInv, CountingUpToPos, MakesRoom, args, Growth
<1>2. /\ Len(found) \in Nat /\ Len(arg) \in Nat /\ Len(what) \in Nat
      /\ pos \in 0..Len(arg)
  BY Lengths DEF IInv, TypeOK
<1>3. Len(found) > 0 => found[Len(found)] \in 0..Len(arg)
  BY <1>2, ElementOfSeq DEF IInv, TypeOK
<1>4. Growth' = Growth
  BY <1>1 DEF Growth
<1> QED
  BY <1>1, <1>2, <1>3, <1>4 DEF RoomFor

LEMMA MakesRoomKeepsIInv ==
    ASSUME IInv, MakesRoom
    PROVE  IInv'
<1> DEFINE size == Len(str) + Len(found) * (Len(with) - Len(what))
<1>1. /\ UNCHANGED <<arg, what, with, pos, found>>
      /\ stage = "count" /\ stage' = "backward"
      /\ str = arg /\ Growth > 0
      /\ Len(found) > 0 => found[Len(found)] + Len(what) <= pos
      /\ rpos' = Len(arg) /\ wpos' = size /\ str' = Resized(str, size)
  BY DEF IInv, CountingUpToPos, MakesRoom, args
<1>2. /\ Len(found) \in Nat /\ Len(arg) \in Nat /\ Growth \in Nat \ {0}
      /\ str \in Seq(Char \cup {Nul}) /\ pos \in 0..Len(arg)
      /\ Len(what) \in Nat
  BY <1>1, Lengths DEF IInv, TypeOK
<1>3. Len(found) * Growth \in Nat
  BY <1>2
<1>4. size = Len(arg) + Len(found) * Growth
  BY <1>1 DEF Growth
<1> HIDE DEF size
<1>5. size \in Nat /\ size >= Len(arg)
  BY <1>2, <1>3, <1>4
<1>6. /\ str' \in Seq(Char \cup {Nul}) /\ Len(str') = size
      /\ \A i \in 1..Len(arg) : str'[i] = arg[i]
  <2>1. /\ Resized(str, size) \in Seq((Char \cup {Nul}) \cup {Nul})
        /\ Len(Resized(str, size)) = size
        /\ \A i \in 1..size : i <= Len(str) => Resized(str, size)[i] = str[i]
    BY <1>2, <1>5, ResizedSeq
  <2>2. (Char \cup {Nul}) \cup {Nul} = Char \cup {Nul}
    OBVIOUS
  <2> QED
    BY <2>1, <2>2, <1>1, <1>2, <1>5
<1>7. TypeOK'
  BY <1>1, <1>2, <1>5, <1>6 DEF IInv, TypeOK
<1>8. RoomFor(Len(found))'
  BY RoomForAll
<1>9. MovingBackward'
  <2>1. Len(found) \in 0..Len(found)
    BY <1>2
  <2> QED
    BY <2>1, <1>1, <1>2, <1>5, <1>6, <1>8 DEF MovingBackward, Growth
<1> QED
  BY <1>1, <1>7, <1>9
     DEF IInv, Starting, Counted, CountingUpToPos, MovingForward, OccursAt

\* What is written ends before what is still to be read.
LEMMA ForwardKeepsIInv ==
    ASSUME IInv, Forward
    PROVE  IInv'
<1> DEFINE S == Char \cup {Nul}
           p == NextRead
           gap == wpos + p - rpos
           moved == Copied(str, Part(str, rpos, p), wpos)
<1>1. /\ UNCHANGED <<arg, what, with, pos, found>>
      /\ stage = "forward"
      /\ \/ /\ stage' = "done" /\ str' = Resized(moved, gap)
            /\ rpos' = p /\ wpos' = gap
         \/ /\ p # Len(str) /\ stage' = "forward"
            /\ str' = Copied(moved, with, gap)
            /\ rpos' = p + Len(what) /\ wpos' = gap + Len(with)
  BY DEF Forward, Past, args
<1>2. /\ Len(what) \in Nat \ {0} /\ Len(with) \in Nat /\ Len(arg) \in Nat
      /\ rpos \in 0..Len(arg) /\ wpos \in Nat /\ wpos <= rpos
      /\ Len(str) = Len(arg) /\ str \in Seq(S) /\ with \in Seq(S)
      /\ Len(what) >= Len(with)
      /\ \A i \in (rpos + 1)..Len(arg) : str[i] = arg[i]
  <2>1. with \in Seq(S)
    BY Lengths, SeqMonotonic DEF IInv
  <2> QED
    BY <2>1, <1>1, Lengths DEF IInv, TypeOK, MovingForward
<1>3. /\ p \in rpos..Len(arg)
      /\ p # Len(str) => p + Len(what) <= Len(arg)
  <2>1. LET q == Find(str, what, rpos)
        IN  q # npos => q \in rpos..Len(str) /\ OccursAt(str, what, q)
    BY <1>2, FindFinds
  <2> QED
    BY <2>1, <1>2 DEF NextRead, OccursAt
<1> HIDE DEF p
<1>4. /\ moved \in Seq(S) /\ Len(moved) = Len(arg)
      /\ \A i \in 1..Len(arg) : wpos + (p - rpos) < i => moved[i] = str[i]
  <2>1. Part(str, rpos, p) \in Seq(S) /\ Len(Part(str, rpos, p)) = p - rpos
    BY <1>2, <1>3, PartOfSeq
  <2> HIDE DEF S
  <2> QED
    BY <2>1, <1>2, CopyKeepsRest
<1>5. gap \in Nat /\ gap <= p
  BY <1>2, <1>3
<1> HIDE DEF gap, moved
<1>6. CASE stage' = "done"
  <2>1. str' \in Seq(S)
    <3>1. S \cup {Nul} = S
      OBVIOUS
    <3> HIDE DEF S
    <3> QED
      BY <3>1, <1>1, <1>4, <1>5, <1>6, ResizedSeq
  <2>2. TypeOK'
    BY <2>1, <1>1, <1>2, <1>3, <1>5, <1>6 DEF IInv, TypeOK
  <2> QED
    BY <2>2, <1>1, <1>6
       DEF IInv, Starting, Counted, CountingUpToPos, MovingBackward,
           MovingForward, OccursAt
<1>7. CASE stage' # "done"
  <2>1. /\ stage' = "forward" /\ p # Len(str)
        /\ str' = Copied(moved, with, gap)
        /\ rpos' = p + Len(what) /\ wpos' = gap + Len(with)
    BY <1>1, <1>7
  <2>2. /\ str' \in Seq(S) /\ Len(str') = Len(arg)
        /\ \A i \in 1..Len(arg) : gap + Len(with) < i => str'[i] = moved[i]
    <3> HIDE DEF S
    <3>1. gap \in Int /\ with \in Seq(S) /\ moved \in Seq(S) /\ Len(moved) = Len(arg)
      BY <1>2, <1>4, <1>5
    <3>2. /\ Copied(moved, with, gap) \in Seq(S)
          /\ Len(Copied(moved, with, gap)) = Len(moved)
          /\ \A i \in 1..Len(moved) :
                i <= gap \/ gap + Len(with) < i => Copied(moved, with, gap)[i] = moved[i]
      BY <3>1, CopyKeepsRest, Zenon
    <3>3. str' \in Seq(S) /\ Len(str') = Len(arg)
      BY <3>1, <3>2, <2>1, Zenon
    <3>4. \A i \in 1..Len(arg) : gap + Len(with) < i => str'[i] = moved[i]
      BY <3>1, <3>2, <2>1, Zenon
    <3> QED
      BY <3>3, <3>4, Zenon
  <2>3. rpos' \in 0..Len(arg) /\ wpos' \in Nat /\ wpos' <= rpos'
    BY <2>1, <1>2, <1>3, <1>5
  <2>4. ASSUME NEW i \in (rpos' + 1)..Len(arg)
        PROVE  str'[i] = arg[i]
    <3>1. /\ i \in 1..Len(arg) /\ gap + Len(with) < i
          /\ wpos + (p - rpos) < i /\ i \in (rpos + 1)..Len(arg)
      <4>1. /\ Len(what) \in Nat /\ Len(with) \in Nat /\ Len(arg) \in Nat
            /\ rpos \in Nat /\ wpos \in Nat
        BY <1>2
      <4>2. p \in Nat /\ rpos <= p
        BY <4>1, <1>3
      <4>3. rpos' \in Nat /\ rpos' = p + Len(what)
        BY <4>1, <4>2, <2>1
      <4>4. i \in Nat /\ p + Len(what) < i /\ i <= Len(arg)
        BY <4>1, <4>3
      <4>5. Len(what) >= Len(with) /\ wpos <= rpos /\ gap = wpos + p - rpos
        BY <1>2 DEF gap
      <4> QED
        BY <4>1, <4>2, <4>4, <4>5
    <3> QED
      BY <3>1, <2>2, <1>2, <1>4
  <2>5. TypeOK'
    BY <2>1, <2>2, <2>3, <1>1 DEF IInv, TypeOK
  <2>6. MovingForward'
    BY <2>2, <2>3, <2>4, <1>1, <1>2 DEF MovingForward
  <2> QED
    BY <2>1, <2>5, <2>6, <1>1
       DEF IInv, Starting, Counted, CountingUpToPos, MovingBackward, OccursAt
<1> QED
  BY <1>6, <1>7

\* As long as there is room left, an occurrence counted from the front is still
\* to be read: the search from the back finds it, or a later one.
LEMMA NextFromTheBack ==
    ASSUME IInv, stage = "backward", rpos # wpos,
           NEW k \in 0..Len(found), RoomFor(k)
    PROVE  LET p == RFind(str, what, Minus(rpos, Len(what)))
           IN  /\ k > 0
               /\ p \in Nat /\ found[k] <= p /\ p + Len(what) <= rpos
               /\ KeptFrom = p + Len(what)
               /\ Len(what) <= rpos
<1>1. /\ Len(what) \in Nat \ {0} /\ Len(arg) \in Nat /\ Len(str) \in Nat
      /\ Len(found) \in Nat /\ rpos \in 0..Len(arg) /\ wpos \in Nat
      /\ npos \in Nat /\ Len(arg) < npos /\ Growth \in Nat \ {0}
      /\ wpos <= Len(str) /\ \A i \in 1..rpos : str[i] = arg[i]
  BY Lengths DEF IInv, TypeOK, MovingBackward
<1>2. /\ k > 0 /\ k \in 1..Len(found)
      /\ rpos <= wpos
  <2>1. wpos = rpos + k * Growth
    BY DEF RoomFor
  <2>2. k * Growth \in Nat
    BY <1>1
  <2>3. k # 0
    BY <2>1, <1>1
  <2> QED
    BY <2>1, <2>2, <2>3, <1>1
<1>3. found[k] \in 0..Len(arg) /\ found[k] + Len(what) <= rpos
  BY <1>2, ElementOfSeq DEF RoomFor, IInv, TypeOK
<1>4. OccursAt(str, what, found[k])
  <2>1. OccursAt(arg, what, found[k])
    BY <1>2 DEF IInv, Counted
  <2>2. ASSUME NEW i \in 1..Len(what)
        PROVE  str[found[k] + i] = what[i]
    <3>1. found[k] + i \in 1..rpos
      <4>1. found[k] \in Nat /\ rpos \in Nat /\ Len(what) \in Nat /\ Len(arg) \in Nat
        BY <1>1, <1>3
      <4> QED
        BY <4>1, <1>3
    <3>2. arg[found[k] + i] = what[i]
      BY <2>1 DEF OccursAt
    <3> QED
      BY <3>1, <3>2, <1>1
  <2>3. found[k] + Len(what) <= Len(str)
    BY <1>1, <1>2, <1>3
  <2> QED
    BY <2>2, <2>3 DEF OccursAt
<1>5. Minus(rpos, Len(what)) = rpos - Len(what)
  BY <1>1, <1>3 DEF Minus
<1>6. LET p == RFind(str, what, rpos - Len(what))
      IN  p # npos /\ p \in found[k]..(rpos - Len(what))
  <2>1. /\ rpos - Len(what) \in Nat /\ rpos - Len(what) < npos
        /\ found[k] \in 0..(rpos - Len(what)) /\ found[k] <= Len(str)
    BY <1>1, <1>2, <1>3
  <2> QED
    BY <2>1, <1>1, <1>4, RFindFindsLast
<1> QED
  BY <1>1, <1>2, <1>3, <1>5, <1>6 DEF KeptFrom

\* One turn from the back, without what it computes on the way.
LEMMA BackwardTurn ==
    ASSUME IInv, Backward, NEW k \in 0..Len(found), RoomFor(k)
    PROVE  LET p == RFind(str, what, Minus(rpos, Len(what)))
               room == (k - 1) * Growth
               dest == p + Len(what) + room + Growth
               moved == Copied(str, Part(str, p + Len(what), rpos), dest)
           IN  /\ k > 0
               /\ p \in Nat /\ found[k] <= p /\ p + Len(what) <= rpos
               /\ room \in Nat /\ wpos = rpos + room + Growth
               /\ str' = Copied(moved, with, p + room)
               /\ wpos' = p + room
               /\ rpos' = p
               /\ RoomFor(k - 1)'
<1> DEFINE p == RFind(str, what, Minus(rpos, Len(what)))
           room == (k - 1) * Growth
           dest == wpos - (rpos - KeptFrom)
           moved == Copied(str, Part(str, KeptFrom, rpos), dest)
<1>1. /\ stage = "backward" /\ wpos # rpos
      /\ IF dest = KeptFrom
         THEN str' = moved /\ wpos' = dest /\ rpos' = dest
         ELSE /\ str' = Copied(moved, with, dest - Len(with))
              /\ wpos' = dest - Len(with)
              /\ rpos' = Minus(KeptFrom, Len(what))
  BY DEF Backward
<1>2. /\ k > 0
      /\ p \in Nat /\ found[k] <= p /\ p + Len(what) <= rpos
      /\ KeptFrom = p + Len(what)
  BY <1>1, NextFromTheBack
<1> HIDE DEF p
<1>3. /\ Len(what) \in Nat \ {0} /\ Len(with) \in Nat /\ Growth \in Nat \ {0}
      /\ rpos \in Nat /\ wpos \in Nat /\ k \in Nat
  BY <1>1, Lengths DEF IInv, TypeOK, MovingBackward
<1>4. room \in Nat /\ wpos = rpos + room + Growth
  <2>1. (k - 1) * Growth \in Nat /\ k * Growth = (k - 1) * Growth + Growth
    BY <1>2, <1>3
  <2> QED
    BY <2>1, <1>3 DEF RoomFor
<1> HIDE DEF room
<1>5. dest = p + Len(what) + room + Growth /\ dest # KeptFrom
  BY <1>2, <1>3, <1>4
<1>6. dest - Len(with) = p + room
  BY <1>2, <1>3, <1>4, <1>5 DEF Growth
<1>7. Minus(KeptFrom, Len(what)) = p
  BY <1>2, <1>3 DEF Minus
<1>8. moved = Copied(str, Part(str, p + Len(what), rpos), p + Len(what) + room + Growth)
  <2> HIDE DEF dest
  <2> QED
    BY <1>2, <1>5
<1>9. str' = Copied(moved, with, p + room) /\ wpos' = p + room /\ rpos' = p
  <2> HIDE DEF moved, dest
  <2> QED
    BY <1>1, <1>5, <1>6, <1>7
<1>10. RoomFor(k - 1)'
  <2>1. UNCHANGED <<arg, what, with, found>>
    BY DEF Backward, args
  <2>2. ASSUME k - 1 > 0
        PROVE  found[k - 1] + Len(what) <= p
    <3>1. Len(found) \in Nat /\ found \in Seq(0..Len(arg)) /\ Len(arg) \in Nat
      BY Lengths DEF IInv, TypeOK
    <3>2. k \in 1..Len(found) /\ k - 1 \in 1..Len(found) /\ k > 1
      BY <2>2, <3>1, <1>3
    <3>3. found[k - 1] + Len(what) <= found[k]
      BY <3>2 DEF IInv, Counted
    <3>4. found[k - 1] \in 0..Len(arg) /\ found[k] \in 0..Len(arg)
      BY <3>1, <3>2, ElementOfSeq
    <3>5. found[k] <= p /\ p \in Nat /\ Len(what) \in Nat
      BY <1>2, <1>3
    <3> QED
      BY <3>1, <3>3, <3>4, <3>5
  <2>3. wpos' = rpos' + (k - 1) * Growth'
    BY <2>1, <1>9 DEF room, Growth
  <2> QED
    BY <2>1, <2>2, <2>3, <1>9 DEF RoomFor
<1> HIDE DEF moved
<1> QED
  BY <1>2, <1>4, <1>8, <1>9, <1>10 DEF p, room

\* What is written begins behind what is still to be read, and there is room for
\* one occurrence less.
LEMMA BackwardKeepsIInv ==
    ASSUME IInv, Backward
    PROVE  IInv'
<1>1. UNCHANGED <<arg, what, with, stage, pos, found>> /\ stage = "backward"
  BY DEF Backward, args
<1>2. PICK k \in 0..Len(found) : RoomFor(k)
  BY <1>1 DEF IInv, MovingBackward
<1> DEFINE S == Char \cup {Nul}
           p == RFind(str, what, Minus(rpos, Len(what)))
           room == (k - 1) * Growth
           dest == p + Len(what) + room + Growth
           moved == Copied(str, Part(str, p + Len(what), rpos), dest)
<1>3. /\ k > 0
      /\ p \in Nat /\ found[k] <= p /\ p + Len(what) <= rpos
      /\ room \in Nat /\ wpos = rpos + room + Growth
      /\ str' = Copied(moved, with, p + room)
      /\ wpos' = p + room
      /\ rpos' = p
      /\ RoomFor(k - 1)'
  BY <1>2, BackwardTurn
<1> HIDE DEF p, room, dest
<1>4. /\ Len(what) \in Nat \ {0} /\ Len(with) \in Nat /\ Len(arg) \in Nat
      /\ Len(str) \in Nat /\ Len(found) \in Nat /\ Growth \in Nat \ {0}
      /\ rpos \in 0..Len(arg) /\ wpos \in Nat /\ wpos <= Len(str)
      /\ str \in Seq(S) /\ with \in Seq(S)
      /\ found \in Seq(0..Len(arg))
      /\ \A i \in 1..rpos : str[i] = arg[i]
  <2>1. with \in Seq(S)
    BY Lengths, SeqMonotonic DEF IInv
  <2> QED
    BY <2>1, <1>1, Lengths DEF IInv, TypeOK, MovingBackward
<1>scalars. /\ p \in Nat /\ room \in Nat /\ Growth \in Nat /\ rpos \in Nat /\ wpos \in Nat
            /\ Len(what) \in Nat /\ Len(arg) \in Nat /\ Len(str) \in Nat
            /\ p + Len(what) <= rpos /\ rpos <= Len(arg) /\ wpos <= Len(str)
            /\ wpos = rpos + room + Growth
            /\ dest = p + Len(what) + room + Growth
  <2>1. rpos \in Nat /\ rpos <= Len(arg)
    BY <1>4
  <2> QED
    BY <2>1, <1>3, <1>4 DEF dest
<1>5. dest \in Nat /\ p + Len(what) \in 0..rpos /\ rpos <= wpos
  BY <1>scalars
<1>9. rpos' \in 0..Len(arg) /\ wpos' \in Nat /\ wpos' <= Len(str)
  <2>1. p \in 0..Len(arg) /\ p + room \in Nat /\ p + room <= Len(str)
    BY <1>scalars
  <2> QED
    BY <2>1, <1>3
<1>10. /\ moved \in Seq(S) /\ Len(moved) = Len(str)
       /\ \A i \in 1..Len(str) : i <= dest => moved[i] = str[i]
  <2> HIDE DEF S
  <2>1. p + Len(what) \in 0..Len(str) /\ rpos \in (p + Len(what))..Len(str)
    BY <1>scalars
  <2>2. Part(str, p + Len(what), rpos) \in Seq(S)
    BY <2>1, <1>4, PartOfSeq
  <2>3. dest \in Int
    BY <1>5
  <2> DEFINE part == Part(str, p + Len(what), rpos)
  <2> HIDE DEF part
  <2>4. part \in Seq(S)
    BY <2>2 DEF part
  <2>5. /\ Copied(str, part, dest) \in Seq(S)
        /\ Len(Copied(str, part, dest)) = Len(str)
        /\ \A i \in 1..Len(str) : i <= dest => Copied(str, part, dest)[i] = str[i]
    BY <2>3, <2>4, <1>4, CopyKeepsRest
  <2> QED
    BY <2>5 DEF part
<1>11. /\ str' \in Seq(S) /\ Len(str') = Len(str)
       /\ \A i \in 1..Len(str) : i <= p + room => str'[i] = moved[i]
  <2> HIDE DEF S, moved
  <2>1. p + room \in Int /\ with \in Seq(S) /\ moved \in Seq(S) /\ Len(moved) = Len(str)
    BY <1>3, <1>4, <1>10
  <2>2. /\ Copied(moved, with, p + room) \in Seq(S)
        /\ Len(Copied(moved, with, p + room)) = Len(moved)
        /\ \A i \in 1..Len(moved) :
              i <= p + room \/ p + room + Len(with) < i
              => Copied(moved, with, p + room)[i] = moved[i]
    BY <2>1, CopyKeepsRest, Zenon
  <2> QED
    BY <2>1, <2>2, <1>3, Zenon
<1>12. ASSUME NEW i \in 1..rpos'
       PROVE  str'[i] = arg[i]
  <2>1. i \in Nat /\ i <= p /\ i >= 1
    BY <1>3
  <2>2. i <= p + room /\ i <= dest /\ i \in 1..rpos /\ i \in 1..Len(str)
    BY <2>1, <1>scalars
  <2> QED
    BY <2>2, <1>4, <1>10, <1>11
<1>13. TypeOK'
  BY <1>1, <1>9, <1>11 DEF IInv, TypeOK
<1>14. MovingBackward'
  <2>1. k - 1 \in 0..Len(found)
    BY <1>3, <1>4
  <2>2. \E j \in 0..Len(found)' : RoomFor(j)'
    BY <2>1, <1>1, <1>3
  <2>3. Growth' > 0 /\ wpos' <= Len(str')
    BY <1>1, <1>4, <1>9, <1>11 DEF Growth
  <2> QED
    BY <2>2, <2>3, <1>1, <1>12 DEF MovingBackward
<1> QED
  BY <1>1, <1>13, <1>14
     DEF IInv, Starting, Counted, CountingUpToPos, MovingForward, OccursAt

LEMMA RestKeepsIInv ==
    ASSUME IInv, Stops \/ UNCHANGED vars
    PROVE  IInv'
<1>1. CASE Stops
  BY <1>1 DEF Stops, args, IInv, TypeOK, Starting, Counted, CountingUpToPos,
              MovingBackward, MovingForward, OccursAt
<1>2. CASE UNCHANGED vars
  BY <1>2 DEF vars, args, IInv, TypeOK, Starting, Counted, CountingUpToPos,
              MovingBackward, MovingForward, OccursAt, RoomFor, Growth
<1> QED
  BY <1>1, <1>2

LEMMA NextKeepsIInv == IInv /\ [Next]_vars => IInv'
BY ReplaceKeepsIInv, CountsKeepsIInv, MakesRoomKeepsIInv, ForwardKeepsIInv,
   BackwardKeepsIInv, RestKeepsIInv
   DEF Next, Step, Over

LEMMA IInvariant == Spec => []IInv
<1>1. Init => IInv
  BY InitIInv
<1>2. IInv /\ [Next]_vars => IInv'
  BY NextKeepsIInv
<1> QED
  BY <1>1, <1>2, PTL DEF Spec

---------------------------------------------------------------------------

\* The state of Replace stays well typed, the positions within the argument.
THEOREM ReplaceTypeCorrectness == Spec => []TypeOK
<1>1. IInv => TypeOK
  BY DEF IInv
<1> QED
  BY <1>1, IInvariant, PTL

\* No search of either algorithm meets text it has put in, for all strings.
THEOREM OnlyTheArgumentIsRead == Spec => []ReadsTheArgument
<1>1. IInv => ReadsTheArgument
  BY DEF IInv, MovingForward, MovingBackward, ReadsTheArgument
<1> QED
  BY <1>1, IInvariant, PTL

\* No copy leaves the buffer or overtakes the reading, no position wraps round.
THEOREM BufferIsNotLeft == Spec => []StaysInBuffer
<1>1. IInv => StaysInBuffer
  <2> SUFFICES ASSUME IInv PROVE StaysInBuffer
    OBVIOUS
  <2>1. stage = "forward" => wpos <= rpos /\ rpos <= Len(str)
    BY DEF IInv, TypeOK, MovingForward
  <2>2. ASSUME stage = "backward"
        PROVE  /\ rpos <= wpos /\ wpos <= Len(str)
               /\ rpos # wpos =>
                     /\ Len(what) <= rpos
                     /\ Len(what) <= KeptFrom /\ KeptFrom <= rpos
                     /\ Len(with) <= wpos - (rpos - KeptFrom)
    <3>1. PICK k \in 0..Len(found) : RoomFor(k)
      BY <2>2 DEF IInv, MovingBackward
    <3>2. /\ Len(what) \in Nat \ {0} /\ Len(with) \in Nat
          /\ Len(found) \in Nat /\ Growth \in Nat \ {0}
          /\ rpos \in Nat /\ wpos \in Nat /\ wpos <= Len(str)
      BY <2>2, Lengths DEF IInv, TypeOK, MovingBackward
    <3>3. k * Growth \in Nat /\ wpos = rpos + k * Growth
      BY <3>1, <3>2 DEF RoomFor
    <3>4. k > 0 => k * Growth >= Growth
      <4>1. k > 0 => (k - 1) * Growth \in Nat /\ k * Growth = (k - 1) * Growth + Growth
        BY <3>2
      <4> QED
        BY <4>1, <3>2
    <3>5. ASSUME rpos # wpos
          PROVE  /\ Len(what) <= rpos
                 /\ Len(what) <= KeptFrom /\ KeptFrom <= rpos
                 /\ Len(with) <= wpos - (rpos - KeptFrom)
      BY <2>2, <3>1, <3>2, <3>3, <3>4, <3>5, NextFromTheBack DEF Growth
    <3> QED
      BY <3>2, <3>3, <3>5
  <2> QED
    BY <2>1, <2>2 DEF StaysInBuffer
<1> QED
  BY <1>1, IInvariant, PTL

---------------------------------------------------------------------------
(* Induction over the positions of a string.                               *)

\* What holds at a position if it holds at all later ones holds at all.
LEMMA FromTheEnd ==
    ASSUME NEW b \in Nat, NEW T,
           \A p \in 0..b : (\A q \in (p + 1)..b : q \in T) => p \in T
    PROVE  0..b \subseteq T
<1> DEFINE Bad == (0..b) \ T
<1> SUFFICES ASSUME Bad # {} PROVE FALSE
  OBVIOUS
<1>1. Bad \subseteq 0..b
  OBVIOUS
<1>2. PICK m \in Bad : \A n \in Bad : m >= n
  BY <1>1, GreatestNumber
<1>3. ASSUME NEW q \in (m + 1)..b PROVE q \in T
  <2>1. q \in 0..b /\ ~ (m >= q)
    BY <1>1
  <2> QED
    BY <2>1, <1>2
<1> QED
  BY <1>3

\* What holds at a position if it holds at all earlier ones holds at all.
LEMMA FromTheBeginning ==
    ASSUME NEW b \in Nat, NEW T,
           \A p \in 0..b : (\A q \in 0..(p - 1) : q \in T) => p \in T
    PROVE  0..b \subseteq T
<1> DEFINE Bad == (0..b) \ T
<1> SUFFICES ASSUME Bad # {} PROVE FALSE
  OBVIOUS
<1>1. Bad \subseteq Nat
  OBVIOUS
<1>2. PICK m \in Bad : \A n \in Bad : m <= n
  BY <1>1, LeastNumber
<1>3. ASSUME NEW q \in 0..(m - 1) PROVE q \in T
  <2>1. q \in 0..b /\ ~ (m <= q)
    OBVIOUS
  <2> QED
    BY <2>1, <1>2
<1> QED
  BY <1>3

---------------------------------------------------------------------------
(* The references.                                                         *)

\* The equation that ReplacedFrom is defined by, at one position,
LeftRule(s, w, v, f, p) ==
    IF p = Len(s) THEN <<>>
    ELSE IF OccursAt(s, w, p) THEN v \o f[p + Len(w)]
    ELSE <<s[p + 1]>> \o f[p + 1]

\* and the one of ReplacedUpTo.
RightRule(s, w, v, f, p) ==
    IF p = 0 THEN <<>>
    ELSE IF p >= Len(w) /\ OccursAt(s, w, p - Len(w)) THEN f[p - Len(w)] \o v
    ELSE Append(f[p - 1], s[p])

\* There is a function that satisfies it from the end down to any position.
LEMMA FromTheLeftExists ==
    ASSUME NEW S, NEW s \in Seq(S), NEW w \in Seq(S), NEW v \in Seq(S), w # <<>>
    PROVE  \E f \in [0..Len(s) -> Seq(S)] :
              \A p \in 0..Len(s) : f[p] = LeftRule(s, w, v, f, p)
<1> DEFINE b == Len(s)
           Holds(n) == \E f \in [n..b -> Seq(S)] :
                          \A p \in n..b : f[p] = LeftRule(s, w, v, f, p)
           T == {n \in 0..b : Holds(n)}
<1>1. b \in Nat /\ Len(w) \in Nat \ {0}
  BY EmptySeq
<1>2. ASSUME NEW n \in 0..b, \A q \in (n + 1)..b : q \in T
      PROVE  Holds(n)
  <2>1. CASE n = b
    <3> DEFINE f == [p \in b..b |-> <<>>]
    <3>1. f \in [n..b -> Seq(S)]
      BY <2>1, EmptySeq
    <3>2. \A p \in n..b : f[p] = LeftRule(s, w, v, f, p)
      BY <2>1, <1>1 DEF LeftRule
    <3> HIDE DEF f
    <3> QED
      BY <3>1, <3>2
  <2>2. CASE n # b
    <3>1. n + 1 \in (n + 1)..b /\ n \in Nat
      BY <2>2, <1>1
    <3>2. PICK f \in [(n + 1)..b -> Seq(S)] :
             \A p \in (n + 1)..b : f[p] = LeftRule(s, w, v, f, p)
      BY <3>1, <1>2
    <3> DEFINE first == LeftRule(s, w, v, f, n)
               g == [p \in n..b |-> IF p = n THEN first ELSE f[p]]
    <3> HIDE DEF b
    <3>3. first \in Seq(S)
      <4>1. CASE OccursAt(s, w, n)
        <5>1. n + Len(w) \in (n + 1)..b
          BY <4>1, <1>1, <3>1 DEF OccursAt, b
        <5>2. f[n + Len(w)] \in Seq(S)
          BY <5>1
        <5> QED
          BY <5>2, <4>1, <2>2, ConcatProperties DEF LeftRule, b
      <4>2. CASE ~ OccursAt(s, w, n)
        <5>1. f[n + 1] \in Seq(S)
          BY <3>1
        <5>2. s[n + 1] \in S
          BY <1>1, <2>2, ElementOfSeq DEF b
        <5>3. <<s[n + 1]>> \in Seq(S)
          BY <5>2
        <5> QED
          BY <5>1, <5>3, <4>2, <2>2, ConcatProperties DEF LeftRule, b
      <4> QED
        BY <4>1, <4>2
    <3> HIDE DEF first
    <3>4. g \in [n..b -> Seq(S)]
      BY <3>3, <3>1, <1>1
    <3>5. \A p \in (n + 1)..b : g[p] = f[p] /\ p \in n..b /\ p # n
      BY <3>1, <1>1
    <3>6. g[n] = first
      BY <3>1, <1>1
    <3> HIDE DEF g
    <3>7. ASSUME NEW p \in n..b
          PROVE  LeftRule(s, w, v, g, p) = LeftRule(s, w, v, f, p)
      <4>1. CASE p = b
        BY <4>1 DEF LeftRule, b
      <4>2. CASE p # b /\ OccursAt(s, w, p)
        <5>1. p + Len(w) \in (n + 1)..b
          BY <4>2, <1>1, <3>1 DEF OccursAt, b
        <5> QED
          BY <5>1, <4>2, <3>5 DEF LeftRule
      <4>3. CASE p # b /\ ~ OccursAt(s, w, p)
        <5>1. p + 1 \in (n + 1)..b
          BY <4>3, <1>1, <3>1
        <5> QED
          BY <5>1, <4>3, <3>5 DEF LeftRule
      <4> QED
        BY <4>1, <4>2, <4>3
    <3>8. \A p \in n..b : g[p] = LeftRule(s, w, v, g, p)
      <4> SUFFICES ASSUME NEW p \in n..b PROVE g[p] = LeftRule(s, w, v, g, p)
        OBVIOUS
      <4>1. CASE p = n
        BY <4>1, <3>6, <3>7 DEF first
      <4>2. CASE p # n
        <5>1. p \in (n + 1)..b
          BY <4>2, <1>1, <3>1
        <5> QED
          BY <5>1, <3>2, <3>5, <3>7
      <4> QED
        BY <4>1, <4>2
    <3> QED
      BY <3>4, <3>8
  <2> QED
    BY <2>1, <2>2
<1> HIDE DEF Holds
<1>3. 0..b \subseteq T
  <2>1. \A p \in 0..b : (\A q \in (p + 1)..b : q \in T) => p \in T
    BY <1>2
  <2> HIDE DEF T, b
  <2> QED
    BY <2>1, <1>1, FromTheEnd
<1>4. Holds(0)
  BY <1>1, <1>3
<1> QED
  BY <1>4 DEF Holds

\* ReplacedFrom satisfies the equation it is defined by, and is a string
\* everywhere.
LEMMA FromTheLeftDefined ==
    ASSUME NEW S, NEW s \in Seq(S), NEW w \in Seq(S), NEW v \in Seq(S), w # <<>>
    PROVE  /\ ReplacedFrom(s, w, v) \in [0..Len(s) -> Seq(S)]
           /\ \A p \in 0..Len(s) :
                 ReplacedFrom(s, w, v)[p] = LeftRule(s, w, v, ReplacedFrom(s, w, v), p)
<1> DEFINE b == Len(s)
           tail == ReplacedFrom(s, w, v)
           Solves(g) == g = [p \in 0..b |-> LeftRule(s, w, v, g, p)]
<1>1. b \in Nat /\ Len(w) \in Nat \ {0}
  BY EmptySeq
<1>2. PICK f \in [0..b -> Seq(S)] : \A p \in 0..b : f[p] = LeftRule(s, w, v, f, p)
  BY FromTheLeftExists
<1>3. Solves(f)
  BY <1>2
<1>4. tail = CHOOSE g : Solves(g)
  BY DEF ReplacedFrom, LeftRule
<1>5. Solves(tail)
  <2> HIDE DEF Solves, tail
  <2> QED
    BY <1>3, <1>4
<1> HIDE DEF tail, b
<1>6. \A p \in 0..b : tail[p] = LeftRule(s, w, v, tail, p)
  BY <1>5
<1>7. ASSUME NEW p \in 0..b, \A q \in (p + 1)..b : tail[q] = f[q]
      PROVE  tail[p] = f[p]
  <2>1. tail[p] = LeftRule(s, w, v, tail, p) /\ f[p] = LeftRule(s, w, v, f, p)
    BY <1>2, <1>6
  <2>2. CASE p = b
    BY <2>1, <2>2 DEF LeftRule, b
  <2>3. CASE p # b /\ OccursAt(s, w, p)
    <3>1. p + Len(w) \in (p + 1)..b
      BY <2>3, <1>1 DEF OccursAt, b
    <3> QED
      BY <3>1, <2>1, <2>3, <1>7 DEF LeftRule
  <2>4. CASE p # b /\ ~ OccursAt(s, w, p)
    <3>1. p + 1 \in (p + 1)..b
      BY <2>4, <1>1
    <3> QED
      BY <3>1, <2>1, <2>4, <1>7 DEF LeftRule
  <2> QED
    BY <2>2, <2>3, <2>4
<1>8. \A p \in 0..b : tail[p] = f[p]
  <2> DEFINE T == {p \in 0..b : tail[p] = f[p]}
  <2>1. \A p \in 0..b : (\A q \in (p + 1)..b : q \in T) => p \in T
    BY <1>7
  <2>2. 0..b \subseteq T
    <3> HIDE DEF T
    <3> QED
      BY <2>1, <1>1, FromTheEnd
  <2> QED
    BY <2>2
<1>9. tail = [p \in 0..b |-> LeftRule(s, w, v, tail, p)]
  BY <1>5
<1>10. tail \in [0..b -> Seq(S)]
  <2>1. \A p \in 0..b : LeftRule(s, w, v, tail, p) \in Seq(S)
    BY <1>6, <1>8
  <2> QED
    BY <2>1, <1>9
<1> QED
  BY <1>6, <1>10 DEF tail, b

\* There is a function that satisfies the other equation up to any position.
LEMMA FromTheRightExists ==
    ASSUME NEW S, NEW s \in Seq(S), NEW w \in Seq(S), NEW v \in Seq(S), w # <<>>
    PROVE  \E f \in [0..Len(s) -> Seq(S)] :
              \A p \in 0..Len(s) : f[p] = RightRule(s, w, v, f, p)
<1> DEFINE b == Len(s)
           Holds(n) == \E f \in [0..n -> Seq(S)] :
                          \A p \in 0..n : f[p] = RightRule(s, w, v, f, p)
           T == {n \in 0..b : Holds(n)}
<1>1. b \in Nat /\ Len(w) \in Nat \ {0}
  BY EmptySeq
<1>2. ASSUME NEW n \in 0..b, \A q \in 0..(n - 1) : q \in T
      PROVE  Holds(n)
  <2>1. CASE n = 0
    <3> DEFINE f == [p \in 0..0 |-> <<>>]
    <3>1. f \in [0..n -> Seq(S)]
      BY <2>1, EmptySeq
    <3>2. \A p \in 0..n : f[p] = RightRule(s, w, v, f, p)
      BY <2>1, <1>1 DEF RightRule
    <3> HIDE DEF f
    <3> QED
      BY <3>1, <3>2
  <2>2. CASE n # 0
    <3>1. n - 1 \in 0..(n - 1) /\ n \in Nat
      BY <2>2, <1>1
    <3>2. PICK f \in [0..(n - 1) -> Seq(S)] :
             \A p \in 0..(n - 1) : f[p] = RightRule(s, w, v, f, p)
      BY <3>1, <1>2
    <3> DEFINE last == RightRule(s, w, v, f, n)
               g == [p \in 0..n |-> IF p = n THEN last ELSE f[p]]
    <3> HIDE DEF b
    <3>3. last \in Seq(S)
      <4>1. CASE n >= Len(w) /\ OccursAt(s, w, n - Len(w))
        <5>1. n - Len(w) \in 0..(n - 1)
          BY <4>1, <1>1, <3>1
        <5>2. f[n - Len(w)] \in Seq(S)
          BY <5>1
        <5> QED
          BY <5>2, <4>1, <2>2, ConcatProperties DEF RightRule
      <4>2. CASE ~ (n >= Len(w) /\ OccursAt(s, w, n - Len(w)))
        <5>1. f[n - 1] \in Seq(S)
          BY <3>1
        <5>2. s[n] \in S
          BY <1>1, <2>2, ElementOfSeq DEF b
        <5> QED
          BY <5>1, <5>2, <4>2, <2>2, AppendProperties DEF RightRule
      <4> QED
        BY <4>1, <4>2
    <3> HIDE DEF last
    <3>4. g \in [0..n -> Seq(S)]
      BY <3>3, <3>1, <1>1
    <3>5. \A p \in 0..(n - 1) : g[p] = f[p] /\ p \in 0..n /\ p # n
      BY <3>1, <1>1
    <3>6. g[n] = last
      BY <3>1, <1>1
    <3> HIDE DEF g
    <3>7. ASSUME NEW p \in 0..n
          PROVE  RightRule(s, w, v, g, p) = RightRule(s, w, v, f, p)
      <4>1. CASE p = 0
        BY <4>1 DEF RightRule
      <4>2. CASE p # 0 /\ p >= Len(w) /\ OccursAt(s, w, p - Len(w))
        <5>1. p - Len(w) \in 0..(n - 1)
          BY <4>2, <1>1, <3>1
        <5> QED
          BY <5>1, <4>2, <3>5 DEF RightRule
      <4>3. CASE p # 0 /\ ~ (p >= Len(w) /\ OccursAt(s, w, p - Len(w)))
        <5>1. p - 1 \in 0..(n - 1)
          BY <4>3, <1>1, <3>1
        <5> QED
          BY <5>1, <4>3, <3>5 DEF RightRule
      <4> QED
        BY <4>1, <4>2, <4>3
    <3>8. \A p \in 0..n : g[p] = RightRule(s, w, v, g, p)
      <4> SUFFICES ASSUME NEW p \in 0..n PROVE g[p] = RightRule(s, w, v, g, p)
        OBVIOUS
      <4>1. CASE p = n
        BY <4>1, <3>6, <3>7 DEF last
      <4>2. CASE p # n
        <5>1. p \in 0..(n - 1)
          BY <4>2, <1>1, <3>1
        <5> QED
          BY <5>1, <3>2, <3>5, <3>7
      <4> QED
        BY <4>1, <4>2
    <3> QED
      BY <3>4, <3>8
  <2> QED
    BY <2>1, <2>2
<1> HIDE DEF Holds
<1>3. 0..b \subseteq T
  <2>1. \A p \in 0..b : (\A q \in 0..(p - 1) : q \in T) => p \in T
    BY <1>2
  <2> HIDE DEF T, b
  <2> QED
    BY <2>1, <1>1, FromTheBeginning
<1>4. Holds(b)
  BY <1>1, <1>3
<1> QED
  BY <1>4 DEF Holds

\* ReplacedUpTo satisfies it, and is a string everywhere.
LEMMA FromTheRightDefined ==
    ASSUME NEW S, NEW s \in Seq(S), NEW w \in Seq(S), NEW v \in Seq(S), w # <<>>
    PROVE  /\ ReplacedUpTo(s, w, v) \in [0..Len(s) -> Seq(S)]
           /\ \A p \in 0..Len(s) :
                 ReplacedUpTo(s, w, v)[p] = RightRule(s, w, v, ReplacedUpTo(s, w, v), p)
<1> DEFINE b == Len(s)
           head == ReplacedUpTo(s, w, v)
           Solves(g) == g = [p \in 0..b |-> RightRule(s, w, v, g, p)]
<1>1. b \in Nat /\ Len(w) \in Nat \ {0}
  BY EmptySeq
<1>2. PICK f \in [0..b -> Seq(S)] : \A p \in 0..b : f[p] = RightRule(s, w, v, f, p)
  BY FromTheRightExists
<1>3. Solves(f)
  BY <1>2
<1>4. head = CHOOSE g : Solves(g)
  BY DEF ReplacedUpTo, RightRule
<1>5. Solves(head)
  <2> HIDE DEF Solves, head
  <2> QED
    BY <1>3, <1>4
<1> HIDE DEF head, b
<1>6. \A p \in 0..b : head[p] = RightRule(s, w, v, head, p)
  BY <1>5
<1>7. ASSUME NEW p \in 0..b, \A q \in 0..(p - 1) : head[q] = f[q]
      PROVE  head[p] = f[p]
  <2>1. head[p] = RightRule(s, w, v, head, p) /\ f[p] = RightRule(s, w, v, f, p)
    BY <1>2, <1>6
  <2>2. CASE p = 0
    BY <2>1, <2>2 DEF RightRule
  <2>3. CASE p # 0 /\ p >= Len(w) /\ OccursAt(s, w, p - Len(w))
    <3>1. p - Len(w) \in 0..(p - 1)
      BY <2>3, <1>1
    <3> QED
      BY <3>1, <2>1, <2>3, <1>7 DEF RightRule
  <2>4. CASE p # 0 /\ ~ (p >= Len(w) /\ OccursAt(s, w, p - Len(w)))
    <3>1. p - 1 \in 0..(p - 1)
      BY <2>4, <1>1
    <3> QED
      BY <3>1, <2>1, <2>4, <1>7 DEF RightRule
  <2> QED
    BY <2>2, <2>3, <2>4
<1>8. \A p \in 0..b : head[p] = f[p]
  <2> DEFINE T == {p \in 0..b : head[p] = f[p]}
  <2>1. \A p \in 0..b : (\A q \in 0..(p - 1) : q \in T) => p \in T
    BY <1>7
  <2>2. 0..b \subseteq T
    <3> HIDE DEF T
    <3> QED
      BY <2>1, <1>1, FromTheBeginning
  <2> QED
    BY <2>2
<1>9. head = [p \in 0..b |-> RightRule(s, w, v, head, p)]
  BY <1>5
<1>10. head \in [0..b -> Seq(S)]
  <2>1. \A p \in 0..b : RightRule(s, w, v, head, p) \in Seq(S)
    BY <1>6, <1>8
  <2> QED
    BY <2>1, <1>9
<1> QED
  BY <1>6, <1>10 DEF head, b

\* Three strings are joined to the same in either order.  (The equation has a
\* name so that a proof cites it for three strings and not for all.)
Associate(x, y, z) == (x \o y) \o z = x \o (y \o z)

LEMMA AllAssociate ==
    ASSUME NEW S, NEW x \in Seq(S), NEW y \in Seq(S), NEW z \in Seq(S)
    PROVE  Associate(x, y, z)
BY ConcatAssociative DEF Associate

\* From p to e the string is kept.
KeptTo(s, w, v, p, e) ==
    ReplacedFrom(s, w, v)[p] = SubSeq(s, p + 1, e) \o ReplacedFrom(s, w, v)[e]

\* Taken from the left, what lies before the next occurrence is kept.
LEMMA KeptBefore ==
    ASSUME NEW S, NEW s \in Seq(S), NEW w \in Seq(S), NEW v \in Seq(S), w # <<>>,
           NEW e \in 0..Len(s), NEW p \in 0..e,
           \A q \in p..e : q < e => ~ OccursAt(s, w, q)
    PROVE  KeptTo(s, w, v, p, e)
<1> DEFINE b == Len(s)
           tail == ReplacedFrom(s, w, v)
           Keeps(n) == tail[n] = SubSeq(s, n + 1, e) \o tail[e]
           T == {n \in 0..e : n >= p => Keeps(n)}
<1>1. b \in Nat /\ e \in Nat /\ p \in Nat /\ p <= e /\ e <= b
  OBVIOUS
<1>2. /\ tail \in [0..b -> Seq(S)]
      /\ \A n \in 0..b : tail[n] = LeftRule(s, w, v, tail, n)
  BY FromTheLeftDefined
<1> HIDE DEF tail
<1>3. ASSUME NEW n \in 0..e, \A q \in (n + 1)..e : q \in T, n >= p
      PROVE  Keeps(n)
  <2>1. CASE n = e
    <3>1. SubSeq(s, n + 1, e) = <<>>
      BY <2>1, <1>1, SubSeqEmpty
    <3>2. tail[e] \in Seq(S)
      BY <1>1, <1>2
    <3> QED
      BY <3>1, <3>2, <2>1, ConcatEmptySeq
  <2>2. CASE n # e
    <3>1. /\ n + 1 \in (n + 1)..e /\ n + 1 >= p /\ n \in p..e /\ n < e
          /\ n \in 0..b /\ n # b /\ n + 1 \in 1..b /\ e \in (n + 1)..b
      BY <2>2, <1>1, <1>3
    <3>2. tail[n] = <<s[n + 1]>> \o tail[n + 1]
      <4>1. ~ OccursAt(s, w, n)
        BY <3>1
      <4> QED
        BY <4>1, <3>1, <1>2 DEF LeftRule
    <3>3. tail[n + 1] = SubSeq(s, (n + 1) + 1, e) \o tail[e]
      BY <3>1, <1>3
    <3>4. SubSeq(s, n + 1, e) = <<s[n + 1]>> \o SubSeq(s, (n + 1) + 1, e)
      BY <3>1, SubSeqRecursiveFirst
    <3>5. /\ <<s[n + 1]>> \in Seq(S) /\ tail[e] \in Seq(S)
          /\ SubSeq(s, (n + 1) + 1, e) \in Seq(S)
      <4>1. s[n + 1] \in S
        BY <3>1, ElementOfSeq
      <4>2. tail[e] \in Seq(S)
        BY <1>1, <1>2
      <4>3. \A i \in ((n + 1) + 1)..e : s[i] \in S
        <5> SUFFICES ASSUME NEW i \in ((n + 1) + 1)..e PROVE i \in 1..Len(s)
          BY ElementOfSeq
        <5> QED
          BY <3>1, <1>1
      <4>4. (n + 1) + 1 \in Int /\ e \in Int
        BY <3>1, <1>1
      <4> QED
        BY <4>1, <4>2, <4>3, <4>4, SubSeqProperties
    <3>6. Associate(<<s[n + 1]>>, SubSeq(s, (n + 1) + 1, e), tail[e])
      BY <3>5, AllAssociate
    <3> QED
      BY <3>2, <3>3, <3>4, <3>6 DEF Associate
  <2> QED
    BY <2>1, <2>2
<1>4. 0..e \subseteq T
  <2>1. \A n \in 0..e : (\A q \in (n + 1)..e : q \in T) => n \in T
    BY <1>3
  <2> HIDE DEF T
  <2> QED
    BY <2>1, <1>1, FromTheEnd
<1>5. Keeps(p)
  <2>0. p \in 0..e /\ p >= p
    BY <1>1
  <2>1. p \in T /\ p >= p
    <3> HIDE DEF T
    <3> QED
      BY <2>0, <1>4
  <2> HIDE DEF Keeps
  <2> QED
    BY <2>1
<1> QED
  BY <1>5 DEF tail, KeptTo

\* Taken from the right, what lies behind the last occurrence is kept.
LEMMA KeptBehind ==
    ASSUME NEW S, NEW s \in Seq(S), NEW w \in Seq(S), NEW v \in Seq(S), w # <<>>,
           NEW p \in 0..Len(s), NEW e \in 0..p,
           \A q \in (e + 1)..p : q >= Len(w) => ~ OccursAt(s, w, q - Len(w))
    PROVE  ReplacedUpTo(s, w, v)[p] = ReplacedUpTo(s, w, v)[e] \o SubSeq(s, e + 1, p)
<1> DEFINE b == Len(s)
           head == ReplacedUpTo(s, w, v)
           Keeps(n) == head[n] = head[e] \o SubSeq(s, e + 1, n)
           T == {n \in 0..p : n >= e => Keeps(n)}
<1>1. b \in Nat /\ e \in Nat /\ p \in Nat /\ e <= p /\ p <= b
  OBVIOUS
<1>2. /\ head \in [0..b -> Seq(S)]
      /\ \A n \in 0..b : head[n] = RightRule(s, w, v, head, n)
  BY FromTheRightDefined
<1> HIDE DEF head
<1>3. ASSUME NEW n \in 0..p, \A q \in 0..(n - 1) : q \in T, n >= e
      PROVE  Keeps(n)
  <2>1. CASE n = e
    <3>1. SubSeq(s, e + 1, n) = <<>>
      BY <2>1, <1>1, SubSeqEmpty
    <3>2. head[e] \in Seq(S)
      <4>1. e \in 0..b
        BY <1>1
      <4> QED
        BY <4>1, <1>2
    <3> QED
      BY <3>1, <3>2, <2>1, ConcatEmptySeq
  <2>2. CASE n # e
    <3>1. /\ n - 1 \in 0..(n - 1) /\ n - 1 \in 0..p /\ n - 1 >= e /\ n \in (e + 1)..p
          /\ n \in 0..b /\ n # 0 /\ n \in 1..b /\ e + 1 \in 1..b /\ n \in (e + 1)..b
      BY <2>2, <1>1, <1>3
    <3>2. head[n] = Append(head[n - 1], s[n])
      <4>1. n >= Len(w) => ~ OccursAt(s, w, n - Len(w))
        BY <3>1
      <4> QED
        BY <4>1, <3>1, <1>2 DEF RightRule
    <3>3. head[n - 1] = head[e] \o SubSeq(s, e + 1, n - 1)
      BY <3>1, <1>3
    <3>4. SubSeq(s, e + 1, n) = SubSeq(s, e + 1, n - 1) \o <<s[n]>>
      BY <3>1, SubSeqRecursiveSecond
    <3>5. /\ s[n] \in S /\ <<s[n]>> \in Seq(S) /\ head[e] \in Seq(S)
          /\ head[n - 1] \in Seq(S)
          /\ SubSeq(s, e + 1, n - 1) \in Seq(S)
      <4>1. s[n] \in S
        BY <3>1, ElementOfSeq
      <4>2. head[e] \in Seq(S) /\ head[n - 1] \in Seq(S)
        <5>1. e \in 0..b /\ n - 1 \in 0..b
          BY <1>1, <3>1
        <5> QED
          BY <5>1, <1>2
      <4>3. \A i \in (e + 1)..(n - 1) : s[i] \in S
        <5> SUFFICES ASSUME NEW i \in (e + 1)..(n - 1) PROVE i \in 1..Len(s)
          BY ElementOfSeq
        <5> QED
          BY <3>1, <1>1
      <4>4. e + 1 \in Int /\ n - 1 \in Int
        BY <3>1, <1>1
      <4> QED
        BY <4>1, <4>2, <4>3, <4>4, SubSeqProperties
    <3>6. Append(head[n - 1], s[n]) = head[n - 1] \o <<s[n]>>
      BY <3>5, AppendIsConcat
    <3>7. Associate(head[e], SubSeq(s, e + 1, n - 1), <<s[n]>>)
      BY <3>5, AllAssociate
    <3> QED
      BY <3>2, <3>3, <3>4, <3>6, <3>7 DEF Associate
  <2> QED
    BY <2>1, <2>2
<1>4. 0..p \subseteq T
  <2>1. \A n \in 0..p : (\A q \in 0..(n - 1) : q \in T) => n \in T
    BY <1>3
  <2> HIDE DEF T
  <2> QED
    BY <2>1, <1>1, FromTheBeginning
<1>5. Keeps(p)
  <2>0. p \in 0..p /\ p >= p
    BY <1>1
  <2>1. p \in T /\ p >= p
    <3> HIDE DEF T
    <3> QED
      BY <2>0, <1>4
  <2> HIDE DEF Keeps
  <2> QED
    BY <2>1
<1> QED
  BY <1>5 DEF head

\* No position lies within an occurrence that a cut there would divide.
Uncut(s, w, p) == \A q \in 0..Len(s) : OccursAt(s, w, q) => p <= q \/ q + Len(w) <= p

\* Two occurrences that share characters make the text overlap itself.
LEMMA NoneShared ==
    ASSUME NEW s, NEW w, Len(w) \in Nat, NEW q \in Nat, NEW r \in Nat,
           OccursAt(s, w, q), OccursAt(s, w, r), r < q, q < r + Len(w),
           \A i \in 0..Len(w) : Len(SubSeq(w, 1, i)) = i,
           \A i \in 0..Len(w) : \A j \in 1..i : SubSeq(w, 1, i)[j] = w[j]
    PROVE  \E n \in 1..(Len(w) - 1) : OccursAt(w, SubSeq(w, 1, n), Len(w) - n)
<1> DEFINE n == r + Len(w) - q
<1>1. n \in 1..(Len(w) - 1) /\ n \in 0..Len(w) /\ Len(w) - n = q - r
  OBVIOUS
<1>2. ASSUME NEW i \in 1..n PROVE w[(q - r) + i] = w[i]
  <2>1. i \in 1..Len(w) /\ (q - r) + i \in 1..Len(w) /\ r + ((q - r) + i) = q + i
    BY <1>1, SMTT(30)
  <2>2. s[r + ((q - r) + i)] = w[(q - r) + i]
    BY <2>1 DEF OccursAt
  <2>3. s[q + i] = w[i]
    BY <2>1 DEF OccursAt
  <2> QED
    BY <2>1, <2>2, <2>3
<1> HIDE DEF n
<1>3. Len(SubSeq(w, 1, n)) = n /\ \A i \in 1..n : SubSeq(w, 1, n)[i] = w[i]
  BY <1>1
<1>4. (Len(w) - n) + n <= Len(w)
  BY <1>1
<1>5. OccursAt(w, SubSeq(w, 1, n), Len(w) - n)
  BY <1>1, <1>2, <1>3, <1>4 DEF OccursAt
<1> QED
  BY <1>1, <1>5

\* If the text does not overlap itself, it does not matter from where its
\* occurrences are taken.
LEMMA EitherSide ==
    ASSUME NEW S, NEW s \in Seq(S), NEW w \in Seq(S), NEW v \in Seq(S), w # <<>>,
           ~ \E n \in 1..(Len(w) - 1) : OccursAt(w, SubSeq(w, 1, n), Len(w) - n)
    PROVE  ReplacedFrom(s, w, v)[0] = ReplacedUpTo(s, w, v)[Len(s)]
<1> DEFINE b == Len(s)
           m == Len(w)
           tail == ReplacedFrom(s, w, v)
           head == ReplacedUpTo(s, w, v)
           Joins(p) == Uncut(s, w, p) => head[p] \o tail[p] = tail[0]
           T == {p \in 0..b : Joins(p)}
<1>1. b \in Nat /\ m \in Nat \ {0}
  BY EmptySeq
<1>2. /\ tail \in [0..b -> Seq(S)]
      /\ \A p \in 0..b : tail[p] = LeftRule(s, w, v, tail, p)
  BY FromTheLeftDefined
<1>3. /\ head \in [0..b -> Seq(S)]
      /\ \A p \in 0..b : head[p] = RightRule(s, w, v, head, p)
  BY FromTheRightDefined
<1> HIDE DEF tail, head
<1>4. ASSUME NEW q \in 0..b, NEW r \in 0..b, OccursAt(s, w, q), OccursAt(s, w, r), r < q
      PROVE  r + m <= q
  <2> SUFFICES ASSUME q < r + m PROVE FALSE
    BY <1>1
  <2>1. \A i \in 0..m : \A j \in 1..i : w[j] \in S
    <3> SUFFICES ASSUME NEW i \in 0..m, NEW j \in 1..i PROVE j \in 1..Len(w)
      BY ElementOfSeq
    <3> QED
      BY <1>1
  <2>2. ASSUME NEW i \in 0..m
        PROVE  /\ Len(SubSeq(w, 1, i)) = i
               /\ \A j \in 1..i : SubSeq(w, 1, i)[j] = w[j]
    <3>1. 1 \in Int /\ i \in Int /\ \A j \in 1..i : w[j] \in S
      BY <2>1, <1>1
    <3>2. /\ Len(SubSeq(w, 1, i)) = IF 1 <= i THEN i - 1 + 1 ELSE 0
          /\ \A j \in 1..(i - 1 + 1) : SubSeq(w, 1, i)[j] = w[1 + j - 1]
      BY <3>1, SubSeqProperties
    <3>3. i - 1 + 1 = i /\ \A j \in 1..i : 1 + j - 1 = j
      BY <3>1
    <3>4. i \in Nat /\ (i = 0 \/ 1 <= i)
      BY <1>1
    <3> QED
      BY <3>2, <3>3, <3>4
  <2> QED
    BY <2>2, <1>1, <1>4, NoneShared
<1>5. ASSUME NEW p \in 0..b, \A q \in 0..(p - 1) : q \in T, Uncut(s, w, p)
      PROVE  head[p] \o tail[p] = tail[0]
  <2>1. CASE p = 0
    <3>1. head[p] = <<>> /\ tail[0] \in Seq(S)
      BY <2>1, <1>1, <1>2, <1>3 DEF RightRule
    <3> QED
      BY <3>1, <2>1, ConcatEmptySeq
  <2>2. CASE p # 0 /\ p >= m /\ OccursAt(s, w, p - m)
    <3> DEFINE q == p - m
    <3>1. q \in 0..b /\ q \in 0..(p - 1) /\ q + m = p /\ q # b
      BY <2>2, <1>1
    <3> HIDE DEF q
    <3>2. OccursAt(s, w, q)
      BY <2>2 DEF q
    <3>3. Uncut(s, w, q)
      <4> SUFFICES ASSUME NEW r \in 0..b, OccursAt(s, w, r), r < q
                   PROVE  r + m <= q
        BY <1>1, <3>1 DEF Uncut
      <4> QED
        BY <3>1, <3>2, <1>4
    <3>4. head[q] \o tail[q] = tail[0]
      BY <3>1, <3>3, <1>5
    <3>5. tail[q] = v \o tail[p]
      BY <3>1, <3>2, <1>2 DEF LeftRule
    <3>6. head[p] = head[q] \o v
      BY <2>2, <1>3 DEF RightRule, q
    <3>7. head[q] \in Seq(S) /\ tail[p] \in Seq(S)
      BY <3>1, <1>2, <1>3
    <3>8. Associate(head[q], v, tail[p])
      BY <3>7, AllAssociate
    <3> QED
      BY <3>4, <3>5, <3>6, <3>8 DEF Associate
  <2>3. CASE p # 0 /\ ~ (p >= m /\ OccursAt(s, w, p - m))
    <3> DEFINE q == p - 1
    <3>1. q \in 0..b /\ q \in 0..(p - 1) /\ q + 1 = p /\ q # b /\ p \in 1..b
      BY <2>3, <1>1
    <3> HIDE DEF q
    <3>2. ASSUME NEW r \in 0..b, OccursAt(s, w, r), r < p
          PROVE  r + m <= q
      <4>1. r + m <= p
        BY <3>1, <3>2, <1>5 DEF Uncut
      <4>2. r + m # p
        <5> SUFFICES ASSUME r + m = p PROVE FALSE
          OBVIOUS
        <5>1. p - m = r /\ p >= m
          BY <1>1
        <5> QED
          BY <5>1, <2>3, <3>2
      <4> QED
        <5>1. q \in Int /\ r \in Int /\ m \in Int /\ p \in Int
          BY <3>1, <1>1
        <5> HIDE DEF m
        <5> QED
          BY <5>1, <4>1, <4>2, <3>1
    <3>3. Uncut(s, w, q)
      <4> SUFFICES ASSUME NEW r \in 0..b, OccursAt(s, w, r), r < q
                   PROVE  r + m <= q
        BY <1>1, <3>1 DEF Uncut
      <4> QED
        BY <3>1, <3>2
    <3>4. ~ OccursAt(s, w, q)
      <4> SUFFICES ASSUME OccursAt(s, w, q) PROVE FALSE
        OBVIOUS
      <4>1. q + m <= q
        BY <3>1, <3>2
      <4> QED
        BY <4>1, <3>1, <1>1
    <3>5. head[q] \o tail[q] = tail[0]
      BY <3>1, <3>3, <1>5
    <3>6. tail[q] = <<s[p]>> \o tail[p]
      BY <3>1, <3>4, <1>2 DEF LeftRule
    <3>7. head[p] = Append(head[q], s[p])
      BY <2>3, <1>3 DEF RightRule, q
    <3>8. head[q] \in Seq(S) /\ tail[p] \in Seq(S) /\ s[p] \in S /\ <<s[p]>> \in Seq(S)
      <4>1. s[p] \in S
        BY <3>1, ElementOfSeq
      <4>2. p \in 0..b
        BY <3>1
      <4>3. head[q] \in Seq(S) /\ tail[p] \in Seq(S)
        BY <4>2, <3>1, <1>2, <1>3
      <4>4. <<s[p]>> \in Seq(S)
        BY <4>1
      <4> QED
        BY <4>1, <4>3, <4>4
    <3>9. head[p] = head[q] \o <<s[p]>>
      BY <3>7, <3>8, AppendIsConcat
    <3>10. Associate(head[q], <<s[p]>>, tail[p])
      BY <3>8, AllAssociate
    <3> QED
      BY <3>5, <3>6, <3>9, <3>10 DEF Associate
  <2> QED
    BY <2>1, <2>2, <2>3
<1>6. 0..b \subseteq T
  <2>1. \A p \in 0..b : (\A q \in 0..(p - 1) : q \in T) => p \in T
    BY <1>5
  <2> HIDE DEF T, b
  <2> QED
    BY <2>1, <1>1, FromTheBeginning
<1>7. Uncut(s, w, b)
  BY <1>1 DEF Uncut, OccursAt
<1>8. head[b] \o tail[b] = tail[0]
  <2>0. b \in 0..b
    BY <1>1
  <2>1. b \in T
    <3> HIDE DEF T
    <3> QED
      BY <2>0, <1>6
  <2> QED
    BY <2>1, <1>7
<1>9. tail[b] = <<>> /\ head[b] \in Seq(S)
  <2>1. b \in 0..b
    BY <1>1
  <2>2. tail[b] = LeftRule(s, w, v, tail, b) /\ head[b] \in Seq(S)
    BY <2>1, <1>2, <1>3
  <2> QED
    BY <2>2 DEF LeftRule
<1>10. head[b] = tail[0]
  BY <1>8, <1>9, ConcatEmptySeq
<1> QED
  BY <1>10 DEF tail, head

\* A part of a string, character by character.
LEMMA Between ==
    ASSUME NEW S, NEW s \in Seq(S), NEW first \in 0..Len(s), NEW last \in first..Len(s)
    PROVE  /\ SubSeq(s, first + 1, last) \in Seq(S)
           /\ Len(SubSeq(s, first + 1, last)) = last - first
           /\ \A i \in 1..(last - first) : SubSeq(s, first + 1, last)[i] = s[first + i]
<1>1. first \in Nat /\ last \in Nat /\ first <= last /\ last <= Len(s) /\ Len(s) \in Nat
  OBVIOUS
<1>2. \A i \in (first + 1)..last : s[i] \in S
  <2> SUFFICES ASSUME NEW i \in (first + 1)..last PROVE i \in 1..Len(s)
    BY ElementOfSeq
  <2> QED
    BY <1>1
<1>3. first + 1 \in Int /\ last \in Int
  BY <1>1
<1>4. /\ SubSeq(s, first + 1, last) \in Seq(S)
      /\ Len(SubSeq(s, first + 1, last))
            = IF first + 1 <= last THEN last - (first + 1) + 1 ELSE 0
      /\ \A i \in 1..(last - (first + 1) + 1) :
            SubSeq(s, first + 1, last)[i] = s[(first + 1) + i - 1]
  BY <1>2, <1>3, SubSeqProperties
<1>5. last - (first + 1) + 1 = last - first
  BY <1>1
<1>6. (IF first + 1 <= last THEN last - (first + 1) + 1 ELSE 0) = last - first
  BY <1>1
<1>7. \A i \in 1..(last - first) : (first + 1) + i - 1 = first + i
  BY <1>1
<1> QED
  BY <1>4, <1>5, <1>6, <1>7

\* What a copy writes is what the buffer has there.
LEMMA CopyWrites ==
    ASSUME NEW S, NEW s \in Seq(S), NEW t \in Seq(S), NEW dest \in 0..Len(s),
           dest + Len(t) <= Len(s)
    PROVE  \A i \in 1..Len(t) : Copied(s, t, dest)[dest + i] = t[i]
<1> SUFFICES ASSUME NEW i \in 1..Len(t)
             PROVE  Copied(s, t, dest)[dest + i] = t[i]
  OBVIOUS
<1>1. /\ dest + i \in 1..Len(s) /\ dest < dest + i /\ dest + i <= dest + Len(t)
      /\ (dest + i) - dest = i
  OBVIOUS
<1> QED
  BY <1>1 DEF Copied

\* Up to the end of the copy the buffer has what was before it, and the copy.
LEMMA CopyBehind ==
    ASSUME NEW S, NEW s \in Seq(S), NEW t \in Seq(S), NEW dest \in 0..Len(s),
           dest + Len(t) <= Len(s)
    PROVE  SubSeq(Copied(s, t, dest), 1, dest + Len(t)) = SubSeq(s, 1, dest) \o t
<1> DEFINE c == Copied(s, t, dest)
           e == dest + Len(t)
           x == SubSeq(c, 1, e)
           y == SubSeq(s, 1, dest)
<1>1. /\ Len(s) \in Nat /\ Len(t) \in Nat /\ dest \in Nat /\ e \in Nat
      /\ dest <= e /\ e <= Len(s) /\ dest \in Int
  OBVIOUS
<1>2. /\ c \in Seq(S) /\ Len(c) = Len(s)
      /\ \A i \in 1..Len(s) : i <= dest \/ dest + Len(t) < i => c[i] = s[i]
  BY <1>1, CopyKeepsRest
<1>3. \A i \in 1..Len(t) : c[dest + i] = t[i]
  BY CopyWrites
<1> HIDE DEF c
<1>4. x \in Seq(S) /\ Len(x) = e /\ \A i \in 1..e : x[i] = c[i]
  <2>1. 0 \in 0..Len(c) /\ e \in 0..Len(c) /\ 0 + 1 = 1 /\ e - 0 = e
        /\ \A i \in 1..e : 0 + i = i
    BY <1>1, <1>2
  <2>2. /\ SubSeq(c, 0 + 1, e) \in Seq(S) /\ Len(SubSeq(c, 0 + 1, e)) = e - 0
        /\ \A i \in 1..(e - 0) : SubSeq(c, 0 + 1, e)[i] = c[0 + i]
    BY <2>1, <1>2, Between
  <2> HIDE DEF e
  <2> QED
    BY <2>1, <2>2
<1>5. y \in Seq(S) /\ Len(y) = dest /\ \A i \in 1..dest : y[i] = s[i]
  <2>1. 0 \in 0..Len(s) /\ dest \in 0..Len(s) /\ 0 + 1 = 1 /\ dest - 0 = dest
        /\ \A i \in 1..dest : 0 + i = i
    BY <1>1
  <2>2. /\ SubSeq(s, 0 + 1, dest) \in Seq(S) /\ Len(SubSeq(s, 0 + 1, dest)) = dest - 0
        /\ \A i \in 1..(dest - 0) : SubSeq(s, 0 + 1, dest)[i] = s[0 + i]
    BY <2>1, Between
  <2> QED
    BY <2>1, <2>2
<1> HIDE DEF x, y
<1>6. /\ y \o t \in Seq(S) /\ Len(y \o t) = e
      /\ \A i \in 1..e : (y \o t)[i] = IF i <= dest THEN y[i] ELSE t[i - dest]
  BY <1>5, ConcatProperties
<1>7. ASSUME NEW i \in 1..e PROVE x[i] = (y \o t)[i]
  <2>1. CASE i <= dest
    <3>1. i \in 1..dest /\ i \in 1..Len(s)
      BY <2>1, <1>1
    <3> QED
      BY <3>1, <2>1, <1>2, <1>4, <1>5, <1>6
  <2>2. CASE ~ (i <= dest)
    <3>1. i - dest \in 1..Len(t) /\ dest + (i - dest) = i
      BY <2>2, <1>1
    <3>2. c[i] = t[i - dest]
      BY <3>1, <1>3
    <3> QED
      BY <3>2, <2>2, <1>4, <1>6
  <2> QED
    BY <2>1, <2>2
<1>8. x = y \o t
  <2> HIDE DEF e
  <2>1. Len(x) = Len(y \o t) /\ \A i \in 1..Len(x) : x[i] = (y \o t)[i]
    BY <1>4, <1>6, <1>7
  <2> QED
    BY <2>1, <1>4, <1>6, SeqEqual
<1> QED
  BY <1>8 DEF x, y, c

\* From the copy on it has the copy, and what was behind it.
LEMMA CopyBefore ==
    ASSUME NEW S, NEW s \in Seq(S), NEW t \in Seq(S), NEW dest \in 0..Len(s),
           dest + Len(t) <= Len(s)
    PROVE  SubSeq(Copied(s, t, dest), dest + 1, Len(s))
              = t \o SubSeq(s, (dest + Len(t)) + 1, Len(s))
<1> DEFINE c == Copied(s, t, dest)
           e == dest + Len(t)
           n == Len(s) - dest
           x == SubSeq(c, dest + 1, Len(s))
           y == SubSeq(s, e + 1, Len(s))
<1>1. /\ Len(s) \in Nat /\ Len(t) \in Nat /\ dest \in Nat /\ e \in Nat
      /\ dest <= e /\ e <= Len(s) /\ dest \in Int
      /\ n \in Nat /\ n = Len(t) + (Len(s) - e)
  OBVIOUS
<1>2. /\ c \in Seq(S) /\ Len(c) = Len(s)
      /\ \A i \in 1..Len(s) : i <= dest \/ dest + Len(t) < i => c[i] = s[i]
  BY <1>1, CopyKeepsRest
<1>3. \A i \in 1..Len(t) : c[dest + i] = t[i]
  BY CopyWrites
<1> HIDE DEF c
<1>4. x \in Seq(S) /\ Len(x) = n /\ \A i \in 1..n : x[i] = c[dest + i]
  <2>1. dest \in 0..Len(c) /\ Len(s) \in dest..Len(c)
    BY <1>1, <1>2
  <2> QED
    BY <2>1, <1>2, Between
<1>5. y \in Seq(S) /\ Len(y) = Len(s) - e /\ \A i \in 1..(Len(s) - e) : y[i] = s[e + i]
  <2>1. e \in 0..Len(s) /\ Len(s) \in e..Len(s)
    BY <1>1
  <2> HIDE DEF e
  <2> QED
    BY <2>1, Between
<1> HIDE DEF x, y
<1>6. /\ t \o y \in Seq(S) /\ Len(t \o y) = n
      /\ \A i \in 1..n : (t \o y)[i] = IF i <= Len(t) THEN t[i] ELSE y[i - Len(t)]
  <2> HIDE DEF n, e
  <2> QED
    BY <1>1, <1>5, ConcatProperties
<1>7. ASSUME NEW i \in 1..n PROVE x[i] = (t \o y)[i]
  <2>1. CASE i <= Len(t)
    <3>1. i \in 1..Len(t)
      BY <2>1, <1>1
    <3> QED
      BY <3>1, <2>1, <1>3, <1>4, <1>6
  <2>2. CASE ~ (i <= Len(t))
    <3>1. /\ i - Len(t) \in 1..(Len(s) - e) /\ e + (i - Len(t)) = dest + i
          /\ dest + i \in 1..Len(s) /\ dest + Len(t) < dest + i
      BY <2>2, <1>1
    <3>2. c[dest + i] = s[dest + i]
      BY <3>1, <1>2
    <3>3. y[i - Len(t)] = s[dest + i]
      BY <3>1, <1>5
    <3> QED
      BY <3>2, <3>3, <2>2, <1>4, <1>6
  <2> QED
    BY <2>1, <2>2
<1>8. x = t \o y
  <2> HIDE DEF n
  <2>1. Len(x) = Len(t \o y) /\ \A i \in 1..Len(x) : x[i] = (t \o y)[i]
    BY <1>4, <1>6, <1>7
  <2> QED
    BY <2>1, <1>4, <1>6, SeqEqual
<1> QED
  BY <1>8 DEF x, y, c

\* A string made shorter loses its end.
LEMMA ShortenedIsFront ==
    ASSUME NEW S, NEW s \in Seq(S), NEW size \in 0..Len(s)
    PROVE  Resized(s, size) = SubSeq(s, 1, size)
<1> DEFINE S2 == S \cup {Nul}
           x == Resized(s, size)
           y == SubSeq(s, 1, size)
<1>1. Len(s) \in Nat /\ size \in Nat /\ size <= Len(s)
  OBVIOUS
<1>2. /\ x \in Seq(S2) /\ Len(x) = size
      /\ \A i \in 1..size : i <= Len(s) => x[i] = s[i]
  BY <1>1, ResizedSeq
<1>3. y \in Seq(S) /\ Len(y) = size /\ \A i \in 1..size : y[i] = s[i]
  <2>1. 0 \in 0..Len(s) /\ size \in 0..Len(s) /\ 0 + 1 = 1 /\ size - 0 = size
        /\ \A i \in 1..size : 0 + i = i
    BY <1>1
  <2>2. /\ SubSeq(s, 0 + 1, size) \in Seq(S) /\ Len(SubSeq(s, 0 + 1, size)) = size - 0
        /\ \A i \in 1..(size - 0) : SubSeq(s, 0 + 1, size)[i] = s[0 + i]
    BY <2>1, Between
  <2> QED
    BY <2>1, <2>2
<1> HIDE DEF x, y
<1>4. y \in Seq(S2)
  BY <1>3, SeqMonotonic
<1>5. \A i \in 1..size : x[i] = y[i]
  BY <1>1, <1>2, <1>3
<1> HIDE DEF S2
<1>6. x = y
  BY <1>2, <1>3, <1>4, <1>5, SeqEqual
<1> QED
  BY <1>6 DEF x, y

---------------------------------------------------------------------------
(* What the result is.                                                     *)

\* Where the first k occurrences counted end.
Behind(k) == IF k = 0 THEN 0 ELSE found[k] + Len(what)

\* Each is the first one behind the one before.
NoneMissed ==
    \A k \in 1..Len(found) : \A q \in Behind(k - 1)..(found[k] - 1) :
        ~ OccursAt(arg, what, q)

CountingOn == stage = "count" => pos = Behind(Len(found))

\* From the back, the occurrence taken for the k-th is not the k-th counted, but
\* the last one that ends where it does or later.
ReplacingFromBack ==
    stage = "backward" =>
        /\ \A q \in Behind(Len(found))..Len(arg) : ~ OccursAt(arg, what, q)
        /\ \E k \in 0..Len(found) :
              /\ RoomFor(k)
              /\ k < Len(found) => rpos < Behind(k + 1)
        /\ ReplacedUpTo(arg, what, with)[rpos] \o SubSeq(str, wpos + 1, Len(str))
              = FromTheRight

ReplacingFromFront ==
    stage = "forward" =>
        SubSeq(str, 1, wpos) \o ReplacedFrom(arg, what, with)[rpos] = FromTheLeft

ReplacedAll ==
    stage = "done" =>
        str = IF Len(what) >= Len(with) THEN FromTheLeft ELSE FromTheRight

RInv ==
    /\ NoneMissed
    /\ CountingOn
    /\ ReplacingFromBack
    /\ ReplacingFromFront
    /\ ReplacedAll

\* find returns the first occurrence from the position on, npos if there is none.
LEMMA FindFindsFirst ==
    ASSUME NEW s, NEW w, NEW from \in Nat, Len(s) \in Nat, Len(w) \in Nat, Len(s) < npos
    PROVE  LET p == Find(s, w, from)
           IN  /\ p = npos => \A q \in from..Len(s) : ~ OccursAt(s, w, q)
               /\ p # npos =>
                     /\ p \in from..Len(s)
                     /\ OccursAt(s, w, p)
                     /\ \A q \in from..(p - 1) : ~ OccursAt(s, w, q)
<1> DEFINE At == {p \in 0..Len(s) : p >= from /\ OccursAt(s, w, p)}
           p == Find(s, w, from)
<1>1. CASE At = {}
  <2>1. p = npos
    BY <1>1 DEF Find
  <2>2. \A q \in from..Len(s) : ~ OccursAt(s, w, q)
    BY <1>1
  <2> QED
    BY <2>1, <2>2
<1>2. CASE At # {}
  <2>1. At \subseteq Nat
    OBVIOUS
  <2>2. \E m \in At : \A q \in At : m <= q
    BY <1>2, <2>1, LeastNumber
  <2>3. p \in At /\ \A q \in At : p <= q
    BY <1>2, <2>2 DEF Find
  <2> HIDE DEF p
  <2>4. p \in from..Len(s) /\ OccursAt(s, w, p) /\ p # npos
    BY <2>3 DEF npos
  <2>5. ASSUME NEW q \in from..(p - 1) PROVE ~ OccursAt(s, w, q)
    <3>1. q \in 0..Len(s) /\ q >= from /\ ~ (p <= q)
      BY <2>4
    <3> QED
      BY <3>1, <2>3
  <2> QED
    BY <2>4, <2>5 DEF p
<1> QED
  BY <1>1, <1>2

\* Strings that have the same characters there have an occurrence there or not.
LEMMA SameOccurrence ==
    ASSUME NEW s, NEW t, NEW w, NEW q \in Nat,
           q + Len(w) <= Len(s), q + Len(w) <= Len(t),
           Len(w) \in Nat,
           \A i \in (q + 1)..(q + Len(w)) : s[i] = t[i]
    PROVE  OccursAt(s, w, q) <=> OccursAt(t, w, q)
<1>1. \A i \in 1..Len(w) : q + i \in (q + 1)..(q + Len(w))
  OBVIOUS
<1>2. \A i \in 1..Len(w) : s[q + i] = t[q + i]
  BY <1>1
<1> QED
  BY <1>2 DEF OccursAt

\* and the same parts.
LEMMA SamePart ==
    ASSUME NEW S, NEW s \in Seq(S), NEW t \in Seq(S), NEW first \in 0..Len(s),
           NEW last \in first..Len(s), last <= Len(t),
           \A i \in (first + 1)..last : s[i] = t[i]
    PROVE  SubSeq(s, first + 1, last) = SubSeq(t, first + 1, last)
<1> DEFINE x == SubSeq(s, first + 1, last)
           y == SubSeq(t, first + 1, last)
<1>1. /\ x \in Seq(S) /\ Len(x) = last - first
      /\ \A i \in 1..(last - first) : x[i] = s[first + i]
  BY Between
<1>2. /\ y \in Seq(S) /\ Len(y) = last - first
      /\ \A i \in 1..(last - first) : y[i] = t[first + i]
  <2>1. first \in 0..Len(t) /\ last \in first..Len(t)
    OBVIOUS
  <2> QED
    BY <2>1, Between
<1>3. \A i \in 1..(last - first) : first + i \in (first + 1)..last
  OBVIOUS
<1>4. \A i \in 1..(last - first) : x[i] = y[i]
  BY <1>1, <1>2, <1>3
<1> HIDE DEF x, y
<1>5. x = y
  BY <1>1, <1>2, <1>4, SeqEqual
<1> QED
  BY <1>5 DEF x, y

\* All four strings are over the same characters.
LEMMA Strings ==
    ASSUME TypeOK
    PROVE  LET S == Char \cup {Nul}
           IN  /\ arg \in Seq(S) /\ what \in Seq(S) /\ with \in Seq(S) /\ str \in Seq(S)
               /\ what # <<>>
<1>1. what # <<>> /\ str \in Seq(Char \cup {Nul})
  BY DEF TypeOK
<1>2. arg \in Seq(Char) /\ what \in Seq(Char) /\ with \in Seq(Char)
  BY Lengths
<1>3. Char \subseteq Char \cup {Nul}
  OBVIOUS
<1> QED
  BY <1>1, <1>2, <1>3, SeqMonotonic

\* What the argument is replaced by, from its beginning and from its end.
LEMMA ReplacedStrings ==
    ASSUME TypeOK
    PROVE  LET S == Char \cup {Nul}
           IN  /\ ReplacedFrom(arg, what, with) \in [0..Len(arg) -> Seq(S)]
               /\ \A p \in 0..Len(arg) :
                     ReplacedFrom(arg, what, with)[p]
                        = LeftRule(arg, what, with, ReplacedFrom(arg, what, with), p)
               /\ ReplacedUpTo(arg, what, with) \in [0..Len(arg) -> Seq(S)]
               /\ \A p \in 0..Len(arg) :
                     ReplacedUpTo(arg, what, with)[p]
                        = RightRule(arg, what, with, ReplacedUpTo(arg, what, with), p)
BY Strings, FromTheLeftDefined, FromTheRightDefined, SMTT(30)

---------------------------------------------------------------------------
(* The steps.                                                              *)

LEMMA InitRInv == Init => RInv
<1> SUFFICES ASSUME Init PROVE RInv
  OBVIOUS
<1>1. stage = "replace" /\ found = <<>>
  BY DEF Init
<1>2. NoneMissed
  BY <1>1 DEF NoneMissed
<1> QED
  BY <1>1, <1>2 DEF RInv, CountingOn, ReplacingFromBack, ReplacingFromFront, ReplacedAll

LEMMA ReplaceKeepsRInv ==
    ASSUME IInv, RInv, Replace
    PROVE  RInv'
<1>1. /\ UNCHANGED <<arg, what, with, str, pos, found, rpos, wpos>>
      /\ str = arg /\ pos = 0 /\ found = <<>> /\ rpos = 0 /\ wpos = 0
      /\ stage' \in {"forward", "count"}
  BY DEF IInv, Starting, Replace, args
<1>2. NoneMissed'
  BY <1>1 DEF NoneMissed
<1>3. CountingOn'
  <2>1. Len(found) = 0
    BY <1>1
  <2> QED
    BY <2>1, <1>1 DEF CountingOn, Behind
<1>4. ReplacingFromFront'
  <2> DEFINE tail == ReplacedFrom(arg, what, with)
  <2>1. Len(arg) \in Nat /\ tail \in [0..Len(arg) -> Seq(Char \cup {Nul})]
    BY Lengths, ReplacedStrings DEF IInv
  <2> HIDE DEF tail
  <2>2. tail[0] \in Seq(Char \cup {Nul})
    BY <2>1
  <2>3. SubSeq(str, 1, 0) = <<>>
    BY SubSeqEmpty
  <2>4. SubSeq(str, 1, 0) \o tail[0] = tail[0]
    BY <2>2, <2>3, ConcatEmptySeq
  <2> QED
    BY <2>4, <1>1 DEF ReplacingFromFront, FromTheLeft, tail
<1>5. ReplacingFromBack' /\ ReplacedAll'
  BY <1>1 DEF ReplacingFromBack, ReplacedAll
<1> QED
  BY <1>2, <1>3, <1>4, <1>5 DEF RInv

\* Nothing is passed over on the way to the next occurrence.
LEMMA CountsKeepsRInv ==
    ASSUME IInv, RInv, Counts
    PROVE  RInv'
<1> DEFINE p == Find(str, what, pos)
           n == Len(found)
<1>1. /\ UNCHANGED <<arg, what, with, str, stage, rpos, wpos>>
      /\ stage = "count" /\ str = arg /\ p # npos
      /\ found' = Append(found, p)
      /\ pos' = p + Len(what)
      /\ pos = Behind(n)
  BY DEF IInv, RInv, CountingOn, CountingUpToPos, Counts, args
<1>2. /\ Len(what) \in Nat \ {0} /\ Len(arg) \in Nat /\ pos \in Nat
      /\ n \in Nat /\ found \in Seq(0..Len(arg)) /\ Len(arg) < npos
  BY Lengths DEF IInv, TypeOK
<1>3. p \in pos..Len(arg) /\ \A q \in pos..(p - 1) : ~ OccursAt(arg, what, q)
  BY <1>1, <1>2, FindFindsFirst
<1> HIDE DEF p
<1>4. p \in 0..Len(arg)
  BY <1>2, <1>3
<1>5. /\ Len(found') = n + 1
      /\ found'[n + 1] = p
      /\ \A k \in 1..n : found'[k] = found[k]
  BY <1>1, <1>2, <1>4, AppendProperties
<1> HIDE DEF n
<1>6. \A k \in 0..n : Behind(k)' = Behind(k)
  <2> SUFFICES ASSUME NEW k \in 0..n PROVE Behind(k)' = Behind(k)
    OBVIOUS
  <2>1. k = 0 \/ k \in 1..n
    BY <1>2
  <2> QED
    BY <2>1, <1>1, <1>5 DEF Behind
<1>7. ASSUME NEW k \in 1..(n + 1), NEW q \in Behind(k - 1)'..(found'[k] - 1)
      PROVE  ~ OccursAt(arg, what, q)
  <2>1. CASE k = n + 1
    <3>1. k - 1 = n /\ n \in 0..n
      BY <2>1, <1>2
    <3>2. Behind(k - 1)' = pos /\ found'[k] = p
      BY <2>1, <3>1, <1>1, <1>5, <1>6 DEF n
    <3> QED
      BY <3>2, <1>3, <1>7
  <2>2. CASE k \in 1..n
    <3>1. k - 1 \in 0..n
      BY <2>2, <1>2
    <3>2. Behind(k - 1)' = Behind(k - 1) /\ found'[k] = found[k]
      BY <2>2, <3>1, <1>5, <1>6
    <3> QED
      BY <2>2, <3>2, <1>7 DEF RInv, NoneMissed, n
  <2> QED
    BY <2>1, <2>2, <1>2
<1>8. NoneMissed'
  BY <1>1, <1>5, <1>7 DEF NoneMissed, OccursAt
<1>9. CountingOn'
  <2>1. n + 1 # 0
    BY <1>2
  <2> QED
    BY <2>1, <1>1, <1>5 DEF CountingOn, Behind
<1>10. ReplacingFromBack' /\ ReplacingFromFront' /\ ReplacedAll'
  BY <1>1 DEF ReplacingFromBack, ReplacingFromFront, ReplacedAll
<1> QED
  BY <1>8, <1>9, <1>10 DEF RInv

\* What lies between the occurrences of the argument is kept.
LEMMA ArgumentKeptBefore ==
    ASSUME TypeOK, NEW e \in 0..Len(arg), NEW p \in 0..e,
           \A q \in p..e : q < e => ~ OccursAt(arg, what, q)
    PROVE  KeptTo(arg, what, with, p, e)
<1> DEFINE S == Char \cup {Nul}
<1>1. /\ arg \in Seq(S) /\ what \in Seq(S) /\ with \in Seq(S)
      /\ what # <<>>
  BY Strings
<1> HIDE DEF S
<1> QED
  BY <1>1, KeptBefore

LEMMA ArgumentKeptBehind ==
    ASSUME TypeOK, NEW p \in 0..Len(arg), NEW e \in 0..p,
           \A q \in (e + 1)..p : q >= Len(what) => ~ OccursAt(arg, what, q - Len(what))
    PROVE  ReplacedUpTo(arg, what, with)[p]
              = ReplacedUpTo(arg, what, with)[e] \o SubSeq(arg, e + 1, p)
<1> DEFINE S == Char \cup {Nul}
<1>1. /\ arg \in Seq(S) /\ what \in Seq(S) /\ with \in Seq(S)
      /\ what # <<>>
  BY Strings
<1> HIDE DEF S
<1> QED
  BY <1>1, KeptBehind

\* The occurrences counted do not change once they are.
LEMMA NoneMissedStays ==
    ASSUME NoneMissed, UNCHANGED <<arg, what, found>>
    PROVE  NoneMissed'
<1>1. arg' = arg /\ what' = what /\ found' = found
  OBVIOUS
<1>2. \A k : Behind(k)' = Behind(k)
  BY <1>1 DEF Behind
<1>3. ASSUME NEW k \in 1..Len(found), NEW q \in Behind(k - 1)..(found[k] - 1)
      PROVE  ~ OccursAt(arg', what', q)
  <2>1. ~ OccursAt(arg, what, q)
    BY <1>3 DEF NoneMissed
  <2> QED
    BY <2>1, <1>1
<1> QED
  BY <1>1, <1>2, <1>3 DEF NoneMissed

\* When nothing more is found, nothing more is there.
LEMMA MakesRoomKeepsRInv ==
    ASSUME IInv, RInv, MakesRoom
    PROVE  RInv'
<1> DEFINE size == Len(str) + Len(found) * (Len(with) - Len(what))
           head == ReplacedUpTo(arg, what, with)
           S == Char \cup {Nul}
<1>1. /\ UNCHANGED <<arg, what, with, pos, found>>
      /\ stage = "count" /\ stage' = "backward"
      /\ str = arg /\ pos = Behind(Len(found))
      /\ Find(str, what, pos) = npos
      /\ rpos' = Len(arg) /\ wpos' = size /\ str' = Resized(str, size)
      /\ Growth > 0 /\ size = Len(arg) + Len(found) * Growth
  BY DEF IInv, RInv, CountingOn, CountingUpToPos, MakesRoom, args, Growth
<1>2. /\ Len(found) \in Nat /\ Len(arg) \in Nat /\ Growth \in Nat
      /\ Len(what) \in Nat /\ pos \in Nat /\ Len(arg) < npos
      /\ str \in Seq(S)
  BY <1>1, Lengths DEF IInv, TypeOK
<1>3. \A q \in Behind(Len(found))..Len(arg) : ~ OccursAt(arg, what, q)
  BY <1>1, <1>2, FindFindsFirst
<1> HIDE DEF size
<1>4. size \in Nat
  <2>1. Len(found) * Growth \in Nat
    BY <1>2
  <2> QED
    BY <2>1, <1>1, <1>2
<1>5. Len(str') = size
  BY <1>1, <1>2, <1>4, ResizedSeq
<1>6. head[rpos'] \o SubSeq(str', wpos' + 1, Len(str')) = head[Len(arg)]
  <2>1. SubSeq(str', size + 1, size) = <<>>
    BY <1>4, SubSeqEmpty
  <2>2. head[Len(arg)] \in Seq(S)
    <3>1. head \in [0..Len(arg) -> Seq(S)]
      BY ReplacedStrings DEF IInv
    <3>2. Len(arg) \in 0..Len(arg)
      BY <1>2
    <3> HIDE DEF head, S
    <3> QED
      BY <3>1, <3>2
  <2> HIDE DEF head, S
  <2>3. head[Len(arg)] \o <<>> = head[Len(arg)]
    BY <2>2, ConcatEmptySeq
  <2> QED
    BY <2>1, <2>3, <1>1, <1>5
<1>7. ReplacingFromBack'
  <2>1. RoomFor(Len(found))' /\ Len(found') = Len(found)
    BY <1>1, RoomForAll
  <2>2. \E k \in 0..Len(found') : RoomFor(k)' /\ (k < Len(found') => rpos' < Behind(k + 1)')
    <3>1. Len(found) \in 0..Len(found') /\ ~ (Len(found) < Len(found'))
      BY <2>1, <1>2
    <3> QED
      BY <2>1, <3>1
  <2>3. \A q \in Behind(Len(found))'..Len(arg') : ~ OccursAt(arg', what', q)
    BY <1>1, <1>3 DEF Behind
  <2>4. ReplacedUpTo(arg', what', with')[rpos'] \o SubSeq(str', wpos' + 1, Len(str'))
           = FromTheRight'
    BY <1>1, <1>6 DEF FromTheRight
  <2> QED
    BY <2>2, <2>3, <2>4 DEF ReplacingFromBack
<1>8. NoneMissed'
  BY <1>1, NoneMissedStays DEF RInv
<1> QED
  BY <1>1, <1>7, <1>8 DEF RInv, CountingOn, ReplacingFromFront, ReplacedAll

\* The position up to which the argument is kept is that of its next occurrence.
LEMMA NextReadIsNext ==
    ASSUME IInv, stage = "forward"
    PROVE  /\ NextRead \in rpos..Len(arg)
           /\ \A q \in rpos..(NextRead - 1) : ~ OccursAt(arg, what, q)
           /\ NextRead # Len(arg) => OccursAt(arg, what, NextRead)
           /\ NextRead # Len(arg) => NextRead + Len(what) <= Len(arg)
<1> DEFINE p == Find(str, what, rpos)
<1>1. /\ Len(what) \in Nat \ {0} /\ Len(arg) \in Nat /\ rpos \in 0..Len(arg)
      /\ Len(str) = Len(arg) /\ Len(arg) < npos
      /\ \A i \in (rpos + 1)..Len(arg) : str[i] = arg[i]
  BY Lengths DEF IInv, TypeOK, MovingForward
<1>2. /\ p = npos => \A q \in rpos..Len(arg) : ~ OccursAt(str, what, q)
      /\ p # npos =>
            /\ p \in rpos..Len(arg)
            /\ OccursAt(str, what, p)
            /\ \A q \in rpos..(p - 1) : ~ OccursAt(str, what, q)
  BY <1>1, FindFindsFirst
<1> HIDE DEF p
<1>3. ASSUME NEW q \in rpos..Len(arg)
      PROVE  OccursAt(arg, what, q) <=> OccursAt(str, what, q)
  <2>1. CASE q + Len(what) <= Len(arg)
    <3>1. q \in Nat /\ \A i \in (q + 1)..(q + Len(what)) : i \in (rpos + 1)..Len(arg)
      BY <2>1, <1>1
    <3>2. \A i \in (q + 1)..(q + Len(what)) : arg[i] = str[i]
      BY <3>1, <1>1
    <3> QED
      BY <3>1, <3>2, <2>1, <1>1, SameOccurrence
  <2>2. CASE ~ (q + Len(what) <= Len(arg))
    BY <2>2, <1>1 DEF OccursAt
  <2> QED
    BY <2>1, <2>2
<1>4. CASE p = npos
  <2>1. NextRead = Len(arg)
    BY <1>1, <1>4 DEF NextRead, p
  <2>2. \A q \in rpos..(Len(arg) - 1) : q \in rpos..Len(arg)
    BY <1>1
  <2>3. Len(arg) \in rpos..Len(arg)
    BY <1>1
  <2> QED
    BY <2>1, <2>2, <2>3, <1>2, <1>3, <1>4
<1>5. CASE p # npos
  <2>1. NextRead = p
    BY <1>5 DEF NextRead, p
  <2>2. \A q \in rpos..(p - 1) : q \in rpos..Len(arg)
    BY <1>1, <1>2, <1>5
  <2>3. p + Len(what) <= Len(arg)
    BY <1>1, <1>2, <1>5 DEF OccursAt
  <2> QED
    BY <2>1, <2>2, <2>3, <1>2, <1>3, <1>5
<1> QED
  BY <1>4, <1>5

\* What is written and what is still to be read make up the result.
LEMMA ForwardKeepsRInv ==
    ASSUME IInv, RInv, Forward
    PROVE  RInv'
<1> DEFINE S == Char \cup {Nul}
           p == NextRead
           gap == wpos + p - rpos
           part == SubSeq(str, rpos + 1, p)
           moved == Copied(str, part, wpos)
           x == SubSeq(str, 1, wpos)
           tail == ReplacedFrom(arg, what, with)
<1>1. /\ UNCHANGED <<arg, what, with, pos, found>>
      /\ stage = "forward"
      /\ \/ /\ p = Len(str) /\ stage' = "done" /\ str' = Resized(moved, gap)
            /\ rpos' = p /\ wpos' = gap
         \/ /\ p # Len(str) /\ stage' = "forward"
            /\ str' = Copied(moved, with, gap)
            /\ rpos' = p + Len(what) /\ wpos' = gap + Len(with)
  BY DEF Forward, Past, Part, args
<1>2. /\ Len(what) \in Nat \ {0} /\ Len(with) \in Nat /\ Len(arg) \in Nat
      /\ rpos \in 0..Len(arg) /\ wpos \in Nat /\ wpos <= rpos
      /\ Len(str) = Len(arg) /\ Len(what) >= Len(with)
      /\ \A i \in (rpos + 1)..Len(arg) : str[i] = arg[i]
  BY <1>1, Lengths DEF IInv, TypeOK, MovingForward
<1>3. /\ str \in Seq(S) /\ with \in Seq(S) /\ arg \in Seq(S) /\ what \in Seq(S)
      /\ what # <<>>
  BY Strings DEF IInv
<1>4. /\ p \in rpos..Len(arg)
      /\ \A q \in rpos..(p - 1) : ~ OccursAt(arg, what, q)
      /\ p # Len(arg) => OccursAt(arg, what, p)
      /\ p # Len(arg) => p + Len(what) <= Len(arg)
  BY <1>1, NextReadIsNext
<1>5. /\ tail \in [0..Len(arg) -> Seq(S)]
      /\ \A n \in 0..Len(arg) : tail[n] = LeftRule(arg, what, with, tail, n)
  BY ReplacedStrings DEF IInv
<1>6. x \o tail[rpos] = FromTheLeft
  BY <1>1 DEF RInv, ReplacingFromFront
<1> HIDE DEF S, p
<1>7. /\ part \in Seq(S) /\ Len(part) = p - rpos
      /\ part = SubSeq(arg, rpos + 1, p)
  <2>1. /\ rpos \in 0..Len(str) /\ p \in rpos..Len(str) /\ p <= Len(arg)
        /\ \A i \in (rpos + 1)..p : str[i] = arg[i]
    <3>1. \A i \in (rpos + 1)..p : i \in (rpos + 1)..Len(arg)
      BY <1>2, <1>4
    <3> QED
      BY <3>1, <1>2, <1>4
  <2> QED
    BY <2>1, <1>3, Between, SamePart
<1>8. tail[rpos] = part \o tail[p]
  <2>1. p \in 0..Len(arg) /\ rpos \in 0..p
    BY <1>2, <1>4
  <2>2. ASSUME NEW q \in rpos..p, q < p PROVE ~ OccursAt(arg, what, q)
    <3>1. q \in rpos..(p - 1)
      BY <2>1, <2>2, <1>2
    <3> QED
      BY <3>1, <1>4
  <2> HIDE DEF part, tail
  <2>3. TypeOK
    BY DEF IInv
  <2>4. KeptTo(arg, what, with, rpos, p)
    BY <2>1, <2>2, <2>3, ArgumentKeptBefore
  <2> QED
    BY <2>4, <1>7 DEF tail, KeptTo
<1> HIDE DEF part, tail
<1>9. x \in Seq(S)
  <2>1. 0 \in 0..Len(str) /\ wpos \in 0..Len(str) /\ 0 + 1 = 1
    BY <1>2
  <2>2. SubSeq(str, 0 + 1, wpos) \in Seq(S)
    BY <2>1, <1>3, Between
  <2> QED
    BY <2>1, <2>2
<1>10. /\ moved \in Seq(S) /\ Len(moved) = Len(arg)
       /\ SubSeq(moved, 1, gap) = x \o part
       /\ gap \in 0..Len(arg) /\ gap <= p
  <2>1. /\ wpos \in 0..Len(str) /\ wpos + Len(part) <= Len(str) /\ wpos \in Int
        /\ wpos + Len(part) = gap /\ gap \in 0..Len(arg) /\ gap <= p
    BY <1>2, <1>4, <1>7
  <2>2. moved \in Seq(S) /\ Len(moved) = Len(arg)
    <3>1. str \in Seq(S) /\ part \in Seq(S) /\ wpos \in Int /\ Len(str) = Len(arg)
      BY <2>1, <1>2, <1>3, <1>7
    <3>2. /\ Copied(str, part, wpos) \in Seq(S)
          /\ Len(Copied(str, part, wpos)) = Len(str)
      BY <3>1, CopyKeepsRest, Zenon
    <3> QED
      BY <3>1, <3>2
  <2>3. SubSeq(moved, 1, wpos + Len(part)) = x \o part
    BY <2>1, <1>3, <1>7, CopyBehind
  <2> HIDE DEF gap, moved, x
  <2> QED
    BY <2>1, <2>2, <2>3
<1> HIDE DEF moved, gap, x
<1>11. p \in 0..Len(arg) /\ tail[p] \in Seq(S)
  <2>1. p \in 0..Len(arg)
    BY <1>2, <1>4
  <2> QED
    BY <2>1, <1>5
<1>12. (x \o part) \o tail[p] = FromTheLeft
  <2>1. Associate(x, part, tail[p])
    BY <1>7, <1>9, <1>11, AllAssociate
  <2> QED
    BY <2>1, <1>6, <1>8 DEF Associate
<1>13. x \o part \in Seq(S)
  BY <1>7, <1>9, ConcatProperties
<1>14. NoneMissed'
  BY <1>1, NoneMissedStays DEF RInv
<1>15. FromTheLeft' = FromTheLeft /\ ReplacedFrom(arg, what, with)' = tail
  BY <1>1 DEF FromTheLeft, tail
<1>16. CASE p = Len(str)
  <2>1. stage' = "done" /\ str' = Resized(moved, gap)
    BY <1>1, <1>16
  <2>2. tail[p] = <<>>
    BY <1>2, <1>5, <1>11, <1>16 DEF LeftRule
  <2>3. (x \o part) \o <<>> = x \o part
    BY <1>13, ConcatEmptySeq
  <2>4. Resized(moved, gap) = SubSeq(moved, 1, gap)
    BY <1>10, ShortenedIsFront
  <2>5. str' = FromTheLeft
    BY <2>1, <2>2, <2>3, <2>4, <1>10, <1>12
  <2>6. ReplacedAll'
    BY <2>1, <2>5, <1>1, <1>2, <1>15 DEF ReplacedAll
  <2> QED
    BY <2>1, <2>6, <1>14 DEF RInv, CountingOn, ReplacingFromBack, ReplacingFromFront
<1>17. CASE p # Len(str)
  <2>1. /\ stage' = "forward" /\ str' = Copied(moved, with, gap)
        /\ rpos' = p + Len(what) /\ wpos' = gap + Len(with)
    BY <1>1, <1>17
  <2>2. SubSeq(str', 1, wpos') = (x \o part) \o with
    <3>1. gap \in 0..Len(moved) /\ gap + Len(with) <= Len(moved)
      BY <1>2, <1>4, <1>10, <1>17
    <3>2. SubSeq(Copied(moved, with, gap), 1, gap + Len(with)) = SubSeq(moved, 1, gap) \o with
      BY <3>1, <1>3, <1>10, CopyBehind
    <3> QED
      BY <3>2, <2>1, <1>10
  <2>3. tail[p] = with \o tail[p + Len(what)] /\ tail[p + Len(what)] \in Seq(S)
    <3>1. p + Len(what) \in 0..Len(arg) /\ p # Len(arg)
      BY <1>2, <1>4, <1>11, <1>17
    <3> QED
      BY <3>1, <1>4, <1>5, <1>11 DEF LeftRule
  <2>4. Associate(x \o part, with, tail[p + Len(what)])
    BY <2>3, <1>3, <1>13, AllAssociate
  <2>5. SubSeq(str', 1, wpos') \o tail[rpos'] = FromTheLeft
    BY <2>1, <2>2, <2>3, <2>4, <1>12 DEF Associate
  <2>6. ReplacingFromFront'
    BY <2>5, <1>15 DEF ReplacingFromFront
  <2> QED
    BY <2>1, <2>6, <1>14 DEF RInv, CountingOn, ReplacingFromBack, ReplacedAll
<1> QED
  BY <1>16, <1>17

\* The occurrence taken from the back is the last one of the argument that ends
\* before what has been replaced.
LEMMA LastKept ==
    ASSUME IInv, stage = "backward", rpos # wpos,
           NEW k \in 0..Len(found), RoomFor(k)
    PROVE  LET p == RFind(str, what, Minus(rpos, Len(what)))
           IN  /\ OccursAt(arg, what, p)
               /\ \A q \in (p + 1)..(rpos - Len(what)) : ~ OccursAt(arg, what, q)
<1> DEFINE p == RFind(str, what, Minus(rpos, Len(what)))
           At == {q \in 0..Len(str) : q <= rpos - Len(what) /\ OccursAt(str, what, q)}
<1>1. /\ Len(what) \in Nat \ {0} /\ Len(arg) \in Nat /\ Len(str) \in Nat
      /\ rpos \in 0..Len(arg) /\ npos \in Nat /\ wpos \in Nat
      /\ wpos <= Len(str) /\ Len(arg) < npos
      /\ \A i \in 1..rpos : str[i] = arg[i]
  BY Lengths DEF IInv, TypeOK, MovingBackward
<1>2. p \in Nat /\ p + Len(what) <= rpos /\ Len(what) <= rpos
  BY NextFromTheBack
<1>3. rpos <= wpos
  <2>1. /\ Growth \in Nat /\ k \in Nat /\ wpos = rpos + k * Growth
    BY Lengths DEF IInv, MovingBackward, RoomFor
  <2>2. k * Growth \in Nat
    BY <2>1
  <2> QED
    BY <2>1, <2>2, <1>1
<1>4. Minus(rpos, Len(what)) = rpos - Len(what)
  BY <1>1, <1>2 DEF Minus
<1>5. p = IF At = {} THEN npos ELSE CHOOSE q \in At : \A r \in At : q >= r
  BY <1>4 DEF RFind
<1> HIDE DEF p
<1>6. At # {}
  BY <1>1, <1>2, <1>5
<1>7. \E q \in At : \A r \in At : q >= r
  <2>1. At \subseteq 0..Len(str)
    OBVIOUS
  <2> HIDE DEF At
  <2> QED
    BY <2>1, <1>1, <1>6, GreatestNumber
<1>8. p \in At /\ \A r \in At : p >= r
  <2> HIDE DEF At
  <2> QED
    BY <1>5, <1>6, <1>7
<1>9. ASSUME NEW q \in 0..(rpos - Len(what))
      PROVE  OccursAt(arg, what, q) <=> OccursAt(str, what, q)
  <2>1. /\ q \in Nat /\ q + Len(what) <= Len(arg) /\ q + Len(what) <= Len(str)
        /\ \A i \in (q + 1)..(q + Len(what)) : i \in 1..rpos
    BY <1>1, <1>2, <1>3
  <2>2. \A i \in (q + 1)..(q + Len(what)) : arg[i] = str[i]
    BY <2>1, <1>1
  <2> QED
    BY <2>1, <2>2, <1>1, SameOccurrence
<1>10. OccursAt(arg, what, p)
  <2>1. p \in 0..(rpos - Len(what))
    BY <1>1, <1>2
  <2> QED
    BY <2>1, <1>8, <1>9
<1>11. ASSUME NEW q \in (p + 1)..(rpos - Len(what)) PROVE ~ OccursAt(arg, what, q)
  <2>1. /\ q \in 0..(rpos - Len(what)) /\ q \in 0..Len(str) /\ q <= rpos - Len(what)
        /\ ~ (p >= q)
    BY <1>1, <1>2, <1>3
  <2>2. ~ OccursAt(str, what, q)
    BY <2>1, <1>8
  <2> QED
    BY <2>1, <2>2, <1>9
<1> QED
  BY <1>10, <1>11 DEF p

\* As many occurrences are taken from the back as were counted from the front:
\* the one taken for the k-th ends before the (k + 1)-th taken, and so begins
\* before the end of the k-th counted.
LEMMA TakenForTheNext ==
    ASSUME IInv, RInv, stage = "backward", rpos # wpos,
           NEW k \in 0..Len(found), RoomFor(k), k < Len(found) => rpos < Behind(k + 1)
    PROVE  RFind(str, what, Minus(rpos, Len(what))) < Behind(k)
<1> DEFINE p == RFind(str, what, Minus(rpos, Len(what)))
           n == Len(found)
<1>1. /\ k > 0 /\ p \in Nat /\ p + Len(what) <= rpos
  BY NextFromTheBack
<1>2. OccursAt(arg, what, p)
  BY LastKept
<1>3. /\ Len(what) \in Nat \ {0} /\ Len(arg) \in Nat /\ n \in Nat /\ k \in Nat /\ k <= n
      /\ rpos \in Nat /\ rpos <= Len(arg) /\ found \in Seq(0..Len(arg))
  BY Lengths DEF IInv, TypeOK
<1> HIDE DEF p
<1>4. found[k] \in 0..Len(arg) /\ Behind(k) = found[k] + Len(what)
  <2>1. k \in 1..Len(found)
    BY <1>1, <1>3
  <2> QED
    BY <2>1, <1>1, <1>3, ElementOfSeq DEF Behind
<1> SUFFICES ASSUME Behind(k) <= p PROVE FALSE
  BY <1>1, <1>3, <1>4 DEF p
<1>5. CASE k = n
  <2>1. p \in Behind(n)..Len(arg)
    BY <1>1, <1>3, <1>4, <1>5
  <2>2. \A q \in Behind(n)..Len(arg) : ~ OccursAt(arg, what, q)
    BY DEF RInv, ReplacingFromBack
  <2> QED
    BY <2>1, <2>2, <1>2
<1>6. CASE k # n
  <2>1. k + 1 \in 1..n /\ k < n /\ (k + 1) - 1 = k
    BY <1>3, <1>6
  <2>2. found[k + 1] \in 0..Len(arg) /\ Behind(k + 1) = found[k + 1] + Len(what)
    <3>1. k + 1 # 0
      BY <1>3
    <3> QED
      BY <3>1, <2>1, <1>3, ElementOfSeq DEF Behind
  <2>3. rpos < found[k + 1] + Len(what)
    BY <2>1, <2>2
  <2>4. p \in Behind(k)..(found[k + 1] - 1)
    BY <2>2, <2>3, <1>1, <1>3, <1>4, SMTT(30)
  <2>5. \A q \in Behind(k)..(found[k + 1] - 1) : ~ OccursAt(arg, what, q)
    BY <2>1 DEF RInv, NoneMissed
  <2> QED
    BY <2>4, <2>5, <1>2
<1> QED
  BY <1>5, <1>6

\* What is still to be read and what is written make up the result.
LEMMA BackwardKeepsRInv ==
    ASSUME IInv, RInv, Backward
    PROVE  RInv'
<1>1. /\ UNCHANGED <<arg, what, with, stage, pos, found>>
      /\ stage = "backward" /\ rpos # wpos
  BY DEF Backward, args
<1>2. PICK k \in 0..Len(found) : RoomFor(k) /\ (k < Len(found) => rpos < Behind(k + 1))
  BY <1>1 DEF RInv, ReplacingFromBack
<1> DEFINE S == Char \cup {Nul}
           p == RFind(str, what, Minus(rpos, Len(what)))
           room == (k - 1) * Growth
           kept == p + Len(what)
           dest == kept + room + Growth
           part == SubSeq(str, kept + 1, rpos)
           moved == Copied(str, part, dest)
           rest == SubSeq(str, wpos + 1, Len(str))
           head == ReplacedUpTo(arg, what, with)
<1>3. /\ k > 0
      /\ p \in Nat /\ kept <= rpos
      /\ room \in Nat /\ wpos = rpos + room + Growth
      /\ str' = Copied(moved, with, p + room)
      /\ wpos' = p + room
      /\ rpos' = p
      /\ RoomFor(k - 1)'
  BY <1>2, BackwardTurn DEF Part
<1>4. /\ OccursAt(arg, what, p)
      /\ \A q \in (p + 1)..(rpos - Len(what)) : ~ OccursAt(arg, what, q)
  BY <1>1, <1>2, LastKept
<1>5. p < Behind(k)
  BY <1>1, <1>2, TakenForTheNext
<1>6. /\ Len(what) \in Nat \ {0} /\ Len(with) \in Nat /\ Len(arg) \in Nat
      /\ Len(str) \in Nat /\ Growth \in Nat /\ Growth = Len(with) - Len(what)
      /\ rpos \in Nat /\ rpos <= Len(arg) /\ wpos \in Nat /\ wpos <= Len(str)
      /\ \A i \in 1..rpos : str[i] = arg[i]
      /\ k \in Nat /\ k <= Len(found) /\ Len(found) \in Nat
  BY <1>1, Lengths DEF IInv, TypeOK, MovingBackward, Growth
<1>7. /\ str \in Seq(S) /\ with \in Seq(S) /\ arg \in Seq(S)
  BY Strings DEF IInv
<1>8. /\ head \in [0..Len(arg) -> Seq(S)]
      /\ \A m \in 0..Len(arg) : head[m] = RightRule(arg, what, with, head, m)
  BY ReplacedStrings DEF IInv
<1>9. head[rpos] \o rest = FromTheRight
  BY <1>1 DEF RInv, ReplacingFromBack
<1> HIDE DEF S, p, room, head
<1>10. /\ kept \in 0..Len(str) /\ rpos \in kept..Len(str) /\ kept \in 0..rpos
       /\ p \in 0..Len(arg) /\ kept \in 0..Len(arg) /\ rpos \in 0..Len(arg)
       /\ kept # 0 /\ kept >= Len(what) /\ kept - Len(what) = p
       /\ dest \in 0..Len(str) /\ dest + (rpos - kept) = wpos
       /\ p + room \in 0..Len(str) /\ p + room + Len(with) = dest
  BY <1>3, <1>6, SMTT(30)
<1>11. /\ part \in Seq(S) /\ Len(part) = rpos - kept
       /\ part = SubSeq(arg, kept + 1, rpos)
  <2>1. \A i \in (kept + 1)..rpos : str[i] = arg[i]
    <3>1. \A i \in (kept + 1)..rpos : i \in 1..rpos
      BY <1>6, <1>10
    <3> QED
      BY <3>1, <1>6
  <2> HIDE DEF kept
  <2> QED
    BY <2>1, <1>6, <1>7, <1>10, Between, SamePart, SMTT(30)
<1>12. head[rpos] = head[kept] \o part
  <2>1. ASSUME NEW q \in (kept + 1)..rpos, q >= Len(what)
        PROVE  ~ OccursAt(arg, what, q - Len(what))
    <3>1. q - Len(what) \in (p + 1)..(rpos - Len(what))
      BY <2>1, <1>3, <1>6
    <3> QED
      BY <3>1, <1>4
  <2>2. TypeOK
    BY DEF IInv
  <2>3. ReplacedUpTo(arg, what, with)[rpos]
           = ReplacedUpTo(arg, what, with)[kept] \o SubSeq(arg, kept + 1, rpos)
    <3> HIDE DEF kept
    <3> QED
      BY <2>1, <2>2, <1>10, ArgumentKeptBehind
  <2> QED
    BY <2>3, <1>11 DEF head
<1>13. head[kept] = head[p] \o with
  <2> HIDE DEF kept
  <2> QED
    BY <1>4, <1>8, <1>10 DEF RightRule
<1> HIDE DEF part
<1>14. /\ rest \in Seq(S) /\ head[p] \in Seq(S)
  <2>1. wpos \in 0..Len(str) /\ Len(str) \in wpos..Len(str)
    BY <1>6
  <2>2. rest \in Seq(S)
    BY <2>1, <1>7, Between
  <2> HIDE DEF rest
  <2> QED
    BY <2>2, <1>8, <1>10
<1>15. /\ moved \in Seq(S) /\ Len(moved) = Len(str)
       /\ SubSeq(moved, dest + 1, Len(str)) = part \o rest
  <2> HIDE DEF dest, kept
  <2>1. dest \in Int /\ dest + Len(part) = wpos /\ wpos <= Len(str)
    BY <1>6, <1>10, <1>11
  <2>2. moved \in Seq(S) /\ Len(moved) = Len(str)
    BY <2>1, <1>7, <1>11, CopyKeepsRest
  <2>3. SubSeq(moved, dest + 1, Len(str)) = part \o SubSeq(str, (dest + Len(part)) + 1, Len(str))
    BY <2>1, <1>7, <1>10, <1>11, CopyBefore
  <2> QED
    BY <2>1, <2>2, <2>3
<1> HIDE DEF moved
<1>16. /\ Len(str') = Len(str)
       /\ SubSeq(str', wpos' + 1, Len(str')) = with \o (part \o rest)
  <2> DEFINE d == p + room
  <2> HIDE DEF dest, kept, rest
  <2>1. /\ d \in Int /\ d \in 0..Len(moved) /\ d + Len(with) = dest
        /\ d + Len(with) <= Len(moved)
    BY <1>10, <1>15
  <2>2. str' = Copied(moved, with, d) /\ wpos' = d
    BY <1>3
  <2> HIDE DEF d
  <2>3. Len(Copied(moved, with, d)) = Len(moved)
    BY <2>1, <1>7, <1>15, CopyKeepsRest
  <2>4. SubSeq(Copied(moved, with, d), d + 1, Len(moved))
           = with \o SubSeq(moved, (d + Len(with)) + 1, Len(moved))
    BY <2>1, <1>7, <1>15, CopyBefore
  <2> QED
    BY <2>1, <2>2, <2>3, <2>4, <1>15
<1> HIDE DEF rest
<1>17. head[rpos'] \o SubSeq(str', wpos' + 1, Len(str')) = FromTheRight
  <2>1. part \o rest \in Seq(S) /\ head[p] \o with \in Seq(S)
    BY <1>7, <1>11, <1>14, ConcatProperties
  <2>2. Associate(head[p], with, part \o rest)
    BY <2>1, <1>7, <1>14, AllAssociate
  <2>3. Associate(head[p] \o with, part, rest)
    BY <2>1, <1>11, <1>14, AllAssociate
  <2>4. head[p] \o (with \o (part \o rest)) = head[rpos] \o rest
    BY <2>2, <2>3, <1>12, <1>13 DEF Associate
  <2> QED
    BY <2>4, <1>3, <1>9, <1>16
<1>18. ReplacingFromBack'
  <2>1. \A q \in Behind(Len(found))'..Len(arg') : ~ OccursAt(arg', what', q)
    <3>1. Behind(Len(found))' = Behind(Len(found))
      BY <1>1 DEF Behind
    <3>2. arg' = arg /\ what' = what
      BY <1>1
    <3> QED
      BY <3>1, <3>2, <1>1 DEF RInv, ReplacingFromBack
  <2>2. Behind((k - 1) + 1)' = Behind(k)
    <3>1. (k - 1) + 1 = k
      BY <1>6
    <3> QED
      BY <3>1, <1>1 DEF Behind
  <2>3. k - 1 \in 0..Len(found') /\ rpos' < Behind((k - 1) + 1)'
    BY <2>2, <1>1, <1>3, <1>5, <1>6
  <2>4. ReplacedUpTo(arg', what', with')[rpos'] \o SubSeq(str', wpos' + 1, Len(str'))
           = FromTheRight'
    BY <1>1, <1>17 DEF FromTheRight, head
  <2> QED
    BY <2>1, <2>3, <2>4, <1>3 DEF ReplacingFromBack
<1>19. NoneMissed'
  BY <1>1, NoneMissedStays DEF RInv
<1> QED
  BY <1>1, <1>18, <1>19 DEF RInv, CountingOn, ReplacingFromFront, ReplacedAll

\* When nothing has to be moved any more, no occurrence is left.
LEMMA StopsKeepsRInv ==
    ASSUME IInv, RInv, Stops
    PROVE  RInv'
<1> DEFINE S == Char \cup {Nul}
           head == ReplacedUpTo(arg, what, with)
           front == SubSeq(str, 1, rpos)
           rest == SubSeq(str, rpos + 1, Len(str))
<1>1. /\ UNCHANGED <<arg, what, with, str, pos, found, rpos, wpos>>
      /\ stage = "backward" /\ wpos = rpos /\ stage' = "done"
  BY DEF Stops, args
<1>2. PICK k \in 0..Len(found) : RoomFor(k) /\ (k < Len(found) => rpos < Behind(k + 1))
  BY <1>1 DEF RInv, ReplacingFromBack
<1>3. /\ Len(what) \in Nat \ {0} /\ Len(with) \in Nat /\ Len(arg) \in Nat
      /\ Len(str) \in Nat /\ Growth \in Nat \ {0} /\ Growth = Len(with) - Len(what)
      /\ rpos \in Nat /\ rpos <= Len(arg) /\ rpos <= Len(str)
      /\ \A i \in 1..rpos : str[i] = arg[i]
      /\ k \in Nat /\ k <= Len(found) /\ Len(found) \in Nat
      /\ found \in Seq(0..Len(arg))
  BY <1>1, Lengths DEF IInv, TypeOK, MovingBackward, Growth
<1>4. k = 0
  <2>1. wpos = rpos + k * Growth
    BY <1>2 DEF RoomFor
  <2>2. k * Growth = 0
    <3>1. k * Growth \in Nat
      BY <1>3
    <3> QED
      BY <2>1, <3>1, <1>1, <1>3
  <2>3. k # 0 => k * Growth # 0
    BY <1>3
  <2> QED
    BY <2>2, <2>3
<1>5. ASSUME NEW q \in 0..rpos, q + Len(what) <= rpos
      PROVE  ~ OccursAt(arg, what, q)
  <2>1. CASE Len(found) = 0
    <3>1. Behind(Len(found)) = 0 /\ q \in 0..Len(arg)
      BY <2>1, <1>3 DEF Behind
    <3>2. \A r \in Behind(Len(found))..Len(arg) : ~ OccursAt(arg, what, r)
      BY <1>1 DEF RInv, ReplacingFromBack
    <3> QED
      BY <3>1, <3>2
  <2>2. CASE Len(found) # 0
    <3>1. 1 \in 1..Len(found) /\ k < Len(found) /\ k + 1 = 1 /\ 1 - 1 = 0
      BY <2>2, <1>3, <1>4
    <3>2. rpos < Behind(1)
      BY <3>1, <1>2
    <3>3. Behind(1) = found[1] + Len(what) /\ Behind(0) = 0
      BY DEF Behind
    <3>4. found[1] \in 0..Len(arg)
      BY <3>1, <1>3, ElementOfSeq
    <3>5. q \in 0..(found[1] - 1)
      BY <3>2, <3>3, <3>4, <1>3, <1>5
    <3>6. \A r \in Behind(1 - 1)..(found[1] - 1) : ~ OccursAt(arg, what, r)
      BY <3>1 DEF RInv, NoneMissed
    <3> QED
      BY <3>1, <3>3, <3>5, <3>6
  <2> QED
    BY <2>1, <2>2
<1>6. /\ str \in Seq(S) /\ arg \in Seq(S)
  BY Strings DEF IInv
<1>7. /\ head \in [0..Len(arg) -> Seq(S)]
      /\ \A m \in 0..Len(arg) : head[m] = RightRule(arg, what, with, head, m)
  BY ReplacedStrings DEF IInv
<1>8. head[rpos] \o rest = FromTheRight
  BY <1>1 DEF RInv, ReplacingFromBack
<1> HIDE DEF S, head
<1>9. front \in Seq(S) /\ front = SubSeq(arg, 1, rpos)
  <2>1. /\ 0 \in 0..Len(str) /\ rpos \in 0..Len(str) /\ rpos <= Len(arg)
        /\ 0 + 1 = 1
    BY <1>3
  <2>2. /\ SubSeq(str, 0 + 1, rpos) \in Seq(S)
    BY <2>1, <1>6, Between
  <2>3. SubSeq(str, 0 + 1, rpos) = SubSeq(arg, 0 + 1, rpos)
    <3>1. \A i \in (0 + 1)..rpos : str[i] = arg[i]
      BY <1>3
    <3> QED
      BY <2>1, <3>1, <1>6, SamePart
  <2> QED
    BY <2>1, <2>2, <2>3
<1>10. head[rpos] = front
  <2>1. rpos \in 0..Len(arg) /\ 0 \in 0..rpos /\ 0 \in 0..Len(arg) /\ 0 + 1 = 1
    BY <1>3
  <2>2. ASSUME NEW q \in (0 + 1)..rpos, q >= Len(what)
        PROVE  ~ OccursAt(arg, what, q - Len(what))
    <3>1. q - Len(what) \in 0..rpos /\ (q - Len(what)) + Len(what) <= rpos
      BY <2>2, <1>3
    <3> QED
      BY <3>1, <1>5
  <2>3. TypeOK
    BY DEF IInv
  <2>4. ReplacedUpTo(arg, what, with)[rpos]
           = ReplacedUpTo(arg, what, with)[0] \o SubSeq(arg, 0 + 1, rpos)
    BY <2>1, <2>2, <2>3, ArgumentKeptBehind
  <2>5. head[0] = <<>>
    BY <2>1, <1>7 DEF RightRule
  <2> HIDE DEF front
  <2>6. <<>> \o front = front
    BY <1>9, ConcatEmptySeq
  <2> QED
    BY <2>1, <2>4, <2>5, <2>6, <1>9 DEF head
<1>11. front \o rest = str
  <2>1. /\ 1 \in 1..(Len(str) + 1) /\ rpos \in (1 - 1)..Len(str)
        /\ Len(str) \in rpos..Len(str)
    BY <1>3
  <2>2. SubSeq(str, 1, rpos) \o SubSeq(str, rpos + 1, Len(str)) = SubSeq(str, 1, Len(str))
    BY <2>1, <1>6, ConcatAdjacentSubSeq
  <2>3. SubSeq(str, 1, Len(str)) = str
    BY <1>6, SubSeqFull
  <2> QED
    BY <2>2, <2>3
<1> HIDE DEF front, rest
<1>12. str = FromTheRight
  BY <1>8, <1>10, <1>11
<1>13. ReplacedAll'
  <2>1. FromTheRight' = FromTheRight
    BY <1>1 DEF FromTheRight
  <2>2. ~ (Len(what') >= Len(with'))
    BY <1>1, <1>3
  <2> QED
    BY <2>1, <2>2, <1>1, <1>12 DEF ReplacedAll
<1>14. NoneMissed'
  BY <1>1, NoneMissedStays DEF RInv
<1> QED
  BY <1>1, <1>13, <1>14
     DEF RInv, CountingOn, ReplacingFromBack, ReplacingFromFront

LEMMA StutterKeepsRInv ==
    ASSUME RInv, UNCHANGED vars
    PROVE  RInv'
<1>1. UNCHANGED <<arg, what, with, str, stage, pos, found, rpos, wpos>>
  BY DEF vars, args
<1>2. NoneMissed'
  BY <1>1, NoneMissedStays DEF RInv
<1>3. \A k : Behind(k)' = Behind(k)
  BY <1>1 DEF Behind
<1>4. CountingOn'
  BY <1>1, <1>3 DEF RInv, CountingOn
<1>5. FromTheLeft' = FromTheLeft /\ FromTheRight' = FromTheRight
  BY <1>1 DEF FromTheLeft, FromTheRight
<1>6. ReplacingFromFront' /\ ReplacedAll'
  BY <1>1, <1>5 DEF RInv, ReplacingFromFront, ReplacedAll
<1>7. ReplacingFromBack'
  <2> SUFFICES ASSUME stage = "backward" PROVE ReplacingFromBack'
    BY <1>1 DEF ReplacingFromBack
  <2>1. PICK k \in 0..Len(found) : RoomFor(k) /\ (k < Len(found) => rpos < Behind(k + 1))
    BY DEF RInv, ReplacingFromBack
  <2>2. RoomFor(k)' /\ (k < Len(found') => rpos' < Behind(k + 1)')
    BY <2>1, <1>1, <1>3 DEF RoomFor, Growth
  <2>3. \A q \in Behind(Len(found))'..Len(arg') : ~ OccursAt(arg', what', q)
    <3>1. arg' = arg /\ what' = what /\ Behind(Len(found))' = Behind(Len(found))
      BY <1>1 DEF Behind
    <3> QED
      BY <3>1 DEF RInv, ReplacingFromBack
  <2>4. ReplacedUpTo(arg', what', with')[rpos'] \o SubSeq(str', wpos' + 1, Len(str'))
           = FromTheRight'
    BY <1>1, <1>5 DEF RInv, ReplacingFromBack
  <2> QED
    BY <2>2, <2>3, <2>4, <1>1 DEF ReplacingFromBack
<1> QED
  BY <1>2, <1>4, <1>6, <1>7 DEF RInv

LEMMA NextKeepsRInv == IInv /\ RInv /\ [Next]_vars => RInv'
BY ReplaceKeepsRInv, CountsKeepsRInv, MakesRoomKeepsRInv, ForwardKeepsRInv,
   BackwardKeepsRInv, StopsKeepsRInv, StutterKeepsRInv
   DEF Next, Step, Over

LEMMA RInvariant == Spec => []RInv
<1>1. Init => RInv
  BY InitRInv
<1>2. IInv /\ RInv /\ [Next]_vars => RInv'
  BY NextKeepsRInv
<1> QED
  BY <1>1, <1>2, IInvariant, PTL DEF Spec

\* Replace replaces every occurrence and nothing else, for all strings: a growing
\* text from the right, any other from the left, which is the same unless the
\* text overlaps itself.
THEOREM OccurrencesAreReplaced == Spec => []ReplacesOccurrences
<1>1. IInv /\ RInv => ReplacesOccurrences
  <2>0. Replaced(arg, what, with) =
           IF Len(what) >= Len(with) THEN FromTheLeft ELSE FromTheRight
    BY DEF Replaced, FromTheLeft, FromTheRight
  <2> SUFFICES ASSUME IInv, RInv, stage = "done"
               PROVE  /\ str = IF Len(what) >= Len(with) THEN FromTheLeft ELSE FromTheRight
                      /\ ~ OverlapsItself => FromTheLeft = FromTheRight
    BY <2>0 DEF ReplacesOccurrences
  <2>1. str = IF Len(what) >= Len(with) THEN FromTheLeft ELSE FromTheRight
    BY DEF RInv, ReplacedAll
  <2>2. ASSUME ~ OverlapsItself PROVE FromTheLeft = FromTheRight
    <3> DEFINE S == Char \cup {Nul}
    <3>1. /\ arg \in Seq(S) /\ what \in Seq(S) /\ with \in Seq(S)
          /\ what # <<>>
      BY Strings DEF IInv
    <3>2. ~ \E n \in 1..(Len(what) - 1) : OccursAt(what, SubSeq(what, 1, n), Len(what) - n)
      BY <2>2 DEF OverlapsItself
    <3> HIDE DEF S
    <3>3. ReplacedFrom(arg, what, with)[0] = ReplacedUpTo(arg, what, with)[Len(arg)]
      BY <3>1, <3>2, EitherSide
    <3> QED
      BY <3>3 DEF FromTheLeft, FromTheRight
  <2> QED
    BY <2>1, <2>2
<1> QED
  BY <1>1, IInvariant, RInvariant, PTL

---------------------------------------------------------------------------
(* Why Replace returns: a bound for the turns that are left.               *)

TurnsLeft ==
    IF stage = "replace" THEN 2 * Len(arg) + 4
    ELSE IF stage = "count" THEN (Len(arg) - pos) + Len(arg) + 3
    ELSE IF stage = "forward" THEN (Len(arg) - rpos) + 1
    ELSE IF stage = "backward" THEN rpos + 1
    ELSE 0

\* A turn leaves fewer turns.
Shortens == TurnsLeft' \in Nat /\ TurnsLeft' < TurnsLeft

\* Who gets nearer to an end has less to go.
LEMMA NearerTheEnd ==
    ASSUME NEW l \in Int, NEW m \in Int, NEW n \in Int, m < n, n <= l,
           NEW k \in Nat
    PROVE  (l - n) + k \in Nat /\ (l - n) + k < (l - m) + k
  OBVIOUS

LEMMA OneMore ==
    ASSUME NEW m \in Nat, NEW n \in Nat, m < n
    PROVE  m + 1 \in Nat /\ m + 1 < n + 1
  OBVIOUS

LEMMA WholeWay ==
    ASSUME NEW l \in Nat, NEW m \in Int, NEW n \in Nat, m <= l, n <= l
    PROVE  n + 1 \in Nat /\ n + 1 < (l - m) + l + 3
  OBVIOUS

LEMMA StepShortens ==
    ASSUME IInv, Step
    PROVE  Shortens
<1>1. /\ Len(what) \in Nat \ {0} /\ Len(arg) \in Nat /\ Len(arg) < npos /\ npos \in Nat
      /\ pos \in 0..Len(arg) /\ rpos \in 0..Len(arg)
  BY Lengths DEF IInv, TypeOK
<1>2. arg' = arg
  BY DEF Step, Replace, Counts, MakesRoom, Forward, Backward, Stops, args
<1>3. rpos' \in 0..Len(arg) /\ pos' \in 0..Len(arg)
  <2>1. TypeOK'
    BY NextKeepsIInv DEF Next, IInv
  <2> QED
    BY <2>1, <1>2 DEF TypeOK
<1>4. CASE Replace
  <2>1. /\ stage = "replace" /\ stage' \in {"forward", "count"}
        /\ pos' = 0 /\ rpos' = 0
    BY <1>4 DEF Replace, IInv, Starting
  <2>2. TurnsLeft = 2 * Len(arg) + 4
    BY <2>1 DEF TurnsLeft
  <2>3. TurnsLeft' = Len(arg) + Len(arg) + 3 \/ TurnsLeft' = Len(arg) + 1
    BY <2>1, <1>1, <1>2 DEF TurnsLeft
  <2> QED
    BY <2>2, <2>3, <1>1 DEF Shortens
<1>5. CASE Counts
  <2> DEFINE p == Find(str, what, pos)
  <2>1. stage = "count" /\ stage' = "count" /\ p # npos /\ pos' = p + Len(what)
    BY <1>5 DEF Counts
  <2>2. str = arg
    BY <2>1 DEF IInv, CountingUpToPos
  <2>3. pos \in Nat /\ p \in pos..Len(arg)
    BY <2>1, <2>2, <1>1, FindFindsFirst
  <2> HIDE DEF p
  <2>4. pos < pos'
    BY <2>1, <2>3, <1>1
  <2>5. TurnsLeft = (Len(arg) - pos) + (Len(arg) + 3)
    BY <2>1, <1>1 DEF TurnsLeft
  <2>6. TurnsLeft' = (Len(arg) - pos') + (Len(arg) + 3)
    BY <2>1, <1>2, <1>1, <1>3 DEF TurnsLeft
  <2>7. pos \in Int /\ pos' \in Int /\ pos' <= Len(arg) /\ Len(arg) \in Int
    BY <1>1, <1>3
  <2>8. Len(arg) + 3 \in Nat
    BY <1>1
  <2>9. /\ (Len(arg) - pos') + (Len(arg) + 3) \in Nat
        /\ (Len(arg) - pos') + (Len(arg) + 3) < (Len(arg) - pos) + (Len(arg) + 3)
    BY <2>4, <2>7, <2>8, NearerTheEnd
  <2> QED
    BY <2>5, <2>6, <2>9, Zenon DEF Shortens
<1>6. CASE MakesRoom
  <2>1. stage = "count" /\ stage' = "backward"
    BY <1>6 DEF MakesRoom
  <2>2. TurnsLeft = (Len(arg) - pos) + Len(arg) + 3
    BY <2>1 DEF TurnsLeft
  <2>3. TurnsLeft' = rpos' + 1
    BY <2>1 DEF TurnsLeft
  <2>4. /\ pos \in Int /\ pos <= Len(arg) /\ Len(arg) \in Nat
        /\ rpos' \in Nat /\ rpos' <= Len(arg)
    BY <1>1, <1>3
  <2>5. rpos' + 1 \in Nat /\ rpos' + 1 < (Len(arg) - pos) + Len(arg) + 3
    BY <2>4, WholeWay
  <2> QED
    BY <2>2, <2>3, <2>5, Zenon DEF Shortens
<1>7. CASE Forward
  <2>1. /\ stage = "forward"
        /\ stage' = "done" \/ (stage' = "forward" /\ rpos' = NextRead + Len(what))
    BY <1>7 DEF Forward, Past
  <2>2. NextRead \in rpos..Len(arg)
    BY <2>1, NextReadIsNext
  <2>3. TurnsLeft = (Len(arg) - rpos) + 1
    BY <2>1 DEF TurnsLeft
  <2>4. TurnsLeft' = 0 \/ (TurnsLeft' = (Len(arg) - rpos') + 1 /\ rpos < rpos')
    <3>1. CASE stage' = "done"
      BY <3>1 DEF TurnsLeft
    <3>2. CASE stage' = "forward" /\ rpos' = NextRead + Len(what)
      <4>1. rpos < rpos'
        BY <3>2, <2>2, <1>1
      <4>2. TurnsLeft' = (Len(arg) - rpos') + 1
        BY <3>2, <1>2 DEF TurnsLeft
      <4> QED
        BY <4>1, <4>2
    <3> QED
      BY <3>1, <3>2, <2>1
  <2>5. /\ rpos \in Int /\ rpos <= Len(arg) /\ Len(arg) \in Nat
        /\ rpos' \in Int /\ rpos' <= Len(arg)
    BY <1>1, <1>3
  <2>6. CASE TurnsLeft' = 0
    <3>1. 0 \in Nat /\ 0 < (Len(arg) - rpos) + 1
      BY <2>5
    <3> QED
      BY <2>3, <2>6, <3>1, Zenon DEF Shortens
  <2>7. CASE TurnsLeft' = (Len(arg) - rpos') + 1 /\ rpos < rpos'
    <3>1. /\ (Len(arg) - rpos') + 1 \in Nat
          /\ (Len(arg) - rpos') + 1 < (Len(arg) - rpos) + 1
      BY <2>5, <2>7, NearerTheEnd
    <3> QED
      BY <2>3, <2>7, <3>1, Zenon DEF Shortens
  <2> QED
    BY <2>4, <2>6, <2>7
<1>8. CASE Backward
  <2>1. stage = "backward" /\ stage' = "backward"
    BY <1>8 DEF Backward
  <2>2. PICK k \in 0..Len(found) : RoomFor(k)
    BY <2>1 DEF IInv, MovingBackward
  <2> DEFINE p == RFind(str, what, Minus(rpos, Len(what)))
  <2>3. p \in Nat /\ p + Len(what) <= rpos /\ rpos' = p
    BY <2>2, <1>8, BackwardTurn
  <2> HIDE DEF p
  <2>4. rpos' < rpos
    BY <2>3, <1>1
  <2>5. TurnsLeft = rpos + 1 /\ TurnsLeft' = rpos' + 1
    BY <2>1 DEF TurnsLeft
  <2>6. rpos \in Nat /\ rpos' \in Nat
    BY <1>1, <1>3
  <2>7. rpos' + 1 \in Nat /\ rpos' + 1 < rpos + 1
    BY <2>4, <2>6, OneMore
  <2> QED
    BY <2>5, <2>7, Zenon DEF Shortens
<1>9. CASE Stops
  <2>1. TurnsLeft = rpos + 1 /\ TurnsLeft' = 0
    BY <1>9 DEF Stops, TurnsLeft
  <2> QED
    BY <2>1, <1>1 DEF Shortens
<1> QED
  BY <1>4, <1>5, <1>6, <1>7, <1>8, <1>9 DEF Step

\* Every turn of a loop gets nearer to the end, so no loop of Replace turns for
\* ever.
THEOREM EveryTurnShortens == Spec => [][Step => Shortens]_vars
<1>1. IInv /\ [Next]_vars => [Step => Shortens]_vars
  BY StepShortens
<1> QED
  BY <1>1, IInvariant, PTL DEF Spec
===========================================================================
