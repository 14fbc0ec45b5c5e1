-------------------------- MODULE PerCommitProofs --------------------------
(***************************************************************************)
(* Theorems about PerCommit, for every history of commits and tags, every  *)
(* calendar and any number of variables in an ebuild.                      *)
(***************************************************************************)
EXTENDS PerCommit, TLAPS

---------------------------------------------------------------------------
(* Dates as numbers.                                                       *)

LEMMA DayParts ==
    ASSUME NEW d \in Day
    PROVE  d[1] \in Nat /\ d[1] >= 1970 /\ d[2] \in 1..12 /\ d[3] \in 1..31
  BY PerCommitAssumption

\* Comparing the numbers compares the days.
LEMMA NumbersFollowDays ==
    ASSUME NEW d \in Day, NEW e \in Day, Yyyymmdd(d) < Yyyymmdd(e)
    PROVE  Earlier(d, e)
<1>1. d[1] \in Nat /\ d[1] >= 1970 /\ d[2] \in 1..12 /\ d[3] \in 1..31
  BY DayParts
<1>2. e[1] \in Nat /\ e[1] >= 1970 /\ e[2] \in 1..12 /\ e[3] \in 1..31
  BY DayParts
<1>3. d[1] * 10000 + d[2] * 100 + d[3] < e[1] * 10000 + e[2] * 100 + e[3]
  BY SMT DEF Yyyymmdd
<1>4. \/ d[1] < e[1]
      \/ d[1] = e[1] /\ d[2] < e[2]
      \/ d[1] = e[1] /\ d[2] = e[2] /\ d[3] < e[3]
  <2> DEFINE y == d[1]  m == d[2]  k == d[3]  z == e[1]  n == e[2]  l == e[3]
  <2>1. /\ y \in Nat /\ m \in 1..12 /\ k \in 1..31
        /\ z \in Nat /\ n \in 1..12 /\ l \in 1..31
        /\ y * 10000 + m * 100 + k < z * 10000 + n * 100 + l
    BY <1>1, <1>2, <1>3
  <2> HIDE DEF y, m, k, z, n, l
  <2>2. y < z \/ (y = z /\ m < n) \/ (y = z /\ m = n /\ k < l)
    BY <2>1, SMT
  <2> QED
    BY <2>2 DEF y, m, k, z, n, l
<1> QED
  BY <1>4 DEF Earlier

\* The date that is there when none has been parsed.
Epoch == Yyyymmdd(<<1970, 1, 1>>)

\* No number is smaller than that of the epoch.
LEMMA NumberBounds ==
    ASSUME NEW d \in Day
    PROVE  Yyyymmdd(d) \in Nat /\ Yyyymmdd(d) >= Epoch
<1>1. d[1] \in Nat /\ d[1] >= 1970 /\ d[2] \in 1..12 /\ d[3] \in 1..31
  BY DayParts
<1> QED
  BY <1>1, SMT DEF Yyyymmdd, Epoch

LEMMA EpochIsNat == Epoch \in Nat
  BY SMT DEF Yyyymmdd, Epoch

---------------------------------------------------------------------------
(* The invariant.                                                          *)

\* What has been read is what is there: nothing but Applies changes it.
ReadIsThere ==
    stage \in {"fetching", "comparing", "changing"} =>
        /\ parsed.date = name
        /\ \E v \in DOMAIN pins : Found(v) /\ parsed.commit = pins[v]

\* What has been fetched is a commit with its day, or is not newer.
FetchedFits ==
    stage \in {"comparing", "changing"} =>
        \/ is_tag
        \/ fetched.date <= Epoch
        \/ \E i \in 1..pushed :
              /\ fetched.commit = history[i].commit
              /\ fetched.date = Yyyymmdd(history[i].day)

\* Only a later date is applied.
LaterOnly == stage = "changing" => parsed.date < fetched.date

\* Names are dates of days since the epoch.
NameIsDate == name >= Epoch

\* A commit is lost only to a tag.
NoneIsLost == ~is_tag => \A v \in DOMAIN pins : pins[v] # NoCommit

IInv ==
    /\ TypeOK
    /\ ReadIsThere
    /\ FetchedFits
    /\ LaterOnly
    /\ NameIsDate
    /\ NoneIsLost
    /\ PinFitsName

---------------------------------------------------------------------------
(* What upstream has pushed.                                               *)

LEMMA PushedIsEntry ==
    ASSUME TypeOK, NEW i \in 1..pushed
    PROVE  /\ history[i].commit \in Commit
           /\ history[i].day \in Day
           /\ Yyyymmdd(history[i].day) \in Nat
           /\ Yyyymmdd(history[i].day) >= Epoch
<1>1. history \in Seq(Entry) /\ i \in 1..Len(history)
  BY PerCommitAssumption DEF TypeOK
<1>2. history[i] \in Entry
  BY <1>1
<1>3. history[i].commit \in Commit /\ history[i].day \in Day
  BY <1>2 DEF Entry
<1> QED
  BY <1>3, NumberBounds

---------------------------------------------------------------------------
(* It holds at first.                                                      *)

LEMMA InitIInv == Init => IInv
<1> SUFFICES ASSUME Init PROVE IInv
  OBVIOUS
<1>1. PICK k \in 1..pushed, vs \in SUBSET Variable :
         /\ own \in vs
         /\ pins \in [vs -> OtherCommit \cup {history[k].commit}]
         /\ pins[own] = history[k].commit
         /\ name = Yyyymmdd(history[k].day)
  BY DEF Init
<1>2. history \in Seq(Entry) /\ pushed \in 1..Len(history)
  BY PerCommitAssumption DEF Init
<1>3. history[k] \in Entry
  BY <1>1, <1>2
<1>4. history[k].commit \in Commit /\ history[k].day \in Day
  BY <1>3 DEF Entry
<1>5. name \in Nat /\ name >= Epoch
  BY <1>1, <1>4, NumberBounds
<1>6. TypeOK
  <2>1. pins \in [vs -> Commit \cup OtherCommit \cup {NoCommit}]
    BY <1>1, <1>4
  <2>2. Nothing \in CommitSpecific
    BY DEF Nothing, CommitSpecific
  <2> QED
    BY <1>1, <1>5, <2>1, <2>2 DEF Init, TypeOK
<1>7. NoneIsLost
  <2>1. \A v \in DOMAIN pins : pins[v] \in OtherCommit \cup {history[k].commit}
    BY <1>1
  <2>2. NoCommit \notin OtherCommit /\ NoCommit # history[k].commit
    BY <1>4, PerCommitAssumption
  <2> QED
    BY <2>1, <2>2 DEF NoneIsLost
<1>8. PinFitsName
  BY <1>1 DEF PinFitsName
<1> QED
  BY <1>5, <1>6, <1>7, <1>8 DEF Init, IInv, ReadIsThere, FetchedFits, LaterOnly, NameIsDate

---------------------------------------------------------------------------
(* Every step keeps it.                                                    *)

LEMMA PushesKeepsIInv == IInv /\ Pushes => IInv'
<1> SUFFICES ASSUME IInv, Pushes PROVE IInv'
  OBVIOUS
<1>1. pushed \in 1..Len(history) /\ Len(history) \in Nat
  BY PerCommitAssumption DEF IInv, TypeOK
<1>2. pushed' = pushed + 1 /\ pushed' \in 1..Len(history) /\ 1..pushed \subseteq 1..pushed'
  BY <1>1 DEF Pushes
<1>3. TypeOK'
  BY <1>2 DEF IInv, TypeOK, Pushes, ebuild
<1>4. FetchedFits' /\ PinFitsName'
  BY <1>2 DEF IInv, FetchedFits, PinFitsName, Plain, Found, Pushes, ebuild
<1> QED
  BY <1>3, <1>4 DEF IInv, ReadIsThere, LaterOnly, NameIsDate, NoneIsLost, Found, Pushes, ebuild

LEMMA ReadsKeepsIInv == IInv /\ Reads => IInv'
<1> SUFFICES ASSUME IInv, Reads PROVE IInv'
  OBVIOUS
<1>1. PICK v \in DOMAIN pins : Found(v) /\ parsed' = [date |-> name, commit |-> pins[v]]
  BY DEF Reads
<1>2. pins[v] \in Commit \cup OtherCommit \cup {NoCommit} /\ name \in Nat
  BY DEF IInv, TypeOK
<1>3. parsed' \in CommitSpecific /\ fetched' \in CommitSpecific
  BY <1>1, <1>2 DEF CommitSpecific, Reads, Nothing
<1>4. TypeOK'
  BY <1>3 DEF IInv, TypeOK, Reads, ebuild, upstream
<1>5. ReadIsThere'
  BY <1>1 DEF ReadIsThere, Found, Reads, ebuild
<1> QED
  BY <1>4, <1>5 DEF IInv, FetchedFits, LaterOnly, NameIsDate, NoneIsLost, PinFitsName, Plain,
     Found, Reads, ebuild, upstream

LEMMA FetchesKeepsIInv == IInv /\ Fetches => IInv'
<1> SUFFICES ASSUME IInv, Fetches PROVE IInv'
  OBVIOUS
<1>1. PICK i \in 1..pushed :
         fetched' = [date |-> Yyyymmdd(history[i].day),
                     commit |-> IF is_tag THEN NoCommit ELSE history[i].commit]
  BY DEF Fetches
<1>2. history[i].commit \in Commit /\ Yyyymmdd(history[i].day) \in Nat
  BY <1>1, PushedIsEntry DEF IInv
<1>3. fetched' \in CommitSpecific
  BY <1>1, <1>2 DEF CommitSpecific
<1>4. TypeOK'
  BY <1>3 DEF IInv, TypeOK, Fetches, ebuild, upstream
<1>5. FetchedFits'
  BY <1>1 DEF FetchedFits, Fetches, ebuild, upstream
<1> QED
  BY <1>4, <1>5 DEF IInv, ReadIsThere, LaterOnly, NameIsDate, NoneIsLost, PinFitsName, Plain,
     Found, Fetches, ebuild, upstream

LEMMA FetchesNothingKeepsIInv == IInv /\ FetchesNothing => IInv'
<1> SUFFICES ASSUME IInv, FetchesNothing PROVE IInv'
  OBVIOUS
<1>1. fetched' \in CommitSpecific /\ fetched'.date <= Epoch
  <2>1. CASE fetched' = Nothing
    BY <2>1, EpochIsNat DEF Nothing, CommitSpecific
  <2>2. CASE \E i \in 1..pushed :
                fetched' = [date |-> Epoch,
                            commit |-> IF is_tag THEN NoCommit ELSE history[i].commit]
    BY <2>2, EpochIsNat, PushedIsEntry DEF CommitSpecific, IInv
  <2> QED
    BY <2>1, <2>2 DEF FetchesNothing, Epoch
<1>2. TypeOK'
  BY <1>1 DEF IInv, TypeOK, FetchesNothing, ebuild, upstream
<1>3. FetchedFits'
  BY <1>1 DEF FetchedFits
<1> QED
  BY <1>2, <1>3 DEF IInv, ReadIsThere, LaterOnly, NameIsDate, NoneIsLost, PinFitsName, Plain,
     Found, FetchesNothing, ebuild, upstream

LEMMA ComparesKeepsIInv == IInv /\ Compares => IInv'
<1> SUFFICES ASSUME IInv, Compares PROVE IInv'
  OBVIOUS
<1>1. stage = "comparing" /\ stage' \in {"changing", "idle"}
      /\ (stage' = "changing" => parsed.date < fetched.date)
  BY DEF Compares, IsChanged
<1> QED
  BY <1>1 DEF IInv, TypeOK, ReadIsThere, FetchedFits, LaterOnly, NameIsDate, NoneIsLost,
     PinFitsName, Plain, Found, Compares, ebuild, upstream

\* There is one variable that is found first.
LEMMA FoundIsOne ==
    ASSUME TypeOK, NEW v \in DOMAIN pins, Found(v), NEW w \in DOMAIN pins, Found(w)
    PROVE  v = w
<1>1. v \in Nat /\ w \in Nat
  BY PerCommitAssumption DEF TypeOK
<1>2. v <= w /\ w <= v
  BY DEF Found
<1> QED
  BY <1>1, <1>2

LEMMA AppliesKeepsIInv == IInv /\ Applies => IInv'
<1> SUFFICES ASSUME IInv, Applies PROVE IInv'
  OBVIOUS
<1> USE DEF IInv
<1>1. stage = "changing" /\ stage' = "idle" /\ pins' = Edited /\ name' = fetched.date
  BY DEF Applies
<1>2. fetched.date \in Nat /\ fetched.commit \in Commit \cup OtherCommit \cup {NoCommit}
  BY DEF TypeOK, CommitSpecific
<1>3. name < fetched.date /\ name \in Nat /\ Epoch \in Nat /\ Epoch <= name
  BY <1>1, EpochIsNat DEF ReadIsThere, LaterOnly, NameIsDate, TypeOK
<1>4. DOMAIN pins' = DOMAIN pins
  BY <1>1 DEF Edited
<1>5. TypeOK'
  <2>1. PICK vs \in SUBSET Variable :
           own \in vs /\ pins \in [vs -> Commit \cup OtherCommit \cup {NoCommit}]
    BY DEF TypeOK
  <2>2. pins' \in [vs -> Commit \cup OtherCommit \cup {NoCommit}]
    BY <1>1, <1>2, <2>1 DEF Edited
  <2> QED
    BY <1>1, <1>2, <2>1, <2>2 DEF TypeOK, Applies, upstream
<1>6. NameIsDate'
  BY <1>1, <1>2, <1>3 DEF NameIsDate
<1>7. ASSUME ~is_tag
      PROVE  \E i \in 1..pushed :
                /\ fetched.commit = history[i].commit
                /\ fetched.date = Yyyymmdd(history[i].day)
  <2>1. ~(fetched.date <= Epoch)
    BY <1>2, <1>3
  <2> QED
    BY <1>1, <1>7, <2>1 DEF FetchedFits
<1>8. NoneIsLost'
  <2> SUFFICES ASSUME ~is_tag, NEW v \in DOMAIN pins PROVE pins'[v] # NoCommit
    BY <1>4 DEF NoneIsLost, Applies
  <2>1. fetched.commit # NoCommit
    BY <1>7, PushedIsEntry, PerCommitAssumption
  <2>2. pins[v] # NoCommit
    BY DEF NoneIsLost
  <2> QED
    BY <1>1, <2>1, <2>2 DEF Edited
<1>9. PinFitsName'
  <2> SUFFICES ASSUME ~is_tag, Found(own)'
               PROVE  \E i \in 1..pushed :
                         pins'[own] = history[i].commit /\ name' = Yyyymmdd(history[i].day)
    BY DEF PinFitsName, Plain, Applies, upstream
  <2>1. PICK v \in DOMAIN pins : Found(v) /\ parsed.commit = pins[v]
    BY <1>1 DEF ReadIsThere
  <2>2. \A w \in DOMAIN pins : pins[w] # NoCommit /\ pins'[w] # NoCommit
    BY <1>4, <1>8 DEF NoneIsLost, Applies
  <2>3. own \in DOMAIN pins /\ Found(own)
    BY <1>4, <2>2 DEF Found, Applies
  <2>4. own = v
    BY <2>1, <2>3, FoundIsOne
  <2>5. pins'[own] = fetched.commit
    BY <1>1, <2>1, <2>3, <2>4 DEF Edited
  <2> QED
    BY <1>1, <1>7, <2>5
<1> QED
  BY <1>1, <1>5, <1>6, <1>8, <1>9 DEF ReadIsThere, FetchedFits, LaterOnly

LEMMA NextKeepsIInv == IInv /\ [Next]_vars => IInv'
<1> SUFFICES ASSUME IInv, [Next]_vars PROVE IInv'
  OBVIOUS
<1>1. CASE Fails
  BY <1>1 DEF IInv, TypeOK, ReadIsThere, FetchedFits, LaterOnly, NameIsDate, NoneIsLost,
     PinFitsName, Plain, Found, Fails, ebuild, upstream
<1>2. CASE UNCHANGED vars
  BY <1>2 DEF IInv, TypeOK, ReadIsThere, FetchedFits, LaterOnly, NameIsDate, NoneIsLost,
     PinFitsName, Plain, Found, vars, ebuild, upstream
<1> QED
  BY <1>1, <1>2, PushesKeepsIInv, ReadsKeepsIInv, FetchesKeepsIInv, FetchesNothingKeepsIInv,
     ComparesKeepsIInv, AppliesKeepsIInv DEF Next, GivesUp

---------------------------------------------------------------------------
(* The theorems.                                                           *)

LEMMA Invariant == Spec => []IInv
  BY InitIInv, NextKeepsIInv, PTL DEF Spec

\* The variables of PerCommit keep their types.
THEOREM PerCommitIsWellTyped == Spec => []TypeOK
<1>1. IInv => TypeOK
  BY DEF IInv
<1> QED
  BY <1>1, Invariant, PTL

\* The commit an ebuild pins was made on the day in its name, for every history
\* of upstream and whatever runs fail: a run writes both from one entry of the
\* feed, over the commit and the date it has read.
THEOREM PinsFitNames == Spec => []PinFitsName
<1>1. IInv => PinFitsName
  BY DEF IInv
<1> QED
  BY <1>1, Invariant, PTL

LEMMA NamesMoveForward ==
    ASSUME IInv, Next, name' # name
    PROVE  /\ \A d, e \in Day : name = Yyyymmdd(d) /\ name' = Yyyymmdd(e) => Earlier(d, e)
           /\ Plain => \A v \in DOMAIN pins :
                          pins[v] \in OtherCommit => pins'[v] = pins[v]
<1> USE DEF IInv
<1>1. Applies
  BY DEF Next, Pushes, Reads, Fetches, FetchesNothing, Compares, Fails, GivesUp, vars, ebuild
<1>2. stage = "changing" /\ pins' = Edited /\ name' = fetched.date
  BY <1>1 DEF Applies
<1>3. name < name'
  BY <1>2 DEF ReadIsThere, LaterOnly
<1>4. ASSUME Plain, NEW v \in DOMAIN pins, pins[v] \in OtherCommit
      PROVE  pins'[v] = pins[v]
  <2>1. PICK w \in DOMAIN pins : Found(w) /\ parsed.commit = pins[w]
    BY <1>2 DEF ReadIsThere
  <2>2. own \in DOMAIN pins /\ Found(own)
    BY <1>4 DEF Plain, Found
  <2>3. parsed.commit = pins[own]
    BY <2>1, <2>2, FoundIsOne
  <2>4. pins[own] \in Commit
    BY <1>4, PushedIsEntry DEF PinFitsName
  <2>5. pins[v] # parsed.commit
    BY <1>4, <2>3, <2>4, PerCommitAssumption
  <2> QED
    BY <1>2, <1>4, <2>5 DEF Edited
<1> QED
  BY <1>3, <1>4, NumbersFollowDays

\* A change takes an ebuild to a later day, for every calendar: the eight digits
\* of a date compare as the date does, and the commits of other projects are no
\* commits of the package.
THEOREM ChangesMoveForward == Spec => MovesForward
<1>1. IInv /\ [Next]_vars =>
         [name' # name =>
            /\ \A d, e \in Day : name = Yyyymmdd(d) /\ name' = Yyyymmdd(e) => Earlier(d, e)
            /\ Plain => \A v \in DOMAIN pins :
                           pins[v] \in OtherCommit => pins'[v] = pins[v]]_vars
  BY NamesMoveForward DEF vars, ebuild
<1> QED
  BY <1>1, Invariant, PTL DEF Spec, MovesForward

===========================================================================
