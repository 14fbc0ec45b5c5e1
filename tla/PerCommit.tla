----------------------------- MODULE PerCommit -----------------------------
(***************************************************************************)
(* One package per commit (PackageType::Commit) over many runs of the      *)
(* program: the name of its ebuild has a date, its text pins commits in    *)
(* shell variables.  Upstream pushes commits and tags, a run reads the     *)
(* date and a commit, asks the feed for the latest commit and its date,    *)
(* and replaces both when the date is later.  What a run has made is       *)
(* merged before the next run.                                             *)
(*                                                                         *)
(* A date is the number its eight digits make; a name has it once.         *)
(***************************************************************************)
EXTENDS Naturals, Sequences

CONSTANTS
    Variable,     \* shell variables with COMMIT in their names, numbered in
                  \* the order bash prints them
    Commit,       \* commits of the package's upstream,
    OtherCommit,  \* and of other projects that an ebuild may pin
    NoCommit,     \* the empty string
    Day,          \* days, as <<year, month, day>>
    Histories     \* what upstream may push

Entry == [commit : Commit, day : Day, tag : {"none", "version", "name"}]

ASSUME PerCommitAssumption ==
    /\ Variable \subseteq Nat
    /\ Commit \cap OtherCommit = {}
    /\ NoCommit \notin Commit \cup OtherCommit
    /\ \A d \in Day : d[1] \in Nat /\ d[1] >= 1970 /\ d[2] \in 1..12 /\ d[3] \in 1..31
    /\ Histories \subseteq Seq(Entry)

VARIABLES
    is_tag,   \* the package's URI has "refs" as its fourth segment
    own,      \* the variable with the commit of the package itself
    name,     \* the date in the name of the ebuild
    pins,     \* the commits in its text
    history,  \* what upstream will have pushed at last,
    pushed,   \* and how much of it it has
    stage,    \* what the run does next
    parsed,   \* EbuildCommitSpecific
    fetched   \* CommitSpecific

ebuild == <<is_tag, own, name, pins>>
upstream == <<history, pushed>>
vars == <<ebuild, upstream, stage, parsed, fetched>>

CommitSpecific == [date : Nat, commit : Commit \cup OtherCommit \cup {NoCommit}]

\* A date as a number that reads yyyymmdd in decimal.
Yyyymmdd(day) == day[1] * 10000 + day[2] * 100 + day[3]

\* What CommitSpecific holds before it is set.
Nothing == [date |-> 0, commit |-> NoCommit]

\* re_commit_str finds the first variable that holds a commit.
Found(v) ==
    /\ v \in DOMAIN pins
    /\ pins[v] # NoCommit
    /\ \A w \in DOMAIN pins : pins[w] # NoCommit => v <= w

---------------------------------------------------------------------------

\* The ebuild pins a commit that has been pushed, by its date, and perhaps
\* another one.
Init ==
    /\ is_tag \in BOOLEAN
    /\ history \in Histories
    /\ pushed \in 1..Len(history)
    /\ \E k \in 1..pushed, vs \in SUBSET Variable :
          /\ own \in vs
          /\ pins \in [vs -> OtherCommit \cup {history[k].commit}]
          /\ pins[own] = history[k].commit
          /\ name = Yyyymmdd(history[k].day)
    /\ stage = "idle"
    /\ parsed = Nothing
    /\ fetched = Nothing

\* Upstream pushes a commit, not always of a later day.
Pushes ==
    /\ pushed < Len(history)
    /\ pushed' = pushed + 1
    /\ UNCHANGED <<ebuild, history, stage, parsed, fetched>>

\* get_ebuild_info: without a commit in the environment it is an error.
Reads ==
    /\ stage = "idle"
    /\ \E v \in DOMAIN pins :
          Found(v) /\ parsed' = [date |-> name, commit |-> pins[v]]
    /\ fetched' = Nothing
    /\ stage' = "fetching"
    /\ UNCHANGED <<ebuild, upstream>>

\* The entries of /tags.atom or /commits.atom.
Feed == {i \in 1..pushed : is_tag => history[i].tag # "none"}

\* Mutant: the loop over the entries does not break.
IsOldest(i) == i \in Feed /\ \A j \in Feed : i <= j

\* The first entry is the latest.
IsLatest(i) == i \in Feed /\ \A j \in Feed : j <= i

\* github_fetch_version: a tag has no commit, and must have a version.
Fetches ==
    /\ stage = "fetching"
    /\ \E i \in 1..pushed :
          /\ IsLatest(i)
          /\ is_tag => history[i].tag = "version"
          /\ fetched' = [date |-> Yyyymmdd(history[i].day),
                         commit |-> IF is_tag THEN NoCommit ELSE history[i].commit]
    /\ stage' = "comparing"
    /\ UNCHANGED <<ebuild, upstream, parsed>>

\* There is no entry, or one whose date does not parse and stays 1970-01-01.
FetchesNothing ==
    /\ stage = "fetching"
    /\ \/ Feed = {} /\ fetched' = Nothing
       \/ \E i \in 1..pushed :
             /\ IsLatest(i)
             /\ is_tag => history[i].tag = "version"
             /\ fetched' = [date |-> Yyyymmdd(<<1970, 1, 1>>),
                            commit |-> IF is_tag THEN NoCommit ELSE history[i].commit]
    /\ stage' = "comparing"
    /\ UNCHANGED <<ebuild, upstream, parsed>>

\* Mutant: any other date is a new one.
IsChangedIfOther == parsed.date # fetched.date

\* is_changed
IsChanged == parsed.date < fetched.date

Compares ==
    /\ stage = "comparing"
    /\ stage' = IF IsChanged THEN "changing" ELSE "idle"
    /\ UNCHANGED <<ebuild, upstream, parsed, fetched>>

\* Mutant: the text is not written.
EditedNot == pins

\* gyou::Replace of the commit in the text, wherever it is.  (A text that gets
\* shorter keeps its old end; that is in Worktrees.)
Edited ==
    [v \in DOMAIN pins |-> IF pins[v] = parsed.commit THEN fetched.commit ELSE pins[v]]

\* apply_change: the text is written, the date in the name replaced.
Applies ==
    /\ stage = "changing"
    /\ pins' = Edited
    /\ name' = fetched.date
    /\ stage' = "idle"
    /\ UNCHANGED <<is_tag, own, upstream, parsed, fetched>>

\* The request, the tag, git, a file or the signal: this run changes nothing.
Fails ==
    /\ stage \in {"fetching", "changing"}
    /\ stage' = "idle"
    /\ UNCHANGED <<ebuild, upstream, parsed, fetched>>

\* No commit is found any more, in no run.
GivesUp == stage = "idle" /\ (\A v \in DOMAIN pins : ~Found(v)) /\ UNCHANGED vars

Next ==
    \/ Pushes
    \/ Reads
    \/ Fetches
    \/ FetchesNothing
    \/ Compares
    \/ Applies
    \/ Fails
    \/ GivesUp

\* gyou is run again and again; not every request and not every change fails.
Fairness ==
    /\ WF_vars(Pushes)
    /\ WF_vars(Reads)
    /\ SF_vars(Fetches)
    /\ WF_vars(Compares)
    /\ SF_vars(Applies)

Spec == Init /\ [][Next]_vars /\ Fairness

---------------------------------------------------------------------------
(* Properties.                                                             *)

TypeOK ==
    /\ is_tag \in BOOLEAN
    /\ name \in Nat
    /\ \E vs \in SUBSET Variable :
          own \in vs /\ pins \in [vs -> Commit \cup OtherCommit \cup {NoCommit}]
    /\ history \in Histories
    /\ pushed \in 1..Len(history)
    /\ stage \in {"idle", "fetching", "comparing", "changing"}
    /\ parsed \in CommitSpecific
    /\ fetched \in CommitSpecific

\* The URI has the commit, and no variable with the commit of another project
\* comes before the package's own.
Plain == ~is_tag /\ Found(own)

\* The name and the text of an ebuild belong together: the commit it pins was
\* made on the day in its name, in whatever order days are pushed and however
\* many runs fail.
PinFitsName ==
    Plain => \E i \in 1..pushed :
                /\ pins[own] = history[i].commit
                /\ name = Yyyymmdd(history[i].day)

Earlier(d, e) ==
    \/ d[1] < e[1]
    \/ d[1] = e[1] /\ d[2] < e[2]
    \/ d[1] = e[1] /\ d[2] = e[2] /\ d[3] < e[3]

\* A change takes an ebuild to a later day of the calendar, although numbers are
\* compared, and leaves the commits of other projects alone.
MovesForward ==
    [][name' # name =>
          /\ \A d, e \in Day :
                name = Yyyymmdd(d) /\ name' = Yyyymmdd(e) => Earlier(d, e)
          /\ Plain => \A v \in DOMAIN pins :
                         pins[v] \in OtherCommit => pins'[v] = pins[v]]_vars

\* However often runs fail, an ebuild gets the day of the last commit in the end,
\* unless it has a later one.
CatchesUp ==
    ~is_tag => <>[](name >= Yyyymmdd(history[Len(history)].day))
===========================================================================
