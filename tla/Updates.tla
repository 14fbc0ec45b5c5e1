------------------------------ MODULE Updates ------------------------------
(***************************************************************************)
(* One ebuild over many runs of the program: upstream publishes releases,  *)
(* a run reads the version from the name of the file and the latest        *)
(* release from the feed, and renames the file when the one is less than   *)
(* the other; what got a manifest is merged before the next run.           *)
(* Names are without their extension ".ebuild", which has no digit.        *)
(***************************************************************************)
EXTENDS VersionNames, Replacement

CONSTANTS
    PackageName,  \* names of packages,
    Revision,     \* and what may follow a version in the names of their ebuilds
    Number,       \* numbers of releases, as sequences of Nat
    OddVersion,   \* other versions an ebuild may have
    Histories     \* the releases to be published, in sequences

IsVersion(v) == v # <<>> /\ v[1] \in Digit /\ VersionEnd(v, 1) = Len(v) + 1

IsRevision(r) == r = <<>> \/ RevisionEnd(r, 1) = Len(r) + 1

Release ==
    [folders : Seq(Seq(TextChar)), prefix : Seq(TextChar), number : Number,
     suffix : Seq(TextChar)]

\* Bound: no capital letters.
ASSUME UpdatesAssumption ==
    /\ PackageName \subseteq Seq(NameChar) \ {<<>>}
    /\ Revision \subseteq Seq(NameChar) /\ \A r \in Revision : IsRevision(r)
    /\ Number \subseteq Seq(Nat) \ {<<>>}
    /\ OddVersion \subseteq Seq(TextChar) /\ \A v \in OddVersion : IsVersion(v)
    /\ Histories \subseteq Seq(Release)

VARIABLES
    pn,         \* the package: the name of its directory
    name,       \* the name of its ebuild
    history,    \* what upstream will have published at last,
    published,  \* and how many releases of it it has published
    stage,      \* what the run does next
    parsed,     \* ParsedEbuildStem
    fetched,    \* fetched_ver
    new_name    \* the name the file has on the branch of the change

vars == <<pn, name, history, published, stage, parsed, fetched, new_name>>

---------------------------------------------------------------------------
(* Portage and upstream.                                                   *)

Ebuild(ver, revision) == pn \o <<"-">> \o ver \o revision

\* What is left of a name of an ebuild behind its package; <<>> if there is no
\* version.
Versioned(stem) ==
    LET rest == SubSeq(stem, Len(pn) + 2, Len(stem))
    IN  IF /\ Len(pn) + 1 < Len(stem)
           /\ SubSeq(stem, 1, Len(pn) + 1) = Append(pn, "-")
           /\ At(rest, 1) \in Digit
           /\ RevisionEnd(rest, VersionEnd(rest, 1)) = Len(rest) + 1
        THEN rest
        ELSE <<>>

PortageVersion(stem) == SubSeq(Versioned(stem), 1, VersionEnd(Versioned(stem), 1) - 1)

PortageRevision(stem) ==
    SubSeq(Versioned(stem), Len(PortageVersion(stem)) + 1, Len(Versioned(stem)))

Decimal(n) ==
    LET text[m \in 0..n] ==
            IF m < 10 THEN <<Ascii[m + 4]>>
            ELSE Append(text[m \div 10], Ascii[(m % 10) + 4])
    IN  text[n]

\* A number in a tag or a name.
Dotted(n) ==
    LET text[i \in 1..Len(n)] ==
            IF i = 1 THEN Decimal(n[1]) ELSE text[i - 1] \o <<".">> \o Decimal(n[i])
    IN  text[Len(n)]

\* How portage orders numbers.
Older(m, n) ==
    \E k \in 0..Len(m) :
        /\ k < Len(n)
        /\ SubSeq(m, 1, k) = SubSeq(n, 1, k)
        /\ k < Len(m) => m[k + 1] < n[k + 1]

\* The segments of a release's tag, which may have slashes.
Tag(release) ==
    Append(release.folders, release.prefix \o Dotted(release.number) \o release.suffix)

---------------------------------------------------------------------------

Init ==
    /\ pn \in PackageName
    /\ \E v \in {Dotted(n) : n \in Number} \cup OddVersion, r \in Revision :
           name = Ebuild(v, r)
    /\ history \in Histories
    /\ published = 0
    /\ stage = "idle"
    /\ parsed = NotParsed
    /\ fetched = <<>>
    /\ new_name = <<>>

\* Upstream publishes its next release.
Publishes ==
    /\ published < Len(history)
    /\ published' = published + 1
    /\ UNCHANGED <<pn, name, history, stage, parsed, fetched, new_name>>

\* get_ebuild_info: a name with a version in its package is invalid.
Parses ==
    /\ stage = "idle"
    /\ parsed' = parse_ebuild_name(name)
    /\ stage' = IF parsed' # NotParsed /\ parsed'.pn_inval = <<>> THEN "fetching" ELSE "failed"
    /\ fetched' = <<>> /\ new_name' = <<>>
    /\ UNCHANGED <<pn, name, history, published>>

\* The fifth segment of /<workspace>/<repo>/releases/tag/<tag>.
FifthSegment(release) == Head(Tag(release))

\* Mutant: the loop over the entries does not break.
OldestRelease == history[1]

\* The first entry of the feed.
LatestRelease == history[published]

\* github_fetch_version: a feed need not have an entry; a tag without a version is
\* an error.
Fetches ==
    /\ stage = "fetching"
    /\ fetched' = IF published = 0 THEN <<>>
                  ELSE tag_to_portage_version(FifthSegment(LatestRelease))
    /\ stage' = IF published > 0 /\ fetched' = <<>> THEN "failed" ELSE "comparing"
    /\ UNCHANGED <<pn, name, history, published, parsed, new_name>>

\* Mutant: any other version is a new one.
IsChangedIfOther(ver, new) == ver # new

\* is_changed
IsChanged(ver, new) == Less(ver, new)

\* logic_per_ebuild: only a version that is less is changed.
Compares ==
    /\ stage = "comparing"
    /\ stage' = IF IsChanged(parsed.ver, fetched) THEN "changing" ELSE "idle"
    /\ UNCHANGED <<pn, name, history, published, parsed, fetched, new_name>>

\* apply_change renames the file, on a branch of its own,
Renames ==
    /\ stage = "changing"
    /\ new_name' = Replaced(name, parsed.ver, fetched)
    /\ stage' = "renamed"
    /\ UNCHANGED <<pn, name, history, published, parsed, fetched>>

\* Mutant: the result of ebuild_manifest_update is ignored.
AppliesAnyway ==
    /\ stage = "renamed"
    /\ name' = new_name
    /\ stage' = "idle"
    /\ UNCHANGED <<pn, history, published, parsed, fetched, new_name>>

\* and makes the manifest, which ebuild does only of a file that is an ebuild;
\* the branch is merged before the next run.
Applies ==
    /\ stage = "renamed"
    /\ Versioned(new_name) # <<>>
    /\ name' = new_name
    /\ stage' = "idle"
    /\ UNCHANGED <<pn, history, published, parsed, fetched, new_name>>

\* There is no manifest, since the file is no ebuild or for another reason:
\* nothing is merged.
ApplyFails ==
    /\ stage = "renamed"
    /\ stage' = "idle"
    /\ UNCHANGED <<pn, name, history, published, parsed, fetched, new_name>>

\* An error is logged, and the run goes on with other ebuilds.
Fails ==
    /\ stage = "failed"
    /\ stage' = "idle"
    /\ UNCHANGED <<pn, name, history, published, parsed, fetched, new_name>>

Run == Parses \/ Fetches \/ Compares \/ Renames \/ Applies \/ ApplyFails \/ Fails

Next == Publishes \/ Run

Spec == Init /\ [][Next]_vars

\* Upstream goes on, gyou is run again and again (WF_vars(Run): a step of Run is
\* always enabled, and only they change the stage), and not every manifest fails.
FairSpec ==
    Spec /\ WF_vars(Publishes) /\ []<><<stage' # stage>>_vars /\ SF_vars(Applies)

---------------------------------------------------------------------------
(* Properties.                                                             *)

TypeOK ==
    /\ pn \in PackageName
    /\ Versioned(name) # <<>>
    /\ history \in Histories
    /\ published \in 0..Len(history)
    /\ stage \in {"idle", "fetching", "comparing", "changing", "renamed", "failed"}
    /\ parsed.ver = <<>> \/ IsVersion(parsed.ver)
    /\ fetched = <<>> \/ fetched[1] \in Digit

\* A package's name has what could be a revision.
HasRevision(n) == \E p \in DOMAIN n : RevisionEnd(n, p) > p

EndsInAWord(n) == n[Len(n)] \in WordChar

\* A name that is not refused gives the version and the revision portage reads in
\* it, although any part of it may look like a version and the last match decides;
\* a package like a-1++ is read wrongly, and so is the revision of one like a-1-r2b.
VersionIsReadLikePortage ==
    stage \in {"fetching", "comparing", "changing", "renamed"} /\ EndsInAWord(pn) =>
        /\ parsed.ver = PortageVersion(name)
        /\ ~HasRevision(pn) =>
              PortageRevision(name) =
                  IF parsed.rev = <<>> THEN <<>> ELSE <<"-", "r">> \o parsed.rev

\* A tag without folders and with nothing behind its number; a digit before the
\* number is in the name of a package.
Plain(release) ==
    /\ release.folders = <<>> /\ release.suffix = <<>>
    /\ \/ \A i \in DOMAIN release.prefix : release.prefix[i] \notin Digit
       \/ LET hyphens == Hyphens(Append(release.prefix, "0"), 1)
          IN  hyphens # {} /\ Len(release.prefix) = Min(hyphens)

\* From such tags only their numbers are fetched: a name before the number is
\* neither taken for a version nor for its suffix.
PlainTagGivesItsNumber ==
    (\A i \in 1..published : Plain(history[i])) /\ stage \in {"comparing", "changing", "renamed"} =>
        \/ fetched = <<>>
        \/ \E i \in 1..published : fetched = Dotted(history[i].number)

SameShape(m, n) ==
    /\ Len(m) = Len(n)
    /\ \A i \in DOMAIN m : Len(Decimal(m[i])) = Len(Decimal(n[i]))

\* As long as all numbers have as many digits, comparing them as strings never
\* downgrades an ebuild, whatever order the releases are published in.
UpdatesAreUpgrades ==
    [][name' # name =>
          \A m, n \in Number :
              PortageVersion(name) = Dotted(m) /\ PortageVersion(name') = Dotted(n) /\ SameShape(m, n)
              => Older(m, n)]_vars

\* The version is replaced wherever the name of the file has its text, but what
\* gets a manifest is the same package with the version that was fetched; its
\* revision changes only if it has the text, too.
MergedIsFetched ==
    [][name' # name =>
          /\ PortageVersion(name) = parsed.ver
          /\ PortageVersion(name') = fetched
          /\ \/ PortageRevision(name') = PortageRevision(name)
             \/ Occurs(PortageRevision(name), parsed.ver)]_vars

\* The text of every version occurs only once in the name.
Distinct(v) == \A w \in v : ~Occurs(pn, w) /\ ~Occurs(PortageRevision(name), w)

\* The releases are plain and as published get newer, digits do not get more,
\* and the ebuild has such a version itself.
Regular ==
    /\ \A i \in DOMAIN history : Plain(history[i])
    /\ \E m \in Number :
          LET Numbers == {m} \cup {history[i].number : i \in DOMAIN history}
          IN  /\ PortageVersion(name) = Dotted(m)
              /\ \A n \in Numbers : SameShape(m, n)
              /\ \A i \in DOMAIN history :
                    Older(IF i = 1 THEN m ELSE history[i - 1].number, history[i].number)
              /\ Distinct({Dotted(n) : n \in Numbers})

\* Then a package whose name is neither refused nor read wrongly gets its last
\* release, if gyou is run often enough.
Converges ==
    Regular /\ EndsInAWord(pn) /\ parse_ebuild_name(name).pn_inval = <<>> =>
        <>[](PortageVersion(name) = Dotted(history[Len(history)].number))

\* What the log says of a change: "New version!!!", of portage's versions.
NewVersionIsNewer ==
    [][\A m, n \in Number :
          stage' = "changing" /\ parsed.ver = Dotted(m) /\ fetched = Dotted(n)
          => Older(m, n)]_vars

=============================================================================
