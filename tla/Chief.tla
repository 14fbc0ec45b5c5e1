------------------------------- MODULE Chief -------------------------------
(***************************************************************************)
(* One run of the program from the command line to the exit code of main:  *)
(* what is set up before any coroutine runs, the nursery that scans the    *)
(* repository (Scan) and runs `git fetch --all --prune` beside it, the     *)
(* reading of groups-ci.json, the nursery that makes worktrees and applies *)
(* changes (Worktrees), and the exit code.  SIGINT and SIGTERM cancel      *)
(* whatever is under way (corral::anyOf).                                  *)
(***************************************************************************)
EXTENDS Naturals, Sequences, FiniteSets

CONSTANTS
    Ebuild, Service, Github, NoService, ServiceOf, HasDate, IsTag, Current,
    Published, Concurrency,                        \* of Scan
    Package, PackageOf, Stem, Tracked, Size, CommitSize, Copies, None,
                                                   \* of Worktrees
    GroupsFiles   \* what groups-ci.json may hold, besides text that is no JSON

\* What Scan and Worktrees assume of the repository and the settings.
ASSUME ChiefAssumption ==
    /\ Concurrency \in Nat \ {0}
    /\ IsFiniteSet(Ebuild)
    /\ Github \in Service
    /\ NoService \notin Service
    /\ ServiceOf \in [Ebuild -> Service \cup {NoService}]
    /\ HasDate \subseteq Ebuild
    /\ IsTag \subseteq Ebuild
    /\ Current \in [Ebuild -> Nat]
    /\ Published \subseteq Nat
    /\ PackageOf \in [Ebuild -> Package]
    /\ \A e, f \in Ebuild : Stem[e] = Stem[f] => PackageOf[e] = PackageOf[f]
    /\ \A e, f \in Ebuild :
          Stem[e] = Stem[f] /\ Current[e] = Current[f] => e = f
    /\ Tracked \subseteq Ebuild
    /\ None \notin Ebuild
    /\ Size \in [Ebuild -> Nat]
    /\ CommitSize \in Nat
    /\ Copies \subseteq [size : Nat, pinned : BOOLEAN]
    /\ \A c \in Copies : c.pinned => c.size >= CommitSize
    /\ GroupsFiles \subseteq Seq(SUBSET Package)

VARIABLES
    task, permits, changes, scan, scan_error,      \* Scan
    run, apply, todo, groups, leader, unit, change, copy, return_code,
    apply_error, refs, worktree,                   \* Worktrees
    phase,      \* which await of chief_logic the program is at
    fetch,      \* the coroutine beside the scan, and its `git fetch`
    first,      \* the nursery of both
    first_error,\* the exception that nursery holds
    exit,       \* what main returns: a ReturnCode, or none yet
    git_found,  \* there is a `git` in PATH
    in_repo,    \* the program was started in the repository of --repo-path
    remote      \* what that repository knows of its remotes: "old" or "new"

Version == {Current[e] : e \in Ebuild} \cup Published \cup {0}

S == INSTANCE Scan
W == INSTANCE Worktrees WITH Proposals <- {}, MaxRuns <- 1

\* What a scan may propose: a change of some of the ebuilds.
Upgrade(e) == {d \in W!InfoForDiff : d.ebuild = e /\ d.new_ver # Current[e]}

Upgrades ==
    UNION {{{f[e] : e \in some} :
                f \in {g \in [some -> UNION {Upgrade(e) : e \in some}] :
                          \A e \in some : g[e] \in Upgrade(e)}} :
           some \in SUBSET Ebuild}

\* Worktrees alone knows nothing of git fetch and its failure.
Alone == INSTANCE Worktrees
            WITH Proposals <- Upgrades, MaxRuns <- 1,
                 return_code <- IF return_code = "FailedGitFetch" THEN "none"
                                ELSE return_code

scanVars == <<task, permits, changes, scan, scan_error>>
applyVars == <<run, apply, todo, groups, leader, unit, change, copy,
               return_code, apply_error, refs, worktree>>
env == <<git_found, in_repo, remote>>
chiefVars == <<phase, fetch, first, first_error, exit, env>>
vars == <<scanVars, applyVars, chiefVars>>

---------------------------------------------------------------------------

Init ==
    /\ S!Init
    /\ W!Init
    /\ phase = "start"
    /\ fetch = "absent"
    /\ first = "open"
    /\ first_error = "none"
    /\ exit = "none"
    /\ git_found \in BOOLEAN
    /\ in_repo \in BOOLEAN
    /\ remote = "old"

---------------------------------------------------------------------------
(* main, before it runs a coroutine.                                       *)

\* Which catch clause of main an exception reaches.
Caught(exception) ==
    IF exception = "OmegaException" THEN "FailParsePromptResult"
    ELSE "FailStandardException"

Exits(code) == phase' = "over" /\ exit' = code

\* The command line and the path to ebuild.sh are right, and the log is open.
Starts ==
    /\ phase = "start"
    /\ phase' = "scan"
    /\ fetch' = "started"
    /\ UNCHANGED <<scanVars, applyVars, first, first_error, exit, env>>

\* CLI11 has codes of its own, for --help, too.
StartFails ==
    /\ phase = "start"
    /\ \E code \in {"CLI::App::exit", "FailSpecifiedValueIsIncorrect",
                    "FailDuringInitializationConfig", "FailInitializationLogger"} :
          Exits(code)
    /\ UNCHANGED <<scanVars, applyVars, fetch, first, first_error, env>>

---------------------------------------------------------------------------
(* The first nursery: get_what_to_change and git_fetch.                    *)

\* An exception of one coroutine is kept for the join and cancels the other.
Scans ==
    /\ phase = "scan"
    /\ \/ S!Walk
       \/ S!WalkThrows
       \/ \E e \in Ebuild : S!Step(e)
       \/ S!Join
    /\ IF scan' = "threw"
       THEN /\ first' = IF first = "open" THEN "cancelling" ELSE first
            /\ first_error' = IF first_error = "none" THEN scan_error
                              ELSE first_error
       ELSE UNCHANGED <<first, first_error>>
    /\ UNCHANGED <<applyVars, phase, fetch, exit, env>>

\* Mutant: a cancelled scan is over at once, its coroutines go on.
CancelsScanAtOnce ==
    /\ scan' = IF scan = "open" THEN "cancelled" ELSE scan
    /\ UNCHANGED <<task, permits, changes, scan_error>>

\* Cancelling the nursery reaches the nursery inside get_what_to_change, if
\* that is still there.
CancelsScan ==
    /\ scan' = IF scan = "open" THEN "cancelling" ELSE scan
    /\ UNCHANGED <<task, permits, changes, scan_error>>

\* The coroutine starts after the scan's.  Without git, or if it cannot be
\* launched, boost::process throws.
LaunchesFetch ==
    /\ phase = "scan"
    /\ fetch = "started"
    /\ scan # "idle"
    /\ \/ /\ git_found
          /\ fetch' = "git"
          /\ UNCHANGED <<scanVars, first, first_error>>
       \/ /\ fetch' = "threw"
          /\ first' = IF first = "open" THEN "cancelling" ELSE first
          /\ first_error' = IF first_error = "none" THEN "std::exception"
                            ELSE first_error
          /\ CancelsScan
    /\ UNCHANGED <<applyVars, phase, exit, env>>

\* git exits; it works in the directory the program was started in.  A failure
\* cancels the scan; chief_logic goes on all the same.
FetchExits ==
    /\ phase = "scan"
    /\ fetch = "git"
    /\ \/ /\ fetch' = "ok"
          /\ remote' = IF in_repo THEN "new" ELSE remote
          /\ UNCHANGED <<scanVars, first, return_code>>
       \/ /\ fetch' = "failed"
          /\ return_code' = "FailedGitFetch"
          /\ first' = IF first = "open" THEN "cancelling" ELSE first
          /\ CancelsScan
          /\ UNCHANGED remote
    /\ UNCHANGED <<run, apply, todo, groups, leader, unit, change, copy,
                   apply_error, refs, worktree, phase, first_error, exit,
                   git_found, in_repo>>

UnwindsFetch ==
    /\ phase = "scan"
    /\ first \in {"cancelling", "interrupting"}
    /\ fetch \in {"started", "git"}
    /\ fetch' = "cancelled"
    /\ UNCHANGED <<scanVars, applyVars, phase, first, first_error, exit, env>>

\* Mutant: the join does not wait for git fetch.
JoinScanOnly ==
    /\ phase = "scan"
    /\ scan \in S!ScanClosed
    /\ IF first_error # "none" THEN Exits(Caught(first_error))
       ELSE phase' = "groups" /\ UNCHANGED exit
    /\ UNCHANGED <<scanVars, applyVars, fetch, first, first_error, env>>

\* Mutant: an exception leaves the nursery without waiting for the scan.
JoinAtOnce ==
    /\ phase = "scan"
    /\ \/ first_error # "none" /\ Exits(Caught(first_error))
       \/ /\ first_error = "none"
          /\ scan \in S!ScanClosed
          /\ fetch \notin {"started", "git"}
          /\ phase' = "groups"
          /\ UNCHANGED exit
    /\ UNCHANGED <<scanVars, applyVars, fetch, first, first_error, env>>

\* co_return corral::join: both coroutines have ended.
JoinFirst ==
    /\ phase = "scan"
    /\ scan \in S!ScanClosed
    /\ fetch \notin {"started", "git"}
    /\ \/ first_error # "none" /\ Exits(Caught(first_error))
       \/ /\ first_error = "none"
          /\ first = "interrupting" =>
                fetch = "failed" \/ (scan = "returned" /\ fetch = "ok")
          /\ phase' = "groups"
          /\ UNCHANGED exit
       \/ /\ first_error = "none"
          /\ first = "interrupting"
          /\ Exits("ReceivedCancellationSignal")
    /\ UNCHANGED <<scanVars, applyVars, fetch, first, first_error, env>>

---------------------------------------------------------------------------
(* groups-ci.json.                                                         *)

\* Mutant: the coroutines of the scan fill chief_logic's own changes.
FoundSoFar ==
    {changes.what_to_change[i] : i \in DOMAIN changes.what_to_change}

\* The assignment to _changes happens only if get_what_to_change returned.
Found ==
    LET listed == (IF scan = "returned" THEN changes
                   ELSE S!NoChanges).what_to_change
    IN  {listed[i] : i \in DOMAIN listed}

\* file_to_string throws if there is no groups-ci.json.
GroupsFileMissing ==
    /\ phase = "groups"
    /\ Exits(Caught("OmegaException"))
    /\ UNCHANGED <<scanVars, applyVars, fetch, first, first_error, env>>

\* It cannot be opened; it cannot be read; it is no JSON list of lists; the
\* folder for worktrees cannot be made; there is no git.
GroupsFileFails ==
    /\ phase = "groups"
    /\ \E code \in {"FailStandardException", "FailedReadingGroupCiFile",
                    "FailedParsingGroupCiFile", "FailedCreateDirTmpWorktrees"}
                   \cup (IF git_found THEN {} ELSE {"FailedToFindGit"}) :
          Exits(code)
    /\ UNCHANGED <<scanVars, applyVars, fetch, first, first_error, env>>

\* The groups are known: the units of this run are started in one go.
StartsUnits ==
    /\ phase = "groups"
    /\ git_found
    /\ \E file \in GroupsFiles : W!Begin(Found, file)
    /\ phase' = "apply"
    /\ UNCHANGED <<scanVars, fetch, first, first_error, exit, env>>

\* ... or the program dies on a group that has no change.
StartingUnitsCrashes ==
    /\ phase = "groups"
    /\ git_found
    /\ \E file \in GroupsFiles : W!BeginCrashes(Found, file)
    /\ Exits("SIGSEGV")
    /\ UNCHANGED <<scanVars, fetch, first, first_error, env>>

---------------------------------------------------------------------------
(* The second nursery and the verdict.                                     *)

Applies ==
    /\ phase = "apply"
    /\ W!NurseryStep
    /\ UNCHANGED <<scanVars, chiefVars>>

\* Mutant: return_code is not looked at.
VerdictByFlags ==
    LET known == IF scan = "returned" THEN changes ELSE S!NoChanges
    IN  IF known.has_any_failed
        THEN IF known.is_any_successful THEN "PartialSuccess"
             ELSE "AllHaveFailed"
        ELSE IF known.is_any_successful THEN "Success"
        ELSE "NoEbuildFound"

\* What chief_logic returns after the second join.
Verdict ==
    LET known == IF scan = "returned" THEN changes ELSE S!NoChanges
    IN  IF return_code # "none" THEN return_code
        ELSE IF known.has_any_failed
             THEN IF known.is_any_successful THEN "PartialSuccess"
                  ELSE "AllHaveFailed"
        ELSE IF known.is_any_successful THEN "Success"
        ELSE "NoEbuildFound"

Returns ==
    /\ phase = "apply"
    /\ \/ apply = "joined" /\ Exits(Verdict)
       \/ apply = "interrupted" /\ Exits("ReceivedCancellationSignal")
       \/ apply = "threw" /\ Exits(Caught(apply_error))
    /\ UNCHANGED <<scanVars, applyVars, fetch, first, first_error, env>>

\* Mutant: a signal ends the nursery of worktrees without a join.
InterruptsAtOnce ==
    /\ phase = "apply"
    /\ apply \in {"open", "cancelling"}
    /\ apply' = "interrupted"
    /\ UNCHANGED <<scanVars, chiefVars, run, todo, groups, leader, unit, change,
                   copy, return_code, apply_error, refs, worktree>>

\* SIGINT or SIGTERM; before there is a signal_set, it kills.
Signal ==
    \/ /\ phase = "start"
       /\ Exits("killed")
       /\ UNCHANGED <<scanVars, applyVars, fetch, first, first_error, env>>
    \/ /\ phase = "scan"
       /\ scan # "idle"
       /\ first # "interrupting"
       /\ first' = "interrupting"
       /\ CancelsScan
       /\ UNCHANGED <<applyVars, phase, fetch, first_error, exit, env>>
    \/ /\ phase = "groups"
       /\ Exits("ReceivedCancellationSignal")
       /\ UNCHANGED <<scanVars, applyVars, fetch, first, first_error, env>>
    \/ /\ phase = "apply"
       /\ W!Interrupt
       /\ UNCHANGED <<scanVars, chiefVars>>

Over == phase = "over" /\ UNCHANGED vars

Next ==
    \/ Starts
    \/ StartFails
    \/ Scans
    \/ LaunchesFetch
    \/ FetchExits
    \/ UnwindsFetch
    \/ JoinFirst
    \/ GroupsFileMissing
    \/ GroupsFileFails
    \/ StartsUnits
    \/ StartingUnitsCrashes
    \/ Applies
    \/ Returns
    \/ Signal
    \/ Over

\* Some ready coroutine always runs; bash, git, ebuild and requests end.
Fairness ==
    WF_vars(\/ Starts \/ StartFails \/ Scans \/ LaunchesFetch \/ FetchExits
            \/ UnwindsFetch \/ JoinFirst \/ GroupsFileMissing \/ GroupsFileFails
            \/ StartsUnits \/ StartingUnitsCrashes \/ Applies \/ Returns)

Spec == Init /\ [][Next]_vars /\ Fairness

---------------------------------------------------------------------------
(* Properties.                                                             *)

TypeOK ==
    /\ S!TypeOK
    /\ W!TypeOK
    /\ phase \in {"start", "scan", "groups", "apply", "over"}
    /\ fetch \in {"absent", "started", "git", "ok", "failed", "threw", "cancelled"}
    /\ first \in {"open", "cancelling", "interrupting"}
    /\ first_error \in S!Exception \cup {"none"}
    /\ phase = "over" <=> exit # "none"
    /\ git_found \in BOOLEAN /\ in_repo \in BOOLEAN /\ remote \in {"old", "new"}

\* A verdict on the ebuilds (exit codes 0 to 3) is given only if git fetch
\* succeeded, every ebuild reported and every reported change was applied; and
\* it tells whether an ebuild failed and whether one was up to date.
VerdictIsHonest ==
    exit \in {"Success", "PartialSuccess", "AllHaveFailed", "NoEbuildFound"} =>
        /\ fetch = "ok"
        /\ \A e \in Ebuild :
              /\ task[e] \in S!Reported
              /\ task[e] = "change" <=> change[e] = "done"
        /\ exit \in {"PartialSuccess", "AllHaveFailed"}
              <=> \E e \in Ebuild : task[e] = "failed"
        /\ exit \in {"Success", "PartialSuccess"}
              <=> \E e \in Ebuild : task[e] = "nothing"

\* An ebuild is edited only if its own coroutine reported a change for it, to
\* the version it reported, and only once every ebuild had reported.
OnlyReportedEdits ==
    \A e \in Ebuild :
        change[e] # "absent" =>
            /\ scan = "returned"
            /\ task[e] = "change"
            /\ \E i \in DOMAIN changes.what_to_change :
                  changes.what_to_change[i] = W!Diff(e)

\* No branch is made while git fetch or the scan still runs, or without git: a
\* fetch never meets the branches of the same run.  Started in the repository
\* it works on, the program knows that repository's remotes by then; git fetch
\* runs where the program was started.
FetchBeforeBranches ==
    refs # {} =>
        /\ git_found
        /\ fetch \in {"ok", "failed"}
        /\ scan \in S!ScanClosed
        /\ in_repo /\ fetch = "ok" => remote = "new"

\* When the program returns, by whichever path, nothing it started is left: no
\* coroutine, no git, bash or ebuild, no permit.
NothingOutlivesTheProgram ==
    exit # "none" =>
        /\ fetch \notin {"started", "git"}
        /\ \A e \in Ebuild : task[e] \notin S!Awaiting
        /\ \A s \in Service : permits[s] = Concurrency
        /\ W!NoneAwaits

\* Inside the program the scan does what Scan does on its own: neither git
\* fetch, nor its failure, nor a signal makes it take another step.
ImplementsScan == S!Init /\ [][S!Next]_scanVars

\* The worktrees and changes do what Worktrees does on its own, given what a
\* scan may propose: a failed git fetch in return_code changes nothing of it.
ImplementsWorktrees == Alone!Init /\ [][Alone!Next]_(Alone!vars)

\* The program returns.
ProgramEnds == <>(exit # "none")

---------------------------------------------------------------------------
(* What names, messages and documents say of the program and it does not do.*)

\* README.md (TODO, "applying changes in groups"): groups-ci.json lists the
\* groups of packages to update together, so a list of groups is no reason for
\* the program to crash.
GroupsNeverCrash == exit # "SIGSEGV"

\* ReturnCode::NoEbuildFound: there was no ebuild.  ReturnCode::AllHaveFailed:
\* there was none that did not fail.
VerdictsMeanTheirNames ==
    /\ exit = "NoEbuildFound" => \A e \in Ebuild : task[e] = "absent"
    /\ exit = "AllHaveFailed" => \A e \in Ebuild : task[e] = "failed"

===========================================================================
