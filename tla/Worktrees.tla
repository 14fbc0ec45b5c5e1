----------------------------- MODULE Worktrees -----------------------------
(***************************************************************************)
(* The second half of chief_logic: the proposed changes are grouped by     *)
(* groups-ci.json, each group (and each change outside every group) gets a *)
(* branch and a git worktree of its own, and the changes of a group are    *)
(* applied in its worktree side by side, all in one nursery.  The branches *)
(* and worktrees stay when the program ends and the next run meets them.   *)
(*                                                                         *)
(* A unit is what one call of worktree_create_change_and_pr works on; it   *)
(* is named by its leader, the change that names its folder and branch.    *)
(* Between two co_awaits a coroutine runs alone (one io_context thread).   *)
(***************************************************************************)
EXTENDS Naturals, Sequences, FiniteSets

CONSTANTS
    Ebuild,       \* the ebuilds of the repository
    Package,      \* <category>/<package>
    PackageOf,    \* the package of an ebuild
    Stem,         \* an ebuild's path without its version or date
    Current,      \* its version or date
    Version,      \* versions and dates
    HasDate,      \* the ebuilds whose change is an EditCommit
    Tracked,      \* the ebuilds main_branch_name has, so that git checks out
    Size,         \* how long their files are there
    CommitSize,   \* how long a commit is
    Copies,       \* what path_to_repo may have of an ebuild when it is read
    Proposals,    \* the sets of InfoForDiff a scan may end with
    GroupsFiles,  \* the contents groups-ci.json may have
    MaxRuns,      \* bound: how often the program is run
    None          \* no leader, no owner, no file

ASSUME RepositoryAssumption ==
    /\ PackageOf \in [Ebuild -> Package]
    /\ Current \in [Ebuild -> Version]
    /\ \A e, f \in Ebuild : Stem[e] = Stem[f] => PackageOf[e] = PackageOf[f]
    /\ \A e, f \in Ebuild :
          Stem[e] = Stem[f] /\ Current[e] = Current[f] => e = f
    /\ Tracked \subseteq Ebuild
    /\ None \notin Ebuild
    /\ Size \in [Ebuild -> Nat]

\* The text of an ebuild in path_to_repo: how long it is, and whether it still
\* has (once) the commit that the scan found in it.  It is what is checked out
\* there, of any branch and with its owner's edits, not what main_branch_name has.
ASSUME CopiesAssumption ==
    /\ CommitSize \in Nat
    /\ Copies \subseteq [size : Nat, pinned : BOOLEAN]
    /\ \A c \in Copies : c.pinned => c.size >= CommitSize

InfoForDiff == [ebuild : Ebuild, new_ver : Version, new_commit : {"sha", ""}]

ASSUME ProposalsAssumption ==
    \A t \in Proposals :
        /\ t \subseteq InfoForDiff
        /\ \A c, d \in t : c.ebuild = d.ebuild => c = d
        /\ \A d \in t : d.new_ver # Current[d.ebuild]

ASSUME GroupsAssumption == GroupsFiles \subseteq Seq(SUBSET Package)

ASSUME RunsAssumption == MaxRuns \in Nat

VARIABLES
    run,          \* which run of the program this is
    apply,        \* the nursery of worktrees and changes
    todo,         \* changes.what_to_change
    groups,       \* groups-ci.json as parsed
    leader,       \* the unit an ebuild's change belongs to
    unit,         \* where each unit's coroutine is, and the git it waits for
    change,       \* where the coroutine of each change is (apply_change)
    copy,         \* the text it has read, if it is an EditCommit
    return_code,  \* chief_logic's std::optional<ReturnCode>
    apply_error,  \* the exception the nursery holds for its join
    refs,         \* branches ci_update/... that exist in the repository
    worktree      \* the worktrees that exist: who made one, and its ebuilds

volatile == <<apply, todo, groups, leader, unit, change, copy, return_code,
              apply_error>>
persistent == <<refs, worktree>>

vars == <<run, volatile, persistent>>

\* temp_folder_worktrees / (prefix + cat_pn); a branch has the same two parts.
Folder == Nat \X Package

Name == {<<Stem[e], v>> : e \in Ebuild, v \in Version}

\* A file holds the text of one ebuild: as on the main branch; the copy that was
\* read, with its commit replaced or without one to replace; or the beginning
\* of such a text and the end of the one it is written over.
Text == {"main", "edited", "unedited", "torn"}
Content == [ebuild : Ebuild, text : Text, size : Nat]

Exception == {"OmegaException", "std::exception"}

GitRuns == {"git", "branched", "populated", "refused"}

UnitAwaiting == {"started"} \cup GitRuns

ChangeAwaiting == {"started", "reading", "writing", "manifest"}

Ended == {"done", "failed", "threw", "cancelled"}

ApplyClosed == {"joined", "interrupted", "threw", "crashed"}

---------------------------------------------------------------------------
(* Grouping.                                                               *)

\* parse_groups numbers the groups from 1 and insert_or_assigns, so that the
\* last group naming a package has it; 0 is no group.
GroupOf(file, p) ==
    LET IsLast(n) ==
            p \in file[n] /\ \A m \in DOMAIN file : m > n => p \notin file[m]
    IN  IF \E n \in DOMAIN file : IsLast(n)
        THEN CHOOSE n \in DOMAIN file : IsLast(n)
        ELSE 0

\* group_to_change.equal_range(n).
Members(t, file, n) ==
    {e \in {d.ebuild : d \in t} : GroupOf(file, PackageOf[e]) = n}

FolderOf(l) == <<GroupOf(groups, PackageOf[l]), PackageOf[l]>>

Diff(e) == CHOOSE d \in todo : d.ebuild = e

OldPath(e) == <<Stem[e], Current[e]>>
NewPath(e) == <<Stem[e], Diff(e).new_ver>>

---------------------------------------------------------------------------

Init ==
    /\ run = 1
    /\ apply = "idle"
    /\ todo = {}
    /\ groups = <<>>
    /\ leader = [e \in Ebuild |-> None]
    /\ unit = [e \in Ebuild |-> "absent"]
    /\ change = [e \in Ebuild |-> "absent"]
    /\ copy = [e \in Ebuild |-> None]
    /\ return_code = "none"
    /\ apply_error = "none"
    /\ refs = {}
    /\ worktree = <<>>

\* The next run of the program; what git holds is still there.
Restart ==
    /\ apply \in ApplyClosed
    /\ run < MaxRuns
    /\ run' = run + 1
    /\ apply' = "idle"
    /\ todo' = {}
    /\ groups' = <<>>
    /\ leader' = [e \in Ebuild |-> None]
    /\ unit' = [e \in Ebuild |-> "absent"]
    /\ change' = [e \in Ebuild |-> "absent"]
    /\ copy' = [e \in Ebuild |-> None]
    /\ return_code' = "none"
    /\ apply_error' = "none"
    /\ UNCHANGED persistent

\* The two loops that start one coroutine per unit; no co_await in between.
\* The order within equal_range is the container's: any member may be first.
Begin(t, file) ==
    /\ apply = "idle"
    /\ \A n \in DOMAIN file : Members(t, file, n) # {}
    /\ apply' = "open"
    /\ todo' = t
    /\ groups' = file
    /\ \E first \in [DOMAIN file -> Ebuild] :
          /\ \A n \in DOMAIN file : first[n] \in Members(t, file, n)
          /\ leader' = [e \in Ebuild |->
                IF e \notin {d.ebuild : d \in t} THEN None
                ELSE IF GroupOf(file, PackageOf[e]) = 0 THEN e
                ELSE first[GroupOf(file, PackageOf[e])]]
    /\ unit' = [e \in Ebuild |-> IF leader'[e] = e THEN "started" ELSE "absent"]
    /\ UNCHANGED <<run, change, copy, return_code, apply_error, persistent>>

\* A group without a change: the end iterator of equal_range is dereferenced.
BeginCrashes(t, file) ==
    /\ apply = "idle"
    /\ \E n \in DOMAIN file : Members(t, file, n) = {}
    /\ apply' = "crashed"
    /\ UNCHANGED <<run, todo, groups, leader, copy, unit, change, return_code,
                   apply_error, persistent>>

---------------------------------------------------------------------------
(* How a coroutine ends early.                                             *)

\* An exception: the nursery keeps the first and cancels the siblings.
NurseryCatches(exception) ==
    /\ apply' = IF apply = "interrupting" THEN apply ELSE "cancelling"
    /\ apply_error' = IF apply_error = "none" THEN exception ELSE apply_error
    /\ UNCHANGED return_code

\* An error: return_code is set (the last one wins), nursery.cancel().
NurseryIsCancelled(code) ==
    /\ apply' = IF apply = "interrupting" THEN apply ELSE "cancelling"
    /\ return_code' = code
    /\ UNCHANGED apply_error

Undisturbed == UNCHANGED <<apply, return_code, apply_error>>

---------------------------------------------------------------------------
(* A unit: git worktree add -b ci_update/... <folder> <main_branch_name>.  *)

SetUnit(l, state) == unit' = [unit EXCEPT ![l] = state]

\* git is launched, or boost::process throws.
LaunchesGit(l) ==
    /\ unit[l] = "started"
    /\ \/ SetUnit(l, "git") /\ Undisturbed
       \/ SetUnit(l, "threw") /\ NurseryCatches("std::exception")
    /\ UNCHANGED <<run, todo, groups, leader, copy, change, persistent>>

\* Mutant: git checks out a branch that it does not make.
ChecksOutWithoutBranch(l) ==
    /\ unit[l] = "git"
    /\ SetUnit(l, "branched")
    /\ UNCHANGED <<run, apply, todo, groups, leader, copy, change, return_code,
                   apply_error, persistent>>

\* git makes the branch first ...
GitBranches(l) ==
    /\ unit[l] = "git"
    /\ FolderOf(l) \notin refs
    /\ refs' = refs \cup {FolderOf(l)}
    /\ SetUnit(l, "branched")
    /\ UNCHANGED <<run, apply, todo, groups, leader, copy, change, return_code,
                   apply_error, worktree>>

MainFile(e) == [ebuild |-> e, text |-> "main", size |-> Size[e]]

Checkout == [n \in {OldPath(e) : e \in Tracked} |->
                MainFile(CHOOSE e \in Tracked : OldPath(e) = n)]

\* ... then the folder, and checks the main branch out into it.
GitPopulates(l) ==
    /\ unit[l] = "branched"
    /\ FolderOf(l) \notin DOMAIN worktree
    /\ worktree' =
          [f \in DOMAIN worktree \cup {FolderOf(l)} |->
              IF f = FolderOf(l)
              THEN [run |-> run, unit |-> l, files |-> Checkout]
              ELSE worktree[f]]
    /\ SetUnit(l, "populated")
    /\ UNCHANGED <<run, apply, todo, groups, leader, copy, change, return_code,
                   apply_error, refs>>

\* A branch or folder of that name exists, or any other trouble; a branch that
\* was made stays.
GitRefuses(l) ==
    /\ unit[l] \in {"git", "branched"}
    /\ SetUnit(l, "refused")
    /\ UNCHANGED <<run, apply, todo, groups, leader, copy, change, return_code,
                   apply_error, persistent>>

\* Mutant: a worktree that is already there is used.
ReusesWorktree(l) ==
    /\ \/ unit[l] = "populated"
       \/ unit[l] = "refused" /\ FolderOf(l) \in DOMAIN worktree
    /\ SetUnit(l, "done")
    /\ change' = [e \in Ebuild |->
                     IF leader[e] = l THEN "started" ELSE change[e]]
    /\ Undisturbed
    /\ UNCHANGED <<run, todo, groups, leader, copy, persistent>>

\* git has exited with 0: one coroutine per change of the unit is started.
StartsChanges(l) ==
    /\ unit[l] = "populated"
    /\ SetUnit(l, "done")
    /\ change' = [e \in Ebuild |->
                     IF leader[e] = l THEN "started" ELSE change[e]]
    /\ Undisturbed
    /\ UNCHANGED <<run, todo, groups, leader, copy, persistent>>

\* git has exited with another status.
UnitFails(l) ==
    /\ unit[l] = "refused"
    /\ SetUnit(l, "failed")
    /\ NurseryIsCancelled("FailedMakingGitToMakeWorktrees")
    /\ UNCHANGED <<run, todo, groups, leader, copy, change, persistent>>

---------------------------------------------------------------------------
(* A change: apply_change in the folder of its unit.                       *)

Place(e) == FolderOf(leader[e])
Files(e) == worktree[Place(e)].files

SetChange(e, state) == change' = [change EXCEPT ![e] = state]
SetFiles(e, new) == worktree' = [worktree EXCEPT ![Place(e)].files = new]

\* Mutant: return_code is not set.
ChangeFailsSilently(e) ==
    /\ SetChange(e, "failed")
    /\ NurseryIsCancelled(return_code)

ChangeFails(e) ==
    /\ SetChange(e, "failed")
    /\ NurseryIsCancelled("FailedApplyChange")

ChangeThrows(e, exception) ==
    /\ SetChange(e, "threw")
    /\ NurseryCatches(exception)

\* Mutant: the file is copied.
Copied(e, file) ==
    [n \in DOMAIN Files(e) \cup {NewPath(e)} |->
        IF n = NewPath(e) THEN file ELSE Files(e)[n]]

\* Mutant: the update replaces every version of the package.
RenamedAlone(e, file) ==
    [n \in {m \in DOMAIN Files(e) : m[1] # Stem[e]} \cup {NewPath(e)} |->
        IF n = NewPath(e) THEN file ELSE Files(e)[n]]

\* std::filesystem::rename replaces a file that has the new name.
Renamed(e, file) ==
    [n \in (DOMAIN Files(e) \ {OldPath(e)}) \cup {NewPath(e)} |->
        IF n = NewPath(e) THEN file ELSE Files(e)[n]]

Renames(e, file) ==
    /\ OldPath(e) \in DOMAIN Files(e)
    /\ SetFiles(e, Renamed(e, file))

\* EditVerOrTag: rename, then `ebuild ... manifest` is launched: its folders
\* cannot be made, or boost::process throws.
RenamesByVersion(e) ==
    /\ change[e] = "started"
    /\ e \notin HasDate
    /\ \/ /\ Renames(e, Files(e)[OldPath(e)])
          /\ \/ SetChange(e, "manifest") /\ Undisturbed
             \/ ChangeFails(e)
             \/ ChangeThrows(e, "std::exception")
       \/ ChangeFails(e) /\ UNCHANGED worktree
    /\ UNCHANGED <<run, todo, groups, leader, copy, unit, refs>>

\* `ebuild ... manifest` exits.
ManifestExits(e) ==
    /\ change[e] = "manifest"
    /\ \/ SetChange(e, "done") /\ Undisturbed
       \/ ChangeFails(e)
    /\ UNCHANGED <<run, todo, groups, leader, copy, unit, persistent>>

\* EditCommit: the ebuild in path_to_repo is opened to be read.  It may be gone,
\* or opening it may throw.
ReadsEbuild(e) ==
    /\ change[e] = "started"
    /\ e \in HasDate
    /\ \/ SetChange(e, "reading") /\ Undisturbed
       \/ \E x \in Exception : ChangeThrows(e, x)
    /\ UNCHANGED <<run, todo, groups, leader, copy, unit, persistent>>

\* The text has been read and the commit replaced in it; the file in the worktree
\* must exist, and is opened to be written over.  It is not truncated.
WritesEbuild(e) ==
    /\ change[e] = "reading"
    /\ \/ /\ OldPath(e) \in DOMAIN Files(e)
          /\ \E c \in Copies : copy' = [copy EXCEPT ![e] = c]
          /\ SetFiles(e, [Files(e) EXCEPT ![OldPath(e)] =
                             [ebuild |-> e, text |-> "torn", size |-> @.size]])
          /\ SetChange(e, "writing")
          /\ Undisturbed
       \/ /\ OldPath(e) \notin DOMAIN Files(e)
          /\ ChangeThrows(e, "OmegaException")
          /\ UNCHANGED <<copy, worktree>>
       \/ ChangeThrows(e, "std::exception") /\ UNCHANGED <<copy, worktree>>
       \/ ChangeFails(e) /\ UNCHANGED <<copy, worktree>>
    /\ UNCHANGED <<run, todo, groups, leader, unit, refs>>

\* editted_ebuild_content: one commit is as long as another, but an empty one
\* shortens the text.
EdittedSize(e) ==
    IF copy[e].pinned /\ Diff(e).new_commit = ""
    THEN copy[e].size - CommitSize
    ELSE copy[e].size

EdittedText(e) == IF copy[e].pinned THEN "edited" ELSE "unedited"

\* What a file is when all of that text has been put over it: a longer file
\* keeps its end.
Overwritten(e, file) ==
    IF EdittedSize(e) < file.size
    THEN [ebuild |-> e, text |-> "torn", size |-> file.size]
    ELSE [ebuild |-> e, text |-> EdittedText(e), size |-> EdittedSize(e)]

\* The file that is renamed.  It may be another one than was opened, if a sibling
\* has been renamed onto it meanwhile; the text went into the file replaced then.
Written(e) ==
    LET file == Files(e)[OldPath(e)]
    IN  IF file.ebuild = e THEN Overwritten(e, file) ELSE file

\* The text is written and its file renamed to the new date.
RenamesByDate(e) ==
    /\ change[e] = "writing"
    /\ \/ /\ Renames(e, Written(e))
          /\ SetChange(e, "done")
          /\ Undisturbed
       \/ ChangeFails(e) /\ UNCHANGED worktree
    /\ UNCHANGED <<run, todo, groups, leader, copy, unit, refs>>

---------------------------------------------------------------------------
(* The nursery.                                                            *)

Cancelling == apply \in {"cancelling", "interrupting"}

\* A cancelled coroutine is destroyed at its await, and its git with it.
UnwindsUnit(l) ==
    /\ Cancelling
    /\ unit[l] \in UnitAwaiting
    /\ SetUnit(l, "cancelled")
    /\ UNCHANGED <<run, apply, todo, groups, leader, copy, change, return_code,
                   apply_error, persistent>>

UnwindsChange(e) ==
    /\ Cancelling
    /\ change[e] \in ChangeAwaiting
    /\ SetChange(e, "cancelled")
    /\ UNCHANGED <<run, apply, todo, groups, leader, copy, unit, return_code,
                   apply_error, persistent>>

\* SIGINT or SIGTERM.
Interrupt ==
    /\ apply \in {"open", "cancelling"}
    /\ apply' = "interrupting"
    /\ UNCHANGED <<run, todo, groups, leader, copy, unit, change, return_code,
                   apply_error, persistent>>

NoneAwaits ==
    \A e \in Ebuild : unit[e] \notin UnitAwaiting /\ change[e] \notin ChangeAwaiting

Completes == \A e \in Ebuild : {unit[e], change[e]} \subseteq {"absent", "done"}

\* return_code holds an error of this nursery.
ApplyFailed ==
    return_code \in {"FailedMakingGitToMakeWorktrees", "FailedApplyChange"}

\* Mutant: a nursery that was cancelled from within is not joined.
JoinApplyIfNotCancelled ==
    /\ apply \in {"open", "interrupting"}
    /\ NoneAwaits
    /\ apply' = IF apply_error # "none" THEN "threw"
                ELSE IF apply = "open" THEN "joined" ELSE "interrupted"
    /\ UNCHANGED <<run, todo, groups, leader, copy, unit, change, return_code,
                   apply_error, persistent>>

\* co_return corral::join.  A nursery that was cancelled from within joins like
\* one that was not; an interruption may come too late to stop anything.
JoinApply ==
    /\ apply \in {"open", "cancelling", "interrupting"}
    /\ NoneAwaits
    /\ \/ apply_error # "none" /\ apply' = "threw"
       \/ /\ apply_error = "none"
          /\ apply = "interrupting" => Completes \/ ApplyFailed
          /\ apply' = "joined"
       \/ /\ apply_error = "none"
          /\ apply = "interrupting"
          /\ apply' = "interrupted"
    /\ UNCHANGED <<run, todo, groups, leader, copy, unit, change, return_code,
                   apply_error, persistent>>

UnitStep(l) ==
    \/ LaunchesGit(l)
    \/ GitBranches(l)
    \/ GitPopulates(l)
    \/ GitRefuses(l)
    \/ StartsChanges(l)
    \/ UnitFails(l)
    \/ UnwindsUnit(l)

ChangeStep(e) ==
    \/ RenamesByVersion(e)
    \/ ManifestExits(e)
    \/ ReadsEbuild(e)
    \/ WritesEbuild(e)
    \/ RenamesByDate(e)
    \/ UnwindsChange(e)

\* What the program does once the changes and the groups are there.
NurseryStep ==
    \/ \E e \in Ebuild : UnitStep(e) \/ ChangeStep(e)
    \/ JoinApply

AllRunsOver ==
    /\ apply \in ApplyClosed
    /\ run = MaxRuns
    /\ UNCHANGED vars

Next ==
    \/ \E t \in Proposals, file \in GroupsFiles :
          Begin(t, file) \/ BeginCrashes(t, file)
    \/ NurseryStep
    \/ Interrupt
    \/ Restart
    \/ AllRunsOver

\* Every ready coroutine runs; git and ebuild are assumed to end.
Fairness ==
    /\ \A e \in Ebuild : WF_vars(UnitStep(e)) /\ WF_vars(ChangeStep(e))
    /\ WF_vars(JoinApply)

Spec == Init /\ [][Next]_vars /\ Fairness

---------------------------------------------------------------------------
(* Properties.                                                             *)

ReturnCode ==
    {"none", "FailedGitFetch", "FailedMakingGitToMakeWorktrees",
     "FailedApplyChange"}

IsFiles(t) ==
    /\ t = [n \in DOMAIN t |-> t[n]]
    /\ \A n \in DOMAIN t : n \in Name /\ t[n] \in Content

IsWorktree(w) ==
    /\ w = [run |-> w.run, unit |-> w.unit, files |-> w.files]
    /\ w.run \in 1..run
    /\ w.unit \in Ebuild
    /\ IsFiles(w.files)

TypeOK ==
    /\ run \in Nat \ {0}
    /\ apply \in {"idle", "open", "cancelling", "interrupting"} \cup ApplyClosed
    /\ todo \subseteq InfoForDiff
    /\ groups \in Seq(SUBSET Package)
    /\ leader \in [Ebuild -> Ebuild \cup {None}]
    /\ unit \in [Ebuild -> {"absent"} \cup UnitAwaiting \cup Ended]
    /\ change \in [Ebuild -> {"absent"} \cup ChangeAwaiting \cup Ended]
    /\ copy \in [Ebuild -> Copies \cup {None}]
    /\ return_code \in ReturnCode
    /\ apply_error \in Exception \cup {"none"}
    /\ refs \subseteq Folder
    /\ DOMAIN worktree \subseteq refs
    /\ worktree = [f \in DOMAIN worktree |-> worktree[f]]
    /\ \A f \in DOMAIN worktree : IsWorktree(worktree[f])

\* The change of an ebuild is applied only in a worktree that its own unit made
\* in this run: never in the worktree of another unit whose folder has the same
\* name, and never in one an earlier run left behind.
ExclusiveWorktree ==
    \A e \in Ebuild :
        change[e] # "absent" =>
            /\ leader[e] # None
            /\ unit[leader[e]] = "done"
            /\ Place(e) \in DOMAIN worktree
            /\ worktree[Place(e)].run = run
            /\ worktree[Place(e)].unit = leader[e]

\* What an earlier run left in its worktrees is never changed by a later one.
EarlierRunsKept ==
    [][\A f \in DOMAIN worktree :
          /\ f \in DOMAIN worktree'
          /\ worktree[f].run # run => worktree'[f] = worktree[f]]_vars

\* When the nursery joins, chief_logic's return_code is empty exactly when
\* every unit got its worktree and every change in it was applied.
FailureReported ==
    apply = "joined" =>
        (ApplyFailed <=> ~Completes)

\* Two changes of a unit touch the same file name.
Clashes(e) ==
    \E f \in {d.ebuild : d \in todo} \ {e} :
        /\ leader[f] = leader[e]
        /\ {OldPath(f), NewPath(f)} \cap {OldPath(e), NewPath(e)} # {}

\* A run that reports no failure leaves each proposed change in its worktree,
\* under the new name and only there.  A dated ebuild has the copy that was read
\* with its commit replaced, exactly if there was one to replace and what was
\* written is not shorter than the main branch's file under it; any other ebuild
\* is as on the main branch.  (Changes that touch the same file name overwrite
\* each other.)
SuccessMeansApplied ==
    apply = "joined" /\ return_code = "none" =>
        \A d \in todo :
            LET e == d.ebuild
                file == Files(e)[NewPath(e)]
                lost == IF d.new_commit = "" THEN CommitSize ELSE 0
            IN  /\ change[e] = "done"
                /\ ~Clashes(e) =>
                      /\ OldPath(e) \notin DOMAIN Files(e)
                      /\ NewPath(e) \in DOMAIN Files(e)
                      /\ file.ebuild = e
                      /\ IF e \in HasDate
                         THEN file.text = "edited" <=>
                                 copy[e].pinned /\ copy[e].size >= Size[e] + lost
                         ELSE file.text = "main"

\* A worktree of this run still has every other ebuild of the main branch as it
\* was, unless a change of its unit was renamed onto it.
OthersUntouched ==
    \A f \in DOMAIN worktree :
        worktree[f].run = run =>
            \A e \in Tracked :
                \/ leader[e] = worktree[f].unit
                \/ /\ OldPath(e) \in DOMAIN worktree[f].files
                   /\ worktree[f].files[OldPath(e)] = MainFile(e)
                \/ \E d \in todo :
                      /\ leader[d.ebuild] = worktree[f].unit
                      /\ NewPath(d.ebuild) = OldPath(e)

\* apply_change, "change commit in ebuild" ... "Presumably successfully applied
\* change to the ebuild": after a run without a failure, an ebuild whose text had
\* the old commit has the new one in that text.
NewCommitIsInPlace ==
    apply = "joined" /\ return_code = "none" =>
        \A d \in todo :
            LET e == d.ebuild
            IN  /\ e \in HasDate /\ d.new_commit # ""
                /\ copy[e].pinned
                /\ ~Clashes(e)
                => Files(e)[NewPath(e)].text = "edited"

\* The nursery ends, whatever fails in it.
ApplyEnds == apply = "open" ~> apply \in ApplyClosed
===========================================================================
