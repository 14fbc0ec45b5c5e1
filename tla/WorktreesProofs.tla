-------------------------- MODULE WorktreesProofs --------------------------
(***************************************************************************)
(* Theorems about Worktrees for every repository, every groups-ci.json and *)
(* every number of runs.  The inductive invariant ties the three layers    *)
(* together: a change that has started belongs to a unit whose git has     *)
(* succeeded, and such a unit owns the worktree of its folder in this run, *)
(* because git makes no folder that exists.                                *)
(***************************************************************************)
EXTENDS Worktrees, TLAPS

\* Only a proposed change has a unit, and a unit is its own leader's.
Linked ==
    \A e \in Ebuild :
        /\ leader[e] # None => \E d \in todo : d.ebuild = e
        /\ unit[e] # "absent" => leader[e] = e

\* A unit whose git has made the branch has that branch; one whose git has
\* succeeded owns the worktree of its folder.
Owned ==
    \A l \in Ebuild :
        /\ unit[l] = "branched" => FolderOf(l) \in refs
        /\ unit[l] \in {"populated", "done"} =>
                /\ FolderOf(l) \in DOMAIN worktree
                /\ worktree[FolderOf(l)].run = run
                /\ worktree[FolderOf(l)].unit = l

\* A change is started by its unit.
StartedByUnit ==
    \A e \in Ebuild :
        change[e] # "absent" => leader[e] # None /\ unit[leader[e]] = "done"

\* A change that writes has read what it writes.
HasRead == \A e \in Ebuild : change[e] = "writing" => copy[e] \in Copies

WorktreesInv == TypeOK /\ Linked /\ Owned /\ StartedByUnit /\ HasRead

---------------------------------------------------------------------------
(* Names and groups.                                                       *)

LEMMA GroupOfType ==
    ASSUME NEW file \in Seq(SUBSET Package), NEW p
    PROVE  GroupOf(file, p) \in Nat
BY DEF GroupOf

LEMMA FolderOfType ==
    ASSUME groups \in Seq(SUBSET Package), NEW l \in Ebuild
    PROVE  FolderOf(l) \in Folder
BY GroupOfType, RepositoryAssumption DEF FolderOf, Folder

LEMMA DiffType ==
    ASSUME TypeOK, NEW e \in Ebuild, \E d \in todo : d.ebuild = e
    PROVE  Diff(e) \in todo /\ Diff(e) \in InfoForDiff /\ Diff(e).ebuild = e
BY DEF Diff, TypeOK

LEMMA PathTypes ==
    ASSUME TypeOK, NEW e \in Ebuild
    PROVE  /\ OldPath(e) \in Name
           /\ (\E d \in todo : d.ebuild = e) => NewPath(e) \in Name
<1>1. OldPath(e) \in Name
  BY RepositoryAssumption DEF OldPath, Name
<1>2. ASSUME \E d \in todo : d.ebuild = e
      PROVE  NewPath(e) \in Name
  <2>1. Diff(e).new_ver \in Version
    BY <1>2, DiffType DEF InfoForDiff
  <2> QED
    BY <2>1 DEF NewPath, Name
<1> QED
  BY <1>1, <1>2

LEMMA MainFileType ==
    ASSUME NEW e \in Ebuild
    PROVE  MainFile(e) \in Content
BY RepositoryAssumption DEF MainFile, Content, Text

LEMMA CheckoutType == IsFiles(Checkout)
<1>1. ASSUME NEW n \in {OldPath(e) : e \in Tracked}
      PROVE  /\ n \in Name
             /\ (CHOOSE e \in Tracked : OldPath(e) = n) \in Ebuild
  BY RepositoryAssumption DEF OldPath, Name
<1>2. \A n \in DOMAIN Checkout : n \in Name /\ Checkout[n] \in Content
  BY <1>1, MainFileType DEF Checkout
<1>3. Checkout = [n \in DOMAIN Checkout |-> Checkout[n]]
  BY DEF Checkout
<1> QED
  BY <1>2, <1>3 DEF IsFiles

---------------------------------------------------------------------------
(* One coroutine moves.                                                    *)

Controlled ==
    /\ apply \in {"idle", "open", "cancelling", "interrupting"} \cup ApplyClosed
    /\ return_code \in ReturnCode
    /\ apply_error \in Exception \cup {"none"}
    /\ copy \in [Ebuild -> Copies \cup {None}]

LEMMA ControlledMoves ==
    ASSUME Controlled, copy' \in [Ebuild -> Copies \cup {None}],
           \/ Undisturbed
           \/ \E x \in Exception : NurseryCatches(x)
           \/ \E c \in {"FailedMakingGitToMakeWorktrees", "FailedApplyChange"} :
                 NurseryIsCancelled(c)
    PROVE  Controlled'
BY DEF Controlled, Undisturbed, NurseryCatches, NurseryIsCancelled,
       ReturnCode, Exception

\* A unit moves between states in which it owns no worktree yet.
LEMMA UnitMoves ==
    ASSUME WorktreesInv, Controlled', NEW l \in Ebuild, SetUnit(l, unit'[l]),
           unit[l] \in UnitAwaiting,
           unit'[l] \in (UnitAwaiting \cup Ended) \ {"populated", "done"},
           refs \subseteq refs', refs' \subseteq Folder,
           unit'[l] = "branched" => FolderOf(l) \in refs',
           UNCHANGED <<run, todo, groups, leader, change, copy, worktree>>
    PROVE  WorktreesInv'
<1> USE DEF WorktreesInv
<1>1. TypeOK'
  BY DEF TypeOK, Controlled, SetUnit, IsWorktree
<1>2. Linked'
  BY DEF Linked, SetUnit, TypeOK, UnitAwaiting, GitRuns
<1>3. Owned'
  BY DEF Owned, SetUnit, TypeOK, FolderOf
<1>4. StartedByUnit'
  BY DEF StartedByUnit, SetUnit, TypeOK, UnitAwaiting, GitRuns
<1>5. HasRead'
  BY DEF HasRead
<1> QED
  BY <1>1, <1>2, <1>3, <1>4, <1>5

\* git makes a worktree for a unit: no unit had that folder.
LEMMA GitPopulatesKeepsInv ==
    ASSUME WorktreesInv, NEW l \in Ebuild, GitPopulates(l)
    PROVE  WorktreesInv'
<1> USE DEF WorktreesInv
<1> DEFINE w == [run |-> run, unit |-> l, files |-> Checkout]
<1>1. /\ worktree' = [f \in DOMAIN worktree \cup {FolderOf(l)} |->
                         IF f = FolderOf(l) THEN w ELSE worktree[f]]
      /\ FolderOf(l) \notin DOMAIN worktree
      /\ FolderOf(l) \in refs
      /\ unit[l] = "branched"
      /\ unit' = [unit EXCEPT ![l] = "populated"]
  BY DEF GitPopulates, SetUnit, Owned
<1>2. /\ DOMAIN worktree' = DOMAIN worktree \cup {FolderOf(l)}
      /\ worktree'[FolderOf(l)] = w
      /\ \A f \in DOMAIN worktree : worktree'[f] = worktree[f]
      /\ worktree' = [f \in DOMAIN worktree' |-> worktree'[f]]
  BY <1>1
<1>3. \A m : FolderOf(m)' = FolderOf(m)
  BY DEF GitPopulates, FolderOf
<1>4. (\A f \in DOMAIN worktree : IsWorktree(worktree[f]))'
  <2>1. run' = run /\ run \in 1..run
    <3>1. run \in Nat \ {0}
      BY DEF TypeOK
    <3> QED
      BY <3>1 DEF GitPopulates
  <2>2. IsWorktree(w)
    BY <2>1, CheckoutType DEF IsWorktree
  <2>3. \A f \in DOMAIN worktree' : IsWorktree(worktree'[f])
    BY <1>2, <2>2 DEF TypeOK
  <2> QED
    BY <2>1, <2>3 DEF IsWorktree
<1>5. TypeOK'
  BY <1>1, <1>2, <1>4 DEF TypeOK, GitPopulates, UnitAwaiting, GitRuns
<1>6. Linked'
  BY <1>1 DEF Linked, TypeOK, GitPopulates
<1>7. Owned'
  <2> SUFFICES ASSUME NEW m \in Ebuild
               PROVE  /\ unit'[m] = "branched" => FolderOf(m) \in refs
                      /\ unit'[m] \in {"populated", "done"} =>
                            /\ FolderOf(m) \in DOMAIN worktree'
                            /\ worktree'[FolderOf(m)].run = run
                            /\ worktree'[FolderOf(m)].unit = m
    BY <1>3 DEF Owned, GitPopulates
  <2>1. CASE m = l
    <3>1. unit'[m] = "populated"
      BY <1>1, <2>1 DEF TypeOK
    <3> QED
      BY <1>2, <2>1, <3>1
  <2>2. CASE m # l
    <3>1. unit'[m] = unit[m]
      BY <1>1, <2>2 DEF TypeOK
    <3> QED
      BY <1>2, <3>1 DEF Owned
  <2> QED
    BY <2>1, <2>2
<1>8. StartedByUnit'
  BY <1>1 DEF StartedByUnit, TypeOK, GitPopulates
<1>9. HasRead'
  BY DEF HasRead, GitPopulates
<1> QED
  BY <1>5, <1>6, <1>7, <1>8, <1>9

LEMMA StartsChangesKeepsInv ==
    ASSUME WorktreesInv, NEW l \in Ebuild, StartsChanges(l)
    PROVE  WorktreesInv'
<1> USE DEF WorktreesInv
<1>0. /\ \A m : FolderOf(m)' = FolderOf(m)
      /\ (\A f \in DOMAIN worktree : IsWorktree(worktree[f]))'
  BY DEF StartsChanges, FolderOf, persistent, TypeOK, IsWorktree
<1>1. /\ unit[l] = "populated"
      /\ unit' = [unit EXCEPT ![l] = "done"]
      /\ change' = [e \in Ebuild |->
                       IF leader[e] = l THEN "started" ELSE change[e]]
  BY DEF StartsChanges, SetUnit
<1>2. Controlled'
  BY ControlledMoves DEF StartsChanges, Controlled, TypeOK
<1>3. TypeOK'
  BY <1>0, <1>1, <1>2
     DEF TypeOK, Controlled, StartsChanges, persistent, ChangeAwaiting, Ended
<1>4. Linked'
  BY <1>1 DEF Linked, TypeOK, StartsChanges
<1>5. Owned'
  BY <1>0, <1>1 DEF Owned, TypeOK, StartsChanges, persistent
<1>6. StartedByUnit'
  BY <1>1, RepositoryAssumption DEF StartedByUnit, TypeOK, StartsChanges
<1>7. HasRead'
  BY <1>1 DEF HasRead, StartsChanges
<1> QED
  BY <1>3, <1>4, <1>5, <1>6, <1>7

\* A change moves, and may put new files into its worktree.
LEMMA ChangeMoves ==
    ASSUME WorktreesInv, Controlled', NEW e \in Ebuild,
           NEW v \in ChangeAwaiting \cup Ended, SetChange(e, v),
           change[e] \in ChangeAwaiting,
           \A f \in Ebuild \ {e} : copy'[f] = copy[f],
           v = "writing" => copy'[e] \in Copies,
           UNCHANGED <<run, todo, groups, leader, unit, refs>>,
           \/ UNCHANGED worktree
           \/ \E new : IsFiles(new) /\ SetFiles(e, new)
    PROVE  WorktreesInv'
<1> USE DEF WorktreesInv
<1>0. change[e] # "absent" /\ change' = [change EXCEPT ![e] = v]
  BY DEF ChangeAwaiting, SetChange
<1>1. /\ DOMAIN worktree' = DOMAIN worktree
      /\ worktree' = [f \in DOMAIN worktree' |-> worktree'[f]]
      /\ \A f \in DOMAIN worktree :
            /\ worktree'[f].run = worktree[f].run
            /\ worktree'[f].unit = worktree[f].unit
            /\ IsWorktree(worktree'[f])
  <2>1. CASE UNCHANGED worktree
    BY <2>1 DEF TypeOK
  <2>2. ASSUME NEW new, IsFiles(new), SetFiles(e, new)
        PROVE  <1>1
    <3>1. Place(e) \in DOMAIN worktree
      BY <1>0 DEF StartedByUnit, Owned, Place, TypeOK
    <3>2. IsWorktree(worktree[Place(e)])
      BY <3>1 DEF TypeOK
    <3> DEFINE w == [worktree[Place(e)] EXCEPT !.files = new]
    <3>3. /\ worktree' = [worktree EXCEPT ![Place(e)] = w]
      BY <2>2 DEF SetFiles
    <3>4. /\ w.run = worktree[Place(e)].run
          /\ w.unit = worktree[Place(e)].unit
          /\ IsWorktree(w)
      BY <2>2, <3>2 DEF IsWorktree
    <3> HIDE DEF w
    <3> QED
      BY <3>1, <3>3, <3>4 DEF TypeOK
  <2> QED
    BY <2>1, <2>2
<1>2. TypeOK'
  BY <1>0, <1>1 DEF TypeOK, Controlled, IsWorktree
<1>3. Linked'
  BY DEF Linked
<1>4. Owned'
  BY <1>1 DEF Owned, FolderOf
<1>5. StartedByUnit'
  BY <1>0 DEF StartedByUnit, TypeOK
<1>6. HasRead'
  BY <1>0 DEF HasRead, TypeOK
<1> QED
  BY <1>2, <1>3, <1>4, <1>5, <1>6

---------------------------------------------------------------------------
(* The steps of the nursery.                                               *)

LEMMA UnitStepKeepsInv ==
    ASSUME WorktreesInv, NEW l \in Ebuild, UnitStep(l)
    PROVE  WorktreesInv'
<1> USE DEF UnitAwaiting, GitRuns, Ended, persistent
<1>0. /\ Controlled /\ refs \subseteq Folder
      /\ unit \in [Ebuild -> {"absent"} \cup UnitAwaiting \cup Ended]
      /\ copy \in [Ebuild -> Copies \cup {None}]
  BY DEF WorktreesInv, TypeOK, Controlled
<1>1. CASE LaunchesGit(l)
  <2>1. Controlled'
    BY <1>0, <1>1, ControlledMoves DEF LaunchesGit, Exception
  <2>2. unit[l] = "started" /\ unit'[l] \in {"git", "threw"} /\ SetUnit(l, unit'[l])
    BY <1>0, <1>1 DEF LaunchesGit, SetUnit
  <2> QED
    BY <1>0, <1>1, <2>1, <2>2, UnitMoves DEF LaunchesGit
<1>2. CASE GitBranches(l)
  <2>1. Controlled'
    BY <1>0, <1>2 DEF GitBranches, Controlled
  <2>2. unit[l] = "git" /\ unit'[l] = "branched" /\ SetUnit(l, unit'[l])
    BY <1>0, <1>2 DEF GitBranches, SetUnit
  <2>3. FolderOf(l) \in Folder
    BY FolderOfType DEF WorktreesInv, TypeOK
  <2>4. refs \subseteq refs' /\ refs' \subseteq Folder /\ FolderOf(l) \in refs'
    BY <1>0, <1>2, <2>3 DEF GitBranches
  <2> QED
    BY <1>2, <2>1, <2>2, <2>4, UnitMoves DEF GitBranches
<1>3. CASE GitPopulates(l)
  BY <1>3, GitPopulatesKeepsInv
<1>4. CASE GitRefuses(l)
  <2>1. Controlled'
    BY <1>0, <1>4 DEF GitRefuses, Controlled
  <2>2. unit[l] \in {"git", "branched"} /\ unit'[l] = "refused" /\ SetUnit(l, unit'[l])
    BY <1>0, <1>4 DEF GitRefuses, SetUnit
  <2> QED
    BY <1>0, <1>4, <2>1, <2>2, UnitMoves DEF GitRefuses
<1>5. CASE StartsChanges(l)
  BY <1>5, StartsChangesKeepsInv
<1>6. CASE UnitFails(l)
  <2>1. Controlled'
    BY <1>0, <1>6, ControlledMoves DEF UnitFails
  <2>2. unit[l] = "refused" /\ unit'[l] = "failed" /\ SetUnit(l, unit'[l])
    BY <1>0, <1>6 DEF UnitFails, SetUnit
  <2> QED
    BY <1>0, <1>6, <2>1, <2>2, UnitMoves DEF UnitFails
<1>7. CASE UnwindsUnit(l)
  <2>1. Controlled'
    BY <1>0, <1>7 DEF UnwindsUnit, Controlled
  <2>2. unit[l] \in UnitAwaiting /\ unit'[l] = "cancelled" /\ SetUnit(l, unit'[l])
    BY <1>0, <1>7 DEF UnwindsUnit, SetUnit
  <2> QED
    BY <1>0, <1>7, <2>1, <2>2, UnitMoves DEF UnwindsUnit
<1> QED
  BY <1>1, <1>2, <1>3, <1>4, <1>5, <1>6, <1>7 DEF UnitStep

\* The files after a rename, or after the text of an ebuild is written.
LEMMA OldFileType ==
    ASSUME WorktreesInv, NEW e \in Ebuild, change[e] # "absent"
    PROVE  /\ IsFiles(Files(e))
           /\ OldPath(e) \in DOMAIN Files(e) =>
                  Files(e)[OldPath(e)] \in Content
<1>1. IsFiles(Files(e))
  BY DEF WorktreesInv, StartedByUnit, Owned, TypeOK, IsWorktree, Files, Place
<1> QED
  BY <1>1 DEF IsFiles

LEMMA RenamedType ==
    ASSUME WorktreesInv, NEW e \in Ebuild, change[e] # "absent",
           NEW file \in Content
    PROVE  IsFiles(Renamed(e, file))
<1>1. IsFiles(Files(e))
  BY OldFileType
<1>2. NewPath(e) \in Name
  BY PathTypes DEF WorktreesInv, StartedByUnit, Linked
<1> QED
  BY <1>1, <1>2 DEF IsFiles, Renamed

LEMMA WritingType ==
    ASSUME WorktreesInv, NEW e \in Ebuild, change[e] # "absent",
           OldPath(e) \in DOMAIN Files(e)
    PROVE  IsFiles([Files(e) EXCEPT ![OldPath(e)] =
                       [ebuild |-> e, text |-> "torn", size |-> @.size]])
<1>1. IsFiles(Files(e)) /\ Files(e)[OldPath(e)] \in Content
  BY OldFileType
<1>2. [ebuild |-> e, text |-> "torn", size |-> Files(e)[OldPath(e)].size]
         \in Content
  BY <1>1 DEF Content, Text
<1> QED
  BY <1>1, <1>2 DEF IsFiles

LEMMA EdittedSizeType ==
    ASSUME NEW e, copy[e] \in Copies
    PROVE  EdittedSize(e) \in Nat
<1> DEFINE c == copy[e]
<1>1. c.size \in Nat /\ CommitSize \in Nat /\ (c.pinned => c.size >= CommitSize)
  BY CopiesAssumption
<1>2. \/ EdittedSize(e) = c.size
      \/ c.pinned /\ EdittedSize(e) = c.size - CommitSize
  BY DEF EdittedSize
<1> HIDE DEF c
<1>3. CASE EdittedSize(e) = c.size
  BY <1>1, <1>3
<1>4. CASE c.pinned /\ EdittedSize(e) = c.size - CommitSize
  BY <1>1, <1>4
<1> QED
  BY <1>2, <1>3, <1>4

LEMMA WrittenType ==
    ASSUME WorktreesInv, NEW e \in Ebuild, change[e] # "absent",
           copy[e] \in Copies, OldPath(e) \in DOMAIN Files(e)
    PROVE  Written(e) \in Content
<1>1. Files(e)[OldPath(e)] \in Content
  BY OldFileType
<1>2. Overwritten(e, Files(e)[OldPath(e)]) \in Content
  BY <1>1, EdittedSizeType DEF Overwritten, EdittedText, Content, Text
<1> QED
  BY <1>1, <1>2 DEF Written

LEMMA ChangeIsSet ==
    ASSUME WorktreesInv, NEW e \in Ebuild, NEW v, SetChange(e, v)
    PROVE  change'[e] = v
BY DEF WorktreesInv, TypeOK, SetChange

\* What a step of WritesEbuild reads.
LEMMA WritesCopies ==
    ASSUME WorktreesInv, NEW e \in Ebuild, WritesEbuild(e)
    PROVE  /\ copy' \in [Ebuild -> Copies \cup {None}]
           /\ \A f \in Ebuild \ {e} : copy'[f] = copy[f]
           /\ change'[e] = "writing" => copy'[e] \in Copies
<1>1. copy \in [Ebuild -> Copies \cup {None}]
  BY DEF WorktreesInv, TypeOK
<1>2. CASE \E c \in Copies : copy' = [copy EXCEPT ![e] = c]
  BY <1>1, <1>2
<1>3. CASE UNCHANGED copy /\ (SetChange(e, "threw") \/ SetChange(e, "failed"))
  BY <1>1, <1>3, ChangeIsSet
<1> QED
  BY <1>2, <1>3 DEF WritesEbuild, ChangeFails, ChangeThrows

LEMMA ChangeStepKeepsInv ==
    ASSUME WorktreesInv, NEW e \in Ebuild, ChangeStep(e)
    PROVE  WorktreesInv'
<1> USE DEF ChangeAwaiting, Ended, persistent
<1>0. Controlled /\ copy \in [Ebuild -> Copies \cup {None}]
  BY DEF WorktreesInv, TypeOK, Controlled
<1>01. change[e] = "writing" => copy[e] \in Copies
  BY DEF WorktreesInv, HasRead
<1>1. CASE RenamesByVersion(e)
  <2>1. Controlled'
    BY <1>0, <1>1, ControlledMoves
       DEF RenamesByVersion, ChangeFails, ChangeThrows, Exception
  <2>2. \/ UNCHANGED worktree
        \/ \E new : IsFiles(new) /\ SetFiles(e, new)
    BY <1>1, RenamedType, OldFileType DEF RenamesByVersion, Renames
  <2>3. \E v \in {"manifest", "failed", "threw"} : SetChange(e, v)
    BY <1>1 DEF RenamesByVersion, ChangeFails, ChangeThrows
  <2> QED
    BY <1>1, <2>1, <2>2, <2>3, ChangeMoves DEF RenamesByVersion
<1>2. CASE ManifestExits(e)
  <2>1. Controlled'
    BY <1>0, <1>2, ControlledMoves DEF ManifestExits, ChangeFails
  <2>2. \E v \in {"done", "failed"} : SetChange(e, v)
    BY <1>2 DEF ManifestExits, ChangeFails
  <2> QED
    BY <1>2, <2>1, <2>2, ChangeMoves DEF ManifestExits
<1>3. CASE ReadsEbuild(e)
  <2>1. Controlled'
    BY <1>0, <1>3, ControlledMoves DEF ReadsEbuild, ChangeThrows
  <2>2. \E v \in {"reading", "threw"} : SetChange(e, v)
    BY <1>3 DEF ReadsEbuild, ChangeThrows
  <2> QED
    BY <1>3, <2>1, <2>2, ChangeMoves DEF ReadsEbuild
<1>4. CASE WritesEbuild(e)
  <2>0. /\ copy' \in [Ebuild -> Copies \cup {None}]
        /\ \A f \in Ebuild \ {e} : copy'[f] = copy[f]
        /\ change'[e] = "writing" => copy'[e] \in Copies
    BY <1>4, WritesCopies DEF WorktreesInv
  <2>1. Controlled'
    BY <1>0, <1>4, <2>0, ControlledMoves
       DEF WritesEbuild, ChangeFails, ChangeThrows, Exception
  <2>2. \/ UNCHANGED worktree
        \/ \E new : IsFiles(new) /\ SetFiles(e, new)
    BY <1>4, WritingType DEF WritesEbuild
  <2>3. \E v \in {"writing", "failed", "threw"} : SetChange(e, v)
    BY <1>4 DEF WritesEbuild, ChangeFails, ChangeThrows
  <2> QED
    BY <1>4, <2>0, <2>1, <2>2, <2>3, ChangeMoves, ChangeIsSet DEF WritesEbuild
<1>5. CASE RenamesByDate(e)
  <2>1. Controlled'
    BY <1>0, <1>5, ControlledMoves DEF RenamesByDate, ChangeFails
  <2>2. \/ UNCHANGED worktree
        \/ \E new : IsFiles(new) /\ SetFiles(e, new)
    BY <1>5, <1>01, RenamedType, WrittenType DEF RenamesByDate, Renames
  <2>3. \E v \in {"done", "failed"} : SetChange(e, v)
    BY <1>5 DEF RenamesByDate, ChangeFails
  <2> QED
    BY <1>5, <2>1, <2>2, <2>3, ChangeMoves DEF RenamesByDate
<1>6. CASE UnwindsChange(e)
  <2>1. Controlled'
    BY <1>0, <1>6 DEF UnwindsChange, Controlled
  <2> QED
    BY <1>6, <2>1, ChangeMoves DEF UnwindsChange
<1> QED
  BY <1>1, <1>2, <1>3, <1>4, <1>5, <1>6 DEF ChangeStep

---------------------------------------------------------------------------
(* The steps between the nurseries.                                        *)

LEMMA BeginKeepsInv ==
    ASSUME WorktreesInv, NEW t \in Proposals, NEW file \in GroupsFiles,
           Begin(t, file), \A e \in Ebuild : change[e] = "absent"
    PROVE  WorktreesInv'
<1> USE DEF WorktreesInv
<1> DEFINE Proposed == {d.ebuild : d \in t}
           At(e) == GroupOf(file, PackageOf[e])
<1>1. PICK first \in [DOMAIN file -> Ebuild] :
         /\ \A n \in DOMAIN file : first[n] \in Members(t, file, n)
         /\ leader' = [e \in Ebuild |->
               IF e \notin Proposed THEN None
               ELSE IF At(e) = 0 THEN e ELSE first[At(e)]]
  BY DEF Begin
<1>2. \A e \in Ebuild : At(e) # 0 => At(e) \in DOMAIN file
  BY DEF GroupOf
<1>3. leader' \in [Ebuild -> Ebuild \cup {None}]
  BY <1>1, <1>2
<1>4. unit' = [e \in Ebuild |-> IF leader'[e] = e THEN "started" ELSE "absent"]
  BY DEF Begin
<1>5. t \subseteq InfoForDiff /\ file \in Seq(SUBSET Package)
  BY ProposalsAssumption, GroupsAssumption
<1>6. (\A f \in DOMAIN worktree : IsWorktree(worktree[f]))'
  BY DEF TypeOK, Begin, persistent, IsWorktree
<1>7. TypeOK'
  BY <1>3, <1>4, <1>5, <1>6 DEF TypeOK, Begin, persistent, UnitAwaiting
<1>8. Linked'
  <2>1. \A e \in Ebuild : leader'[e] # None => e \in Proposed
    BY <1>1
  <2>2. todo' = t
    BY DEF Begin
  <2> QED
    BY <1>4, <2>1, <2>2 DEF Linked
<1>9. Owned'
  BY <1>4 DEF Owned
<1>10. StartedByUnit'
  BY DEF StartedByUnit, Begin
<1>11. HasRead'
  BY DEF HasRead, Begin
<1> QED
  BY <1>7, <1>8, <1>9, <1>10, <1>11

LEMMA RestartKeepsInv ==
    ASSUME WorktreesInv, Restart
    PROVE  WorktreesInv' /\ \A e \in Ebuild : change'[e] = "absent"
<1> USE DEF WorktreesInv, Restart, persistent
<1>1. run \in Nat \ {0} /\ run' = run + 1
  BY DEF TypeOK
<1>2. 1..run \subseteq 1..run'
  BY <1>1
<1>3. (\A f \in DOMAIN worktree : IsWorktree(worktree[f]))'
  BY <1>2 DEF TypeOK, IsWorktree
<1>4. TypeOK'
  BY <1>1, <1>3 DEF TypeOK, ReturnCode, ApplyClosed
<1>5. Linked' /\ Owned' /\ StartedByUnit' /\ HasRead'
  BY DEF Linked, Owned, StartedByUnit, HasRead
<1> QED
  BY <1>4, <1>5

\* A step that leaves the coroutines and the repository alone.
LEMMA ControlKeepsInv ==
    ASSUME WorktreesInv, Controlled',
           UNCHANGED <<run, todo, groups, leader, unit, change, copy, persistent>>
    PROVE  WorktreesInv'
<1> USE DEF WorktreesInv, persistent
<1>1. (\A f \in DOMAIN worktree : IsWorktree(worktree[f]))'
  BY DEF TypeOK, IsWorktree
<1>2. TypeOK'
  BY <1>1 DEF TypeOK, Controlled
<1>3. Linked' /\ Owned' /\ StartedByUnit' /\ HasRead'
  BY DEF Linked, Owned, StartedByUnit, HasRead, FolderOf
<1> QED
  BY <1>2, <1>3

---------------------------------------------------------------------------
(* Before the loops of chief_logic start a unit, there is none.            *)

Fresh ==
    apply = "idle" =>
        \A e \in Ebuild : unit[e] = "absent" /\ change[e] = "absent"

IInv == WorktreesInv /\ Fresh

LEMMA InitIInv == Init => IInv
<1> SUFFICES ASSUME Init PROVE IInv
  OBVIOUS
<1>1. TypeOK
  BY DEF Init, TypeOK, ReturnCode
<1>2. Linked /\ Owned /\ StartedByUnit /\ HasRead /\ Fresh
  BY DEF Init, Linked, Owned, StartedByUnit, HasRead, Fresh
<1> QED
  BY <1>1, <1>2 DEF IInv, WorktreesInv

\* A coroutine that moves does not bring the nursery back to its start.
LEMMA CoroutineStepIsNotFresh ==
    ASSUME IInv, NEW e \in Ebuild, UnitStep(e) \/ ChangeStep(e)
    PROVE  apply # "idle" /\ apply' # "idle"
<1> USE DEF IInv, Fresh, NurseryCatches, NurseryIsCancelled, Undisturbed
<1>1. CASE UnitStep(e)
  <2>1. unit[e] # "absent"
    BY <1>1 DEF UnitStep, LaunchesGit, GitBranches, GitPopulates, GitRefuses,
                StartsChanges, UnitFails, UnwindsUnit, UnitAwaiting, GitRuns
  <2> QED
    BY <1>1, <2>1
       DEF UnitStep, LaunchesGit, GitBranches, GitPopulates, GitRefuses,
           StartsChanges, UnitFails, UnwindsUnit
<1>2. CASE ChangeStep(e)
  <2>1. change[e] # "absent"
    BY <1>2 DEF ChangeStep, RenamesByVersion, ManifestExits, ReadsEbuild,
                WritesEbuild, RenamesByDate, UnwindsChange, ChangeAwaiting
  <2> QED
    BY <1>2, <2>1
       DEF ChangeStep, RenamesByVersion, ManifestExits, ReadsEbuild,
           WritesEbuild, RenamesByDate, UnwindsChange, ChangeFails, ChangeThrows
<1> QED
  BY <1>1, <1>2

LEMMA NextKeepsIInv ==
    ASSUME IInv, [Next]_vars
    PROVE  IInv'
<1> USE DEF IInv
<1>0. Controlled
  BY DEF WorktreesInv, TypeOK, Controlled
<1>1. ASSUME NEW t \in Proposals, NEW file \in GroupsFiles, Begin(t, file)
      PROVE  IInv'
  <2>1. \A e \in Ebuild : change[e] = "absent"
    BY <1>1 DEF Begin, Fresh
  <2>2. WorktreesInv'
    BY <1>1, <2>1, BeginKeepsInv
  <2> QED
    BY <1>1, <2>2 DEF Begin, Fresh
<1>2. ASSUME NEW t \in Proposals, NEW file \in GroupsFiles,
             BeginCrashes(t, file)
      PROVE  IInv'
  <2>1. Controlled'
    BY <1>0, <1>2 DEF BeginCrashes, Controlled, ApplyClosed
  <2>2. WorktreesInv'
    BY <1>2, <2>1, ControlKeepsInv DEF BeginCrashes
  <2> QED
    BY <1>2, <2>2 DEF BeginCrashes, Fresh
<1>3. ASSUME NEW e \in Ebuild, UnitStep(e) \/ ChangeStep(e)
      PROVE  IInv'
  <2>1. WorktreesInv'
    BY <1>3, UnitStepKeepsInv, ChangeStepKeepsInv
  <2> QED
    BY <1>3, <2>1, CoroutineStepIsNotFresh DEF Fresh
<1>4. CASE JoinApply
  <2>1. Controlled'
    BY <1>0, <1>4 DEF JoinApply, Controlled, ApplyClosed
  <2>2. WorktreesInv'
    BY <1>4, <2>1, ControlKeepsInv DEF JoinApply
  <2> QED
    BY <1>4, <2>2 DEF JoinApply, Fresh
<1>5. CASE Interrupt
  <2>1. Controlled'
    BY <1>0, <1>5 DEF Interrupt, Controlled
  <2>2. WorktreesInv'
    BY <1>5, <2>1, ControlKeepsInv DEF Interrupt
  <2> QED
    BY <1>5, <2>2 DEF Interrupt, Fresh
<1>6. CASE Restart
  <2>1. WorktreesInv' /\ \A e \in Ebuild : change'[e] = "absent"
    BY <1>6, RestartKeepsInv
  <2> QED
    BY <1>6, <2>1 DEF Restart, Fresh
<1>7. CASE UNCHANGED vars
  <2>1. Controlled'
    BY <1>0, <1>7 DEF vars, volatile, Controlled
  <2>2. WorktreesInv'
    BY <1>7, <2>1, ControlKeepsInv DEF vars, volatile
  <2> QED
    BY <1>7, <2>2 DEF vars, volatile, Fresh
<1> QED
  BY <1>1, <1>2, <1>3, <1>4, <1>5, <1>6, <1>7
     DEF Next, NurseryStep, AllRunsOver

---------------------------------------------------------------------------
(* The theorems.                                                           *)

\* Every state of chief_logic's second half is well typed.  In particular a
\* worktree is only ever in the folder of a branch that exists, and every file
\* of it holds an ebuild under the name of some ebuild and version.
THEOREM TypeCorrectness == Spec => []TypeOK
<1>1. IInv => TypeOK
  BY DEF IInv, WorktreesInv
<1> QED
  BY InitIInv, NextKeepsIInv, <1>1, PTL DEF Spec

\* apply_change works only in a worktree that git made for its own unit in this
\* run, whatever names the groups, the packages and earlier runs gave to folders.
THEOREM ChangesHaveTheirOwnWorktree == Spec => []ExclusiveWorktree
<1>1. ASSUME IInv
      PROVE  ExclusiveWorktree
  <2> SUFFICES ASSUME NEW e \in Ebuild, change[e] # "absent"
               PROVE  /\ leader[e] # None
                      /\ unit[leader[e]] = "done"
                      /\ Place(e) \in DOMAIN worktree
                      /\ worktree[Place(e)].run = run
                      /\ worktree[Place(e)].unit = leader[e]
    BY DEF ExclusiveWorktree
  <2>1. leader[e] # None /\ unit[leader[e]] = "done"
    BY <1>1 DEF IInv, WorktreesInv, StartedByUnit
  <2>2. leader[e] \in Ebuild
    BY <1>1, <2>1 DEF IInv, WorktreesInv, TypeOK
  <2> QED
    BY <1>1, <2>1, <2>2 DEF IInv, WorktreesInv, Owned, Place
<1> QED
  BY InitIInv, NextKeepsIInv, <1>1, PTL DEF Spec

KeepsEarlierRuns ==
    \A f \in DOMAIN worktree :
        /\ f \in DOMAIN worktree'
        /\ worktree[f].run # run => worktree'[f] = worktree[f]

\* New files are put only into a worktree of this run.
LEMMA SetFilesKeepsEarlierRuns ==
    ASSUME IInv, NEW e \in Ebuild, change[e] # "absent",
           NEW new, SetFiles(e, new)
    PROVE  KeepsEarlierRuns
<1>1. Place(e) \in DOMAIN worktree /\ worktree[Place(e)].run = run
  BY DEF IInv, WorktreesInv, StartedByUnit, Owned, Place, TypeOK
<1>2. worktree = [f \in DOMAIN worktree |-> worktree[f]]
  BY DEF IInv, WorktreesInv, TypeOK
<1> QED
  BY <1>1, <1>2 DEF SetFiles, KeepsEarlierRuns

LEMMA NextKeepsEarlierRuns ==
    ASSUME IInv, [Next]_vars
    PROVE  KeepsEarlierRuns
<1>1. CASE UNCHANGED worktree
  BY <1>1 DEF KeepsEarlierRuns
<1>2. ASSUME NEW e \in Ebuild, GitPopulates(e)
      PROVE  KeepsEarlierRuns
  BY <1>2 DEF GitPopulates, KeepsEarlierRuns
<1>3. ASSUME NEW e \in Ebuild, ChangeStep(e)
      PROVE  UNCHANGED worktree \/ KeepsEarlierRuns
  <2>1. \/ UNCHANGED worktree
        \/ change[e] # "absent" /\ \E new : SetFiles(e, new)
    BY <1>3 DEF ChangeStep, RenamesByVersion, ManifestExits, ReadsEbuild,
                WritesEbuild, RenamesByDate, UnwindsChange, Renames, persistent
  <2> QED
    BY <2>1, SetFilesKeepsEarlierRuns
<1>4. \/ UNCHANGED worktree
      \/ \E e \in Ebuild : GitPopulates(e) \/ ChangeStep(e)
  BY DEF Next, NurseryStep, UnitStep, LaunchesGit, GitBranches, GitRefuses,
         StartsChanges, UnitFails, UnwindsUnit, JoinApply, Interrupt, Restart,
         Begin, BeginCrashes, AllRunsOver, vars, persistent
<1> QED
  BY <1>1, <1>2, <1>3, <1>4

\* No step changes or removes a worktree that an earlier run left behind.
THEOREM EarlierRunsAreKept == Spec => EarlierRunsKept
<1>1. ASSUME IInv, [Next]_vars
      PROVE  [KeepsEarlierRuns]_vars
  BY <1>1, NextKeepsEarlierRuns
<1> QED
  BY InitIInv, NextKeepsIInv, <1>1, PTL
     DEF Spec, EarlierRunsKept, KeepsEarlierRuns

---------------------------------------------------------------------------
(* How a failure reaches return_code.                                      *)

Holds(state) == \E e \in Ebuild : unit[e] = state \/ change[e] = state

\* return_code tells of a failure exactly when a coroutine ended with one; an
\* exception is kept for the join; nothing is cancelled without a cause; and
\* after the join no coroutine is left that could still fail.
Caused ==
    /\ Holds("failed") <=> ApplyFailed
    /\ Holds("threw") => apply_error # "none"
    /\ Holds("cancelled") => apply \notin {"idle", "open"}
    /\ apply = "cancelling" => apply_error # "none" \/ ApplyFailed
    /\ apply \in ApplyClosed => NoneAwaits

ReportInv == Caused /\ FailureReported

\* The ways in which one coroutine moves.
LEMMA CoroutineMoves ==
    ASSUME IInv, NEW e \in Ebuild, UnitStep(e) \/ ChangeStep(e)
    PROVE  /\ unit[e] \in UnitAwaiting \/ change[e] \in ChangeAwaiting
           /\ \/ /\ Undisturbed
                 /\ Holds("failed")' <=> Holds("failed")
                 /\ Holds("threw")' <=> Holds("threw")
                 /\ Holds("cancelled")' => Holds("cancelled") \/ Cancelling
              \/ /\ \E x \in Exception : NurseryCatches(x)
                 /\ Holds("failed")' <=> Holds("failed")
                 /\ Holds("cancelled")' <=> Holds("cancelled")
              \/ /\ \E c \in {"FailedMakingGitToMakeWorktrees",
                              "FailedApplyChange"} : NurseryIsCancelled(c)
                 /\ Holds("failed")'
                 /\ Holds("threw")' <=> Holds("threw")
                 /\ Holds("cancelled")' <=> Holds("cancelled")
<1> USE DEF UnitAwaiting, GitRuns, ChangeAwaiting, Ended, persistent, Holds,
            Exception
<1>0. /\ unit \in [Ebuild -> {"absent"} \cup UnitAwaiting \cup Ended]
      /\ change \in [Ebuild -> {"absent"} \cup ChangeAwaiting \cup Ended]
  BY DEF IInv, WorktreesInv, TypeOK
<1>1. CASE LaunchesGit(e)
  BY <1>0, <1>1 DEF LaunchesGit, SetUnit
<1>2. CASE GitBranches(e) \/ GitPopulates(e) \/ GitRefuses(e)
  BY <1>0, <1>2 DEF GitBranches, GitPopulates, GitRefuses, SetUnit, Undisturbed
<1>3. CASE StartsChanges(e)
  <2>1. \A f \in Ebuild : leader[f] = e => change[f] = "absent"
    BY <1>3 DEF StartsChanges, IInv, WorktreesInv, StartedByUnit
  <2> QED
    BY <1>0, <1>3, <2>1 DEF StartsChanges, SetUnit
<1>4. CASE UnitFails(e)
  BY <1>0, <1>4 DEF UnitFails, SetUnit
<1>5. CASE UnwindsUnit(e)
  BY <1>0, <1>5 DEF UnwindsUnit, SetUnit, Undisturbed
<1>6. CASE RenamesByVersion(e)
  BY <1>0, <1>6 DEF RenamesByVersion, SetChange, ChangeFails, ChangeThrows
<1>7. CASE ManifestExits(e)
  BY <1>0, <1>7 DEF ManifestExits, SetChange, ChangeFails
<1>8. CASE ReadsEbuild(e)
  BY <1>0, <1>8 DEF ReadsEbuild, SetChange, ChangeThrows
<1>9. CASE WritesEbuild(e)
  BY <1>0, <1>9 DEF WritesEbuild, SetChange, ChangeFails, ChangeThrows
<1>10. CASE RenamesByDate(e)
  BY <1>0, <1>10 DEF RenamesByDate, SetChange, ChangeFails
<1>11. CASE UnwindsChange(e)
  BY <1>0, <1>11 DEF UnwindsChange, SetChange, Undisturbed
<1> QED
  BY <1>1, <1>2, <1>3, <1>4, <1>5, <1>6, <1>7, <1>8, <1>9, <1>10, <1>11
     DEF UnitStep, ChangeStep

LEMMA CoroutineStepKeepsReportInv ==
    ASSUME IInv, ReportInv, NEW e \in Ebuild, UnitStep(e) \/ ChangeStep(e)
    PROVE  ReportInv'
<1>1. apply \in {"open", "cancelling", "interrupting"}
  <2>1. apply \notin ApplyClosed
    BY CoroutineMoves DEF ReportInv, Caused, NoneAwaits
  <2> QED
    BY <2>1, CoroutineStepIsNotFresh DEF IInv, WorktreesInv, TypeOK
<1>2. apply' \in {"open", "cancelling", "interrupting"}
  BY <1>1, CoroutineMoves DEF Undisturbed, NurseryCatches, NurseryIsCancelled
<1>3. Caused'
  BY <1>1, <1>2, CoroutineMoves
     DEF ReportInv, Caused, ApplyFailed, ApplyClosed, Cancelling, Exception,
         Undisturbed, NurseryCatches, NurseryIsCancelled
<1>4. FailureReported'
  BY <1>2 DEF FailureReported
<1> QED
  BY <1>3, <1>4 DEF ReportInv

\* When no coroutine is left and no exception is held, what did not complete
\* failed or was cancelled.
LEMMA JoinKeepsReportInv ==
    ASSUME IInv, ReportInv, JoinApply
    PROVE  ReportInv'
<1>1. UNCHANGED <<unit, change, return_code, apply_error>> /\ NoneAwaits
  BY DEF JoinApply
<1>2. Caused'
  BY <1>1 DEF JoinApply, ReportInv, Caused, Holds, ApplyFailed, NoneAwaits,
              ApplyClosed
<1>3. Completes \/ Holds("failed") \/ Holds("threw") \/ Holds("cancelled")
  BY <1>1 DEF Completes, Holds, NoneAwaits, IInv, WorktreesInv, TypeOK, Ended
<1>4. Holds("failed") => ~Completes
  BY DEF Completes, Holds
<1>5. apply' = "joined" => (ApplyFailed <=> ~Completes)
  <2> SUFFICES ASSUME apply' = "joined"
               PROVE  ApplyFailed <=> ~Completes
    OBVIOUS
  <2>1. /\ apply_error = "none"
        /\ apply \in {"open", "cancelling", "interrupting"}
        /\ apply = "interrupting" => Completes \/ ApplyFailed
    BY DEF JoinApply
  <2> QED
    BY <1>3, <1>4, <2>1 DEF ReportInv, Caused
<1>6. FailureReported'
  BY <1>1, <1>5 DEF FailureReported, ApplyFailed, Completes
<1> QED
  BY <1>2, <1>6 DEF ReportInv

LEMMA NextKeepsReportInv ==
    ASSUME IInv, ReportInv, [Next]_vars
    PROVE  ReportInv'
<1> USE DEF ReportInv, FailureReported
<1>1. ASSUME NEW t \in Proposals, NEW file \in GroupsFiles,
             Begin(t, file) \/ BeginCrashes(t, file)
      PROVE  ReportInv'
  <2>1. \A e \in Ebuild : unit[e] = "absent" /\ change[e] = "absent"
    BY <1>1 DEF Begin, BeginCrashes, IInv, Fresh
  <2>2. ~ApplyFailed
    BY <2>1 DEF Caused, Holds
  <2>3. /\ apply' \in {"open", "crashed"}
        /\ UNCHANGED <<change, return_code, apply_error>>
        /\ \A e \in Ebuild : unit'[e] \in {"absent", "started"}
        /\ apply' = "crashed" => UNCHANGED unit
    BY <1>1, <2>1 DEF Begin, BeginCrashes
  <2>4. ~ApplyFailed'
    BY <2>2, <2>3 DEF ApplyFailed
  <2> QED
    BY <2>1, <2>3, <2>4
       DEF Caused, Holds, NoneAwaits, UnitAwaiting, GitRuns, ChangeAwaiting,
           ApplyClosed
<1>2. ASSUME NEW e \in Ebuild, UnitStep(e) \/ ChangeStep(e)
      PROVE  ReportInv'
  BY <1>2, CoroutineStepKeepsReportInv
<1>3. CASE JoinApply
  BY <1>3, JoinKeepsReportInv
<1>4. CASE Interrupt
  BY <1>4 DEF Interrupt, Caused, Holds, ApplyFailed, ApplyClosed
<1>5. CASE Restart
  BY <1>5 DEF Restart, Caused, Holds, ApplyFailed, ApplyClosed
<1>6. CASE UNCHANGED vars
  BY <1>6 DEF vars, volatile, Caused, Holds, ApplyFailed, NoneAwaits, Completes
<1> QED
  BY <1>1, <1>2, <1>3, <1>4, <1>5, <1>6 DEF Next, NurseryStep, AllRunsOver

\* When the nursery of worktrees joins, chief_logic's return_code is set exactly
\* when a worktree or a change is missing: no failure is lost in a race of
\* cancellations, interruptions and exceptions, and none is invented.
THEOREM FailuresAreReported == Spec => []FailureReported
<1>1. Init => ReportInv
  BY DEF Init, ReportInv, Caused, Holds, ApplyFailed, FailureReported,
         ApplyClosed
<1>2. ReportInv => FailureReported
  BY DEF ReportInv
<1> QED
  BY InitIInv, NextKeepsIInv, <1>1, NextKeepsReportInv, <1>2, PTL DEF Spec

---------------------------------------------------------------------------
(* What the worktrees hold.  The invariant follows one file from the       *)
(* checkout to its new name: coroutines of other units cannot reach it,    *)
(* because a worktree has one unit (Owned), and those of its own unit only *)
(* if their names clash with its own.                                      *)

\* Every proposed change has a unit that has been started, and all of a unit's
\* changes are started at once.
Units ==
    /\ \A e \in Ebuild :
          leader[e] # None =>
              /\ leader[leader[e]] = leader[e]
              /\ unit[leader[e]] # "absent"
              /\ unit[leader[e]] = "done" => change[e] # "absent"
    /\ \A d \in todo : leader[d.ebuild] # None

\* An ebuild is changed once, and to another version.
ProposedOnce ==
    /\ \A c, d \in todo : c.ebuild = d.ebuild => c = d
    /\ \A d \in todo : d.new_ver # Current[d.ebuild]

\* A worktree is as git checked it out until its changes start.
CheckedOut ==
    \A l \in Ebuild :
        unit[l] = "populated" => worktree[FolderOf(l)].files = Checkout

\* A run begins without worktrees of its own.
NoneOfThisRun ==
    apply = "idle" => \A f \in DOMAIN worktree : worktree[f].run # run

ByKind ==
    \A e \in Ebuild :
        /\ change[e] = "manifest" => e \notin HasDate
        /\ change[e] \in {"reading", "writing"} => e \in HasDate

Pending(e) ==
    OldPath(e) \in DOMAIN Files(e) => Files(e)[OldPath(e)] = MainFile(e)

Opened(e) ==
    OldPath(e) \in DOMAIN Files(e) =>
        Files(e)[OldPath(e)] = [MainFile(e) EXCEPT !.text = "torn"]

Landed(e) ==
    /\ OldPath(e) \notin DOMAIN Files(e)
    /\ NewPath(e) \in DOMAIN Files(e)
    /\ Files(e)[NewPath(e)]
          = IF e \in HasDate THEN Overwritten(e, MainFile(e)) ELSE MainFile(e)
    /\ e \in HasDate => copy[e] \in Copies

\* Where no names clash, the old file waits for its change, is as long as on the
\* main branch while it is written over, and the new one stays once it is there.
Progress ==
    \A e \in Ebuild :
        ~Clashes(e) =>
            /\ change[e] \in {"started", "reading"} => Pending(e)
            /\ change[e] = "writing" => Opened(e)
            /\ change[e] \in {"manifest", "done"} => Landed(e)

AppliedInv ==
    Units /\ ProposedOnce /\ CheckedOut /\ NoneOfThisRun /\ ByKind /\ Progress

---------------------------------------------------------------------------
(* Files.                                                                  *)

\* A repository has one ebuild of a name.
LEMMA OldPathIsUnique ==
    ASSUME NEW e \in Ebuild, NEW f \in Ebuild, OldPath(e) = OldPath(f)
    PROVE  e = f
BY RepositoryAssumption DEF OldPath

LEMMA CheckoutHolds ==
    ASSUME NEW e \in Ebuild, OldPath(e) \in DOMAIN Checkout
    PROVE  Checkout[OldPath(e)] = MainFile(e)
<1>1. OldPath(e) \in {OldPath(f) : f \in Tracked}
  BY DEF Checkout
<1>2. PICK f \in Tracked : OldPath(f) = OldPath(e)
  BY <1>1
<1>3. \A g \in Tracked : OldPath(g) = OldPath(e) => g = e
  BY OldPathIsUnique, RepositoryAssumption
<1>4. (CHOOSE g \in Tracked : OldPath(g) = OldPath(e)) = e
  BY <1>2, <1>3
<1> QED
  BY <1>1, <1>4 DEF Checkout

\* What depends only on the changes and the groups.
LEMMA NamesStay ==
    ASSUME UNCHANGED <<todo, groups, leader>>
    PROVE  \A e : /\ FolderOf(e)' = FolderOf(e)
                  /\ Place(e)' = Place(e)
                  /\ OldPath(e)' = OldPath(e)
                  /\ NewPath(e)' = NewPath(e)
                  /\ Diff(e)' = Diff(e)
                  /\ Clashes(e)' = Clashes(e)
<1>1. \A e : FolderOf(e)' = FolderOf(e)
  BY DEF FolderOf
<1>2. \A e : Diff(e)' = Diff(e)
  BY DEF Diff
<1>3. \A e : OldPath(e)' = OldPath(e) /\ NewPath(e)' = NewPath(e)
  BY <1>2 DEF OldPath, NewPath
<1>4. \A e : Place(e)' = Place(e)
  BY <1>1 DEF Place
<1>5. \A e : Clashes(e)' = Clashes(e)
  BY <1>3 DEF Clashes
<1> QED
  BY <1>1, <1>2, <1>3, <1>4, <1>5

LEMMA OverwrittenStays ==
    ASSUME UNCHANGED <<todo, groups, leader>>, NEW e, copy'[e] = copy[e]
    PROVE  Overwritten(e, MainFile(e))' = Overwritten(e, MainFile(e))
<1>1. Diff(e)' = Diff(e)
  BY NamesStay
<1>2. EdittedSize(e)' = EdittedSize(e)
  BY <1>1 DEF EdittedSize
<1>3. EdittedText(e)' = EdittedText(e)
  BY DEF EdittedText
<1> QED
  BY <1>2, <1>3 DEF Overwritten, MainFile

LEMMA FilesStay ==
    ASSUME UNCHANGED <<todo, groups, leader>>, NEW e, copy'[e] = copy[e],
           Files(e)' = Files(e)
    PROVE  /\ Pending(e)' <=> Pending(e)
           /\ Opened(e)' <=> Opened(e)
           /\ Landed(e)' <=> Landed(e)
BY NamesStay, OverwrittenStays DEF Pending, Opened, Landed, MainFile

\* A change's worktree is that of its unit alone.
LEMMA PlaceIsOwned ==
    ASSUME IInv, NEW e \in Ebuild, change[e] # "absent"
    PROVE  /\ leader[e] \in Ebuild
           /\ unit[leader[e]] = "done"
           /\ Place(e) \in DOMAIN worktree
           /\ worktree[Place(e)].run = run
           /\ worktree[Place(e)].unit = leader[e]
           /\ IsFiles(Files(e))
           /\ Diff(e) \in todo /\ Diff(e).ebuild = e
<1> USE DEF IInv, WorktreesInv
<1>1. leader[e] \in Ebuild /\ unit[leader[e]] = "done"
  BY DEF StartedByUnit, TypeOK
<1>2. /\ Place(e) \in DOMAIN worktree
      /\ worktree[Place(e)].run = run
      /\ worktree[Place(e)].unit = leader[e]
  BY <1>1 DEF Owned, Place
<1>3. IsFiles(Files(e))
  BY <1>2 DEF TypeOK, IsWorktree, Files
<1>4. Diff(e) \in todo /\ Diff(e).ebuild = e
  BY <1>1, RepositoryAssumption, DiffType DEF Linked
<1> QED
  BY <1>1, <1>2, <1>3, <1>4

\* A change touches its own two names only.
TouchesOwnNames(x, new) ==
    \A n : n \notin {OldPath(x), NewPath(x)} =>
        /\ n \in DOMAIN new <=> n \in DOMAIN Files(x)
        /\ n \in DOMAIN new => new[n] = Files(x)[n]

LEMMA RenamedTouches ==
    ASSUME NEW x, NEW file
    PROVE  TouchesOwnNames(x, Renamed(x, file))
BY DEF TouchesOwnNames, Renamed

LEMMA WrittenTouches ==
    ASSUME IInv, NEW x \in Ebuild, change[x] # "absent", NEW c
    PROVE  TouchesOwnNames(x, [Files(x) EXCEPT ![OldPath(x)] = c])
BY PlaceIsOwned DEF TouchesOwnNames, IsFiles

\* What new files in x's worktree are for the other worktrees.
LEMMA SetFilesEffect ==
    ASSUME IInv, NEW x \in Ebuild, change[x] # "absent", NEW new,
           SetFiles(x, new)
    PROVE  /\ DOMAIN worktree' = DOMAIN worktree
           /\ worktree'[Place(x)].files = new
           /\ \A f \in DOMAIN worktree :
                 /\ worktree'[f].run = worktree[f].run
                 /\ worktree'[f].unit = worktree[f].unit
                 /\ f # Place(x) => worktree'[f] = worktree[f]
<1>1. Place(x) \in DOMAIN worktree /\ IsWorktree(worktree[Place(x)])
  BY PlaceIsOwned DEF IInv, WorktreesInv, TypeOK
<1> DEFINE w == [worktree[Place(x)] EXCEPT !.files = new]
<1>2. worktree' = [worktree EXCEPT ![Place(x)] = w]
  BY DEF SetFiles
<1>3. /\ w.run = worktree[Place(x)].run
      /\ w.unit = worktree[Place(x)].unit
      /\ w.files = new
  BY <1>1 DEF IsWorktree
<1>4. worktree = [f \in DOMAIN worktree |-> worktree[f]]
  BY DEF IInv, WorktreesInv, TypeOK
<1> HIDE DEF w
<1> QED
  BY <1>1, <1>2, <1>3, <1>4

---------------------------------------------------------------------------
(* A change moves.                                                         *)

\* Another change's files stay as they were, unless the two changes clash.
LEMMA OthersKeepTheirFiles ==
    ASSUME IInv, NEW x \in Ebuild, change[x] # "absent",
           NEW new, SetFiles(x, new), TouchesOwnNames(x, new),
           UNCHANGED <<todo, groups, leader>>,
           NEW e \in Ebuild, e # x, change[e] # "absent", ~Clashes(e),
           copy'[e] = copy[e]
    PROVE  /\ Pending(e) => Pending(e)'
           /\ Opened(e) => Opened(e)'
           /\ Landed(e) => Landed(e)'
<1> DEFINE new_e == worktree'[Place(e)].files
<1>1. Files(e)' = new_e
  BY NamesStay DEF Files
<1>2. \A n \in {OldPath(e), NewPath(e)} :
         /\ n \in DOMAIN new_e <=> n \in DOMAIN Files(e)
         /\ n \in DOMAIN new_e => new_e[n] = Files(e)[n]
  <2>1. CASE Place(e) # Place(x)
    <3>1. worktree'[Place(e)] = worktree[Place(e)]
      BY <2>1, PlaceIsOwned, SetFilesEffect
    <3> QED
      BY <3>1 DEF Files
  <2>2. CASE Place(e) = Place(x)
    <3>1. leader[e] = leader[x]
      BY <2>2, PlaceIsOwned
    <3>2. x \in {d.ebuild : d \in todo} \ {e}
      BY PlaceIsOwned
    <3>3. {OldPath(x), NewPath(x)} \cap {OldPath(e), NewPath(e)} = {}
      BY <3>1, <3>2 DEF Clashes
    <3>4. new_e = new /\ Files(e) = Files(x)
      BY <2>2, SetFilesEffect DEF Files
    <3> QED
      BY <3>3, <3>4 DEF TouchesOwnNames
  <2> QED
    BY <2>1, <2>2
<1> HIDE DEF new_e
<1>3. OldPath(e)' = OldPath(e) /\ NewPath(e)' = NewPath(e)
  BY NamesStay
<1>4. (Pending(e) => Pending(e)') /\ (Opened(e) => Opened(e)')
  BY <1>1, <1>2, <1>3 DEF Pending, Opened, MainFile
<1>5. Landed(e) => Landed(e)'
  BY <1>1, <1>2, <1>3, OverwrittenStays DEF Landed, MainFile
<1> QED
  BY <1>4, <1>5

LEMMA ChangeMovesOn ==
    ASSUME IInv, AppliedInv, NEW x \in Ebuild, NEW v, SetChange(x, v),
           change[x] # "absent", v \notin {"absent", "started"},
           UNCHANGED <<run, todo, groups, leader, unit, refs>>,
           apply' # "idle",
           v = "manifest" => x \notin HasDate,
           v \in {"reading", "writing"} => x \in HasDate,
           ~Clashes(x) => /\ v = "reading" => Pending(x)'
                          /\ v = "writing" => Opened(x)'
                          /\ v \in {"manifest", "done"} => Landed(x)',
           \A f \in Ebuild \ {x} : copy'[f] = copy[f],
           \/ UNCHANGED worktree
           \/ \E new : TouchesOwnNames(x, new) /\ SetFiles(x, new)
    PROVE  AppliedInv'
<1> USE DEF AppliedInv
<1>1. /\ change'[x] = v
      /\ \A e \in Ebuild \ {x} : change'[e] = change[e]
  BY DEF SetChange, IInv, WorktreesInv, TypeOK
<1>2. Units'
  BY <1>1, PlaceIsOwned DEF Units, IInv, WorktreesInv, TypeOK
<1>3. ProposedOnce'
  BY DEF ProposedOnce
<1>4. CheckedOut'
  <2> SUFFICES ASSUME NEW l \in Ebuild, unit[l] = "populated"
               PROVE  worktree'[FolderOf(l)].files = Checkout
    BY NamesStay DEF CheckedOut, Checkout, OldPath
  <2>1. CASE UNCHANGED worktree
    BY <2>1 DEF CheckedOut
  <2>2. ASSUME NEW new, SetFiles(x, new)
        PROVE  worktree'[FolderOf(l)].files = Checkout
    <3>1. /\ FolderOf(l) \in DOMAIN worktree
          /\ worktree[FolderOf(l)].unit = l
      BY DEF IInv, WorktreesInv, Owned
    <3>2. FolderOf(l) # Place(x)
      BY <3>1, PlaceIsOwned
    <3> QED
      BY <2>2, <3>1, <3>2, SetFilesEffect DEF CheckedOut
  <2> QED
    BY <2>1, <2>2
<1>5. NoneOfThisRun'
  BY DEF NoneOfThisRun
<1>6. ByKind'
  BY <1>1 DEF ByKind
<1>7. Progress'
  <2> SUFFICES ASSUME NEW e \in Ebuild, ~Clashes(e)
               PROVE  /\ change'[e] \in {"started", "reading"} => Pending(e)'
                      /\ change'[e] = "writing" => Opened(e)'
                      /\ change'[e] \in {"manifest", "done"} => Landed(e)'
    BY NamesStay DEF Progress
  <2>1. CASE e = x
    BY <1>1, <2>1
  <2>2. CASE e # x
    <3>1. CASE UNCHANGED worktree
      <4>1. Files(e)' = Files(e)
        BY <3>1, NamesStay DEF Files
      <4> QED
        BY <1>1, <2>2, <4>1, FilesStay DEF Progress
    <3>2. ASSUME NEW new, TouchesOwnNames(x, new), SetFiles(x, new),
                 change[e] # "absent"
          PROVE  /\ Pending(e) => Pending(e)'
                 /\ Opened(e) => Opened(e)'
                 /\ Landed(e) => Landed(e)'
      BY <2>2, <3>2, OthersKeepTheirFiles
    <3> QED
      BY <1>1, <2>2, <3>1, <3>2 DEF Progress
  <2> QED
    BY <2>1, <2>2
<1> QED
  BY <1>2, <1>3, <1>4, <1>5, <1>6, <1>7

\* std::filesystem::rename takes the ebuild to its new name.
LEMMA RenamedLands ==
    ASSUME IInv, AppliedInv, NEW x \in Ebuild, change[x] # "absent",
           NEW file, SetFiles(x, Renamed(x, file)),
           UNCHANGED <<todo, groups, leader, copy>>,
           file = IF x \in HasDate THEN Overwritten(x, MainFile(x))
                  ELSE MainFile(x),
           x \in HasDate => copy[x] \in Copies
    PROVE  Landed(x)'
<1>1. Files(x)' = Renamed(x, file)
  BY SetFilesEffect, NamesStay DEF Files
<1>2. Diff(x) \in todo /\ Diff(x).ebuild = x
  BY PlaceIsOwned
<1>3. NewPath(x) # OldPath(x)
  BY <1>2 DEF AppliedInv, ProposedOnce, NewPath, OldPath
<1>4. /\ OldPath(x) \notin DOMAIN Renamed(x, file)
      /\ NewPath(x) \in DOMAIN Renamed(x, file)
      /\ Renamed(x, file)[NewPath(x)] = file
  BY <1>3 DEF Renamed
<1> QED
  BY <1>1, <1>4, NamesStay, OverwrittenStays DEF Landed, MainFile

\* What is written over the main branch's file while nothing else touches it.
LEMMA WrittenOverMain ==
    ASSUME NEW x, OldPath(x) \in DOMAIN Files(x), Opened(x)
    PROVE  Written(x) = Overwritten(x, MainFile(x))
<1> DEFINE file == Files(x)[OldPath(x)]
<1>1. file = [ebuild |-> x, text |-> "torn", size |-> Size[x]]
  BY DEF Opened, MainFile
<1>2. file.ebuild = x /\ file.size = MainFile(x).size
  BY <1>1 DEF MainFile
<1>3. Written(x) = Overwritten(x, file)
  BY <1>2 DEF Written
<1> HIDE DEF file
<1> QED
  BY <1>2, <1>3 DEF Overwritten

LEMMA ChangeStepKeepsApplied ==
    ASSUME IInv, AppliedInv, NEW x \in Ebuild, ChangeStep(x)
    PROVE  AppliedInv'
<1> USE DEF ChangeAwaiting, persistent
<1>0. apply' # "idle"
  BY CoroutineStepIsNotFresh
<1>1. /\ ~Clashes(x) /\ change[x] \in {"started", "reading"} => Pending(x)
      /\ ~Clashes(x) /\ change[x] = "writing" => Opened(x)
      /\ ~Clashes(x) /\ change[x] = "manifest" => Landed(x)
      /\ change[x] = "manifest" => x \notin HasDate
      /\ change[x] \in {"reading", "writing"} => x \in HasDate
  BY DEF AppliedInv, Progress, ByKind
<1>2. CASE RenamesByVersion(x)
  <2>1. /\ change[x] = "started" /\ x \notin HasDate
        /\ UNCHANGED <<run, todo, groups, leader, copy, unit, refs>>
    BY <1>2 DEF RenamesByVersion
  <2>2. CASE /\ Renames(x, Files(x)[OldPath(x)])
             /\ SetChange(x, "manifest")
    <3>1. ~Clashes(x) => Landed(x)'
      BY <1>1, <2>1, <2>2, RenamedLands DEF Renames, Pending
    <3> QED
      BY <1>0, <2>1, <2>2, <3>1, RenamedTouches, ChangeMovesOn DEF Renames
  <2>3. CASE /\ Renames(x, Files(x)[OldPath(x)]) \/ UNCHANGED worktree
             /\ SetChange(x, "failed") \/ SetChange(x, "threw")
    BY <1>0, <2>1, <2>3, RenamedTouches, ChangeMovesOn DEF Renames
  <2> QED
    BY <1>2, <2>2, <2>3 DEF RenamesByVersion, ChangeFails, ChangeThrows
<1>3. CASE ManifestExits(x)
  <2>1. /\ change[x] = "manifest"
        /\ UNCHANGED <<run, todo, groups, leader, copy, unit, refs, worktree>>
        /\ SetChange(x, "done") \/ SetChange(x, "failed")
    BY <1>3 DEF ManifestExits, ChangeFails
  <2>2. ~Clashes(x) => Landed(x)'
    BY <1>1, <2>1, NamesStay, FilesStay DEF Files
  <2> QED
    BY <1>0, <2>1, <2>2, ChangeMovesOn
<1>4. CASE ReadsEbuild(x)
  <2>1. /\ change[x] = "started" /\ x \in HasDate
        /\ UNCHANGED <<run, todo, groups, leader, copy, unit, refs, worktree>>
        /\ SetChange(x, "reading") \/ SetChange(x, "threw")
    BY <1>4 DEF ReadsEbuild, ChangeThrows
  <2>2. ~Clashes(x) => Pending(x)'
    BY <1>1, <2>1, NamesStay, FilesStay DEF Files
  <2> QED
    BY <1>0, <2>1, <2>2, ChangeMovesOn
<1>5. CASE WritesEbuild(x)
  <2>1. /\ change[x] = "reading" /\ x \in HasDate
        /\ UNCHANGED <<run, todo, groups, leader, unit, refs>>
        /\ \A f \in Ebuild \ {x} : copy'[f] = copy[f]
    BY <1>1, <1>5, WritesCopies DEF WritesEbuild, IInv
  <2> DEFINE new == [Files(x) EXCEPT ![OldPath(x)] =
                        [ebuild |-> x, text |-> "torn", size |-> @.size]]
  <2>2. CASE /\ OldPath(x) \in DOMAIN Files(x)
             /\ SetFiles(x, new)
             /\ SetChange(x, "writing")
    <3>1. Files(x)' = new
      BY <2>1, <2>2, SetFilesEffect, NamesStay DEF Files
    <3>2. ~Clashes(x) => Opened(x)'
      <4> SUFFICES ASSUME ~Clashes(x) PROVE Opened(x)'
        OBVIOUS
      <4>1. Files(x)[OldPath(x)] = MainFile(x)
        BY <1>1, <2>1, <2>2 DEF Pending
      <4>2. new[OldPath(x)] = [MainFile(x) EXCEPT !.text = "torn"]
        BY <2>1, <2>2, <4>1, PlaceIsOwned DEF IsFiles, MainFile
      <4> HIDE DEF new
      <4> QED
        BY <2>1, <3>1, <4>2, NamesStay DEF Opened, MainFile
    <3>3. TouchesOwnNames(x, new)
      BY <2>1, WrittenTouches
    <3> QED
      BY <1>0, <2>1, <2>2, <3>2, <3>3, ChangeMovesOn
  <2>3. CASE /\ UNCHANGED worktree
             /\ SetChange(x, "threw") \/ SetChange(x, "failed")
    BY <1>0, <2>1, <2>3, ChangeMovesOn
  <2> QED
    BY <1>5, <2>2, <2>3 DEF WritesEbuild, ChangeFails, ChangeThrows
<1>6. CASE RenamesByDate(x)
  <2>1. /\ change[x] = "writing" /\ x \in HasDate
        /\ UNCHANGED <<run, todo, groups, leader, copy, unit, refs>>
    BY <1>1, <1>6 DEF RenamesByDate
  <2>2. CASE Renames(x, Written(x)) /\ SetChange(x, "done")
    <3>1. ~Clashes(x) => Landed(x)'
      <4> SUFFICES ASSUME ~Clashes(x) PROVE Landed(x)'
        OBVIOUS
      <4>1. OldPath(x) \in DOMAIN Files(x) /\ SetFiles(x, Renamed(x, Written(x)))
        BY <2>2 DEF Renames
      <4>2. Written(x) = Overwritten(x, MainFile(x))
        BY <1>1, <2>1, <4>1, WrittenOverMain
      <4>3. copy[x] \in Copies
        BY <2>1 DEF IInv, WorktreesInv, HasRead
      <4> QED
        BY <2>1, <4>1, <4>2, <4>3, RenamedLands
    <3> QED
      BY <1>0, <2>1, <2>2, <3>1, RenamedTouches, ChangeMovesOn DEF Renames
  <2>3. CASE UNCHANGED worktree /\ SetChange(x, "failed")
    BY <1>0, <2>1, <2>3, ChangeMovesOn
  <2> QED
    BY <1>6, <2>2, <2>3 DEF RenamesByDate, ChangeFails
<1>7. CASE UnwindsChange(x)
  BY <1>0, <1>7, ChangeMovesOn DEF UnwindsChange
<1> QED
  BY <1>2, <1>3, <1>4, <1>5, <1>6, <1>7 DEF ChangeStep

---------------------------------------------------------------------------
(* A unit moves.                                                           *)

\* ... and starts no change and makes no worktree.
LEMMA UnitMovesOn ==
    ASSUME IInv, AppliedInv, NEW l \in Ebuild, SetUnit(l, unit'[l]),
           unit'[l] \notin {"absent", "populated", "done"}, apply' # "idle",
           UNCHANGED <<run, todo, groups, leader, change, copy, worktree>>
    PROVE  AppliedInv'
<1> USE DEF AppliedInv
<1>1. \A m \in Ebuild : m # l => unit'[m] = unit[m]
  BY DEF SetUnit, IInv, WorktreesInv, TypeOK
<1>2. \A e : Files(e)' = Files(e)
  BY NamesStay DEF Files
<1>3. Units'
  BY <1>1 DEF Units, IInv, WorktreesInv, TypeOK
<1>4. ProposedOnce' /\ NoneOfThisRun' /\ ByKind'
  BY DEF ProposedOnce, NoneOfThisRun, ByKind
<1>5. CheckedOut'
  BY <1>1, NamesStay DEF CheckedOut, Checkout, OldPath
<1>6. Progress'
  <2>1. \A e \in Ebuild : /\ Clashes(e)' = Clashes(e)
                          /\ Pending(e)' <=> Pending(e)
                          /\ Opened(e)' <=> Opened(e)
                          /\ Landed(e)' <=> Landed(e)
    BY <1>2, FilesStay, NamesStay
  <2> QED
    BY <2>1 DEF Progress
<1> QED
  BY <1>3, <1>4, <1>5, <1>6

\* git checks the main branch out into a folder that no change works in.
LEMMA GitPopulatesKeepsApplied ==
    ASSUME IInv, AppliedInv, NEW l \in Ebuild, GitPopulates(l)
    PROVE  AppliedInv'
<1> USE DEF AppliedInv
<1>1. /\ UNCHANGED <<run, apply, todo, groups, leader, copy, change>>
      /\ FolderOf(l) \notin DOMAIN worktree
      /\ unit[l] = "branched"
      /\ worktree'[FolderOf(l)].files = Checkout
      /\ \A f \in DOMAIN worktree : worktree'[f] = worktree[f]
      /\ unit'[l] = "populated"
      /\ \A m \in Ebuild : m # l => unit'[m] = unit[m]
  BY DEF GitPopulates, SetUnit, IInv, WorktreesInv, TypeOK
<1>2. apply # "idle"
  BY <1>1 DEF IInv, Fresh
<1>3. Units'
  BY <1>1 DEF Units, IInv, WorktreesInv, TypeOK
<1>4. ProposedOnce' /\ NoneOfThisRun' /\ ByKind'
  BY <1>1, <1>2 DEF ProposedOnce, NoneOfThisRun, ByKind
<1>5. CheckedOut'
  <2>1. \A m \in Ebuild : unit[m] = "populated" => FolderOf(m) \in DOMAIN worktree
    BY DEF IInv, WorktreesInv, Owned
  <2> QED
    BY <1>1, <2>1, NamesStay DEF CheckedOut, Checkout, OldPath
<1>6. Progress'
  <2>1. \A e \in Ebuild : change[e] # "absent" => Files(e)' = Files(e)
    BY <1>1, PlaceIsOwned, NamesStay DEF Files
  <2>2. \A e \in Ebuild : /\ Clashes(e)' = Clashes(e)
                          /\ change[e] # "absent" =>
                                /\ Pending(e)' <=> Pending(e)
                                /\ Opened(e)' <=> Opened(e)
                                /\ Landed(e)' <=> Landed(e)
    BY <1>1, <2>1, FilesStay, NamesStay
  <2> QED
    BY <1>1, <2>2 DEF Progress
<1> QED
  BY <1>3, <1>4, <1>5, <1>6

\* The changes of a unit start on what git checked out.
LEMMA StartsChangesKeepsApplied ==
    ASSUME IInv, AppliedInv, NEW l \in Ebuild, StartsChanges(l)
    PROVE  AppliedInv'
<1> USE DEF AppliedInv
<1>1. /\ UNCHANGED <<run, apply, todo, groups, leader, copy, worktree>>
      /\ unit[l] = "populated"
      /\ unit' = [unit EXCEPT ![l] = "done"]
      /\ change' = [e \in Ebuild |->
                       IF leader[e] = l THEN "started" ELSE change[e]]
  BY DEF StartsChanges, SetUnit, persistent, Undisturbed
<1>2. unit \in [Ebuild -> {"absent"} \cup UnitAwaiting \cup Ended]
  BY DEF IInv, WorktreesInv, TypeOK
<1>3. Units'
  BY <1>1, <1>2 DEF Units
<1>4. ProposedOnce' /\ NoneOfThisRun' /\ ByKind'
  BY <1>1 DEF ProposedOnce, NoneOfThisRun, ByKind
<1>5. CheckedOut'
  BY <1>1, <1>2, NamesStay DEF CheckedOut, Checkout, OldPath
<1>6. \A e : Files(e)' = Files(e)
  BY <1>1, NamesStay DEF Files
<1>7. ASSUME NEW e \in Ebuild, leader[e] = l
      PROVE  Pending(e)'
  <2>1. Files(e) = Checkout
    BY <1>1, <1>7 DEF CheckedOut, Files, Place
  <2> QED
    BY <1>1, <1>6, <2>1, CheckoutHolds, NamesStay DEF Pending
<1>8. Progress'
  <2>1. \A e \in Ebuild : /\ Clashes(e)' = Clashes(e)
                          /\ Pending(e)' <=> Pending(e)
                          /\ Opened(e)' <=> Opened(e)
                          /\ Landed(e)' <=> Landed(e)
    BY <1>1, <1>6, FilesStay, NamesStay
  <2> QED
    BY <1>1, <1>7, <2>1 DEF Progress
<1> QED
  BY <1>3, <1>4, <1>5, <1>8

LEMMA UnitStepKeepsApplied ==
    ASSUME IInv, AppliedInv, NEW l \in Ebuild, UnitStep(l)
    PROVE  AppliedInv'
<1>1. apply' # "idle"
  BY CoroutineStepIsNotFresh
<1>2. unit \in [Ebuild -> {"absent"} \cup UnitAwaiting \cup Ended]
  BY DEF IInv, WorktreesInv, TypeOK
<1>3. CASE GitPopulates(l)
  BY <1>3, GitPopulatesKeepsApplied
<1>4. CASE StartsChanges(l)
  BY <1>4, StartsChangesKeepsApplied
<1>5. CASE \/ LaunchesGit(l) \/ GitBranches(l) \/ GitRefuses(l)
           \/ UnitFails(l) \/ UnwindsUnit(l)
  <2>1. /\ SetUnit(l, unit'[l])
        /\ unit'[l] \notin {"absent", "populated", "done"}
        /\ UNCHANGED <<run, todo, groups, leader, change, copy, worktree>>
    BY <1>2, <1>5 DEF SetUnit, LaunchesGit, GitBranches, GitRefuses, UnitFails,
                      UnwindsUnit, persistent
  <2> QED
    BY <1>1, <2>1, UnitMovesOn
<1> QED
  BY <1>3, <1>4, <1>5 DEF UnitStep

---------------------------------------------------------------------------
(* The steps between the nurseries.                                        *)

\* The loops of chief_logic start the unit of every change: the first of its
\* group, or itself.
LEMMA BeginKeepsApplied ==
    ASSUME IInv, AppliedInv, NEW t \in Proposals, NEW file \in GroupsFiles,
           Begin(t, file)
    PROVE  AppliedInv'
<1> USE DEF AppliedInv
<1> DEFINE Proposed == {d.ebuild : d \in t}
           At(e) == GroupOf(file, PackageOf[e])
<1>1. PICK first \in [DOMAIN file -> Ebuild] :
         /\ \A n \in DOMAIN file : first[n] \in Members(t, file, n)
         /\ leader' = [e \in Ebuild |->
               IF e \notin Proposed THEN None
               ELSE IF At(e) = 0 THEN e ELSE first[At(e)]]
  BY DEF Begin
<1>2. \A e \in Ebuild : At(e) # 0 => At(e) \in DOMAIN file
  BY DEF GroupOf
<1>3. \A n \in DOMAIN file : first[n] \in Proposed /\ At(first[n]) = n
  BY <1>1 DEF Members
<1>4. /\ unit' = [e \in Ebuild |->
                     IF leader'[e] = e THEN "started" ELSE "absent"]
      /\ todo' = t /\ apply' = "open" /\ apply = "idle"
      /\ UNCHANGED <<run, change, worktree>>
  BY DEF Begin, persistent
<1>5. t \subseteq InfoForDiff
  BY ProposalsAssumption
<1>6. Proposed \subseteq Ebuild
  BY <1>5 DEF InfoForDiff
<1>7. \A e \in Ebuild : change[e] = "absent"
  BY <1>4 DEF IInv, Fresh
<1>8. Units'
  <2>1. \A e \in Ebuild :
           leader'[e] # None => /\ leader'[e] \in Ebuild
                                /\ leader'[leader'[e]] = leader'[e]
    <3> SUFFICES ASSUME NEW e \in Ebuild, leader'[e] # None
                 PROVE  /\ leader'[e] \in Ebuild
                        /\ leader'[leader'[e]] = leader'[e]
      OBVIOUS
    <3>1. CASE At(e) = 0
      BY <1>1, <3>1
    <3>2. CASE At(e) # 0
      <4>1. leader'[e] = first[At(e)]
        BY <1>1, <3>2
      <4>2. leader'[first[At(e)]] = first[At(e)]
        BY <1>1, <1>2, <1>3, <3>2
      <4> QED
        BY <1>1, <1>2, <3>2, <4>1, <4>2
    <3> QED
      BY <3>1, <3>2
  <2>2. \A e \in Ebuild : unit'[e] # "done"
    BY <1>4
  <2>3. \A d \in t : leader'[d.ebuild] # None
    <3> SUFFICES ASSUME NEW d \in t PROVE leader'[d.ebuild] # None
      OBVIOUS
    <3>1. d.ebuild \in Proposed /\ d.ebuild \in Ebuild
      BY <1>6
    <3> QED
      BY <1>1, <1>2, <3>1, RepositoryAssumption
  <2> QED
    BY <1>4, <2>1, <2>2, <2>3 DEF Units
<1>9. ProposedOnce'
  BY <1>4, ProposalsAssumption DEF ProposedOnce
<1>10. CheckedOut' /\ NoneOfThisRun' /\ ByKind' /\ Progress'
  BY <1>4, <1>7 DEF CheckedOut, NoneOfThisRun, ByKind, Progress
<1> QED
  BY <1>8, <1>9, <1>10

\* No worktree belongs to a run that is still to come.
LEMMA RestartKeepsApplied ==
    ASSUME IInv, Restart
    PROVE  AppliedInv'
<1>1. run \in Nat /\ run' = run + 1
  BY DEF IInv, WorktreesInv, TypeOK, Restart
<1>2. \A f \in DOMAIN worktree : worktree[f].run \in 1..run
  BY DEF IInv, WorktreesInv, TypeOK, IsWorktree
<1>3. NoneOfThisRun'
  BY <1>1, <1>2 DEF NoneOfThisRun, Restart, persistent
<1>4. Units' /\ ProposedOnce' /\ CheckedOut' /\ ByKind' /\ Progress'
  BY DEF Restart, Units, ProposedOnce, CheckedOut, ByKind, Progress
<1> QED
  BY <1>3, <1>4 DEF AppliedInv

\* A step that leaves the coroutines and the repository alone.
LEMMA ControlKeepsApplied ==
    ASSUME AppliedInv, apply' = "idle" => apply = "idle",
           UNCHANGED <<run, todo, groups, leader, unit, change, copy, persistent>>
    PROVE  AppliedInv'
<1> USE DEF AppliedInv, persistent
<1>1. \A e : Files(e)' = Files(e)
  BY NamesStay DEF Files
<1>2. Units' /\ ProposedOnce' /\ NoneOfThisRun' /\ ByKind'
  BY DEF Units, ProposedOnce, NoneOfThisRun, ByKind
<1>3. CheckedOut'
  BY NamesStay DEF CheckedOut, Checkout, OldPath
<1>4. \A e \in Ebuild : /\ Clashes(e)' = Clashes(e)
                        /\ Pending(e)' <=> Pending(e)
                        /\ Opened(e)' <=> Opened(e)
                        /\ Landed(e)' <=> Landed(e)
  BY <1>1, FilesStay, NamesStay
<1>5. Progress'
  BY <1>4 DEF Progress
<1> QED
  BY <1>2, <1>3, <1>5

LEMMA NextKeepsApplied ==
    ASSUME IInv, AppliedInv, [Next]_vars
    PROVE  AppliedInv'
<1>1. ASSUME NEW t \in Proposals, NEW file \in GroupsFiles, Begin(t, file)
      PROVE  AppliedInv'
  BY <1>1, BeginKeepsApplied
<1>2. ASSUME NEW t \in Proposals, NEW file \in GroupsFiles,
             BeginCrashes(t, file)
      PROVE  AppliedInv'
  BY <1>2, ControlKeepsApplied DEF BeginCrashes
<1>3. ASSUME NEW e \in Ebuild, UnitStep(e) \/ ChangeStep(e)
      PROVE  AppliedInv'
  BY <1>3, UnitStepKeepsApplied, ChangeStepKeepsApplied
<1>4. CASE JoinApply
  BY <1>4, ControlKeepsApplied DEF JoinApply
<1>5. CASE Interrupt
  BY <1>5, ControlKeepsApplied DEF Interrupt
<1>6. CASE Restart
  BY <1>6, RestartKeepsApplied
<1>7. CASE UNCHANGED vars
  BY <1>7, ControlKeepsApplied DEF vars, volatile
<1> QED
  BY <1>1, <1>2, <1>3, <1>4, <1>5, <1>6, <1>7
     DEF Next, NurseryStep, AllRunsOver

LEMMA InitApplied == Init => AppliedInv
BY DEF Init, AppliedInv, Units, ProposedOnce, CheckedOut, NoneOfThisRun,
       ByKind, Progress

---------------------------------------------------------------------------
(* What a run that reports success has done.                               *)

LEMMA LongEnough ==
    ASSUME NEW k \in Nat, NEW m \in Nat, NEW l \in Nat
    PROVE  /\ ~(k - l < m) <=> k >= m + l
           /\ ~(k < m) <=> k >= m + 0
OBVIOUS

LEMMA LandedIsEdited ==
    ASSUME TypeOK, NEW e \in Ebuild, e \in HasDate, Landed(e),
           Diff(e).new_commit \in {"sha", ""}
    PROVE  LET lost == IF Diff(e).new_commit = "" THEN CommitSize ELSE 0
           IN  Files(e)[NewPath(e)].text = "edited" <=>
                   copy[e].pinned /\ copy[e].size >= Size[e] + lost
<1> DEFINE z == EdittedSize(e)
           text == Files(e)[NewPath(e)].text
<1>1. /\ copy[e].size \in Nat /\ copy[e].pinned \in BOOLEAN
      /\ CommitSize \in Nat /\ Size[e] \in Nat
  BY CopiesAssumption, RepositoryAssumption DEF Landed
<1>2. z = IF copy[e].pinned /\ Diff(e).new_commit = ""
          THEN copy[e].size - CommitSize
          ELSE copy[e].size
  BY DEF EdittedSize
<1>3. text = Overwritten(e, MainFile(e)).text
  BY DEF Landed
<1>4. MainFile(e).size = Size[e]
  BY DEF MainFile
<1>5. /\ z < Size[e] => Overwritten(e, MainFile(e)).text = "torn"
      /\ ~(z < Size[e]) =>
            Overwritten(e, MainFile(e)).text = EdittedText(e)
  BY <1>4 DEF Overwritten
<1>6. EdittedText(e) = IF copy[e].pinned THEN "edited" ELSE "unedited"
  BY DEF EdittedText
<1> HIDE DEF z, text
<1>7. text = "edited" <=> ~(z < Size[e]) /\ copy[e].pinned
  <2>1. CASE z < Size[e]
    BY <2>1, <1>3, <1>5
  <2>2. CASE ~(z < Size[e])
    BY <2>2, <1>3, <1>5, <1>6
  <2> QED
    BY <2>1, <2>2
<1>8. CASE Diff(e).new_commit = ""
  <2>1. copy[e].pinned => (~(z < Size[e]) <=> copy[e].size >= Size[e] + CommitSize)
    BY <1>1, <1>2, <1>8, LongEnough
  <2> QED
    BY <1>7, <1>8, <2>1 DEF text
<1>9. CASE Diff(e).new_commit = "sha"
  <2>1. copy[e].pinned => (~(z < Size[e]) <=> copy[e].size >= Size[e] + 0)
    BY <1>1, <1>2, <1>9, LongEnough
  <2> QED
    BY <1>7, <1>9, <2>1 DEF text
<1> QED
  BY <1>8, <1>9

LEMMA JoinedIsApplied ==
    ASSUME IInv, AppliedInv, ReportInv
    PROVE  SuccessMeansApplied
<1> SUFFICES ASSUME apply = "joined", return_code = "none", NEW d \in todo
             PROVE  LET e == d.ebuild
                        file == Files(e)[NewPath(e)]
                        lost == IF d.new_commit = "" THEN CommitSize ELSE 0
                    IN  /\ change[e] = "done"
                        /\ ~Clashes(e) =>
                              /\ OldPath(e) \notin DOMAIN Files(e)
                              /\ NewPath(e) \in DOMAIN Files(e)
                              /\ file.ebuild = e
                              /\ IF e \in HasDate
                                 THEN file.text = "edited" <=>
                                         /\ copy[e].pinned
                                         /\ copy[e].size >= Size[e] + lost
                                 ELSE file.text = "main"
  BY DEF SuccessMeansApplied
<1> DEFINE e == d.ebuild
<1>1. Completes
  BY DEF ReportInv, FailureReported, ApplyFailed
<1>2. e \in Ebuild /\ leader[e] # None
  BY DEF AppliedInv, Units, IInv, WorktreesInv, TypeOK, InfoForDiff
<1>3. leader[e] \in Ebuild /\ unit[leader[e]] # "absent"
  BY <1>2 DEF AppliedInv, Units, IInv, WorktreesInv, TypeOK
<1>4. unit[leader[e]] = "done"
  BY <1>1, <1>3 DEF Completes
<1>5. change[e] = "done"
  BY <1>1, <1>2, <1>4 DEF Completes, AppliedInv, Units
<1>6. Diff(e) = d
  BY <1>2, <1>5, PlaceIsOwned DEF AppliedInv, ProposedOnce
<1>7. ~Clashes(e) => Landed(e)
  BY <1>2, <1>5 DEF AppliedInv, Progress
<1>8. Landed(e) => Files(e)[NewPath(e)].ebuild = e
  BY DEF Landed, Overwritten, MainFile
<1>9. Landed(e) /\ e \notin HasDate => Files(e)[NewPath(e)].text = "main"
  BY DEF Landed, MainFile
<1>10. TypeOK /\ d.new_commit \in {"sha", ""}
  BY DEF IInv, WorktreesInv, TypeOK, InfoForDiff
<1>11. Landed(e) /\ e \in HasDate =>
          (Files(e)[NewPath(e)].text = "edited" <=>
              /\ copy[e].pinned
              /\ copy[e].size >= Size[e] + IF d.new_commit = "" THEN CommitSize
                                           ELSE 0)
  BY <1>2, <1>6, <1>10, LandedIsEdited
<1> HIDE DEF e
<1> QED
  BY <1>5, <1>7, <1>8, <1>9, <1>11 DEF Landed, e

\* A run that joins without a failure has applied every proposed change: the
\* unit of each was started, so it ended with its worktree, so its changes were
\* started, so they ended, and a change that has ended is in its new file.
THEOREM SuccessIsReal == Spec => []SuccessMeansApplied
<1>1. Init => ReportInv
  BY DEF Init, ReportInv, Caused, Holds, ApplyFailed, FailureReported,
         ApplyClosed
<1> QED
  BY InitIInv, NextKeepsIInv, InitApplied, NextKeepsApplied, <1>1,
     NextKeepsReportInv, JoinedIsApplied, PTL DEF Spec

---------------------------------------------------------------------------
(* What a change leaves alone.                                             *)

\* Ebuild e is in worktree w as on the main branch, or belongs to w's unit, or
\* was replaced by one of w's unit.
Untouched(e, w) ==
    \/ leader[e] = w.unit
    \/ /\ OldPath(e) \in DOMAIN w.files
       /\ w.files[OldPath(e)] = MainFile(e)
    \/ \E d \in todo :
          /\ leader[d.ebuild] = w.unit
          /\ NewPath(d.ebuild) = OldPath(e)

LEMMA UntouchedStays ==
    ASSUME UNCHANGED <<todo, groups, leader>>, NEW e, NEW w, NEW w2,
           w2.unit = w.unit,
           OldPath(e) \in DOMAIN w.files =>
                /\ OldPath(e) \in DOMAIN w2.files
                /\ w2.files[OldPath(e)] = w.files[OldPath(e)],
           Untouched(e, w)
    PROVE  Untouched(e, w2)'
BY NamesStay DEF Untouched, MainFile

\* A change that touches its own two names only leaves the rest of its worktree
\* alone.
LEMMA ChangeKeepsOthers ==
    ASSUME IInv, OthersUntouched, NEW x \in Ebuild, change[x] # "absent",
           NEW new, TouchesOwnNames(x, new), SetFiles(x, new),
           UNCHANGED <<run, todo, groups, leader>>
    PROVE  OthersUntouched'
<1> SUFFICES ASSUME NEW f \in DOMAIN worktree, worktree[f].run = run,
                    NEW e \in Tracked
             PROVE  Untouched(e, worktree[f])'
  BY SetFilesEffect DEF OthersUntouched, Untouched
<1>1. Untouched(e, worktree[f])
  BY DEF OthersUntouched, Untouched
<1>2. worktree'[f].unit = worktree[f].unit
  BY SetFilesEffect
<1>3. CASE f # Place(x)
  <2>1. worktree'[f].files = worktree[f].files
    BY <1>3, SetFilesEffect
  <2> QED
    BY <1>1, <1>2, <2>1, UntouchedStays DEF Untouched, MainFile
<1>4. CASE f = Place(x) /\ leader[e] # leader[x] /\ NewPath(x) # OldPath(e)
  <2>1. OldPath(e) # OldPath(x)
    BY <1>4, OldPathIsUnique, RepositoryAssumption
  <2>2. worktree'[f].files = new /\ worktree[f].files = Files(x)
    BY <1>4, SetFilesEffect DEF Files
  <2>3. OldPath(e) \in DOMAIN worktree[f].files =>
            /\ OldPath(e) \in DOMAIN worktree'[f].files
            /\ worktree'[f].files[OldPath(e)] = worktree[f].files[OldPath(e)]
    BY <1>4, <2>1, <2>2 DEF TouchesOwnNames
  <2> QED
    BY <1>1, <1>2, <2>3, UntouchedStays DEF Untouched, MainFile
<1>5. CASE f = Place(x) /\ leader[e] = leader[x]
  BY <1>2, <1>5, PlaceIsOwned DEF Untouched
<1>6. CASE f = Place(x) /\ NewPath(x) = OldPath(e)
  BY <1>2, <1>6, PlaceIsOwned, NamesStay DEF Untouched
<1> QED
  BY <1>3, <1>4, <1>5, <1>6

LEMMA GitPopulatesKeepsOthers ==
    ASSUME OthersUntouched, NEW l \in Ebuild, GitPopulates(l)
    PROVE  OthersUntouched'
<1> DEFINE w == [run |-> run, unit |-> l, files |-> Checkout]
<1>1. /\ DOMAIN worktree' = DOMAIN worktree \cup {FolderOf(l)}
      /\ worktree'[FolderOf(l)] = w
      /\ \A f \in DOMAIN worktree : worktree'[f] = worktree[f]
      /\ UNCHANGED <<run, todo, groups, leader>>
  BY DEF GitPopulates
<1> SUFFICES ASSUME NEW f \in DOMAIN worktree', worktree'[f].run = run,
                    NEW e \in Tracked
             PROVE  Untouched(e, worktree[f])'
  BY <1>1 DEF OthersUntouched, Untouched
<1>2. CASE f \in DOMAIN worktree
  <2>1. Untouched(e, worktree[f])
    BY <1>1, <1>2 DEF OthersUntouched, Untouched
  <2> QED
    BY <1>1, <1>2, <2>1, UntouchedStays DEF Untouched, MainFile
<1>3. CASE f = FolderOf(l)
  <2>1. OldPath(e) \in DOMAIN Checkout
    BY DEF Checkout
  <2>2. Checkout[OldPath(e)] = MainFile(e)
    BY <2>1, CheckoutHolds, RepositoryAssumption
  <2>3. Untouched(e, w)
    BY <2>1, <2>2 DEF Untouched
  <2>4. worktree'[f] = w
    BY <1>1, <1>3
  <2> HIDE DEF w
  <2> QED
    BY <1>1, <2>3, <2>4, UntouchedStays DEF Untouched, MainFile
<1> QED
  BY <1>1, <1>2, <1>3

LEMMA NextKeepsOthers ==
    ASSUME IInv, AppliedInv, OthersUntouched, [Next]_vars
    PROVE  OthersUntouched'
<1>1. CASE UNCHANGED <<run, todo, groups, leader, worktree>>
  <2>1. \A e : OldPath(e)' = OldPath(e) /\ NewPath(e)' = NewPath(e)
    BY <1>1, NamesStay
  <2> QED
    BY <1>1, <2>1 DEF OthersUntouched, MainFile
<1>2. ASSUME NEW t \in Proposals, NEW file \in GroupsFiles, Begin(t, file)
      PROVE  OthersUntouched'
  BY <1>2 DEF OthersUntouched, AppliedInv, NoneOfThisRun, Begin, persistent
<1>3. CASE Restart
  <2>1. NoneOfThisRun' /\ apply' = "idle"
    BY <1>3, RestartKeepsApplied DEF AppliedInv, Restart
  <2> QED
    BY <2>1 DEF NoneOfThisRun, OthersUntouched
<1>4. ASSUME NEW l \in Ebuild, GitPopulates(l)
      PROVE  OthersUntouched'
  BY <1>4, GitPopulatesKeepsOthers
<1>5. ASSUME NEW x \in Ebuild, ChangeStep(x)
      PROVE  OthersUntouched'
  <2>1. change[x] # "absent" /\ UNCHANGED <<run, todo, groups, leader>>
    BY <1>5 DEF ChangeStep, RenamesByVersion, ManifestExits, ReadsEbuild,
                WritesEbuild, RenamesByDate, UnwindsChange, ChangeAwaiting
  <2>2. \/ UNCHANGED worktree
        \/ \E new : TouchesOwnNames(x, new) /\ SetFiles(x, new)
    BY <1>5, <2>1, RenamedTouches, WrittenTouches
       DEF ChangeStep, RenamesByVersion, ManifestExits, ReadsEbuild,
           WritesEbuild, RenamesByDate, UnwindsChange, Renames, persistent
  <2> QED
    BY <1>1, <2>1, <2>2, ChangeKeepsOthers
<1>6. \/ UNCHANGED <<run, todo, groups, leader, worktree>>
      \/ \E t \in Proposals, file \in GroupsFiles : Begin(t, file)
      \/ Restart
      \/ \E e \in Ebuild : GitPopulates(e) \/ ChangeStep(e)
  BY DEF Next, NurseryStep, UnitStep, LaunchesGit, GitBranches, GitRefuses,
         StartsChanges, UnitFails, UnwindsUnit, JoinApply, Interrupt,
         BeginCrashes, AllRunsOver, vars, volatile, persistent
<1> QED
  BY <1>1, <1>2, <1>3, <1>4, <1>5, <1>6

\* A worktree differs from the main branch only in what its own unit changed,
\* whatever the other coroutines, their failures and earlier runs did.
THEOREM NothingElseIsTouched == Spec => []OthersUntouched
<1>1. Init => OthersUntouched
  BY DEF Init, OthersUntouched
<1> QED
  BY InitIInv, NextKeepsIInv, InitApplied, NextKeepsApplied, <1>1,
     NextKeepsOthers, PTL DEF Spec

===========================================================================
