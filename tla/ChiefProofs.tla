----------------------------- MODULE ChiefProofs -----------------------------
(***************************************************************************)
(* Theorems about the whole program, for every repository, every           *)
(* groups-ci.json and every value of -J: its two nurseries composed.       *)
(*                                                                         *)
(* Chief moves the variables of Scan and of Worktrees by their own steps,  *)
(* so the invariants proved of each (ScanProofs, WorktreesProofs) hold in  *)
(* Chief; Order then says what each await of chief_logic may rely on.      *)
(***************************************************************************)
EXTENDS Chief, TLAPS

SP == INSTANCE ScanProofs
WP == INSTANCE WorktreesProofs WITH Proposals <- Upgrades, MaxRuns <- 1

---------------------------------------------------------------------------
(* What the two halves assume holds.                                       *)

LEMMA ScanAssumptions == SP!ConcurrencyAssumption /\ SP!EbuildAssumption
<1>1. SP!IsFiniteSet(Ebuild)
  BY ChiefAssumption DEF SP!IsFiniteSet, IsFiniteSet
<1> QED
  BY ChiefAssumption, <1>1 DEF SP!EbuildAssumption, SP!ConcurrencyAssumption

Proposable(t) ==
    /\ t \subseteq W!InfoForDiff
    /\ \A c, d \in t : c.ebuild = d.ebuild => c = d
    /\ \A d \in t : d.new_ver # Current[d.ebuild]

LEMMA UpgradesAre == \A t : t \in Upgrades <=> Proposable(t)
<1>1. ASSUME NEW t \in Upgrades
      PROVE  Proposable(t)
  <2>1. PICK some \in SUBSET Ebuild :
           t \in {{f[e] : e \in some} :
                     f \in {g \in [some -> UNION {Upgrade(e) : e \in some}] :
                               \A e \in some : g[e] \in Upgrade(e)}}
    BY DEF Upgrades
  <2>2. PICK f \in [some -> UNION {Upgrade(e) : e \in some}] :
           /\ \A e \in some : f[e] \in Upgrade(e)
           /\ t = {f[e] : e \in some}
    BY <2>1
  <2> QED
    BY <2>2 DEF Upgrade, Proposable
<1>2. ASSUME NEW t, Proposable(t)
      PROVE  t \in Upgrades
  <2> DEFINE some == {d.ebuild : d \in t}
             f == [e \in some |-> CHOOSE d \in t : d.ebuild = e]
  <2>1. \A e \in some : f[e] \in t /\ f[e].ebuild = e
    OBVIOUS
  <2>2. \A d \in t : d \in W!InfoForDiff /\ d.new_ver # Current[d.ebuild]
    BY <1>2 DEF Proposable
  <2>3. \A e \in some : f[e] \in Upgrade(e)
    BY <2>1, <2>2 DEF Upgrade
  <2>4. \A d \in t : d.ebuild \in some /\ f[d.ebuild] = d
    BY <1>2, <2>1 DEF Proposable
  <2>5. some \in SUBSET Ebuild
    BY <2>2 DEF W!InfoForDiff
  <2>6. f \in [some -> UNION {Upgrade(e) : e \in some}]
    <3> DEFINE U == UNION {Upgrade(e) : e \in some}
    <3>1. \A e \in some : f[e] \in U
      <4> HIDE DEF f, some
      <4> QED
        BY <2>3
    <3> HIDE DEF U
    <3>2. f \in [some -> U]
      BY <3>1
    <3> QED
      BY <3>2 DEF U
  <2> HIDE DEF f, some
  <2>7. t = {f[e] : e \in some}
    BY <2>1, <2>4
  <2> QED
    BY <2>3, <2>5, <2>6, <2>7 DEF Upgrades
<1> QED
  BY <1>1, <1>2

LEMMA WorktreesAssumptions ==
    /\ WP!RepositoryAssumption /\ WP!CopiesAssumption /\ WP!ProposalsAssumption
    /\ WP!GroupsAssumption /\ WP!RunsAssumption
<1>1. WP!RepositoryAssumption
  BY ChiefAssumption DEF WP!RepositoryAssumption, Version
<1>2. WP!ProposalsAssumption
  <2>1. WP!InfoForDiff = W!InfoForDiff
    BY DEF WP!InfoForDiff, W!InfoForDiff
  <2>2. \A t \in Upgrades : Proposable(t)
    BY UpgradesAre
  <2> QED
    BY <2>1, <2>2 DEF WP!ProposalsAssumption, Proposable
<1>3. WP!GroupsAssumption /\ WP!RunsAssumption
  BY ChiefAssumption DEF WP!GroupsAssumption, WP!RunsAssumption
<1>4. WP!CopiesAssumption
  BY ChiefAssumption DEF WP!CopiesAssumption
<1> QED
  BY <1>1, <1>2, <1>3, <1>4

LEMMA ScanStepIsScans ==
    ASSUME S!Walk \/ S!WalkThrows \/ (\E e \in Ebuild : S!Step(e)) \/ S!Join
    PROVE  SP!Next
BY DEF S!Walk, S!WalkThrows, S!Join, S!Step, S!StartsBash, S!BashExits,
       S!ReadsEnvironment, S!AcquiresLock, S!RequestReturns, S!Unwinds,
       S!Continues, S!Fails, S!Throws, S!ReportsChange, S!ReportsNothing,
       S!Exception, SP!Exception, S!IsChanged, S!Releases, S!Fetched, S!Awaiting, S!Reported,
       SP!Next, SP!Walk, SP!WalkThrows, SP!Join, SP!Step, SP!StartsBash,
       SP!BashExits, SP!ReadsEnvironment, SP!AcquiresLock, SP!RequestReturns,
       SP!Unwinds, SP!Continues, SP!Fails, SP!Throws, SP!ReportsChange,
       SP!ReportsNothing, SP!IsChanged, SP!Releases, SP!Fetched, SP!Awaiting,
       SP!Reported

LEMMA ScanSame ==
    /\ S!Init <=> SP!Init
    /\ S!TypeOK <=> SP!TypeOK
    /\ S!ScanClosed = SP!ScanClosed
    /\ S!Reported = SP!Reported
    /\ S!Awaiting = SP!Awaiting
BY DEF S!Init, SP!Init, S!TypeOK, SP!TypeOK, S!ScanClosed, SP!ScanClosed,
       S!Reported, SP!Reported, S!Awaiting, SP!Awaiting, S!NoChanges,
       SP!NoChanges, S!TaskState, SP!TaskState, S!ScanState, SP!ScanState,
       S!PackagesToUpdate, SP!PackagesToUpdate, S!InfoForDiff, SP!InfoForDiff,
       S!Exception, SP!Exception

LEMMA WorktreesSame ==
    /\ W!Init <=> WP!Init
    /\ W!TypeOK <=> WP!TypeOK
    /\ W!ApplyClosed = WP!ApplyClosed
    /\ W!NoneAwaits <=> WP!NoneAwaits
    /\ W!InfoForDiff = WP!InfoForDiff
    /\ \A e : W!Diff(e) = WP!Diff(e)
BY DEF W!Init, WP!Init, W!TypeOK, WP!TypeOK, W!ApplyClosed, WP!ApplyClosed,
       W!NoneAwaits, WP!NoneAwaits, W!UnitAwaiting, WP!UnitAwaiting, W!GitRuns,
       WP!GitRuns, W!ChangeAwaiting, WP!ChangeAwaiting, W!Ended, WP!Ended,
       W!InfoForDiff, WP!InfoForDiff, W!Diff, WP!Diff, W!ReturnCode,
       WP!ReturnCode, W!Exception, WP!Exception, W!Folder, WP!Folder,
       W!IsWorktree, WP!IsWorktree, W!IsFiles, WP!IsFiles, W!Name, WP!Name,
       W!Content, WP!Content, W!Text, WP!Text

LEMMA BeginSame ==
    ASSUME NEW t, NEW file
    PROVE  /\ W!Begin(t, file) => WP!Begin(t, file)
           /\ W!BeginCrashes(t, file) => WP!BeginCrashes(t, file)
BY DEF W!Begin, WP!Begin, W!BeginCrashes, WP!BeginCrashes, W!Members,
       WP!Members, W!GroupOf, WP!GroupOf, W!persistent, WP!persistent

LEMMA UnitStepSame ==
    ASSUME NEW l, W!UnitStep(l)
    PROVE  WP!UnitStep(l)
BY DEF W!UnitStep, W!LaunchesGit, W!GitBranches, W!GitPopulates, W!GitRefuses,
       W!StartsChanges, W!UnitFails, W!UnwindsUnit, W!SetUnit, W!FolderOf,
       W!GroupOf, W!Checkout, W!MainFile, W!OldPath, W!Undisturbed, W!NurseryCatches,
       W!NurseryIsCancelled, W!Cancelling, W!UnitAwaiting, W!GitRuns,
       W!persistent,
       WP!UnitStep, WP!LaunchesGit, WP!GitBranches, WP!GitPopulates,
       WP!GitRefuses, WP!StartsChanges, WP!UnitFails, WP!UnwindsUnit,
       WP!SetUnit, WP!FolderOf, WP!GroupOf, WP!Checkout, WP!MainFile, WP!OldPath,
       WP!Undisturbed, WP!NurseryCatches, WP!NurseryIsCancelled,
       WP!Cancelling, WP!UnitAwaiting, WP!GitRuns, WP!persistent

LEMMA ChangeStepSame ==
    ASSUME NEW e, W!ChangeStep(e)
    PROVE  WP!ChangeStep(e)
BY DEF W!ChangeStep, W!RenamesByVersion, W!ManifestExits, W!ReadsEbuild,
       W!WritesEbuild, W!RenamesByDate, W!UnwindsChange, W!Renames, W!Renamed,
       W!SetFiles, W!SetChange, W!Files, W!Place, W!FolderOf, W!GroupOf,
       W!Diff, W!OldPath, W!NewPath, W!ChangeFails, W!ChangeThrows,
       W!Undisturbed, W!NurseryCatches, W!NurseryIsCancelled, W!Cancelling,
       W!ChangeAwaiting, W!Exception, W!persistent, W!Written, W!Overwritten,
       W!EdittedSize, W!EdittedText,
       WP!ChangeStep, WP!RenamesByVersion, WP!ManifestExits, WP!ReadsEbuild,
       WP!WritesEbuild, WP!RenamesByDate, WP!UnwindsChange, WP!Renames,
       WP!Renamed, WP!SetFiles, WP!SetChange, WP!Files, WP!Place, WP!FolderOf,
       WP!GroupOf, WP!Diff, WP!OldPath, WP!NewPath, WP!ChangeFails,
       WP!ChangeThrows, WP!Undisturbed, WP!NurseryCatches,
       WP!NurseryIsCancelled, WP!Cancelling, WP!ChangeAwaiting, WP!Exception,
       WP!persistent, WP!Written, WP!Overwritten, WP!EdittedSize,
       WP!EdittedText

LEMMA NurserySame ==
    /\ W!NurseryStep => WP!NurseryStep
    /\ W!Interrupt => WP!Interrupt
<1>1. W!JoinApply => WP!JoinApply
  BY WorktreesSame
     DEF W!JoinApply, WP!JoinApply, W!Completes, WP!Completes, W!ApplyFailed,
         WP!ApplyFailed, W!persistent, WP!persistent
<1>2. W!Interrupt => WP!Interrupt
  BY DEF W!Interrupt, WP!Interrupt, W!persistent, WP!persistent
<1> QED
  BY <1>1, <1>2, UnitStepSame, ChangeStepSame
     DEF W!NurseryStep, WP!NurseryStep

---------------------------------------------------------------------------
(* The invariant.                                                          *)

ScanInv ==
    SP!PermitsInv /\ SP!Closed /\ SP!Accounting /\ SP!ListsUpgrades

ApplyInv == WP!IInv /\ WP!AppliedInv /\ WP!ReportInv

ControlTypes ==
    /\ phase \in {"start", "scan", "groups", "apply", "over"}
    /\ fetch \in {"absent", "started", "git", "ok", "failed", "threw",
                  "cancelled"}
    /\ first \in {"open", "cancelling", "interrupting"}
    /\ first_error \in S!Exception \cup {"none"}
    /\ phase = "over" <=> exit # "none"
    /\ git_found \in BOOLEAN /\ in_repo \in BOOLEAN /\ remote \in {"old", "new"}

\* The scan and git fetch side by side: what ended how, and why.
Beside ==
    /\ fetch \notin {"absent", "started"} \/ first # "open" => scan # "idle"
    /\ fetch = "threw" => first_error # "none"
    /\ fetch = "cancelled" => first # "open"
    /\ fetch = "failed" => return_code # "none"
    /\ scan = "threw" => scan_error # "none" /\ first_error # "none"
    /\ scan = "cancelled" => first # "open"
    /\ scan = "cancelling" => first # "open" \/ scan_error # "none"
    /\ first = "cancelling" => first_error # "none" \/ fetch = "failed"

\* What is over when chief_logic gets to an await, and what is not begun.
Order ==
    /\ phase = "start" => scan = "idle" /\ fetch = "absent"
    /\ phase = "scan" => fetch # "absent"
    /\ phase \in {"start", "scan", "groups"} =>
            apply = "idle" /\ refs = {} /\ todo = {}
    /\ phase \in {"groups", "apply"} =>
            /\ scan \in SP!ScanClosed
            /\ fetch \in {"ok", "failed"}
            /\ fetch = "ok" => scan = "returned"
    /\ phase = "apply" => todo = Found
    /\ todo # {} => todo = Found

CInv == ScanInv /\ ApplyInv /\ ControlTypes /\ Beside /\ Order

---------------------------------------------------------------------------
(* The variables of Scan.                                                  *)

LEMMA ScanMoves ==
    ASSUME ScanInv, SP!Next \/ CancelsScan \/ UNCHANGED scanVars
    PROVE  ScanInv'
<1>1. [SP!Next]_(SP!vars)
  <2>1. CASE CancelsScan
    BY <2>1 DEF CancelsScan, SP!Next, SP!Cancel, SP!vars
  <2> QED
    BY <2>1 DEF scanVars, SP!vars
<1>2. SP!TypeOK /\ SP!Unstarted
  BY DEF ScanInv, SP!PermitsInv
<1>3. SP!PermitsInv'
  BY <1>1, ScanAssumptions, SP!NextPermitsInv DEF ScanInv
<1>4. SP!Closed'
  BY <1>1, <1>2, ScanAssumptions, SP!NextClosed DEF ScanInv
<1>5. SP!Accounting'
  BY <1>1, <1>2, ScanAssumptions, SP!NextAccounting DEF ScanInv
<1>6. SP!ListsUpgrades'
  BY <1>1, <1>2, ScanAssumptions, SP!NextListsUpgrades DEF ScanInv
<1> QED
  BY <1>3, <1>4, <1>5, <1>6 DEF ScanInv

\* What the scan found is what Worktrees may be given.
LEMMA FoundIsUpgrades ==
    ASSUME ScanInv
    PROVE  Found \in Upgrades
<1> DEFINE L == changes.what_to_change
<1>1. L \in Seq(SP!InfoForDiff)
  BY DEF ScanInv, SP!PermitsInv, SP!TypeOK, SP!PackagesToUpdate
<1>2. Found \subseteq {L[i] : i \in DOMAIN L}
  BY DEF Found, S!NoChanges
<1>3. /\ \A i, j \in DOMAIN L : L[i].ebuild = L[j].ebuild => i = j
      /\ \A i \in DOMAIN L : Current[L[i].ebuild] < L[i].new_ver
  BY DEF ScanInv, SP!Accounting, SP!ListsUpgrades
<1> HIDE DEF L
<1>4. \A i \in DOMAIN L : L[i] \in SP!InfoForDiff
  BY <1>1
<1>5. \A i \in DOMAIN L :
         /\ L[i] \in W!InfoForDiff
         /\ L[i].new_ver # Current[L[i].ebuild]
  <2> SUFFICES ASSUME NEW i \in DOMAIN L
               PROVE  /\ L[i] \in W!InfoForDiff
                      /\ L[i].new_ver # Current[L[i].ebuild]
    OBVIOUS
  <2>1. L[i] \in SP!InfoForDiff
    BY <1>4
  <2>2. L[i] \in W!InfoForDiff
    BY <2>1 DEF SP!InfoForDiff, W!InfoForDiff, Version
  <2>3. L[i].new_ver \in Nat /\ Current[L[i].ebuild] \in Nat
    <3>1. L[i].new_ver \in Published \cup {0} /\ L[i].ebuild \in Ebuild
      BY <2>1 DEF SP!InfoForDiff
    <3>2. Published \subseteq Nat /\ Current \in [Ebuild -> Nat]
      BY ChiefAssumption
    <3>3. \A v \in Published \cup {0} : v \in Nat
      BY <3>2
    <3>4. \A e \in Ebuild : Current[e] \in Nat
      BY <3>2
    <3> QED
      BY <3>1, <3>3, <3>4, Zenon
  <2> QED
    BY <1>3, <2>2, <2>3
<1> QED
  BY <1>2, <1>3, <1>5, UpgradesAre DEF Proposable

---------------------------------------------------------------------------
(* The variables of Worktrees.                                             *)

LEMMA ApplyMoves ==
    ASSUME ApplyInv, WP!Next \/ UNCHANGED applyVars
    PROVE  ApplyInv'
<1>1. [WP!Next]_(WP!vars)
  BY DEF applyVars, WP!vars, WP!volatile, WP!persistent
<1>2. WP!IInv'
  BY <1>1, WorktreesAssumptions, WP!NextKeepsIInv DEF ApplyInv
<1>3. WP!AppliedInv'
  BY <1>1, WorktreesAssumptions, WP!NextKeepsApplied DEF ApplyInv
<1>4. WP!ReportInv'
  BY <1>1, WorktreesAssumptions, WP!NextKeepsReportInv DEF ApplyInv
<1> QED
  BY <1>2, <1>3, <1>4 DEF ApplyInv

\* git fetch reports its failure before there is any unit.
LEMMA FetchFailureMoves ==
    ASSUME ApplyInv, apply = "idle", return_code' = "FailedGitFetch",
           UNCHANGED <<run, apply, todo, groups, leader, unit, change, copy,
                       apply_error, refs, worktree>>
    PROVE  ApplyInv'
<1>1. WP!WorktreesInv'
  <2>1. WP!Controlled'
    BY DEF WP!Controlled, WP!ReturnCode, ApplyInv, WP!IInv, WP!WorktreesInv,
           WP!TypeOK
  <2> QED
    BY <2>1, WorktreesAssumptions, WP!ControlKeepsInv
       DEF ApplyInv, WP!IInv, WP!persistent
<1>2. WP!IInv'
  BY <1>1 DEF ApplyInv, WP!IInv, WP!Fresh
<1>3. WP!AppliedInv'
  BY WorktreesAssumptions, WP!ControlKeepsApplied DEF ApplyInv, WP!persistent
<1>4. WP!ReportInv'
  BY DEF ApplyInv, WP!IInv, WP!Fresh, WP!ReportInv, WP!Caused, WP!Holds,
         WP!ApplyFailed, WP!FailureReported, WP!ApplyClosed
<1> QED
  BY <1>2, <1>3, <1>4 DEF ApplyInv

\* No step of the second nursery clears return_code, empties refs or changes
\* what is to be done.
LEMMA NurseryStepKeeps ==
    ASSUME ApplyInv, WP!NurseryStep
    PROVE  /\ todo' = todo
           /\ return_code # "none" => return_code' # "none"
<1>1. ASSUME NEW e \in Ebuild, WP!UnitStep(e) \/ WP!ChangeStep(e)
      PROVE  return_code # "none" => return_code' # "none"
  BY <1>1, WorktreesAssumptions, WP!CoroutineMoves
     DEF ApplyInv, WP!Undisturbed, WP!NurseryCatches, WP!NurseryIsCancelled
<1>2. ASSUME NEW e \in Ebuild, WP!UnitStep(e) \/ WP!ChangeStep(e)
      PROVE  todo' = todo
  BY <1>2 DEF WP!UnitStep, WP!LaunchesGit, WP!GitBranches, WP!GitPopulates,
              WP!GitRefuses, WP!StartsChanges, WP!UnitFails, WP!UnwindsUnit,
              WP!ChangeStep, WP!RenamesByVersion, WP!ManifestExits,
              WP!ReadsEbuild, WP!WritesEbuild, WP!RenamesByDate,
              WP!UnwindsChange
<1>3. WP!JoinApply => UNCHANGED <<todo, return_code>>
  BY DEF WP!JoinApply
<1> QED
  BY <1>1, <1>2, <1>3 DEF WP!NurseryStep

---------------------------------------------------------------------------
(* The invariant is kept.                                                  *)

LEMMA InitCInv == Init => CInv
<1> SUFFICES ASSUME Init PROVE CInv
  OBVIOUS
<1>1. SP!Init /\ WP!Init
  BY ScanSame, WorktreesSame DEF Init
<1>2. ScanInv
  <2>1. SP!PermitsInv
    BY <1>1, ScanAssumptions, SP!InitPermitsInv
  <2> QED
    BY <1>1, <2>1 DEF ScanInv, SP!Init, SP!Closed, SP!Accounting,
                      SP!ListsUpgrades, SP!NoChanges, SP!ScanClosed
<1>3. ApplyInv
  <2>1. WP!IInv /\ WP!AppliedInv
    BY <1>1, WorktreesAssumptions, WP!InitIInv, WP!InitApplied
  <2> QED
    BY <1>1, <2>1 DEF ApplyInv, WP!Init, WP!ReportInv, WP!Caused, WP!Holds,
                      WP!ApplyFailed, WP!FailureReported, WP!ApplyClosed
<1>4. ControlTypes
  BY DEF Init, ControlTypes
<1>5. Beside /\ Order
  BY DEF Init, S!Init, W!Init, Beside, Order
<1> QED
  BY <1>2, <1>3, <1>4, <1>5 DEF CInv

\* How one step of the scan moves its nursery.
LEMMA ScanSteps ==
    ASSUME ScanInv,
           S!Walk \/ S!WalkThrows \/ (\E e \in Ebuild : S!Step(e)) \/ S!Join
    PROVE  /\ scan \notin SP!ScanClosed
           /\ scan' # "idle"
           /\ \/ scan' \in {scan, "open", "returned"} /\ UNCHANGED scan_error
              \/ scan' = "cancelling" /\ scan_error' \in S!Exception
              \/ /\ scan' = "threw"
                 /\ scan_error \in S!Exception
                 /\ UNCHANGED scan_error
              \/ /\ scan = "cancelling" /\ scan_error = "none"
                 /\ scan' = "cancelled"
                 /\ UNCHANGED scan_error
<1>1. /\ scan_error \in S!Exception \cup {"none"}
      /\ scan = "idle" => \A e \in Ebuild : task[e] = "absent"
      /\ scan \in SP!ScanClosed => \A e \in Ebuild : task[e] \notin SP!Awaiting
  BY ScanSame DEF ScanInv, SP!PermitsInv, SP!TypeOK, SP!Unstarted, SP!Closed,
                  S!Exception, SP!Exception
<1>2. CASE S!Walk \/ S!WalkThrows
  BY <1>2 DEF S!Walk, S!WalkThrows, S!Exception, SP!ScanClosed
<1>3. CASE S!Join
  BY <1>1, <1>3 DEF S!Join, SP!ScanClosed
<1>4. ASSUME NEW e \in Ebuild, S!Step(e)
      PROVE  /\ scan \notin SP!ScanClosed \cup {"idle"}
             /\ \/ UNCHANGED <<scan, scan_error>>
                \/ scan' = "cancelling" /\ scan_error' \in S!Exception
  <2>1. task[e] \in SP!Awaiting
    BY <1>4 DEF S!Step, S!StartsBash, S!BashExits, S!ReadsEnvironment,
                S!AcquiresLock, S!RequestReturns, S!Unwinds, S!Awaiting,
                SP!Awaiting
  <2>2. \/ UNCHANGED <<scan, scan_error>>
        \/ scan' = "cancelling" /\ scan_error' \in S!Exception
    BY <1>1, <1>4
       DEF S!Step, S!StartsBash, S!BashExits, S!ReadsEnvironment,
           S!AcquiresLock, S!RequestReturns, S!Unwinds, S!Continues, S!Fails,
           S!Throws, S!ReportsChange, S!ReportsNothing, S!Exception
  <2>3. scan \notin SP!ScanClosed \cup {"idle"}
    BY <1>1, <2>1 DEF SP!Awaiting
  <2> QED
    BY <2>2, <2>3
<1> QED
  BY <1>2, <1>3, <1>4

LEMMA ScansKeepsCInv ==
    ASSUME CInv, Scans
    PROVE  CInv'
<1> USE DEF CInv
<1>1. /\ phase = "scan" /\ UNCHANGED <<applyVars, phase, fetch, exit, env>>
      /\ S!Walk \/ S!WalkThrows \/ (\E e \in Ebuild : S!Step(e)) \/ S!Join
  BY DEF Scans
<1>2. ScanInv'
  BY <1>1, ScanStepIsScans, ScanMoves
<1>3. ApplyInv'
  BY <1>1, ApplyMoves
<1>4. /\ scan' = "threw" => scan_error \in S!Exception /\ UNCHANGED scan_error
      /\ IF scan' = "threw"
         THEN /\ first' = IF first = "open" THEN "cancelling" ELSE first
              /\ first_error' = IF first_error = "none" THEN scan_error
                                ELSE first_error
         ELSE UNCHANGED <<first, first_error>>
  BY <1>1, ScanSteps DEF Scans, SP!ScanClosed
<1>5. ControlTypes'
  BY <1>1, <1>4 DEF ControlTypes, env
<1>6. Beside'
  BY <1>1, <1>4, ScanSteps
     DEF Beside, ControlTypes, applyVars, S!Exception, SP!ScanClosed
<1>7. Order'
  BY <1>1 DEF Order, applyVars
<1> QED
  BY <1>2, <1>3, <1>5, <1>6, <1>7

\* The actions on git fetch.
LEMMA FetchKeepsCInv ==
    ASSUME CInv, LaunchesFetch \/ FetchExits \/ UnwindsFetch
    PROVE  CInv'
<1> USE DEF CInv
<1>1. /\ phase = "scan" /\ UNCHANGED <<phase, exit>>
      /\ UNCHANGED scanVars \/ CancelsScan
      /\ UNCHANGED <<run, apply, todo, groups, leader, unit, change, copy,
                     apply_error, refs, worktree>>
      /\ UNCHANGED return_code \/ return_code' = "FailedGitFetch"
  BY DEF LaunchesFetch, FetchExits, UnwindsFetch, applyVars
<1>2. ScanInv'
  BY <1>1, ScanMoves
<1>3. ApplyInv'
  <2>1. CASE UNCHANGED return_code
    BY <1>1, <2>1, ApplyMoves DEF applyVars
  <2>2. CASE return_code' = "FailedGitFetch"
    BY <1>1, <2>2, FetchFailureMoves DEF Order
  <2> QED
    BY <1>1, <2>1, <2>2
<1>4. ControlTypes'
  BY <1>1 DEF LaunchesFetch, FetchExits, UnwindsFetch, ControlTypes, env,
              S!Exception
<1>5. Beside'
  <2>1. CASE LaunchesFetch
    BY <2>1 DEF LaunchesFetch, Beside, ControlTypes, CancelsScan, scanVars,
                applyVars
  <2>2. CASE FetchExits
    <3>0. fetch = "git" /\ UNCHANGED first_error
      BY <2>2 DEF FetchExits
    <3>1. CASE fetch' = "ok" /\ UNCHANGED <<scanVars, first, return_code>>
      BY <3>0, <3>1 DEF Beside, scanVars
    <3>2. CASE /\ fetch' = "failed"
               /\ return_code' = "FailedGitFetch"
               /\ first' = IF first = "open" THEN "cancelling" ELSE first
               /\ CancelsScan
      <4>1. /\ scan' = IF scan = "open" THEN "cancelling" ELSE scan
            /\ UNCHANGED scan_error
        BY <3>2 DEF CancelsScan
      <4> QED
        BY <3>0, <3>2, <4>1 DEF Beside
    <3> QED
      BY <2>2, <3>1, <3>2 DEF FetchExits
  <2>3. CASE UnwindsFetch
    BY <2>3 DEF UnwindsFetch, Beside, ControlTypes, scanVars, applyVars
  <2> QED
    BY <2>1, <2>2, <2>3
<1>6. Order'
  BY <1>1 DEF LaunchesFetch, FetchExits, UnwindsFetch, Order
<1> QED
  BY <1>2, <1>3, <1>4, <1>5, <1>6

\* Both coroutines of the first nursery have ended, and neither left an
\* exception: git fetch was not cancelled unless the program is.
LEMMA JoinFirstKeepsCInv ==
    ASSUME CInv, JoinFirst
    PROVE  CInv'
<1> USE DEF CInv
<1>1. /\ phase = "scan" /\ UNCHANGED <<scanVars, applyVars, fetch, first,
                                       first_error, env>>
      /\ scan \in SP!ScanClosed
      /\ fetch \notin {"started", "git"}
      /\ \/ phase' = "over" /\ \E code : exit' = code /\ code # "none"
         \/ /\ phase' = "groups" /\ UNCHANGED exit
            /\ first_error = "none"
            /\ first = "interrupting" =>
                  fetch = "failed" \/ (scan = "returned" /\ fetch = "ok")
  BY ScanSame DEF JoinFirst, Exits, Caught
<1>2. ScanInv' /\ ApplyInv'
  BY <1>1, ScanMoves, ApplyMoves
<1>3. ControlTypes'
  BY <1>1 DEF ControlTypes, env
<1>4. Beside'
  BY <1>1 DEF Beside, scanVars, applyVars
<1>5. Found' = Found
  BY <1>1 DEF Found, scanVars
<1>6. phase' = "groups" =>
          fetch \in {"ok", "failed"} /\ (fetch = "ok" => scan = "returned")
  BY <1>1 DEF Beside, ControlTypes, Order, SP!ScanClosed
<1>7. Order'
  BY <1>1, <1>5, <1>6 DEF Order, scanVars, applyVars
<1> QED
  BY <1>2, <1>3, <1>4, <1>7

\* The program returns, or goes on to its next await, and nothing else happens.
LEMMA ControlKeepsCInv ==
    ASSUME CInv, UNCHANGED <<scanVars, applyVars, first, first_error, env>>,
           \/ phase # "over" /\ phase' = "over" /\ exit' # "none" /\ UNCHANGED fetch
           \/ Starts
           \/ UNCHANGED <<phase, exit, fetch>>
    PROVE  CInv'
<1> USE DEF CInv
<1>1. ScanInv' /\ ApplyInv'
  BY ScanMoves, ApplyMoves
<1>2. Found' = Found
  BY DEF Found, scanVars
<1>3. ControlTypes'
  BY DEF ControlTypes, env, Starts
<1>4. Beside'
  <2>1. UNCHANGED <<scan, scan_error, return_code, first, first_error>>
    BY DEF scanVars, applyVars
  <2>2. UNCHANGED fetch \/ (fetch = "absent" /\ fetch' = "started")
    BY DEF Starts, Order
  <2> QED
    BY <2>1, <2>2 DEF Beside
<1>5. Order'
  BY <1>2 DEF Order, scanVars, applyVars, Starts
<1> QED
  BY <1>1, <1>3, <1>4, <1>5

\* The second nursery begins, goes on, or is interrupted.
LEMMA NurseryKeepsCInv ==
    ASSUME CInv,
           StartsUnits \/ StartingUnitsCrashes \/ Applies
              \/ (phase = "apply" /\ W!Interrupt /\ UNCHANGED <<scanVars, chiefVars>>)
    PROVE  CInv'
<1> USE DEF CInv
<1>1. UNCHANGED <<scanVars, fetch, first, first_error, env>>
  BY DEF StartsUnits, StartingUnitsCrashes, Applies, chiefVars
<1>2. ScanInv' /\ Found' = Found
  BY <1>1, ScanMoves DEF Found, scanVars
<1>3. CASE StartsUnits
  <2>1. PICK file \in GroupsFiles : W!Begin(Found, file)
    BY <1>3 DEF StartsUnits
  <2>2. ApplyInv'
    BY <2>1, BeginSame, FoundIsUpgrades, ApplyMoves DEF WP!Next
  <2>3. /\ todo' = Found /\ UNCHANGED return_code
        /\ phase = "groups" /\ phase' = "apply" /\ UNCHANGED exit
    BY <1>3, <2>1 DEF W!Begin, StartsUnits
  <2>4. ControlTypes' /\ Beside'
    BY <1>1, <2>3 DEF ControlTypes, Beside, scanVars, env
  <2>5. Order'
    BY <1>1, <1>2, <2>3 DEF Order, scanVars
  <2> QED
    BY <1>2, <2>2, <2>4, <2>5
<1>4. CASE StartingUnitsCrashes
  <2>1. PICK file \in GroupsFiles : W!BeginCrashes(Found, file)
    BY <1>4 DEF StartingUnitsCrashes
  <2>2. ApplyInv'
    BY <2>1, BeginSame, FoundIsUpgrades, ApplyMoves DEF WP!Next
  <2>3. /\ UNCHANGED <<todo, return_code>>
        /\ phase = "groups" /\ phase' = "over" /\ exit' = "SIGSEGV"
    BY <1>4, <2>1 DEF W!BeginCrashes, StartingUnitsCrashes, Exits
  <2>4. ControlTypes' /\ Beside'
    BY <1>1, <2>3 DEF ControlTypes, Beside, scanVars, env
  <2>5. Order'
    BY <1>1, <1>2, <2>3 DEF Order, scanVars
  <2> QED
    BY <1>2, <2>2, <2>4, <2>5
<1>5. ASSUME phase = "apply", UNCHANGED chiefVars,
             WP!NurseryStep \/ WP!Interrupt
      PROVE  CInv'
  <2>1. ApplyInv'
    BY <1>5, ApplyMoves DEF WP!Next
  <2>2. todo' = todo /\ (return_code # "none" => return_code' # "none")
    BY <1>5, NurseryStepKeeps DEF WP!Interrupt
  <2>3. ControlTypes' /\ Beside'
    BY <1>1, <1>5, <2>2 DEF ControlTypes, Beside, scanVars, chiefVars, env
  <2>4. Order'
    BY <1>1, <1>2, <1>5, <2>2 DEF Order, scanVars, chiefVars
  <2> QED
    BY <1>2, <2>1, <2>3, <2>4
<1> QED
  BY <1>3, <1>4, <1>5, NurserySame DEF Applies

Verdicts == {"Success", "PartialSuccess", "AllHaveFailed", "NoEbuildFound"}

\* What the program does when it returns from an await after the first.
Leaves ==
    /\ phase \in {"start", "groups", "apply"}
    /\ phase = "apply" => apply \in WP!ApplyClosed
    /\ phase' = "over" /\ exit' # "none"
    /\ exit' \in Verdicts => apply = "joined" /\ exit' = Verdict
    /\ UNCHANGED <<scanVars, applyVars, fetch, first, first_error, env>>

LEMMA WaysToLeave ==
    ASSUME CInv, StartFails \/ GroupsFileMissing \/ GroupsFileFails \/ Returns
    PROVE  Leaves
<1>1. Verdict # "none" /\ \A x : Caught(x) \notin Verdicts \cup {"none"}
  BY DEF Verdict, Caught, Verdicts
<1>2. CASE StartFails
  BY <1>2 DEF StartFails, Exits, Leaves, Verdicts
<1>3. CASE GroupsFileMissing \/ GroupsFileFails
  BY <1>1, <1>3 DEF GroupsFileMissing, GroupsFileFails, Exits, Leaves, Verdicts
<1>4. CASE Returns
  BY <1>1, <1>4 DEF Returns, Exits, Leaves, Verdicts, WP!ApplyClosed
<1> QED
  BY <1>2, <1>3, <1>4

\* A signal while the scan and git fetch run.
CancelsFirst ==
    /\ phase = "scan" /\ scan # "idle"
    /\ first' = "interrupting"
    /\ CancelsScan
    /\ UNCHANGED <<applyVars, phase, fetch, first_error, exit, env>>

LEMMA CancelsFirstKeepsCInv ==
    ASSUME CInv, CancelsFirst
    PROVE  CInv'
<1> USE DEF CInv, CancelsFirst
<1>1. ScanInv' /\ ApplyInv'
  BY ScanMoves, ApplyMoves
<1>2. ControlTypes'
  BY DEF ControlTypes, env
<1>3. Beside'
  BY DEF Beside, CancelsScan, applyVars
<1>4. Order'
  BY DEF Order, applyVars
<1> QED
  BY <1>1, <1>2, <1>3, <1>4

\* The steps of the program by what they do to it.
LEMMA NextCases ==
    ASSUME CInv, [Next]_vars
    PROVE  \/ Scans
           \/ LaunchesFetch \/ FetchExits \/ UnwindsFetch
           \/ JoinFirst
           \/ StartsUnits \/ StartingUnitsCrashes \/ Applies
           \/ phase = "apply" /\ W!Interrupt /\ UNCHANGED <<scanVars, chiefVars>>
           \/ CancelsFirst
           \/ Starts
           \/ Leaves
           \/ UNCHANGED vars
<1>1. Signal => \/ Leaves
                \/ CancelsFirst
                \/ /\ phase = "apply" /\ W!Interrupt
                   /\ UNCHANGED <<scanVars, chiefVars>>
  BY DEF Signal, Leaves, CancelsFirst, Exits, Verdicts
<1> QED
  BY <1>1, WaysToLeave DEF Next, Over

LEMMA NextKeepsCInv ==
    ASSUME CInv, [Next]_vars
    PROVE  CInv'
<1>1. CASE Leaves
  BY <1>1, ControlKeepsCInv DEF Leaves
<1>2. CASE Starts
  BY <1>2, ControlKeepsCInv DEF Starts
<1>3. CASE UNCHANGED vars
  BY <1>3, ControlKeepsCInv DEF vars, chiefVars
<1>4. CASE Scans
  BY <1>4, ScansKeepsCInv
<1>5. CASE LaunchesFetch \/ FetchExits \/ UnwindsFetch
  BY <1>5, FetchKeepsCInv
<1>6. CASE JoinFirst
  BY <1>6, JoinFirstKeepsCInv
<1>7. CASE \/ StartsUnits \/ StartingUnitsCrashes \/ Applies
           \/ phase = "apply" /\ W!Interrupt /\ UNCHANGED <<scanVars, chiefVars>>
  BY <1>7, NurseryKeepsCInv
<1>8. CASE CancelsFirst
  BY <1>8, CancelsFirstKeepsCInv
<1> QED
  BY <1>1, <1>2, <1>3, <1>4, <1>5, <1>6, <1>7, <1>8, NextCases

---------------------------------------------------------------------------
(* The theorems.                                                           *)

\* The whole program is well typed in every state of every run.
THEOREM ProgramIsWellTyped == Spec => []TypeOK
<1>1. CInv => TypeOK
  BY ScanSame, WorktreesSame
     DEF CInv, ScanInv, SP!PermitsInv, ApplyInv, WP!IInv, WP!WorktreesInv,
         ControlTypes, TypeOK
<1> QED
  BY InitCInv, NextKeepsCInv, <1>1, PTL DEF Spec

\* No ebuild is edited but those whose coroutines reported a change, and only
\* to the version reported: what Worktrees is given is what the whole scan found.
THEOREM EditsAreReported == Spec => []OnlyReportedEdits
<1>1. ASSUME CInv
      PROVE  OnlyReportedEdits
  <2> SUFFICES ASSUME NEW e \in Ebuild, change[e] # "absent"
               PROVE  /\ scan = "returned"
                      /\ task[e] = "change"
                      /\ \E i \in DOMAIN changes.what_to_change :
                            changes.what_to_change[i] = W!Diff(e)
    BY DEF OnlyReportedEdits
  <2>1. WP!Diff(e) \in todo /\ WP!Diff(e).ebuild = e
    BY <1>1, WorktreesAssumptions, WP!PlaceIsOwned DEF CInv, ApplyInv
  <2>2. W!Diff(e) \in Found /\ W!Diff(e).ebuild = e
    BY <1>1, <2>1, WorktreesSame DEF CInv, Order
  <2>3. /\ scan = "returned"
        /\ \E i \in DOMAIN changes.what_to_change :
              changes.what_to_change[i] = W!Diff(e)
    BY <2>2 DEF Found, S!NoChanges
  <2>4. e \in {f \in Ebuild : task[f] = "change"}
    BY <1>1, <2>2, <2>3 DEF CInv, ScanInv, SP!Accounting
  <2> QED
    BY <2>3, <2>4
<1> QED
  BY InitCInv, NextKeepsCInv, <1>1, PTL DEF Spec

\* What is known of git: a `git fetch` was launched only if there is git, and
\* one that succeeded in the repository has updated what it knows.
GitKnown ==
    /\ fetch \in {"git", "ok", "failed"} => git_found
    /\ fetch = "ok" /\ in_repo => remote = "new"

LEMMA NextKeepsGitKnown ==
    ASSUME GitKnown, [Next]_vars
    PROVE  GitKnown'
<1>1. CASE LaunchesFetch \/ FetchExits \/ UnwindsFetch \/ Starts
  BY <1>1 DEF GitKnown, LaunchesFetch, FetchExits, UnwindsFetch, Starts, env
<1>2. ASSUME UNCHANGED <<fetch, env>>
      PROVE  GitKnown'
  BY <1>2 DEF GitKnown, env
<1>3. CASE StartFails \/ Scans \/ JoinFirst \/ GroupsFileMissing \/ GroupsFileFails
  BY <1>2, <1>3 DEF StartFails, Scans, JoinFirst, GroupsFileMissing, GroupsFileFails
<1>4. CASE StartsUnits \/ StartingUnitsCrashes \/ Applies \/ Returns
  BY <1>2, <1>4 DEF StartsUnits, StartingUnitsCrashes, Applies, Returns, chiefVars
<1>5. CASE Signal \/ Over \/ UNCHANGED vars
  BY <1>2, <1>5 DEF Signal, Over, vars, chiefVars
<1> QED
  BY <1>1, <1>3, <1>4, <1>5 DEF Next


\* git makes no branch of this run before git fetch and the scan have ended.
THEOREM BranchesComeAfterFetch == Spec => []FetchBeforeBranches
<1>1. ASSUME CInv, GitKnown, FetchBeforeBranches, [Next]_vars
      PROVE  GitKnown' /\ FetchBeforeBranches'
  <2>1. CInv' /\ GitKnown'
    BY <1>1, NextKeepsCInv, NextKeepsGitKnown
  <2>2. CASE phase' # "over"
    BY <2>1, <2>2, ScanSame
       DEF CInv, Order, ControlTypes, GitKnown, FetchBeforeBranches, S!ScanClosed
  <2>3. CASE phase' = "over"
    <3>1. UNCHANGED <<refs, fetch, scan>>
      <4>1. CASE StartingUnitsCrashes
        BY <4>1 DEF StartingUnitsCrashes, W!BeginCrashes, W!persistent, scanVars
      <4> QED
        BY <1>1, <2>3, <4>1, NextCases
           DEF CInv, Leaves, JoinFirst, Scans, LaunchesFetch, FetchExits,
               UnwindsFetch, StartsUnits, Applies, CancelsFirst, Starts,
               vars, scanVars, applyVars, chiefVars
    <3>2. (fetch' \in {"ok", "failed"} /\ scan' \in S!ScanClosed) \/ refs' = {}
      BY <1>1, <3>1 DEF FetchBeforeBranches, S!ScanClosed
    <3> QED
      BY <2>1, <3>2 DEF GitKnown, FetchBeforeBranches, S!ScanClosed
  <2> QED
    BY <2>1, <2>2, <2>3
<1>2. Init => GitKnown /\ FetchBeforeBranches
  BY DEF Init, W!Init, GitKnown, FetchBeforeBranches
<1> QED
  BY InitCInv, NextKeepsCInv, <1>1, <1>2, PTL DEF Spec

\* Nothing is left of either nursery.
Quiet ==
    /\ fetch \notin {"started", "git"}
    /\ \A e \in Ebuild : task[e] \notin S!Awaiting
    /\ \A s \in Service : permits[s] = Concurrency
    /\ W!NoneAwaits

\* A scan that is closed, or was never begun, holds no permit.
LEMMA NoTaskNoPermit ==
    ASSUME ScanInv, scan \in SP!ScanClosed \cup {"idle"}
    PROVE  /\ \A e \in Ebuild : task[e] \notin S!Awaiting
           /\ \A s \in Service : permits[s] = Concurrency
<1>1. \A e \in Ebuild : task[e] \notin SP!Awaiting
  BY DEF ScanInv, SP!Closed, SP!PermitsInv, SP!Unstarted, SP!Awaiting
<1>2. \A s \in Service : permits[s] = Concurrency
  BY <1>1, ScanAssumptions, SP!NobodyHoldsAPermit DEF ScanInv
<1> QED
  BY <1>1, <1>2, ScanSame

LEMMA QuietWhenLeaving ==
    ASSUME CInv, JoinFirst \/ StartingUnitsCrashes \/ Leaves
    PROVE  Quiet /\ UNCHANGED <<fetch, task, permits, unit, change>>
<1>1. /\ scan \in SP!ScanClosed \cup {"idle"}
      /\ fetch \notin {"started", "git"}
      /\ apply = "idle" \/ apply \in WP!ApplyClosed
  BY ScanSame
     DEF JoinFirst, StartingUnitsCrashes, Leaves, CInv, Order
<1>2. WP!NoneAwaits
  BY <1>1 DEF CInv, ApplyInv, WP!IInv, WP!Fresh, WP!ReportInv, WP!Caused,
              WP!NoneAwaits, WP!UnitAwaiting, WP!GitRuns, WP!ChangeAwaiting
<1>3. Quiet
  BY <1>1, <1>2, NoTaskNoPermit, WorktreesSame DEF CInv, Quiet
<1>4. UNCHANGED <<fetch, task, permits, unit, change>>
  BY DEF JoinFirst, StartingUnitsCrashes, Leaves, W!BeginCrashes, scanVars,
         applyVars
<1> QED
  BY <1>3, <1>4

\* However the program returns - verdict, error, exception, signal or crash -
\* no coroutine, no process and no permit is left.
THEOREM ProgramLeavesNothing == Spec => []NothingOutlivesTheProgram
<1>1. ASSUME CInv, NothingOutlivesTheProgram, [Next]_vars
      PROVE  NothingOutlivesTheProgram'
  <2>1. CASE JoinFirst \/ StartingUnitsCrashes \/ Leaves
    BY <1>1, <2>1, QuietWhenLeaving
       DEF Quiet, NothingOutlivesTheProgram, W!NoneAwaits
  <2>2. CASE UNCHANGED vars
    BY <1>1, <2>2 DEF vars, scanVars, applyVars, chiefVars,
                      NothingOutlivesTheProgram, W!NoneAwaits
  <2>3. CASE ~(JoinFirst \/ StartingUnitsCrashes \/ Leaves \/ UNCHANGED vars)
    <3>1. phase # "over" /\ UNCHANGED exit
      BY <1>1, <2>3, NextCases
         DEF Scans, LaunchesFetch, FetchExits, UnwindsFetch, StartsUnits,
             Applies, CancelsFirst, Starts, chiefVars
    <3>2. exit' = "none"
      BY <1>1, <3>1 DEF CInv, ControlTypes
    <3> QED
      BY <3>2 DEF NothingOutlivesTheProgram
  <2> QED
    BY <2>1, <2>2, <2>3
<1>2. Init => NothingOutlivesTheProgram
  BY DEF Init, NothingOutlivesTheProgram
<1> QED
  BY InitCInv, NextKeepsCInv, <1>1, <1>2, PTL DEF Spec

\* What is true when the second nursery has joined and no error was noted.
LEMMA JoinedIsHonest ==
    ASSUME CInv, phase = "apply", apply = "joined", return_code = "none"
    PROVE  /\ fetch = "ok" /\ scan = "returned"
           /\ \A e \in Ebuild :
                 /\ task[e] \in S!Reported
                 /\ task[e] = "change" <=> change[e] = "done"
<1>1. fetch = "ok" /\ scan = "returned" /\ todo = Found
  BY DEF CInv, Order, Beside
<1>2. \A e \in Ebuild : task[e] \in S!Reported
  BY <1>1, ScanSame DEF CInv, ScanInv, SP!Closed
<1>3. {d.ebuild : d \in todo} = {e \in Ebuild : task[e] = "change"}
  <2> DEFINE L == changes.what_to_change
  <2>1. {L[i].ebuild : i \in DOMAIN L} = {e \in Ebuild : task[e] = "change"}
    BY DEF CInv, ScanInv, SP!Accounting
  <2>2. todo = {L[i] : i \in DOMAIN L}
    BY <1>1 DEF Found
  <2> HIDE DEF L
  <2> QED
    BY <2>1, <2>2
<1>4. \A e \in Ebuild : change[e] = "done" => task[e] = "change"
  <2> SUFFICES ASSUME NEW e \in Ebuild, change[e] = "done"
               PROVE  task[e] = "change"
    OBVIOUS
  <2>1. WP!Diff(e) \in todo /\ WP!Diff(e).ebuild = e
    BY WorktreesAssumptions, WP!PlaceIsOwned DEF CInv, ApplyInv
  <2> QED
    BY <1>3, <2>1
<1>5. \A e \in Ebuild : task[e] = "change" => change[e] = "done"
  <2>1. WP!SuccessMeansApplied
    BY WorktreesAssumptions, WP!JoinedIsApplied DEF CInv, ApplyInv
  <2>2. \A d \in todo : change[d.ebuild] = "done"
    BY <2>1, Zenon DEF WP!SuccessMeansApplied
  <2> SUFFICES ASSUME NEW e \in Ebuild, task[e] = "change"
               PROVE  change[e] = "done"
    OBVIOUS
  <2>3. e \in {d.ebuild : d \in todo}
    BY <1>3
  <2>4. PICK d \in todo : d.ebuild = e
    BY <2>3
  <2> QED
    BY <2>2, <2>4
<1> QED
  BY <1>1, <1>2, <1>4, <1>5

\* The two flags of the summary choose the verdict.
LEMMA VerdictTellsTheFlags ==
    ASSUME CInv, phase = "apply", apply = "joined", Verdict \in Verdicts
    PROVE  /\ return_code = "none"
           /\ Verdict \in {"PartialSuccess", "AllHaveFailed"}
                 <=> \E e \in Ebuild : task[e] = "failed"
           /\ Verdict \in {"Success", "PartialSuccess"}
                 <=> \E e \in Ebuild : task[e] = "nothing"
<1>1. return_code = "none"
  <2>1. return_code \in WP!ReturnCode
    BY DEF CInv, ApplyInv, WP!IInv, WP!WorktreesInv, WP!TypeOK
  <2> QED
    BY <2>1 DEF Verdict, Verdicts, WP!ReturnCode
<1>2. scan = "returned"
  BY <1>1, JoinedIsHonest
<1>3. /\ changes.has_any_failed <=> \E e \in Ebuild : task[e] = "failed"
      /\ changes.is_any_successful <=> \E e \in Ebuild : task[e] = "nothing"
  BY DEF CInv, ScanInv, SP!Accounting
<1>4. Verdict = IF changes.has_any_failed
                THEN IF changes.is_any_successful THEN "PartialSuccess"
                     ELSE "AllHaveFailed"
                ELSE IF changes.is_any_successful THEN "Success"
                ELSE "NoEbuildFound"
  BY <1>1, <1>2 DEF Verdict
<1>5. /\ Verdict \in {"PartialSuccess", "AllHaveFailed"} <=> changes.has_any_failed
      /\ Verdict \in {"Success", "PartialSuccess"} <=> changes.is_any_successful
  BY <1>4
<1> QED
  BY <1>1, <1>3, <1>5

\* Exit codes 0 to 3 can be believed: git fetch succeeded, every ebuild of the
\* repository reported, exactly the changes reported were applied, and the code
\* tells whether an ebuild failed and whether one was up to date.
THEOREM VerdictsAreHonest == Spec => []VerdictIsHonest
<1>1. ASSUME CInv, VerdictIsHonest, [Next]_vars
      PROVE  VerdictIsHonest'
  <2>1. CASE Leaves
    <3> SUFFICES ASSUME exit' \in Verdicts
                 PROVE  VerdictIsHonest'
      BY DEF VerdictIsHonest, Verdicts
    <3>1. /\ phase = "apply" /\ apply = "joined" /\ exit' = Verdict
          /\ UNCHANGED <<task, change, fetch>>
      BY <1>1, <2>1
         DEF Leaves, CInv, Order, scanVars, applyVars
    <3>2. return_code = "none"
      BY <1>1, <3>1, VerdictTellsTheFlags
    <3>3. /\ fetch' = "ok"
          /\ \A e \in Ebuild :
                /\ task'[e] \in S!Reported
                /\ task'[e] = "change" <=> change'[e] = "done"
      BY <1>1, <3>1, <3>2, JoinedIsHonest
    <3>4. /\ exit' \in {"PartialSuccess", "AllHaveFailed"}
                <=> \E e \in Ebuild : task'[e] = "failed"
          /\ exit' \in {"Success", "PartialSuccess"}
                <=> \E e \in Ebuild : task'[e] = "nothing"
      BY <1>1, <3>1, VerdictTellsTheFlags
    <3> QED
      BY <3>3, <3>4 DEF VerdictIsHonest, S!Reported
  <2>2. CASE JoinFirst \/ StartingUnitsCrashes
    <3>1. phase # "over"
      BY <2>2 DEF JoinFirst, StartingUnitsCrashes
    <3>2. exit' \in {"none", "SIGSEGV", "FailParsePromptResult",
                     "FailStandardException", "ReceivedCancellationSignal"}
      BY <1>1, <2>2, <3>1
         DEF JoinFirst, StartingUnitsCrashes, Exits, Caught, CInv, ControlTypes
    <3> QED
      BY <3>2 DEF VerdictIsHonest
  <2>3. CASE UNCHANGED vars
    BY <1>1, <2>3 DEF vars, scanVars, applyVars, chiefVars, VerdictIsHonest,
                      S!Reported
  <2>4. CASE ~(JoinFirst \/ StartingUnitsCrashes \/ Leaves \/ UNCHANGED vars)
    <3>1. phase # "over" /\ UNCHANGED exit
      BY <1>1, <2>4, NextCases
         DEF Scans, LaunchesFetch, FetchExits, UnwindsFetch, StartsUnits,
             Applies, CancelsFirst, Starts, chiefVars
    <3>2. exit' = "none"
      BY <1>1, <3>1 DEF CInv, ControlTypes
    <3> QED
      BY <3>2 DEF VerdictIsHonest
  <2> QED
    BY <2>1, <2>2, <2>3, <2>4
<1>2. Init => VerdictIsHonest
  BY DEF Init, VerdictIsHonest
<1> QED
  BY InitCInv, NextKeepsCInv, <1>1, <1>2, PTL DEF Spec

---------------------------------------------------------------------------
(* The program implements its two halves.                                  *)

\* git fetch and the signals touch the scan only as its own Cancel does.
THEOREM ScanIsScan == Spec => ImplementsScan
<1>1. Init => S!Init
  BY DEF Init
<1>2. ASSUME CInv, [Next]_vars
      PROVE  [S!Next]_scanVars
  <2>1. CASE Scans
    BY <2>1 DEF Scans, S!Next
  <2>2. CASE CancelsScan
    BY <2>2 DEF CancelsScan, S!Next, S!Cancel, scanVars
  <2>3. UNCHANGED scanVars \/ CancelsScan \/ Scans
    BY <1>2, NextCases
       DEF LaunchesFetch, FetchExits, UnwindsFetch, JoinFirst, StartsUnits,
           StartingUnitsCrashes, Applies, CancelsFirst, Starts, Leaves, vars
  <2> QED
    BY <2>1, <2>2, <2>3
<1> QED
  BY InitCInv, NextKeepsCInv, <1>1, <1>2, PTL DEF Spec, ImplementsScan


\* How a coroutine of the nursery leaves return_code for the refinement.
LEMMA AloneEnds ==
    /\ W!Undisturbed => Alone!Undisturbed
    /\ \A x : W!NurseryCatches(x) => Alone!NurseryCatches(x)
    /\ \A c \in {"FailedMakingGitToMakeWorktrees", "FailedApplyChange"} :
          W!NurseryIsCancelled(c) => Alone!NurseryIsCancelled(c)
BY DEF W!Undisturbed, W!NurseryCatches, W!NurseryIsCancelled,
       Alone!Undisturbed, Alone!NurseryCatches, Alone!NurseryIsCancelled

LEMMA AloneUnitStep ==
    ASSUME NEW l, W!UnitStep(l)
    PROVE  Alone!UnitStep(l)
<1> USE DEF W!SetUnit, W!FolderOf, W!GroupOf, W!Cancelling, W!UnitAwaiting,
       W!GitRuns, W!persistent,
       Alone!SetUnit, Alone!FolderOf, Alone!GroupOf, Alone!Cancelling,
       Alone!UnitAwaiting, Alone!GitRuns, Alone!persistent
<1>1. W!LaunchesGit(l) => Alone!LaunchesGit(l)
  BY AloneEnds DEF W!LaunchesGit, Alone!LaunchesGit
<1>2. W!GitBranches(l) => Alone!GitBranches(l)
  BY DEF W!GitBranches, Alone!GitBranches
<1>3. W!GitPopulates(l) => Alone!GitPopulates(l)
  BY DEF W!GitPopulates, W!Checkout, W!MainFile, W!OldPath,
         Alone!GitPopulates, Alone!Checkout, Alone!MainFile, Alone!OldPath
<1>4. W!GitRefuses(l) => Alone!GitRefuses(l)
  BY DEF W!GitRefuses, Alone!GitRefuses
<1>5. W!StartsChanges(l) => Alone!StartsChanges(l)
  BY AloneEnds DEF W!StartsChanges, Alone!StartsChanges
<1>6. W!UnitFails(l) => Alone!UnitFails(l)
  BY AloneEnds DEF W!UnitFails, Alone!UnitFails
<1>7. W!UnwindsUnit(l) => Alone!UnwindsUnit(l)
  BY DEF W!UnwindsUnit, Alone!UnwindsUnit
<1> QED
  BY <1>1, <1>2, <1>3, <1>4, <1>5, <1>6, <1>7
     DEF W!UnitStep, Alone!UnitStep

LEMMA AloneChangeStep ==
    ASSUME NEW e, W!ChangeStep(e)
    PROVE  Alone!ChangeStep(e)
<1> USE DEF W!Renames, W!Renamed, W!SetFiles, W!SetChange, W!Files, W!Place,
       W!FolderOf, W!GroupOf, W!Diff, W!OldPath, W!NewPath, W!ChangeFails,
       W!ChangeThrows, W!Cancelling, W!ChangeAwaiting, W!Exception,
       W!persistent,
       Alone!Renames, Alone!Renamed, Alone!SetFiles, Alone!SetChange,
       Alone!Files, Alone!Place, Alone!FolderOf, Alone!GroupOf, Alone!Diff,
       Alone!OldPath, Alone!NewPath, Alone!ChangeFails, Alone!ChangeThrows,
       Alone!Cancelling, Alone!ChangeAwaiting, Alone!Exception,
       Alone!persistent
<1>1. W!RenamesByVersion(e) => Alone!RenamesByVersion(e)
  BY AloneEnds DEF W!RenamesByVersion, Alone!RenamesByVersion
<1>2. W!ManifestExits(e) => Alone!ManifestExits(e)
  BY AloneEnds DEF W!ManifestExits, Alone!ManifestExits
<1>3. W!ReadsEbuild(e) => Alone!ReadsEbuild(e)
  BY AloneEnds DEF W!ReadsEbuild, Alone!ReadsEbuild
<1>4. W!WritesEbuild(e) => Alone!WritesEbuild(e)
  BY AloneEnds DEF W!WritesEbuild, Alone!WritesEbuild
<1>5. W!RenamesByDate(e) => Alone!RenamesByDate(e)
  <2>1. W!Written(e) = Alone!Written(e)
    BY DEF W!Written, W!Overwritten, W!EdittedSize, W!EdittedText,
           Alone!Written, Alone!Overwritten, Alone!EdittedSize,
           Alone!EdittedText
  <2>2. \A file : W!Renames(e, file) => Alone!Renames(e, file)
    OBVIOUS
  <2>3. /\ W!SetChange(e, "done") => Alone!SetChange(e, "done")
        /\ W!ChangeFails(e) => Alone!ChangeFails(e)
    BY AloneEnds
  <2> HIDE DEF W!Renames, Alone!Renames
  <2> QED
    BY <2>1, <2>2, <2>3, AloneEnds DEF W!RenamesByDate, Alone!RenamesByDate
<1>6. W!UnwindsChange(e) => Alone!UnwindsChange(e)
  BY DEF W!UnwindsChange, Alone!UnwindsChange
<1> QED
  BY <1>1, <1>2, <1>3, <1>4, <1>5, <1>6 DEF W!ChangeStep, Alone!ChangeStep

LEMMA AloneNursery ==
    W!NurseryStep \/ W!Interrupt => Alone!Next
<1>1. W!JoinApply => Alone!JoinApply
  BY DEF W!JoinApply, W!NoneAwaits, W!UnitAwaiting, W!GitRuns,
         W!ChangeAwaiting, W!Completes, W!ApplyFailed, W!persistent,
         Alone!JoinApply, Alone!NoneAwaits, Alone!UnitAwaiting, Alone!GitRuns,
         Alone!ChangeAwaiting, Alone!Completes, Alone!ApplyFailed,
         Alone!persistent
<1>2. W!Interrupt => Alone!Interrupt
  BY DEF W!Interrupt, Alone!Interrupt, W!persistent, Alone!persistent
<1> QED
  BY <1>1, <1>2, AloneUnitStep, AloneChangeStep
     DEF W!NurseryStep, Alone!NurseryStep, Alone!Next

LEMMA AloneBegins ==
    ASSUME CInv, NEW file \in GroupsFiles,
           W!Begin(Found, file) \/ W!BeginCrashes(Found, file)
    PROVE  Alone!Next
<1>1. Found \in Upgrades
  BY FoundIsUpgrades DEF CInv
<1>2. \A t : W!Begin(t, file) \/ W!BeginCrashes(t, file) =>
                Alone!Begin(t, file) \/ Alone!BeginCrashes(t, file)
  BY DEF W!Begin, W!BeginCrashes, W!Members, W!GroupOf, W!persistent,
         Alone!Begin, Alone!BeginCrashes, Alone!Members, Alone!GroupOf,
         Alone!persistent
<1> QED
  BY <1>1, <1>2 DEF Alone!Next

\* The failure of git fetch, kept in the same return_code, neither starts nor
\* stops nor changes anything of the worktrees.
THEOREM ApplyIsWorktrees == Spec => ImplementsWorktrees
<1>1. Init => Alone!Init
  BY DEF Init, W!Init, Alone!Init
<1>2. ASSUME CInv, [Next]_vars
      PROVE  [Alone!Next]_(Alone!vars)
  <2> USE DEF Alone!vars, Alone!volatile, Alone!persistent
  <2>1. CASE UNCHANGED applyVars
    BY <2>1 DEF applyVars
  <2>2. CASE StartsUnits \/ StartingUnitsCrashes
    <3>1. \E file \in GroupsFiles :
             W!Begin(Found, file) \/ W!BeginCrashes(Found, file)
      BY <2>2 DEF StartsUnits, StartingUnitsCrashes
    <3> QED
      BY <1>2, <3>1, AloneBegins
  <2>3. CASE Applies \/ W!Interrupt
    BY <2>3, AloneNursery DEF Applies
  <2>4. CASE FetchExits
    <3>1. phase = "scan" /\ (UNCHANGED return_code \/ return_code' = "FailedGitFetch")
      BY <2>4 DEF FetchExits
    <3>2. apply = "idle" /\ return_code \in {"none", "FailedGitFetch"}
      BY <1>2, <3>1
         DEF CInv, Order, ApplyInv, WP!IInv, WP!WorktreesInv, WP!TypeOK,
             WP!ReturnCode, WP!Fresh, WP!ReportInv, WP!Caused, WP!Holds,
             WP!ApplyFailed
    <3> QED
      BY <2>4, <3>1, <3>2 DEF FetchExits
  <2>5. \/ UNCHANGED applyVars
        \/ StartsUnits \/ StartingUnitsCrashes
        \/ Applies \/ W!Interrupt
        \/ FetchExits
    BY <1>2, NextCases
       DEF Scans, LaunchesFetch, UnwindsFetch, JoinFirst, CancelsFirst, Starts,
           Leaves, vars
  <2> QED
    BY <2>1, <2>2, <2>3, <2>4, <2>5
<1> QED
  BY InitCInv, NextKeepsCInv, <1>1, <1>2, PTL DEF Spec, ImplementsWorktrees
=============================================================================
