---------------------------- MODULE ScanProofs ----------------------------
(***************************************************************************)
(* Theorems about Scan for every repository, every assignment of services  *)
(* to ebuilds and every value of -J.  The argument is one inductive        *)
(* invariant: a coroutine only waits for a permit of a service that has a  *)
(* semaphore (Handled), the permits of a service and the coroutines inside *)
(* its requests add up (PermitsConserved), and so a permit is never taken  *)
(* below zero nor given back above Concurrency.                            *)
(***************************************************************************)
EXTENDS Scan, FiniteSetTheorems, TLAPS

\* Only the service with a handler is ever asked.
Handled ==
    \A e \in Ebuild : task[e] \in {"lock", "request"} => ServiceOf[e] = Github

\* Before the walk no coroutine exists.
Unstarted == scan = "idle" => \A e \in Ebuild : task[e] = "absent"

PermitsInv == TypeOK /\ Handled /\ Unstarted /\ PermitsConserved

---------------------------------------------------------------------------
(* What one coroutine's move does to the set of coroutines in a request.   *)

LEMMA InFlightFinite ==
    ASSUME NEW s
    PROVE  /\ IsFiniteSet(InFlight(s))
           /\ Cardinality(InFlight(s)) \in Nat
BY EbuildAssumption, FS_Subset, FS_CardinalityType DEF InFlight

\* A step that leaves a coroutine outside a request as it was outside.
LEMMA InFlightSame ==
    ASSUME TypeOK, NEW e \in Ebuild, NEW v \in TaskState,
           task' = [task EXCEPT ![e] = v],
           task[e] # "request", v # "request",
           NEW s
    PROVE  InFlight(s)' = InFlight(s)
BY DEF InFlight, TypeOK

\* A coroutine leaves its request.
LEMMA InFlightRemoved ==
    ASSUME TypeOK, NEW e \in Ebuild, NEW v \in TaskState,
           task' = [task EXCEPT ![e] = v],
           task[e] = "request", v # "request",
           NEW s
    PROVE  IF s = ServiceOf[e]
           THEN /\ InFlight(s)' = InFlight(s) \ {e}
                /\ Cardinality(InFlight(s)') = Cardinality(InFlight(s)) - 1
           ELSE InFlight(s)' = InFlight(s)
<1>1. CASE s = ServiceOf[e]
  <2>1. InFlight(s)' = InFlight(s) \ {e}
    BY <1>1 DEF InFlight, TypeOK
  <2>2. e \in InFlight(s)
    BY <1>1 DEF InFlight
  <2>3. Cardinality(InFlight(s) \ {e}) = Cardinality(InFlight(s)) - 1
    BY <2>2, InFlightFinite, FS_RemoveElement
  <2> QED
    BY <1>1, <2>1, <2>3
<1>2. CASE s # ServiceOf[e]
  <2>1. InFlight(s)' = InFlight(s)
    BY <1>2 DEF InFlight, TypeOK
  <2> QED
    BY <1>2, <2>1
<1> QED
  BY <1>1, <1>2

\* A coroutine enters its request.
LEMMA InFlightAdded ==
    ASSUME TypeOK, NEW e \in Ebuild,
           task' = [task EXCEPT ![e] = "request"],
           task[e] # "request",
           NEW s
    PROVE  IF s = ServiceOf[e]
           THEN /\ InFlight(s)' = InFlight(s) \cup {e}
                /\ Cardinality(InFlight(s)') = Cardinality(InFlight(s)) + 1
           ELSE InFlight(s)' = InFlight(s)
<1>1. CASE s = ServiceOf[e]
  <2>1. InFlight(s)' = InFlight(s) \cup {e}
    BY <1>1 DEF InFlight, TypeOK
  <2>2. e \notin InFlight(s)
    BY DEF InFlight
  <2>3. Cardinality(InFlight(s) \cup {e}) = Cardinality(InFlight(s)) + 1
    BY <2>2, InFlightFinite, FS_AddElement
  <2> QED
    BY <1>1, <2>1, <2>3
<1>2. CASE s # ServiceOf[e]
  <2>1. InFlight(s)' = InFlight(s)
    BY <1>2 DEF InFlight, TypeOK
  <2> QED
    BY <1>2, <2>1
<1> QED
  BY <1>1, <1>2

---------------------------------------------------------------------------
(* The permits.                                                            *)

\* A coroutine moves from one await outside a request to another, or ends.
LEMMA MoveKeepsPermits ==
    ASSUME PermitsInv, NEW e \in Ebuild, NEW v \in TaskState,
           task' = [task EXCEPT ![e] = v],
           task[e] # "request", v # "request",
           UNCHANGED permits
    PROVE  /\ permits' \in [Service -> 0..Concurrency]
           /\ PermitsConserved'
<1>1. \A s \in Service : InFlight(s)' = InFlight(s)
  BY InFlightSame DEF PermitsInv
<1> QED
  BY <1>1 DEF PermitsInv, PermitsConserved, TypeOK

\* A coroutine leaves its request: its permit is back.
LEMMA LeaveKeepsPermits ==
    ASSUME PermitsInv, NEW e \in Ebuild, NEW v \in TaskState,
           task' = [task EXCEPT ![e] = v],
           task[e] = "request", v # "request",
           Releases(e)
    PROVE  /\ permits' \in [Service -> 0..Concurrency]
           /\ PermitsConserved'
<1>1. ServiceOf[e] = Github /\ Github \in Service
  BY EbuildAssumption DEF PermitsInv, Handled
<1>2. ASSUME NEW s \in Service
      PROVE  permits'[s] + Cardinality(InFlight(s)') = Concurrency
  <2>1. permits[s] + Cardinality(InFlight(s)) = Concurrency
    BY DEF PermitsInv, PermitsConserved
  <2>2. permits[s] \in Nat /\ Cardinality(InFlight(s)) \in Nat
    BY InFlightFinite, ConcurrencyAssumption DEF PermitsInv, TypeOK
  <2>3. CASE s = ServiceOf[e]
    <3>1. permits'[s] = permits[s] + 1
      BY <1>1, <2>3 DEF Releases, PermitsInv, TypeOK
    <3>2. Cardinality(InFlight(s)') = Cardinality(InFlight(s)) - 1
      BY <2>3, InFlightRemoved DEF PermitsInv
    <3> QED
      BY <2>1, <2>2, <3>1, <3>2
  <2>4. CASE s # ServiceOf[e]
    <3>1. permits'[s] = permits[s]
      BY <2>4 DEF Releases, PermitsInv, TypeOK
    <3>2. InFlight(s)' = InFlight(s)
      BY <2>4, InFlightRemoved DEF PermitsInv
    <3> QED
      BY <2>1, <3>1, <3>2
  <2> QED
    BY <2>3, <2>4
<1>3. PermitsConserved'
  BY <1>2 DEF PermitsConserved
<1>4. ASSUME NEW s \in Service
      PROVE  permits'[s] \in 0..Concurrency
  <2>1. IsFiniteSet(InFlight(s)') /\ Cardinality(InFlight(s)') \in Nat
    BY EbuildAssumption, FS_Subset, FS_CardinalityType DEF InFlight
  <2>2. permits'[s] \in Nat
    BY <1>1, ConcurrencyAssumption DEF Releases, PermitsInv, TypeOK
  <2> QED
    BY <1>2, <2>1, <2>2, ConcurrencyAssumption
<1>5. permits' = [s \in Service |-> permits'[s]]
  BY DEF Releases, PermitsInv, TypeOK
<1> QED
  BY <1>3, <1>4, <1>5

\* A coroutine gets a permit: there was one.
LEMMA AcquireKeepsPermits ==
    ASSUME PermitsInv, NEW e \in Ebuild, AcquiresLock(e)
    PROVE  /\ permits' \in [Service -> 0..Concurrency]
           /\ PermitsConserved'
<1>1. ServiceOf[e] = Github /\ Github \in Service
  BY EbuildAssumption DEF PermitsInv, Handled, AcquiresLock
<1>2. permits' \in [Service -> 0..Concurrency]
  BY <1>1, ConcurrencyAssumption DEF AcquiresLock, PermitsInv, TypeOK
<1>3. ASSUME NEW s \in Service
      PROVE  permits'[s] + Cardinality(InFlight(s)') = Concurrency
  <2>1. permits[s] + Cardinality(InFlight(s)) = Concurrency
    BY DEF PermitsInv, PermitsConserved
  <2>2. permits[s] \in Nat /\ Cardinality(InFlight(s)) \in Nat
    BY InFlightFinite, ConcurrencyAssumption DEF PermitsInv, TypeOK
  <2>3. CASE s = ServiceOf[e]
    <3>1. permits'[s] = permits[s] - 1
      BY <1>1, <2>3 DEF AcquiresLock, PermitsInv, TypeOK
    <3>2. Cardinality(InFlight(s)') = Cardinality(InFlight(s)) + 1
      BY <2>3, InFlightAdded DEF PermitsInv, AcquiresLock, Continues
    <3> QED
      BY <2>1, <2>2, <3>1, <3>2
  <2>4. CASE s # ServiceOf[e]
    <3>1. permits'[s] = permits[s]
      BY <2>4 DEF AcquiresLock, PermitsInv, TypeOK
    <3>2. InFlight(s)' = InFlight(s)
      BY <2>4, InFlightAdded DEF PermitsInv, AcquiresLock, Continues
    <3> QED
      BY <2>1, <3>1, <3>2
  <2> QED
    BY <2>3, <2>4
<1> QED
  BY <1>2, <1>3 DEF PermitsConserved

---------------------------------------------------------------------------
(* Types, and who may be asked.                                            *)

\* What Fails, Throws, Continues, ReportsChange and ReportsNothing have in
\* common: one coroutine moves to v, and everything stays well typed.
Moves(e, v) ==
    /\ task' = [task EXCEPT ![e] = v]
    /\ changes' \in PackagesToUpdate
    /\ scan' \in {scan, "cancelling"}
    /\ scan_error' \in Exception \cup {"none"}

LEMMA ContinuesMoves ==
    ASSUME TypeOK, NEW e \in Ebuild, NEW v, Continues(e, v)
    PROVE  Moves(e, v)
BY DEF Continues, Moves, TypeOK

LEMMA FailsMoves ==
    ASSUME TypeOK, NEW e \in Ebuild, Fails(e)
    PROVE  Moves(e, "failed")
BY DEF Fails, Moves, TypeOK, PackagesToUpdate

LEMMA ThrowsMoves ==
    ASSUME TypeOK, NEW e \in Ebuild, NEW x \in Exception, Throws(e, x)
    PROVE  Moves(e, "threw")
BY DEF Throws, Moves, TypeOK, ScanState

LEMMA NothingMoves ==
    ASSUME TypeOK, NEW e \in Ebuild, NEW f, ReportsNothing(e, f)
    PROVE  Moves(e, "nothing")
BY DEF ReportsNothing, Moves, TypeOK, PackagesToUpdate

LEMMA FetchedType ==
    ASSUME NEW e \in Ebuild, NEW f \in Fetched(e)
    PROVE  f.ver \in Published \cup {0} /\ f.commit \in {"sha", ""}
<1>1. CASE f = [ver |-> 0, commit |-> ""]
  BY <1>1
<1>2. CASE f \in [ver : Published \cup {0},
                  commit : {IF e \in HasDate \ IsTag THEN "sha" ELSE ""}]
  <2>1. f.commit \in {IF e \in HasDate \ IsTag THEN "sha" ELSE ""}
    BY <1>2
  <2>2. f.ver \in Published \cup {0}
    BY <1>2
  <2> QED
    BY <2>1, <2>2
<1> QED
  BY <1>1, <1>2 DEF Fetched

LEMMA ChangeMoves ==
    ASSUME TypeOK, NEW e \in Ebuild, NEW f \in Fetched(e), ReportsChange(e, f)
    PROVE  Moves(e, "change")
<1> DEFINE diff == [ebuild |-> e, new_ver |-> f.ver, new_commit |-> f.commit]
<1>1. diff \in InfoForDiff
  BY FetchedType DEF InfoForDiff
<1>2. changes.what_to_change \in Seq(InfoForDiff)
  BY DEF TypeOK, PackagesToUpdate
<1>3. Append(changes.what_to_change, diff) \in Seq(InfoForDiff)
  BY <1>1, <1>2
<1>4. changes' = [changes EXCEPT !.what_to_change
                     = Append(changes.what_to_change, diff)]
  BY DEF ReportsChange
<1>5. changes' \in PackagesToUpdate
  BY <1>3, <1>4 DEF TypeOK, PackagesToUpdate
<1> QED
  BY <1>5 DEF ReportsChange, Moves, TypeOK

\* A move that neither enters nor leaves a request.
LEMMA MoveKeepsInv ==
    ASSUME PermitsInv, NEW e \in Ebuild, NEW v \in TaskState, Moves(e, v),
           task[e] \notin {"absent", "request"}, v # "request",
           v = "lock" => ServiceOf[e] = Github,
           UNCHANGED permits
    PROVE  PermitsInv'
<1>1. permits' \in [Service -> 0..Concurrency] /\ PermitsConserved'
  BY MoveKeepsPermits DEF Moves
<1>2. TypeOK'
  BY <1>1 DEF TypeOK, Moves, PermitsInv, ScanState
<1>3. Handled'
  BY DEF Handled, Moves, PermitsInv, TypeOK
<1>4. Unstarted'
  BY DEF Unstarted, Moves, PermitsInv, TypeOK
<1> QED
  BY <1>1, <1>2, <1>3, <1>4 DEF PermitsInv

\* A move that ends a request.
LEMMA LeaveKeepsInv ==
    ASSUME PermitsInv, NEW e \in Ebuild, NEW v \in TaskState, Moves(e, v),
           task[e] = "request", v \notin {"lock", "request"},
           Releases(e)
    PROVE  PermitsInv'
<1>1. permits' \in [Service -> 0..Concurrency] /\ PermitsConserved'
  BY LeaveKeepsPermits DEF Moves
<1>2. TypeOK'
  BY <1>1 DEF TypeOK, Moves, PermitsInv, ScanState
<1>3. Handled'
  BY DEF Handled, Moves, PermitsInv, TypeOK
<1>4. Unstarted'
  BY DEF Unstarted, Moves, PermitsInv, TypeOK
<1> QED
  BY <1>1, <1>2, <1>3, <1>4 DEF PermitsInv

LEMMA StepKeepsPermitsInv ==
    ASSUME PermitsInv, NEW e \in Ebuild, Step(e)
    PROVE  PermitsInv'
<1> USE DEF TaskState, Awaiting, Reported, Exception
<1>0. TypeOK
  BY DEF PermitsInv
<1>1. CASE StartsBash(e)
  <2>1. CASE Continues(e, "bash")
    BY <1>0, <1>1, <2>1, ContinuesMoves, MoveKeepsInv DEF StartsBash
  <2>2. CASE Fails(e)
    BY <1>0, <1>1, <2>2, FailsMoves, MoveKeepsInv DEF StartsBash
  <2>3. CASE Throws(e, "std::exception")
    BY <1>0, <1>1, <2>3, ThrowsMoves, MoveKeepsInv DEF StartsBash
  <2> QED
    BY <1>1, <2>1, <2>2, <2>3 DEF StartsBash
<1>2. CASE BashExits(e)
  <2>1. CASE Continues(e, "environment")
    BY <1>0, <1>2, <2>1, ContinuesMoves, MoveKeepsInv DEF BashExits
  <2>2. CASE Fails(e)
    BY <1>0, <1>2, <2>2, FailsMoves, MoveKeepsInv DEF BashExits
  <2>3. ASSUME NEW x \in Exception, Throws(e, x)
        PROVE  PermitsInv'
    BY <1>0, <1>2, <2>3, ThrowsMoves, MoveKeepsInv DEF BashExits
  <2> QED
    BY <1>2, <2>1, <2>2, <2>3 DEF BashExits
<1>3. CASE ReadsEnvironment(e)
  <2>1. CASE ServiceOf[e] = Github /\ Continues(e, "lock")
    BY <1>0, <1>3, <2>1, ContinuesMoves, MoveKeepsInv DEF ReadsEnvironment
  <2>2. CASE Fails(e)
    BY <1>0, <1>3, <2>2, FailsMoves, MoveKeepsInv DEF ReadsEnvironment
  <2>3. CASE Throws(e, "std::exception")
    BY <1>0, <1>3, <2>3, ThrowsMoves, MoveKeepsInv DEF ReadsEnvironment
  <2> QED
    BY <1>3, <2>1, <2>2, <2>3 DEF ReadsEnvironment
<1>4. CASE AcquiresLock(e)
  <2>1. permits' \in [Service -> 0..Concurrency] /\ PermitsConserved'
    BY <1>4, AcquireKeepsPermits
  <2>2. Moves(e, "request")
    BY <1>0, <1>4, ContinuesMoves DEF AcquiresLock
  <2>3. TypeOK'
    BY <1>0, <2>1, <2>2 DEF TypeOK, Moves, ScanState
  <2>4. Handled'
    BY <1>0, <1>4, <2>2 DEF PermitsInv, Handled, Moves, TypeOK, AcquiresLock
  <2>5. Unstarted'
    BY <1>0, <1>4, <2>2 DEF PermitsInv, Unstarted, Moves, TypeOK, AcquiresLock
  <2> QED
    BY <2>1, <2>3, <2>4, <2>5 DEF PermitsInv
<1>5. CASE RequestReturns(e)
  <2>1. ASSUME NEW f \in Fetched(e), ReportsChange(e, f)
        PROVE  PermitsInv'
    BY <1>0, <1>5, <2>1, ChangeMoves, LeaveKeepsInv DEF RequestReturns
  <2>2. ASSUME NEW f \in Fetched(e), ReportsNothing(e, f)
        PROVE  PermitsInv'
    BY <1>0, <1>5, <2>2, NothingMoves, LeaveKeepsInv DEF RequestReturns
  <2>3. CASE Fails(e)
    BY <1>0, <1>5, <2>3, FailsMoves, LeaveKeepsInv DEF RequestReturns
  <2>4. CASE Throws(e, "std::exception")
    BY <1>0, <1>5, <2>4, ThrowsMoves, LeaveKeepsInv DEF RequestReturns
  <2> QED
    BY <1>5, <2>1, <2>2, <2>3, <2>4 DEF RequestReturns
<1>6. CASE Unwinds(e)
  <2>1. Moves(e, "cancelled")
    BY <1>0, <1>6 DEF Unwinds, Moves, TypeOK
  <2>2. CASE task[e] = "request"
    BY <1>6, <2>1, <2>2, LeaveKeepsInv DEF Unwinds
  <2>3. CASE task[e] # "request"
    BY <1>6, <2>1, <2>3, MoveKeepsInv DEF Unwinds
  <2> QED
    BY <2>2, <2>3
<1> QED
  BY <1>1, <1>2, <1>3, <1>4, <1>5, <1>6 DEF Step

---------------------------------------------------------------------------
(* The theorems.                                                           *)

LEMMA InitPermitsInv == Init => PermitsInv
<1> SUFFICES ASSUME Init PROVE PermitsInv
  OBVIOUS
<1>1. TypeOK
  <2>1. changes \in PackagesToUpdate
    BY DEF Init, NoChanges, PackagesToUpdate
  <2> QED
    BY <2>1, ConcurrencyAssumption DEF Init, TypeOK, TaskState, ScanState
<1>2. Handled /\ Unstarted
  BY DEF Init, Handled, Unstarted
<1>3. ASSUME NEW s \in Service
      PROVE  permits[s] + Cardinality(InFlight(s)) = Concurrency
  <2>1. InFlight(s) = {}
    BY DEF Init, InFlight
  <2> QED
    BY <2>1, FS_EmptySet, ConcurrencyAssumption DEF Init
<1> QED
  BY <1>1, <1>2, <1>3 DEF PermitsInv, PermitsConserved

\* A step that starts coroutines (all of them, or those the walk had reached)
\* finds none before and puts none in a request.
LEMMA WalkKeepsPermitsInv ==
    ASSUME PermitsInv, scan = "idle",
           task' \in [Ebuild -> {"absent", "started"}],
           scan' \in {"open", "cancelling"},
           scan_error' \in Exception \cup {"none"},
           UNCHANGED <<permits, changes>>
    PROVE  PermitsInv'
<1>1. TypeOK'
  <2>1. task' \in [Ebuild -> TaskState]
    BY DEF TaskState, Awaiting
  <2> QED
    BY <2>1 DEF TypeOK, PermitsInv, ScanState
<1>2. Handled' /\ Unstarted'
  BY DEF Handled, Unstarted
<1>3. ASSUME NEW s PROVE InFlight(s)' = InFlight(s)
  BY DEF PermitsInv, Unstarted, InFlight
<1>4. PermitsConserved'
  BY <1>3 DEF PermitsInv, PermitsConserved
<1> QED
  BY <1>1, <1>2, <1>4 DEF PermitsInv

LEMMA NextPermitsInv == PermitsInv /\ [Next]_vars => PermitsInv'
<1> SUFFICES ASSUME PermitsInv, [Next]_vars PROVE PermitsInv'
  OBVIOUS
<1>1. CASE Walk
  BY <1>1, WalkKeepsPermitsInv DEF Walk, PermitsInv, TypeOK
<1>2. CASE WalkThrows
  BY <1>2, WalkKeepsPermitsInv DEF WalkThrows, Exception
<1>3. ASSUME NEW e \in Ebuild, Step(e)
      PROVE  PermitsInv'
  BY <1>3, StepKeepsPermitsInv
<1>4. CASE UNCHANGED <<task, permits, changes, scan_error>> /\ scan' \in ScanState \ {"idle"}
  BY <1>4 DEF PermitsInv, TypeOK, Handled, Unstarted, PermitsConserved, InFlight
<1>5. CASE Cancel
  BY <1>4, <1>5 DEF Cancel, ScanState
<1>6. CASE Join
  BY <1>4, <1>6 DEF Join, ScanState, ScanClosed
<1>7. CASE UNCHANGED vars
  BY <1>7 DEF vars, PermitsInv, TypeOK, Handled, Unstarted, PermitsConserved,
              InFlight
<1> QED
  BY <1>1, <1>2, <1>3, <1>5, <1>6, <1>7 DEF Next, Over

\* The permits are conserved and every variable keeps its type: whatever the
\* ebuilds, however requests end, a semaphore of get_what_to_change never goes
\* below zero and never above cfg.concurrency_per_service.
THEOREM PermitsInvariant == Spec => [](TypeOK /\ PermitsConserved)
<1>1. PermitsInv => TypeOK /\ PermitsConserved
  BY DEF PermitsInv
<1> QED
  BY <1>1, InitPermitsInv, NextPermitsInv, PTL DEF Spec

\* Whatever the ebuilds and however requests end, no coroutine is in a state
\* that logic_per_ebuild does not have, and the summary names only ebuilds.
THEOREM ScanIsWellTyped == Spec => []TypeOK
<1>1. PermitsInv => TypeOK
  BY DEF PermitsInv
<1> QED
  BY <1>1, InitPermitsInv, NextPermitsInv, PTL DEF Spec

---------------------------------------------------------------------------
(* Scan implements RequestLimit.                                           *)

\* The instance's Cardinality is this module's.
LEMMA SameCardinality == ASSUME NEW S PROVE Limit!Cardinality(S) = Cardinality(S)
BY DEF Cardinality, Limit!Cardinality

LEMMA StepImplementsLimit ==
    ASSUME PermitsInv, NEW e \in Ebuild, Step(e)
    PROVE  Limit!Next \/ UNCHANGED InFlight(Github)
<1> USE DEF TaskState, Awaiting, Reported
<1>0. TypeOK
  BY DEF PermitsInv
<1>1. CASE AcquiresLock(e)
  <2>1. ServiceOf[e] = Github /\ Github \in Service
    BY <1>1, EbuildAssumption DEF AcquiresLock, PermitsInv, Handled
  <2>2. InFlight(Github)' = InFlight(Github) \cup {e}
    BY <1>0, <1>1, <2>1, InFlightAdded DEF AcquiresLock, Continues
  <2>3. e \notin InFlight(Github)
    BY <1>1 DEF AcquiresLock, InFlight
  <2>4. permits[Github] \in Nat /\ permits[Github] > 0
    BY <1>0, <1>1, <2>1, ConcurrencyAssumption DEF AcquiresLock, TypeOK
  <2>5. Cardinality(InFlight(Github)) < Concurrency
    BY <2>1, <2>4, InFlightFinite, ConcurrencyAssumption
       DEF PermitsInv, PermitsConserved
  <2>6. Limit!Enter(e)
    BY <2>2, <2>3, <2>5, SameCardinality DEF Limit!Enter
  <2> QED
    BY <2>1, <2>6 DEF Limit!Next
<1>2. ASSUME task[e] = "request",
             NEW v \in TaskState, task' = [task EXCEPT ![e] = v], v # "request"
      PROVE  Limit!Next
  <2>1. ServiceOf[e] = Github
    BY <1>2 DEF PermitsInv, Handled
  <2>2. InFlight(Github)' = InFlight(Github) \ {e}
    BY <1>0, <1>2, <2>1, InFlightRemoved
  <2>3. e \in InFlight(Github)
    BY <1>2, <2>1 DEF InFlight
  <2>4. Limit!Leave(e)
    BY <2>2, <2>3 DEF Limit!Leave
  <2> QED
    BY <2>1, <2>4 DEF Limit!Next
<1>3. ASSUME task[e] # "request",
             NEW v \in TaskState, task' = [task EXCEPT ![e] = v], v # "request"
      PROVE  UNCHANGED InFlight(Github)
  BY <1>0, <1>3, InFlightSame
<1>4. CASE StartsBash(e)
  BY <1>3, <1>4 DEF StartsBash, Continues, Fails, Throws
<1>5. CASE BashExits(e)
  BY <1>3, <1>5 DEF BashExits, Continues, Fails, Throws
<1>6. CASE ReadsEnvironment(e)
  BY <1>3, <1>6 DEF ReadsEnvironment, Continues, Fails, Throws
<1>7. CASE RequestReturns(e)
  BY <1>2, <1>7
     DEF RequestReturns, ReportsChange, ReportsNothing, Fails, Throws
<1>8. CASE Unwinds(e)
  BY <1>2, <1>3, <1>8 DEF Unwinds
<1> QED
  BY <1>1, <1>4, <1>5, <1>6, <1>7, <1>8 DEF Step

LEMMA NextImplementsLimit ==
    PermitsInv /\ [Next]_vars => [Limit!Next]_(InFlight(Github))
<1> SUFFICES ASSUME PermitsInv, [Next]_vars
             PROVE  Limit!Next \/ UNCHANGED InFlight(Github)
  OBVIOUS
<1>1. CASE Walk \/ WalkThrows
  BY <1>1 DEF Walk, WalkThrows, PermitsInv, Unstarted, InFlight
<1>2. ASSUME NEW e \in Ebuild, Step(e)
      PROVE  Limit!Next \/ UNCHANGED InFlight(Github)
  BY <1>2, StepImplementsLimit
<1>3. CASE UNCHANGED task
  BY <1>3 DEF InFlight
<1> QED
  BY <1>1, <1>2, <1>3 DEF Next, Cancel, Join, Over, vars

\* -J is a bound on the requests to a service that are under way together: the
\* coroutines of get_what_to_change implement RequestLimit (its safety part;
\* that every request ends is checked by TLC, ImplementsRequestLimit).
THEOREM StaysWithinRequestLimit == Spec => Limit!Safety
<1>1. Init => Limit!Init
  BY DEF Init, Limit!Init, InFlight
<1>2. PermitsInv /\ [Next]_vars => [Limit!Next]_(InFlight(Github))
  BY NextImplementsLimit
<1> QED
  BY <1>1, <1>2, InitPermitsInv, NextPermitsInv, PTL DEF Spec, Limit!Safety

---------------------------------------------------------------------------
(* The end of the scan.                                                    *)

\* What a closed scan has behind it.
Closed ==
    /\ scan = "returned" => \A e \in Ebuild : task[e] \in Reported
    /\ scan \in ScanClosed => \A e \in Ebuild : task[e] \notin Awaiting

LEMMA NextClosed == TypeOK /\ Closed /\ [Next]_vars => Closed'
<1> SUFFICES ASSUME TypeOK, Closed, [Next]_vars PROVE Closed'
  OBVIOUS
<1> USE DEF ScanClosed
<1>1. CASE Walk \/ WalkThrows
  BY <1>1 DEF Walk, WalkThrows, Closed
<1>2. ASSUME NEW e \in Ebuild, Step(e)
      PROVE  Closed'
  <2>1. task[e] \in Awaiting /\ scan' \in {scan, "cancelling"}
    BY <1>2 DEF Step, StartsBash, BashExits, ReadsEnvironment, AcquiresLock,
                RequestReturns, Unwinds, Continues, Fails, Throws,
                ReportsChange, ReportsNothing, Awaiting
  <2> QED
    BY <2>1 DEF Closed
<1>3. CASE Cancel
  BY <1>3 DEF Cancel, Closed
<1>4. CASE Join
  BY <1>4 DEF Join, Closed, Reported, Awaiting
<1>5. CASE UNCHANGED vars
  BY <1>5 DEF Closed, vars
<1> QED
  BY <1>1, <1>2, <1>3, <1>4, <1>5 DEF Next, Over

\* Where no coroutine is at an await, no permit is taken.
LEMMA NobodyHoldsAPermit ==
    ASSUME PermitsInv, \A e \in Ebuild : task[e] \notin Awaiting,
           NEW s \in Service
    PROVE  permits[s] = Concurrency
<1>1. InFlight(s) = {}
  BY DEF InFlight, Awaiting
<1>2. Cardinality(InFlight(s)) = 0
  BY <1>1, FS_EmptySet
<1> QED
  BY <1>2, ConcurrencyAssumption DEF PermitsInv, PermitsConserved, TypeOK

\* get_what_to_change returns only with the answer of every ebuild, and however
\* it ends no coroutine outlives it and no permit stays taken.
THEOREM ClosedScanIsComplete == Spec => []CompleteWhenClosed
<1>1. Init => Closed
  BY DEF Init, Closed, ScanClosed
<1>2. PermitsInv => TypeOK
  BY DEF PermitsInv
<1>3. PermitsInv /\ Closed => CompleteWhenClosed
  BY NobodyHoldsAPermit DEF Closed, CompleteWhenClosed
<1> QED
  BY <1>1, <1>2, <1>3, NextClosed, InitPermitsInv, NextPermitsInv, PTL DEF Spec

---------------------------------------------------------------------------
(* The summary the coroutines build together.                              *)

\* Coroutine e, still suspended before, moves on without a report.
LEMMA SilentMoveKeepsAccounting ==
    ASSUME TypeOK, Accounting, NEW e \in Ebuild, NEW v,
           task[e] \in Awaiting, v \notin Reported,
           task' = [task EXCEPT ![e] = v], UNCHANGED changes
    PROVE  Accounting'
BY DEF Accounting, TypeOK, Awaiting, Reported

\* Coroutine e reports an error, or that there is nothing to change.
LEMMA FlagKeepsAccounting ==
    ASSUME TypeOK, Accounting, NEW e \in Ebuild, task[e] \in Awaiting,
           \/ Fails(e)
           \/ \E f \in Fetched(e) : ReportsNothing(e, f)
    PROVE  Accounting'
<1> USE DEF Awaiting
<1>0. changes.what_to_change' = changes.what_to_change
  BY DEF Fails, ReportsNothing, TypeOK, PackagesToUpdate
<1>1. CASE Fails(e)
  <2>1. /\ changes'.has_any_failed
        /\ changes'.is_any_successful = changes.is_any_successful
    BY <1>1 DEF Fails, TypeOK, PackagesToUpdate
  <2>2. task' = [task EXCEPT ![e] = "failed"]
    BY <1>1 DEF Fails
  <2> QED
    BY <1>0, <2>1, <2>2 DEF Accounting, TypeOK
<1>2. CASE \E f \in Fetched(e) : ReportsNothing(e, f)
  <2>1. /\ changes'.is_any_successful
        /\ changes'.has_any_failed = changes.has_any_failed
    BY <1>2 DEF ReportsNothing, TypeOK, PackagesToUpdate
  <2>2. task' = [task EXCEPT ![e] = "nothing"]
    BY <1>2 DEF ReportsNothing
  <2> QED
    BY <1>0, <2>1, <2>2 DEF Accounting, TypeOK
<1> QED
  BY <1>1, <1>2

\* Coroutine e reports a change: it is appended, and it was not listed before.
LEMMA ChangeKeepsAccounting ==
    ASSUME TypeOK, Accounting, NEW e \in Ebuild, task[e] \in Awaiting,
           NEW f \in Fetched(e), ReportsChange(e, f)
    PROVE  Accounting'
<1> USE DEF Awaiting
<1> DEFINE L == changes.what_to_change
           d == [ebuild |-> e, new_ver |-> f.ver, new_commit |-> f.commit]
<1>1. /\ L \in Seq(InfoForDiff)
      /\ d \in InfoForDiff
  BY FetchedType DEF TypeOK, PackagesToUpdate, InfoForDiff
<1>2. /\ changes'.what_to_change = Append(L, d)
      /\ changes'.is_any_successful = changes.is_any_successful
      /\ changes'.has_any_failed = changes.has_any_failed
      /\ task' = [task EXCEPT ![e] = "change"]
  BY DEF ReportsChange, TypeOK, PackagesToUpdate
<1> HIDE DEF L, d
<1>3. /\ DOMAIN Append(L, d) = DOMAIN L \cup {Len(L) + 1}
      /\ \A i \in DOMAIN L : Append(L, d)[i] = L[i]
      /\ Append(L, d)[Len(L) + 1] = d
      /\ Len(L) + 1 \notin DOMAIN L
  BY <1>1
<1>4. d.ebuild = e
  BY DEF d
<1>5. /\ \A i, j \in DOMAIN L : L[i].ebuild = L[j].ebuild => i = j
      /\ {L[i].ebuild : i \in DOMAIN L} = {g \in Ebuild : task[g] = "change"}
      /\ changes.has_any_failed <=> \E g \in Ebuild : task[g] = "failed"
      /\ changes.is_any_successful <=> \E g \in Ebuild : task[g] = "nothing"
  BY DEF Accounting, L
<1>6. \A i \in DOMAIN L : L[i].ebuild # e
  BY <1>5
<1>7. \A i, j \in DOMAIN Append(L, d) :
          Append(L, d)[i].ebuild = Append(L, d)[j].ebuild => i = j
  BY <1>3, <1>4, <1>5, <1>6
<1>8. {Append(L, d)[i].ebuild : i \in DOMAIN Append(L, d)}
         = {L[i].ebuild : i \in DOMAIN L} \cup {e}
  BY <1>3, <1>4
<1>9. {g \in Ebuild : task'[g] = "change"}
         = {g \in Ebuild : task[g] = "change"} \cup {e}
  BY <1>2 DEF TypeOK
<1>10. /\ (\E g \in Ebuild : task'[g] = "failed")
             <=> \E g \in Ebuild : task[g] = "failed"
       /\ (\E g \in Ebuild : task'[g] = "nothing")
             <=> \E g \in Ebuild : task[g] = "nothing"
  BY <1>2 DEF TypeOK
<1>11. /\ changes'.has_any_failed <=> \E g \in Ebuild : task'[g] = "failed"
       /\ changes'.is_any_successful <=> \E g \in Ebuild : task'[g] = "nothing"
  BY <1>2, <1>5, <1>10
<1>12. {Append(L, d)[i].ebuild : i \in DOMAIN Append(L, d)}
          = {g \in Ebuild : task'[g] = "change"}
  <2>1. {L[i].ebuild : i \in DOMAIN L} = {g \in Ebuild : task[g] = "change"}
    BY <1>5
  <2> QED
    BY <1>8, <1>9, <2>1, Zenon
<1> DEFINE Once(M) ==
             /\ \A i, j \in DOMAIN M : M[i].ebuild = M[j].ebuild => i = j
             /\ {M[i].ebuild : i \in DOMAIN M}
                   = {g \in Ebuild : task'[g] = "change"}
<1>13. Once(Append(L, d))
  BY <1>7, <1>12, Zenon
<1>14. Once(changes'.what_to_change)
  <2> HIDE DEF Once
  <2> QED
    BY <1>2, <1>13
<1> QED
  BY <1>11, <1>14, Zenon DEF Accounting

LEMMA NextAccounting ==
    TypeOK /\ Unstarted /\ Accounting /\ [Next]_vars => Accounting'
<1> SUFFICES ASSUME TypeOK, Unstarted, Accounting, [Next]_vars
             PROVE  Accounting'
  OBVIOUS
<1>1. CASE Walk \/ WalkThrows
  <2>1. \A e \in Ebuild : task[e] = "absent" /\ task'[e] \in {"absent", "started"}
    BY <1>1 DEF Walk, WalkThrows, Unstarted
  <2>2. UNCHANGED changes
    BY <1>1 DEF Walk, WalkThrows
  <2> QED
    BY <2>1, <2>2 DEF Accounting
<1>2. ASSUME NEW e \in Ebuild, Step(e)
      PROVE  Accounting'
  <2>1. task[e] \in Awaiting
    BY <1>2 DEF Step, StartsBash, BashExits, ReadsEnvironment, AcquiresLock,
                RequestReturns, Unwinds, Awaiting
  <2>2. CASE \/ Fails(e)
             \/ \E f \in Fetched(e) : ReportsNothing(e, f)
    BY <2>1, <2>2, FlagKeepsAccounting
  <2>3. CASE \E f \in Fetched(e) : ReportsChange(e, f)
    BY <2>1, <2>3, ChangeKeepsAccounting
  <2>4. CASE \E v \in TaskState \ Reported :
                task' = [task EXCEPT ![e] = v] /\ UNCHANGED changes
    BY <2>1, <2>4, SilentMoveKeepsAccounting
  <2> QED
    BY <1>2, <2>2, <2>3, <2>4
       DEF Step, StartsBash, BashExits, ReadsEnvironment, AcquiresLock,
           RequestReturns, Unwinds, Continues, Throws,
           TaskState, Awaiting, Reported
<1>3. CASE UNCHANGED <<task, changes>>
  BY <1>3 DEF Accounting
<1> QED
  BY <1>1, <1>2, <1>3 DEF Next, Cancel, Join, Over, vars

\* The changes and the two flags are exactly the reports of the coroutines, in
\* whatever order they came: none is lost, none is counted twice.
THEOREM NothingIsLost == Spec => []Accounting
<1>1. Init => Accounting
  BY DEF Init, NoChanges, Accounting
<1>2. PermitsInv => TypeOK /\ Unstarted
  BY DEF PermitsInv
<1> QED
  BY <1>1, <1>2, NextAccounting, InitPermitsInv, NextPermitsInv, PTL DEF Spec

---------------------------------------------------------------------------
(* What is listed.                                                         *)

\* A change is to something newer than the ebuild.
ListsUpgrades ==
    LET listed == changes.what_to_change
    IN  \A i \in DOMAIN listed : Current[listed[i].ebuild] < listed[i].new_ver

LEMMA NextListsUpgrades ==
    TypeOK /\ ListsUpgrades /\ [Next]_vars => ListsUpgrades'
<1> SUFFICES ASSUME TypeOK, ListsUpgrades, [Next]_vars
             PROVE  ListsUpgrades'
  OBVIOUS
<1>1. CASE changes'.what_to_change = changes.what_to_change
  BY <1>1 DEF ListsUpgrades
<1>2. ASSUME NEW e \in Ebuild, NEW f \in Fetched(e), ReportsChange(e, f)
      PROVE  ListsUpgrades'
  <2> DEFINE L == changes.what_to_change
             d == [ebuild |-> e, new_ver |-> f.ver, new_commit |-> f.commit]
  <2>1. L \in Seq(InfoForDiff) /\ d \in InfoForDiff
    BY <1>2, FetchedType DEF TypeOK, PackagesToUpdate, InfoForDiff
  <2>2. changes'.what_to_change = Append(L, d)
    BY <1>2 DEF ReportsChange, TypeOK, PackagesToUpdate
  <2>3. Current[d.ebuild] < d.new_ver
    BY <1>2 DEF ReportsChange, IsChanged
  <2>4. \A i \in DOMAIN L : Current[L[i].ebuild] < L[i].new_ver
    BY DEF ListsUpgrades
  <2> HIDE DEF L, d
  <2>5. \A i \in DOMAIN Append(L, d) :
           Current[Append(L, d)[i].ebuild] < Append(L, d)[i].new_ver
    BY <2>1, <2>3, <2>4
  <2> QED
    BY <2>2, <2>5 DEF ListsUpgrades
<1>3. \/ changes'.what_to_change = changes.what_to_change
      \/ \E e \in Ebuild : \E f \in Fetched(e) : ReportsChange(e, f)
  BY DEF Next, Walk, WalkThrows, Cancel, Join, Over, vars, Step, StartsBash,
         BashExits, ReadsEnvironment, AcquiresLock, RequestReturns, Unwinds,
         Continues, Fails, Throws, ReportsNothing, TypeOK, PackagesToUpdate
<1> QED
  BY <1>1, <1>2, <1>3
===========================================================================
