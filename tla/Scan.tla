------------------------------- MODULE Scan -------------------------------
(***************************************************************************)
(* get_what_to_change: the walk over the ebuild repository and the nursery *)
(* with one coroutine per ebuild (logic_per_ebuild).  A coroutine runs     *)
(* bash on its ebuild, reads the `environment` file bash left, takes one   *)
(* permit of its service's semaphore, asks the service for its feed, gives *)
(* the permit back and reports into the PackagesToUpdate that all          *)
(* coroutines share.                                                       *)
(*                                                                         *)
(* One thread runs every coroutine (boost::asio::io_context), so the code  *)
(* between two co_awaits is one step; an action is named for the await it  *)
(* resumes from.                                                           *)
(***************************************************************************)
EXTENDS Naturals, Sequences, FiniteSets

CONSTANTS
    Ebuild,       \* the *.ebuild files of the repository that are not *9999
    Service,      \* gyou::Service
    Github,       \* the one service get_latest_info has a handler for
    NoService,    \* no regex of ServicesNames matches (or there is no SRC_URI)
    ServiceOf,    \* the service of an ebuild's first SRC_URI
    HasDate,      \* ebuilds re_pkg_with_date matches: PackageType::Commit
    IsTag,        \* ebuilds whose SRC_URI has "refs" as its fourth segment
    Current,      \* the version or date of an ebuild, as its rank in the order
                  \* logic_per_ebuild compares with
    Published,    \* ranks the first entry of a feed may have
    Concurrency   \* cfg.concurrency_per_service

ASSUME ConcurrencyAssumption == Concurrency \in Nat \ {0}  \* CLI::PositiveNumber

ASSUME EbuildAssumption ==
    /\ IsFiniteSet(Ebuild)
    /\ Github \in Service
    /\ NoService \notin Service
    /\ ServiceOf \in [Ebuild -> Service \cup {NoService}]
    /\ HasDate \subseteq Ebuild
    /\ IsTag \subseteq Ebuild
    /\ Current \in [Ebuild -> Nat]
    /\ Published \subseteq Nat

VARIABLES
    task,        \* where the coroutine of each ebuild is
    permits,     \* what is left of each service's corral::Semaphore
    changes,     \* the PackagesToUpdate of get_what_to_change
    scan,        \* its nursery
    scan_error   \* the exception the nursery holds for its join

vars == <<task, permits, changes, scan, scan_error>>

\* The awaits a coroutine can be suspended at.
Awaiting == {"started", "bash", "environment", "lock", "request"}

\* A coroutine that finished, with what it reported: logic_per_ebuild returned
\* an error, nullopt, or an InfoForDiff.
Reported == {"failed", "nothing", "change"}

TaskState == {"absent"} \cup Awaiting \cup Reported \cup {"threw", "cancelled"}

ScanClosed == {"returned", "cancelled", "threw"}

ScanState == {"idle", "open", "cancelling"} \cup ScanClosed

\* Which catch clause of main an exception ends in.
Exception == {"OmegaException", "std::exception"}

InfoForDiff ==
    [ebuild : Ebuild, new_ver : Published \cup {0}, new_commit : {"sha", ""}]

PackagesToUpdate ==
    [what_to_change : Seq(InfoForDiff),
     is_any_successful : BOOLEAN,
     has_any_failed : BOOLEAN]

NoChanges ==
    [what_to_change |-> <<>>, is_any_successful |-> FALSE,
     has_any_failed |-> FALSE]

InFlight(s) == {e \in Ebuild : task[e] = "request" /\ ServiceOf[e] = s}

---------------------------------------------------------------------------

Init ==
    /\ task = [e \in Ebuild |-> "absent"]
    /\ permits = [s \in Service |-> Concurrency]
    /\ changes = NoChanges
    /\ scan = "idle"
    /\ scan_error = "none"

\* The directory walk starts every coroutine; it has no co_await.
Walk ==
    /\ scan = "idle"
    /\ scan' = "open"
    /\ task' = [e \in Ebuild |-> "started"]
    /\ UNCHANGED <<permits, changes, scan_error>>

\* A directory_iterator throws part of the way: the nursery cancels the
\* coroutines already started and rethrows at its end.
WalkThrows ==
    /\ scan = "idle"
    /\ scan' = "cancelling"
    /\ scan_error' = "std::exception"
    /\ \E begun \in SUBSET Ebuild :
          task' = [e \in Ebuild |-> IF e \in begun THEN "started" ELSE "absent"]
    /\ UNCHANGED <<permits, changes>>

---------------------------------------------------------------------------
(* How a coroutine ends.                                                   *)

\* logic_per_ebuild returned std::unexpected.
Fails(e) ==
    /\ task' = [task EXCEPT ![e] = "failed"]
    /\ changes' = [changes EXCEPT !.has_any_failed = TRUE]
    /\ UNCHANGED <<scan, scan_error>>

\* An exception leaves the coroutine: the nursery keeps the first one and
\* cancels the siblings.
Throws(e, exception) ==
    /\ task' = [task EXCEPT ![e] = "threw"]
    /\ scan' = "cancelling"
    /\ scan_error' = IF scan_error = "none" THEN exception ELSE scan_error
    /\ UNCHANGED changes

Continues(e, await) ==
    /\ task' = [task EXCEPT ![e] = await]
    /\ UNCHANGED <<changes, scan, scan_error>>

\* logic_per_ebuild compares the fetched version with the ebuild's own.
IsChanged(e, fetched) == Current[e] < fetched.ver

ReportsChange(e, fetched) ==
    /\ IsChanged(e, fetched)
    /\ task' = [task EXCEPT ![e] = "change"]
    /\ changes' = [changes EXCEPT !.what_to_change =
                      Append(@, [ebuild |-> e, new_ver |-> fetched.ver,
                                 new_commit |-> fetched.commit])]
    /\ UNCHANGED <<scan, scan_error>>

\* Mutant: is_any_successful is not set.
ReportsNothingSilently(e, fetched) ==
    /\ ~IsChanged(e, fetched)
    /\ task' = [task EXCEPT ![e] = "nothing"]
    /\ UNCHANGED <<changes, scan, scan_error>>

ReportsNothing(e, fetched) ==
    /\ ~IsChanged(e, fetched)
    /\ task' = [task EXCEPT ![e] = "nothing"]
    /\ changes' = [changes EXCEPT !.is_any_successful = TRUE]
    /\ UNCHANGED <<scan, scan_error>>

---------------------------------------------------------------------------
(* The steps of a coroutine, one per await it resumes from.                *)

\* get_ebuild_info up to the wait for bash.  The name does not parse or holds
\* an invalid part, or the folder for bash cannot be made: an error.  Bash
\* cannot be launched: boost::process throws.
StartsBash(e) ==
    /\ task[e] = "started"
    /\ \/ Continues(e, "bash")
       \/ Fails(e)
       \/ Throws(e, "std::exception")
    /\ UNCHANGED permits

\* Bash exits.  A status other than 0 is an error; file_to_string throws if
\* there is no `environment`, and so does its stream_file if it cannot open it.
BashExits(e) ==
    /\ task[e] = "bash"
    /\ \/ Continues(e, "environment")
       \/ Fails(e)
       \/ \E x \in Exception : Throws(e, x)
    /\ UNCHANGED permits

\* The `environment` file is in memory: the commit (for a package with a date),
\* SRC_URI and the service are looked up in it, and the service's handler is
\* entered up to its semaphore.  A URL that does not parse throws.
ReadsEnvironment(e) ==
    /\ task[e] = "environment"
    /\ \/ ServiceOf[e] = Github /\ Continues(e, "lock")
       \/ Fails(e)
       \/ ServiceOf[e] = Github /\ Throws(e, "std::exception")
    /\ UNCHANGED permits

\* Mutant: the request does not wait for its semaphore.
AcquiresWithoutWaiting(e) ==
    /\ task[e] = "lock"
    /\ permits' = [permits EXCEPT ![ServiceOf[e]] = IF @ > 0 THEN @ - 1 ELSE 0]
    /\ Continues(e, "request")

\* semaphores.at(service).lock().
AcquiresLock(e) ==
    /\ task[e] = "lock"
    /\ permits[ServiceOf[e]] > 0
    /\ permits' = [permits EXCEPT ![ServiceOf[e]] = @ - 1]
    /\ Continues(e, "request")

\* Mutant: an early return on an error skips the release.
ReleasesUnlessFailed(e) ==
    permits' = IF task'[e] = "failed" THEN permits
               ELSE [permits EXCEPT ![ServiceOf[e]] = @ + 1]

\* Mutant: the permit is given back by hand and by its guard.
ReleasesTwice(e) == permits' = [permits EXCEPT ![ServiceOf[e]] = @ + 2]

\* The lock guard goes out of scope.
Releases(e) == permits' = [permits EXCEPT ![ServiceOf[e]] = @ + 1]

\* What github_fetch_version makes of a feed that has no entry, or of its first
\* entry.  An "updated" date that does not parse ranks below every ebuild.  A
\* commit is read only from /commits.atom, that is when the package has a date
\* and its URI is not a tag.
Fetched(e) ==
    {[ver |-> 0, commit |-> ""]} \cup
    [ver : Published \cup {0},
     commit : {IF e \in HasDate \ IsTag THEN "sha" ELSE ""}]

\* request_internet returns.  A failed request, a feed that is no XML and a tag
\* without a version are errors; a feed without the expected nodes throws.
RequestReturns(e) ==
    /\ task[e] = "request"
    /\ \/ \E fetched \in Fetched(e) : ReportsChange(e, fetched)
       \/ \E fetched \in Fetched(e) : ReportsNothing(e, fetched)
       \/ Fails(e)
       \/ Throws(e, "std::exception")
    /\ Releases(e)

\* A cancelled coroutine is destroyed at its await: bash is killed, a held lock
\* guard is destroyed.  (A coroutine whose await has already completed may
\* still take that step first.)
Unwinds(e) ==
    /\ scan = "cancelling"
    /\ task[e] \in Awaiting
    /\ task' = [task EXCEPT ![e] = "cancelled"]
    /\ IF task[e] = "request" THEN Releases(e) ELSE UNCHANGED permits
    /\ UNCHANGED <<changes, scan, scan_error>>

---------------------------------------------------------------------------
(* The nursery.                                                            *)

\* chief_logic's nursery or the signal handler cancels get_what_to_change.
Cancel ==
    /\ scan = "open"
    /\ scan' = "cancelling"
    /\ UNCHANGED <<task, permits, changes, scan_error>>

\* Mutant: the result is returned without the join.
ReturnsWithoutJoin ==
    /\ scan \in {"open", "cancelling"}
    /\ scan' = IF scan_error = "none" THEN "returned" ELSE "threw"
    /\ UNCHANGED <<task, permits, changes, scan_error>>

\* co_return corral::join: every coroutine has ended.  A cancellation that came
\* too late to stop any coroutine may be overtaken by the result.
Join ==
    /\ scan \in {"open", "cancelling"}
    /\ \A e \in Ebuild : task[e] \notin Awaiting
    /\ \/ /\ scan_error # "none"
          /\ scan' = "threw"
       \/ /\ scan_error = "none"
          /\ \A e \in Ebuild : task[e] \in Reported
          /\ scan' = "returned"
       \/ /\ scan_error = "none"
          /\ scan = "cancelling"
          /\ scan' = "cancelled"
    /\ UNCHANGED <<task, permits, changes, scan_error>>

\* get_what_to_change is over.
Over == scan \in ScanClosed /\ UNCHANGED vars

Step(e) ==
    \/ StartsBash(e)
    \/ BashExits(e)
    \/ ReadsEnvironment(e)
    \/ AcquiresLock(e)
    \/ RequestReturns(e)
    \/ Unwinds(e)

Next ==
    \/ Walk
    \/ WalkThrows
    \/ \E e \in Ebuild : Step(e)
    \/ Cancel
    \/ Join
    \/ Over

\* The io_context runs every coroutine that is ready.  That bash ends is assumed
\* of bash.  That a request ends is what the deadlines in http_requests.hpp are
\* for (name resolution has none of its own: the system resolver's is assumed).
Fairness ==
    /\ WF_vars(Walk \/ WalkThrows)
    /\ \A e \in Ebuild : WF_vars(Step(e))
    /\ WF_vars(Join)

Spec == Init /\ [][Next]_vars /\ Fairness

---------------------------------------------------------------------------
(* Properties.                                                             *)

TypeOK ==
    /\ task \in [Ebuild -> TaskState]
    /\ permits \in [Service -> 0..Concurrency]
    /\ changes \in PackagesToUpdate
    /\ scan \in ScanState
    /\ scan_error \in Exception \cup {"none"}

\* A permit is held by exactly the coroutines inside a request: no path out of
\* a request - answer, error, exception or cancellation - leaks or doubles one,
\* so at most cfg.concurrency_per_service requests run per service.
PermitsConserved ==
    \A s \in Service : permits[s] + Cardinality(InFlight(s)) = Concurrency

\* The summary the coroutines build together is the sum of their reports: each
\* ebuild with a change is listed once, no other ebuild is, and the two flags
\* say whether some ebuild failed and whether some ebuild is up to date.
Accounting ==
    LET listed == changes.what_to_change
    IN  /\ \A i, j \in DOMAIN listed :
              listed[i].ebuild = listed[j].ebuild => i = j
        /\ {listed[i].ebuild : i \in DOMAIN listed}
              = {e \in Ebuild : task[e] = "change"}
        /\ changes.has_any_failed <=> \E e \in Ebuild : task[e] = "failed"
        /\ changes.is_any_successful <=> \E e \in Ebuild : task[e] = "nothing"

\* get_what_to_change returns a summary only when every ebuild of the
\* repository is in it; however it ends, no coroutine outlives it and no
\* permit stays taken.
CompleteWhenClosed ==
    /\ scan = "returned" => \A e \in Ebuild : task[e] \in Reported
    /\ scan \in ScanClosed =>
          /\ \A e \in Ebuild : task[e] \notin Awaiting
          /\ \A s \in Service : permits[s] = Concurrency

\* The scan ends: no coroutine waits for ever for a permit.
ScanEnds == scan = "open" ~> scan \in ScanClosed

\* At most Concurrency requests at a time, and each of them ends.
Limit == INSTANCE RequestLimit
            WITH Client <- {e \in Ebuild : ServiceOf[e] = Github},
                 Limit <- Concurrency,
                 active <- InFlight(Github)

ImplementsRequestLimit == Limit!Spec
===========================================================================
