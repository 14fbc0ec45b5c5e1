# A TLA+ model of gyou

gyou walks over a Gentoo ebuild repository, asks the service behind each ebuild's first
`SRC_URI` for its latest version, and applies every update it finds in a git worktree of its own,
packages that belong together (`groups-ci.json`) in one worktree. It is one thread: every
coroutine (corral, on one `boost::asio::io_context`) runs alone between two `co_await`s, and most of
what is hard about it happens *at* the awaits: bash, git, HTTP requests and files finish in any
order, fail, throw, or are cancelled, while the coroutines share memory, semaphores, worktrees and
branches. The rest is hard because it is text: names, tags and dates in which much looks like a
version, compared and replaced as strings, run after run.

## Inventory

| Component | State it keeps | Operations | Talks to | What makes it correct |
|---|---|---|---|---|
| Program control (`main.cpp`) | `return_code`, `changes`, two nurseries | `main`, `actual_chief`, `chief_logic`, signal race, catch clauses | everything below | the exit code says what happened; nothing is left running |
| Repository scan (`get_what_to_change.cpp`, `parsing_one_ebuild.cpp`) | `PackagesToUpdate` shared by all coroutines | walk, one `logic_per_ebuild` per ebuild, join | bash, lookup | every ebuild is accounted for exactly once |
| Ebuild reading (`parse_ebuild.cpp`, `bash_ebuild.cpp`) | temp folder with `environment` | name, bash, regexes | child processes, files | an ebuild that cannot be read fails alone, unless something throws; the right version and commit are read |
| Latest version (`get_latest_update.cpp`, `fetchers/github.cpp`) | one `corral::Semaphore` per service | lock, request, feed | HTTP | never more requests than permitted, no permit lost; the first entry is the latest |
| HTTP client (`http_requests.cpp`) | socket, parser | resolve, connect, handshake, write, read, shutdown | network | a request ends; what is returned is complete; a complete answer is not lost |
| Version names (`parse_portage_ver.cpp`, `tag_to_portage_versions.cpp`) | none | PCRE2 matches, the last one counts | - | a name gives the version portage reads in it, a tag its number |
| String replacement (`string_replace.hpp`) | a buffer, edited in place | `Replace` | apply_change | all occurrences are replaced, nothing else; it stays in the buffer |
| Grouping (`parsing_groupsci.cpp`, `main.cpp`) | package to group number | `parse_groups`, `equal_range` | worktrees | each change is in one unit |
| Worktrees and changes (`git_worktree.cpp`, `apply_change.cpp`, `string_to_file.cpp`, `file_to_string.cpp`, `bash_ebuild_manifest.cpp`) | branches and worktrees, which outlive the program | worktree add, edit, rename, manifest | git, `ebuild`, files | a change is applied in its own worktree, completely, or the run says it was not |
| Child processes (`async_read_with_custom_log.cpp` and its four callers) | two pipes and a process | launch, two `read_loop`s, `async_wait` | operating system | no deadlock, no output lost, no child left |
| Feed parsing, context, services, configuration, logging, utilities | none that changes | - | - | - |

Outside the repository, and modelled from its use (marked external in the map): corral (nurseries,
semaphore, cancellation), git, bash, `ebuild`, pipes and processes, servers and the network, PCRE2,
the upstream projects and the ebuild repository between two runs.

What is hard here: errors are values (`std::expected`) in some places and exceptions in others, and
the two leave a nursery on different paths; a nursery may be left by its children's ends, by an
exception, by `cancel()` from one of its own children, and by a signal, all in one run; coroutines
write one summary; branches and worktrees of earlier runs meet those of later ones; a permit must
come back on every path; two processes that talk through bounded pipes may wait for each other; a
server may end its side early, late, improperly or never; upstream goes on between any two awaits;
the loops that replace in place read and write the same buffer.

## Modules

| Module | Models | Extends, instantiates |
|---|---|---|
| `RequestLimit` | what `-J` promises: at most `Limit` requests at a time, each ends | |
| `Scan` | `get_what_to_change` with its coroutines and semaphores | instantiates `RequestLimit` (refinement) |
| `Worktrees` | grouping, units, changes, over several runs of the program | |
| `Chief` | one run of the program: `main`, `chief_logic`, `git_fetch`, signals, the exit code | instantiates `Scan` and `Worktrees` (as parts, and as what its halves refine) |
| `Subprocess` | a child, its two pipes, two `read_loop`s, the wait | |
| `HttpRequest` | `request_internet` with both coroutines, a server, the network, time | |
| `Replacement` | what `Replace` makes of a string, as an operator | |
| `StringReplace` | `Replace` and its two in-place loops, turn by turn | `Replacement` |
| `VersionNames` | `parse_ebuild_name`, `tag_to_portage_version`, the order of strings: operators only | |
| `Updates` | one ebuild of a released or tagged package over many runs | `VersionNames`, `Replacement` |
| `PerCommit` | one ebuild of a package per commit over many runs | |
| `ScanProofs`, `WorktreesProofs`, `SubprocessProofs`, `HttpRequestProofs`, `StringReplaceProofs`, `PerCommitProofs` | theorems about the module of that name | that module, TLAPS |
| `UpdatesProofs` | theorems about `Updates` | `Updates`, instantiates `StringReplaceProofs` |
| `ChiefProofs` | theorems about `Chief` | `Chief`, instantiates `ScanProofs`, `WorktreesProofs` |
| `MC...` | the instances for TLC | the module of that name |

How they fit together: `Chief` composes `Scan` and `Worktrees`. `Subprocess` is what one await on a
child process stands for in those three, `HttpRequest` what `Scan`'s `RequestReturns` stands for:
an error, or a body that is whole. `StringReplace` shows that `Replace` replaces the occurrences that
`Updates` and `PerCommit` replace in names and texts in one step. `Updates` and `PerCommit` take one
ebuild out of `Scan` and `Worktrees` and follow it over many runs with what is in its name, where
those two have only a version's rank.

### Scan

`task[e]` is where the coroutine of ebuild `e` is suspended (`started`, `bash`, `environment`,
`lock`, `request`) or how it ended (`failed`, `nothing`, `change`, `threw`, `cancelled`).
`permits[s]` is what is left of a service's semaphore, `changes` the `PackagesToUpdate`, `scan` the
nursery, `scan_error` the exception it holds. There is one action per await a coroutine resumes from
(`StartsBash`, `BashExits`, `ReadsEnvironment`, `AcquiresLock`, `RequestReturns`), each with all its
outcomes: the next await, `std::unexpected` (`Fails`), an exception (`Throws`), or a report.
`RequestReturns` gives back the permit on each. `Unwinds` destroys a cancelled coroutine at its
await. The walk has no `co_await`, so `Walk` starts all coroutines at once; `WalkThrows` is a
directory iterator that throws after some. An ebuild's version, whatever its form, is its rank in the
order `logic_per_ebuild` compares with (`<` on strings or on dates), so that the model does not
assume this order to be portage's. What a feed yields is any published rank or nothing.

### Worktrees

A *unit* is one call of `worktree_create_change_and_pr`: an ungrouped change, or all changes of a
group. It is named by its leader, the change `equal_range` begins with, whose package names folder
and branch (`<<group number, package>>`). `unit[l]` follows git: `git worktree add -b` makes the branch
(`GitBranches`), then the folder with the main branch's files (`GitPopulates`), and refuses at either
point if the name is taken, or for any other reason. `change[e]` follows `apply_change`: an
`EditVerOrTag` renames and then waits for `ebuild manifest`; an `EditCommit` reads the ebuild of the
*original* repository, replaces the commit in that text, writes it over the file in the worktree, and renames
that. The two texts need not be the same: what is read is `path_to_repo`'s working copy at that moment, of whatever branch
and with its owner's edits (`copy[e]`, any member of `Copies`: how long it is, and whether it still has the commit the scan
found); what is written over is the main branch's file (`MainFile`, `Size`). `string_to_file` does not truncate, so
`Overwritten` is the new text if that is at least as long, and `torn` (the new text with the old file's end behind it)
otherwise. A working copy without the commit is written as it is (`unedited`); an empty new commit makes the text shorter by
`CommitSize`. The rename moves whatever file has the old name then: a sibling may have been renamed onto it meanwhile, and the
text went into the file that was replaced (`Written`). A worktree is a function from file names (stem and version) to such
files. `refs` and `worktree` stay over `Restart`: the next run finds them.

`SuccessMeansApplied` therefore says when a run without a failure has really edited a dated ebuild: exactly if the copy
had the commit and what was written is not shorter than the main branch's file. That this is not what the log says of it
is the run `worktrees_torn`. Changes of one unit that touch the same file name are outside of it
(`Clashes`): there the code loses one of the two files and reports success.

File names are pairs of a stem and a version. In the code the version is replaced in the whole file
name, also where it happens to occur in the package's name: that is in `Updates`. Manifest contents
are not modelled.

### Chief

`phase` is the nursery or await `chief_logic` is at (`start` is `main` before any coroutine: the command
line, the path to `ebuild.sh`, the log), `fetch` the coroutine with `git fetch`, `first` and
`first_error` the nursery around both, `exit` what main returns. `git_found`, `in_repo` and `remote` are
what `git_fetch` meets: whether there is a `git` in `PATH`, whether the program was started in the
repository of `--repo-path` (`git_fetch` sets no directory of its own), and whether that repository's
remotes are known as they are now. The two halves are the actions of
`Scan` and `Worktrees`, so that a whole run is composed of the same definitions that are checked and
proved on their own. `Found` is what reaches `changes`: the assignment to `_changes` is made only if
`get_what_to_change` returned. `Verdict` is the chain of ifs after the second nursery. `SIGSEGV` stands for
the dereference of an end iterator (a null node in the standard library in use).

The composition is also a refinement: `ImplementsScan` and `ImplementsWorktrees` say that each half, with
`git fetch`, signals and exceptions around it, takes only steps of its module. For the second this is
true under a mapping (`Alone`): `return_code` also holds the failure of `git fetch`, which `Worktrees`
knows nothing of, and what is proposed is what a scan may propose (`Upgrades`).

### Subprocess

`reader[s]` are the two `read_loop`s of `corral::allOf`, `received[s]` and `written[s]` how much went out of
and into each pipe, `output` what is still to be written and in which order, `open[s]` who can still write
into a pipe: the child, until it closes the stream or exits, and its `heir`, a process it left in the
background with the streams it had. In `Scan`, `Worktrees` and `Chief` one such call is one
await (`bash`, `manifest`, the git states); `Subprocess` justifies that: such a call ends, with the
child's own status, and with no child left, also when it is cancelled.

### HttpRequest

`stage` is the await `typical_https_request` or `typical_http_request` is at, `deadline` the one of
`boost::beast::tcp_stream`, set by `expires_after` where the code does (`ExpiresAfter`), `clock` the time since
the name was resolved. The server sends the response in `Parts`, may notify the end of TLS, close, and
the connection may break, all at any time; nothing obliges it to do anything. `ReadsResponse` is
`async_read`, which ends with the length, the last chunk, or the end of the connection if the response
has neither. `Closes` has both outcomes of the shutdown that the code tells apart: `stream_truncated`, which it
forgives, and any other error, which discards the answer. `Unwinds` is a cancellation at any await.
One thing is a definition rather than an assumption: where a response ends with the connection, `close_notify` is what ends
it (`ServerNotifies`), so a server that sends it early has sent a shorter response; a response with a length may be cut off by it.

### StringReplace

`stage` is the loop that runs, one action one turn: `Counts` is the loop of `CountOccurrences`, `MakesRoom` the
`resize`, `Forward` and `Stops` that of `ReplaceNotLonger`, `Backward` that of `ReplaceLonger`. Positions
count from 0 and subtract modulo `SizeMod` as a `size_t` does. `found` has the positions counted where the code
has only their number: a history variable, which the properties and the proof need. The reference for the
result is `Replaced` in `Replacement`: `ReplacedFrom` takes the occurrences from the left, each behind the one before, `ReplacedUpTo`
from the right. `Updates` uses the same operator for the names of files.

### VersionNames and Updates

`PortageMatch` is one match of `PCRE2_REGEX_PORTAGE_VERSION`, with its greedy groups as the ends of what they take
(`VersionEnd`, `RevisionEnd`); `ParsedFrom` is the loop over all matches of a name, of which the last
decides, `TagFrom` the one over those of a tag, of which the last version and the last suffix, not
necessarily of one match, decide. `Less` is `std::string`'s `<`. The module's `ASSUME`s in `MCUpdates` are
the expectations of the repository's unit tests. `Updates` follows one ebuild: `Publishes` is upstream, `Parses`, `Fetches`,
`Compares`, `Renames` are what a run does in this order, `Applies` that `ebuild manifest` accepts the new name and
the branch is merged. What is an ebuild for portage (`Versioned`) is modelled apart from what gyou reads.

Two restrictions in its properties are about what the code does not do. A package that does not end in a word, such as a-1++, is read
wrongly: of a-1++-2.0 the expression finds a-1 and nothing behind it, so that 1 is taken for the version, and no manifest is made of
what is renamed then. `VersionIsReadLikePortage` and `Converges` are about packages that end in a word (`EndsInAWord`). And if a package has what could be a revision
(a-1-r2b), that is what `rev` holds when the ebuild has none of its own (`HasRevision`). `Plain` tags have nothing behind their number, and in front of it
no digit or, as the expression demands of a name, a first hyphen with a digit behind it just before the number.

### PerCommit

`name` is the date in the name of one ebuild, `pins` the commits its text assigns to shell variables, which bash
prints in order of their names; `Found` is the first of them that holds a commit, which is what `re_commit_str`
takes. `own` is the variable that is really the package's. `Feed` is `tags.atom` or `commits.atom`, by the URI,
and `IsLatest` its first entry. `Yyyymmdd` is the arithmetic at `github.cpp:213`. `Edited` is `Replace` in the text:
wherever the commit is, also in other variables. Between any two of a run's steps upstream may push, a run may fail,
and then nothing of it is merged. That the text which is read may be another than the main branch's, and that a
shorter one leaves the old end, is in `Worktrees`; here the working copy is what was merged last.

## Runs

| Run | Instance and bounds | Shows |
|---|---|---|
| `scan` | 4 ebuilds: dated, tagged and released ones compete for 2 permits of Github, one has a service without a handler | `TypeOK`; `PermitsConserved`: permits plus requests in flight are constant; `Accounting`: the summary is exactly the sum of the reports; `CompleteWhenClosed`: a returned summary is complete, nothing is left; `ScanEnds`; `ImplementsRequestLimit` |
| `worktrees` | 4 ebuilds in 2 packages, with files of 3 lengths; 8 sets of proposals, 3 contents of `groups-ci.json`, 2 working copies (shorter than one file and longer than another; without the commit), 2 runs | `TypeOK`; `ExclusiveWorktree`; `FailureReported`; `SuccessMeansApplied`; `OthersUntouched`; `EarlierRunsKept`; `ApplyEnds` |
| `chief` | 2 ebuilds, 1 permit, 3 contents of `groups-ci.json`, a working copy as long as main's file, with and without git, started in the repository or elsewhere | `VerdictIsHonest`: exit codes 0 to 3 mean what they say of fetch, scan and changes; `OnlyReportedEdits`; `FetchBeforeBranches`: no branch without git, before the fetch has ended, or, started in the repository, with remotes that are not known; `NothingOutlivesTheProgram`; `ImplementsScan`, `ImplementsWorktrees`; `ProgramEnds` |
| `subprocess` | all orders of up to 4 writes, pipes that hold 2 | `OutputComplete`; `NoChildLeft`; `CallEnds` |
| `http_request` | both schemes, with and without a port, 2 parts, deadlines of 2 and 3 | `AnswerIsComplete`: what is returned is whole; `CompleteAnswerKept`: what is whole is lost only to a broken connection or silence up to the deadline; `EndsInTime`; `RequestEnds` |
| `string_replace` | all strings of up to 6 characters out of 2, all texts of up to 3 | `ReadsTheArgument`; `StaysInBuffer`; `ReplacesOccurrences`: the result is that of its reference; `ReplaceEnds` |
| `updates` | 8 names of packages, 2 revisions, 8 versions (6 numbers and 2 others), tags with folders, prefixes and suffixes, 1 release of any kind or 2 regular ones | `TypeOK`; `VersionIsReadLikePortage`; `PlainTagGivesItsNumber`; `UpdatesAreUpgrades`: no downgrade as long as numbers have as many digits; `MergedIsFetched`: what is merged is the package with the version fetched; `Converges` |
| `per_commit` | 3 commits on 3 days in any order, around the turns of a year and a month; tags on none or some; 2 variables | `PinFitsName`: the commit pinned is of the day in the name; `MovesForward`: to a later day, other projects' commits kept; `CatchesUp` |
| `chief_crash` | as `chief` | violated: a group without a change crashes the program (`main.cpp:274`) |
| `chief_verdicts` | as `chief` | violated: `AllHaveFailed` although one ebuild was updated |
| `worktrees_torn` | as `worktrees` | violated: a dated ebuild is torn after a run without a failure, because its working copy is shorter than the main branch's file |
| `version_order` | as `updates`, 1 release | violated: "New version!!!" of 1.8 when the ebuild has 1.10 |

`TypeOK` of `Chief`, `HttpRequest`, `StringReplace`, `Subprocess` and `PerCommit` is no property of a run: it is proved
instead, for all values of the constants.

Why the bounds are enough. *scan*: three competitors for two permits is the smallest instance with
a coroutine that waits, one that holds and one that ends meanwhile; each kind of feed occurs once.
*worktrees*: the proposals are chosen for the collisions: a rename onto a version that is itself being written and renamed, two
versions of one package becoming the same one, a dated ebuild with and without a commit, an ebuild
that main does not have; the groups for one worktree shared by two packages, for none, and for a package listed twice, which separates
the two. Of the two working copies one is shorter than one file by a character and longer than the other by a commit, which makes both
boundaries of `EdittedSize` and `Overwritten` occur; the other has lost the commit. Two runs let a second one meet everything a first may leave. *chief*: with two
ebuilds one can fail while the other is updated, and a group can be without a change. *subprocess*: four writes
through a pipe of two fill either pipe before the other is used. *http_request*: two parts can arrive whole, half or
not at all; with different deadlines the first is over before the second. *string_replace*: in six characters a text
of two or three occurs not at all, often, next to itself and overlapping itself. *updates*: names with digits, with a version, and with the
beginning of one; 1.8, 1.9, 1.10 and 2.0 have both agreeing and disagreeing orders. *per_commit*: with three commits a
later push may have an earlier day, and the run may be overtaken twice.

`MaxRuns`, `MaxText`, `MaxWord`, `MaxReleases`, names without capital letters, and the sets `Proposals`, `GroupsFiles`, `Copies`, `Published`,
`Outputs`, `Histories` are the only bounds; the clock of `HttpRequest` stops at its deadlines, and no counter is
cut off otherwise. A run of the program may always be the last, so deadlock is checked with an
explicit final step (`Over`, `AllRunsOver`, `Ended`, `GivesUp`).

### Fairness

Weak fairness of every coroutine's steps and of the joins: the `io_context` runs whatever is ready,
in some order. Nothing forces a cancellation, a signal, an error or an exception. Of the outside world
it is assumed that bash, git and `ebuild` exit (`BashExits`, `GitRefuses` or `GitPopulates`, `ManifestExits`,
`ChildExits`) and that a request returns. `HttpRequest` justifies the latter by its clock alone (`Tick`, `TimesOut`):
neither the server nor the network is counted on. Name resolution has no deadline; there the system resolver's own is assumed. A semaphore's permit is
taken under weak fairness only: since each coroutine takes it once, none is overtaken for ever.
In `Subprocess` a pipe that fails otherwise than by eof keeps `read_loop` reading for ever;
`CallEnds` names this exception, and the other modules assume it does not happen. `StringReplace` is sequential: its
one step is weakly fair.

`Updates` and `PerCommit` are about many runs: gyou is run again and again (the stage of the ebuild changes infinitely often,
which is weak fairness of `Run`, since one of its steps is always enabled and each changes the stage), upstream goes on
publishing what it will publish, and not every attempt fails: `Applies`, and in `PerCommit` `Fetches`, are strongly fair,
because a failure in one run disables them until the next. The code has no retry of its own; the next run is the retry.

## Proofs

All proofs are checked by tlapm. They hold for every value of the constants that satisfies the
`ASSUME`s of the modules.

* `ScanProofs`. `ScanIsWellTyped` (`TypeOK`), `PermitsInvariant` (`PermitsConserved`), `StaysWithinRequestLimit` (the safety half of
  the refinement of `RequestLimit`), `ClosedScanIsComplete`, `NothingIsLost` (`Accounting`). A permit's
  conservation is inductive with typing; it needs that the set of coroutines inside a request is finite and changes by one.
  Completeness at the end needs in addition that every coroutine was started unless an exception is held,
  and that nothing is cancelled in an open nursery. Assumptions: `ConcurrencyAssumption` (the
  command line demands a positive number), `EbuildAssumption`.
* `WorktreesProofs`. `TypeCorrectness`, `ChangesHaveTheirOwnWorktree` (`ExclusiveWorktree`), `EarlierRunsAreKept`
  (an action property) and `FailuresAreReported` (`FailureReported`). `ExclusiveWorktree` alone is not
  inductive; the invariant ties the layers: a change that has started belongs to a unit whose git
  succeeded (`StartedByUnit`), and such a unit owns the worktree of its folder in this run (`Owned`), because git
  makes no folder that exists. `EarlierRunsKept` follows: files are put only into a worktree of this run.
  `FailureReported` needs that every failed coroutine has set `return_code`, every exception is
  held, and nothing is cancelled without a cause (`Caused`). Assumptions: `RepositoryAssumption` (in a
  repository, stem and version determine the ebuild), `ProposalsAssumption` (what `Scan`'s `Accounting`
  gives: one change per ebuild, to another version), `CopiesAssumption` (a copy that has a commit is not shorter than one),
  `GroupsAssumption`.
  On this invariant rest `SuccessIsReal` (`SuccessMeansApplied`) and `NothingElseIsTouched`
  (`OthersUntouched`), whose own invariant follows a change through its steps: until it renames, its old file is in the
  worktree as far as it has got with it; afterwards its new file is, unless another change of the unit has put the
  same name there (`AppliedInv`). For a dated ebuild that file is the one that results from writing the copy that was read over the main branch's
  file (`Landed`, `WrittenOverMain`); `LandedIsEdited` is the arithmetic that tells when this is the edited text, for every length of either.
* `ChiefProofs`. All safety properties of the run `chief`: `ProgramIsWellTyped`, `VerdictsAreHonest`, `EditsAreReported`,
  `BranchesComeAfterFetch`, `ProgramLeavesNothing`, `ScanIsScan` and `ApplyIsWorktrees`. The invariant (`CInv`) is that of
  both parts and the order of the phases; the step lemmas of the parts are used through
  `INSTANCE`, so nothing is proved twice. `ChiefAssumption` has no `ProposalsAssumption`: that a scan proposes only what
  `Worktrees` assumes is proved here (`UpgradesAre`, `FoundIsUpgrades`), from what `Scan` guarantees.
* `SubprocessProofs`. `OutputIsComplete`, `ChildEndsFirst`, from what eof means (`EofSeen`): a finished
  `read_loop` has left nothing in its pipe and nobody can write to it. Assumption: `SubprocessAssumption`.
* `HttpRequestProofs`. `AnswersAreComplete`, `CompleteAnswersAreKept`, `RequestsEndInTime`, for every deadline and number of
  parts (`HttpAssumption`): a parsed response was whole when it was parsed, and the clock never passes the deadline,
  which is set at most twice.
* `StringReplaceProofs`. `OnlyTheArgumentIsRead` and `BufferIsNotLeft`, for all strings shorter than `size_t` counts
  (`TextAssumption`). Backwards the distance of the two positions is the room for `k` more occurrences
  (`RoomFor`), and the `k` first ones counted from the front are still to be read; that the search from the back finds
  one as long as there is room, although overlapping occurrences make it find others than the count did, is
  `NextFromTheBack`. `OccurrencesAreReplaced` (`ReplacesOccurrences`) adds what is in the buffer: behind the last turn it has what the
  reference has, and from there on the argument, moved by as much as room was made (`RInv`). `EveryTurnShortens` gives the measure by which both loops return: each turn
  takes at least a character off what is left, which is the safety half of `ReplaceEnds`.
* `UpdatesProofs`. `UpdatesAreWellTyped`, `NamesAreReadLikePortage` (`VersionIsReadLikePortage`) and `PlainTagsGiveNumbers`
  (`PlainTagGivesItsNumber`), for every package, version, revision and history (`UpdatesAssumption`). What the expressions match is defined by recursion over positions; that such a function
  exists is proved for any recursion along a rank (`RecursionHasASolution`). The parts of a version are shown to end at the same place in
  a text and in a piece of it (`VersionCut`, `RevisionCut`) and never behind a hyphen that has a digit behind it (`VersionStops`, `RevisionStops`). Then by induction
  from the package's hyphen down (`NameIsReadWell`): a match that begins within the package has it refused, or ends before that hyphen and another match follows, or
  has its version there. Over the steps of a run the invariant (`UInv`) only has to keep that what was read was read in the present name and what was fetched is what
  a published release's tag gives.
  `MergesAreFetched` (`MergedIsFetched`) is about the replacement, which takes every place that has the text of the version. What is fetched is
  put together of parts that have no hyphen with a digit behind it (`FetchedIs`); replacing a text by one of the same kind makes no such
  hyphen (`ReplacedIsSmooth`), so the last one stays between what is made of the package and what is made of its version. If the package was changed,
  no manifest is made of the name (`PackageStays`); otherwise all that was fetched is read as its version (`FetchedIsRead`). `NewNumbersAreUpgrades` (`UpdatesAreUpgrades`) says how far comparing versions as texts is right: of numbers with as
  many parts, each with as many digits, the text that is less is the older number (`DecimalsInOrder`, `LessIsOlder`), so what is merged is
  no downgrade; the run `version_order` shows the need for the hypothesis.
* `PerCommitProofs`. `PinsFitNames` (`PinFitsName`) and `ChangesMoveForward` (`MovesForward`), for every history and every calendar
  (`PerCommitAssumption`: months to 12, days to 31). The invariant ties what a run has read and fetched to what is
  there: name and text have not changed since they were read (`ReadIsThere`), the commit fetched is of the day
  fetched (`FetchedFits`), or that day is at most the epoch, which is later than no name. `NumbersFollowDays` is the arithmetic: eight digits
  compare as year, month and day do.

Only model-checked: liveness (`ScanEnds`, `ApplyEnds`, `ProgramEnds`, `CallEnds`, `RequestEnds`, `ReplaceEnds`, `Converges`, `CatchesUp`, and the
fairness half of `ImplementsRequestLimit`), which is out of the prover's reach.

## Findings

1. A group of `groups-ci.json` none of whose packages has a change dereferences the end iterator of
   `equal_range` (`main.cpp:272-275`, called from 369-378). It also happens to every group when `git fetch`
   fails early, since then there are no changes at all.
2. Exit code 2 `AllHaveFailed` is returned when some ebuilds failed and all others have a change, and exit code
   3 `NoEbuildFound` when every ebuild was found and has a change.
3. `apply_change` takes a dated ebuild's text from `path_to_repo`'s working copy (`apply_change.cpp:44`) and writes it over the main
   branch's file without truncating it (`string_to_file.cpp:31`). If that file is longer, its end stays behind the new
   text, and the change counts as applied. (The guard of `string_to_file` is inverted, too: it says that it refuses to
   rewrite an existing file, and throws exactly when the file does not exist.)
4. Versions are compared as strings: 1.8 is logged as a new version of 1.10 and applied, 1.10 is never seen as newer than 1.9.

Seen while modelling, not the subject of a run:

* a failed `git fetch` does not stop the second half; it runs in the directory the program was started in, not in
  `--repo-path` (`git_fetch.cpp:38`); without git in `PATH` boost::process throws before the check that would
  return `FailedToFindGit` (`main.cpp:100`), so the exit code is `FailStandardException`;
* errors of the command line end with CLI11's own codes, so `FailDuringParsingCmdValues` is never returned; a missing
  `groups-ci.json` ends in an exception (exit code 8), not in `FailedReadingGroupCiFile`;
* a branch or worktree of an earlier run makes each later run fail for that unit and cancels its siblings; so does a second
  outdated version of an ungrouped package; one ebuild without an `environment` file aborts the whole scan;
* a tag with a suffix becomes a version with a hyphen (`tag_to_portage_versions.cpp:92`, and the unit test at
  `version_matching.cpp:34` expects it), which is no version for portage, so the change fails at its manifest;
* a name with several matches gives the last one: font-adobe-75dpi-1.0.4 is read as package pi; a tag with folders gives its first folder;
  a name whose package has eight digits is taken for a dated one; in such cases the package fails in every run or is never updated;
* a working copy that no longer has the commit the scan found is written and renamed without any edit, and the change succeeds;
  a rename onto the file of a sibling version replaces it, and both changes succeed (`Clashes` in `Worktrees`);
* bash gets `P` without a hyphen, and `PVR` twice (`bash_ebuild.cpp:82`);
* an `http` URL without a port never connects, name resolution has no deadline, and a complete answer is lost if the server stays silent up to the deadline;
* a dated ebuild whose URI is a tag gets an empty commit, and the end of its old text remains; a dated ebuild gets no new manifest;
  commits of one day after the first are missed until another day; the first `COMMIT` variable is taken, which may be another project's, and
  then that pin is replaced by a commit of the package.

## Not modelled

* Feed parsing: one call of the XML parser of Boost.PropertyTree, without state; its exception and an empty feed are outcomes in
  `Scan`, `Updates` and `PerCommit`.
* Of ebuild reading: the variables bash is started with (`bash_ebuild.cpp:40-106`) are text that only bash reads, and the choice of
  a service by RE2's set is a constant (`ServiceOf`).
* Context, services, configuration: built once before any coroutine and never changed; constants of the modules.
* Logging and formatting: output only. Utilities: early-return macros, inlined in the actions, formatters and templates without state.
* The command line's options: what CLI11 makes of them; `Chief`'s `StartFails` has its outcomes.
* PCRE2, RE2, Boost, corral, portage and git themselves; the build; pull requests, which the code does not make yet.
* A power failure or `kill -9` of gyou itself, and a checkout that git leaves half done when it is killed: such a worktree is
  modelled as not made.

Worth adding next: capital letters and longer names in `Updates`; a composition of `Updates` with the collisions of `Worktrees`, where a
second release arrives while the branch of the first is not merged yet (the branch's name has the package only, so
`Worktrees` shows such a run failing for that unit).
