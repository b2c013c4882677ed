# Shudo: a TLA+ verification of the request broker

Shudo lets an unprivileged process ask for one command to be run as root. The
daemon `shudod` stores the request, UID 0 approves or denies it, and the daemon
runs an approved request once. This directory models the daemon from its startup
checks to the exec of a command, its store, its policy, and the parts of the CLI
that wait, select and decide; it checks them with TLC and proves with TLAPS the
safety properties of its state machines and of the policy and list algorithms. Line
numbers refer to the repository;
`service.go` is `internal/daemon/service.go`, `state.go` is
`internal/state/state.go`, `integrity` is `internal/integrity/integrity_linux.go`, `cli` is `apps/cli/cmd/shudo/main.go` and `shudod` is
`apps/daemon/cmd/shudod/main.go`.

## The system

| Part | State | Operations | Talks to |
| --- | --- | --- | --- |
| Request store (`state.go`) | tables `requests`, `approvals`, `executions`, `output_chunks`, `security_events`, `server_state` | Open with recovery and migration, Create, Transition, AcceptApproval, BeginExecution, FinishExecution, ExpireOutstanding, AppendOutput, OutputAfter, PruneUnapproved | SQLite through one connection, so statements and transactions never overlap |
| Handlers (`service.go`) | what a call has read | Submit, Watch, List, Inspect, Approve, Deny, Cancel | store, policy, integrity, limits; one goroutine per call |
| Execution (`service.go:496-656`) | `executing` map, row, approval, descriptors, timer | execute | store; spawned by Approve, by a retried Approve and by RecoverApproved |
| Startup and shutdown (`shudod`) | none | path checks, Open, RecoverApproved, listen, stop | everything; the process can end between any two statements |
| Maintenance (`service.go:446-470`) | none | expire every second, prune every hour | store |
| Limits (`service.go:677-730`) | submission times, counters, `submitMu` | acquire and release | shared by all handlers |
| Policy (`internal/policy`) | the file | Load, Evaluate | Submit and execute |
| Integrity (`internal/integrity`) | none | resolve, inspect, open verified descriptors, exec by descriptor | the file system |
| CLI | next sequence number | submit, watch and reconnect; list, inspect, decide, reconcile | daemon over a Unix socket |
| Hashing, canonical JSON, IDs, credentials, configuration | none | pure functions, kernel services | |

What is hard: several goroutines work on one row, each with a read in one
statement and a write in a later one; a retried approval spawns a second
executor; errors are dropped on many paths; the process can end anywhere, and
recovery itself is three separate statements; the output goes through two
drains, a capped table, a polling reader and a client that reconnects; counts
are taken before slow file inspection and used after it; files and directories
are looked at one system call at a time while other processes change them.
`PROJECT.json` lists
these hazards at their lines, each with the properties that would catch them.

What makes each part correct:

- store: the tables agree with each other and decisions are never undone;
- daemon: a command runs at most once, as root confirmed it, after an approval
  that was not withdrawn, and callers are told what holds from then on;
- recovery: nothing interrupted runs again, nothing approved is forgotten;
- output: each stored chunk is printed once and in order, the cap holds, and
  cut output is reported;
- limits: they hold under concurrency, and places are given back;
- integrity: the inodes and bytes that run are the recorded ones, and an unchanged
  file system is never a reason to reject;
- startup: root never acts on a link or an object of a user's;
- policy: a glob means its pattern, a deny rule cannot be shadowed, a path rule sees
  the file an argument names;
- lists and retention: the newest requests are shown and kept;
- everything that waits ends.

## Modules

| Module | Models |
| --- | --- |
| `Statuses` | statuses, `transitions`, and the status sets that queries use |
| `RequestStore` | `state.go` without output chunks; alone, under any caller (`StoreSpec`) |
| `Authorization` | the abstract promise: pending, authorised, spent, refused; one launch |
| `Broker` | handlers, execute goroutines, startup, maintenance, on `RequestStore` |
| `OutputStream` | drains, AppendOutput, Watch and the CLI's watch loop with its exit code, one execution |
| `ReviewerCLI` | the reviewer's decision call, the context-bound transaction of decide, and the lookup after a lost answer, on `RequestStore` |
| `Admission` | rate, concurrency, pending and watcher limits |
| `Launch` | one request's files: ResolveExecutable, inspection, OpenVerified..., ExecPinned, one system call per step, with a changing file system |
| `Startup` | verifyDirectoryChain, verifyRootFile, prepareDatabase, prepareSocket and the operations by name after them, with a racing user |
| `Policy` | operators: glob, matches, policyPaths, Load, Evaluate |
| `Listing` | operators: the text order of `created_at`, recent, the selection of PruneUnapproved, selectRequest of the CLI |
| `Sums` | the sum of the values of a function, for the pending rows and the bytes stored |
| `Algorithms` | inputs for `Policy` and `Listing`, one per state, reference definitions, and the properties that compare the two |
| `Broker_proofs` | the theorems about `RequestStore` and `Broker` |
| `ReviewerCLI_proofs`, `Startup_proofs`, `Launch_proofs`, `Admission_proofs`, `OutputStream_proofs`, `Algorithms_proofs` | the theorems about these modules |
| `Sums_proofs` | lemmas on sums, least elements and induction over sets of numbers |
| `MCStore`, `MCBroker`, `MCOutput`, `MCReview`, `MCAdmission`, `MCLaunch`, `MCStartup`, `MCAlgorithms` | instances for TLC |

`Broker` extends `RequestStore` and conjoins one of its operators in each step:
a step makes at most one store call, since between two calls any other process
may run. Where the code checks what it has read and then calls the store, the
checks belong to the step of the read. `OutputStream` and `Admission` abstract
the life of a request (it executes until it has ended; a row is outstanding
until it settles) because their state is disjoint from the rest of `Broker`.
`ReviewerCLI` opens up one step of `Broker`, the transaction of decide, which there
commits or fails at once: here it waits for the connection, fails when the call was
given up, and holds the connection until it ends, so that a lookup sees its outcome.
It relies on gRPC cancelling a call before it serves a later call of the same
connection. `Launch` opens up two other steps, the inspection of SubmitEvaluate and
ExecuteRecheck, whose verdict is an input of `Broker`; `Startup` stands before
OpenStore; `Listing` says what PruneSelect may select.

Data is abstract. A request body has one of two versions and a hash is the
version it was computed from; damage to a column changes its version. The clock
is the set of requests whose expiry was reached. The verdict of policy and
integrity checks is an input per request that may change at any time. An
approval ID names the call that minted it. A byte of output is its stream and
offset. Deleted IDs are not reused, as they are random UUIDs.

In `Launch` a name is bound to an inode or is a link to another name, a hash is the
content it was computed from, and a `stamp` stands for size, owner, mode, mtime and
ctime. Every change of an inode gives it a stamp it never had. That is the one
assumption about the kernel: where two changes within one tick of a coarse file
timestamp leave the same ctime, a torn inspection (`TornInspectionNeverRuns`) is
caught only if the content differs. Rebinding a name leaves stamps alone, which is
more than a user can do. `written` is a ghost: it holds the files written to since
verification read them.

In `Startup` a path is the sequence of what its components are bound to. The user
may put anything, also an object of root's, wherever the user controls the parent
directory (it is the user's, or writable without the sticky bit, or reached through a
link), and arrange whatever is below it. In a sticky directory the user can take only
free names and the user's own entries, and what comes there is limited by rename(2)
(`Movable`): anything of the user's, and files, links and sockets of root's moved from
elsewhere, but a directory only if the user may write to it, because moving it changes
its `..`. Of root's directories that leaves the open ones, which no check accepts, and
the sticky ones. The constant `StrayDirectories` says whether users can move such a
one, which takes a root-owned sticky directory that lies in a directory of a user's.
Root, or a program of root's, must have made it there; nothing in the repository does.
`startup` and two properties of `Startup_proofs` assume that there is none, and
Findings says what happens otherwise. A database and its two sidecar files are one file.

An operation whose error the code drops is modelled as a step that either
commits or leaves the tables alone. A failed store call, a crash, a damaged
column and a change of policy are each limited by a constant (`MaxFaults`,
`MaxCrashes`, `MaxDamages`, `MaxChanges`); the theorems hold for every value.

## Runs

| Run | Bounds | Shows |
| --- | --- | --- |
| `store` | a new and a remote-era request, two approval IDs | the tables agree, status changes are legal, decisions are final, under any order of operations and interrupted opens |
| `broker` | one request, two calls, one crash, one failed call, one policy change | at most one process, recorded; replies stay true; the `executing` map is a lock; pruning deletes what it selected; no approved work is abandoned; events are true; the daemon implements `Authorization` |
| `broker_live` | one row, new or remote-era in any status, one call, two damaged columns, one crash, fairness | what ran is what root confirmed, no remote-era request runs, every waiting, approved or executing request ends |
| `broker_orphan` | one request, one call, one crash, fairness | violated, finding 1 |
| `output` | two streams of two bytes, cap two, one failure, one restart, fairness | printed once and in order, prefix stored, cap holds, loss reported, the CLI returns the command's exit code, a waiting CLI learns of the end |
| `output_tail`, `output_pipe` | one byte per stream | violated, findings 2 and 3 |
| `review` | one request, two reviewers, one failed call, one restart | who is told "not committed" can rely on it although the handler may still run; who is told of a decision is told the stored one |
| `admission` | three handlers, three peers, two requests, limits of one and two, a minute of two ticks, one restart | limits hold, per UID, per request and in total, counters agree with what they count, `submitMu` is held exactly from the second count to the deferred unlock |
| `launch` | five names with two links, two files, two directories, three contents, two changes, one restart | the recorded inodes run; their recorded bytes run unless written to after verification; a torn inspection never runs; nothing is rejected without a change |
| `startup` | a path of four components below `/`, every ownership and mode, any number of replacements and restarts, `StrayDirectories` false | an accepted path stays out of reach of users; root acts on objects of its own; a trusted path always starts |
| `algorithms` | patterns of up to four and values of up to three characters, three rules, arguments of four components over seven files with three links, one of which dangles, three rows over two seconds | `Policy` and `Listing` agree with their reference definitions |

The types of the store and of `Broker` are a part of `BrokerInv`. `OutputStream`,
`ReviewerCLI`, `Launch` and `Startup` state a `TypeOK` as the first part of the
inductive invariant of their proofs; no run lists it.

Why the bounds are enough to be interesting. Two calls are what it takes to race
a decision against another, a retry or a cancel, and to have three goroutines
for one request (two spawned by calls, one by recovery). Requests interact only
in statements that treat each row by itself and through unique approval IDs,
which `store` exercises with two rows. One crash can fall
between any two steps, the steps of recovery included, and the run goes on
after it. A third damaged column would be a consistent forgery of body, hash
and approval, which the code does not claim to detect, so two is the limit of
`RanAsConfirmed`. The output cap of two over four bytes makes a chunk of two be
cut in the middle after one of one byte; `LiveBytes` two makes Watch send in batches. In `admission` a UID may
have one submission in progress, one outstanding request and one watcher, a request one
watcher, and all together two submissions and two outstanding requests: with three
peers, three handlers and two requests each of these limits is in some state the only
one that refuses. Two submissions of one UID do not pass the first count together there,
those of two UIDs do and race for the total; the theorems hold for every limit. The clock
runs long enough for a submission to become exactly a minute old.
Two changes of the file system are a swap and its undoing, or one change while
Submit inspects and one while the request waits; the word `launch` looks up is found
through a link, its file can be a script whose interpreter the same changes reach,
and the directory is submitted through a link. Four components give `startup` a
parent to verify, an ancestor above it and the root.
`MCStore` constrains events and damage, which the store writes and never reads.
`CHECK_DEADLOCK FALSE` is used for `OutputStream`, `ReviewerCLI` and `Launch` only,
since an execution, its client, a reviewer's command and a launch end.

Fairness. `Broker` assumes weak fairness of started handlers and goroutines (the
Go scheduler), of the expiry ticker, of the clock, of startup (systemd restarts
the daemon) and of the timer with the exit that its SIGKILL causes. It assumes
nothing of clients and reviewers, nor that a command ends by itself. `broker_live`
runs without failing store calls: after a failed `FinishExecution` the code
leaves a request EXECUTING until the next start (`service.go:654`).
`OutputStream` assumes it of the drains, of Wait and Finish, of Watch, and of the
CLI's dialling and receiving. The other modules state safety only.

## Findings

1. `broker_orphan`. Submit inserts a row as CREATED (`service.go:184`) and moves it
   on in a second statement. A crash or an error in between leaves it CREATED:
   `ExpireOutstanding` does not list that status, and the pending limits count it.
2. `output_tail`. Watch reads the output (`service.go:228`) before the status
   (`241`). What is stored in between is not sent when the status is terminal.
3. `output_pipe`. `cmd.Wait` (`service.go:631`) closes the pipes while the drains
   still read; unread output is lost and not marked truncated.

Two more disagreements with the words of the repository were met while modelling. No
run is kept for them: the properties say what does hold.

- `created_at` is compared as text, and RFC3339Nano drops trailing zeros, so the
  order holds to the second only: of two requests of one second a list that is cut
  (`service.go:283`) or retention by count (`state.go:505`) may prefer the older one.
  `docs/cli.md:60` promises the "50 newest"; `ListsShowTheNewest` and
  `PruningKeepsTheNewest` hold to the second.
- The comment of verifyDirectoryChain (`shudod:207-208`) says that no unprivileged
  process can replace a validated child path between the checks and the use. With
  `StrayDirectories` TRUE TLC violates `AcceptedIsPinned` and `ActsOnRootsOwn`. Take a
  path below /tmp whose second component is a user's directory, and whose third is a
  root-owned tight one. lstat and the first step of the walk, which goes from
  the deepest directory up (`shudod:213`), pass the third component. The user
  then renames the second away and moves in a root-owned sticky directory that holds a
  directory of the user's under the name of the third. The walk accepts the second, /tmp
  and `/`, and the third, a directory of the user's, is chowned and chmodded by name
  (`shudod:150-153`) on the word of the earlier lstat. `TrustedPathStarts` holds all
  the same.

Observations that contradict no document:

- A configuration or a policy directly in a sticky directory can be another file of
  root's: `verifyRootFile` (`shudod:231`) allows a sticky parent, and while the
  name is free a user may move there a file of root's that lies in a directory of the
  user's. The property speaks of root's objects, not of which one.
- glob quotes a pattern byte by byte (`policy.go:140`): a literal outside ASCII
  matches nothing. `**` does not match a line break.
- policyPaths removes `..` before it resolves links (`policy.go:165`): an argument
  with `..` behind a link is seen as another file.
- A descriptor pins a file, not its bytes: a write in place between verification and
  exec is not noticed (`RecordedBytesRun` excludes it).
- The CLI says "request timed out" both for an EXPIRED request and for its own
  deadline (`cli:211`, `cli:661`), which is computed before Submit and so passes
  earlier than the daemon's; and a Submit that runs into its own deadline
  (`cli:100-113`) may have stored the request.

## Proofs

Every theorem holds for every set of requests, calls, reviewers, handlers, files or
streams and every value of the bounds, under the named assumption of its module.
These say that identifiers of different kinds differ, that bounds are naturals, that
limits are those `LoadDaemon` accepts (`ValidLimits`, `ValidOutput`), that the sets
Admission counts are finite (a daemon has finitely many handlers and peers), and that
a path has at least two components (`StartupAssumption`). `AlgorithmsAssumption` is
explained below. Four theorems assume more and say so: `RunsAsConfirmed`, and
`StartupCorrect`, `AcceptedPathsPinned` and `RootActsOnItsOwn`, which assume
`~StrayDirectories`.

An invariant of a run is seldom inductive. Each proof module defines the
strengthening that is, and proves that Init implies it, that each action preserves
it, and that it implies the properties. Each was checked by TLC on the instances of
the runs before it was proved.

| Module | Inductive invariant | Theorems |
| --- | --- | --- |
| `Broker_proofs` | `StoreInv` | `StoreCorrect`, `DecisionsCorrect`, `ResultsCorrect`; action properties `StatusStepsLegal`, `DecisionsFinal` |
| | `BrokerInv` | `BrokerCorrect`, `ExecutesAtMostOnce`, `RunsAreRecorded`, `ExecutorsExclude`, `PruneSelectionHolds`, `TypesCorrect` |
| | `ReportInv` | `ReportsCorrect`, `RepliesKept`, `AuditTrue` |
| | `WorkInv` | `WorkNotAbandoned` |
| | `ConfirmedInv` | `RunsAsConfirmed` |
| | `LocalInv` | `LocalApprovals` |
| | `BrokerInv`, `LocalInv` | refinements `DaemonObeysStore` (of `StoreSpec`) and `ImplementsPromise` (of `Authorization`) |
| `ReviewerCLI_proofs` | `ReviewInv` | `ReviewCorrect`, `NotCommittedForEver`, `ConfirmedForEver`, `ReviewObeysStore` |
| `Startup_proofs` | `TrustInv` | `TrustedPathsStart` |
| | `StartupInv`, unless `StrayDirectories` | `StartupCorrect`, `AcceptedPathsPinned`, `RootActsOnItsOwn` |
| `Launch_proofs` | `LaunchInv`, `Unchanged` | `LaunchCorrect`, `PinnedObjects`, `RecordedBytes`, `TornInspections`, `UnchangedAccepted` |
| `Admission_proofs` | `AdmissionInv` | `AdmissionCorrect`, `CountersTyped`, `MuOnPurpose`, `CountersCount`, `OutstandingBounded`, `SubmissionsBounded` |
| `OutputStream_proofs` | `OutputInv` | `OutputCorrect`, `RowsPrintedOnce`, `StoresAPrefix`, `StaysWithinTheCap`, `LossReported`, `ExitCodeKept` |
| `Algorithms_proofs` | `IsCase`, `Agrees` | `GlobsMeanPatterns`, `DenyNeverShadowed`, `PathRulesSee`, `NewestKept`, `NewestShown` |

### Store

`StoreInv` adds `RecoveryUndisturbed` to the properties: the second statement of
recovery may finish every open execution only because the first has left no request
EXECUTING and nothing runs until Open returns.

### Daemon

`AtMostOnce` rests on `Ownership`: a goroutine past BeginExecution owns an EXECUTING
request, and one about to start has started nothing. That needs `OneExecutor`
(otherwise two goroutines could own one request), `RanIsRecorded` with the store's
invariant (a request that ran is never APPROVED again, so BeginExecution fails),
`OnlyWhileServing` (a crash leaves no goroutine behind, so recovery may fail
EXECUTING rows) and `SelectionHolds` (pruning never deletes a row someone owns).
`BrokerInv` is their conjunction. The proof has one lemma per conjunct: most steps
are `Routine` steps of the store that leave started rows alone, which the lemma
`RoutineSteady` states once. For the later invariants the frame lemmas (`CallFrame`,
`WorkFrame`, `StoredFrame`, `ApprovalFrame`, ...) say which of the actions can change
a variable at all, so that a proof meets only these.

- `RepliesHold` needs `Told`: between the commit of a decision and its answer the
  stored decision is already the call's own, and the ID that a retry reads is the
  stored one. That no later step takes it back is `DecisionsFinal` of the store.
- `AuditIsTrue` needs `Intact` and `Suspicions`: as long as nothing was damaged
  every hash that a process holds from an earlier read is the submitted one, so a
  process about to report an integrity failure has met a damaged column or, for an
  approval, a failed read.
- `NoAbandonedWork` needs `Busy`: a request in the `executing` map has a goroutine
  behind it, so that one which gives way in LoadOrStore leaves the work to somebody.
  `Settled` says that a goroutine about to leave has left its request neither
  approved nor executing, `QuietStart` that no request is EXECUTING when the daemon
  begins to serve.
- `RanAsConfirmed` needs the way from a process back to the confirmed body: `Signed`
  (an approval ID leads to the root call that minted it), `Confirming` (that call
  echoed the hash it had read) and `Checked` (past its checks a goroutine holds
  the body that was echoed). `Counted` charges every damaged column of a row to
  `MaxDamages`: a forgery of body, hash and approval that agree costs three, so
  `RunsAsConfirmed` assumes `MaxDamages <= 2`. `LocalOnly` says that the
  migration rejects remote-era approvals before anything can act on one, hence that
  whoever executes has an approval of this daemon.
- `ImplementsPromise` holds with whatever rows the remote-era daemon left. An approval
  without an ID of this daemon is no authorisation, so such a row begins refused or,
  while undecided, pending (`AuthInit`). Each status step is one of the legal ones
  (`LegalSteps`) and so keeps the phase of a request or moves it from pending to
  authorised, to spent, or to refused; the process starts in a step of its own, for a
  request that never ran (`Ownership`) and, by `LocalInv`, whose approval has an ID.
  `LocalInv` is the part of `ConfirmedInv` that holds however many columns are damaged.

### Decision call

A call that was given up can no longer begin its transaction, and a lookup that
reads the row waits until no transaction is open. `ReviewInv` says what the
handler and the process of a call know (`HandlerKnows`, `ProcessKnows`): once a lookup
has seen WAITING_APPROVAL, or the handler has refused, the call is `Over` and its
ID is stored nowhere. `ReviewObeysStore` ties the module to the rest: although the
transaction takes several steps here, the tables see the one step AcceptApproval.

### Startup

The walk looks at components one by one while users replace what they can. What
it saw of a component may be out of date at once, so "what was passed is safe" is
false. `WalkSound` is the conditional form: if what is still ahead is safe, so is what
was passed. Users cannot make an unsafe component safe: only where an unsafe one above
it lets them may they put a safe directory of root's, and what they can move into a
sticky directory is not safe, as long as no sticky directory of root's can be moved
(`~StrayDirectories`). So the first unsafe component stays unsafe and the walk will
meet it. `TrustedPathsStart` does without that assumption: its invariant `TrustInv` is
the part of `StartupInv` that speaks of paths dedicated to root, in which there is
nothing a user can replace. The theorems hold for paths of any length.

### Files

Stamps are never used twice (`StampsSound`). `Sound` says of recorded metadata that
as long as the inode still has the recorded stamp, its content is what was
hashed; so a match at verification reaches back to the fstat of the inspection and
all that was read in between belongs together. `Later` orders the two inspections when
executable and interpreter are one inode. `UnchangedAccepted` has an invariant of its
own, which holds until the first change. Link resolution needs no recursion:
`FollowsLinks` describes the chain of links itself.

### Limits

`PendingBounded` needs `PlaceKept`: the place that the second count found is still
there when the row is inserted, because rows are added under `submitMu` only.
`RateBounded` needs `Remembered`: pruning submission times never forgets one of the
last minute. `Counted` ties counters to the handlers they count. The total over UIDs is
a sum over a function, so `Sums_proofs` first shows that the fold behind it does not
depend on an order of its elements.

### Output

- Table: `Accounted` (what was read of a stream is stored or held, unless it was cut
  or failed), `PrefixSound` (a row that does not begin at 0 has a predecessor, and
  what a drain holds follows the last row) and `CapSound` (the counter lags behind
  the rows by the row of the one drain between insert and update).
- Wire: `PrintedOnce` needs `NoGap`, which says that before a row under way come all
  the rows the CLI has not had, and that the handler has sent all rows up to its place.
  `WireSound` says that an output event is a row and that finished and error events
  end a stream.
- Exit code: `OutcomeSound` follows it from the command to the table, `WireSound` and
  `CodeSound` from there to the CLI, together with the truncation mark, on which
  `LossReported` rests with `Accounted`.

### Policy and lists

`AlgorithmsAssumption` says what the operators need of their inputs: patterns are
ASCII and values have no line break (the two limits of glob under Findings), links lead
to paths, IDs are finitely many, and a working directory exists and contains neither
dots nor links, which holds of the path that InspectDirectory has resolved for Submit
(`service.go:145`, in `Launch`). The property is about one state of the file system:
when execute evaluates the policy again (`531`) the names may lead elsewhere, and it is
OpenVerifiedDirectory (`536`) that checks for the recorded inode.
Nothing bounds the lengths of patterns, values, policies, arguments and lists.

- Globs: `Matched(v, t, j)` says that the tokens `t` match the value from position `j`
  on. A first token takes a piece and leaves the rest to the others (`MatchedFirst`),
  and `FitsPieces` says which pieces. By induction from the end of the pattern to its
  beginning the reference and the translation name the same positions
  (`PlacesMatched`); two stars reach two characters ahead, so the induction has two
  predecessors (`DownFrom`).
- Rules: Evaluate asks only whether some rule of an action matches (`EvaluateBySome`), for
  deny first.
- Paths: an entry is there (`Present`) unless it is a link that dangles; where a part of
  the path is not, policyPaths keeps the cleaned path, and no file is reached.
  `Agrees` is the invariant of the walk. As long as the kernel is not lost, the
  cleaned path exists and leads where the kernel is; before the first link it is the
  very path and has no link in it, which is why Clean may cut its last component at
  a `..` although it has not looked at any link (`AgreesStep`).
- Rows: the text order of `created_at` respects seconds (`TextsBySecond`), so what FirstOf
  leaves out is of no later second (`FirstRows`); the counts are cardinalities.

### Induction

The library's induction theorems take an operator, which the provers cannot
instantiate. `Sums_proofs` derives from the well-foundedness of `<` that a nonempty
set of naturals has a least element, and from it induction over a set of numbers
(`SetInduction`) and over the subsets of a finite set (`SubsetInduction`), both
stated with sets. The induction serves the sums; the least and the greatest
element serve the first candidate of the search path (`Launch`) and the length of a
batch (`OutputStream`).

A recursive function is a CHOOSE, of which nothing is known until such a function is
shown to exist. `Algorithms_proofs` proves that once, for functions whose value follows
from the value before (`Recursion`) or from the two after (`BackRecursion`), with the
step as a function; from it come the equations of Clean, EvalSymlinks, Walk, tokens and
Places (`CleanSteps`, `FollowSteps`, `WalkSteps`, `TokensSteps`, `PlacesSteps`).

### Checked by TLC only

Liveness under fairness: `RequestsSettle` and `CLIReturns`.

## Not modelled

- The environment of a command, its arguments and the risk labels: data that is
  copied.
- The CLI's option parsing, prompts, JSON and display, and its Submit call.
- A second daemon on the same database.
- Parsing and defaults of the configuration (its limits are the assumptions
  `ValidLimits` and `ValidOutput`), canonical JSON, peer credentials, generated
  code, terminal escaping, deployment files.
- The size limit of an executable and the range checks of metadata, which refuse a
  request like any other failing call.
- The millisecond precision of `julianday` against the nanoseconds of Go's clock.

## Plan

Done, in this order: `Statuses`, `RequestStore`, `Broker` with `Authorization`,
`OutputStream`, `Admission`, `ReviewerCLI`; proofs of the store and of at-most-once
execution; `Launch`, `Startup`, `Policy`, `Listing`; proofs of `ReviewerCLI`,
`Startup`, `Launch`, `Admission`, `OutputStream`, of the remaining invariants of
`Broker`, and of its refinement of `Authorization`; proofs of `Policy` and `Listing`
against their reference definitions.

Left: liveness, which is beyond the prover; the configuration's parsing and defaults,
and the Submit call of the CLI.
