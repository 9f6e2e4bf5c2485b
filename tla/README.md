# A TLA+ model of ai-coworker

ai-coworker is a Go service that receives messages from GitHub, Slack and Google
Docs, turns each of them into a task in PostgreSQL, has a pool of workers execute
the tasks (an LLM call, or a coding agent in a sandbox) and posts the answers
where the messages came from. This directory holds TLA+ modules that model its
parts, TLC configurations that check them on small instances, and proofs that
TLAPS checks. `PROJECT.json` lists the parts, the runs, the source lines every
definition stands for, the hazards and the findings.

To run a check: `tlc -config CoworkerRestart.cfg MCCoworker`. To check the proofs:
`tlapm` on `CoworkerProofs`, `LifecycleProofs`, `ReviewBatchProofs`, `GoogleDocsProofs`,
`AdaptersProofs`, `InstallationsProofs`, `KubernetesProofs` and `SandboxesProofs`.

## 1. Inventory

| Part | State it keeps | Operations | Talks to |
|---|---|---|---|
| Router (`internal/engine/router.go`) | none of its own, a handler's progress | `HandleEvent` | called by the adapters from many goroutines; store; adapter `Acknowledge` |
| Store (`internal/store/postgres.go`, migrations) | `threads`, `messages`, `tasks`, `adapter_state` | create and look up rows, `ClaimNextTask`, `ClaimPendingTasks`, `UpdateTask`, get and set adapter state | router, workers, Google Docs adapter |
| Worker pool (`internal/engine/worker.go`) | what each worker is at; an open transaction while it claims | `runWorker`, `processTask`, `absorbReviewTasks`, `routeResponse`, `routeBatchedResponses`, `failTask` | store, classifier, executors, adapters |
| Intent classifier (`internal/engine/intent.go`) | none | `Classify` | LLM provider |
| Process (`cmd/ai-coworker/main.go`) | the context that a signal cancels | start, shut down | everything |
| Google Docs adapter (`internal/adapter/googledocs`) | push channel, page token, a mutex per document, last-seen time per document (stored) | watch and renewal loop, notification handler, change processing, `SendResponse`, `Acknowledge` | Drive, store, router |
| GitHub adapter (`internal/adapter/github`) | a cache of clients | webhook handlers, collection of a review's comments, denials, `SendResponse`, `Acknowledge` | GitHub, VCS provider, router |
| Slack adapter (`internal/adapter/slack`) | the connection | event loop, `SendResponse`, `Acknowledge` | Slack, router |
| VCS provider and registry (`internal/vcs`) | installation cache, single-flight discovery | `TrackInstallation`, `GetInstallationID`, `CreateTokenForRepo`, `ExtractReposFromText` | GitHub; used by the GitHub adapter and the coding executor |
| Executors (`internal/executor`) | none | `Execute` | VCS provider, sandbox runtime, LLM provider |
| Docker sandbox (`internal/sandbox/docker`) | prompt file, skill directories, containers | `Exec` | Docker daemon |
| Kubernetes sandbox (`internal/sandbox/kubernetes`) | secret, job | `Exec` | API server |
| LLM providers, configuration | none over time | | |

What is hard in this system, and what makes each part correct:

* **Claiming.** Several workers, in several processes too, claim from one table.
  `ClaimNextTask` combines a snapshot (`NOT EXISTS` an in-progress task of the
  thread), a transaction-level advisory lock and `FOR UPDATE SKIP LOCKED`;
  `ClaimPendingTasks` takes the rest of a thread's queue without these. No task
  may be worked on by two workers, executed twice or replied to twice.
* **Absorption.** A worker on a review merges the thread's other review tasks into
  its execution and gives the others back. Whatever it claimed must be settled or
  returned, and each answer must go to the comment it belongs to, though all of a
  batch are sent through one shared `Properties` map and are cut out of one text
  that the executor writes as it likes.
* **Failure.** Every store call may fail, with or without having been applied; the
  process may be told to stop or be killed between any two steps. Nothing is
  retried, so the promise is *at most once*, not *exactly once*.
* **Push notifications.** Google Docs notifications are processed concurrently,
  share a page token, and race with the renewal of the watch, the users and the
  bot's own replies; comments are listed page by page while people write. A request
  must be handed to the router, and only once.
* **Webhooks and envelopes.** GitHub announces an inline comment twice, sends webhooks
  for edits and for what the bot itself posts; Slack repeats what was not confirmed.
  A comment must get one task, the bot must not answer itself.
* **Installations.** Callers, a shared discovery and webhooks write one cache of ids
  while the app is installed and removed. No caller may use another repository's id,
  a new installation must replace the old one, and a failed leader must not leave
  those who wait for it behind.
* **Sandboxes.** A request may take effect although its reply is lost, the
  deadline may pass anywhere, and the platform may give a workload up that ended well.
  An exit code must be the workload's own, and nothing may be left running.

The hazards behind these points are listed at their lines in `PROJECT.json`.

## 2. Modules

```
Store ── Router ──────┐
   └──── WorkerPool ──┴─ Coworker ── CoworkerInvariant ── CoworkerProofs ── LifecycleProofs
                           │                    └─ MCCoworker
                           └ refines TaskLifecycle
ReviewBatch ── MCReviewBatch, ReviewBatchProofs        (the end of a worker's task)

GitHubAdapter ─┐
SlackAdapter ──┴─ Adapters ── MCAdapters, AdaptersProofs
GoogleDocs ── MCGoogleDocs, GoogleDocsProofs

Installations ── ClaudeCode ── MCClaudeCode, InstallationsProofs

SandboxConfig ─┬─ DockerSandbox ─────┐
               └─ KubernetesSandbox ─┴─ Sandboxes ── KubernetesProofs ── SandboxesProofs
                                          └ refines SandboxRuntime
```

**Store.** The tables, one variable or function each: `threads` (a row is the
reference of the event that created it), `messages` (a set of role and event),
and for tasks `status`, `owner` (worker_id), `created`. An event, its user
message and its task are in one-to-one correspondence and share a name. A call
may return an error (`Errs`): because the context is cancelled, or one of at most
`MaxFaults` faults, in which case the statement may or may not have been applied.

**Router.** One handler per delivery (`hpc`, `hidx`): reject an empty or mixed
batch, acknowledge every event, look the thread up, create it if needed, then
insert message and task for each event, returning at the first error. `acked` is
the set of acknowledged events.

**WorkerPool.** The steps of one worker: `ClaimBegin` opens the transaction,
`ClaimScan` fixes the rows the statement's snapshot selects (`snap`) and the
row it takes, with the advisory locks (`locks`) and row locks at that moment,
`ClaimCommit` makes it visible. That split matters: the snapshot may be older
than the lock. Then `Load`, `Classify`, the debounce and `Absorb`, `Release` of
each sibling that is no review, `Execute`, `Complete`, `StoreMessage`, `Send`, and
for each absorbed task `CompleteAbsorbed`; or `FailExecuted`, `Apologise`,
`FailAbsorbed`. `executed` and `posted` record what was executed and what was
posted where. Texts are not modelled: an execution sees the set of messages
loaded (`hist`), an answer is a mark at a place.

**Coworker.** Router and pool over one store in one process: `Shutdown` (signal),
`Restart` (after `pool.Wait`), `Crash`. `NewProcess` resets everything but the
store; `main` does not touch the tasks table.

**TaskLifecycle.** What these promise together: an at-most-once queue, in which a
worker may lose what it holds and a lost task is never taken again.

**ReviewBatch.** What WorkerPool leaves out of a batch: `buildMergedReviewInput` gives
each comment a number, the executor (external) writes any sequence of headers, lines
of text and blank lines, `parseCommentResponses` goes from header to header, and each
comment is sent the section of its number or the whole answer. A piece of the answer
is the interval of its lines, so the model tells apart where a text comes from and
nothing else. A header whose number `strconv.Atoi` refuses ends a section and starts
none.

**GitHubAdapter.** GitHub is external: users and the bot post items (issue comments,
reviews with inline comments), edit them, and each of these sends webhooks, one per
inline comment as well as one for its review. `wpc` is where the handler of a webhook
is: `HandleWebhook` drops what is not wanted, `ListReviewComments` fetches the
comments of a review page by page, `Filter` decides what is relevant and who is
allowed, then `DenyUnauthorized` or `HandleEvent`. Every post of the bot, an answer
(`SendResponse`) or a denial, is an item that comes back as webhooks. GitHub does not
repeat a delivery that failed; an operator may (`Redeliver`).

**SlackAdapter.** One loop: `Receive`, `Ack` (confirm first, at best effort, then
filter), `FetchThreadContext` for a mention in a thread, `Hand`. Slack is external and
sends an envelope again while it is not confirmed and, to a new process that connects,
all that are not confirmed, in any order.

**Adapters.** Both in one process, with `enabled` as the configuration has it. The
router's part of each handover is Router's; here an event either gets its task or the
call fails.

**GoogleDocs.** Drive is external: a change log of which a page token is a
position, and per comment thread its time, who spoke last (`last`) and whether it
is resolved. `wpc` is the loop that registers and renews the watch, `gpc` the
goroutine of each notification: read the shared token, list changes page by page,
store the token, then per document lock, read the last-seen time, list the comments,
filter, store the time, hand the batch to the router. `ListComments` is one request of
the listing: `NextPage` is any part of what is left to name (`Rest`), `LastPage` all of
it, or what comes on the last of `MaxPages` pages. The order of a listing is Drive's.
A thread that is written in while a listing is on its way may get behind the page the
listing is at (`behind`) or come on a later one; `passed` is history, the threads that a
listing may have gone past: written in when behind it, or on none of the pages
fetched. A thread that has been on a page is taken not to come on another one of the
same listing. The events this adapter makes carry no type in their metadata; for the router and the pool they are
mentions whose thread reference already names the comment.

**Installations.** The map of installation ids (`cache`), the discovery that callers
of one repository share (`group`) and the map of API clients (`clients`), each step of
a caller being one operation on one of them: `GetInstallationID`, `Do`,
`FindRepositoryInstallation` or `FindFails`, `DiscoverInstallation`, then `CreateToken`
or `GetInstallationClient` and `LoadOrStoreClient`. External: which installation a
repository has (`installed`), what every id was issued to (`issuedTo`), the webhooks
on their way (`hooks`). `told` is history: the current id was told by a webhook and
nothing older was on its way.

**ClaudeCode.** An execution up to its sandbox: `ResolveVCSContext` collects the
repositories of the task, its messages and its metadata (a Go map, in any order), then
a token is asked for the task's repository (`AskPrimary`, `UsePrimary`) and for the first
match of every other provider (`AskMatch`, `UseMatch`), each through `Installations`,
which the adapters' goroutines (`Poster`) share; `Exec` starts the sandbox.

**DockerSandbox, KubernetesSandbox.** One `pc` per concurrent `Exec`, one action
per request or file operation, and the cleanups in the order Go runs them. A
request is accepted, refused (fault or deadline) or carried out with its reply
lost; `stuck` are the files whose removal failed, which the code does not look at.
A workload ends "succeeded" (exit code 0), "failed" (another code, or none) or "broken":
with exit code 0, and reported as failed all the same, as a pod that is evicted or a
container whose status comes with an error of the daemon. **Sandboxes** is the one a process has: `runtime` is what the configuration
names, and the variables that both keep for a call are shared. **SandboxRuntime** is
what the executor relies on: no exit code 0 for a workload that exited with another, no
success without its output, no workload left behind. What comes back of a broken workload
it leaves open, as the code does. Sandboxes implements it whichever runtime there is.

## 3. Runs

Passing runs:

| Run | Instance | Shows |
|---|---|---|
| `review_faults` | a batch of review + inline comment, an issue comment of the same pull request, a batch of mixed threads, 2 workers, 1 fault | `TaskExclusive`, `ExecutedOnce`, `RepliedOnce`; `AckedBeforeClaimable` and `TaskHasThreadAndMessage` (a task is claimable only after its whole batch is acknowledged, and with its thread row and its message); `AnswersReachTheirComment`; `NoOrphan` (no task is left in progress by nobody while nothing fails); types |
| `restart` | an inline comment and an issue comment, either of which creates the thread, and an empty batch, 2 workers, 1 fault, 1 shutdown, 1 crash | the inductive invariant `Inv`; the refinement of `TaskLifecycle` |
| `progress` | a review batch and a Slack thread with colliding lock keys, 2 fair workers | every queued task ends |
| `review_batch` | 1 or 2 comments in either order, every answer of up to 5 lines with 3 numbers and an unreadable one, 1 failed update, fairness | each comment is answered with its own section or the whole answer; sections share no line; every comment is answered |
| `adapters` | GitHub: a review of two pages, comments of an allowed and of a foreign user, the bot's reply and notice, 1 failure, 1 redelivery, 1 edit. Slack: a thread of 3 messages, 2 of them mentions, 1 repeated envelope, 1 failure, 1 restart. Fairness | one task per delivery; the bot does not react to itself; what concerns the bot gets its task; a restart repeats no task; thread context complete |
| `gdocs_safety` | 1 comment thread that is an action item, 2 goroutines, 2 writes, 1 fault, 1 renewal, 1 restart | no request gets two tasks |
| `gdocs_progress` | 2 comment threads of one document, 2 goroutines, listings of at most 2 pages, 2 writes, fairness | requests of a watched document are handed over, and the last-seen time passes none that were not, unless a listing of several pages went past them |
| `installations` | 1 execution, 2 adapter goroutines, 2 repositories of one provider, 2 installations, 1 webhook, fairness | one discovery per repository; ids are the repository's; a told id stays; one client per installation; the token fits what is cloned; the sandbox is reached |
| `sandboxes` | either runtime, 1 call, 3 skill images, valid or invalid limits, 4 failures, fairness | refinement of `SandboxRuntime`; prompt secret, prompt file and skill directories outlive what mounts them and, unless they cannot be removed, not the call; `Exec` returns |

Why the bounds are enough: what goes wrong between workers, handlers or goroutines
needs two of them, and a third adds no new kind of conflict (most of the
safety properties are proved for any number). One thread is where claims compete;
other threads are needed only where lock keys collide and in the mixed batch. One
fault placed at any call, applied or not, covers each error path alone; the proofs
cover any number. Calls of `Exec` share no state, so one is enough, and the proofs
are for any number; four failures are one more than the attempts of a pull, and a request
after the deadline fails without using up the bound. Two pages are the first
and a last one that is full; two installations are an old and a new one. The bot posts
as often as the instance has items of its own, so an answer or a denial may
be without its webhooks; the ones that come back are each of a different kind. The two
adapters are checked one at a time, since they share nothing but the process. An
answer of five lines has room for two headers with text, blank lines around it, and a
third header or line of text before, between or after. One comment thread is enough for
the concurrency in Google Docs because locks, tokens and times are per document. With two threads and two pages one
is on the first page and the other on the last, or left by it; users only mention the bot
and resolve threads there (`Says`), which is what makes a thread relevant or not. Symmetry
is used on workers and goroutines, only in runs without liveness. Bounds are constants, and their guards
are the only place where they occur.

Runs that find the code to differ from a comment or a document (section 5):
`thread_exclusive`, `absorbed_are_read`, `gdocs_batch`.

**Deadlock** is checked in the `Coworker` runs: workers poll for ever. It is not in
the others, where a finite number of calls ends or users stop writing.

**Fairness.** `Coworker`: weak fairness of each worker (a goroutine in a loop; an
execution is bounded by the task timeout, `worker.go:173-177`), of the handlers that
have been called taken together, and of the restart. Weak fairness of a worker suffices
since a poll that finds nothing is a step as well and the claim is tried again.
`ReviewBatch`: the worker's goroutine, whose executor ends within that timeout.
`Adapters`: the handler of each user's item, which is a goroutine, and the Slack loop;
nothing about users, workers, other webhooks or what is sent again. `GoogleDocs`:
the watch loop, the goroutines, the delivery of notifications by Drive, the start
of the next process; nothing about users or workers. `ClaudeCode`: the goroutines,
whose requests end at the latest with their context or connection; nothing about
installations and webhooks. `Sandboxes`: the calling goroutine and the passing of the
deadline; nothing about the workload, which may run for ever. That the goroutine goes on
includes that its cleanup requests end: they use the background context
(`docker.go:251,272`, `kubernetes.go:180-183`), so no deadline of the code bounds them,
only the connection to the daemon or to the API server.

**Limits of some results.** `NotSkipped` needs that two writes of one document do
not fall in the same millisecond (`MinGap = 1`): the next check starts one
millisecond after the latest comment it saw, and with `MinGap = 0` TLC finds the
skipped comment. It excepts the threads in `passed`: what was written in a thread between
two pages of a listing that was past it, and what was on none of the
`maxPaginationPages` pages; both are lost when a later comment was listed (section 5,
`ModifiedIsFetched`). A listing of one page has no such threads. `AcceptedOnce` is checked for one fault; with two (storing the
last-seen time and the acknowledging reply) a request is handed over twice.
A list of changes cut at `maxPaginationPages` leaves the rest to the next notification;
`WatchedRequestsAreHanded` is checked with such lists, but with one document, whose check
after any of its changes finds what the others announced. It has the same exception for
`passed`. `ImplementsRuntime` says nothing of the result of a workload
that the platform failed after a clean exit, and `NoFilesLeft` excepts the files, and only
those, whose own removal failed.
`AskedBecomesTasks` ends with a task or with an error that GitHub is told of.
`MentionsBecomeTasks` is about a process that lives and in which nothing fails: an
envelope is confirmed before it is handled, so what is confirmed and not yet handled
is lost with the process. `ThreadContextIsComplete` is about threads that fit into one
answer of `conversations.replies`. `ToldIsCached` says nothing while an older webhook
or an older answer of GitHub is still on its way: either may overwrite the newer id.

## 4. Proofs

TLAPS proves, for any values of the constants that meet the assumptions below:

| Module | Theorem | Statement |
|---|---|---|
| `CoworkerProofs` | `Invariance` | `Spec => []Inv` |
| | `TypeCorrect` | `Spec => []TypeOK` |
| | `TasksAreComplete` | every task has its thread row and its message |
| | `TasksAreExclusive` | no task is two workers', and what a worker holds is its in-progress row |
| | `TasksExecuteOnce` | no task is handed to an executor twice |
| | `TasksAreRepliedOnce` | no task is replied to twice |
| `LifecycleProofs` | `Refinement` | `Spec => ImplementsLifecycle` |
| | `BatchesAreAcknowledged` | a task is claimable only when its whole batch is acknowledged |
| | `NothingIsLeftBehind` | `NoOrphan` |
| | `AnswersAreInPlace` | `AnswersReachTheirComment` |
| `ReviewBatchProofs` | `BatchInvariance` | `Spec => []BatchInv` |
| | `SectionsReachTheirComment` | `AnsweredWithOwnSection`, for every batch and every answer |
| | `NoLineIsSharedByTwo` | `SectionsAreDisjoint` |
| | `BatchTypes` | `Spec => []TypeOK` |
| | `RepliesAreAllOrNone` | when the task ends, all comments of the batch were answered or none (`AllOrNone`) |
| | `RepliesMatchTheStore` | if no update fails, a reply is what the task was saved with (`RepliesAreSaved`) |
| | `LoopsEnd` | every step after the execution lowers `Rank` (`RankFalls`) |
| `GoogleDocsProofs` | `DocsTypes` | `Spec => []TypeOK` |
| | `NothingIsSkipped` | `NotSkipped`, with its exception for `passed`, if no two writes fall in the same millisecond |
| | `RequestsGetOneTask` | `AcceptedOnce`, if moreover at most one call fails |
| | `LastSeenNeverGoesBack` | no step moves a last-seen time back (`LastSeenOnlyGrows`) |
| | `RequestsAreNotForgotten` | `NotForgotten`, with the same exception and condition |
| `AdaptersProofs` | `GitHubInvariance` | `Spec => []GitHubInv` |
| | `TasksMatchDeliveries` | `OneTaskPerDelivery` |
| | `BotIsNotAnswered` | `ReactsToUsersOnly` |
| | `WebhooksEndWithTasks` | GitHub is told OK of a new item only when all that was asked for in it has its task (`OkMeansHanded`) |
| | `SlackInvariance` | `Spec => []SlackInv` |
| | `RestartsRepeatNothing` | `RestartRepeatsNoTask` |
| | `ContextsAreComplete` | `ThreadContextIsComplete` |
| | `OneLossPerFault` | no more mentions are lost than calls failed and processes ended (`LossesAreFaults`) |
| | `AdaptersTypes` | `Spec => []TypeOK` |
| `InstallationsProofs` | `CacheInvariance` | `InstallationsSpec => []CacheInv` |
| | `DiscoveriesAreShared`, `IdsAreOfTheirRepo`, `ToldStaysCached`, `ClientsAreShared` | `OneDiscovery`, `IdIsOfTheRepo`, `ToldIsCached`, `OneClient` |
| | `WaitersAreLed` | who waits for a discovery waits for a caller that is at it (`WaitersHaveLeader`) |
| | `ExecutorsAreCallers` | `ClaudeCode`'s `Spec => InstallationsSpec` |
| | `TokenInvariance`, `ExecutorTypesHold` | `Spec => []TokenInv`, types of `ClaudeCode` |
| | `TokensFitClones` | `TokenFitsClone` |
| `SandboxesProofs` | `SandboxesInvariance`, `SandboxesTypes` | `Spec => []SandboxesInv`, types |
| | `JobsHaveTheirSecret`, `SecretsAreDeleted` | `SecretOutlivesJob`, `NoSecretLeft` |
| | `MountsStay`, `FilesAreRemoved` | `MountsOutliveBox`, `NoFilesLeft` |
| | `SandboxesImplementRuntime` | `Spec => ImplementsRuntime` |

Properties in brackets that no run's configuration lists are stated in the proof
module, next to their theorem. Each was checked by TLC before it was proved.

Assumptions, each named where its constants are declared and evaluated by TLC in
the runs: `StoreAssumption` (types; the "no row" values differ from rows; a mention
never shares a thread with an event of GitHub, since their thread keys and channels
differ), `RouterAssumption` (a delivery is a sequence of events and no event occurs
twice, since an adapter makes a new event for every webhook), `PoolAssumption`
(the place "thread" is no event), `CoworkerAssumption` (bounds are naturals),
`ReviewBatchAssumption` (a batch is not empty and has no task twice; numbers and
the other lines are different things), `GitHubAssumption` (an inline comment belongs to
one review, once, and only reviews have any), `SlackAssumption` (messages are finitely
many and numbered in the order in which they are written; a thread is named by its first
message), `GoogleDocsAssumption` (there is a document; comment threads are
finitely many, so that the latest of those found exists), `ClaudeCodeAssumption` (a task
has finitely many metadata entries; executors and posters are different callers; types),
`InstallationsAssumption`, `SandboxAssumption` (types).

None of the safety properties of the core is inductive. `TaskExclusive` alone allows a
state in which two workers have chosen the same pending row; `ExecutedOnce` alone allows
a pending task that was executed. `Inv` adds what the code relies on silently:

* `HandlerInv` – the events a handler has still to insert have no task, so an
  insert never resets a task in progress; the thread row precedes them.
* `RowLockInv` – a row being claimed is pending and has one claimer (`FOR UPDATE`).
* `ShapeInv` – the tasks a worker is on, has absorbed and is releasing are
  disjoint, and each set is non-empty only in the states it belongs to.
* `HeldInv`, `DisjointInv` – held rows are in progress under the holder's id, and
  no task is two workers', including the one a worker still owes a reply.
* `FreeInv` – a task not yet queued, or queued, is nobody's, was not executed and
  not replied to. This is what makes a release safe and a re-queue wrong.
* `RunInv`, `ReplyInv` – what a worker has was executed exactly if it is past its
  execution; what has a reply was executed, and nobody owes it another one.

The argument: every step of a worker meets `StepOK`, a short description of how it
may change the rows and sets (`WorkerStepOK`), and `PoolStep` shows once that such
a step keeps the pool's part of `Inv`; a handler only inserts rows of its own
events (`HandlerKeepsInv`, using that an event is delivered once); a new process
drops all that workers hold. The refinement maps `phase` to `status`, `held` to
`Held`, `ran` to `executed` and `replied` to the tasks with a post; each action
is matched by an action of `TaskLifecycle` or a stutter, with `Inv` giving the
enabling conditions.

On top of `Inv`:

* `AckInv` – a handler in its first loop has acknowledged what is before its index, one
  past it everything; the second loop is the only place where tasks come from.
* `AnswerInv` – a reference that names an inline comment belongs to a thread that has
  one. A worker's Properties start as the thread creator's and are overwritten per
  task; the invariant shows that what an issue comment or a mention inherits never
  sends its answer elsewhere. This needs that mentions share no thread with the rest.

For the other modules:

* `BatchInv` – what has been read up to the last header is what the last header of each
  number up to there says (`Parsed`), numbers are positions (`Numbered`), and replies
  start only when no header is left (`Routing`). That sections are disjoint then follows
  without a step of its own: two sections lie below different headers, and neither
  reaches beyond the next one.
  `ReviewBatchProofs` adds an `AnswerInv` of its own: the comments answered are those of
  the positions before `turn`, a task that ends has answered all of them or none, and
  while no update failed what was sent is what was saved. `Rank` counts the lines not yet
  read and two steps for each reply still due.
* `BaseInv`, `SkipInv`, `OnceInv` – the mutex of a document belongs to the goroutine that
  checks it, so the last-seen time does not move between its read and its write. A
  relevant thread that a listing is past was found or is in `passed`, which every page
  keeps; after the last page, a relevant comment that is not older than the previous
  last-seen time was found, is in `passed`, or is later than all that was found
  (`ListedInv`). A request with a task is *over*: its
  document's last-seen time or its thread has moved beyond it, and neither goes back. A
  goroutine that is about to create a task has moved one of the two itself, the time or,
  by the acknowledging reply, the thread, unless both calls failed. That is why one
  failing call does no harm and two do.
* `TokensInv` – before the watch stands there are neither notifications nor goroutines,
  all page tokens are positions of the log, and who lists has listed fewer pages than its
  token says. `NotForgotten` is inductive with it and `SkipInv`: a token moves past a
  change only with a goroutine that has listed it, and from there on that goroutine has
  the document to check, checks it, or has found the comment. A goroutine that overtakes
  another may put the token back, which lists a change again, never one the less.
* `GitHubInv` – while a handler has not handed over its events, each of them has fewer
  tasks than its webhook has deliveries, only the webhook of the item itself gets that
  far, and its events are all different. What the bot posts in between is a new item,
  whose webhooks no handler has had before.
* `SettledInv` – on top of it: a handler filters only with all pages of the review at
  hand, and of what was asked for each is then in the batch it hands over or has its task.
* `SlackInv` – an account per message (`Paid`): its tasks, what the loop has of it past
  the confirmation and its waiting envelopes are no more than one, the late envelopes and
  the failed calls together; before it is confirmed the first two are only paid by failed
  confirmations, which is why a new start, when its envelope comes again, adds nothing.
  `Written` and `Complete` say that envelopes are of messages that were written, so that
  the thread's earlier messages were there when it was fetched. `LossesAreFaults` follows
  from what one step does to the set of lost mentions (`Lost`): the confirmation comes
  before the handling, but one envelope is at that place at a time.
* `CacheInv` – an id in the cache, in a webhook or with a caller was issued to that
  repository (`OriginInv`); who asks GitHub is the leader (`LeaderInv`); where the id was
  told nothing older is on its way (`ToldInv`); who has a client has the one that is kept
  (`ClientInv`). The proof is of the provider with callers that call as they like;
  `ExecutorsAreCallers` shows that the executions and the adapters are such callers, so
  all of it holds for them too. `LedInv` adds that a leader is at its request and that who
  waits has one, whether the request succeeds or fails.
* `TokenInv` – a token that was obtained for the task's own repository is in place and its
  provider is marked as seen; an execution that asks for another repository's token has
  marked that one's provider, which is then a different one. The lists of repositories
  found in texts and metadata are sequences of repositories, whatever the texts.
* `SandboxesInv` – for each runtime, which objects of a call exist at each place in its
  `Exec`, and what is known of the workload where a result is chosen: the log is read with
  code 0 of a workload that succeeded, with code 1 of one that failed, or (Kubernetes) with
  any code of a broken one. The directories that `Exec` no longer knows of, or has tried to
  remove, are among the stuck ones. Each step is the business of one call, which gives the steps of `SandboxRuntime`; the other runtime's
  objects stay absent.

Only model-checked are the liveness properties, since fairness and `ENABLED` are out of
the prover's reach: `EveryTaskEnds`, `EveryCommentIsAnswered`, `AskedBecomesTasks`,
`MentionsBecomeTasks`, `WatchedRequestsAreHanded`, `SandboxStarts` and `ExecReturns`.
What safety there is in them is proved for most: nothing is left in progress by nobody
(`NoOrphan`), replies are all or none and the loops end (`AllOrNone`, `RankFalls`), OK
means handed over (`OkMeansHanded`), a loss has its fault (`LossesAreFaults`), no request
is forgotten (`NotForgotten`), nobody waits for nothing (`WaitersHaveLeader`).

## 5. What the checks found

Each of these is a run that violates the property named:

1. `ThreadExclusive` (`postgres.go:324`): two workers can work on one thread. A claim's
   snapshot precedes another claim's commit, its advisory lock follows it.
2. `AbsorbedAreRead` (`worker.go:161`): the merged prompt goes to `Event.Content`, which
   no executor reads; a comment stored after the load reaches no executor.
3. `HandedIsAccepted` (`googledocs.go:392`): comments of two threads form a batch the
   router refuses.

Others are stated in the modules and are violated as soon as TLC is asked, with the
constants of a run above and the change given:

* `AcceptedEventsHaveTasks` (`router.go:88`, constants of `thread_exclusive`): two first
  events of a thread race, one `CreateThread` violates the unique index, its
  acknowledged event is lost.
* `EveryTaskEnds` with a shutdown (`worker.go:242`, constants of `progress`,
  `MaxRestarts = 1`): the task stays in progress for good and blocks its thread.
* `FullHistory` (`worker.go:194`, constants of `thread_exclusive`): a task is completed
  before its answer is stored; the next worker may load a history without it.
* `ModifiedIsFetched` (`googledocs.go:296`, constants of `gdocs_safety` with two threads, one
  goroutine, mentions only, nothing else that happens, `MaxWrites = 4`, `MaxPages = 3`): a
  mention in a thread of the first page, made while the second page is fetched, is in
  neither; a comment of the second page takes the last-seen time past it. No call failed,
  and no later check lists it, while the integration plan
  (`docs/plans/2026-05-11-google-docs-integration.md:32`) speaks of the "comments modified
  since the last check". With the constants of `gdocs_progress` TLC shows a listing cut
  at `maxPaginationPages`, which loses what it does not reach in the same way.
* `WatchedRequestsAreHanded` with one renewal (`googledocs.go:168`, constants of
  `gdocs_progress`, `MaxRenewals = 1`): the page token is replaced while a notification
  is on its way.
* `DowntimeRequestsAreHanded` (`googledocs.go:162`, constants of `gdocs_progress`,
  `MaxRestarts = 1`): a comment written during downtime is not found after the restart.
* `NoMentionTalkedOver` (`googledocs.go:402`, constants of `gdocs_batch`): the bot's own
  reply hides a mention that was not listed yet.
* `NoSecretLeft` without its conjunct `valid` (`kubernetes.go:67`): the prompt secret
  stays if a resource limit does not parse.
* The result of a workload that the platform failed after a clean exit
  (`kubernetes.go:145`, `docker.go:204`): `Exec` hands on the exit code it finds, 0, with a
  reason or message and no output, or in Kubernetes with the log if there is no reason. The
  executor looks at the code only (`claudecode.go:85-93`) and answers as after a success,
  in the first case with an empty text. `ImplementsRuntime` with "broken" treated as
  "failed" in `Truthful` shows it (constants of `sandboxes`).
* `ThreadContextIsComplete` without its conjunct on `ReplyLimit` (`slack.go:142`,
  constants of `adapters`, `ReplyLimit = 1`): only the first answer of
  `conversations.replies` is used, while `docs/architecture.md:58` speaks of the full
  thread history.

## 6. Not modelled

* The wording of prompts and documents: the executors' prompts, `buildDocumentContext`
  and its helpers, the text around the sections of a merged prompt.
* `resolveReplyLineInfo` of the GitHub adapter (line numbers of a reply), the place an
  apology lands at, `UpdateThreadStatus` (no caller) and `Migrate`, which has finished
  before anything else starts.
* Google Docs: a thread that is named twice by one listing, since it moved to a later page
  after it was listed; the order in which Drive lists threads is not the code's.
* Kubernetes: the time to live of a finished job, the process dying inside `Exec`. Lost replies to the creation of the
  prompt secret and of a container that is never started: what stays then is no running
  workload, and no property is about it.
* The checks of a webhook's signature and of its form.
* LLM providers and configuration: no state over time.

## 7. Plan

Done, in this order: Store, Router, WorkerPool, Coworker (the core); TaskLifecycle
and the proofs; GoogleDocs; the sandboxes; Installations and ClaudeCode; the GitHub and
Slack adapters; ReviewBatch; the proofs of routing, of the cache, of the division of an
answer, of the GitHub handlers, of Google Docs with its paged listings, and that both sandboxes implement
`SandboxRuntime`; the proofs of the Slack adapter and of the tokens of an execution, that
executions are callers of the provider, and of the safety cores of the liveness properties.

Left, by what it would add:

1. The deliveries of `Adapters` as the environment of `Router`, in place of its fixed
   sets of deliveries.
2. A safety core of `ExecReturns`: the requests a call has still to make are finitely
   many, as `Rank` shows for a batch.
3. `Migrate`, with two processes that start at once.
4. The process dying inside `Exec`, and what the time to live of a job then removes.
