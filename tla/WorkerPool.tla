----------------------------- MODULE WorkerPool -----------------------------
(***************************************************************************)
(* The worker pool (internal/engine/worker.go): goroutines that claim      *)
(* pending tasks, classify and execute them and post the answers, with the *)
(* locking the claim statement of internal/store/postgres.go relies on.    *)
(***************************************************************************)
EXTENDS Store

CONSTANTS
  LockKey   \* hashtext(thread_id), the advisory lock a thread maps to

VARIABLES
  pc,         \* where a worker is
  snap,       \* rows the snapshot of the statement in progress selected
  locks,      \* advisory locks the worker's open transaction holds
  task,       \* the task the worker is on
  absorbed,   \* sibling review tasks merged into the execution, still to settle
  releasing,  \* claimed siblings still to be given back
  hist,       \* the thread's messages as loaded by processTask
  ref,        \* the loaded thread.ChannelRef, whose Properties map is shared
  executed,   \* tasks an executor run has been made for
  posted      \* what was posted in reply to a task, and where

poolVars == <<pc, snap, locks, task, absorbed, releasing, hist, ref, executed, posted>>
local == <<snap, locks, hist, ref>>

WorkerStates ==
  {"idle", "scan", "commit", "load", "classify", "debounce", "absorb", "release",
   "execute", "complete", "message", "send", "next",
   "fail", "failexec", "apologise", "failabsorbed", "stopped"}

\* The states in which the worker's task row is its own, in_progress.
Processing ==
  {"load", "classify", "debounce", "absorb", "release", "execute", "complete", "fail", "failexec"}

\* The tasks a worker is responsible for.
Held(w) == (IF pc[w] \in Processing THEN {task[w]} ELSE {}) \cup absorbed[w] \cup releasing[w]

NoRef == [type |-> "none", cid |-> NoEvent]
Place == Event \cup {"thread"}
Post == [what : {"answer", "apology"}, at : Place]

ASSUME PoolAssumption == "thread" \notin Event

PoolTypeOK ==
  /\ pc \in [Worker -> WorkerStates]
  /\ snap \in [Worker -> SUBSET Event]
  /\ locks \in [Worker -> SUBSET {LockKey[t] : t \in Thread}]
  /\ task \in [Worker -> Event \cup {NoEvent}]
  /\ absorbed \in [Worker -> SUBSET Event]
  /\ releasing \in [Worker -> SUBSET Event]
  /\ hist \in [Worker -> SUBSET (Role \X Event)]
  /\ ref \in [Worker -> Ref]
  /\ executed \subseteq Event
  /\ posted \in [Event -> SUBSET Post]

Fresh ==
  /\ pc = [w \in Worker |-> "idle"]
  /\ snap = [w \in Worker |-> {}]
  /\ locks = [w \in Worker |-> {}]
  /\ task = [w \in Worker |-> NoEvent]
  /\ absorbed = [w \in Worker |-> {}]
  /\ releasing = [w \in Worker |-> {}]
  /\ hist = [w \in Worker |-> {}]
  /\ ref = [w \in Worker |-> NoRef]

PoolInit ==
  /\ Fresh
  /\ executed = {}
  /\ posted = [e \in Event |-> {}]

-----------------------------------------------------------------------------
Become(w, s) == pc' = [pc EXCEPT ![w] = s]

\* Control returns to runWorker: the locals of the call are gone.
ToLoop(w) ==
  /\ Become(w, "idle")
  /\ snap' = [snap EXCEPT ![w] = {}]
  /\ locks' = [locks EXCEPT ![w] = {}]
  /\ task' = [task EXCEPT ![w] = NoEvent]
  /\ absorbed' = [absorbed EXCEPT ![w] = {}]
  /\ releasing' = [releasing EXCEPT ![w] = {}]
  /\ hist' = [hist EXCEPT ![w] = {}]
  /\ ref' = [ref EXCEPT ![w] = NoRef]

\* A row locked FOR UPDATE by an open claim transaction.
RowLocked(e) == \E v \in Worker : pc[v] = "commit" /\ task[v] = e

\* pg_try_advisory_xact_lock would be refused: another transaction holds the key.
KeyTaken(w, k) == \E v \in Worker \ {w} : k \in locks[v]

\* Variant with a fault: no row lock, and no re-check of the row's status.
TakeableUnlocked(w, e) == e \in snap[w] /\ ~KeyTaken(w, LockKey[ThreadOf[e]])

\* A row of the snapshot that the statement can take now: its thread's advisory
\* lock is free, SKIP LOCKED does not skip it, and the re-check PostgreSQL makes
\* on the row's newest version still finds it pending.  NOT EXISTS is not
\* evaluated again: it looked at other rows, in the statement's snapshot.
Takeable(w, e) ==
  /\ e \in snap[w]
  /\ ~KeyTaken(w, LockKey[ThreadOf[e]])
  /\ ~RowLocked(e)
  /\ status[e] = "pending"

\* ORDER BY created_at LIMIT 1.
Chosen(w, e) == Takeable(w, e) /\ \A f \in Event : Takeable(w, f) => created[e] <= created[f]

\* Advisory locks that evaluating the WHERE clause may acquire.
FreeKeys(w) == {k \in {LockKey[ThreadOf[e]] : e \in snap[w]} : ~KeyTaken(w, k)}

-----------------------------------------------------------------------------
(* runWorker and ClaimNextTask *)

\* ctx.Done() is looked at before every claim.
Stop(w) ==
  /\ pc[w] = "idle" /\ ctx = "cancelled"
  /\ Become(w, "stopped")
  /\ UNCHANGED <<storeVars, local, task, absorbed, releasing, executed, posted>>

\* ClaimNextTask's statement starts: its snapshot is taken.
ClaimBegin(w) ==
  /\ pc[w] = "idle" /\ Succeeds
  /\ Become(w, "scan")
  /\ snap' = [snap EXCEPT ![w] = Candidates]
  /\ UNCHANGED <<threads, messages, taskVars, ctx, locks, task, absorbed, releasing,
                 hist, ref, executed, posted>>

\* The statement walks the selected rows and locks one.  How many advisory locks
\* it has taken by then depends on the plan: the row's own, or more.
ClaimScan(w, e) ==
  /\ pc[w] = "scan" /\ Succeeds
  /\ Chosen(w, e)
  /\ \E K \in SUBSET FreeKeys(w) :
       /\ LockKey[ThreadOf[e]] \in K
       /\ locks' = [locks EXCEPT ![w] = K]
  /\ task' = [task EXCEPT ![w] = e]
  /\ snap' = [snap EXCEPT ![w] = {}]
  /\ Become(w, "commit")
  /\ UNCHANGED <<threads, messages, taskVars, ctx, absorbed, releasing, hist, ref,
                 executed, posted>>

\* No row to take (the worker sleeps and polls again), or the claim failed (it
\* backs off and retries): either way it is back at the top of the loop.
ClaimNone(w) ==
  /\ pc[w] = "scan"
  /\ \/ Succeeds /\ \A e \in Event : ~Takeable(w, e)
     \/ Errs
  /\ ToLoop(w)
  /\ UNCHANGED <<threads, messages, taskVars, ctx, executed, posted>>

\* The transaction commits and releases its locks.  If the caller sees an error
\* instead, the row may be claimed all the same.
ClaimCommit(w) ==
  /\ pc[w] = "commit"
  /\ \/ /\ Succeeds /\ SetInProgress({task[w]}, w)
        /\ Become(w, "load")
        /\ locks' = [locks EXCEPT ![w] = {}]
        /\ UNCHANGED <<snap, task, absorbed, releasing, hist, ref>>
     \/ /\ Errs /\ (SetInProgress({task[w]}, w) \/ UNCHANGED taskVars)
        /\ ToLoop(w)
  /\ UNCHANGED <<threads, messages, ctx, executed, posted>>

-----------------------------------------------------------------------------
(* processTask up to the executor *)

\* GetThread and GetMessages.  The foreign key of tasks.thread_id rules out a
\* missing thread.
Load(w) ==
  /\ pc[w] = "load"
  /\ \/ /\ Succeeds
        /\ Become(w, "classify")
        /\ ref' = [ref EXCEPT ![w] = threads[ThreadOf[task[w]]]]
        /\ hist' = [hist EXCEPT ![w] = GetMessages(ThreadOf[task[w]])]
     \/ Errs /\ Become(w, "fail") /\ UNCHANGED <<ref, hist>>
  /\ UNCHANGED <<threads, messages, taskVars, ctx, snap, locks, task, absorbed, releasing,
                 executed, posted>>

\* What the classifier may return.  Review events are review intents without
\* asking; for the others the model answers anything, review included, or fails.
Intents(e) ==
  IF KindOf[e] \in {"review", "review_comment"} THEN {"review"} ELSE {"review", "other", "error"}

\* The intent is saved with an UpdateTask that rewrites the row as the worker knows
\* it.  Only IntentReview absorbs siblings; the choice of the executor does not
\* matter here.
Classify(w) ==
  /\ pc[w] = "classify"
  /\ \E intent \in Intents(task[w]) :
       \/ intent = "error" /\ Become(w, "fail") /\ UNCHANGED <<taskVars, faults>>
       \/ /\ intent # "error" /\ Succeeds /\ UpdateTask(task[w], "in_progress", w)
          /\ Become(w, IF intent = "review" THEN "debounce" ELSE "execute")
       \/ /\ intent # "error" /\ Become(w, "fail")
          /\ Errs /\ (UpdateTask(task[w], "in_progress", w) \/ UNCHANGED taskVars)
  /\ UNCHANGED <<threads, messages, ctx, local, task, absorbed, releasing, executed, posted>>

\* absorbReviewTasks waits reviewDebounce, and gives up if the process stops;
\* then ClaimPendingTasks' statement starts and takes its snapshot.
AbsorbBegin(w) ==
  /\ pc[w] = "debounce"
  /\ \/ ctx = "cancelled" /\ Become(w, "execute") /\ UNCHANGED <<snap, faults>>
     \/ /\ Succeeds /\ Become(w, "absorb")
        /\ snap' = [snap EXCEPT ![w] = PendingOn(ThreadOf[task[w]])]
  /\ UNCHANGED <<threads, messages, taskVars, ctx, locks, task, absorbed, releasing, hist, ref,
                 executed, posted>>

\* Rows of the snapshot that are still pending and not locked by a claim.
Absorbable(w) == {e \in snap[w] : status[e] = "pending" /\ ~RowLocked(e)}

\* Siblings of a review are absorbed; other tasks go back to the queue.
IsReview(e) == KindOf[e] \in {"review", "review_comment"}

\* Variant with a fault: the non-review siblings are filtered out, not released.
AbsorbWithoutRelease(w) ==
  /\ pc[w] = "absorb"
  /\ Succeeds /\ SetInProgress(Absorbable(w), w)
  /\ absorbed' = [absorbed EXCEPT ![w] = {e \in Absorbable(w) : IsReview(e)}]
  /\ Become(w, "release")
  /\ snap' = [snap EXCEPT ![w] = {}]
  /\ UNCHANGED <<threads, messages, ctx, locks, task, releasing, hist, ref, executed, posted>>

\* ClaimPendingTasks.  On an error (which includes failing to scan a row of an
\* applied statement) the worker carries on with its own task alone.
Absorb(w) ==
  /\ pc[w] = "absorb"
  /\ \/ /\ Succeeds /\ SetInProgress(Absorbable(w), w)
        /\ absorbed' = [absorbed EXCEPT ![w] = {e \in Absorbable(w) : IsReview(e)}]
        /\ releasing' = [releasing EXCEPT ![w] = {e \in Absorbable(w) : ~IsReview(e)}]
        /\ Become(w, "release")
     \/ /\ Errs /\ (SetInProgress(Absorbable(w), w) \/ UNCHANGED taskVars)
        /\ Become(w, "execute") /\ UNCHANGED <<absorbed, releasing>>
  /\ snap' = [snap EXCEPT ![w] = {}]
  /\ UNCHANGED <<threads, messages, ctx, locks, task, hist, ref, executed, posted>>

\* Non-review siblings are put back one UpdateTask at a time; an error is logged.
Release(w, e) ==
  /\ pc[w] = "release" /\ e \in releasing[w]
  /\ \/ Succeeds /\ UpdateTask(e, "pending", NoWorker)
     \/ UpdateTaskErrs(e, "pending", NoWorker)
  /\ releasing' = [releasing EXCEPT ![w] = @ \ {e}]
  /\ UNCHANGED <<threads, messages, ctx, pc, local, task, absorbed, executed, posted>>

ReleaseDone(w) ==
  /\ pc[w] = "release" /\ releasing[w] = {}
  /\ Become(w, "execute")
  /\ UNCHANGED <<storeVars, local, task, absorbed, releasing, executed, posted>>

-----------------------------------------------------------------------------
(* The execution and what follows it *)

\* Execute, under the task timeout: it answers, or fails.  A cancelled process
\* context makes it fail.
Execute(w) ==
  /\ pc[w] = "execute"
  /\ executed' = executed \cup {task[w]} \cup absorbed[w]
  /\ \/ ctx = "live" /\ Become(w, "complete")
     \/ Become(w, "failexec")
  /\ UNCHANGED <<storeVars, local, task, absorbed, releasing, posted>>

\* The task is marked completed before anything is sent.  If that fails the
\* worker returns: no message, no reply, and the absorbed tasks stay as they are.
Complete(w) ==
  /\ pc[w] = "complete"
  /\ \/ /\ Succeeds /\ UpdateTask(task[w], "completed", w)
        /\ Become(w, "message")
        /\ UNCHANGED <<local, task, absorbed, releasing>>
     \/ UpdateTaskErrs(task[w], "completed", w) /\ ToLoop(w)
  /\ UNCHANGED <<threads, messages, ctx, executed, posted>>

\* The assistant message is stored; an error is logged.
StoreMessage(w) ==
  /\ pc[w] = "message"
  /\ \/ Succeeds /\ CreateMessage("assistant", task[w])
     \/ Errs /\ (CreateMessage("assistant", task[w]) \/ UNCHANGED messages)
  /\ Become(w, "send")
  /\ UNCHANGED <<threads, taskVars, ctx, local, task, absorbed, releasing, executed, posted>>

\* Variant with a fault: the type is overwritten together with the comment id only.
EnrichWithComment(r, e) ==
  IF KindOf[e] = "review_comment" THEN [type |-> KindOf[e], cid |-> e] ELSE r

\* routeResponse overwrites comment_type and comment_id in the loaded thread's
\* Properties with those of the task's metadata that are present; the map is the
\* same one for all tasks of a batch.
Enrich(r, e) ==
  [type |-> IF KindOf[e] # "mention" THEN KindOf[e] ELSE r.type,
   cid  |-> IF KindOf[e] = "review_comment" THEN e ELSE r.cid]

\* GitHub's SendResponse replies in the thread of an inline comment, and on the
\* issue or pull request otherwise; Slack's replies in the thread.
PlaceOf(r) == IF r.type = "review_comment" /\ r.cid # NoEvent THEN r.cid ELSE "thread"

\* SendResponse reaches the channel or fails, which is logged.
Posting(w, what, r) ==
  \/ /\ ctx = "live"
     /\ posted' = [posted EXCEPT ![task[w]] = @ \cup {[what |-> what, at |-> PlaceOf(r)]}]
  \/ UNCHANGED posted

\* routeResponse for the task at hand; processTask ends after the last one.
Send(w) ==
  /\ pc[w] = "send"
  /\ Posting(w, "answer", Enrich(ref[w], task[w]))
  /\ \/ absorbed[w] = {} /\ ToLoop(w)
     \/ /\ absorbed[w] # {} /\ Become(w, "next")
        /\ ref' = [ref EXCEPT ![w] = Enrich(@, task[w])]
        /\ UNCHANGED <<snap, locks, hist, task, absorbed, releasing>>
  /\ UNCHANGED <<storeVars, executed>>

\* Variant with a fault: the answered task stays in the list.
CompleteAbsorbedAgain(w, e) ==
  /\ pc[w] = "next" /\ e \in absorbed[w]
  /\ Succeeds /\ UpdateTask(e, "completed", w)
  /\ task' = [task EXCEPT ![w] = e]
  /\ Become(w, "send")
  /\ UNCHANGED <<threads, messages, ctx, local, absorbed, releasing, executed, posted>>

\* routeBatchedResponses marks the next absorbed task completed, then its answer
\* is routed whether or not that worked.
CompleteAbsorbed(w, e) ==
  /\ pc[w] = "next" /\ e \in absorbed[w]
  /\ \/ Succeeds /\ UpdateTask(e, "completed", w)
     \/ UpdateTaskErrs(e, "completed", w)
  /\ task' = [task EXCEPT ![w] = e]
  /\ absorbed' = [absorbed EXCEPT ![w] = @ \ {e}]
  /\ Become(w, "send")
  /\ UNCHANGED <<threads, messages, ctx, local, releasing, executed, posted>>

\* failTask before the execution: nothing is posted.
FailTask(w) ==
  /\ pc[w] = "fail"
  /\ \/ Succeeds /\ UpdateTask(task[w], "failed", w)
     \/ UpdateTaskErrs(task[w], "failed", w)
  /\ ToLoop(w)
  /\ UNCHANGED <<threads, messages, ctx, executed, posted>>

\* Variant with a fault: a failed execution is queued again.
RequeueExecuted(w) ==
  /\ pc[w] = "failexec"
  /\ Succeeds /\ UpdateTask(task[w], "pending", NoWorker)
  /\ Become(w, "apologise")
  /\ UNCHANGED <<threads, messages, ctx, local, task, absorbed, releasing, executed, posted>>

\* The execution failed: the primary task is failed first ...
FailExecuted(w) ==
  /\ pc[w] = "failexec"
  /\ \/ Succeeds /\ UpdateTask(task[w], "failed", w)
     \/ UpdateTaskErrs(task[w], "failed", w)
  /\ Become(w, "apologise")
  /\ UNCHANGED <<threads, messages, ctx, local, task, absorbed, releasing, executed, posted>>

\* ... then an apology goes to the thread's ChannelRef as loaded ...
Apologise(w) ==
  /\ pc[w] = "apologise"
  /\ Posting(w, "apology", ref[w])
  /\ Become(w, "failabsorbed")
  /\ UNCHANGED <<storeVars, local, task, absorbed, releasing, executed>>

\* ... and then the absorbed tasks are failed one by one.
FailAbsorbed(w, e) ==
  /\ pc[w] = "failabsorbed" /\ e \in absorbed[w]
  /\ \/ Succeeds /\ UpdateTask(e, "failed", w)
     \/ UpdateTaskErrs(e, "failed", w)
  /\ absorbed' = [absorbed EXCEPT ![w] = @ \ {e}]
  /\ UNCHANGED <<threads, messages, ctx, pc, local, task, releasing, executed, posted>>

\* Variant with a fault: processTask returns without failing the absorbed tasks.
ForgetAbsorbed(w) ==
  /\ pc[w] = "failabsorbed"
  /\ ToLoop(w)
  /\ UNCHANGED <<storeVars, executed, posted>>

FailAbsorbedDone(w) ==
  /\ pc[w] = "failabsorbed" /\ absorbed[w] = {}
  /\ ToLoop(w)
  /\ UNCHANGED <<storeVars, executed, posted>>

WorkerStep(w) ==
  \/ Stop(w) \/ ClaimBegin(w) \/ ClaimNone(w) \/ ClaimCommit(w)
  \/ Load(w) \/ Classify(w) \/ AbsorbBegin(w) \/ Absorb(w) \/ ReleaseDone(w)
  \/ Execute(w) \/ Complete(w) \/ StoreMessage(w) \/ Send(w)
  \/ FailTask(w) \/ FailExecuted(w) \/ Apologise(w) \/ FailAbsorbedDone(w)
  \/ \E e \in Event : ClaimScan(w, e) \/ Release(w, e) \/ CompleteAbsorbed(w, e) \/ FailAbsorbed(w, e)
=============================================================================
