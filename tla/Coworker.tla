------------------------------ MODULE Coworker ------------------------------
(***************************************************************************)
(* The process (cmd/ai-coworker/main.go): the router's handlers and the    *)
(* worker pool over one store, the signal that cancels the context they    *)
(* run under, and the end of the process with the start of the next one.   *)
(***************************************************************************)
EXTENDS Router, WorkerPool

CONSTANTS
  MaxRestarts,  \* bound: how often the process is told to stop, and started again
  MaxCrashes    \* bound: how often it is killed, and started again

ASSUME CoworkerAssumption == MaxRestarts \in Nat /\ MaxCrashes \in Nat

VARIABLES
  restarts,     \* processes that have ended because they were told to
  crashes       \* processes that have been killed

vars == <<storeVars, routerVars, poolVars, restarts, crashes>>

TypeOK == StoreTypeOK /\ RouterTypeOK /\ PoolTypeOK /\ restarts \in Nat /\ crashes \in Nat

Init == StoreInit /\ RouterInit /\ PoolInit /\ restarts = 0 /\ crashes = 0

Deliver(d) == HandlerStep(d) /\ UNCHANGED <<poolVars, restarts, crashes>>

Work(w) == WorkerStep(w) /\ UNCHANGED <<routerVars, restarts, crashes>>

\* SIGINT or SIGTERM cancels the context of the store calls, the executions and
\* the replies.
Shutdown ==
  /\ ctx = "live" /\ restarts < MaxRestarts
  /\ ctx' = "cancelled"
  /\ UNCHANGED <<threads, messages, taskVars, faults, routerVars, poolVars, restarts, crashes>>

\* Variant with a fault: what was in progress is queued again.
NewProcessRequeues ==
  /\ ctx' = "live"
  /\ hpc' = [d \in Delivery |->
               IF hpc[d] \in {"new", "done", "error"} THEN hpc[d] ELSE "lost"]
  /\ pc' = [w \in Worker |-> "idle"]
  /\ snap' = [w \in Worker |-> {}]
  /\ locks' = [w \in Worker |-> {}]
  /\ task' = [w \in Worker |-> NoEvent]
  /\ absorbed' = [w \in Worker |-> {}]
  /\ releasing' = [w \in Worker |-> {}]
  /\ hist' = [w \in Worker |-> {}]
  /\ ref' = [w \in Worker |-> NoRef]
  /\ status' = [e \in Event |-> IF status[e] = "in_progress" THEN "pending" ELSE status[e]]
  /\ UNCHANGED <<threads, messages, owner, created, clock, faults, hidx, acked, executed, posted>>

\* A process starts where another one ended.  Its open transactions have rolled
\* back, the handlers it was in are gone, and main starts the pool without
\* touching the tasks table.
NewProcess ==
  /\ ctx' = "live"
  /\ hpc' = [d \in Delivery |->
               IF hpc[d] \in {"new", "done", "error"} THEN hpc[d] ELSE "lost"]
  /\ pc' = [w \in Worker |-> "idle"]
  /\ snap' = [w \in Worker |-> {}]
  /\ locks' = [w \in Worker |-> {}]
  /\ task' = [w \in Worker |-> NoEvent]
  /\ absorbed' = [w \in Worker |-> {}]
  /\ releasing' = [w \in Worker |-> {}]
  /\ hist' = [w \in Worker |-> {}]
  /\ ref' = [w \in Worker |-> NoRef]
  /\ UNCHANGED <<threads, messages, taskVars, faults, hidx, acked, executed, posted>>

\* main returns once pool.Wait has.
Restart ==
  /\ ctx = "cancelled" /\ \A w \in Worker : pc[w] = "stopped"
  /\ NewProcess
  /\ restarts' = restarts + 1
  /\ UNCHANGED crashes

\* The process is killed.
Crash ==
  /\ crashes < MaxCrashes
  /\ NewProcess
  /\ crashes' = crashes + 1
  /\ UNCHANGED restarts

Next ==
  \/ \E d \in Delivery : Deliver(d)
  \/ \E w \in Worker : Work(w)
  \/ Shutdown
  \/ Restart
  \/ Crash

Spec == Init /\ [][Next]_vars

(***************************************************************************)
(* Every goroutine keeps running: a worker that can take a step takes one  *)
(* (the executor is bounded by the task timeout), and some handler that    *)
(* has been called does; a handler has few steps, so all of them end.  A   *)
(* process told to stop ends.                                              *)
(***************************************************************************)
Fairness ==
  /\ \A w \in Worker : WF_vars(Work(w))
  /\ WF_vars(\E d \in Delivery : hpc[d] # "new" /\ Deliver(d))
  /\ WF_vars(Restart)

FairSpec == Spec /\ Fairness

-----------------------------------------------------------------------------
\* No task is ever worked on by two workers, whatever fails: the tasks of
\* different workers (their own, the absorbed and the ones being released) are
\* disjoint, and each is an in_progress row that carries the worker's id.
\* ClaimNextTask, ClaimPendingTasks and the release must agree on this.
TaskExclusive ==
  \A w \in Worker : \A e \in Held(w) :
    /\ status[e] = "in_progress" /\ owner[e] = w
    /\ \A v \in Worker \ {w} : e \notin Held(v)

\* A task is handed to an executor at most once over all processes, faults and
\* restarts: an execution may push code, so it must not be repeated.
ExecutedOnce ==
  \A w \in Worker : pc[w] = "execute" => ({task[w]} \cup absorbed[w]) \cap executed = {}

\* A task gets at most one reply, an answer or an apology: what a worker is about
\* to post is the first post for its task.  The code marks a task completed
\* before it replies "to prevent duplicate processing".
RepliedOnce ==
  \A w \in Worker : pc[w] \in {"send", "apologise"} => posted[task[w]] = {}

\* An answer lands where its event is: under the inline comment for an inline
\* comment, at the thread for any other event, although all tasks of a batch share
\* the Properties map that routeResponse writes to, and that map starts as the
\* thread creator's.
AnswersReachTheirComment ==
  \A e \in Event : \A p \in posted[e] :
    p.what = "answer" => p.at = (IF KindOf[e] = "review_comment" THEN e ELSE "thread")

\* Nothing is left behind while nothing fails: in a process that has had no store
\* error and has not been told to stop, every in_progress task is some worker's.
NoOrphan ==
  faults = 0 /\ restarts = 0 /\ crashes = 0 /\ ctx = "live" =>
    \A e \in Event : status[e] = "in_progress" => \E w \in Worker : e \in Held(w)

\* Every task of a process without faults ends: it is completed or failed.
EveryTaskEnds ==
  \A e \in Event : status[e] = "pending" ~> status[e] \in {"completed", "failed"}

-----------------------------------------------------------------------------
Lifecycle == INSTANCE TaskLifecycle WITH
  phase <- status,
  held <- [w \in Worker |-> Held(w)],
  ran <- executed,
  replied <- {e \in Event : posted[e] # {}}

\* The process, through every fault, shutdown and restart, is an at-most-once
\* task queue.
ImplementsLifecycle == Lifecycle!Spec

-----------------------------------------------------------------------------
(* What documentation and comments claim; the runs that check these find       *)
(* behaviours of the code that break them.                                     *)

\* "Two mechanisms prevent multiple workers from claiming tasks on the same
\* thread concurrently" (ClaimNextTask).
ThreadExclusive ==
  \A w, v \in Worker : \A e \in Held(w), f \in Held(v) :
    w # v => ThreadOf[e] # ThreadOf[f]

\* "The absorbed tasks are merged into a single structured prompt": what the
\* executor is given (Task.Input and the loaded messages) contains every absorbed
\* comment.
AbsorbedAreRead ==
  \A w \in Worker : pc[w] = "execute" =>
    \A e \in absorbed[w] : <<"user", e>> \in hist[w]

\* "If the thread exists, the event is a continuation with full history": while
\* the answer of a completed task is not stored yet, no task of its thread can be
\* claimed, so that the worker that claims the next one loads that answer.
FullHistory ==
  \A v \in Worker, e \in Candidates :
    pc[v] = "message" => ThreadOf[e] # ThreadOf[task[v]]
=============================================================================
