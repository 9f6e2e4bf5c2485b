------------------------- MODULE CoworkerInvariant -------------------------
(***************************************************************************)
(* The inductive invariant behind the safety properties of Coworker.       *)
(***************************************************************************)
EXTENDS Coworker

\* States in which task[w] names a task.
Busy == WorkerStates \ {"idle", "scan", "stopped"}

\* States in which a reply for task[w] is still to be posted, its row settled.
Owing == {"message", "send", "apologise"}

\* States after the executor was called.
AfterRun == {"complete", "message", "send", "next", "failexec", "apologise", "failabsorbed"}

\* What a worker holds, and the task it still has to reply to.
Mine(w) == Held(w) \cup (IF pc[w] \in Owing THEN {task[w]} ELSE {})

-----------------------------------------------------------------------------
\* A handler past its checks has a batch of one thread and an index into it; the
\* events from there on have no task yet; once it inserts, the thread's row is
\* there, and the current message is there before its task.
HandlerOK(d) ==
  /\ hpc[d] = "new" => hidx[d] = 1
  /\ hpc[d] \in {"ack", "lookup", "create", "message", "task"} =>
       ~Mixed(d) /\ hidx[d] \in DOMAIN EventsOf[d]
  /\ hpc[d] \in {"lookup", "create"} => hidx[d] = 1
  /\ hpc[d] \in {"message", "task"} => threads[BatchThread(d)] # NoRow
  /\ hpc[d] = "task" => <<"user", Current(d)>> \in messages
  /\ \A i \in DOMAIN EventsOf[d] :
       /\ hpc[d] \in {"new", "ack", "lookup", "create"} => status[EventsOf[d][i]] = "none"
       /\ hpc[d] \in {"message", "task"} /\ i >= hidx[d] => status[EventsOf[d][i]] = "none"

HandlerInv == \A d \in Delivery : HandlerOK(d)

BusyInv == \A w \in Worker : pc[w] \in Busy => task[w] \in Event

\* The FOR UPDATE lock: a row being claimed is pending and has one claimer.
RowLockInv ==
  \A w \in Worker : pc[w] = "commit" =>
    /\ status[task[w]] = "pending"
    /\ \A v \in Worker : pc[v] = "commit" /\ task[v] = task[w] => v = w

\* A worker's sets are disjoint and used only in the states they belong to.
ShapeInv ==
  \A w \in Worker :
    /\ absorbed[w] \cap releasing[w] = {}
    /\ pc[w] \in Processing \cup Owing => task[w] \notin absorbed[w] \cup releasing[w]
    /\ pc[w] # "release" => releasing[w] = {}
    /\ pc[w] \notin {"release", "execute"} \cup AfterRun => absorbed[w] = {}

HeldInv ==
  \A w \in Worker : \A e \in Held(w) : status[e] = "in_progress" /\ owner[e] = w

\* No task is two workers'.
DisjointInv == \A w, v \in Worker : w # v => Mine(w) \cap Mine(v) = {}

\* A task that is not queued yet, or queued, is nobody's, was never executed and
\* never replied to.
FreeInv ==
  \A e \in Event : status[e] \in {"none", "pending"} =>
    /\ e \notin executed
    /\ posted[e] = {}
    /\ \A w \in Worker : e \notin Mine(w)

\* What a worker has was executed exactly if the worker is past its execution.
RunInv ==
  \A w \in Worker : \A e \in Mine(w) : e \in executed <=> pc[w] \in AfterRun

ReplyInv ==
  /\ \A e \in Event : posted[e] # {} => e \in executed
  /\ \A w \in Worker : \A e \in Mine(w) : posted[e] = {}

Inv ==
  /\ TypeOK
  /\ HandlerInv
  /\ TaskHasThreadAndMessage
  /\ BusyInv
  /\ RowLockInv
  /\ ShapeInv
  /\ HeldInv
  /\ DisjointInv
  /\ FreeInv
  /\ RunInv
  /\ ReplyInv

-----------------------------------------------------------------------------
(* What three more properties rest on, each of them on top of Inv.             *)

\* A handler in its first loop has acknowledged the events before its index; one past
\* that loop, or whose batch has a task, has acknowledged all of them.
AckOK(d) ==
  /\ hpc[d] = "ack" => \A i \in DOMAIN EventsOf[d] : i < hidx[d] => EventsOf[d][i] \in acked
  /\ \/ hpc[d] \in {"lookup", "create", "message", "task"}
     \/ \E i \in DOMAIN EventsOf[d] : status[EventsOf[d][i]] # "none"
     => \A i \in DOMAIN EventsOf[d] : EventsOf[d][i] \in acked

AckInv == \A d \in Delivery : AckOK(d)

\* A reference that names an inline comment is of a thread that has one.
RefFits(r, t) ==
  r.type = "review_comment" => \E f \in Event : ThreadOf[f] = t /\ KindOf[f] = "review_comment"

\* The Properties a worker has loaded, and has overwritten for earlier tasks of its
\* batch, are of its thread, and so is all that it absorbs.
WorkerRefOK(w) ==
  /\ pc[w] \in Busy \ {"commit", "load", "fail"} => RefFits(ref[w], ThreadOf[task[w]])
  /\ pc[w] = "absorb" => \A e \in snap[w] : ThreadOf[e] = ThreadOf[task[w]]
  /\ \A e \in absorbed[w] : ThreadOf[e] = ThreadOf[task[w]]

AnswerInv ==
  /\ \A t \in Thread : threads[t] # NoRow => RefFits(threads[t], t)
  /\ \A w \in Worker : WorkerRefOK(w)
  /\ AnswersReachTheirComment
=============================================================================
