------------------------------- MODULE Store -------------------------------
(***************************************************************************)
(* The PostgreSQL store shared by the router and the worker pool           *)
(* (internal/store/postgres.go and its migrations).                        *)
(*                                                                         *)
(* An incoming event, the user message recorded for it and the task        *)
(* created for it are in one-to-one correspondence, so all three are       *)
(* named by the event.  A thread is named by its (channel, thread_key)     *)
(* pair, which a unique index makes a key of the threads table.            *)
(*                                                                         *)
(* A statement takes effect atomically.  Its caller sees it succeed, or    *)
(* sees an error; an error leaves open whether the statement was applied.  *)
(***************************************************************************)
EXTENDS Naturals

CONSTANTS
  Event,      \* incoming events, and their messages and tasks
  Thread,     \* (channel, thread_key) pairs
  Worker,     \* the goroutines of the worker pool
  ThreadOf,   \* the thread an event belongs to
  KindOf,     \* what kind of event it is
  MaxFaults,  \* bound: store calls that return an error
  NoRow,      \* "no row" of the threads table
  NoWorker,   \* the empty worker_id
  NoEvent     \* the empty comment_id

\* The metadata "type" the GitHub adapter attaches; a Slack mention has none.
Kind == {"issue_comment", "review", "review_comment", "mention"}
Status == {"none", "pending", "in_progress", "completed", "failed"}
Role == {"user", "assistant"}

\* The part of a ChannelRef's Properties that decides where a reply is posted.
Ref == [type : Kind \cup {"none"}, cid : Event \cup {NoEvent}]

\* The thread_key carries the channel: what GitHub announces and what Slack or Google
\* Docs do never share a thread.
ASSUME StoreAssumption ==
  /\ ThreadOf \in [Event -> Thread]
  /\ KindOf \in [Event -> Kind]
  /\ \A e, f \in Event :
       KindOf[e] = "mention" /\ KindOf[f] # "mention" => ThreadOf[e] # ThreadOf[f]
  /\ MaxFaults \in Nat
  /\ NoRow \notin Ref
  /\ NoWorker \notin Worker
  /\ NoEvent \notin Event

VARIABLES
  threads,    \* rows of table threads: the ChannelRef the thread was created with
  messages,   \* rows of table messages, as <<role, event>>
  status,     \* tasks.status; "none" while the event has no task row
  owner,      \* tasks.worker_id
  created,    \* tasks.created_at
  clock,      \* the last created_at handed out
  faults,     \* store calls that have returned an error while the process ran
  ctx         \* the process context: "live", or "cancelled" by a signal

storeVars == <<threads, messages, status, owner, created, clock, faults, ctx>>
taskVars == <<status, owner, created, clock>>

StoreTypeOK ==
  /\ threads \in [Thread -> Ref \cup {NoRow}]
  /\ messages \subseteq Role \X Event
  /\ status \in [Event -> Status]
  /\ owner \in [Event -> Worker \cup {NoWorker}]
  /\ created \in [Event -> Nat]
  /\ clock \in Nat
  /\ faults \in Nat
  /\ ctx \in {"live", "cancelled"}

StoreInit ==
  /\ threads = [t \in Thread |-> NoRow]
  /\ messages = {}
  /\ status = [e \in Event |-> "none"]
  /\ owner = [e \in Event |-> NoWorker]
  /\ created = [e \in Event |-> 0]
  /\ clock = 0
  /\ faults = 0
  /\ ctx = "live"

-----------------------------------------------------------------------------
(***************************************************************************)
(* Outcomes of a call.  After the process context is cancelled every call  *)
(* made with it fails; before that, at most MaxFaults calls do.            *)
(***************************************************************************)
Succeeds == ctx = "live" /\ UNCHANGED faults

Errs ==
  \/ ctx = "cancelled" /\ UNCHANGED faults
  \/ faults < MaxFaults /\ faults' = faults + 1

-----------------------------------------------------------------------------
\* INSERT INTO threads: the unique index on (channel, thread_key) admits one row.
CreateThread(t, ref) ==
  /\ threads[t] = NoRow
  /\ threads' = [threads EXCEPT ![t] = ref]

\* SELECT FROM messages WHERE thread_id.
GetMessages(t) == {m \in messages : ThreadOf[m[2]] = t}

\* INSERT INTO messages.
CreateMessage(role, e) == messages' = messages \cup {<<role, e>>}

\* INSERT INTO tasks, with status pending, no worker and the time of the call.
CreateTask(e) ==
  /\ status' = [status EXCEPT ![e] = "pending"]
  /\ owner' = [owner EXCEPT ![e] = NoWorker]
  /\ created' = [created EXCEPT ![e] = clock + 1]
  /\ clock' = clock + 1

\* UPDATE tasks ... WHERE id: the caller's copy replaces the whole row.
UpdateTask(e, s, o) ==
  /\ status' = [status EXCEPT ![e] = s]
  /\ owner' = [owner EXCEPT ![e] = o]
  /\ UNCHANGED <<created, clock>>

\* An UpdateTask that returns an error may have been applied.
UpdateTaskErrs(e, s, o) ==
  /\ Errs
  /\ UpdateTask(e, s, o) \/ UNCHANGED taskVars

\* Both claim statements set status and worker_id of the rows they select.
SetInProgress(S, w) ==
  /\ status' = [e \in Event |-> IF e \in S THEN "in_progress" ELSE status[e]]
  /\ owner' = [e \in Event |-> IF e \in S THEN w ELSE owner[e]]
  /\ UNCHANGED <<created, clock>>

\* Tasks ClaimNextTask's WHERE clause selects in the current committed state:
\* pending, on a thread that has no in_progress task.
Candidates ==
  {e \in Event : /\ status[e] = "pending"
                 /\ \A f \in Event : ThreadOf[f] = ThreadOf[e] => status[f] # "in_progress"}

\* Tasks ClaimPendingTasks' WHERE clause selects: the pending ones of a thread.
PendingOn(t) == {e \in Event : ThreadOf[e] = t /\ status[e] = "pending"}
=============================================================================
