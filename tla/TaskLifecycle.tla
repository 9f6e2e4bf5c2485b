--------------------------- MODULE TaskLifecycle ---------------------------
(***************************************************************************)
(* What the router, the store and the worker pool promise together: an     *)
(* at-most-once task queue.  A task is queued once, held by at most one    *)
(* worker at a time, executed at most once and replied to at most once;    *)
(* only its holder settles it or puts it back, and it puts back only what  *)
(* has not been executed.  A worker may lose what it holds, to an error or *)
(* to the end of the process; a lost task is never taken again.            *)
(***************************************************************************)
CONSTANTS Event, Worker

VARIABLES
  phase,    \* status of the task
  held,     \* the tasks a worker holds
  ran,      \* tasks that have been executed
  replied   \* tasks a reply was posted for

lifecycleVars == <<phase, held, ran, replied>>

Init ==
  /\ phase = [e \in Event |-> "none"]
  /\ held = [w \in Worker |-> {}]
  /\ ran = {}
  /\ replied = {}

Enqueue(e) ==
  /\ phase[e] = "none"
  /\ phase' = [phase EXCEPT ![e] = "pending"]
  /\ UNCHANGED <<held, ran, replied>>

InProgress(S) == phase' = [e \in Event |-> IF e \in S THEN "in_progress" ELSE phase[e]]

\* A worker takes queued tasks that nobody has.
Take(w, S) ==
  /\ \A e \in S : phase[e] = "pending" /\ \A v \in Worker : e \notin held[v]
  /\ InProgress(S)
  /\ held' = [held EXCEPT ![w] = @ \cup S]
  /\ UNCHANGED <<ran, replied>>

\* Tasks are taken, but the worker does not learn of it.
TakeUnknowingly(S) ==
  /\ \A e \in S : phase[e] = "pending"
  /\ InProgress(S)
  /\ UNCHANGED <<held, ran, replied>>

PutBack(w, e) ==
  /\ e \in held[w] /\ phase[e] = "in_progress" /\ e \notin ran
  /\ phase' = [phase EXCEPT ![e] = "pending"]
  /\ held' = [held EXCEPT ![w] = @ \ {e}]
  /\ UNCHANGED <<ran, replied>>

Run(w, S) ==
  /\ S \subseteq held[w] /\ S \cap ran = {}
  /\ ran' = ran \cup S
  /\ UNCHANGED <<phase, held, replied>>

\* Only what was executed is completed.  The worker may lose other tasks with it.
Settle(w, e, outcome) ==
  /\ e \in held[w] /\ phase[e] = "in_progress"
  /\ outcome = "completed" => e \in ran
  /\ phase' = [phase EXCEPT ![e] = outcome]
  /\ \E S \in SUBSET (held[w] \ {e}) : held' = [held EXCEPT ![w] = S]
  /\ UNCHANGED <<ran, replied>>

Reply(e) ==
  /\ e \in ran \ replied /\ \A w \in Worker : e \notin held[w]
  /\ replied' = replied \cup {e}
  /\ UNCHANGED <<phase, held, ran>>

Lose(w, S) ==
  /\ S \subseteq held[w]
  /\ held' = [held EXCEPT ![w] = @ \ S]
  /\ UNCHANGED <<phase, ran, replied>>

\* The process ends.
LoseAll ==
  /\ held' = [w \in Worker |-> {}]
  /\ UNCHANGED <<phase, ran, replied>>

Next ==
  \/ \E e \in Event : Enqueue(e) \/ Reply(e)
  \/ \E S \in SUBSET Event : TakeUnknowingly(S)
  \/ \E w \in Worker, S \in SUBSET Event : Take(w, S) \/ Run(w, S) \/ Lose(w, S)
  \/ \E w \in Worker, e \in Event :
       PutBack(w, e) \/ Settle(w, e, "completed") \/ Settle(w, e, "failed")
  \/ LoseAll

Spec == Init /\ [][Next]_lifecycleVars
=============================================================================
