------------------------------- MODULE Router -------------------------------
(***************************************************************************)
(* Router.HandleEvent (internal/engine/router.go): one handler per         *)
(* delivery, a delivery being the batch of events an adapter hands over in *)
(* one call.  Handlers run concurrently: every webhook request and the     *)
(* Slack loop call HandleEvent from goroutines of their own.               *)
(***************************************************************************)
EXTENDS Store, Sequences

CONSTANTS
  Delivery,   \* calls of HandleEvent
  EventsOf    \* the events of a delivery, in order

ASSUME RouterAssumption ==
  /\ EventsOf \in [Delivery -> Seq(Event)]
  /\ \A d1, d2 \in Delivery : \A i \in DOMAIN EventsOf[d1], j \in DOMAIN EventsOf[d2] :
       EventsOf[d1][i] = EventsOf[d2][j] => d1 = d2 /\ i = j

VARIABLES
  hpc,     \* where the handler of a delivery is
  hidx,    \* the index of the loop the handler is in
  acked    \* events whose Acknowledge call has returned (its error is ignored)

routerVars == <<hpc, hidx, acked>>

HandlerStates ==
  {"new", "ack", "lookup", "create", "message", "task", "done", "error", "lost"}

RouterTypeOK ==
  /\ hpc \in [Delivery -> HandlerStates]
  /\ hidx \in [Delivery -> Nat]
  /\ acked \subseteq Event

RouterInit ==
  /\ hpc = [d \in Delivery |-> "new"]
  /\ hidx = [d \in Delivery |-> 1]
  /\ acked = {}

Goto(d, s) == hpc' = [hpc EXCEPT ![d] = s]
GotoNext(d, i, s) == Goto(d, s) /\ hidx' = [hidx EXCEPT ![d] = i]

Current(d) == EventsOf[d][hidx[d]]
Last(d) == hidx[d] = Len(EventsOf[d])
BatchThread(d) == ThreadOf[EventsOf[d][1]]

\* The batch holds events of two threads.
Mixed(d) == \E i \in DOMAIN EventsOf[d] : ThreadOf[EventsOf[d][i]] # BatchThread(d)

\* The Properties an adapter puts on an event's ChannelRef: the GitHub adapter
\* names the comment for issue comments and inline comments (WithComment), and
\* leaves a review's and a mention's reference bare.
RefOf(e) ==
  IF KindOf[e] \in {"issue_comment", "review_comment"}
  THEN [type |-> KindOf[e], cid |-> e]
  ELSE [type |-> "none", cid |-> NoEvent]

-----------------------------------------------------------------------------
(***************************************************************************)
(* The handler runs under its caller's context (the HTTP request's for the *)
(* webhooks), so its calls may also succeed while the process shuts down.  *)
(***************************************************************************)
CallSucceeds == UNCHANGED faults

\* An empty batch returns at once; a mixed one is refused before any effect.
HandleEvent(d) ==
  /\ hpc[d] = "new"
  /\ Goto(d, IF EventsOf[d] = << >> THEN "done" ELSE IF Mixed(d) THEN "error" ELSE "ack")
  /\ UNCHANGED <<hidx, acked, storeVars>>

\* Variant with a fault: the loop ends after the first event.
AcknowledgeFirstOnly(d) ==
  /\ hpc[d] = "ack"
  /\ acked' = acked \cup {Current(d)}
  /\ GotoNext(d, 1, "lookup")
  /\ UNCHANGED storeVars

\* First loop: every event is acknowledged before anything is stored.
Acknowledge(d) ==
  /\ hpc[d] = "ack"
  /\ acked' = acked \cup {Current(d)}
  /\ IF Last(d) THEN GotoNext(d, 1, "lookup") ELSE GotoNext(d, hidx[d] + 1, "ack")
  /\ UNCHANGED storeVars

\* Variant with a fault: the lookup's "not found" is taken for a thread.
LookupThreadUnchecked(d) ==
  /\ hpc[d] = "lookup"
  /\ CallSucceeds /\ Goto(d, "message")
  /\ UNCHANGED <<hidx, acked, threads, messages, taskVars, ctx>>

LookupThread(d) ==
  /\ hpc[d] = "lookup"
  /\ \/ CallSucceeds /\ Goto(d, IF threads[BatchThread(d)] = NoRow THEN "create" ELSE "message")
     \/ Errs /\ Goto(d, "error")
  /\ UNCHANGED <<hidx, acked, threads, messages, taskVars, ctx>>

\* The row may have appeared since the lookup: the unique index then refuses
\* the insert and the handler gives up.
NewThread(d) ==
  /\ hpc[d] = "create"
  /\ LET Insert == CreateThread(BatchThread(d), RefOf(EventsOf[d][1]))
     IN  \/ CallSucceeds /\ Insert /\ Goto(d, "message")
         \/ CallSucceeds /\ threads[BatchThread(d)] # NoRow /\ UNCHANGED threads /\ Goto(d, "error")
         \/ Errs /\ (Insert \/ UNCHANGED threads) /\ Goto(d, "error")
  /\ UNCHANGED <<hidx, acked, messages, taskVars, ctx>>

\* Variant with a fault: the error of CreateMessage is ignored.
RecordMessageUnchecked(d) ==
  /\ hpc[d] = "message"
  /\ \/ CallSucceeds /\ CreateMessage("user", Current(d))
     \/ Errs /\ (CreateMessage("user", Current(d)) \/ UNCHANGED messages)
  /\ Goto(d, "task")
  /\ UNCHANGED <<hidx, acked, threads, taskVars, ctx>>

\* Second loop, first half: the event's user message.
RecordMessage(d) ==
  /\ hpc[d] = "message"
  /\ \/ CallSucceeds /\ CreateMessage("user", Current(d)) /\ Goto(d, "task")
     \/ Errs /\ (CreateMessage("user", Current(d)) \/ UNCHANGED messages) /\ Goto(d, "error")
  /\ UNCHANGED <<hidx, acked, threads, taskVars, ctx>>

\* Second loop, second half: the event's pending task.
RecordTask(d) ==
  /\ hpc[d] = "task"
  /\ \/ /\ CallSucceeds /\ CreateTask(Current(d))
        /\ IF Last(d) THEN Goto(d, "done") /\ UNCHANGED hidx
                      ELSE GotoNext(d, hidx[d] + 1, "message")
     \/ /\ Errs /\ (CreateTask(Current(d)) \/ UNCHANGED taskVars)
        /\ Goto(d, "error") /\ UNCHANGED hidx
  /\ UNCHANGED <<acked, threads, messages, ctx>>

HandlerStep(d) ==
  \/ HandleEvent(d) \/ Acknowledge(d) \/ LookupThread(d)
  \/ NewThread(d) \/ RecordMessage(d) \/ RecordTask(d)

RouterSpec ==
  /\ StoreInit /\ RouterInit
  /\ [][\E d \in Delivery : HandlerStep(d)]_<<storeVars, routerVars>>

-----------------------------------------------------------------------------
\* A task can be claimed only once the whole batch it came in has been
\* acknowledged: HandleEvent's first loop ends before its second one starts.
AckedBeforeClaimable ==
  \A d \in Delivery : \A i, j \in DOMAIN EventsOf[d] :
    status[EventsOf[d][i]] # "none" => EventsOf[d][j] \in acked

\* A task row never exists without its thread row and its user message, whatever
\* call of HandleEvent failed: the worker that claims it finds what it asks for.
TaskHasThreadAndMessage ==
  \A e \in Event : status[e] # "none" => threads[ThreadOf[e]] # NoRow /\ <<"user", e>> \in messages

\* HandleEvent "ensures a thread exists, records user messages, and creates
\* pending tasks": when it has returned, every event of a batch that it did not
\* refuse for mixing threads has its task.
AcceptedEventsHaveTasks ==
  \A d \in Delivery : \A i \in DOMAIN EventsOf[d] :
    hpc[d] \in {"done", "error"} /\ ~Mixed(d) => status[EventsOf[d][i]] # "none"
=============================================================================
