-------------------------- MODULE LifecycleProofs --------------------------
(***************************************************************************)
(* Proofs on top of the invariant of CoworkerProofs: a task is claimable   *)
(* only after its batch is acknowledged, answers land where their events   *)
(* are, no task is left behind while nothing fails, and Coworker           *)
(* implements TaskLifecycle: through every store error, shutdown and crash *)
(* the system is an at-most-once task queue.                               *)
(***************************************************************************)
EXTENDS CoworkerProofs

-----------------------------------------------------------------------------
(* Acknowledgements *)

\* A step of HandleEvent moves one handler, and creates a task only in its last stage.
LEMMA HandlerMoves ==
  ASSUME Inv, NEW d \in Delivery, HandlerStep(d)
  PROVE  /\ acked \subseteq acked'
         /\ \A c \in Delivery : c # d => hpc'[c] = hpc[c] /\ hidx'[c] = hidx[c]
         /\ \/ status' = status
            \/ /\ hpc[d] = "task" /\ hidx[d] \in DOMAIN EventsOf[d]
               /\ \A e \in Event : e # Current(d) => status'[e] = status[e]
<1> USE DEF Goto, GotoNext, CallSucceeds, storeVars, taskVars
<1>1. hpc \in [Delivery -> HandlerStates] /\ hidx \in [Delivery -> Nat] /\ status \in [Event -> Status]
  BY DEF Inv, TypeOK, RouterTypeOK, StoreTypeOK
<1>2. hpc[d] = "task" => hidx[d] \in DOMAIN EventsOf[d]
  BY DEF Inv, HandlerInv, HandlerOK
<1>3. CASE HandleEvent(d)
  BY <1>1, <1>3 DEF HandleEvent
<1>4. CASE Acknowledge(d)
  BY <1>1, <1>4 DEF Acknowledge
<1>5. CASE LookupThread(d)
  BY <1>1, <1>5 DEF LookupThread
<1>6. CASE NewThread(d)
  BY <1>1, <1>6 DEF NewThread
<1>7. CASE RecordMessage(d)
  BY <1>1, <1>7 DEF RecordMessage
<1>8. CASE RecordTask(d)
  BY <1>1, <1>2, <1>8 DEF RecordTask, CreateTask
<1> QED BY <1>3, <1>4, <1>5, <1>6, <1>7, <1>8 DEF HandlerStep

\* A step of HandleEvent keeps what is known of its acknowledgements.
LEMMA HandlerKeepsAck ==
  ASSUME Inv, AckInv, NEW d \in Delivery, HandlerStep(d) PROVE AckInv'
<1> USE DEF Goto, GotoNext, CallSucceeds, storeVars, taskVars
<1>1. /\ hpc \in [Delivery -> HandlerStates] /\ hidx \in [Delivery -> Nat]
      /\ status \in [Event -> Status]
  BY DEF Inv, TypeOK, RouterTypeOK, StoreTypeOK
<1>2. HandlerOK(d)
  BY DEF Inv, HandlerInv
<1>3. /\ acked \subseteq acked'
      /\ \A c \in Delivery : c # d => hpc'[c] = hpc[c] /\ hidx'[c] = hidx[c]
      /\ \/ status' = status
         \/ /\ hpc[d] = "task" /\ hidx[d] \in DOMAIN EventsOf[d]
            /\ \A e \in Event : e # Current(d) => status'[e] = status[e]
  BY HandlerMoves
<1>4. ASSUME NEW c \in Delivery, c # d PROVE AckOK(c)'
  <2>1. AckOK(c)
    BY DEF AckInv
  <2>2. \A i \in DOMAIN EventsOf[c] : status'[EventsOf[c][i]] = status[EventsOf[c][i]]
    BY <1>3, <1>4, DeliveredOnce DEF Current
  <2> QED BY <1>3, <1>4, <2>1, <2>2 DEF AckOK
<1> SUFFICES AckOK(d)'
  BY <1>4 DEF AckInv
<1>5. AckOK(d)
  BY DEF AckInv
<1> DEFINE All == \A i \in DOMAIN EventsOf[d] : EventsOf[d][i] \in acked'
<1>6. CASE HandleEvent(d)
  BY <1>1, <1>2, <1>5, <1>6, DeliveredOnce DEF HandleEvent, AckOK, HandlerOK
<1>7. CASE Acknowledge(d)
  <2>1. hpc[d] = "ack" /\ hidx[d] \in DOMAIN EventsOf[d]
        /\ \A i \in DOMAIN EventsOf[d] : status[EventsOf[d][i]] = "none" /\ i \in Nat
    BY <1>2, <1>7, DeliveredOnce DEF Acknowledge, HandlerOK
  <2>2. \A i \in DOMAIN EventsOf[d] : i <= hidx[d] => EventsOf[d][i] \in acked'
    BY <1>1, <1>5, <1>7, <2>1 DEF Acknowledge, AckOK, Current
  <2>3. Last(d) => All
    BY <2>2, DeliveredOnce DEF Last
  <2>4. CASE Last(d)
    BY <1>1, <1>7, <2>3, <2>4 DEF Acknowledge, AckOK
  <2>5. CASE ~Last(d)
    BY <1>1, <1>7, <2>1, <2>2, <2>5 DEF Acknowledge, AckOK
  <2> QED BY <2>4, <2>5
<1>8. CASE LookupThread(d) \/ NewThread(d) \/ RecordMessage(d) \/ RecordTask(d)
  <2>1. hpc[d] \in {"lookup", "create", "message", "task"}
    BY <1>8 DEF LookupThread, NewThread, RecordMessage, RecordTask
  <2>2. All
    BY <1>3, <1>5, <2>1 DEF AckOK
  <2>3. hpc'[d] # "ack"
    BY <1>1, <1>8 DEF LookupThread, NewThread, RecordMessage, RecordTask
  <2> QED BY <2>2, <2>3 DEF AckOK
<1> QED BY <1>6, <1>7, <1>8 DEF HandlerStep

\* A worker creates no task and acknowledges nothing.
LEMMA WorkerCreatesNone ==
  ASSUME Inv, NEW w \in Worker, WorkerStep(w)
  PROVE  \A e \in Event : status'[e] = "none" <=> status[e] = "none"
<1>1. StepOK(w)
  BY WorkerStepOK
<1> QED BY <1>1, InvWorkerFacts DEF StepOK, RowsOK, Free, WorkerFacts

\* Acknowledgements are kept by what leaves the handlers alone or ends them.
LEMMA AckFrame ==
  ASSUME AckInv, acked' = acked, hidx' = hidx,
         \A d \in Delivery : hpc'[d] = hpc[d] \/ hpc'[d] = "lost",
         \A e \in Event : status'[e] = "none" <=> status[e] = "none"
  PROVE  AckInv'
<1> SUFFICES ASSUME NEW d \in Delivery PROVE AckOK(d)'
  BY DEF AckInv
<1>1. AckOK(d) /\ \A i \in DOMAIN EventsOf[d] : EventsOf[d][i] \in Event
  BY DeliveredOnce DEF AckInv
<1> QED BY <1>1 DEF AckOK

\* A task can be claimed only after the whole batch it came in was acknowledged,
\* whatever fails and whenever the process ends.
THEOREM BatchesAreAcknowledged == Spec => []AckedBeforeClaimable
<1>1. Init => AckInv
  BY DeliveredOnce DEF Init, RouterInit, StoreInit, AckInv, AckOK
<1>2. ASSUME Inv, AckInv, [Next]_vars PROVE AckInv'
  <2>1. ASSUME NEW d \in Delivery, Deliver(d) PROVE AckInv'
    BY <1>2, <2>1, HandlerKeepsAck DEF Deliver
  <2>2. ASSUME NEW w \in Worker, Work(w) PROVE AckInv'
    BY <1>2, <2>2, WorkerCreatesNone, AckFrame DEF Work, routerVars
  <2>3. CASE Shutdown
    BY <1>2, <2>3, AckFrame DEF Shutdown, routerVars, taskVars
  <2>4. CASE Restart \/ Crash
    BY <1>2, <2>4, AckFrame DEF Restart, Crash, NewProcess, taskVars
  <2>5. CASE UNCHANGED vars
    BY <1>2, <2>5, AckFrame DEF vars, storeVars, routerVars
  <2> QED BY <1>2, <2>1, <2>2, <2>3, <2>4, <2>5 DEF Next
<1>3. AckInv => AckedBeforeClaimable
  BY DEF AckInv, AckOK, AckedBeforeClaimable
<1> QED BY <1>1, <1>2, <1>3, Invariance, PTL DEF Spec

-----------------------------------------------------------------------------
(* Nothing is left behind *)

\* What a step of w leaves in progress is w's, or was in progress and not w's before.
SettlesOwn(w) ==
  \A e \in Event : status'[e] = "in_progress" =>
    e \in Held(w)' \/ (status[e] = "in_progress" /\ e \notin Held(w))

\* A worker's step in a live process, with no store error, settles what it lets go of.
LEMMA WorkerSettles ==
  ASSUME Inv, NEW w \in Worker, WorkerStep(w), ctx = "live", faults' = faults
  PROVE  SettlesOwn(w)
<1> USE InvWorkerFacts
    DEF SettlesOwn, WorkerFacts, Shaped, Held, Become, ToLoop, storeVars, local, taskVars, UpdateTask,
        UpdateTaskErrs, SetInProgress, Processing, Owing, AfterRun, Busy, WorkerStates, Succeeds
<1>1. faults \in Nat
  BY DEF Inv, TypeOK, StoreTypeOK
<1>2. ~Errs
  BY <1>1 DEF Errs
<1>3. CASE Stop(w)
  BY <1>3 DEF Stop
<1>4. CASE ClaimBegin(w)
  BY <1>4 DEF ClaimBegin
<1>5. ASSUME NEW e \in Event, ClaimScan(w, e) PROVE SettlesOwn(w)
  BY <1>5 DEF ClaimScan
<1>6. CASE ClaimNone(w)
  BY <1>6 DEF ClaimNone
<1>7. CASE ClaimCommit(w)
  BY <1>2, <1>7 DEF ClaimCommit
<1>8. CASE Load(w)
  BY <1>8 DEF Load
<1>9. CASE Classify(w)
  BY <1>9 DEF Classify
<1>10. CASE AbsorbBegin(w)
  BY <1>10 DEF AbsorbBegin
<1>11. CASE Absorb(w)
  BY <1>2, <1>11 DEF Absorb, Absorbable
<1>12. ASSUME NEW e \in Event, Release(w, e) PROVE SettlesOwn(w)
  BY <1>2, <1>12 DEF Release
<1>13. CASE ReleaseDone(w)
  BY <1>13 DEF ReleaseDone
<1>14. CASE Execute(w)
  BY <1>14 DEF Execute
<1>15. CASE Complete(w)
  BY <1>2, <1>15 DEF Complete
<1>16. CASE StoreMessage(w)
  BY <1>16 DEF StoreMessage
<1>17. CASE Send(w)
  BY <1>17 DEF Send
<1>18. ASSUME NEW e \in Event, CompleteAbsorbed(w, e) PROVE SettlesOwn(w)
  BY <1>2, <1>18 DEF CompleteAbsorbed
<1>19. CASE FailTask(w)
  <2>1. pc[w] = "fail" /\ status' = [status EXCEPT ![task[w]] = "failed"]
    BY <1>2, <1>19 DEF FailTask
  <2>2. task[w] \in Event /\ Held(w) \subseteq {task[w]}
    BY <2>1
  <2>3. \A e \in Event : e # task[w] => status'[e] = status[e] /\ e \notin Held(w)
    BY <2>1, <2>2
  <2>4. status'[task[w]] = "failed"
    BY <2>1, <2>2
  <2> QED BY <2>3, <2>4, Zenon DEF SettlesOwn
<1>20. CASE FailExecuted(w)
  BY <1>2, <1>20 DEF FailExecuted
<1>21. CASE Apologise(w)
  BY <1>21 DEF Apologise
<1>22. ASSUME NEW e \in Event, FailAbsorbed(w, e) PROVE SettlesOwn(w)
  BY <1>2, <1>22 DEF FailAbsorbed
<1>23. CASE FailAbsorbedDone(w)
  BY <1>23 DEF FailAbsorbedDone
<1> QED BY <1>3, <1>4, <1>5, <1>6, <1>7, <1>8, <1>9, <1>10, <1>11, <1>12, <1>13, <1>14, <1>15,
           <1>16, <1>17, <1>18, <1>19, <1>20, <1>21, <1>22, <1>23 DEF WorkerStep

\* No call takes back a fault, and none but the process itself ends the context.
LEMMA FaultsGrow ==
  ASSUME Inv, Next, faults' = 0, restarts' = 0, crashes' = 0, ctx' = "live"
  PROVE  faults = 0 /\ restarts = 0 /\ crashes = 0 /\ ctx = "live"
         /\ ((\E d \in Delivery : Deliver(d)) \/ (\E w \in Worker : Work(w)))
<1>1. faults \in Nat /\ restarts \in Nat /\ crashes \in Nat
  BY DEF Inv, TypeOK, StoreTypeOK
<1>2. ~Shutdown /\ ~Restart /\ ~Crash
  BY <1>1 DEF Shutdown, Restart, Crash
<1>3. ASSUME NEW d \in Delivery, Deliver(d)
      PROVE  faults = 0 /\ restarts = 0 /\ crashes = 0 /\ ctx = "live"
  <2>1. ctx' = ctx /\ (faults' = faults \/ faults' = faults + 1)
    BY <1>3 DEF Deliver, HandlerStep, HandleEvent, Acknowledge, LookupThread, NewThread, RecordMessage,
       RecordTask, CallSucceeds, Errs, storeVars
  <2> QED BY <1>1, <1>3, <2>1 DEF Deliver
<1>4. ASSUME NEW w \in Worker, Work(w)
      PROVE  faults = 0 /\ restarts = 0 /\ crashes = 0 /\ ctx = "live"
  <2>1. ctx' = ctx /\ (faults' = faults \/ faults' = faults + 1)
    BY <1>4 DEF Work, WorkerStep, Stop, ClaimBegin, ClaimScan, ClaimNone, ClaimCommit, Load, Classify,
       AbsorbBegin, Absorb, Release, ReleaseDone, Execute, Complete, StoreMessage, Send,
       CompleteAbsorbed, FailTask, FailExecuted, Apologise, FailAbsorbed, FailAbsorbedDone,
       Succeeds, Errs, UpdateTaskErrs, storeVars
  <2> QED BY <1>1, <1>4, <2>1 DEF Work
<1> QED BY <1>2, <1>3, <1>4 DEF Next

\* A handler puts no task in progress.
LEMMA StatusOfHandler ==
  ASSUME Inv, NEW d \in Delivery, HandlerStep(d), NEW e \in Event, status'[e] = "in_progress"
  PROVE  status[e] = "in_progress"
<1>1. status \in [Event -> Status]
  BY DEF Inv, TypeOK, StoreTypeOK
<1> QED BY <1>1 DEF HandlerStep, HandleEvent, Acknowledge, LookupThread, NewThread, RecordMessage,
           RecordTask, CreateTask, storeVars, taskVars

\* In a process that had no store error and was not told to stop, every task in
\* progress is some worker's: absorption, release and settling lose none.
THEOREM NothingIsLeftBehind == Spec => []NoOrphan
<1>1. Init => NoOrphan
  BY DEF Init, StoreInit, NoOrphan
<1>2. ASSUME Inv, NoOrphan, [Next]_vars PROVE NoOrphan'
  <2>1. CASE UNCHANGED vars
    BY <1>2, <2>1 DEF NoOrphan, Held, vars, storeVars, poolVars
  <2>2. CASE Next
    <3> SUFFICES ASSUME faults' = 0, restarts' = 0, crashes' = 0, ctx' = "live",
                        NEW e \in Event, status'[e] = "in_progress"
                 PROVE  \E w \in Worker : e \in Held(w)'
      BY DEF NoOrphan
    <3>1. /\ faults = 0 /\ ctx = "live"
          /\ (\E d \in Delivery : Deliver(d)) \/ (\E w \in Worker : Work(w))
          /\ \A f \in Event : status[f] = "in_progress" => \E w \in Worker : f \in Held(w)
      BY <1>2, <2>2, FaultsGrow DEF NoOrphan
    <3>2. ASSUME NEW d \in Delivery, Deliver(d) PROVE \E w \in Worker : e \in Held(w)'
      <4>1. status[e] = "in_progress"
        BY <1>2, <3>2, StatusOfHandler DEF Deliver
      <4>2. \A w \in Worker : Held(w)' = Held(w)
        BY <3>2 DEF Deliver, poolVars, Held
      <4> QED BY <3>1, <4>1, <4>2
    <3>3. ASSUME NEW w \in Worker, Work(w) PROVE \E v \in Worker : e \in Held(v)'
      <4>1. SettlesOwn(w) /\ Others(w)
        BY <1>2, <3>1, <3>3, WorkerSettles, WorkerStepOK DEF Work, StepOK
      <4>2. \A v \in Worker : v # w => Held(v)' = Held(v)
        BY <4>1 DEF Others, Held
      <4> QED BY <3>1, <4>1, <4>2 DEF SettlesOwn
    <3> QED BY <3>1, <3>2, <3>3
  <2> QED BY <1>2, <2>1, <2>2
<1> QED BY <1>1, <1>2, Invariance, PTL DEF Spec

-----------------------------------------------------------------------------
(* Answers *)

\* routeResponse leaves the shared Properties fit for the thread of the task.
LEMMA EnrichFits ==
  ASSUME NEW r \in Ref, NEW e \in Event, RefFits(r, ThreadOf[e])
  PROVE  RefFits(Enrich(r, e), ThreadOf[e])
  BY DEF RefFits, Enrich

\* From Properties that fit, the answer to e goes to e if it is an inline comment, and
\* to the thread otherwise.
LEMMA EnrichedPlace ==
  ASSUME NEW r \in Ref, NEW e \in Event, RefFits(r, ThreadOf[e])
  PROVE  PlaceOf(Enrich(r, e)) = (IF KindOf[e] = "review_comment" THEN e ELSE "thread")
<1>1. CASE KindOf[e] = "review_comment"
  BY <1>1, StoreAssumption DEF PlaceOf, Enrich
<1>2. CASE KindOf[e] = "mention"
  <2>1. r.type # "review_comment"
    BY <1>2, StoreAssumption DEF RefFits
  <2> QED BY <1>2, <2>1 DEF PlaceOf, Enrich
<1>3. CASE KindOf[e] \notin {"review_comment", "mention"}
  BY <1>3 DEF PlaceOf, Enrich
<1> QED BY <1>1, <1>2, <1>3

\* A step of HandleEvent that creates a thread gives it the reference of its own event.
LEMMA HandlerKeepsAnswers ==
  ASSUME Inv, AnswerInv, NEW d \in Delivery, Deliver(d) PROVE AnswerInv'
<1>1. UNCHANGED poolVars /\ HandlerStep(d)
  BY DEF Deliver
<1>2. AnswersReachTheirComment' /\ \A w \in Worker : WorkerRefOK(w)'
  BY <1>1 DEF AnswerInv, AnswersReachTheirComment, WorkerRefOK, poolVars
<1>3. CASE UNCHANGED threads
  BY <1>2, <1>3 DEF AnswerInv
<1>4. CASE ~UNCHANGED threads
  <2>1. NewThread(d) /\ CreateThread(BatchThread(d), RefOf(EventsOf[d][1]))
    BY <1>1, <1>4 DEF HandlerStep, HandleEvent, Acknowledge, LookupThread, NewThread, RecordMessage,
       RecordTask, storeVars
  <2>2. EventsOf[d][1] \in Event
    BY <2>1, DeliveredOnce DEF NewThread, Inv, HandlerInv, HandlerOK
  <2>3. RefFits(RefOf(EventsOf[d][1]), BatchThread(d))
    BY <2>2 DEF RefFits, RefOf, BatchThread
  <2>4. threads \in [Thread -> Ref \cup {NoRow}]
    BY DEF Inv, TypeOK, StoreTypeOK
  <2>5. \A t \in Thread : threads'[t] = threads[t] \/ (t = BatchThread(d) /\ threads'[t] = RefOf(EventsOf[d][1]))
    BY <2>1, <2>4 DEF CreateThread
  <2> QED BY <1>2, <2>3, <2>5 DEF AnswerInv
<1> QED BY <1>3, <1>4

\* What a step of a worker does to the references.
WorkerRefs(w) ==
  /\ \A v \in Worker : v # w => ref'[v] = ref[v] /\ snap'[v] = snap[v]
  /\ WorkerRefOK(w)'
  /\ \A e \in Event : \A p \in posted'[e] :
       \/ p \in posted[e] \/ p.what = "apology"
       \/ e = task[w] /\ p.at = PlaceOf(Enrich(ref[w], e)) /\ RefFits(ref[w], ThreadOf[e])

\* Every step of a worker keeps its references those of its thread.
LEMMA WorkerKeepsRefs ==
  ASSUME Inv, AnswerInv, NEW w \in Worker, WorkerStep(w) PROVE WorkerRefs(w)
<1>1. /\ ref \in [Worker -> Ref] /\ snap \in [Worker -> SUBSET Event]
      /\ threads \in [Thread -> Ref \cup {NoRow}]
  BY DEF Inv, TypeOK, StoreTypeOK, PoolTypeOK
<1>2. WorkerRefOK(w) /\ \A t \in Thread : threads[t] # NoRow => RefFits(threads[t], t)
  BY DEF AnswerInv
<1>3. WorkerFacts(w)
  BY InvWorkerFacts
<1> USE <1>1, <1>2, <1>3
    DEF WorkerRefs, WorkerRefOK, WorkerFacts, Shaped, Become, ToLoop, storeVars, local,
        AfterRun, Busy, WorkerStates, Posting
<1>4. CASE Stop(w)
  BY <1>4 DEF Stop
<1>5. CASE ClaimBegin(w)
  BY <1>5 DEF ClaimBegin
<1>6. ASSUME NEW e \in Event, ClaimScan(w, e) PROVE WorkerRefs(w)
  BY <1>6 DEF ClaimScan
<1>7. CASE ClaimNone(w)
  BY <1>7 DEF ClaimNone
<1>8. CASE ClaimCommit(w)
  BY <1>8 DEF ClaimCommit
<1>9. CASE Load(w)
  <2>1. task[w] \in Event /\ status[task[w]] = "in_progress"
    BY <1>9 DEF Load, Held, Processing
  <2>2. ThreadOf[task[w]] \in Thread /\ threads[ThreadOf[task[w]]] # NoRow
    BY <2>1, StoreAssumption DEF Inv, TaskHasThreadAndMessage
  <2> QED BY <1>9, <2>2 DEF Load
<1>10. CASE Classify(w)
  BY <1>10 DEF Classify
<1>11. CASE AbsorbBegin(w)
  BY <1>11 DEF AbsorbBegin, PendingOn
<1>12. CASE Absorb(w)
  BY <1>12 DEF Absorb, Absorbable
<1>13. ASSUME NEW e \in Event, Release(w, e) PROVE WorkerRefs(w)
  BY <1>13 DEF Release
<1>14. CASE ReleaseDone(w)
  BY <1>14 DEF ReleaseDone
<1>15. CASE Execute(w)
  BY <1>15 DEF Execute
<1>16. CASE Complete(w)
  BY <1>16 DEF Complete
<1>17. CASE StoreMessage(w)
  BY <1>17 DEF StoreMessage
<1>18. CASE Send(w)
  <2>1. task[w] \in Event /\ RefFits(ref[w], ThreadOf[task[w]]) /\ ref[w] \in Ref
    BY <1>18 DEF Send
  <2>2. RefFits(Enrich(ref[w], task[w]), ThreadOf[task[w]])
    BY <2>1, EnrichFits
  <2> QED BY <1>18, <2>1, <2>2 DEF Send
<1>19. ASSUME NEW e \in Event, CompleteAbsorbed(w, e) PROVE WorkerRefs(w)
  BY <1>19 DEF CompleteAbsorbed
<1>20. CASE FailTask(w)
  BY <1>20 DEF FailTask
<1>21. CASE FailExecuted(w)
  BY <1>21 DEF FailExecuted
<1>22. CASE Apologise(w)
  BY <1>22 DEF Apologise
<1>23. ASSUME NEW e \in Event, FailAbsorbed(w, e) PROVE WorkerRefs(w)
  BY <1>23 DEF FailAbsorbed
<1>24. CASE FailAbsorbedDone(w)
  BY <1>24 DEF FailAbsorbedDone
<1> QED BY <1>4, <1>5, <1>6, <1>7, <1>8, <1>9, <1>10, <1>11, <1>12, <1>13, <1>14, <1>15, <1>16,
           <1>17, <1>18, <1>19, <1>20, <1>21, <1>22, <1>23, <1>24 DEF WorkerStep

\* An answer lands under its inline comment, or at the thread for any other event,
\* whichever event created the thread and whatever else the worker has answered
\* through the shared Properties before.
THEOREM AnswersAreInPlace == Spec => []AnswersReachTheirComment
<1>1. Init => AnswerInv
  BY DEF Init, StoreInit, PoolInit, Fresh, AnswerInv, WorkerRefOK, AnswersReachTheirComment, Busy
<1>2. ASSUME Inv, AnswerInv, [Next]_vars PROVE AnswerInv'
  <2>1. ASSUME NEW d \in Delivery, Deliver(d) PROVE AnswerInv'
    BY <1>2, <2>1, HandlerKeepsAnswers
  <2>2. ASSUME NEW w \in Worker, Work(w) PROVE AnswerInv'
    <3>1. WorkerStep(w) /\ WorkerRefs(w) /\ Others(w)
      BY <1>2, <2>2, WorkerKeepsRefs, WorkerStepOK DEF Work, StepOK
    <3>2. UNCHANGED threads
      BY <3>1 DEF WorkerStep, Stop, ClaimBegin, ClaimScan, ClaimNone, ClaimCommit, Load, Classify,
         AbsorbBegin, Absorb, Release, ReleaseDone, Execute, Complete, StoreMessage, Send,
         CompleteAbsorbed, FailTask, FailExecuted, Apologise, FailAbsorbed, FailAbsorbedDone, storeVars
    <3>3. \A v \in Worker : WorkerRefOK(v)'
      BY <1>2, <3>1 DEF WorkerRefs, AnswerInv, WorkerRefOK, Others
    <3>4. ref[w] \in Ref
      BY <1>2 DEF Inv, TypeOK, PoolTypeOK
    <3>5. AnswersReachTheirComment'
      BY <1>2, <3>1, <3>4, EnrichedPlace DEF WorkerRefs, AnswerInv, AnswersReachTheirComment
    <3> QED BY <1>2, <3>2, <3>3, <3>5 DEF AnswerInv
  <2>3. CASE Shutdown
    BY <1>2, <2>3 DEF Shutdown, poolVars, AnswerInv, WorkerRefOK, AnswersReachTheirComment
  <2>4. CASE Restart \/ Crash
    BY <1>2, <2>4 DEF Restart, Crash, NewProcess, AnswerInv, WorkerRefOK, AnswersReachTheirComment, Busy
  <2>5. CASE UNCHANGED vars
    BY <1>2, <2>5 DEF vars, storeVars, poolVars, AnswerInv, WorkerRefOK, AnswersReachTheirComment
  <2> QED BY <1>2, <2>1, <2>2, <2>3, <2>4, <2>5 DEF Next
<1>3. AnswerInv => AnswersReachTheirComment
  BY DEF AnswerInv
<1> QED BY <1>1, <1>2, <1>3, Invariance, PTL DEF Spec

-----------------------------------------------------------------------------
(* Refinement *)

\* The refinement mapping.
H == [v \in Worker |-> Held(v)]
R == {e \in Event : posted[e] # {}}

\* The step changes what w holds, and what no other worker holds.
LEMMA HeldChange ==
  ASSUME NEW w \in Worker, Others(w)
  PROVE  H' = [H EXCEPT ![w] = Held(w)']
<1>1. \A v \in Worker : v # w => Held(v)' = Held(v)
  BY DEF Others, Held
<1> QED BY <1>1 DEF H

\* A step that changes nothing the mapping looks at.
LEMMA Quiet ==
  ASSUME NEW w \in Worker, Others(w), Held(w)' = Held(w), status' = status,
         executed' = executed, posted' = posted
  PROVE  UNCHANGED Lifecycle!lifecycleVars
<1>1. H' = H
  BY HeldChange DEF H
<1> QED BY <1>1 DEF H, Lifecycle!lifecycleVars

\* A step in which w only stops holding tasks.
LEMMA Loses ==
  ASSUME NEW w \in Worker, Others(w), Held(w)' \subseteq Held(w), status' = status,
         executed' = executed, posted' = posted, Held(w) \subseteq Event
  PROVE  Lifecycle!Next
<1> DEFINE S == Held(w) \ Held(w)'
<1>1. S \in SUBSET Event /\ S \subseteq H[w] /\ Held(w)' = H[w] \ S
  BY DEF H
<1>2. H' = [H EXCEPT ![w] = H[w] \ S]
  BY <1>1, HeldChange
<1>3. Lifecycle!Lose(w, S)
  BY <1>1, <1>2 DEF Lifecycle!Lose, H
<1> QED BY <1>1, <1>3 DEF Lifecycle!Next

\* An UpdateTask to completed or failed by the holder is a Settle step.
LEMMA Settles ==
  ASSUME NEW w \in Worker, Others(w), NEW e \in Held(w), e \in Event, NEW o \in {"completed", "failed"},
         status[e] = "in_progress", o = "completed" => e \in executed,
         status' = [status EXCEPT ![e] = o], Held(w)' \subseteq Held(w) \ {e},
         executed' = executed, posted' = posted
  PROVE  Lifecycle!Next
<1>1. H' = [H EXCEPT ![w] = Held(w)'] /\ Held(w)' \in SUBSET (H[w] \ {e}) /\ e \in H[w]
  BY HeldChange DEF H
<1>2. Lifecycle!Settle(w, e, o)
  BY <1>1 DEF Lifecycle!Settle, H
<1> QED BY <1>2 DEF Lifecycle!Next

\* A claim of pending tasks that nobody holds is a Take step.
LEMMA Takes ==
  ASSUME NEW w \in Worker, Others(w), NEW S \in SUBSET Event,
         \A e \in S : status[e] = "pending" /\ \A v \in Worker : e \notin Held(v),
         status' = [e \in Event |-> IF e \in S THEN "in_progress" ELSE status[e]],
         executed' = executed, posted' = posted, Held(w)' \in {Held(w), Held(w) \cup S}
  PROVE  Lifecycle!Next
<1>1. H' = [H EXCEPT ![w] = Held(w)'] /\ \A e \in S : \A v \in Worker : e \notin H[v]
  BY HeldChange DEF H
<1>2. CASE Held(w)' = Held(w)
  <2>1. H' = H
    BY <1>1, <1>2 DEF H
  <2>2. Lifecycle!TakeUnknowingly(S)
    BY <2>1 DEF Lifecycle!TakeUnknowingly, Lifecycle!InProgress, H
  <2> QED BY <2>2 DEF Lifecycle!Next
<1>3. CASE Held(w)' = Held(w) \cup S
  <2>1. H' = [H EXCEPT ![w] = H[w] \cup S]
    BY <1>1, <1>3 DEF H
  <2>2. Lifecycle!Take(w, S)
    BY <1>1, <2>1 DEF Lifecycle!Take, Lifecycle!InProgress, H
  <2> QED BY <2>2 DEF Lifecycle!Next
<1> QED BY <1>2, <1>3

\* Something is posted for a task that has been executed and that nobody holds.
LEMMA Replies ==
  ASSUME Inv, NEW w \in Worker, Others(w), Held(w)' = Held(w), status' = status,
         executed' = executed, NEW e \in Event, e \in executed, posted[e] = {},
         \A v \in Worker : e \notin Held(v), NEW p,
         posted' = [posted EXCEPT ![e] = @ \cup {p}]
  PROVE  Lifecycle!Next
<1>1. H' = H /\ \A v \in Worker : e \notin H[v]
  BY HeldChange DEF H
<1>2. R' = R \cup {e} /\ e \notin R
  BY DEF Inv, TypeOK, PoolTypeOK, R
<1>3. Lifecycle!Reply(e)
  BY <1>1, <1>2 DEF Lifecycle!Reply, H, R
<1> QED BY <1>3 DEF Lifecycle!Next

-----------------------------------------------------------------------------
Simulated == Lifecycle!Next \/ UNCHANGED Lifecycle!lifecycleVars

\* Every step of a worker is a step of the task queue or a stutter.
LEMMA WorkerRefines ==
  ASSUME Inv, NEW w \in Worker, WorkerStep(w) PROVE Simulated
<1> USE DEF Simulated, Become, storeVars, local, taskVars
<1>a. Others(w)
  BY WorkerStepOK DEF StepOK
<1>b. WorkerFacts(w)
  BY InvWorkerFacts
<1>c. Held(w) \subseteq Event /\ \A v \in Worker : \A e \in Event : Free(w, e) => e \notin Held(v)
  BY <1>b DEF WorkerFacts, Mine, Inv, FreeInv, Free
<1>d. \A e \in Mine(w) : \A v \in Worker : v # w => e \notin Held(v)
  BY DEF Inv, DisjointInv, Mine
<1>1. CASE Stop(w) \/ ClaimBegin(w) \/ ReleaseDone(w) \/ AbsorbBegin(w) \/ Load(w) \/ StoreMessage(w)
  <2>1. /\ Held(w)' = Held(w) /\ UNCHANGED <<status, executed, posted>>
    BY <1>1, <1>b DEF Stop, ClaimBegin, ReleaseDone, AbsorbBegin, Load, StoreMessage, WorkerFacts,
       Held, Processing, Shaped
  <2> QED BY <2>1, <1>a, Quiet
<1>2. CASE ClaimNone(w) \/ FailAbsorbedDone(w)
  <2>1. Held(w) = {} /\ Held(w)' = {} /\ UNCHANGED <<status, executed, posted>>
    BY <1>2, <1>b DEF ClaimNone, FailAbsorbedDone, ToLoop, WorkerFacts, Held, Processing, Shaped, AfterRun
  <2> QED BY <2>1, <1>a, Quiet
<1>3. ASSUME NEW e \in Event, ClaimScan(w, e) PROVE Simulated
  <2>1. /\ Held(w)' = Held(w) /\ UNCHANGED <<status, executed, posted>>
    BY <1>3, <1>b DEF ClaimScan, WorkerFacts, Held, Processing
  <2> QED BY <2>1, <1>a, Quiet
<1>4. CASE ClaimCommit(w)
  <2>1. task[w] \in Event /\ Free(w, task[w]) /\ Held(w) = {}
    BY <1>4, <1>b DEF ClaimCommit, WorkerFacts, Busy, WorkerStates, Held, Processing, Shaped, AfterRun
  <2>2. Held(w)' \in {{}, {task[w]}} /\ UNCHANGED <<executed, posted>>
    BY <1>4, <1>b, <2>1 DEF ClaimCommit, ToLoop, WorkerFacts, Held, Processing
  <2>3. CASE SetInProgress({task[w]}, w)
    <3> DEFINE S == {task[w]}
    <3>1. S \in SUBSET Event /\ Held(w)' \in {Held(w), Held(w) \cup S}
      BY <2>1, <2>2
    <3>2. \A e \in S : status[e] = "pending" /\ \A v \in Worker : e \notin Held(v)
      BY <2>1, <1>c DEF Free
    <3>3. status' = [e \in Event |-> IF e \in S THEN "in_progress" ELSE status[e]]
      BY <2>3 DEF SetInProgress
    <3> HIDE DEF S
    <3> QED BY <2>2, <3>1, <3>2, <3>3, <1>a, Takes
  <2>4. CASE UNCHANGED taskVars
    <3>1. Held(w)' = {}
      BY <1>4, <1>b, <2>1, <2>4 DEF ClaimCommit, ToLoop, WorkerFacts, Held, Processing, SetInProgress, Free
    <3> QED BY <3>1, <2>1, <2>2, <2>4, <1>a, Quiet
  <2> QED BY <1>4, <2>3, <2>4 DEF ClaimCommit
<1>5. CASE Classify(w)
  <2>1. task[w] \in Held(w) /\ task[w] \in Event
    BY <1>5, <1>c DEF Classify, Held, Processing
  <2>2. status' = status
    BY <1>5, <1>b, <2>1 DEF Classify, UpdateTask, WorkerFacts
  <2>3. Held(w)' = Held(w) /\ UNCHANGED <<executed, posted>>
    BY <1>5, <1>b DEF Classify, WorkerFacts, Held, Processing
  <2> QED BY <2>2, <2>3, <1>a, Quiet
<1>6. CASE Absorb(w)
  <2>1. Absorbable(w) \in SUBSET Event /\ \A e \in Absorbable(w) : Free(w, e)
    BY <1>6, <1>b DEF Absorbable, Absorb, WorkerFacts, Free, RowLocked
  <2>2. Held(w) = {task[w]} /\ UNCHANGED <<executed, posted>>
    BY <1>6, <1>b DEF Absorb, WorkerFacts, Shaped, Held, Processing, AfterRun
  <2>3. Held(w)' \in {Held(w), Held(w) \cup Absorbable(w)}
    <3>1. CASE absorbed' = absorbed /\ releasing' = releasing
      BY <1>6, <1>b, <3>1 DEF Absorb, WorkerFacts, Held, Processing
    <3>2. CASE /\ absorbed' = [absorbed EXCEPT ![w] = {e \in Absorbable(w) : IsReview(e)}]
               /\ releasing' = [releasing EXCEPT ![w] = {e \in Absorbable(w) : ~IsReview(e)}]
      <4>1. Held(w)' = {task[w]} \cup {e \in Absorbable(w) : IsReview(e)}
                                 \cup {e \in Absorbable(w) : ~IsReview(e)}
        BY <1>6, <1>b, <3>2 DEF Absorb, WorkerFacts, Held, Processing
      <4> QED BY <4>1, <2>2
    <3> QED BY <1>6, <3>1, <3>2 DEF Absorb
  <2>4. CASE SetInProgress(Absorbable(w), w)
    <3> DEFINE S == Absorbable(w)
    <3>1. S \in SUBSET Event /\ Held(w)' \in {Held(w), Held(w) \cup S}
      BY <2>1, <2>2, <2>3
    <3>2. \A e \in S : status[e] = "pending" /\ \A v \in Worker : e \notin Held(v)
      BY <2>1, <1>c DEF Free
    <3>3. status' = [e \in Event |-> IF e \in S THEN "in_progress" ELSE status[e]]
      BY <2>4 DEF SetInProgress
    <3> HIDE DEF S
    <3> QED BY <2>2, <3>1, <3>2, <3>3, <1>a, Takes
  <2>5. CASE UNCHANGED taskVars
    <3>1. Held(w)' = Held(w) \/ Absorbable(w) = {}
      BY <1>6, <1>b, <2>1, <2>5 DEF Absorb, WorkerFacts, Held, Processing, SetInProgress, Free
    <3> QED BY <3>1, <2>2, <2>3, <2>5, <1>a, Quiet
  <2> QED BY <1>6, <2>4, <2>5 DEF Absorb
<1>7. ASSUME NEW e \in Event, Release(w, e) PROVE Simulated
  <2>1. /\ e \in Held(w) /\ status[e] = "in_progress" /\ e \notin executed
        /\ Held(w)' = Held(w) \ {e} /\ UNCHANGED <<executed, posted>>
    BY <1>7, <1>b DEF Release, WorkerFacts, Held, Mine, Shaped, Processing, AfterRun
  <2>2. CASE status' = status
    BY <2>1, <2>2, <1>a, <1>c, Loses
  <2>3. CASE status' = [status EXCEPT ![e] = "pending"]
    <3>1. H' = [H EXCEPT ![w] = H[w] \ {e}] /\ e \in H[w]
      BY <2>1, <1>a, HeldChange DEF H
    <3>2. Lifecycle!PutBack(w, e)
      BY <2>1, <2>3, <3>1 DEF Lifecycle!PutBack, H
    <3> QED BY <3>2 DEF Lifecycle!Next
  <2> QED BY <1>7, <2>2, <2>3 DEF Release, UpdateTask, UpdateTaskErrs
<1>8. CASE Execute(w)
  <2> DEFINE S == {task[w]} \cup absorbed[w]
  <2>1. /\ S \subseteq Held(w) /\ S \subseteq Event /\ S \cap executed = {} /\ Held(w)' = Held(w)
        /\ status' = status /\ posted' = posted /\ executed' = executed \cup S
    BY <1>8, <1>b, <1>c DEF Execute, WorkerFacts, Held, Mine, Shaped, Processing, AfterRun
  <2>2. H' = H
    BY <2>1, <1>a, HeldChange DEF H
  <2>3. Lifecycle!Run(w, S)
    BY <2>1, <2>2 DEF Lifecycle!Run, H
  <2> QED BY <2>1, <2>3 DEF Lifecycle!Next
<1>9. CASE Complete(w)
  <2>1. /\ task[w] \in Held(w) /\ task[w] \in Event /\ status[task[w]] = "in_progress"
        /\ task[w] \in executed /\ UNCHANGED <<executed, posted>>
        /\ Held(w)' \subseteq Held(w) \ {task[w]}
    BY <1>9, <1>b, <1>c DEF Complete, ToLoop, WorkerFacts, Held, Mine, Shaped, Processing, Owing, AfterRun
  <2>2. status' = status \/ status' = [status EXCEPT ![task[w]] = "completed"]
    BY <1>9 DEF Complete, UpdateTask, UpdateTaskErrs
  <2> QED BY <2>1, <2>2, <1>a, <1>c, Settles, Loses
<1>10. CASE FailTask(w) \/ FailExecuted(w)
  <2>1. /\ task[w] \in Held(w) /\ task[w] \in Event /\ status[task[w]] = "in_progress"
        /\ UNCHANGED <<executed, posted>> /\ Held(w)' \subseteq Held(w) \ {task[w]}
    BY <1>10, <1>b, <1>c DEF FailTask, FailExecuted, ToLoop, WorkerFacts, Held, Mine, Shaped, Processing,
       Owing, AfterRun
  <2>2. status' = status \/ status' = [status EXCEPT ![task[w]] = "failed"]
    BY <1>10 DEF FailTask, FailExecuted, UpdateTask, UpdateTaskErrs
  <2> QED BY <2>1, <2>2, <1>a, <1>c, Settles, Loses
<1>11. ASSUME NEW e \in Event, CompleteAbsorbed(w, e) PROVE Simulated
  <2>1. /\ e \in Held(w) /\ status[e] = "in_progress" /\ e \in executed
        /\ UNCHANGED <<executed, posted>> /\ Held(w)' \subseteq Held(w) \ {e}
    BY <1>11, <1>b DEF CompleteAbsorbed, WorkerFacts, Held, Mine, Shaped, Processing, Owing, AfterRun
  <2>2. status' = status \/ status' = [status EXCEPT ![e] = "completed"]
    BY <1>11 DEF CompleteAbsorbed, UpdateTask, UpdateTaskErrs
  <2> QED BY <2>1, <2>2, <1>a, <1>c, Settles, Loses
<1>12. ASSUME NEW e \in Event, FailAbsorbed(w, e) PROVE Simulated
  <2>1. /\ e \in Held(w) /\ status[e] = "in_progress"
        /\ UNCHANGED <<executed, posted>> /\ Held(w)' \subseteq Held(w) \ {e}
    BY <1>12, <1>b DEF FailAbsorbed, WorkerFacts, Held, Mine, Shaped, Processing, Owing, AfterRun
  <2>2. status' = status \/ status' = [status EXCEPT ![e] = "failed"]
    BY <1>12 DEF FailAbsorbed, UpdateTask, UpdateTaskErrs
  <2> QED BY <2>1, <2>2, <1>a, <1>c, Settles, Loses
<1>13. CASE Send(w) \/ Apologise(w)
  <2>1. /\ task[w] \in Event /\ task[w] \in executed /\ posted[task[w]] = {}
        /\ status' = status /\ executed' = executed /\ Held(w)' = Held(w) /\ task[w] \notin Held(w)
    BY <1>13, <1>b DEF Send, Apologise, ToLoop, WorkerFacts, Held, Mine, Shaped, Processing, Owing, AfterRun
  <2>2. \A v \in Worker : task[w] \notin Held(v)
    BY <1>13, <1>d, <2>1 DEF Send, Apologise, Mine, Owing
  <2>3. posted' = posted \/ \E p : posted' = [posted EXCEPT ![task[w]] = @ \cup {p}]
    BY <1>13 DEF Send, Apologise, Posting
  <2> QED BY <2>1, <2>2, <2>3, <1>a, Quiet, Replies
<1> QED
  BY <1>1, <1>2, <1>3, <1>4, <1>5, <1>6, <1>7, <1>8, <1>9, <1>10, <1>11, <1>12, <1>13 DEF WorkerStep

\* Every step of HandleEvent is an Enqueue step or a stutter.
LEMMA HandlerRefines ==
  ASSUME Inv, NEW d \in Delivery, Deliver(d) PROVE Simulated
<1> USE DEF Simulated, storeVars, taskVars
<1>1. HandlerStep(d) /\ UNCHANGED poolVars
  BY DEF Deliver
<1>2. H' = H /\ UNCHANGED <<executed, posted>>
  BY <1>1 DEF H, Held, poolVars
<1>3. CASE status' = status
  BY <1>2, <1>3 DEF H, Lifecycle!lifecycleVars
<1>4. CASE RecordTask(d) /\ CreateTask(Current(d))
  <2>1. HandlerOK(d) /\ hidx[d] \in Nat
    BY DEF Inv, HandlerInv, TypeOK, RouterTypeOK
  <2>2. hidx[d] \in DOMAIN EventsOf[d] /\ status[EventsOf[d][hidx[d]]] = "none"
    BY <1>4, <2>1 DEF RecordTask, HandlerOK
  <2>3. Current(d) \in Event /\ status[Current(d)] = "none"
    BY <2>2, DeliveredOnce DEF Current
  <2>4. Lifecycle!Enqueue(Current(d))
    BY <1>2, <1>4, <2>3 DEF CreateTask, Lifecycle!Enqueue, H
  <2> QED BY <2>3, <2>4 DEF Lifecycle!Next
<1> QED
  BY <1>1, <1>3, <1>4 DEF HandlerStep, HandleEvent, Acknowledge, LookupThread, NewThread,
     RecordMessage, RecordTask

\* The detailed specification implements the at-most-once task queue.
THEOREM Refinement == Spec => ImplementsLifecycle
<1>1. Init => Lifecycle!Init
  <2> SUFFICES ASSUME Init PROVE Lifecycle!Init
    OBVIOUS
  <2>1. \A w \in Worker : Held(w) = {}
    BY DEF Init, PoolInit, Fresh, Held, Processing
  <2> QED BY <2>1 DEF Init, StoreInit, PoolInit, Lifecycle!Init
<1>2. ASSUME Inv, [Next]_vars PROVE [Lifecycle!Next]_(Lifecycle!lifecycleVars)
  <2>1. ASSUME NEW d \in Delivery, Deliver(d) PROVE Simulated
    BY <1>2, <2>1, HandlerRefines
  <2>2. ASSUME NEW w \in Worker, Work(w) PROVE Simulated
    BY <1>2, <2>2, WorkerRefines DEF Work
  <2>3. ASSUME Shutdown \/ UNCHANGED vars PROVE Simulated
    <3>1. UNCHANGED <<pc, task, absorbed, releasing, status, executed, posted>>
      BY <2>3 DEF Shutdown, vars, storeVars, taskVars, poolVars
    <3>2. H' = H
      BY <3>1 DEF H, Held
    <3> QED BY <3>1, <3>2 DEF Simulated, Lifecycle!lifecycleVars, H
  <2>4. ASSUME Restart \/ Crash PROVE Simulated
    <3>1. NewProcess
      BY <2>4 DEF Restart, Crash
    <3>2. H' = [w \in Worker |-> {}]
      BY <3>1 DEF NewProcess, H, Held, Processing
    <3>3. Lifecycle!LoseAll
      BY <3>1, <3>2 DEF NewProcess, taskVars, Lifecycle!LoseAll, H
    <3> QED BY <3>3 DEF Simulated, Lifecycle!Next
  <2>5. Simulated
    BY <1>2, <2>1, <2>2, <2>3, <2>4 DEF Next
  <2> QED BY <2>5 DEF Simulated
<1> QED BY <1>1, <1>2, Invariance, PTL DEF Spec, ImplementsLifecycle, Lifecycle!Spec
=============================================================================
