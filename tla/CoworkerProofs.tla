--------------------------- MODULE CoworkerProofs ---------------------------
(***************************************************************************)
(* Proofs that the safety properties of Coworker hold for every set of     *)
(* events, threads, workers and deliveries, every number of store errors,  *)
(* restarts and crashes.                                                   *)
(***************************************************************************)
EXTENDS CoworkerInvariant, TLAPS

-----------------------------------------------------------------------------
(* Types *)

TaskTypes ==
  /\ status \in [Event -> Status]
  /\ owner \in [Event -> Worker \cup {NoWorker}]
  /\ created \in [Event -> Nat]
  /\ clock \in Nat

\* The per-worker variables that ToLoop resets.
LocalTypes ==
  /\ pc \in [Worker -> WorkerStates]
  /\ snap \in [Worker -> SUBSET Event]
  /\ locks \in [Worker -> SUBSET {LockKey[t] : t \in Thread}]
  /\ task \in [Worker -> Event \cup {NoEvent}]
  /\ absorbed \in [Worker -> SUBSET Event]
  /\ releasing \in [Worker -> SUBSET Event]
  /\ hist \in [Worker -> SUBSET (Role \X Event)]
  /\ ref \in [Worker -> Ref]

\* The bare reference is a reference.
LEMMA NoRefIsRef == NoRef \in Ref
  BY DEF NoRef, Ref

\* A call, failed or not, leaves the number of faults a natural number.
LEMMA ErrsType ==
  ASSUME faults \in Nat, Succeeds \/ Errs PROVE faults' \in Nat
  BY DEF Succeeds, Errs

\* UpdateTask keeps the types of the tasks table.
LEMMA UpdateTaskTypes ==
  ASSUME TaskTypes, NEW e, NEW s \in Status, NEW o \in Worker \cup {NoWorker}, UpdateTask(e, s, o)
  PROVE TaskTypes'
  BY DEF TaskTypes, UpdateTask

\* A claim keeps the types of the tasks table.
LEMMA SetInProgressTypes ==
  ASSUME TaskTypes, NEW S, NEW w \in Worker, SetInProgress(S, w)
  PROVE TaskTypes'
  BY DEF TaskTypes, SetInProgress, Status

\* Returning to runWorker's loop keeps the types of the worker's locals.
LEMMA ToLoopTypes ==
  ASSUME LocalTypes, NEW w \in Worker, ToLoop(w)
  PROVE LocalTypes'
  BY NoRefIsRef DEF LocalTypes, ToLoop, Become, WorkerStates

\* A change of control state keeps the type of pc.
LEMMA BecomeTypes ==
  ASSUME pc \in [Worker -> WorkerStates], NEW w \in Worker, NEW s \in WorkerStates, Become(w, s)
  PROVE pc' \in [Worker -> WorkerStates]
  BY DEF Become

\* SendResponse, failed or not, keeps the type of posted.
LEMMA PostingTypes ==
  ASSUME posted \in [Event -> SUBSET Post], NEW w \in Worker, NEW what \in {"answer", "apology"},
         NEW r \in Ref, Posting(w, what, r)
  PROVE posted' \in [Event -> SUBSET Post]
<1>1. PlaceOf(r) \in Place
  BY DEF PlaceOf, Place, Ref
<1>2. [what |-> what, at |-> PlaceOf(r)] \in Post
  BY <1>1 DEF Post
<1>3. CASE UNCHANGED posted
  BY <1>3
<1>4. CASE posted' = [posted EXCEPT ![task[w]] = @ \cup {[what |-> what, at |-> PlaceOf(r)]}]
  BY <1>2, <1>4
<1> QED BY <1>3, <1>4 DEF Posting

\* routeResponse's enriched reference is a reference.
LEMMA EnrichType ==
  ASSUME NEW r \in Ref, NEW e \in Event PROVE Enrich(r, e) \in Ref
  BY StoreAssumption DEF Enrich, Ref

-----------------------------------------------------------------------------
(* What a worker's step may do, as far as the invariant is concerned. *)

Others(w) ==
  \A v \in Worker : v # w =>
    /\ pc'[v] = pc[v] /\ task'[v] = task[v]
    /\ absorbed'[v] = absorbed[v] /\ releasing'[v] = releasing[v]

\* w may take the row: it is pending and no other worker's claim has locked it.
Free(w, e) ==
  /\ status[e] = "pending"
  /\ \A v \in Worker : pc[v] = "commit" /\ task[v] = e => v = w

Shaped(w) ==
  /\ absorbed[w] \cap releasing[w] = {}
  /\ pc[w] \in Processing \cup Owing => task[w] \notin absorbed[w] \cup releasing[w]
  /\ pc[w] # "release" => releasing[w] = {}
  /\ pc[w] \notin {"release", "execute"} \cup AfterRun => absorbed[w] = {}

\* Rows change only where w has them or may take them.
RowsOK(w) ==
  \A e \in Event :
    \/ status'[e] = status[e] /\ owner'[e] = owner[e]
    \/ /\ e \in Held(w)
       /\ status'[e] \in {"in_progress", "completed", "failed"}
    \/ /\ e \in Held(w) /\ e \notin executed
       /\ status'[e] = "pending" /\ e \notin Mine(w)'
    \/ Free(w, e) /\ status'[e] = "in_progress"

\* What w has afterwards it had before, or has just taken.
MineOK(w) ==
  \A e \in Mine(w)' :
    /\ e \in Event
    /\ status'[e] \notin {"none", "pending"}
    /\ e \in Mine(w) \/ Free(w, e)
    /\ posted'[e] = {}
    /\ e \in executed' <=> pc'[w] \in AfterRun

HeldOK(w) == \A e \in Held(w)' : status'[e] = "in_progress" /\ owner'[e] = w

RunOK(w) ==
  /\ executed \subseteq executed'
  /\ \A e \in executed' : e \in executed \/ (e \in Mine(w) /\ status'[e] = status[e])
  /\ \A e \in Event : posted'[e] = posted[e] \/ (e \in Mine(w) /\ e \in executed /\ status'[e] = status[e])

ClaimOK(w) ==
  /\ pc'[w] \in Busy => task'[w] \in Event
  /\ pc'[w] = "commit" => status'[task'[w]] = "pending" /\ Free(w, task'[w])

\* The invariant's part about the workers survives every step that is of one
\* worker and respects the shape StepOK names.
LEMMA PoolStep ==
  ASSUME Inv, NEW w \in Worker, Others(w), Shaped(w)', RowsOK(w), MineOK(w), HeldOK(w),
         RunOK(w), ClaimOK(w)
  PROVE  /\ BusyInv' /\ RowLockInv' /\ ShapeInv' /\ HeldInv' /\ DisjointInv'
         /\ FreeInv' /\ RunInv' /\ ReplyInv'
<1>1. \A v \in Worker : v # w => Held(v)' = Held(v) /\ Mine(v)' = Mine(v)
  BY DEF Others, Held, Mine
<1>2. \A v \in Worker : \A e \in Mine(v) : e \in Event => status[e] \notin {"none", "pending"}
  BY DEF Inv, FreeInv
<1>3. \A v \in Worker : v # w => \A e \in Mine(v) : e \in Event => e \notin Mine(w) /\ ~Free(w, e)
  BY <1>2 DEF Inv, DisjointInv, Free
<1>4. \A v \in Worker : Held(v) \subseteq Mine(v)
  BY DEF Mine
<1>5. \A v \in Worker : v # w => \A e \in Mine(v) : e \in Event =>
        status'[e] = status[e] /\ owner'[e] = owner[e] /\ (e \in executed' <=> e \in executed)
        /\ posted'[e] = posted[e]
  BY <1>3, <1>4 DEF RowsOK, RunOK
<1>6. \A v \in Worker : Mine(v) \subseteq Event
  <2>1. \A v \in Worker : absorbed[v] \subseteq Event /\ releasing[v] \subseteq Event
    BY DEF Inv, TypeOK, PoolTypeOK
  <2>2. \A v \in Worker : pc[v] \in Processing \cup Owing => task[v] \in Event
    BY DEF Inv, BusyInv, Busy, Processing, Owing, WorkerStates
  <2> QED BY <2>1, <2>2 DEF Mine, Held
<1>7. BusyInv'
  BY DEF Inv, BusyInv, Others, ClaimOK
<1>8. RowLockInv'
  <2>1. SUFFICES ASSUME NEW v \in Worker, pc'[v] = "commit"
                 PROVE /\ status'[task'[v]] = "pending"
                       /\ \A u \in Worker : pc'[u] = "commit" /\ task'[u] = task'[v] => u = v
    BY DEF RowLockInv
  <2>2. CASE v = w
    BY <2>1, <2>2 DEF ClaimOK, Free, Others
  <2>3. CASE v # w
    <3>1. task'[v] = task[v] /\ pc[v] = "commit" /\ status[task[v]] = "pending" /\ task[v] \in Event
      BY <2>1, <2>3 DEF Others, Inv, RowLockInv, BusyInv, Busy, WorkerStates
    <3>2. ~Free(w, task[v]) /\ task[v] \notin Held(w)
      BY <3>1, <2>3, <1>2, <1>4 DEF Free
    <3>3. status'[task[v]] = "pending"
      BY <3>1, <3>2 DEF RowsOK
    <3>4. \A u \in Worker : pc'[u] = "commit" /\ task'[u] = task'[v] => u = v
      BY <3>1, <3>2, <2>3 DEF Others, ClaimOK, Inv, RowLockInv
    <3> QED BY <3>1, <3>3, <3>4
  <2> QED BY <2>2, <2>3
<1>9. ShapeInv'
  BY DEF Inv, ShapeInv, Shaped, Others
<1>10. HeldInv'
  BY <1>1, <1>4, <1>5, <1>6 DEF Inv, HeldInv, HeldOK
<1>11. DisjointInv'
  <2>1. \A v \in Worker : v # w => Mine(v)' \cap Mine(w)' = {}
    BY <1>1, <1>3, <1>6 DEF MineOK
  <2>2. \A v, u \in Worker : v # w /\ u # w /\ v # u => Mine(v)' \cap Mine(u)' = {}
    BY <1>1 DEF Inv, DisjointInv
  <2> QED BY <2>1, <2>2 DEF DisjointInv
<1>12. FreeInv'
  <2>1. SUFFICES ASSUME NEW e \in Event, status'[e] \in {"none", "pending"}
                 PROVE e \notin executed' /\ posted'[e] = {} /\ \A v \in Worker : e \notin Mine(v)'
    BY DEF FreeInv
  <2>2. CASE status'[e] = status[e]
    BY <2>1, <2>2, <1>1 DEF RunOK, MineOK, Inv, FreeInv
  <2>3. CASE e \in Held(w) /\ e \notin executed /\ status'[e] = "pending" /\ e \notin Mine(w)'
    <3>1. status[e] # status'[e] /\ e \in Mine(w) /\ posted[e] = {}
      BY <2>3, <1>4, <1>2 DEF Inv, ReplyInv
    <3>2. e \notin executed' /\ posted'[e] = {}
      BY <3>1, <2>3 DEF RunOK
    <3>3. \A v \in Worker : e \notin Mine(v)'
      BY <3>1, <2>3, <1>1, <1>3
    <3> QED BY <3>2, <3>3
  <2> QED BY <2>1, <2>2, <2>3 DEF RowsOK
<1>13. RunInv'
  <2>1. \A e \in Mine(w)' : e \in executed' <=> pc'[w] \in AfterRun
    BY DEF MineOK
  <2>2. \A v \in Worker : v # w => \A e \in Mine(v)' : e \in executed' <=> pc'[v] \in AfterRun
    BY <1>1, <1>5, <1>6 DEF Inv, RunInv, Others
  <2> QED BY <2>1, <2>2 DEF RunInv
<1>14. ReplyInv'
  <2>1. \A e \in Event : posted'[e] # {} => e \in executed'
    BY DEF RunOK, Inv, ReplyInv
  <2>2. \A v \in Worker : \A e \in Mine(v)' : posted'[e] = {}
    BY <1>1, <1>5, <1>6 DEF Inv, ReplyInv, MineOK
  <2> QED BY <2>1, <2>2 DEF ReplyInv
<1> QED BY <1>7, <1>8, <1>9, <1>10, <1>11, <1>12, <1>13, <1>14

\* The invariant's part about the handlers survives every step that leaves the
\* handlers and the threads alone, loses no message and creates no task.
LEMMA HandlerFrame ==
  ASSUME Inv, UNCHANGED <<routerVars, threads>>, messages \subseteq messages',
         \A e \in Event : status'[e] = "none" <=> status[e] = "none"
  PROVE  HandlerInv' /\ TaskHasThreadAndMessage'
<1>1. TaskHasThreadAndMessage'
  BY DEF Inv, TaskHasThreadAndMessage
<1>2. HandlerInv'
  BY RouterAssumption DEF Inv, HandlerInv, HandlerOK, routerVars, Mixed, BatchThread, Current
<1> QED BY <1>1, <1>2

-----------------------------------------------------------------------------
(* Every action of a worker is such a step. *)

StepOK(w) ==
  Others(w) /\ Shaped(w)' /\ RowsOK(w) /\ MineOK(w) /\ HeldOK(w) /\ RunOK(w) /\ ClaimOK(w)

\* What the invariant says of one worker.
WorkerFacts(w) ==
  /\ pc \in [Worker -> WorkerStates] /\ task \in [Worker -> Event \cup {NoEvent}]
  /\ absorbed \in [Worker -> SUBSET Event] /\ releasing \in [Worker -> SUBSET Event]
  /\ status \in [Event -> Status] /\ owner \in [Event -> Worker \cup {NoWorker}]
  /\ executed \subseteq Event /\ posted \in [Event -> SUBSET Post]
  /\ snap[w] \subseteq Event
  /\ pc[w] \in Busy => task[w] \in Event
  /\ Shaped(w)
  /\ pc[w] = "commit" => Free(w, task[w])
  /\ \A e \in Held(w) : status[e] = "in_progress" /\ owner[e] = w
  /\ \A e \in Mine(w) :
       /\ e \in Event /\ status[e] \notin {"none", "pending"} /\ posted[e] = {}
       /\ e \in executed <=> pc[w] \in AfterRun
  /\ \A e \in Event : Free(w, e) => e \notin executed /\ posted[e] = {} /\ e \notin Mine(w)

\* What the invariant says of one worker.
LEMMA InvWorkerFacts ==
  ASSUME Inv, NEW w \in Worker PROVE WorkerFacts(w)
<1>1. /\ pc \in [Worker -> WorkerStates] /\ task \in [Worker -> Event \cup {NoEvent}]
      /\ absorbed \in [Worker -> SUBSET Event] /\ releasing \in [Worker -> SUBSET Event]
      /\ status \in [Event -> Status] /\ owner \in [Event -> Worker \cup {NoWorker}]
      /\ executed \subseteq Event /\ posted \in [Event -> SUBSET Post]
      /\ snap[w] \subseteq Event
  BY DEF Inv, TypeOK, StoreTypeOK, PoolTypeOK
<1>2. pc[w] \in Busy => task[w] \in Event
  BY DEF Inv, BusyInv
<1>3. Shaped(w)
  BY DEF Inv, ShapeInv, Shaped
<1>4. pc[w] = "commit" => Free(w, task[w])
  BY DEF Inv, RowLockInv, Free
<1>5. \A e \in Held(w) : status[e] = "in_progress" /\ owner[e] = w
  BY DEF Inv, HeldInv
<1>6. Mine(w) \subseteq Event
  BY <1>1, <1>2 DEF Mine, Held, Processing, Owing, Busy, WorkerStates
<1>7. \A e \in Mine(w) :
       /\ e \in Event /\ status[e] \notin {"none", "pending"} /\ posted[e] = {}
       /\ e \in executed <=> pc[w] \in AfterRun
  BY <1>6 DEF Inv, FreeInv, RunInv, ReplyInv
<1>8. \A e \in Event : Free(w, e) => e \notin executed /\ posted[e] = {} /\ e \notin Mine(w)
  BY DEF Inv, FreeInv, Free
<1> QED BY <1>1, <1>2, <1>3, <1>4, <1>5, <1>7, <1>8 DEF WorkerFacts

\* Every action of processTask and of the claim has the shape PoolStep asks for.
LEMMA WorkerStepOK ==
  ASSUME Inv, NEW w \in Worker, WorkerStep(w) PROVE StepOK(w)
<1> USE InvWorkerFacts
    DEF StepOK, WorkerFacts, Others, Shaped, RowsOK, MineOK, HeldOK, RunOK, ClaimOK, Mine, Held,
        Become, ToLoop, storeVars, local, taskVars, UpdateTask, UpdateTaskErrs, SetInProgress,
        Processing, Owing, AfterRun, Busy, WorkerStates
<1>1. CASE Stop(w)
  BY <1>1 DEF Stop
<1>2. CASE ClaimBegin(w)
  BY <1>2 DEF ClaimBegin
<1>3. ASSUME NEW e \in Event, ClaimScan(w, e) PROVE StepOK(w)
  BY <1>3 DEF ClaimScan, Chosen, Takeable, RowLocked, Free
<1>4. CASE ClaimNone(w)
  BY <1>4 DEF ClaimNone
<1>5. CASE ClaimCommit(w)
  BY <1>5 DEF ClaimCommit
<1>6. CASE Load(w)
  BY <1>6 DEF Load
<1>7. CASE Classify(w)
  BY <1>7 DEF Classify
<1>8. CASE AbsorbBegin(w)
  BY <1>8 DEF AbsorbBegin
<1>9. CASE Absorb(w)
  BY <1>9 DEF Absorb, Absorbable, RowLocked, Free
<1>10. ASSUME NEW e \in Event, Release(w, e) PROVE StepOK(w)
  BY <1>10 DEF Release
<1>11. CASE ReleaseDone(w)
  BY <1>11 DEF ReleaseDone
<1>12. CASE Execute(w)
  BY <1>12 DEF Execute
<1>13. CASE Complete(w)
  BY <1>13 DEF Complete
<1>14. CASE StoreMessage(w)
  BY <1>14 DEF StoreMessage
<1>15. CASE Send(w)
  BY <1>15 DEF Send, Posting
<1>16. ASSUME NEW e \in Event, CompleteAbsorbed(w, e) PROVE StepOK(w)
  BY <1>16 DEF CompleteAbsorbed
<1>17. CASE FailTask(w)
  BY <1>17 DEF FailTask
<1>18. CASE FailExecuted(w)
  BY <1>18 DEF FailExecuted
<1>19. CASE Apologise(w)
  BY <1>19 DEF Apologise, Posting
<1>20. ASSUME NEW e \in Event, FailAbsorbed(w, e) PROVE StepOK(w)
  BY <1>20 DEF FailAbsorbed
<1>21. CASE FailAbsorbedDone(w)
  BY <1>21 DEF FailAbsorbedDone
<1> HIDE DEF StepOK
<1> QED
  BY <1>1, <1>2, <1>3, <1>4, <1>5, <1>6, <1>7, <1>8, <1>9, <1>10, <1>11, <1>12, <1>13, <1>14, <1>15, <1>16, <1>17, <1>18, <1>19, <1>20, <1>21
     DEF WorkerStep

\* A worker's step keeps the types.  Load relies on the thread row of a task.
LEMMA WorkerTypes ==
  ASSUME Inv, NEW w \in Worker, WorkerStep(w), UNCHANGED <<routerVars, restarts, crashes>>
  PROVE  TypeOK'
<1> DEFINE Types == /\ TaskTypes /\ LocalTypes /\ faults \in Nat /\ ctx \in {"live", "cancelled"}
                    /\ messages \subseteq Role \X Event /\ threads \in [Thread -> Ref \cup {NoRow}]
                    /\ executed \subseteq Event /\ posted \in [Event -> SUBSET Post]
<1>a. Types
  BY DEF Inv, TypeOK, StoreTypeOK, PoolTypeOK, TaskTypes, LocalTypes
<1>b. pc[w] \in Busy => task[w] \in Event
  BY DEF Inv, BusyInv
<1> USE <1>a, <1>b, ErrsType, UpdateTaskTypes, SetInProgressTypes, ToLoopTypes, BecomeTypes
    DEF UpdateTaskErrs, storeVars, local, taskVars, Busy, WorkerStates, Status
<1>1. ASSUME Stop(w) PROVE Types'
  BY <1>1 DEF Stop, TaskTypes, LocalTypes, Succeeds, Errs
<1>2. ASSUME ClaimBegin(w) PROVE Types'
  BY <1>2 DEF ClaimBegin, Candidates, TaskTypes, LocalTypes, Succeeds, Errs
<1>3. ASSUME NEW e \in Event, ClaimScan(w, e) PROVE Types'
  <2>1. FreeKeys(w) \subseteq {LockKey[t] : t \in Thread}
    BY StoreAssumption DEF FreeKeys, LocalTypes
  <2>2. locks' \in [Worker -> SUBSET {LockKey[t] : t \in Thread}]
    BY <1>3, <2>1 DEF ClaimScan, LocalTypes
  <2> QED BY <1>3, <2>2 DEF ClaimScan, TaskTypes, LocalTypes, Succeeds
<1>4. ASSUME ClaimNone(w) PROVE Types'
  BY <1>4 DEF ClaimNone, TaskTypes, LocalTypes, Succeeds, Errs
<1>5. ASSUME ClaimCommit(w) PROVE Types'
  BY <1>5 DEF ClaimCommit, TaskTypes, LocalTypes, Succeeds, Errs
<1>6. ASSUME Load(w) PROVE Types'
  <2>1. task[w] \in Event /\ threads[ThreadOf[task[w]]] \in Ref
    <3>1. task[w] \in Event /\ pc[w] = "load"
      BY <1>6 DEF Load
    <3>2. status[task[w]] = "in_progress"
      BY <3>1 DEF Inv, HeldInv, Held, Processing
    <3>3. threads[ThreadOf[task[w]]] # NoRow
      BY <3>1, <3>2 DEF Inv, TaskHasThreadAndMessage
    <3> QED BY <3>1, <3>3, StoreAssumption
  <2>2. ref' \in [Worker -> Ref] /\ hist' \in [Worker -> SUBSET (Role \X Event)]
    BY <1>6, <2>1 DEF Load, GetMessages, LocalTypes
  <2> QED BY <1>6, <2>2 DEF Load, TaskTypes, LocalTypes, Succeeds, Errs
<1>7. ASSUME Classify(w) PROVE Types'
  BY <1>7 DEF Classify, TaskTypes, LocalTypes, Succeeds, Errs
<1>8. ASSUME AbsorbBegin(w) PROVE Types'
  BY <1>8 DEF AbsorbBegin, PendingOn, TaskTypes, LocalTypes, Succeeds, Errs
<1>9. ASSUME Absorb(w) PROVE Types'
  <2>1. Absorbable(w) \subseteq Event
    BY DEF Absorbable, LocalTypes
  <2>2. /\ absorbed' \in [Worker -> SUBSET Event] /\ releasing' \in [Worker -> SUBSET Event]
        /\ snap' \in [Worker -> SUBSET Event] /\ pc' \in [Worker -> WorkerStates]
    BY <1>9, <2>1 DEF Absorb, LocalTypes
  <2>3. TaskTypes' /\ faults' \in Nat
    BY <1>9 DEF Absorb, TaskTypes
  <2> QED BY <1>9, <2>2, <2>3 DEF Absorb, LocalTypes
<1>10. ASSUME NEW e \in Event, Release(w, e) PROVE Types'
  BY <1>10 DEF Release, TaskTypes, LocalTypes, Succeeds, Errs
<1>11. ASSUME ReleaseDone(w) PROVE Types'
  BY <1>11 DEF ReleaseDone, TaskTypes, LocalTypes, Succeeds, Errs
<1>12. ASSUME Execute(w) PROVE Types'
  BY <1>12 DEF Execute, TaskTypes, LocalTypes, Succeeds, Errs
<1>13. ASSUME Complete(w) PROVE Types'
  BY <1>13 DEF Complete, TaskTypes, LocalTypes, Succeeds, Errs
<1>14. ASSUME StoreMessage(w) PROVE Types'
  BY <1>14 DEF StoreMessage, CreateMessage, Role, TaskTypes, LocalTypes, Succeeds, Errs
<1>15. ASSUME Send(w) PROVE Types'
  <2>1. ref[w] \in Ref /\ task[w] \in Event
    BY <1>15 DEF Send, LocalTypes
  <2>2. Enrich(ref[w], task[w]) \in Ref
    BY <2>1, EnrichType
  <2>3. posted' \in [Event -> SUBSET Post]
    BY <1>15, <2>2, PostingTypes DEF Send
  <2>4. LocalTypes'
    BY <1>15, <2>2 DEF Send, LocalTypes
  <2> QED BY <1>15, <2>3, <2>4 DEF Send, TaskTypes
<1>16. ASSUME NEW e \in Event, CompleteAbsorbed(w, e) PROVE Types'
  BY <1>16 DEF CompleteAbsorbed, TaskTypes, LocalTypes, Succeeds, Errs
<1>17. ASSUME FailTask(w) PROVE Types'
  BY <1>17 DEF FailTask, TaskTypes, LocalTypes, Succeeds, Errs
<1>18. ASSUME FailExecuted(w) PROVE Types'
  BY <1>18 DEF FailExecuted, TaskTypes, LocalTypes, Succeeds, Errs
<1>19. ASSUME Apologise(w) PROVE Types'
  <2>1. ref[w] \in Ref
    BY DEF LocalTypes
  <2>2. posted' \in [Event -> SUBSET Post]
    BY <1>19, <2>1, PostingTypes DEF Apologise
  <2> QED BY <1>19, <2>2 DEF Apologise, TaskTypes, LocalTypes
<1>20. ASSUME NEW e \in Event, FailAbsorbed(w, e) PROVE Types'
  BY <1>20 DEF FailAbsorbed, TaskTypes, LocalTypes, Succeeds, Errs
<1>21. ASSUME FailAbsorbedDone(w) PROVE Types'
  BY <1>21 DEF FailAbsorbedDone, TaskTypes, LocalTypes, Succeeds, Errs
<1>c. Types'
  BY <1>1, <1>2, <1>3, <1>4, <1>5, <1>6, <1>7, <1>8, <1>9, <1>10, <1>11, <1>12, <1>13, <1>14, <1>15, <1>16, <1>17, <1>18, <1>19, <1>20, <1>21
     DEF WorkerStep
<1> QED BY <1>c DEF Inv, TypeOK, StoreTypeOK, PoolTypeOK, RouterTypeOK, TaskTypes, LocalTypes, routerVars

\* A step of a worker keeps the invariant.
LEMMA WorkerKeepsInv ==
  ASSUME Inv, NEW w \in Worker, Work(w) PROVE Inv'
<1>1. WorkerStep(w) /\ UNCHANGED <<routerVars, restarts, crashes>>
  BY DEF Work
<1>2. TypeOK'
  BY <1>1, WorkerTypes
<1>3. StepOK(w)
  BY <1>1, WorkerStepOK
<1>4. UNCHANGED threads /\ messages \subseteq messages'
  BY <1>1 DEF WorkerStep, Stop, ClaimBegin, ClaimScan, ClaimNone, ClaimCommit, Load, Classify,
     AbsorbBegin, Absorb, Release, ReleaseDone, Execute, Complete, StoreMessage, CreateMessage, Send,
     CompleteAbsorbed, FailTask, FailExecuted, Apologise, FailAbsorbed, FailAbsorbedDone, storeVars
<1>5. \A e \in Event : status'[e] = "none" <=> status[e] = "none"
  BY <1>3, InvWorkerFacts DEF StepOK, RowsOK, Free, WorkerFacts
<1>6. HandlerInv' /\ TaskHasThreadAndMessage'
  BY <1>1, <1>4, <1>5, HandlerFrame
<1>7. /\ BusyInv' /\ RowLockInv' /\ ShapeInv' /\ HeldInv' /\ DisjointInv'
      /\ FreeInv' /\ RunInv' /\ ReplyInv'
  BY <1>3, PoolStep DEF StepOK
<1> QED BY <1>2, <1>6, <1>7 DEF Inv

-----------------------------------------------------------------------------
(* Handlers *)

\* A step that leaves the pool alone and at most queues new tasks.
LEMMA PoolFrame ==
  ASSUME Inv, UNCHANGED poolVars,
         \A e \in Event : \/ status'[e] = status[e] /\ owner'[e] = owner[e]
                          \/ status[e] = "none" /\ status'[e] = "pending"
  PROVE  /\ BusyInv' /\ RowLockInv' /\ ShapeInv' /\ HeldInv' /\ DisjointInv'
         /\ FreeInv' /\ RunInv' /\ ReplyInv'
<1>1. \A w \in Worker : Held(w)' = Held(w) /\ Mine(w)' = Mine(w)
  BY DEF poolVars, Held, Mine
<1>2. \A w \in Worker : Held(w) \subseteq Event
  BY InvWorkerFacts DEF WorkerFacts, Mine
<1>3. BusyInv' /\ ShapeInv' /\ DisjointInv' /\ RunInv' /\ ReplyInv'
  BY <1>1 DEF Inv, BusyInv, ShapeInv, DisjointInv, RunInv, ReplyInv, poolVars
<1>4. RowLockInv'
  BY DEF Inv, RowLockInv, BusyInv, Busy, WorkerStates, poolVars
<1>5. HeldInv'
  BY <1>1, <1>2 DEF Inv, HeldInv
<1>6. FreeInv'
  BY <1>1 DEF Inv, FreeInv, poolVars
<1> QED BY <1>3, <1>4, <1>5, <1>6

\* What is needed of EventsOf: entries are events, and no event is delivered twice.
LEMMA DeliveredOnce ==
  /\ \A d \in Delivery :
       /\ EventsOf[d] \in Seq(Event) /\ Len(EventsOf[d]) \in Nat
       /\ DOMAIN EventsOf[d] = 1..Len(EventsOf[d])
  /\ \A d \in Delivery : \A i \in DOMAIN EventsOf[d] : EventsOf[d][i] \in Event
  /\ \A d1, d2 \in Delivery : \A i \in DOMAIN EventsOf[d1], j \in DOMAIN EventsOf[d2] :
       EventsOf[d1][i] = EventsOf[d2][j] => d1 = d2 /\ i = j
  BY RouterAssumption DEF RouterAssumption

\* The other handlers do not notice a step that only adds rows, and changes no
\* task but the one of d's current event.
LEMMA OtherHandlers ==
  ASSUME Inv, NEW d \in Delivery, NEW c \in Delivery, c # d,
         hpc'[c] = hpc[c], hidx'[c] = hidx[c], messages \subseteq messages',
         \A t \in Thread : threads[t] # NoRow => threads'[t] # NoRow,
         \/ status' = status
         \/ hidx[d] \in DOMAIN EventsOf[d] /\ \A e \in Event : e # Current(d) => status'[e] = status[e]
  PROVE  HandlerOK(c)'
<1>1. HandlerOK(c)
  BY DEF Inv, HandlerInv
<1>2. \A i \in DOMAIN EventsOf[c] : status'[EventsOf[c][i]] = status[EventsOf[c][i]]
  BY DeliveredOnce DEF Current
<1>3. hpc[c] \in {"message", "task"} => BatchThread(c) \in Thread
  BY <1>1, DeliveredOnce, StoreAssumption DEF HandlerOK, BatchThread
<1>4. (Mixed(c)' <=> Mixed(c)) /\ BatchThread(c)' = BatchThread(c) /\ Current(c)' = Current(c)
  BY DEF Mixed, BatchThread, Current
<1> QED BY <1>1, <1>2, <1>3, <1>4 DEF HandlerOK

\* A step of HandleEvent keeps the invariant.
LEMMA HandlerKeepsInv ==
  ASSUME Inv, NEW d \in Delivery, Deliver(d) PROVE Inv'
<1> USE DEF Goto, GotoNext, CallSucceeds, storeVars, routerVars, taskVars
<1>1. /\ HandlerStep(d) /\ UNCHANGED <<poolVars, restarts, crashes>>
  BY DEF Deliver
<1>2. /\ hpc \in [Delivery -> HandlerStates] /\ hidx \in [Delivery -> Nat] /\ acked \subseteq Event
      /\ faults \in Nat /\ threads \in [Thread -> Ref \cup {NoRow}]
      /\ messages \subseteq Role \X Event /\ ctx \in {"live", "cancelled"}
      /\ status \in [Event -> Status] /\ owner \in [Event -> Worker \cup {NoWorker}]
      /\ created \in [Event -> Nat] /\ clock \in Nat
  BY DEF Inv, TypeOK, StoreTypeOK, RouterTypeOK
<1>3. HandlerOK(d) /\ TaskHasThreadAndMessage
  BY DEF Inv, HandlerInv
<1>4. (Mixed(d)' <=> Mixed(d)) /\ BatchThread(d)' = BatchThread(d)
  BY DEF Mixed, BatchThread
<1>5. \A i \in DOMAIN EventsOf[d] : EventsOf[d][i] \in Event /\ i \in Nat
  BY DeliveredOnce
<1>6. hpc[d] \in {"ack", "lookup", "create", "message", "task"} =>
        /\ Current(d) \in Event /\ 1 \in DOMAIN EventsOf[d]
        /\ BatchThread(d) \in Thread /\ EventsOf[d][1] \in Event
        /\ hidx[d] \in DOMAIN EventsOf[d] /\ ThreadOf[Current(d)] = BatchThread(d)
        /\ ~Last(d) => hidx[d] + 1 \in DOMAIN EventsOf[d]
  BY <1>2, <1>3, DeliveredOnce, StoreAssumption DEF HandlerOK, Current, BatchThread, Mixed, Last
<1> DEFINE
      Rows == \A e \in Event : \/ status'[e] = status[e] /\ owner'[e] = owner[e]
                               \/ status[e] = "none" /\ status'[e] = "pending"
      Grows == /\ messages \subseteq messages'
               /\ \A t \in Thread : threads[t] # NoRow => threads'[t] # NoRow
               /\ \A c \in Delivery : c # d => hpc'[c] = hpc[c] /\ hidx'[c] = hidx[c]
               /\ \/ status' = status
                  \/ /\ hidx[d] \in DOMAIN EventsOf[d]
                     /\ \A e \in Event : e # Current(d) => status'[e] = status[e]
      Kept == RouterTypeOK' /\ StoreTypeOK' /\ HandlerOK(d)' /\ TaskHasThreadAndMessage' /\ Rows /\ Grows
<1>10. ASSUME HandleEvent(d) PROVE Kept
  <2>1. RouterTypeOK' /\ StoreTypeOK'
    BY <1>2, <1>10 DEF HandleEvent, RouterTypeOK, StoreTypeOK, HandlerStates
  <2>1a. Rows /\ Grows
    BY <1>2, <1>10 DEF HandleEvent
  <2>2. EventsOf[d] # << >> => 1 \in DOMAIN EventsOf[d]
    BY DeliveredOnce
  <2>3. HandlerOK(d)'
    BY <1>2, <1>3, <1>4, <1>10, <2>2 DEF HandleEvent, HandlerOK
  <2> QED BY <1>3, <1>10, <2>1, <2>1a, <2>3 DEF HandleEvent, TaskHasThreadAndMessage
<1>11. ASSUME Acknowledge(d) PROVE Kept
  <2>1. RouterTypeOK' /\ StoreTypeOK'
    BY <1>2, <1>6, <1>11 DEF Acknowledge, RouterTypeOK, StoreTypeOK, HandlerStates
  <2>1a. Rows /\ Grows
    BY <1>2, <1>6, <1>11 DEF Acknowledge
  <2>2. HandlerOK(d)'
    BY <1>2, <1>3, <1>4, <1>6, <1>11 DEF Acknowledge, HandlerOK
  <2> QED BY <1>3, <1>11, <2>1, <2>1a, <2>2 DEF Acknowledge, TaskHasThreadAndMessage
<1>12. ASSUME LookupThread(d) PROVE Kept
  <2>1. RouterTypeOK' /\ StoreTypeOK'
    BY <1>2, <1>12 DEF LookupThread, RouterTypeOK, StoreTypeOK, HandlerStates, Errs
  <2>1a. Rows /\ Grows
    BY <1>2, <1>12 DEF LookupThread
  <2>2. HandlerOK(d)'
    BY <1>2, <1>3, <1>4, <1>5, <1>6, <1>12 DEF LookupThread, HandlerOK
  <2> QED BY <1>3, <1>12, <2>1, <2>1a, <2>2 DEF LookupThread, TaskHasThreadAndMessage
<1>13. ASSUME NewThread(d) PROVE Kept
  <2> DEFINE r == RefOf(EventsOf[d][1])
  <2>1. BatchThread(d) \in Thread /\ r \in Ref /\ r # NoRow
    <3>1. EventsOf[d][1] \in Event /\ BatchThread(d) \in Thread
      BY <1>6, <1>13 DEF NewThread
    <3>2. r \in Ref
      BY <3>1, StoreAssumption DEF RefOf, Ref, Kind
    <3> QED BY <3>1, <3>2, StoreAssumption
  <2> HIDE DEF r
  <2>2. /\ \/ threads[BatchThread(d)] = NoRow /\ threads' = [threads EXCEPT ![BatchThread(d)] = r]
           \/ UNCHANGED threads
        /\ hpc'[d] = "message" => threads' = [threads EXCEPT ![BatchThread(d)] = r]
        /\ hpc'[d] \in {"message", "error"} /\ hpc' = [hpc EXCEPT ![d] = hpc'[d]]
        /\ faults' \in Nat
    BY <1>2, <1>13 DEF NewThread, CreateThread, r, Errs
  <2>3. threads' \in [Thread -> Ref \cup {NoRow}]
    BY <1>2, <2>1, <2>2
  <2>4. RouterTypeOK' /\ StoreTypeOK'
    BY <1>2, <1>13, <2>1, <2>2, <2>3 DEF NewThread, RouterTypeOK, StoreTypeOK, HandlerStates
  <2>4a. Rows /\ Grows
    BY <1>2, <1>13, <2>1, <2>2, <2>3 DEF NewThread
  <2>5. HandlerOK(d)'
    BY <1>2, <1>3, <1>4, <1>5, <1>6, <1>13, <2>1, <2>2 DEF NewThread, HandlerOK
  <2> QED BY <1>3, <1>13, <2>4, <2>4a, <2>5, StoreAssumption DEF NewThread, TaskHasThreadAndMessage
<1>14. ASSUME RecordMessage(d) PROVE Kept
  <2>1. /\ messages' \in {messages, messages \cup {<<"user", Current(d)>>}} /\ Current(d) \in Event
        /\ hpc'[d] = "task" => <<"user", Current(d)>> \in messages'
        /\ hpc'[d] \in {"task", "error"} /\ hpc' = [hpc EXCEPT ![d] = hpc'[d]] /\ faults' \in Nat
    BY <1>2, <1>6, <1>14 DEF RecordMessage, CreateMessage, Errs
  <2>2. RouterTypeOK' /\ StoreTypeOK'
    BY <1>2, <1>14, <2>1 DEF RecordMessage, RouterTypeOK, StoreTypeOK, HandlerStates, Role
  <2>2a. Rows /\ Grows
    BY <1>2, <1>14, <2>1 DEF RecordMessage
  <2>3. HandlerOK(d)'
    BY <1>2, <1>3, <1>4, <1>14, <2>1 DEF RecordMessage, HandlerOK, Current
  <2> QED BY <1>3, <1>14, <2>1, <2>2, <2>2a, <2>3 DEF RecordMessage, TaskHasThreadAndMessage
<1>15. ASSUME RecordTask(d) PROVE Kept
  <2>1. /\ Current(d) \in Event /\ status[Current(d)] = "none"
        /\ threads[BatchThread(d)] # NoRow /\ <<"user", Current(d)>> \in messages
        /\ ThreadOf[Current(d)] = BatchThread(d) /\ hidx[d] \in DOMAIN EventsOf[d]
    BY <1>2, <1>3, <1>5, <1>6, <1>15 DEF RecordTask, HandlerOK, Current
  <2>2. /\ CreateTask(Current(d)) \/ UNCHANGED taskVars
        /\ faults' \in Nat
    BY <1>2, <1>15 DEF RecordTask, Errs
  <2>3. TaskTypes'
    BY <1>2, <2>1, <2>2 DEF CreateTask, TaskTypes, Status
  <2>4. Rows /\ \A e \in Event : e # Current(d) => status'[e] = status[e]
    <3>1. CASE CreateTask(Current(d))
      BY <1>2, <2>1, <3>1 DEF CreateTask
    <3>2. CASE UNCHANGED taskVars
      BY <3>2
    <3> QED BY <2>2, <3>1, <3>2
  <2>5. /\ hpc' \in [Delivery -> HandlerStates] /\ hidx' \in [Delivery -> Nat]
        /\ \A c \in Delivery : c # d => hpc'[c] = hpc[c] /\ hidx'[c] = hidx[c]
        /\ \/ hpc'[d] \in {"done", "error"}
           \/ ~Last(d) /\ hpc'[d] = "message" /\ hidx'[d] = hidx[d] + 1
    BY <1>2, <1>15 DEF RecordTask, HandlerStates
  <2>6. RouterTypeOK' /\ StoreTypeOK'
    BY <1>2, <1>15, <2>2, <2>3, <2>5 DEF RecordTask, RouterTypeOK, StoreTypeOK, TaskTypes
  <2>7. \A i \in DOMAIN EventsOf[d] : i >= hidx[d] + 1 => status'[EventsOf[d][i]] = "none"
    <3>1. \A i \in DOMAIN EventsOf[d] : i >= hidx[d] + 1 => EventsOf[d][i] # Current(d)
      <4>1. \A i \in DOMAIN EventsOf[d] : EventsOf[d][i] = EventsOf[d][hidx[d]] => i = hidx[d]
        BY <2>1, DeliveredOnce
      <4>2. \A i \in DOMAIN EventsOf[d] : i >= hidx[d] + 1 => i # hidx[d]
        BY <1>2, <1>5
      <4> QED BY <4>1, <4>2 DEF Current
    <3> QED BY <1>2, <1>3, <1>5, <1>15, <2>4, <3>1 DEF RecordTask, HandlerOK
  <2>8. HandlerOK(d)'
    BY <1>2, <1>3, <1>4, <1>6, <1>15, <2>1, <2>5, <2>7 DEF RecordTask, HandlerOK
  <2>9. TaskHasThreadAndMessage'
    BY <1>3, <1>15, <2>1, <2>4 DEF RecordTask, TaskHasThreadAndMessage
  <2> QED BY <1>15, <2>1, <2>4, <2>5, <2>6, <2>8, <2>9 DEF RecordTask
<1>20. Kept
  BY <1>1, <1>10, <1>11, <1>12, <1>13, <1>14, <1>15 DEF HandlerStep
<1>21. TypeOK'
  BY <1>1, <1>20 DEF Inv, TypeOK, PoolTypeOK, poolVars
<1>22. HandlerInv'
  BY <1>20, OtherHandlers DEF HandlerInv
<1> QED BY <1>1, <1>20, <1>21, <1>22, PoolFrame DEF Inv

-----------------------------------------------------------------------------
(* The process, and the invariant *)

\* The invariant holds when the first process starts on empty tables.
LEMMA InitInv == Init => Inv
<1> SUFFICES ASSUME Init PROVE Inv
  OBVIOUS
<1> USE DEF Init, StoreInit, RouterInit, PoolInit, Fresh
<1>1. TypeOK
  BY NoRefIsRef DEF TypeOK, StoreTypeOK, RouterTypeOK, PoolTypeOK, HandlerStates, WorkerStates, Status
<1>2. HandlerInv /\ TaskHasThreadAndMessage
  BY DeliveredOnce DEF HandlerInv, HandlerOK, TaskHasThreadAndMessage
<1>3. \A w \in Worker : Mine(w) = {} /\ Held(w) = {}
  BY DEF Mine, Held, Processing, Owing
<1>4. BusyInv /\ RowLockInv /\ ShapeInv
  BY DEF BusyInv, RowLockInv, ShapeInv, Busy, Processing, Owing
<1>5. HeldInv /\ DisjointInv /\ FreeInv /\ RunInv /\ ReplyInv
  BY <1>3 DEF HeldInv, DisjointInv, FreeInv, RunInv, ReplyInv
<1> QED BY <1>1, <1>2, <1>4, <1>5 DEF Inv

\* The end of a process and the start of the next one keep the invariant.
LEMMA NewProcessKeepsInv ==
  ASSUME Inv, NewProcess, restarts' \in Nat, crashes' \in Nat PROVE Inv'
<1> USE DEF NewProcess, taskVars
<1>1. TypeOK'
  BY NoRefIsRef DEF Inv, TypeOK, StoreTypeOK, RouterTypeOK, PoolTypeOK, HandlerStates, WorkerStates
<1>2. HandlerInv'
  <2> SUFFICES ASSUME NEW d \in Delivery PROVE HandlerOK(d)'
    BY DEF HandlerInv
  <2>1. HandlerOK(d)
    BY DEF Inv, HandlerInv
  <2>2. hpc'[d] \in {"new", "done", "error", "lost"} /\ (hpc'[d] = "new" => hpc[d] = "new")
    OBVIOUS
  <2> QED BY <2>1, <2>2 DEF HandlerOK
<1>3. TaskHasThreadAndMessage'
  BY DEF Inv, TaskHasThreadAndMessage
<1>4. \A w \in Worker : Mine(w)' = {} /\ Held(w)' = {}
  BY DEF Mine, Held, Processing, Owing
<1>5. BusyInv' /\ RowLockInv' /\ ShapeInv'
  BY DEF BusyInv, RowLockInv, ShapeInv, Busy, Processing, Owing
<1>6. HeldInv' /\ DisjointInv' /\ FreeInv' /\ RunInv' /\ ReplyInv'
  BY <1>4 DEF Inv, HeldInv, DisjointInv, FreeInv, RunInv, ReplyInv
<1> QED BY <1>1, <1>2, <1>3, <1>5, <1>6 DEF Inv

\* Cancelling the context keeps the invariant.
LEMMA ShutdownKeepsInv ==
  ASSUME Inv, Shutdown PROVE Inv'
<1>1. TypeOK'
  BY DEF Inv, Shutdown, TypeOK, StoreTypeOK, RouterTypeOK, PoolTypeOK, taskVars, routerVars, poolVars
<1>2. HandlerInv' /\ TaskHasThreadAndMessage'
  BY HandlerFrame DEF Shutdown, taskVars
<1> QED BY <1>1, <1>2, PoolFrame DEF Shutdown, taskVars, Inv

\* A stuttering step keeps the invariant.
LEMMA StutterKeepsInv ==
  ASSUME Inv, UNCHANGED vars PROVE Inv'
<1> USE DEF vars, storeVars
<1>1. TypeOK'
  BY DEF Inv, TypeOK, StoreTypeOK, RouterTypeOK, PoolTypeOK, routerVars, poolVars
<1>2. HandlerInv' /\ TaskHasThreadAndMessage'
  BY HandlerFrame
<1> QED BY <1>1, <1>2, PoolFrame DEF Inv

\* The invariant is inductive.
THEOREM Invariance == Spec => []Inv
<1>1. ASSUME Inv, [Next]_vars PROVE Inv'
  <2>1. ASSUME NEW d \in Delivery, Deliver(d) PROVE Inv'
    BY <1>1, <2>1, HandlerKeepsInv
  <2>2. ASSUME NEW w \in Worker, Work(w) PROVE Inv'
    BY <1>1, <2>2, WorkerKeepsInv
  <2>3. CASE Shutdown
    BY <1>1, <2>3, ShutdownKeepsInv
  <2>4. restarts \in Nat /\ crashes \in Nat
    BY <1>1 DEF Inv, TypeOK
  <2>5. CASE Restart
    BY <1>1, <2>4, <2>5, NewProcessKeepsInv DEF Restart
  <2>6. CASE Crash
    BY <1>1, <2>4, <2>6, NewProcessKeepsInv DEF Crash
  <2>7. CASE UNCHANGED vars
    BY <1>1, <2>7, StutterKeepsInv
  <2> QED BY <1>1, <2>1, <2>2, <2>3, <2>5, <2>6, <2>7 DEF Next
<1> QED BY <1>1, InitInv, PTL DEF Spec

-----------------------------------------------------------------------------
\* The variables keep their types; in particular a worker always finds the row of
\* the thread it loads.
THEOREM TypeCorrect == Spec => []TypeOK
<1>1. Inv => TypeOK
  BY DEF Inv
<1> QED BY <1>1, Invariance, PTL

\* A task row never exists without its thread row and its user message.
THEOREM TasksAreComplete == Spec => []TaskHasThreadAndMessage
<1>1. Inv => TaskHasThreadAndMessage
  BY DEF Inv
<1> QED BY <1>1, Invariance, PTL

\* No task is ever worked on by two workers, whatever store call fails and
\* whenever the process is stopped, killed or restarted.
THEOREM TasksAreExclusive == Spec => []TaskExclusive
<1>1. Inv => TaskExclusive
  <2> SUFFICES ASSUME Inv, NEW w \in Worker, NEW e \in Held(w)
               PROVE /\ status[e] = "in_progress" /\ owner[e] = w
                     /\ \A v \in Worker \ {w} : e \notin Held(v)
    BY DEF TaskExclusive
  <2> QED BY DEF Inv, HeldInv, DisjointInv, Mine
<1> QED BY <1>1, Invariance, PTL

\* A task is handed to an executor at most once, over all processes.
THEOREM TasksExecuteOnce == Spec => []ExecutedOnce
<1>1. Inv => ExecutedOnce
  <2> SUFFICES ASSUME Inv, NEW w \in Worker, pc[w] = "execute",
                      NEW e \in {task[w]} \cup absorbed[w]
               PROVE e \notin executed
    BY DEF ExecutedOnce
  <2>1. e \in Mine(w) /\ pc[w] \notin AfterRun
    BY DEF Mine, Held, Processing, AfterRun
  <2> QED BY <2>1 DEF Inv, RunInv
<1> QED BY <1>1, Invariance, PTL

\* A task is replied to at most once.
THEOREM TasksAreRepliedOnce == Spec => []RepliedOnce
<1>1. Inv => RepliedOnce
  BY DEF Inv, ReplyInv, RepliedOnce, Mine, Owing
<1> QED BY <1>1, Invariance, PTL
=============================================================================
