-------------------------- MODULE KubernetesProofs --------------------------
(***************************************************************************)
(* The steps of the Kubernetes runtime, for any number of calls and        *)
(* failures: what is left of a call depends on how far it got, and every   *)
(* step is one of the runtime the executor relies on.  SandboxesProofs     *)
(* draws the conclusions.                                                  *)
(***************************************************************************)
EXTENDS Sandboxes, TLAPS

\* Where a call that has created its job may be while it has not tried to delete it.
WithJob == {"watch", "waiting", "podExitCode", "readPodLogs", "deleteJob"}

\* What is left of a call depends on how far it got.
ObjectsInv(c) ==
  /\ pc[c] \in {"idle", "createSecret"} => c \notin secrets
  /\ pc[c] \in {"idle", "createSecret", "buildResources", "createJob"} =>
       c \notin jobs /\ fate[c] = "unborn"
  /\ c \in jobs \ undeleted => pc[c] \in WithJob
  /\ pc[c] \in {"buildResources", "createJob"} \cup WithJob => c \in secrets
  /\ pc[c] = "done" /\ valid /\ faults = 0 => c \notin secrets

\* What a call is about to return is true of its workload.
JobResultInv(c) ==
  /\ pc[c] = "podExitCode" => fate[c] \in {"failed", "broken"}
  /\ pc[c] = "readPodLogs" => \/ code[c] = 0 /\ fate[c] = "succeeded"
                              \/ code[c] = 1 /\ fate[c] = "failed"
                              \/ fate[c] = "broken"
  /\ pc[c] \in {"deleteJob", "deleteSecret"} =>
       pending[c] # K!Runtime!NoResult /\ K!Runtime!Truthful(pending[c], fate[c])

KubernetesInv == K!TypeOK /\ \A c \in Calls : ObjectsInv(c) /\ JobResultInv(c)

\* A step of c is the business of c alone.
OnlyJobOf(c) ==
  /\ valid' = valid /\ (faults' = 0 => faults = 0)
  /\ \A d \in Calls \ {c} :
       /\ pc'[d] = pc[d] /\ fate'[d] = fate[d] /\ code'[d] = code[d] /\ pending'[d] = pending[d]
       /\ (d \in secrets') <=> (d \in secrets)
       /\ (d \in jobs') <=> (d \in jobs)
       /\ (d \in undeleted') <=> (d \in undeleted)

JobStepOK(c) == K!TypeOK' /\ OnlyJobOf(c) /\ ObjectsInv(c)' /\ JobResultInv(c)'

-----------------------------------------------------------------------------
\* The results that Exec returns.
LEMMA JobResultFacts ==
  /\ K!Runtime!NoResult \in K!Runtime!Results
  /\ K!Runtime!Error \in K!Runtime!Results /\ K!Runtime!Error # K!Runtime!NoResult
  /\ \A f : K!Runtime!Truthful(K!Runtime!Error, f)
  /\ \A k \in 0..1, o \in BOOLEAN :
       K!Runtime!Returned(k, o) \in K!Runtime!Results /\ K!Runtime!Returned(k, o) # K!Runtime!NoResult
  /\ \A o \in BOOLEAN : K!Runtime!Truthful(K!Runtime!Returned(1, o), "failed")
  /\ K!Runtime!Truthful(K!Runtime!Returned(0, TRUE), "succeeded")
  /\ \A k \in 0..1, o \in BOOLEAN : K!Runtime!Truthful(K!Runtime!Returned(k, o), "broken")
  /\ \A r, f : K!Runtime!Truthful(r, "running") => K!Runtime!Truthful(r, f)
<1>1. K!Runtime!NoResult \in K!Runtime!Results /\ K!Runtime!Error \in K!Runtime!Results
  BY DEF K!Runtime!Results, K!Runtime!NoResult, K!Runtime!Error
<1>2. K!Runtime!NoResult.kind = "none" /\ K!Runtime!Error.kind = "error"
  BY DEF K!Runtime!NoResult, K!Runtime!Error
<1>3. ASSUME NEW k \in 0..1, NEW o \in BOOLEAN
      PROVE  /\ K!Runtime!Returned(k, o) \in K!Runtime!Results
             /\ K!Runtime!Returned(k, o).kind = "result"
             /\ K!Runtime!Returned(k, o).value.code = k
             /\ K!Runtime!Returned(k, o).value.output = o
  BY DEF K!Runtime!Returned, K!Runtime!Results, K!Runtime!ExecResult
<1>4. \A f : K!Runtime!Truthful(K!Runtime!Error, f)
  BY <1>2 DEF K!Runtime!Truthful
<1>5. \A o \in BOOLEAN : K!Runtime!Truthful(K!Runtime!Returned(1, o), "failed")
  BY <1>3, SMT DEF K!Runtime!Truthful, K!Runtime!Ends
<1>6. K!Runtime!Truthful(K!Runtime!Returned(0, TRUE), "succeeded")
  <2>1. 0 \in 0..1 /\ TRUE \in BOOLEAN
    BY SMT
  <2>2. K!Runtime!Returned(0, TRUE).value.code = 0 /\ K!Runtime!Returned(0, TRUE).value.output = TRUE
    BY <2>1, <1>3, Zenon
  <2>. QED BY <2>2 DEF K!Runtime!Truthful, K!Runtime!Ends
<1>7. \A r, f : K!Runtime!Truthful(r, "running") => K!Runtime!Truthful(r, f)
  BY DEF K!Runtime!Truthful, K!Runtime!Ends
<1>8. K!Runtime!Error # K!Runtime!NoResult
  BY <1>2
<1>9. \A k \in 0..1, o \in BOOLEAN : K!Runtime!Returned(k, o) # K!Runtime!NoResult
  BY <1>2, <1>3
<1>10. \A k \in 0..1, o \in BOOLEAN : K!Runtime!Truthful(K!Runtime!Returned(k, o), "broken")
  BY DEF K!Runtime!Truthful, K!Runtime!Ends
<1>. QED BY <1>1, <1>3, <1>4, <1>5, <1>6, <1>7, <1>8, <1>9, <1>10

\* Every step of a call keeps what is known of it and leaves the other calls alone.
LEMMA JobStep ==
  ASSUME KubernetesInv, NEW c \in Calls,
         K!Begin(c) \/ K!Step(c) \/ K!JobEnds(c) \/ K!Expire(c)
  PROVE  JobStepOK(c)
<1> USE JobResultFacts, SandboxAssumption
<1> USE DEF JobStepOK, OnlyJobOf, K!At, K!Goto, K!Refused, K!ReplyLost, K!Accepted, K!ReturnNow,
            K!ReturnAfterCleanup, WithJob, K!PCs
<1>0. K!TypeOK /\ ObjectsInv(c) /\ JobResultInv(c)
  BY DEF KubernetesInv
<1>1. CASE K!Begin(c)
  BY <1>0, <1>1 DEF K!Begin, K!TypeOK, ObjectsInv, JobResultInv
<1>2. CASE K!CreateSecret(c)
  BY <1>0, <1>2 DEF K!CreateSecret, K!TypeOK, ObjectsInv, JobResultInv
<1>3. CASE K!BuildResources(c)
  BY <1>0, <1>3 DEF K!BuildResources, K!TypeOK, ObjectsInv, JobResultInv
<1>4. CASE K!CreateJob(c)
  BY <1>0, <1>4 DEF K!CreateJob, K!JobStarts, K!TypeOK, ObjectsInv, JobResultInv, K!Runtime!Fates, K!Runtime!Ends
<1>5. CASE K!StartWatch(c)
  BY <1>0, <1>5 DEF K!StartWatch, K!TypeOK, ObjectsInv, JobResultInv
<1>6. CASE K!WatchEvent(c)
  <2>1. /\ pc[c] = "waiting"
        /\ UNCHANGED <<valid, secrets, jobs, fate, expired, pending, result, undeleted, faults>>
    BY <1>6 DEF K!WatchEvent
  <2>2. CASE fate[c] = "succeeded" /\ code' = [code EXCEPT ![c] = 0] /\ K!Goto(c, "readPodLogs")
    BY <1>0, <2>1, <2>2 DEF K!TypeOK, ObjectsInv, JobResultInv
  <2>3. CASE fate[c] \in {"failed", "broken"} /\ K!Goto(c, "podExitCode") /\ UNCHANGED code
    BY <1>0, <2>1, <2>3 DEF K!TypeOK, ObjectsInv, JobResultInv
  <2>. QED BY <1>6, <2>2, <2>3 DEF K!WatchEvent
<1>7. CASE K!WatchCloses(c)
  BY <1>0, <1>7 DEF K!WatchCloses, K!TypeOK, ObjectsInv, JobResultInv
<1>8. CASE K!GetPodExitCode(c)
  <2>k. PICK k \in {K!ContainerCode(c), K!FallbackCode} :
          /\ code' = [code EXCEPT ![c] = k]
          /\ \/ K!ReturnAfterCleanup(c, K!Runtime!Returned(k, FALSE))
             \/ K!Goto(c, "readPodLogs") /\ UNCHANGED <<pending, result>>
    BY <1>8 DEF K!GetPodExitCode
  <2>f. pc[c] = "podExitCode" /\ fate[c] \in {"failed", "broken"}
    BY <1>8, <1>0 DEF K!GetPodExitCode, JobResultInv
  <2>c. k \in 0..1 /\ (fate[c] = "failed" => k = 1)
    BY <2>k, <2>f DEF K!ContainerCode, K!FallbackCode
  <2> DEFINE r == K!Runtime!Returned(k, FALSE)
  <2>1. /\ code' = [code EXCEPT ![c] = k]
        /\ \/ K!ReturnAfterCleanup(c, r)
           \/ K!Goto(c, "readPodLogs") /\ UNCHANGED <<pending, result>>
    BY <2>k
  <2>2. /\ pc[c] = "podExitCode" /\ (K!Accepted(c) \/ K!Refused(c))
        /\ UNCHANGED <<valid, secrets, jobs, fate, expired, undeleted>>
    BY <1>8 DEF K!GetPodExitCode
  <2>3. r \in K!Runtime!Results /\ r # K!Runtime!NoResult /\ K!Runtime!Truthful(r, fate[c])
    <3>1. k \in 0..1 /\ FALSE \in BOOLEAN
      BY <2>c
    <3>2. CASE fate[c] = "failed"
      BY <3>1, <3>2, <2>c, JobResultFacts, Zenon
    <3>3. CASE fate[c] = "broken"
      BY <3>1, <3>3, JobResultFacts, Zenon
    <3>. QED BY <3>2, <3>3, <2>f
  <2> HIDE DEF r
  <2>. QED BY <2>1, <2>2, <2>3, <2>f, <2>c, <1>0 DEF K!TypeOK, ObjectsInv, JobResultInv
<1>9. CASE K!ReadPodLogs(c)
  <2> DEFINE r == K!Runtime!Returned(code[c], TRUE)
  <2>1. pc[c] = "readPodLogs" /\ fate[c] \in {"succeeded", "failed", "broken"}
    BY <1>9, <1>0 DEF K!ReadPodLogs, JobResultInv
  <2>2. r \in K!Runtime!Results /\ r # K!Runtime!NoResult /\ K!Runtime!Truthful(r, fate[c])
    BY <2>1, <1>0 DEF JobResultInv, K!TypeOK
  <2>3. K!ReturnAfterCleanup(c, r) \/ K!ReturnAfterCleanup(c, K!Runtime!Error)
    BY <1>9 DEF K!ReadPodLogs
  <2> HIDE DEF r
  <2>4. /\ K!Accepted(c) \/ K!Refused(c)
        /\ UNCHANGED <<valid, secrets, jobs, fate, expired, code, undeleted>>
    BY <1>9 DEF K!ReadPodLogs
  <2>. QED BY <2>1, <2>2, <2>3, <2>4, <1>0 DEF K!TypeOK, ObjectsInv, JobResultInv
<1>10. CASE K!DeleteJob(c)
  BY <1>0, <1>10 DEF K!DeleteJob, K!TypeOK, ObjectsInv, JobResultInv
<1>11. CASE K!DeleteSecret(c)
  BY <1>0, <1>11 DEF K!DeleteSecret, K!TypeOK, ObjectsInv, JobResultInv
<1>12. CASE K!JobEnds(c)
  BY <1>0, <1>12 DEF K!JobEnds, K!TypeOK, ObjectsInv, JobResultInv, K!Runtime!Fates, K!Runtime!Ends
<1>13. CASE K!Expire(c)
  BY <1>0, <1>13 DEF K!Expire, K!TypeOK, ObjectsInv, JobResultInv
<1>. QED
  BY <1>1, <1>2, <1>3, <1>4, <1>5, <1>6, <1>7, <1>8, <1>9, <1>10, <1>11, <1>12, <1>13 DEF K!Step

\* The initial states satisfy the invariant.
LEMMA KubernetesInvInit == K!Init => KubernetesInv
<1> SUFFICES ASSUME K!Init PROVE KubernetesInv
  OBVIOUS
<1> USE JobResultFacts, SandboxAssumption
<1>1. K!TypeOK
  BY SMT DEF K!Init, K!TypeOK, K!PCs, K!Runtime!Fates
<1>2. ASSUME NEW c \in Calls PROVE ObjectsInv(c) /\ JobResultInv(c)
  BY DEF K!Init, ObjectsInv, JobResultInv, WithJob
<1>. QED BY <1>1, <1>2 DEF KubernetesInv

\* Every step preserves the invariant.
LEMMA KubernetesInvStep == KubernetesInv /\ [K!Next]_(K!vars) => KubernetesInv'
<1> SUFFICES ASSUME KubernetesInv, [K!Next]_(K!vars) PROVE KubernetesInv'
  OBVIOUS
<1>1. ASSUME NEW c \in Calls, K!Begin(c) \/ K!Step(c) \/ K!JobEnds(c) \/ K!Expire(c)
      PROVE  KubernetesInv'
  <2>1. JobStepOK(c)
    BY <1>1, JobStep
  <2>2. ASSUME NEW d \in Calls, d # c PROVE ObjectsInv(d)' /\ JobResultInv(d)'
    BY <2>1, <2>2 DEF JobStepOK, OnlyJobOf, KubernetesInv, ObjectsInv, JobResultInv
  <2>. QED BY <2>1, <2>2 DEF JobStepOK, KubernetesInv
<1>2. CASE UNCHANGED K!vars
  BY <1>2 DEF K!vars, KubernetesInv, K!TypeOK, ObjectsInv, JobResultInv
<1>. QED BY <1>1, <1>2 DEF K!Next

-----------------------------------------------------------------------------
(* The refinement.                                                           *)

Phase == [c \in Calls |-> CASE pc[c] = "idle" -> "idle"
                            [] pc[c] = "done" -> "done"
                            [] OTHER -> "executing"]

\* The phase of a call, by the place where it is.
LEMMA PhaseOf ==
  ASSUME NEW c \in Calls
  PROVE  /\ pc[c] = "idle" => Phase[c] = "idle"
         /\ pc[c] = "done" => Phase[c] = "done"
         /\ pc[c] \notin {"idle", "done"} => Phase[c] = "executing"
  BY DEF Phase

\* A call that goes from one place inside Exec to another stays in its phase.
LEMMA PhaseStays ==
  ASSUME NEW P, pc \in [Calls -> P], NEW c \in Calls, NEW s \in P \ {"idle", "done"},
         pc[c] \notin {"idle", "done"}, pc' = [pc EXCEPT ![c] = s]
  PROVE  Phase' = Phase
<1>1. \A d \in Calls : (pc'[d] = "idle" <=> pc[d] = "idle") /\ (pc'[d] = "done" <=> pc[d] = "done")
  OBVIOUS
<1>2. \A d \in Calls : (CASE pc'[d] = "idle" -> "idle" [] pc'[d] = "done" -> "done" [] OTHER -> "executing")
                     = (CASE pc[d] = "idle" -> "idle" [] pc[d] = "done" -> "done" [] OTHER -> "executing")
  BY <1>1
<1>. QED BY <1>2 DEF Phase

\* A call that returns changes its phase only.
LEMMA PhaseEnds ==
  ASSUME NEW P, pc \in [Calls -> P], NEW c \in Calls, pc[c] # "done", pc' = [pc EXCEPT ![c] = "done"]
  PROVE  Phase' = [Phase EXCEPT ![c] = "done"]
<1>1. pc'[c] = "done" /\ \A d \in Calls : d # c => pc'[d] = pc[d]
  OBVIOUS
<1>2. \A d \in Calls : Phase'[d] = [Phase EXCEPT ![c] = "done"][d]
  BY <1>1 DEF Phase
<1>. QED BY <1>2 DEF Phase

\* A step of the runtime, or none.
JobSimulated == K!Runtime!Next \/ UNCHANGED K!Runtime!vars

\* Every step of a call is a step of the runtime, or a stutter.
LEMMA JobRefines ==
  ASSUME KubernetesInv, NEW c \in Calls,
         K!Begin(c) \/ K!Step(c) \/ K!JobEnds(c) \/ K!Expire(c)
  PROVE  JobSimulated
<1> USE JobResultFacts
<1>0. K!TypeOK /\ ObjectsInv(c) /\ JobResultInv(c)
  BY DEF KubernetesInv
<1>q. ASSUME NEW s \in K!PCs \ {"idle", "done"}, pc[c] \notin {"idle", "done"},
             pc' = [pc EXCEPT ![c] = s], UNCHANGED <<jobs, fate, undeleted, result>>
      PROVE  JobSimulated
  <2>1. Phase' = Phase
    BY <1>q, <1>0, PhaseStays DEF K!TypeOK
  <2>. QED BY <2>1, <1>q DEF JobSimulated, K!Runtime!vars, Phase
<1>r. ASSUME NEW r \in K!Runtime!Results, r # K!Runtime!NoResult, K!Runtime!Truthful(r, fate[c]),
             pc[c] \notin {"idle", "done"}, c \in jobs => c \in undeleted,
             pc' = [pc EXCEPT ![c] = "done"], result' = [result EXCEPT ![c] = r],
             UNCHANGED <<jobs, fate, undeleted>>
      PROVE  JobSimulated
  <2>1. Phase[c] = "executing" /\ Phase' = [Phase EXCEPT ![c] = "done"]
    BY <1>r, <1>0, PhaseOf, PhaseEnds DEF K!TypeOK
  <2>2. K!Runtime!Return(c)
    BY <2>1, <1>r DEF K!Runtime!Return, Phase
  <2>. QED BY <2>2 DEF JobSimulated, K!Runtime!Next
<1>1. CASE K!Begin(c)
  <2>1. Phase[c] = "idle"
    BY <1>1, PhaseOf DEF K!Begin, K!At
  <2>2. pc'[c] = "createSecret" /\ \A d \in Calls : d # c => pc'[d] = pc[d]
    BY <1>0, <1>1 DEF K!Begin, K!Goto, K!TypeOK
  <2>3. \A d \in Calls : Phase'[d] = [Phase EXCEPT ![c] = "executing"][d]
    BY <2>2 DEF Phase
  <2>4. Phase' = [Phase EXCEPT ![c] = "executing"]
    BY <2>3 DEF Phase
  <2>5. K!Runtime!Begin(c)
    BY <2>1, <2>4, <1>1 DEF K!Begin, K!Runtime!Begin, Phase
  <2>. QED BY <2>5 DEF JobSimulated, K!Runtime!Next
<1>2. CASE K!CreateSecret(c)
  <2>1. CASE K!Goto(c, "buildResources") /\ UNCHANGED result
    BY <2>1, <1>2, <1>q DEF K!CreateSecret, K!At, K!Goto, K!PCs
  <2>2. CASE K!ReturnNow(c, K!Runtime!Error)
    BY <2>2, <1>2, <1>0, <1>r DEF K!CreateSecret, K!At, K!Goto, K!ReturnNow, ObjectsInv
  <2>. QED BY <2>1, <2>2, <1>2 DEF K!CreateSecret
<1>3. CASE K!BuildResources(c)
  <2>1. CASE K!Goto(c, "createJob") /\ UNCHANGED result
    BY <2>1, <1>3, <1>q DEF K!BuildResources, K!At, K!Goto, K!PCs
  <2>2. CASE K!ReturnNow(c, K!Runtime!Error)
    BY <2>2, <1>3, <1>0, <1>r DEF K!BuildResources, K!At, K!Goto, K!ReturnNow, ObjectsInv
  <2>. QED BY <2>1, <2>2, <1>3 DEF K!BuildResources
<1>4. CASE K!CreateJob(c)
  <2>1. /\ pc[c] = "createJob" /\ UNCHANGED <<undeleted, result>>
        /\ \E s \in {"watch", "deleteJob"} : pc' = [pc EXCEPT ![c] = s]
        /\ K!JobStarts(c) \/ UNCHANGED <<jobs, fate>>
    BY <1>4 DEF K!CreateJob, K!At, K!Goto, K!ReturnAfterCleanup
  <2>2. CASE UNCHANGED <<jobs, fate>>
    BY <2>1, <2>2, <1>q DEF K!PCs
  <2>3. CASE K!JobStarts(c)
    <3>1. Phase' = Phase /\ Phase[c] = "executing"
      <4>1. PICK s \in K!PCs \ {"idle", "done"} : pc' = [pc EXCEPT ![c] = s]
        BY <2>1 DEF K!PCs
      <4>2. pc \in [Calls -> K!PCs] /\ pc[c] \notin {"idle", "done"}
        BY <2>1, <1>0 DEF K!TypeOK
      <4>. QED BY <4>1, <4>2, PhaseStays, PhaseOf
    <3>2. K!Runtime!Launch(c)
      BY <3>1, <2>1, <2>3, <1>0 DEF K!JobStarts, ObjectsInv, K!Runtime!Launch, Phase
    <3>. QED BY <3>2 DEF JobSimulated, K!Runtime!Next
  <2>. QED BY <2>1, <2>2, <2>3
<1>5. CASE K!StartWatch(c) \/ K!WatchEvent(c) \/ K!WatchCloses(c) \/ K!GetPodExitCode(c) \/ K!ReadPodLogs(c)
  <2>1. /\ pc[c] \notin {"idle", "done"} /\ UNCHANGED <<jobs, fate, undeleted, result>>
        /\ \E s \in {"waiting", "podExitCode", "readPodLogs", "deleteJob"} : pc' = [pc EXCEPT ![c] = s]
    BY <1>5 DEF K!StartWatch, K!WatchEvent, K!WatchCloses, K!GetPodExitCode, K!ReadPodLogs, K!At, K!Goto,
                K!ReturnAfterCleanup
  <2>. QED BY <2>1, <1>q DEF K!PCs
<1>6. CASE K!DeleteJob(c)
  <2>1. /\ pc[c] = "deleteJob" /\ pc' = [pc EXCEPT ![c] = "deleteSecret"]
        /\ UNCHANGED <<fate, result>>
        /\ \/ jobs' = jobs \ {c} /\ UNCHANGED undeleted
           \/ c \in jobs /\ undeleted' = undeleted \cup {c} /\ UNCHANGED jobs
    BY <1>6 DEF K!DeleteJob, K!At, K!Goto
  <2>2. Phase' = Phase /\ Phase[c] = "executing"
    BY <2>1, <1>0, PhaseStays, PhaseOf DEF K!PCs, K!TypeOK
  <2>3. CASE c \in jobs /\ jobs' = jobs \ {c} /\ UNCHANGED undeleted
    <3>1. K!Runtime!Remove(c)
      BY <2>1, <2>2, <2>3 DEF K!Runtime!Remove, Phase
    <3>. QED BY <3>1 DEF JobSimulated, K!Runtime!Next
  <2>4. CASE c \notin jobs /\ jobs' = jobs \ {c} /\ UNCHANGED undeleted
    <3>1. jobs' = jobs
      BY <2>4
    <3>. QED BY <3>1, <2>1, <2>4, <1>q DEF K!PCs
  <2>5. CASE c \in jobs /\ undeleted' = undeleted \cup {c} /\ UNCHANGED jobs
    <3>1. K!Runtime!Abandon(c)
      BY <2>1, <2>2, <2>5 DEF K!Runtime!Abandon, Phase
    <3>. QED BY <3>1 DEF JobSimulated, K!Runtime!Next
  <2>. QED BY <2>1, <2>3, <2>4, <2>5
<1>7. CASE K!DeleteSecret(c)
  <2>1. /\ pc[c] = "deleteSecret" /\ pc' = [pc EXCEPT ![c] = "done"]
        /\ result' = [result EXCEPT ![c] = pending[c]] /\ UNCHANGED <<jobs, fate, undeleted>>
    BY <1>7 DEF K!DeleteSecret, K!At, K!Goto
  <2>2. /\ pending[c] \in K!Runtime!Results /\ pending[c] # K!Runtime!NoResult
        /\ K!Runtime!Truthful(pending[c], fate[c]) /\ (c \in jobs => c \in undeleted)
    BY <2>1, <1>0 DEF K!TypeOK, ObjectsInv, JobResultInv, WithJob
  <2>. QED BY <2>1, <2>2, <1>r
<1>8. CASE K!JobEnds(c)
  <2>1. Phase' = Phase
    BY <1>8 DEF K!JobEnds, Phase
  <2>2. K!Runtime!Finish(c)
    BY <2>1, <1>8 DEF K!JobEnds, K!Runtime!Finish, Phase
  <2>. QED BY <2>2 DEF JobSimulated, K!Runtime!Next
<1>9. CASE K!Expire(c)
  BY <1>9 DEF K!Expire, JobSimulated, K!Runtime!vars
<1>. QED BY <1>1, <1>2, <1>3, <1>4, <1>5, <1>6, <1>7, <1>8, <1>9 DEF K!Step

=============================================================================
