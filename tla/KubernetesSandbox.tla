-------------------------- MODULE KubernetesSandbox --------------------------
(***************************************************************************)
(* Exec of internal/sandbox/kubernetes/kubernetes.go: a prompt secret, one *)
(* job, a watch on it, the pod's exit code or log, and the deferred        *)
(* cleanup.  Several workers call Exec at once; every request to the API   *)
(* server may fail, before or after it took effect, and the deadline of    *)
(* the task may pass between any two of them.                              *)
(***************************************************************************)
EXTENDS SandboxConfig

VARIABLES
  valid,      \* whether this program's limits parse
  pc,         \* pc[c]: the request that c sends next
  secrets,    \* the prompt secrets in the namespace, by call
  jobs,       \* the jobs in the namespace, by call
  fate,       \* fate[c]: how far the pod of c's job got
  expired,    \* the calls whose context is done
  code,       \* code[c]: the exit code waitForJob returned
  pending,    \* pending[c]: what c returns after the deferred cleanup
  result,     \* result[c]: what c returned
  undeleted,  \* the calls whose job delete request failed
  faults      \* failed requests so far

vars == <<valid, pc, secrets, jobs, fate, expired, code, pending, result, undeleted, faults>>

Runtime == INSTANCE SandboxRuntime WITH
  phase <- [c \in Calls |-> CASE pc[c] = "idle" -> "idle"
                              [] pc[c] = "done" -> "done"
                              [] OTHER -> "executing"],
  alive <- jobs,
  abandoned <- undeleted

Init == /\ valid \in Limits
        /\ pc = [c \in Calls |-> "idle"]
        /\ secrets = {} /\ jobs = {} /\ expired = {} /\ undeleted = {}
        /\ fate = [c \in Calls |-> "unborn"]
        /\ code = [c \in Calls |-> 0]
        /\ pending = [c \in Calls |-> Runtime!NoResult]
        /\ result = [c \in Calls |-> Runtime!NoResult]
        /\ faults = 0

-----------------------------------------------------------------------------
At(c, here) == pc[c] = here
Goto(c, there) == pc' = [pc EXCEPT ![c] = there]

\* A request of c is refused: its context is done, or the API server fails.
Refused(c) == \/ c \in expired /\ UNCHANGED faults
              \/ faults < MaxFaults /\ faults' = faults + 1

\* The reply of a request is lost although the request was carried out.
ReplyLost(c) == c \notin expired /\ faults < MaxFaults /\ faults' = faults + 1

Accepted(c) == c \notin expired /\ UNCHANGED faults

\* c returns r without having registered a cleanup.
ReturnNow(c, r) == /\ Goto(c, "done")
                   /\ result' = [result EXCEPT ![c] = r]
                   /\ UNCHANGED pending

\* c returns r: the cleanup runs first.
ReturnAfterCleanup(c, r) == /\ Goto(c, "deleteJob")
                            /\ pending' = [pending EXCEPT ![c] = r]
                            /\ UNCHANGED result

-----------------------------------------------------------------------------
Begin(c) ==
  /\ At(c, "idle")
  /\ Goto(c, "createSecret")
  /\ UNCHANGED <<valid, secrets, jobs, fate, expired, code, pending, result, undeleted, faults>>

CreateSecret(c) ==
  /\ At(c, "createSecret")
  /\ \/ /\ Accepted(c)
        /\ secrets' = secrets \cup {c}
        /\ Goto(c, "buildResources")
        /\ UNCHANGED <<pending, result>>
     \/ /\ \/ Refused(c) /\ UNCHANGED secrets
           \/ ReplyLost(c) /\ secrets' = secrets \cup {c}
        /\ ReturnNow(c, Runtime!Error)
  /\ UNCHANGED <<valid, jobs, fate, expired, code, undeleted>>

\* The limits are parsed after the secret exists and before the cleanup is
\* registered.
BuildResources(c) ==
  /\ At(c, "buildResources")
  /\ \/ valid /\ Goto(c, "createJob") /\ UNCHANGED <<pending, result>>
     \/ ~valid /\ ReturnNow(c, Runtime!Error)
  /\ UNCHANGED <<valid, secrets, jobs, fate, expired, code, undeleted, faults>>

JobStarts(c) == /\ jobs' = jobs \cup {c}
                /\ fate' = [fate EXCEPT ![c] = "running"]

CreateJob(c) ==
  /\ At(c, "createJob")
  /\ \/ /\ Accepted(c)
        /\ JobStarts(c)
        /\ Goto(c, "watch")
        /\ UNCHANGED <<pending, result>>
     \/ /\ \/ Refused(c) /\ UNCHANGED <<jobs, fate>>
           \/ ReplyLost(c) /\ JobStarts(c)
        /\ ReturnAfterCleanup(c, Runtime!Error)
  /\ UNCHANGED <<valid, secrets, expired, code, undeleted>>

StartWatch(c) ==
  /\ At(c, "watch")
  /\ \/ Accepted(c) /\ Goto(c, "waiting") /\ UNCHANGED <<pending, result>>
     \/ Refused(c) /\ ReturnAfterCleanup(c, Runtime!Error)
  /\ UNCHANGED <<valid, secrets, jobs, fate, expired, code, undeleted>>

\* A watch that names no resource version starts with the object's present
\* state, so a job that ended before the watch is seen too.
WatchEvent(c) ==
  /\ At(c, "waiting")
  /\ \/ /\ fate[c] = "succeeded"
        /\ code' = [code EXCEPT ![c] = 0]
        /\ Goto(c, "readPodLogs")
     \/ fate[c] \in {"failed", "broken"} /\ Goto(c, "podExitCode") /\ UNCHANGED code
  /\ UNCHANGED <<valid, secrets, jobs, fate, expired, pending, result, undeleted, faults>>

\* Variant with a fault: a closed watch is opened again.
WatchReopens(c) ==
  /\ At(c, "waiting")
  /\ Refused(c)
  /\ UNCHANGED <<valid, pc, secrets, jobs, fate, expired, code, pending, result, undeleted>>

\* An error event, or a channel closed by the server or by the deadline.
WatchCloses(c) ==
  /\ At(c, "waiting")
  /\ Refused(c)
  /\ ReturnAfterCleanup(c, Runtime!Error)
  /\ UNCHANGED <<valid, secrets, jobs, fate, expired, code, undeleted>>

\* Variant with a fault: an unknown exit code has a value of its own.
FallbackCodeUnknown == 2

\* The exit code of a failed job whose pod cannot be asked.
FallbackCode == 1

\* The code of the terminated container, handed on unchecked: also the 0 of a
\* container that ended cleanly in a pod that failed.
ContainerCode(c) == IF fate[c] = "broken" THEN 0 ELSE 1

\* getPodExitCode, called for a failed job: the code of the terminated
\* container, or the fallback when the pods cannot be listed or show no
\* terminated container.  Its reason, or else the message of the job's
\* condition, becomes the error of the result; without both the log is read.
GetPodExitCode(c) ==
  /\ At(c, "podExitCode")
  /\ \E k \in {ContainerCode(c), FallbackCode}, explained \in BOOLEAN :
       /\ Accepted(c) \/ (Refused(c) /\ k = FallbackCode)
       /\ code' = [code EXCEPT ![c] = k]
       /\ \/ explained /\ ReturnAfterCleanup(c, Runtime!Returned(k, FALSE))
          \/ ~explained /\ Goto(c, "readPodLogs") /\ UNCHANGED <<pending, result>>
  /\ UNCHANGED <<valid, secrets, jobs, fate, expired, undeleted>>

\* List the pods, open the log stream, read it: one failure is an error.
ReadPodLogs(c) ==
  /\ At(c, "readPodLogs")
  /\ \/ Accepted(c) /\ ReturnAfterCleanup(c, Runtime!Returned(code[c], TRUE))
     \/ Refused(c) /\ ReturnAfterCleanup(c, Runtime!Error)
  /\ UNCHANGED <<valid, secrets, jobs, fate, expired, code, undeleted>>

-----------------------------------------------------------------------------
\* Variant with a fault: the cleanup starts with the secret.
DeleteSecretFirst(c) ==
  /\ At(c, "deleteJob")
  /\ secrets' = secrets \ {c}
  /\ Goto(c, "deleteSecret")
  /\ UNCHANGED <<valid, jobs, fate, expired, code, pending, result, undeleted, faults>>

\* cleanup: both deletes use the background context, so the deadline does
\* not stop them, and both errors are dropped.
DeleteJob(c) ==
  /\ At(c, "deleteJob")
  /\ \/ jobs' = jobs \ {c} /\ UNCHANGED <<undeleted, faults>>
     \/ /\ c \in jobs /\ faults < MaxFaults
        /\ faults' = faults + 1
        /\ undeleted' = undeleted \cup {c}
        /\ UNCHANGED jobs
  /\ Goto(c, "deleteSecret")
  /\ UNCHANGED <<valid, secrets, fate, expired, code, pending, result>>

\* Variant with a fault: the secret is kept when the call fails.
DeleteSecretOnSuccess(c) ==
  /\ At(c, "deleteSecret")
  /\ secrets' = IF pending[c] = Runtime!Error THEN secrets ELSE secrets \ {c}
  /\ Goto(c, "done")
  /\ result' = [result EXCEPT ![c] = pending[c]]
  /\ UNCHANGED <<valid, jobs, fate, expired, code, pending, undeleted, faults>>

DeleteSecret(c) ==
  /\ At(c, "deleteSecret")
  /\ \/ secrets' = secrets \ {c} /\ UNCHANGED faults
     \/ faults < MaxFaults /\ faults' = faults + 1 /\ UNCHANGED secrets
  /\ Goto(c, "done")
  /\ result' = [result EXCEPT ![c] = pending[c]]
  /\ UNCHANGED <<valid, jobs, fate, expired, code, pending, undeleted>>

-----------------------------------------------------------------------------
\* The cluster runs the job's one pod (backoffLimit 0, restartPolicy Never).
\* An evicted pod, or one that missed a deadline of the cluster, fails the job
\* whatever its container's exit code was.
JobEnds(c) ==
  /\ c \in jobs /\ fate[c] = "running"
  /\ \E f \in Runtime!Ends : fate' = [fate EXCEPT ![c] = f]
  /\ UNCHANGED <<valid, pc, secrets, jobs, expired, code, pending, result, undeleted, faults>>

\* context.WithTimeout, or the shutdown of the worker pool.
Expire(c) ==
  /\ pc[c] \notin {"idle", "done"} /\ c \notin expired
  /\ expired' = expired \cup {c}
  /\ UNCHANGED <<valid, pc, secrets, jobs, fate, code, pending, result, undeleted, faults>>

Step(c) == \/ CreateSecret(c) \/ BuildResources(c) \/ CreateJob(c) \/ StartWatch(c)
           \/ WatchEvent(c) \/ WatchCloses(c) \/ GetPodExitCode(c) \/ ReadPodLogs(c)
           \/ DeleteJob(c) \/ DeleteSecret(c)

Next == \E c \in Calls : Begin(c) \/ Step(c) \/ JobEnds(c) \/ Expire(c)

Spec == Init /\ [][Next]_vars

-----------------------------------------------------------------------------
PCs == {"idle", "createSecret", "buildResources", "createJob", "watch", "waiting",
        "podExitCode", "readPodLogs", "deleteJob", "deleteSecret", "done"}

\* The state of every call and of the namespace.
TypeOK ==
  /\ valid \in BOOLEAN
  /\ pc \in [Calls -> PCs]
  /\ secrets \subseteq Calls /\ jobs \subseteq Calls
  /\ expired \subseteq Calls /\ undeleted \subseteq Calls
  /\ fate \in [Calls -> Runtime!Fates]
  /\ code \in [Calls -> 0..1]
  /\ pending \in [Calls -> Runtime!Results] /\ result \in [Calls -> Runtime!Results]
  /\ faults \in 0..MaxFaults

\* Exec never returns exit code 0 for a container that exited with another, nor a
\* successful job without its output, and leaves no job behind: whatever request
\* fails, whether or not it took effect, and whenever the deadline passes
\* (kubernetes.go, Exec and cleanup).  A failed job whose container exited with 0
\* may come back as a 0.
ImplementsRuntime == Runtime!Spec

\* The prompt secret is there as long as the job is: a pod that starts late
\* can still mount it (Exec creates it first, cleanup deletes it last).
SecretOutlivesJob == \A c \in jobs \ undeleted : c \in secrets

\* With valid limits, a call whose requests were all carried out leaves no
\* prompt secret behind, whenever its deadline passed and however it ended.
\* Invalid limits are the exception: BuildResources returns before the cleanup
\* is registered.
NoSecretLeft ==
  \A c \in Calls : pc[c] = "done" /\ valid /\ faults = 0 => c \notin secrets
=============================================================================
