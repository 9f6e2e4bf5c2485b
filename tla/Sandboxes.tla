------------------------------ MODULE Sandboxes ------------------------------
(***************************************************************************)
(* The sandbox runtime of a process: main creates the one the configuration*)
(* names and the executor calls its Exec without knowing which it is.      *)
(* What a call keeps (its place, deadline and results) has the same form   *)
(* in both; containers and files belong to one, jobs and secrets to the    *)
(* other.                                                                  *)
(***************************************************************************)
EXTENDS SandboxConfig

VARIABLES
  runtime,                                                     \* cfg.Sandbox.Runtime
  valid, pc, fate, expired, code, pending, result, undeleted, faults,
  skill, attempt, prompt, dirs, stuck, extractors, box, errCh, \* of DockerSandbox
  secrets, jobs                                                \* of KubernetesSandbox

dockerOnly == <<skill, attempt, prompt, dirs, stuck, extractors, box, errCh>>
kubernetesOnly == <<secrets, jobs>>
vars == <<runtime, valid, pc, fate, expired, code, pending, result, undeleted, faults,
          dockerOnly, kubernetesOnly>>

D == INSTANCE DockerSandbox
K == INSTANCE KubernetesSandbox

Init == runtime \in {"docker", "kubernetes"} /\ D!Init /\ K!Init

DockerNext == runtime = "docker" /\ D!Next /\ UNCHANGED <<runtime, kubernetesOnly>>
KubernetesNext == runtime = "kubernetes" /\ K!Next /\ UNCHANGED <<runtime, dockerOnly>>

Next == DockerNext \/ KubernetesNext

\* A step of the goroutine of c, or the end of its context.
Step(c) ==
  \/ runtime = "docker" /\ D!Step(c) /\ UNCHANGED <<runtime, kubernetesOnly>>
  \/ runtime = "kubernetes" /\ K!Step(c) /\ UNCHANGED <<runtime, dockerOnly>>
Expire(c) ==
  \/ runtime = "docker" /\ D!Expire(c) /\ UNCHANGED <<runtime, kubernetesOnly>>
  \/ runtime = "kubernetes" /\ K!Expire(c) /\ UNCHANGED <<runtime, dockerOnly>>

Spec == Init /\ [][Next]_vars

\* The goroutine of a call keeps running and its deadline passes.  Nothing is assumed
\* of the workload: it may run for ever.
FairSpec == Spec /\ \A c \in Calls : WF_vars(Step(c)) /\ WF_vars(Expire(c))

-----------------------------------------------------------------------------
\* The state of every call, of the Docker daemon and of the namespace.
TypeOK == IF runtime = "docker" THEN D!TypeOK ELSE K!TypeOK

\* The prompt secret is there as long as the job is (see KubernetesSandbox).
SecretOutlivesJob == K!SecretOutlivesJob

\* A call whose requests were all carried out leaves no prompt secret behind (see
\* KubernetesSandbox).
NoSecretLeft == runtime = "kubernetes" => K!NoSecretLeft

\* Prompt file and skill directories are there as long as the container can run (see
\* DockerSandbox).
MountsOutliveBox == D!MountsOutliveBox

\* No prompt file and no skill directory remains when Exec has returned, unless its
\* removal failed (see DockerSandbox).
NoFilesLeft == runtime = "docker" => D!NoFilesLeft

\* The runtime of the process as the executor sees it.
Runtime == INSTANCE SandboxRuntime WITH
  phase <- [c \in Calls |-> CASE pc[c] = "idle" -> "idle"
                              [] pc[c] = "done" -> "done"
                              [] OTHER -> "executing"],
  alive <- jobs \cup {c \in Calls : box[c] = "started"},
  abandoned <- undeleted

\* The executor cannot tell the runtimes apart: with either of them Exec returns once,
\* never returns exit code 0 for a workload that exited with another nor a success
\* without its output, and leaves no workload behind (sandbox.go, the Runtime
\* interface).  A workload that the platform gave up after a clean exit may be
\* returned as a 0.
ImplementsRuntime == Runtime!Spec

\* Exec returns with either runtime even if the workload never ends: the deadline closes
\* the watch or ends the wait.
ExecReturns == \A c \in Calls : pc[c] \notin {"idle", "done"} ~> pc[c] = "done"
=============================================================================
