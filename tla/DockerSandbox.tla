---------------------------- MODULE DockerSandbox ----------------------------
(***************************************************************************)
(* Exec of internal/sandbox/docker/docker.go: a prompt file, one temporary *)
(* directory per skill image (filled from a throwaway container), the      *)
(* sandbox container, and the cleanups that Go runs in the reverse order   *)
(* of their defer statements.  Every request to the Docker daemon may      *)
(* fail, before or after it took effect, and the task's deadline may pass  *)
(* between any two of them.                                                *)
(***************************************************************************)
EXTENDS SandboxConfig

VARIABLES
  valid,      \* whether this program's limits parse
  pc,         \* pc[c]: the step that c takes next
  skill,      \* skill[c]: the skill image c is at; Skills + 1 is the sandbox image
  attempt,    \* attempt[c]: failed pulls of that image
  prompt,     \* the calls whose prompt file exists
  dirs,       \* dirs[c]: the skill directories that exist, by skill image
  stuck,      \* stuck[c]: the skill directories, and 0 for the prompt file, whose
              \* removal failed
  extractors, \* the calls whose throwaway container exists
  box,        \* box[c]: the sandbox container of c
  fate,       \* fate[c]: how far the workload of c got
  expired,    \* the calls whose context is done
  errCh,      \* the calls that still listen to errCh
  code,       \* code[c]: the exit code that statusCh delivered
  pending,    \* pending[c]: what c returns after the deferred cleanups
  result,     \* result[c]: what c returned
  undeleted,  \* the calls whose request to remove the container failed
  faults      \* failures so far

files == <<prompt, dirs, stuck>>
waits == <<errCh, code>>
images == <<skill, attempt>>
vars == <<valid, pc, images, files, extractors, box, fate, expired, waits, pending,
          result, undeleted, faults>>

Runtime == INSTANCE SandboxRuntime WITH
  phase <- [c \in Calls |-> CASE pc[c] = "idle" -> "idle"
                              [] pc[c] = "done" -> "done"
                              [] OTHER -> "executing"],
  alive <- {c \in Calls : box[c] = "started"},
  abandoned <- undeleted

Init == /\ valid \in Limits
        /\ pc = [c \in Calls |-> "idle"]
        /\ skill = [c \in Calls |-> 1] /\ attempt = [c \in Calls |-> 0]
        /\ prompt = {} /\ dirs = [c \in Calls |-> {}]
        /\ stuck = [c \in Calls |-> {}]
        /\ extractors = {} /\ box = [c \in Calls |-> "none"]
        /\ fate = [c \in Calls |-> "unborn"]
        /\ expired = {} /\ errCh = Calls /\ code = [c \in Calls |-> 0]
        /\ pending = [c \in Calls |-> Runtime!NoResult]
        /\ result = [c \in Calls |-> Runtime!NoResult]
        /\ undeleted = {} /\ faults = 0

-----------------------------------------------------------------------------
At(c, here) == pc[c] = here
Goto(c, there) == pc' = [pc EXCEPT ![c] = there]

\* Something fails that does not depend on the context.  What fails a write may fail the
\* removal after it too.
Fails == faults < MaxFaults /\ faults' = faults + 1

PromptFile == 0

\* A file of c cannot be removed; the error is dropped.
Sticks(c, file) == stuck' = [stuck EXCEPT ![c] = @ \cup {file}]

\* A request of c is refused: its context is done, or the daemon fails.
Refused(c) == (c \in expired /\ UNCHANGED faults) \/ Fails

\* The reply of a request is lost although the request was carried out.
ReplyLost(c) == c \notin expired /\ Fails

Accepted(c) == c \notin expired /\ UNCHANGED faults

\* c is going to return r; the cleanup it enters at first is given.
Unwind(c, first, r) == Goto(c, first) /\ pending' = [pending EXCEPT ![c] = r]

-----------------------------------------------------------------------------
Begin(c) ==
  /\ At(c, "idle")
  /\ Goto(c, "parse")
  /\ UNCHANGED <<valid, images, files, extractors, box, fate, expired, waits, pending,
                 result, undeleted, faults>>

\* Before anything is created.
ParseResources(c) ==
  /\ At(c, "parse")
  /\ \/ valid /\ Goto(c, "prompt") /\ UNCHANGED result
     \/ ~valid /\ Goto(c, "done") /\ result' = [result EXCEPT ![c] = Runtime!Error]
  /\ UNCHANGED <<valid, images, files, extractors, box, fate, expired, waits, pending,
                 undeleted, faults>>

\* A write or chmod that fails removes the file again, if it can.
PreparePromptFile(c) ==
  /\ At(c, "prompt")
  /\ \/ /\ prompt' = prompt \cup {c}
        /\ Goto(c, "pull")
        /\ UNCHANGED <<stuck, result, faults>>
     \/ /\ Fails
        /\ \/ UNCHANGED <<prompt, stuck>>
           \/ prompt' = prompt \cup {c} /\ Sticks(c, PromptFile)
        /\ Goto(c, "done")
        /\ result' = [result EXCEPT ![c] = Runtime!Error]
  /\ UNCHANGED <<valid, images, dirs, extractors, box, fate, expired, waits, pending,
                 undeleted>>

\* ensureImage tries three times; a context that ends during the backoff
\* ends the attempts.
MaxAttempts == 3

EnsureImage(c) ==
  /\ At(c, "pull")
  /\ \/ /\ Accepted(c)
        /\ Goto(c, IF skill[c] <= Skills THEN "createExtractor" ELSE "createBox")
        /\ UNCHANGED <<attempt, pending>>
     \/ /\ Refused(c)
        /\ attempt' = [attempt EXCEPT ![c] = @ + 1]
        /\ \/ attempt[c] + 1 < MaxAttempts /\ UNCHANGED <<pc, pending>>
           \/ /\ attempt[c] + 1 = MaxAttempts \/ c \in expired
              /\ Unwind(c, "removeDirs", Runtime!Error)
  /\ UNCHANGED <<valid, skill, files, extractors, box, fate, expired, waits, result, undeleted>>

\* extractSkillImage, first request: the throwaway container.
CreateExtractor(c) ==
  /\ At(c, "createExtractor")
  /\ \/ /\ Accepted(c)
        /\ extractors' = extractors \cup {c}
        /\ Goto(c, "extract")
        /\ UNCHANGED pending
     \/ /\ \/ Refused(c) /\ UNCHANGED extractors
           \/ ReplyLost(c) /\ extractors' = extractors \cup {c}
        /\ Unwind(c, "removeDirs", Runtime!Error)
  /\ UNCHANGED <<valid, images, files, box, fate, expired, waits, result, undeleted>>

\* Variant with a fault: a failing copy leaves the directory.
ExtractKeepsDir(c) ==
  /\ At(c, "extract")
  /\ dirs' = [dirs EXCEPT ![c] = @ \cup {skill[c]}]
  /\ \/ Accepted(c) /\ Goto(c, "removeExtractor") /\ UNCHANGED pending
     \/ Refused(c) /\ Unwind(c, "removeExtractor", Runtime!Error)
  /\ UNCHANGED <<valid, images, prompt, stuck, extractors, box, fate, expired, waits, result,
                 undeleted>>

\* Make the directory, copy /skills, unpack it; a failure removes it, if it can.
Extract(c) ==
  /\ At(c, "extract")
  /\ \/ /\ Accepted(c)
        /\ dirs' = [dirs EXCEPT ![c] = @ \cup {skill[c]}]
        /\ Goto(c, "removeExtractor")
        /\ UNCHANGED <<stuck, pending>>
     \/ /\ \/ Refused(c) /\ UNCHANGED <<dirs, stuck>>
           \/ /\ Fails
              /\ dirs' = [dirs EXCEPT ![c] = @ \cup {skill[c]}]
              /\ Sticks(c, skill[c])
        /\ Unwind(c, "removeExtractor", Runtime!Error)
  /\ UNCHANGED <<valid, images, prompt, extractors, box, fate, expired, waits, result,
                 undeleted>>

\* The deferred removal of the throwaway container; its error is logged.
RemoveExtractor(c) ==
  /\ At(c, "removeExtractor")
  /\ \/ extractors' = extractors \ {c} /\ UNCHANGED faults
     \/ Fails /\ UNCHANGED extractors
  /\ \/ /\ pending[c] = Runtime!NoResult
        /\ Goto(c, "pull")
        /\ skill' = [skill EXCEPT ![c] = @ + 1]
        /\ attempt' = [attempt EXCEPT ![c] = 0]
     \/ /\ pending[c] # Runtime!NoResult
        /\ Goto(c, "removeDirs")
        /\ UNCHANGED images
  /\ UNCHANGED <<valid, files, box, fate, expired, waits, pending, result, undeleted>>

-----------------------------------------------------------------------------
\* createContainer, in two requests.
CreateBox(c) ==
  /\ At(c, "createBox")
  /\ \/ /\ Accepted(c)
        /\ box' = [box EXCEPT ![c] = "created"]
        /\ Goto(c, "start")
        /\ UNCHANGED pending
     \/ /\ \/ Refused(c) /\ UNCHANGED box
           \/ ReplyLost(c) /\ box' = [box EXCEPT ![c] = "created"]
        /\ Unwind(c, "removeDirs", Runtime!Error)
  /\ UNCHANGED <<valid, images, files, extractors, fate, expired, waits, result, undeleted>>

BoxStarts(c) == /\ box' = [box EXCEPT ![c] = "started"]
                /\ fate' = [fate EXCEPT ![c] = "running"]

\* Variant with a fault: a container that fails to start is not removed.
StartBoxKeeps(c) ==
  /\ At(c, "start")
  /\ \/ Accepted(c) /\ BoxStarts(c) /\ Goto(c, "wait") /\ UNCHANGED pending
     \/ /\ \/ Refused(c) /\ UNCHANGED <<box, fate>>
           \/ ReplyLost(c) /\ BoxStarts(c)
        /\ Unwind(c, "removeDirs", Runtime!Error)
  /\ UNCHANGED <<valid, images, files, extractors, expired, waits, result, undeleted>>

StartBox(c) ==
  /\ At(c, "start")
  /\ \/ Accepted(c) /\ BoxStarts(c) /\ Goto(c, "wait") /\ UNCHANGED pending
     \/ /\ \/ Refused(c) /\ UNCHANGED <<box, fate>>
           \/ ReplyLost(c) /\ BoxStarts(c)
        /\ Unwind(c, "removeBox", Runtime!Error)
  /\ UNCHANGED <<valid, images, files, extractors, expired, waits, result, undeleted>>

\* awaitContainerStatus: statusCh delivers the exit code.  A message of the
\* daemon with it ends the call without the output, whatever the code is.
AwaitStatus(c) ==
  /\ At(c, "wait") /\ fate[c] \in Runtime!Ends
  /\ code' = [code EXCEPT ![c] = IF fate[c] = "failed" THEN 1 ELSE 0]
  /\ \/ fate[c] # "broken" /\ Goto(c, "logs") /\ UNCHANGED pending
     \/ fate[c] # "succeeded" /\ Unwind(c, "removeBox", Runtime!Returned(code'[c], FALSE))
  /\ UNCHANGED <<valid, images, files, extractors, box, fate, expired, errCh, result,
                 undeleted, faults>>

\* errCh delivers nil: the loop waits on for the status, which is to come.
AwaitNil(c) ==
  /\ At(c, "wait") /\ c \in errCh /\ fate[c] \in Runtime!Ends
  /\ errCh' = errCh \ {c}
  /\ UNCHANGED <<valid, pc, images, files, extractors, box, fate, expired, code, pending,
                 result, undeleted, faults>>

\* errCh delivers an error: of the daemon, or because of the deadline.
AwaitError(c) ==
  /\ At(c, "wait") /\ c \in errCh
  /\ Refused(c)
  /\ Unwind(c, "removeBox", Runtime!Error)
  /\ UNCHANGED <<valid, images, files, extractors, box, fate, expired, waits, result,
                 undeleted>>

CollectLogs(c) ==
  /\ At(c, "logs")
  /\ \/ Accepted(c) /\ Unwind(c, "removeBox", Runtime!Returned(code[c], TRUE))
     \/ Refused(c) /\ Unwind(c, "removeBox", Runtime!Error)
  /\ UNCHANGED <<valid, images, files, extractors, box, fate, expired, waits, result,
                 undeleted>>

-----------------------------------------------------------------------------
\* The container is removed by force, whether it runs or not, with the
\* background context; the error is dropped.
RemoveBox(c) ==
  /\ At(c, "removeBox")
  /\ \/ box' = [box EXCEPT ![c] = "none"] /\ UNCHANGED <<undeleted, faults>>
     \/ /\ Fails
        /\ undeleted' = IF box[c] = "started" THEN undeleted \cup {c} ELSE undeleted
        /\ UNCHANGED box
  /\ Goto(c, "removeDirs")
  /\ UNCHANGED <<valid, images, files, extractors, fate, expired, waits, pending, result>>

\* skillDirs: the directories of the skill images c is done with.
SkillDirs(c) == 1..(skill[c] - 1)

\* Variant with a fault: the directories go first.
RemoveDirsEarly(c) ==
  /\ \/ At(c, "removeDirs") /\ Goto(c, "removePrompt")
     \/ At(c, "removeBox") /\ UNCHANGED pc
  /\ dirs' = [dirs EXCEPT ![c] = @ \ SkillDirs(c)]
  /\ UNCHANGED <<valid, images, prompt, stuck, extractors, box, fate, expired, waits, pending,
                 result, undeleted, faults>>

\* cleanupSkillDirs, deferred or on a failing skill image.  A directory that
\* cannot be removed does not keep the others from being removed.
RemoveDirs(c) ==
  /\ At(c, "removeDirs")
  /\ \E kept \in SUBSET (dirs[c] \cap SkillDirs(c)) :
       /\ dirs' = [dirs EXCEPT ![c] = (@ \ SkillDirs(c)) \cup kept]
       /\ stuck' = [stuck EXCEPT ![c] = @ \cup kept]
       /\ (kept = {} /\ UNCHANGED faults) \/ (kept # {} /\ Fails)
  /\ Goto(c, "removePrompt")
  /\ UNCHANGED <<valid, images, prompt, extractors, box, fate, expired, waits, pending,
                 result, undeleted>>

RemovePrompt(c) ==
  /\ At(c, "removePrompt")
  /\ \/ prompt' = prompt \ {c} /\ UNCHANGED <<stuck, faults>>
     \/ Sticks(c, PromptFile) /\ Fails /\ UNCHANGED prompt
  /\ Goto(c, "done")
  /\ result' = [result EXCEPT ![c] = pending[c]]
  /\ UNCHANGED <<valid, images, dirs, extractors, box, fate, expired, waits, pending,
                 undeleted>>

-----------------------------------------------------------------------------
\* The workload ends by itself.
BoxExits(c) ==
  /\ box[c] = "started" /\ fate[c] = "running"
  /\ \E f \in Runtime!Ends : fate' = [fate EXCEPT ![c] = f]
  /\ UNCHANGED <<valid, pc, images, files, extractors, box, expired, waits, pending,
                 result, undeleted, faults>>

\* The deadline of the task, of the call, or the shutdown of the worker pool.
Expire(c) ==
  /\ pc[c] \notin {"idle", "done"} /\ c \notin expired
  /\ expired' = expired \cup {c}
  /\ UNCHANGED <<valid, pc, images, files, extractors, box, fate, waits, pending,
                 result, undeleted, faults>>

Step(c) == \/ ParseResources(c) \/ PreparePromptFile(c) \/ EnsureImage(c)
           \/ CreateExtractor(c) \/ Extract(c) \/ RemoveExtractor(c)
           \/ CreateBox(c) \/ StartBox(c)
           \/ AwaitStatus(c) \/ AwaitNil(c) \/ AwaitError(c) \/ CollectLogs(c)
           \/ RemoveBox(c) \/ RemoveDirs(c) \/ RemovePrompt(c)

Next == \E c \in Calls : Begin(c) \/ Step(c) \/ BoxExits(c) \/ Expire(c)

Spec == Init /\ [][Next]_vars

-----------------------------------------------------------------------------
PCs == {"idle", "parse", "prompt", "pull", "createExtractor", "extract", "removeExtractor",
        "createBox", "start", "wait", "logs", "removeBox", "removeDirs", "removePrompt",
        "done"}

\* The state of every call; no image is pulled more than three times.
TypeOK ==
  /\ valid \in BOOLEAN
  /\ pc \in [Calls -> PCs]
  /\ skill \in [Calls -> 1..(Skills + 1)] /\ attempt \in [Calls -> 0..3]
  /\ prompt \subseteq Calls /\ dirs \in [Calls -> SUBSET (1..Skills)]
  /\ stuck \in [Calls -> SUBSET (0..Skills)]
  /\ extractors \subseteq Calls /\ box \in [Calls -> {"none", "created", "started"}]
  /\ fate \in [Calls -> Runtime!Fates]
  /\ expired \subseteq Calls /\ errCh \subseteq Calls /\ undeleted \subseteq Calls
  /\ code \in [Calls -> 0..1]
  /\ pending \in [Calls -> Runtime!Results] /\ result \in [Calls -> Runtime!Results]
  /\ faults \in 0..MaxFaults

\* Exec never returns exit code 0 for a container that exited with another, nor a
\* success without its output, and no started container survives it: also one whose
\* start request seemed to fail, also after the deadline (docker.go, createContainer,
\* awaitContainerStatus).  A 0 that comes with an error of the daemon is returned as 0.
ImplementsRuntime == Runtime!Spec

\* As long as the workload can run, the prompt file and every skill
\* directory it has mounted are on the disk (the order of the defers of Exec).
MountsOutliveBox ==
  \A c \in Calls : box[c] = "started" /\ c \notin undeleted
                     => c \in prompt /\ dirs[c] = 1..Skills

\* Whatever step failed, Exec has tried to remove its prompt file and every skill
\* directory it made when it returns: what remains is what could not be removed.
NoFilesLeft ==
  \A c \in Calls : pc[c] = "done" => /\ c \in prompt => PromptFile \in stuck[c]
                                     /\ dirs[c] \subseteq stuck[c]
=============================================================================
