-------------------------- MODULE SandboxesProofs --------------------------
(***************************************************************************)
(* The steps of the Docker runtime, and the theorems about Exec with       *)
(* either runtime: for any number of calls, skill images and failures no   *)
(* workload outlives what it has mounted, no file outlives its call, and   *)
(* Exec implements the runtime the executor relies on.                     *)
(***************************************************************************)
EXTENDS KubernetesProofs

Early == {"idle", "parse", "prompt"}
Preparing == {"pull", "createExtractor", "extract"}
WithBox == {"wait", "logs", "removeBox"}
Unwinding == {"removeBox", "removeDirs", "removePrompt"}

\* The files of a call, by how far it got.
FilesInv(c) ==
  /\ pc[c] \in Early => c \notin prompt /\ dirs[c] = {}
  /\ pc[c] = "done" => (c \in prompt => 0 \in stuck[c]) /\ dirs[c] \subseteq stuck[c]
  /\ pc[c] \notin Early \cup {"done"} => c \in prompt
  /\ pc[c] \in Preparing => dirs[c] = 1..(skill[c] - 1)
  /\ pc[c] \in {"createExtractor", "extract", "removeExtractor"} => skill[c] <= Skills
  /\ pc[c] = "removeExtractor" =>
       IF pending[c] = D!Runtime!NoResult THEN dirs[c] = 1..skill[c]
                                          ELSE dirs[c] \ stuck[c] \subseteq 1..(skill[c] - 1)
  /\ pc[c] \in {"createBox", "start"} \cup WithBox =>
       skill[c] = Skills + 1 /\ dirs[c] = 1..Skills
  /\ pc[c] = "removeDirs" => dirs[c] \ stuck[c] \subseteq 1..(skill[c] - 1)
  /\ pc[c] = "removePrompt" => dirs[c] \subseteq stuck[c]
  /\ pc[c] \in Early => skill[c] = 1
  /\ pc[c] \in Early \cup {"pull"} => attempt[c] <= 2

\* The container of a call and how far its workload got.
BoxInv(c) ==
  /\ box[c] = "started" /\ c \notin undeleted => pc[c] \in WithBox
  /\ pc[c] \in Early \cup Preparing \cup {"removeExtractor", "createBox", "start"} =>
       box[c] # "started" /\ fate[c] = "unborn"

\* What a call is about to return is true of its workload.
BoxResultInv(c) ==
  /\ pc[c] \in Early \cup Preparing \cup {"createBox", "start", "wait", "logs"} =>
       pending[c] = D!Runtime!NoResult
  /\ pc[c] = "removeExtractor" /\ pending[c] # D!Runtime!NoResult =>
       D!Runtime!Truthful(pending[c], fate[c])
  /\ pc[c] = "logs" =>
       (code[c] = 0 /\ fate[c] = "succeeded") \/ (code[c] = 1 /\ fate[c] = "failed")
  /\ pc[c] \in Unwinding =>
       pending[c] # D!Runtime!NoResult /\ D!Runtime!Truthful(pending[c], fate[c])

CallInv(c) == FilesInv(c) /\ BoxInv(c) /\ BoxResultInv(c)

DockerInv == D!TypeOK /\ \A c \in Calls : CallInv(c)

\* A step of c is the business of c alone.
OnlyBoxOf(c) ==
  \A d \in Calls \ {c} :
    /\ pc'[d] = pc[d] /\ fate'[d] = fate[d] /\ code'[d] = code[d] /\ pending'[d] = pending[d]
    /\ skill'[d] = skill[d] /\ attempt'[d] = attempt[d] /\ dirs'[d] = dirs[d] /\ box'[d] = box[d]
    /\ stuck'[d] = stuck[d]
    /\ (d \in prompt') <=> (d \in prompt)
    /\ (d \in undeleted') <=> (d \in undeleted)

BoxStepOK(c) == D!TypeOK' /\ OnlyBoxOf(c) /\ CallInv(c)'

-----------------------------------------------------------------------------
\* The results that Exec returns.
LEMMA BoxResultFacts ==
  /\ D!Runtime!NoResult \in D!Runtime!Results
  /\ D!Runtime!Error \in D!Runtime!Results /\ D!Runtime!Error # D!Runtime!NoResult
  /\ \A f : D!Runtime!Truthful(D!Runtime!Error, f)
  /\ \A k \in 0..1, o \in BOOLEAN :
       D!Runtime!Returned(k, o) \in D!Runtime!Results /\ D!Runtime!Returned(k, o) # D!Runtime!NoResult
  /\ \A o \in BOOLEAN : D!Runtime!Truthful(D!Runtime!Returned(1, o), "failed")
  /\ D!Runtime!Truthful(D!Runtime!Returned(0, TRUE), "succeeded")
  /\ \A k \in 0..1, o \in BOOLEAN : D!Runtime!Truthful(D!Runtime!Returned(k, o), "broken")
  /\ \A r, f : D!Runtime!Truthful(r, "running") => D!Runtime!Truthful(r, f)
<1>1. D!Runtime!NoResult \in D!Runtime!Results /\ D!Runtime!Error \in D!Runtime!Results
  BY DEF D!Runtime!Results, D!Runtime!NoResult, D!Runtime!Error
<1>2. D!Runtime!NoResult.kind = "none" /\ D!Runtime!Error.kind = "error"
  BY DEF D!Runtime!NoResult, D!Runtime!Error
<1>3. ASSUME NEW k \in 0..1, NEW o \in BOOLEAN
      PROVE  /\ D!Runtime!Returned(k, o) \in D!Runtime!Results
             /\ D!Runtime!Returned(k, o).kind = "result"
             /\ D!Runtime!Returned(k, o).value.code = k
             /\ D!Runtime!Returned(k, o).value.output = o
  BY DEF D!Runtime!Returned, D!Runtime!Results, D!Runtime!ExecResult
<1>4. \A f : D!Runtime!Truthful(D!Runtime!Error, f)
  BY <1>2 DEF D!Runtime!Truthful
<1>5. \A o \in BOOLEAN : D!Runtime!Truthful(D!Runtime!Returned(1, o), "failed")
  BY <1>3, SMT DEF D!Runtime!Truthful, D!Runtime!Ends
<1>6. D!Runtime!Truthful(D!Runtime!Returned(0, TRUE), "succeeded")
  <2>1. 0 \in 0..1 /\ TRUE \in BOOLEAN
    BY SMT
  <2>2. D!Runtime!Returned(0, TRUE).value.code = 0 /\ D!Runtime!Returned(0, TRUE).value.output = TRUE
    BY <2>1, <1>3, Zenon
  <2>. QED BY <2>2 DEF D!Runtime!Truthful, D!Runtime!Ends
<1>7. \A r, f : D!Runtime!Truthful(r, "running") => D!Runtime!Truthful(r, f)
  BY DEF D!Runtime!Truthful, D!Runtime!Ends
<1>8. D!Runtime!Error # D!Runtime!NoResult
  BY <1>2
<1>9. \A k \in 0..1, o \in BOOLEAN : D!Runtime!Returned(k, o) # D!Runtime!NoResult
  BY <1>2, <1>3
<1>10. \A k \in 0..1, o \in BOOLEAN : D!Runtime!Truthful(D!Runtime!Returned(k, o), "broken")
  BY DEF D!Runtime!Truthful, D!Runtime!Ends
<1>. QED BY <1>1, <1>3, <1>4, <1>5, <1>6, <1>7, <1>8, <1>9, <1>10

\* Every step of a call keeps what is known of it and leaves the other calls alone.
LEMMA BoxStep ==
  ASSUME DockerInv, NEW c \in Calls,
         D!Begin(c) \/ D!Step(c) \/ D!BoxExits(c) \/ D!Expire(c)
  PROVE  BoxStepOK(c)
<1> USE BoxResultFacts, SandboxAssumption
<1> USE DEF BoxStepOK, OnlyBoxOf, CallInv, D!At, D!Goto, D!Fails, D!Refused,
            D!Sticks, D!PromptFile, D!ReplyLost, D!Accepted, D!Unwind, D!PCs,
            D!images, D!files, D!waits, Early, Preparing, WithBox, Unwinding
<1>0. D!TypeOK /\ FilesInv(c) /\ BoxInv(c) /\ BoxResultInv(c)
  BY DEF DockerInv
<1>1. CASE D!Begin(c)
  BY <1>0, <1>1 DEF D!Begin, D!TypeOK, FilesInv, BoxInv, BoxResultInv
<1>2. CASE D!ParseResources(c)
  <2>1. D!TypeOK'
    <3>1. pc' \in [Calls -> D!PCs]
      BY <1>0, <1>2 DEF D!ParseResources, D!TypeOK
    <3>2. result' \in [Calls -> D!Runtime!Results]
      BY <1>0, <1>2 DEF D!ParseResources, D!TypeOK
    <3>. QED BY <3>1, <3>2, <1>0, <1>2 DEF D!ParseResources, D!TypeOK
  <2>2. OnlyBoxOf(c)
    BY <1>0, <1>2 DEF D!ParseResources, D!TypeOK
  <2>3. FilesInv(c)'
    BY <1>0, <1>2 DEF D!ParseResources, D!TypeOK, FilesInv, BoxResultInv
  <2>4. BoxInv(c)'
    BY <1>0, <1>2 DEF D!ParseResources, D!TypeOK, BoxInv
  <2>5. BoxResultInv(c)'
    BY <1>0, <1>2 DEF D!ParseResources, D!TypeOK, BoxInv, BoxResultInv
  <2>. QED BY <2>1, <2>2, <2>3, <2>4, <2>5
<1>3. CASE D!PreparePromptFile(c)
  <2>1. D!TypeOK'
    <3>1. pc' \in [Calls -> D!PCs]
      BY <1>0, <1>3 DEF D!PreparePromptFile, D!TypeOK
    <3>2. result' \in [Calls -> D!Runtime!Results]
      BY <1>0, <1>3 DEF D!PreparePromptFile, D!TypeOK
    <3>3. prompt' \subseteq Calls
      BY <1>0, <1>3 DEF D!PreparePromptFile, D!TypeOK
    <3>4. faults' \in 0..MaxFaults
      BY <1>0, <1>3 DEF D!PreparePromptFile, D!TypeOK
    <3>5. stuck' \in [Calls -> SUBSET (0..Skills)]
      BY <1>0, <1>3 DEF D!PreparePromptFile, D!TypeOK
    <3>. QED BY <3>1, <3>2, <3>3, <3>4, <3>5, <1>0, <1>3 DEF D!PreparePromptFile, D!TypeOK
  <2>2. OnlyBoxOf(c)
    BY <1>0, <1>3 DEF D!PreparePromptFile, D!TypeOK
  <2>3. FilesInv(c)'
    <3>1. pc[c] = "prompt" /\ skill[c] = 1 /\ attempt[c] <= 2 /\ c \notin prompt /\ dirs[c] = {}
      BY <1>0, <1>3 DEF D!PreparePromptFile, FilesInv
    <3>2. 1..(skill[c] - 1) = {}
      BY <3>1, SMT
    <3>. QED BY <3>1, <3>2, <1>0, <1>3 DEF D!PreparePromptFile, D!TypeOK, FilesInv
  <2>4. BoxInv(c)'
    BY <1>0, <1>3 DEF D!PreparePromptFile, D!TypeOK, BoxInv
  <2>5. BoxResultInv(c)'
    BY <1>0, <1>3 DEF D!PreparePromptFile, D!TypeOK, BoxInv, BoxResultInv
  <2>. QED BY <2>1, <2>2, <2>3, <2>4, <2>5
<1>4. CASE D!EnsureImage(c)
  <2>1. D!TypeOK'
    <3>1. pc' \in [Calls -> D!PCs]
      BY <1>0, <1>4 DEF D!EnsureImage, D!MaxAttempts, D!TypeOK
    <3>2. attempt' \in [Calls -> 0..3]
      BY <1>0, <1>4 DEF D!EnsureImage, D!MaxAttempts, D!TypeOK, FilesInv
    <3>3. pending' \in [Calls -> D!Runtime!Results]
      BY <1>0, <1>4 DEF D!EnsureImage, D!MaxAttempts, D!TypeOK
    <3>4. faults' \in 0..MaxFaults
      BY <1>0, <1>4 DEF D!EnsureImage, D!MaxAttempts, D!TypeOK
    <3>. QED BY <3>1, <3>2, <3>3, <3>4, <1>0, <1>4 DEF D!EnsureImage, D!TypeOK
  <2>2. OnlyBoxOf(c)
    BY <1>0, <1>4 DEF D!EnsureImage, D!MaxAttempts, D!TypeOK
  <2>3. FilesInv(c)'
    <3>1. /\ pc[c] = "pull" /\ attempt[c] \in 0..2 /\ c \in prompt /\ dirs[c] = 1..(skill[c] - 1)
          /\ skill[c] \in 1..Skills + 1
      BY <1>0, <1>4, SMT DEF D!EnsureImage, D!TypeOK, FilesInv
    <3>2. UNCHANGED <<skill, prompt, dirs>>
      BY <1>4 DEF D!EnsureImage
    <3>3. CASE pc'[c] = "createExtractor" /\ skill[c] <= Skills
      BY <3>1, <3>2, <3>3 DEF FilesInv
    <3>4. CASE pc'[c] = "createBox" /\ ~(skill[c] <= Skills)
      <4>1. skill[c] = Skills + 1 /\ skill[c] - 1 = Skills
        BY <3>1, <3>4, SMT
      <4>. QED BY <4>1, <3>1, <3>2, <3>4 DEF FilesInv
    <3>5. CASE pc'[c] = "pull" /\ attempt'[c] <= 2
      BY <3>1, <3>2, <3>5 DEF FilesInv
    <3>6. CASE pc'[c] = "removeDirs"
      BY <3>1, <3>2, <3>6 DEF FilesInv
    <3>7. \/ pc'[c] = "createExtractor" /\ skill[c] <= Skills
          \/ pc'[c] = "createBox" /\ ~(skill[c] <= Skills)
          \/ pc'[c] = "pull" /\ attempt'[c] <= 2
          \/ pc'[c] = "removeDirs"
      BY <3>1, <1>0, <1>4, SMT DEF D!EnsureImage, D!MaxAttempts, D!TypeOK
    <3>. QED BY <3>3, <3>4, <3>5, <3>6, <3>7
  <2>4. BoxInv(c)'
    BY <1>0, <1>4 DEF D!EnsureImage, D!MaxAttempts, D!TypeOK, BoxInv
  <2>5. BoxResultInv(c)'
    BY <1>0, <1>4 DEF D!EnsureImage, D!MaxAttempts, D!TypeOK, BoxInv, BoxResultInv
  <2>. QED BY <2>1, <2>2, <2>3, <2>4, <2>5
<1>5. CASE D!CreateExtractor(c)
  <2>1. D!TypeOK'
    <3>1. pc' \in [Calls -> D!PCs]
      BY <1>0, <1>5 DEF D!CreateExtractor, D!TypeOK
    <3>2. pending' \in [Calls -> D!Runtime!Results]
      BY <1>0, <1>5 DEF D!CreateExtractor, D!TypeOK
    <3>3. extractors' \subseteq Calls
      BY <1>0, <1>5 DEF D!CreateExtractor, D!TypeOK
    <3>4. faults' \in 0..MaxFaults
      BY <1>0, <1>5 DEF D!CreateExtractor, D!TypeOK
    <3>. QED BY <3>1, <3>2, <3>3, <3>4, <1>0, <1>5 DEF D!CreateExtractor, D!TypeOK
  <2>2. OnlyBoxOf(c)
    BY <1>0, <1>5 DEF D!CreateExtractor, D!TypeOK
  <2>3. FilesInv(c)'
    BY <1>0, <1>5 DEF D!CreateExtractor, D!TypeOK, FilesInv, BoxResultInv
  <2>4. BoxInv(c)'
    BY <1>0, <1>5 DEF D!CreateExtractor, D!TypeOK, BoxInv
  <2>5. BoxResultInv(c)'
    BY <1>0, <1>5 DEF D!CreateExtractor, D!TypeOK, BoxInv, BoxResultInv
  <2>. QED BY <2>1, <2>2, <2>3, <2>4, <2>5
<1>6. CASE D!Extract(c)
  <2>1. D!TypeOK'
    <3>1. pc' \in [Calls -> D!PCs]
      BY <1>0, <1>6 DEF D!Extract, D!TypeOK
    <3>2. pending' \in [Calls -> D!Runtime!Results]
      BY <1>0, <1>6 DEF D!Extract, D!TypeOK
    <3>3. dirs' \in [Calls -> SUBSET (1..Skills)]
      <4>1. skill[c] \in 1..Skills
        BY <1>0, <1>6, SMT DEF D!Extract, D!TypeOK, FilesInv
      <4>2. dirs' = [dirs EXCEPT ![c] = @ \cup {skill[c]}] \/ UNCHANGED dirs
        BY <1>6 DEF D!Extract
      <4>. QED BY <4>1, <4>2, <1>0 DEF D!TypeOK
    <3>4. faults' \in 0..MaxFaults
      BY <1>0, <1>6 DEF D!Extract, D!TypeOK
    <3>5. stuck' \in [Calls -> SUBSET (0..Skills)]
      <4>1. skill[c] \in 0..Skills
        BY <1>0, <1>6, SMT DEF D!Extract, D!TypeOK, FilesInv
      <4>2. stuck' = [stuck EXCEPT ![c] = @ \cup {skill[c]}] \/ UNCHANGED stuck
        BY <1>6 DEF D!Extract
      <4>. QED BY <4>1, <4>2, <1>0 DEF D!TypeOK
    <3>. QED BY <3>1, <3>2, <3>3, <3>4, <3>5, <1>0, <1>6 DEF D!Extract, D!TypeOK
  <2>2. OnlyBoxOf(c)
    BY <1>0, <1>6 DEF D!Extract, D!TypeOK
  <2>3. FilesInv(c)'
    <3>1. /\ pc[c] = "extract" /\ c \in prompt /\ dirs[c] = 1..(skill[c] - 1)
          /\ skill[c] <= Skills /\ skill[c] \in Nat /\ skill[c] > 0 /\ pending[c] = D!Runtime!NoResult
      BY <1>0, <1>6, SMT DEF D!Extract, D!TypeOK, FilesInv, BoxResultInv
    <3>2. 1..(skill[c] - 1) \cup {skill[c]} = 1..skill[c]
      BY <3>1, SMT
    <3>3. UNCHANGED <<skill, prompt>> /\ pc'[c] = "removeExtractor"
      BY <1>0, <1>6 DEF D!Extract, D!TypeOK
    <3>4. \/ dirs'[c] = dirs[c] \cup {skill[c]} /\ pending'[c] = pending[c]
          \/ /\ dirs'[c] \ stuck'[c] \subseteq dirs[c]
             /\ pending'[c] = D!Runtime!Error
      BY <1>0, <1>6 DEF D!Extract, D!TypeOK
    <3>. QED BY <3>1, <3>2, <3>3, <3>4 DEF FilesInv
  <2>4. BoxInv(c)'
    BY <1>0, <1>6 DEF D!Extract, D!TypeOK, BoxInv
  <2>5. BoxResultInv(c)'
    BY <1>0, <1>6 DEF D!Extract, D!TypeOK, BoxInv, BoxResultInv
  <2>. QED BY <2>1, <2>2, <2>3, <2>4, <2>5
<1>7. CASE D!RemoveExtractor(c)
  <2>1. D!TypeOK'
    <3>1. pc' \in [Calls -> D!PCs]
      BY <1>0, <1>7 DEF D!RemoveExtractor, D!TypeOK
    <3>2. skill' \in [Calls -> 1..(Skills + 1)]
      BY <1>0, <1>7 DEF D!RemoveExtractor, D!TypeOK, FilesInv
    <3>3. attempt' \in [Calls -> 0..3]
      <4>1. attempt \in [Calls -> 0..3] /\ 0 \in 0..3
        BY <1>0, SMT DEF D!TypeOK
      <4>2. attempt' = attempt \/ attempt' = [attempt EXCEPT ![c] = 0]
        BY <1>7 DEF D!RemoveExtractor
      <4>. QED BY <4>1, <4>2
    <3>4. extractors' \subseteq Calls
      BY <1>0, <1>7 DEF D!RemoveExtractor, D!TypeOK
    <3>5. faults' \in 0..MaxFaults
      BY <1>0, <1>7 DEF D!RemoveExtractor, D!TypeOK
    <3>. QED BY <3>1, <3>2, <3>3, <3>4, <3>5, <1>0, <1>7 DEF D!RemoveExtractor, D!TypeOK
  <2>2. OnlyBoxOf(c)
    BY <1>0, <1>7 DEF D!RemoveExtractor, D!TypeOK
  <2>3. FilesInv(c)'
    BY <1>0, <1>7 DEF D!RemoveExtractor, D!TypeOK, FilesInv, BoxResultInv
  <2>4. BoxInv(c)'
    BY <1>0, <1>7 DEF D!RemoveExtractor, D!TypeOK, BoxInv
  <2>5. BoxResultInv(c)'
    BY <1>0, <1>7 DEF D!RemoveExtractor, D!TypeOK, BoxInv, BoxResultInv
  <2>. QED BY <2>1, <2>2, <2>3, <2>4, <2>5
<1>8. CASE D!CreateBox(c)
  <2>1. D!TypeOK'
    <3>1. pc' \in [Calls -> D!PCs]
      BY <1>0, <1>8 DEF D!CreateBox, D!TypeOK
    <3>2. box' \in [Calls -> {"none", "created", "started"}]
      BY <1>0, <1>8 DEF D!CreateBox, D!TypeOK
    <3>3. pending' \in [Calls -> D!Runtime!Results]
      BY <1>0, <1>8 DEF D!CreateBox, D!TypeOK
    <3>4. faults' \in 0..MaxFaults
      BY <1>0, <1>8 DEF D!CreateBox, D!TypeOK
    <3>. QED BY <3>1, <3>2, <3>3, <3>4, <1>0, <1>8 DEF D!CreateBox, D!TypeOK
  <2>2. OnlyBoxOf(c)
    BY <1>0, <1>8 DEF D!CreateBox, D!TypeOK
  <2>3. FilesInv(c)'
    BY <1>0, <1>8 DEF D!CreateBox, D!TypeOK, FilesInv, BoxResultInv
  <2>4. BoxInv(c)'
    BY <1>0, <1>8 DEF D!CreateBox, D!TypeOK, BoxInv
  <2>5. BoxResultInv(c)'
    BY <1>0, <1>8 DEF D!CreateBox, D!TypeOK, BoxInv, BoxResultInv
  <2>. QED BY <2>1, <2>2, <2>3, <2>4, <2>5
<1>9. CASE D!StartBox(c)
  <2>1. D!TypeOK'
    <3>1. pc' \in [Calls -> D!PCs]
      BY <1>0, <1>9 DEF D!StartBox, D!BoxStarts, D!Runtime!Fates, D!Runtime!Ends, D!TypeOK
    <3>2. box' \in [Calls -> {"none", "created", "started"}]
      BY <1>0, <1>9 DEF D!StartBox, D!BoxStarts, D!Runtime!Fates, D!Runtime!Ends, D!TypeOK
    <3>3. fate' \in [Calls -> D!Runtime!Fates]
      BY <1>0, <1>9 DEF D!StartBox, D!BoxStarts, D!Runtime!Fates, D!Runtime!Ends, D!TypeOK
    <3>4. pending' \in [Calls -> D!Runtime!Results]
      BY <1>0, <1>9 DEF D!StartBox, D!BoxStarts, D!Runtime!Fates, D!Runtime!Ends, D!TypeOK
    <3>5. faults' \in 0..MaxFaults
      BY <1>0, <1>9 DEF D!StartBox, D!BoxStarts, D!Runtime!Fates, D!Runtime!Ends, D!TypeOK
    <3>. QED BY <3>1, <3>2, <3>3, <3>4, <3>5, <1>0, <1>9 DEF D!StartBox, D!TypeOK
  <2>2. OnlyBoxOf(c)
    BY <1>0, <1>9 DEF D!StartBox, D!BoxStarts, D!Runtime!Fates, D!Runtime!Ends, D!TypeOK
  <2>3. FilesInv(c)'
    BY <1>0, <1>9 DEF D!StartBox, D!BoxStarts, D!Runtime!Fates, D!Runtime!Ends, D!TypeOK, FilesInv, BoxResultInv
  <2>4. BoxInv(c)'
    BY <1>0, <1>9 DEF D!StartBox, D!BoxStarts, D!Runtime!Fates, D!Runtime!Ends, D!TypeOK, BoxInv
  <2>5. BoxResultInv(c)'
    BY <1>0, <1>9 DEF D!StartBox, D!BoxStarts, D!Runtime!Fates, D!Runtime!Ends, D!TypeOK, BoxInv, BoxResultInv
  <2>. QED BY <2>1, <2>2, <2>3, <2>4, <2>5
<1>10. CASE D!AwaitStatus(c)
  <2> DEFINE k == IF fate[c] = "failed" THEN 1 ELSE 0
  <2> DEFINE r == D!Runtime!Returned(k, FALSE)
  <2>k. k \in 0..1 /\ FALSE \in BOOLEAN /\ code'[c] = k
    BY <1>10, <1>0 DEF D!AwaitStatus, D!TypeOK
  <2>0. /\ r \in D!Runtime!Results /\ r # D!Runtime!NoResult
        /\ fate[c] \in {"failed", "broken"} => D!Runtime!Truthful(r, fate[c])
    <3>1. r \in D!Runtime!Results /\ r # D!Runtime!NoResult
      BY <2>k, BoxResultFacts, Zenon
    <3>2. CASE fate[c] = "failed"
      BY <3>1, <3>2, BoxResultFacts
    <3>3. CASE fate[c] = "broken"
      BY <3>1, <3>3, <2>k, BoxResultFacts, Zenon
    <3>. QED BY <3>1, <3>2, <3>3
  <2>1. /\ pc[c] = "wait" /\ fate[c] \in {"succeeded", "failed", "broken"}
        /\ code' = [code EXCEPT ![c] = k]
        /\ \/ fate[c] # "broken" /\ D!Goto(c, "logs") /\ UNCHANGED pending
           \/ fate[c] \in {"failed", "broken"} /\ D!Unwind(c, "removeBox", r)
        /\ UNCHANGED <<valid, D!images, D!files, extractors, box, fate, expired, errCh, result,
                       undeleted, faults>>
    BY <1>10, <2>k DEF D!AwaitStatus, D!Runtime!Ends
  <2>c. (fate[c] = "failed" => k = 1) /\ (fate[c] = "succeeded" => k = 0)
    OBVIOUS
  <2> HIDE DEF k, r
  <2>2. D!TypeOK'
    BY <2>k, <2>0, <2>1, <1>0 DEF D!TypeOK
  <2>3. OnlyBoxOf(c) /\ FilesInv(c)' /\ BoxInv(c)'
    BY <2>1, <1>0 DEF D!TypeOK, FilesInv, BoxInv
  <2>4. BoxResultInv(c)'
    BY <2>k, <2>c, <2>0, <2>1, <1>0 DEF D!TypeOK, BoxResultInv
  <2>. QED BY <2>2, <2>3, <2>4
<1>11. CASE D!AwaitNil(c)
  BY <1>0, <1>11 DEF D!AwaitNil, D!TypeOK, FilesInv, BoxInv, BoxResultInv
<1>12. CASE D!AwaitError(c)
  BY <1>0, <1>12 DEF D!AwaitError, D!TypeOK, FilesInv, BoxInv, BoxResultInv
<1>13. CASE D!CollectLogs(c)
  <2> DEFINE r == D!Runtime!Returned(code[c], TRUE)
  <2>0. pc[c] = "logs" /\ fate[c] \in {"succeeded", "failed"}
    BY <1>13, <1>0 DEF D!CollectLogs, BoxResultInv
  <2>1. r \in D!Runtime!Results /\ r # D!Runtime!NoResult /\ D!Runtime!Truthful(r, fate[c])
    BY <2>0, <1>0 DEF BoxResultInv, D!TypeOK
  <2>2. /\ D!Unwind(c, "removeBox", r) \/ D!Unwind(c, "removeBox", D!Runtime!Error)
        /\ D!Accepted(c) \/ D!Refused(c)
        /\ UNCHANGED <<valid, D!images, D!files, extractors, box, fate, expired, D!waits, result,
                       undeleted>>
    BY <1>13 DEF D!CollectLogs
  <2> HIDE DEF r
  <2>3. D!TypeOK'
    BY <2>1, <2>2, <1>0 DEF D!TypeOK
  <2>4. OnlyBoxOf(c) /\ FilesInv(c)' /\ BoxInv(c)' /\ BoxResultInv(c)'
    BY <2>0, <2>1, <2>2, <1>0 DEF D!TypeOK, FilesInv, BoxInv, BoxResultInv
  <2>. QED BY <2>3, <2>4
<1>14. CASE D!RemoveBox(c)
  <2>1. D!TypeOK' /\ OnlyBoxOf(c)
    BY <1>0, <1>14 DEF D!RemoveBox, D!TypeOK
  <2>2. FilesInv(c)'
    BY <1>0, <1>14 DEF D!RemoveBox, D!TypeOK, FilesInv
  <2>3. BoxInv(c)'
    BY <1>0, <1>14 DEF D!RemoveBox, D!TypeOK, BoxInv
  <2>4. BoxResultInv(c)'
    BY <1>0, <1>14 DEF D!RemoveBox, D!TypeOK, BoxResultInv
  <2>. QED BY <2>1, <2>2, <2>3, <2>4
<1>15. CASE D!RemoveDirs(c)
  <2>k. PICK kept \in SUBSET (dirs[c] \cap D!SkillDirs(c)) :
          /\ dirs' = [dirs EXCEPT ![c] = (@ \ D!SkillDirs(c)) \cup kept]
          /\ stuck' = [stuck EXCEPT ![c] = @ \cup kept]
          /\ UNCHANGED faults \/ D!Fails
    BY <1>15 DEF D!RemoveDirs
  <2>1. /\ pc[c] = "removeDirs" /\ D!Goto(c, "removePrompt")
        /\ UNCHANGED <<valid, D!images, prompt, extractors, box, fate, expired, D!waits, pending,
                       result, undeleted>>
    BY <1>15 DEF D!RemoveDirs
  <2>2. D!TypeOK'
    <3>1. kept \subseteq dirs[c] /\ dirs[c] \subseteq 1..Skills /\ stuck[c] \subseteq 0..Skills
      BY <2>k, <1>0 DEF D!TypeOK
    <3>2. 1..Skills \subseteq 0..Skills
      BY SMT
    <3>3. dirs' \in [Calls -> SUBSET (1..Skills)] /\ stuck' \in [Calls -> SUBSET (0..Skills)]
      BY <3>1, <3>2, <2>k, <1>0 DEF D!TypeOK
    <3>4. faults' \in 0..MaxFaults
      BY <2>k, <1>0 DEF D!TypeOK
    <3>. QED BY <3>3, <3>4, <2>1, <1>0 DEF D!TypeOK
  <2>3. OnlyBoxOf(c)
    BY <2>k, <2>1, <1>0 DEF D!TypeOK
  <2>4. FilesInv(c)'
    <3>1. dirs[c] \ D!SkillDirs(c) \subseteq stuck[c] /\ c \in prompt
      BY <2>1, <1>0 DEF FilesInv, D!SkillDirs
    <3>2. dirs'[c] \subseteq stuck'[c] /\ pc'[c] = "removePrompt"
      BY <3>1, <2>k, <2>1, <1>0 DEF D!TypeOK
    <3>. QED BY <3>1, <3>2, <2>1 DEF FilesInv
  <2>5. BoxInv(c)' /\ BoxResultInv(c)'
    BY <2>1, <1>0 DEF D!TypeOK, BoxInv, BoxResultInv
  <2>. QED BY <2>2, <2>3, <2>4, <2>5
<1>16. CASE D!RemovePrompt(c)
  BY <1>0, <1>16 DEF D!RemovePrompt, D!TypeOK, FilesInv, BoxInv, BoxResultInv
<1>17. CASE D!BoxExits(c)
  BY <1>0, <1>17 DEF D!BoxExits, D!Runtime!Fates, D!Runtime!Ends, D!TypeOK, FilesInv, BoxInv, BoxResultInv
<1>18. CASE D!Expire(c)
  BY <1>0, <1>18 DEF D!Expire, D!TypeOK, FilesInv, BoxInv, BoxResultInv
<1>. QED
  BY <1>1, <1>2, <1>3, <1>4, <1>5, <1>6, <1>7, <1>8, <1>9, <1>10, <1>11, <1>12, <1>13, <1>14, <1>15, <1>16, <1>17, <1>18 DEF D!Step

\* The initial states satisfy the invariant.
LEMMA DockerInvInit == D!Init => DockerInv
<1> SUFFICES ASSUME D!Init PROVE DockerInv
  OBVIOUS
<1> USE BoxResultFacts, SandboxAssumption
<1>1. D!TypeOK
  BY SMT DEF D!Init, D!TypeOK, D!PCs, D!Runtime!Fates, D!Runtime!Ends
<1>2. ASSUME NEW c \in Calls PROVE FilesInv(c)
  BY DEF D!Init, FilesInv, Early, Preparing, WithBox
<1>3. ASSUME NEW c \in Calls PROVE BoxInv(c) /\ BoxResultInv(c)
  BY DEF D!Init, BoxInv, BoxResultInv, Unwinding
<1>. QED BY <1>1, <1>2, <1>3 DEF DockerInv, CallInv

\* Every step preserves the invariant.
LEMMA DockerInvStep == DockerInv /\ [D!Next]_(D!vars) => DockerInv'
<1> SUFFICES ASSUME DockerInv, [D!Next]_(D!vars) PROVE DockerInv'
  OBVIOUS
<1>1. ASSUME NEW c \in Calls, D!Begin(c) \/ D!Step(c) \/ D!BoxExits(c) \/ D!Expire(c)
      PROVE  DockerInv'
  <2>1. BoxStepOK(c)
    BY <1>1, BoxStep
  <2>2. ASSUME NEW d \in Calls, d # c PROVE CallInv(d)'
    <3>1. /\ pc'[d] = pc[d] /\ fate'[d] = fate[d] /\ code'[d] = code[d]
          /\ pending'[d] = pending[d] /\ skill'[d] = skill[d] /\ attempt'[d] = attempt[d]
          /\ dirs'[d] = dirs[d] /\ box'[d] = box[d] /\ stuck'[d] = stuck[d]
          /\ (d \in prompt') <=> (d \in prompt)
          /\ (d \in undeleted') <=> (d \in undeleted)
      BY <2>1, <2>2 DEF BoxStepOK, OnlyBoxOf
    <3>2. CallInv(d)
      BY DEF DockerInv
    <3>. QED BY <3>1, <3>2 DEF CallInv, FilesInv, BoxInv, BoxResultInv
  <2>. QED BY <2>1, <2>2 DEF BoxStepOK, DockerInv
<1>2. CASE UNCHANGED D!vars
  BY <1>2 DEF D!vars, D!images, D!files, D!waits, DockerInv, D!TypeOK, CallInv, FilesInv, BoxInv, BoxResultInv
<1>. QED BY <1>1, <1>2 DEF D!Next

-----------------------------------------------------------------------------
(* The refinement.                                                           *)

Alive == {c \in Calls : box[c] = "started"}

\* What a change of one container does to the set of the workloads that exist.
LEMMA AliveOf ==
  ASSUME D!TypeOK, NEW c \in Calls, NEW s \in {"none", "created", "started"},
         box' = [box EXCEPT ![c] = s]
  PROVE  /\ s = "started" => Alive' = Alive \cup {c}
         /\ s # "started" => Alive' = Alive \ {c}
  BY DEF D!TypeOK, Alive

\* A step of the runtime, or none.
BoxSimulated == D!Runtime!Next \/ UNCHANGED D!Runtime!vars

\* Every step of a call is a step of the runtime, or a stutter.
LEMMA BoxRefines ==
  ASSUME DockerInv, NEW c \in Calls,
         D!Begin(c) \/ D!Step(c) \/ D!BoxExits(c) \/ D!Expire(c)
  PROVE  BoxSimulated
<1> USE BoxResultFacts
<1>0. D!TypeOK /\ FilesInv(c) /\ BoxInv(c) /\ BoxResultInv(c)
  BY DEF DockerInv, CallInv
<1>p. ASSUME NEW s \in D!PCs \ {"idle", "done"}, pc[c] \notin {"idle", "done"},
             pc' = [pc EXCEPT ![c] = s], Alive' = Alive, UNCHANGED <<fate, undeleted, result>>
      PROVE  BoxSimulated
  <2>1. Phase' = Phase
    BY <1>p, <1>0, PhaseStays DEF D!TypeOK
  <2>. QED BY <2>1, <1>p DEF BoxSimulated, D!Runtime!vars, Phase, Alive
<1>q. ASSUME NEW s \in D!PCs \ {"idle", "done"}, pc[c] \notin {"idle", "done"},
             pc' = [pc EXCEPT ![c] = s], UNCHANGED <<box, fate, undeleted, result>>
      PROVE  BoxSimulated
  <2>1. Alive' = Alive
    BY <1>q DEF Alive
  <2>. QED BY <2>1, <1>p, <1>q
<1>r. ASSUME NEW r \in D!Runtime!Results, r # D!Runtime!NoResult, D!Runtime!Truthful(r, fate[c]),
             pc[c] \notin {"idle", "done"}, box[c] = "started" => c \in undeleted,
             pc' = [pc EXCEPT ![c] = "done"], result' = [result EXCEPT ![c] = r],
             UNCHANGED <<box, fate, undeleted>>
      PROVE  BoxSimulated
  <2>1. Phase[c] = "executing" /\ Phase' = [Phase EXCEPT ![c] = "done"]
    BY <1>r, <1>0, PhaseOf, PhaseEnds DEF D!TypeOK
  <2>2. D!Runtime!Return(c)
    BY <2>1, <1>r DEF D!Runtime!Return, Phase
  <2>. QED BY <2>2 DEF BoxSimulated, D!Runtime!Next
<1>1. CASE D!Begin(c)
  <2>1. Phase[c] = "idle"
    BY <1>1, PhaseOf DEF D!Begin, D!At
  <2>2. pc'[c] = "parse" /\ \A d \in Calls : d # c => pc'[d] = pc[d]
    BY <1>0, <1>1 DEF D!Begin, D!Goto, D!TypeOK
  <2>3. \A d \in Calls : Phase'[d] = [Phase EXCEPT ![c] = "executing"][d]
    BY <2>2 DEF Phase
  <2>4. Phase' = [Phase EXCEPT ![c] = "executing"]
    BY <2>3 DEF Phase
  <2>5. D!Runtime!Begin(c)
    BY <2>1, <2>4, <1>1 DEF D!Begin, D!Runtime!Begin, Phase
  <2>. QED BY <2>5 DEF BoxSimulated, D!Runtime!Next
<1>2. CASE D!ParseResources(c)
  <2>1. pc[c] = "parse" /\ UNCHANGED <<box, fate, undeleted>> /\ box[c] # "started"
    BY <1>2, <1>0 DEF D!ParseResources, D!At, BoxInv, Early
  <2>2. CASE D!Goto(c, "prompt") /\ UNCHANGED result
    BY <2>1, <2>2, <1>q DEF D!Goto, D!PCs
  <2>3. CASE D!Goto(c, "done") /\ result' = [result EXCEPT ![c] = D!Runtime!Error]
    BY <2>1, <2>3, <1>r DEF D!Goto
  <2>. QED BY <2>2, <2>3, <1>2 DEF D!ParseResources
<1>3. CASE D!PreparePromptFile(c)
  <2>1. pc[c] = "prompt" /\ UNCHANGED <<box, fate, undeleted>> /\ box[c] # "started"
    BY <1>3, <1>0 DEF D!PreparePromptFile, D!At, BoxInv, Early
  <2>2. CASE D!Goto(c, "pull") /\ UNCHANGED result
    BY <2>1, <2>2, <1>q DEF D!Goto, D!PCs
  <2>3. CASE D!Goto(c, "done") /\ result' = [result EXCEPT ![c] = D!Runtime!Error]
    BY <2>1, <2>3, <1>r DEF D!Goto
  <2>. QED BY <2>2, <2>3, <1>3 DEF D!PreparePromptFile
<1>4. CASE D!EnsureImage(c)
  <2>1. pc[c] = "pull" /\ UNCHANGED <<box, fate, undeleted, result>>
    BY <1>4 DEF D!EnsureImage, D!At
  <2>2. CASE UNCHANGED pc
    BY <2>1, <2>2 DEF BoxSimulated, D!Runtime!vars
  <2>3. CASE \E s \in {"createExtractor", "createBox", "removeDirs"} : pc' = [pc EXCEPT ![c] = s]
    BY <2>1, <2>3, <1>q DEF D!PCs
  <2>. QED BY <2>2, <2>3, <1>4 DEF D!EnsureImage, D!Goto, D!Unwind
<1>5. CASE D!CreateExtractor(c) \/ D!Extract(c) \/ D!RemoveExtractor(c)
  <2>1. /\ pc[c] \notin {"idle", "done"} /\ UNCHANGED <<box, fate, undeleted, result>>
        /\ \E s \in {"extract", "removeDirs", "removeExtractor", "pull"} : pc' = [pc EXCEPT ![c] = s]
    BY <1>5 DEF D!CreateExtractor, D!Extract, D!RemoveExtractor, D!At, D!Goto, D!Unwind, D!files, D!images
  <2>. QED BY <2>1, <1>q DEF D!PCs
<1>6. CASE D!CreateBox(c)
  <2>1. /\ pc[c] = "createBox" /\ UNCHANGED <<fate, undeleted, result>>
        /\ \E s \in {"start", "removeDirs"} : pc' = [pc EXCEPT ![c] = s]
        /\ box' = [box EXCEPT ![c] = "created"] \/ UNCHANGED box
    BY <1>6 DEF D!CreateBox, D!At, D!Goto, D!Unwind
  <2>2. Alive' = Alive
    <3>1. c \notin Alive
      BY <2>1, <1>0 DEF BoxInv, Alive
    <3>2. CASE UNCHANGED box
      BY <3>2 DEF Alive
    <3>3. CASE box' = [box EXCEPT ![c] = "created"]
      <4>1. Alive' = Alive \ {c}
        BY <3>3, <1>0, AliveOf
      <4>. QED BY <4>1, <3>1
    <3>. QED BY <2>1, <3>2, <3>3
  <2>. QED BY <2>1, <2>2, <1>p DEF D!PCs
<1>7. CASE D!StartBox(c)
  <2>1. /\ pc[c] = "start" /\ UNCHANGED <<undeleted, result>>
        /\ \E s \in {"wait", "removeBox"} : pc' = [pc EXCEPT ![c] = s]
        /\ D!BoxStarts(c) \/ UNCHANGED <<box, fate>>
    BY <1>7 DEF D!StartBox, D!At, D!Goto, D!Unwind
  <2>2. CASE UNCHANGED <<box, fate>>
    BY <2>1, <2>2, <1>q DEF D!PCs
  <2>3. CASE D!BoxStarts(c)
    <3>1. Phase' = Phase /\ Phase[c] = "executing"
      <4>1. PICK s \in D!PCs \ {"idle", "done"} : pc' = [pc EXCEPT ![c] = s]
        BY <2>1 DEF D!PCs
      <4>2. pc \in [Calls -> D!PCs] /\ pc[c] \notin {"idle", "done"}
        BY <2>1, <1>0 DEF D!TypeOK
      <4>. QED BY <4>1, <4>2, PhaseStays, PhaseOf
    <3>2. Alive' = Alive \cup {c} /\ fate' = [fate EXCEPT ![c] = "running"]
      BY <2>3, <1>0, AliveOf DEF D!BoxStarts
    <3>3. fate[c] = "unborn"
      BY <2>1, <1>0 DEF BoxInv
    <3>4. D!Runtime!Launch(c)
      BY <3>1, <3>2, <3>3, <2>1 DEF D!Runtime!Launch, Phase, Alive
    <3>. QED BY <3>4 DEF BoxSimulated, D!Runtime!Next
  <2>. QED BY <2>1, <2>2, <2>3
<1>8. CASE D!AwaitStatus(c) \/ D!AwaitNil(c) \/ D!AwaitError(c) \/ D!CollectLogs(c)
  <2>1. /\ pc[c] \notin {"idle", "done"} /\ UNCHANGED <<box, fate, undeleted, result>>
        /\ \/ UNCHANGED pc
           \/ \E s \in {"logs", "removeBox"} : pc' = [pc EXCEPT ![c] = s]
    BY <1>8 DEF D!AwaitStatus, D!AwaitNil, D!AwaitError, D!CollectLogs, D!At, D!Goto, D!Unwind
  <2>2. CASE UNCHANGED pc
    BY <2>1, <2>2 DEF BoxSimulated, D!Runtime!vars
  <2>3. CASE \E s \in {"logs", "removeBox"} : pc' = [pc EXCEPT ![c] = s]
    BY <2>1, <2>3, <1>q DEF D!PCs
  <2>. QED BY <2>1, <2>2, <2>3
<1>9. CASE D!RemoveBox(c)
  <2>1. /\ pc[c] = "removeBox" /\ pc' = [pc EXCEPT ![c] = "removeDirs"]
        /\ UNCHANGED <<fate, result>>
        /\ \/ box' = [box EXCEPT ![c] = "none"] /\ UNCHANGED undeleted
           \/ c \in Alive /\ undeleted' = undeleted \cup {c} /\ UNCHANGED box
           \/ UNCHANGED <<box, undeleted>>
    BY <1>9 DEF D!RemoveBox, D!At, D!Goto, Alive
  <2>2. Phase' = Phase /\ Phase[c] = "executing"
    BY <2>1, <1>0, PhaseStays, PhaseOf DEF D!PCs, D!TypeOK
  <2>3. CASE box' = [box EXCEPT ![c] = "none"] /\ UNCHANGED undeleted
    <3>1. Alive' = Alive \ {c}
      BY <2>3, <1>0, AliveOf
    <3>2. CASE c \in Alive
      <4>1. D!Runtime!Remove(c)
        BY <2>1, <2>2, <2>3, <3>1, <3>2 DEF D!Runtime!Remove, Phase, Alive
      <4>. QED BY <4>1 DEF BoxSimulated, D!Runtime!Next
    <3>3. CASE c \notin Alive
      <4>1. Alive' = Alive
        BY <3>1, <3>3
      <4>. QED BY <4>1, <2>1, <2>3, <1>p DEF D!PCs
    <3>. QED BY <3>2, <3>3
  <2>4. CASE c \in Alive /\ undeleted' = undeleted \cup {c} /\ UNCHANGED box
    <3>1. Alive' = Alive
      BY <2>4 DEF Alive
    <3>2. D!Runtime!Abandon(c)
      BY <2>1, <2>2, <2>4, <3>1 DEF D!Runtime!Abandon, Phase, Alive
    <3>. QED BY <3>2 DEF BoxSimulated, D!Runtime!Next
  <2>5. CASE UNCHANGED <<box, undeleted>>
    BY <2>1, <2>5, <1>q DEF D!PCs
  <2>. QED BY <2>1, <2>3, <2>4, <2>5
<1>10. CASE D!RemoveDirs(c)
  BY <1>10, <1>q DEF D!RemoveDirs, D!At, D!Goto, D!PCs
<1>11. CASE D!RemovePrompt(c)
  <2>1. /\ pc[c] = "removePrompt" /\ pc' = [pc EXCEPT ![c] = "done"]
        /\ result' = [result EXCEPT ![c] = pending[c]] /\ UNCHANGED <<box, fate, undeleted>>
    BY <1>11 DEF D!RemovePrompt, D!At, D!Goto
  <2>2. /\ pending[c] \in D!Runtime!Results /\ pending[c] # D!Runtime!NoResult
        /\ D!Runtime!Truthful(pending[c], fate[c])
    BY <2>1, <1>0 DEF D!TypeOK, BoxResultInv, Unwinding
  <2>3. box[c] = "started" => c \in undeleted
    BY <2>1, <1>0 DEF BoxInv, WithBox
  <2>. QED BY <2>1, <2>2, <2>3, <1>r
<1>12. CASE D!BoxExits(c)
  <2>1. Phase' = Phase /\ Alive' = Alive
    BY <1>12 DEF D!BoxExits, Phase, Alive
  <2>2. c \in Alive
    BY <1>12 DEF D!BoxExits, Alive
  <2>3. D!Runtime!Finish(c)
    BY <2>1, <2>2, <1>12 DEF D!BoxExits, D!Runtime!Finish, Phase, Alive
  <2>. QED BY <2>3 DEF BoxSimulated, D!Runtime!Next
<1>13. CASE D!Expire(c)
  BY <1>13 DEF D!Expire, BoxSimulated, D!Runtime!vars
<1>. QED
  BY <1>1, <1>2, <1>3, <1>4, <1>5, <1>6, <1>7, <1>8, <1>9, <1>10, <1>11, <1>12, <1>13 DEF D!Step

-----------------------------------------------------------------------------
(* Either runtime.                                                           *)

\* The runtime of the process keeps its invariant; the other one has started nothing.
SandboxesInv ==
  \/ runtime = "docker" /\ DockerInv /\ jobs = {}
  \/ runtime = "kubernetes" /\ KubernetesInv /\ \A c \in Calls : box[c] # "started"

\* A step of the Docker runtime, or none, while there is no job.
LEMMA BoxImplements ==
  ASSUME BoxSimulated, jobs = {}, jobs' = {}
  PROVE  Runtime!Next \/ UNCHANGED Runtime!vars
<1>1. jobs \cup Alive = Alive /\ jobs' \cup Alive' = Alive'
  OBVIOUS
<1>2. UNCHANGED D!Runtime!vars => UNCHANGED Runtime!vars
  BY <1>1 DEF D!Runtime!vars, Runtime!vars, Alive
<1>3. ASSUME NEW c \in Calls
      PROVE  /\ D!Runtime!Begin(c) => Runtime!Begin(c)
             /\ D!Runtime!Launch(c) => Runtime!Launch(c)
             /\ D!Runtime!Finish(c) => Runtime!Finish(c)
             /\ D!Runtime!Remove(c) => Runtime!Remove(c)
             /\ D!Runtime!Abandon(c) => Runtime!Abandon(c)
  BY <1>1 DEF Alive, D!Runtime!Ends, Runtime!Ends, D!Runtime!Begin, Runtime!Begin, D!Runtime!Launch, Runtime!Launch,
              D!Runtime!Finish, Runtime!Finish, D!Runtime!Remove, Runtime!Remove,
              D!Runtime!Abandon, Runtime!Abandon
<1>4. ASSUME NEW c \in Calls, D!Runtime!Return(c) PROVE Runtime!Return(c)
  BY <1>1, <1>4 DEF Alive, D!Runtime!Return, Runtime!Return, D!Runtime!Results, Runtime!Results,
                    D!Runtime!ExecResult, Runtime!ExecResult, D!Runtime!NoResult, Runtime!NoResult,
                    D!Runtime!Truthful, Runtime!Truthful, D!Runtime!Ends, Runtime!Ends
<1>. QED BY <1>2, <1>3, <1>4 DEF BoxSimulated, D!Runtime!Next, Runtime!Next

\* A step of the Kubernetes runtime, or none, while no container is started.
LEMMA JobImplements ==
  ASSUME JobSimulated, Alive = {}, Alive' = {}
  PROVE  Runtime!Next \/ UNCHANGED Runtime!vars
<1>1. jobs \cup Alive = jobs /\ jobs' \cup Alive' = jobs'
  OBVIOUS
<1>2. UNCHANGED K!Runtime!vars => UNCHANGED Runtime!vars
  BY <1>1 DEF K!Runtime!vars, Runtime!vars, Alive
<1>3. ASSUME NEW c \in Calls
      PROVE  /\ K!Runtime!Begin(c) => Runtime!Begin(c)
             /\ K!Runtime!Launch(c) => Runtime!Launch(c)
             /\ K!Runtime!Finish(c) => Runtime!Finish(c)
             /\ K!Runtime!Remove(c) => Runtime!Remove(c)
             /\ K!Runtime!Abandon(c) => Runtime!Abandon(c)
  BY <1>1 DEF Alive, K!Runtime!Ends, Runtime!Ends, K!Runtime!Begin, Runtime!Begin, K!Runtime!Launch, Runtime!Launch,
              K!Runtime!Finish, Runtime!Finish, K!Runtime!Remove, Runtime!Remove,
              K!Runtime!Abandon, Runtime!Abandon
<1>4. ASSUME NEW c \in Calls, K!Runtime!Return(c) PROVE Runtime!Return(c)
  BY <1>1, <1>4 DEF Alive, K!Runtime!Return, Runtime!Return, K!Runtime!Results, Runtime!Results,
                    K!Runtime!ExecResult, Runtime!ExecResult, K!Runtime!NoResult, Runtime!NoResult,
                    K!Runtime!Truthful, Runtime!Truthful, K!Runtime!Ends, Runtime!Ends
<1>. QED BY <1>2, <1>3, <1>4 DEF JobSimulated, K!Runtime!Next, Runtime!Next

\* The initial states satisfy the invariant.
LEMMA SandboxesInvInit == Init => SandboxesInv
  BY DockerInvInit, KubernetesInvInit DEF Init, D!Init, K!Init, SandboxesInv

\* Every step preserves the invariant and is a step of the runtime that the executor
\* knows, or a stutter.
LEMMA SandboxesStep ==
  ASSUME SandboxesInv, [Next]_vars
  PROVE  SandboxesInv' /\ (Runtime!Next \/ UNCHANGED Runtime!vars)
<1>1. CASE runtime = "docker"
  <2>1. DockerInv /\ jobs = {}
    BY <1>1 DEF SandboxesInv
  <2>2. runtime' = runtime /\ jobs' = jobs /\ [D!Next]_(D!vars)
    BY <1>1 DEF Next, DockerNext, KubernetesNext, kubernetesOnly, vars, dockerOnly, D!vars,
                D!images, D!files, D!waits
  <2>3. DockerInv'
    BY <2>1, <2>2, DockerInvStep
  <2>4. BoxSimulated
    <3>1. CASE UNCHANGED D!vars
      BY <3>1 DEF D!vars, BoxSimulated, D!Runtime!vars
    <3>. QED BY <2>1, <2>2, <3>1, BoxRefines DEF D!Next
  <2>. QED BY <1>1, <2>1, <2>2, <2>3, <2>4, BoxImplements DEF SandboxesInv
<1>2. CASE runtime = "kubernetes"
  <2>1. KubernetesInv /\ \A c \in Calls : box[c] # "started"
    BY <1>2 DEF SandboxesInv
  <2>2. runtime' = runtime /\ box' = box /\ [K!Next]_(K!vars)
    BY <1>2 DEF Next, DockerNext, KubernetesNext, kubernetesOnly, vars, dockerOnly, K!vars
  <2>3. KubernetesInv'
    BY <2>1, <2>2, KubernetesInvStep
  <2>4. JobSimulated
    <3>1. CASE UNCHANGED K!vars
      BY <3>1 DEF K!vars, JobSimulated, K!Runtime!vars
    <3>. QED BY <2>1, <2>2, <3>1, JobRefines DEF K!Next
  <2>5. Alive = {} /\ Alive' = {}
    BY <2>1, <2>2 DEF Alive
  <2>. QED BY <1>2, <2>1, <2>2, <2>3, <2>4, <2>5, JobImplements DEF SandboxesInv
<1>. QED BY <1>1, <1>2 DEF SandboxesInv

\* SandboxesInv is an invariant of Exec with either runtime, however many calls, skill
\* images and failures there are.
THEOREM SandboxesInvariance == Spec => []SandboxesInv
<1>1. SandboxesInv /\ [Next]_vars => SandboxesInv'
  BY SandboxesStep
<1>. QED BY <1>1, SandboxesInvInit, PTL DEF Spec

\* The state keeps its types.
THEOREM SandboxesTypes == Spec => []TypeOK
<1>1. SandboxesInv => TypeOK
  BY DEF SandboxesInv, DockerInv, KubernetesInv, TypeOK
<1>. QED BY <1>1, SandboxesInvariance, PTL

\* A job that is not yet given up always has its prompt secret: Exec creates the secret
\* first and cleanup deletes it last, also when a reply is lost.
THEOREM JobsHaveTheirSecret == Spec => []SecretOutlivesJob
<1>1. SandboxesInv => SecretOutlivesJob
  BY DEF SandboxesInv, KubernetesInv, ObjectsInv, WithJob, SecretOutlivesJob,
         K!SecretOutlivesJob, K!TypeOK
<1>. QED BY <1>1, SandboxesInvariance, PTL

\* With valid limits and no failing request, no secret outlives its call.
THEOREM SecretsAreDeleted == Spec => []NoSecretLeft
<1>1. SandboxesInv => NoSecretLeft
  BY DEF SandboxesInv, KubernetesInv, ObjectsInv, NoSecretLeft, K!NoSecretLeft
<1>. QED BY <1>1, SandboxesInvariance, PTL

\* The prompt file and the skill directories outlive the container that has them mounted:
\* Exec's deferred functions run in the reverse order of its acquisitions.
THEOREM MountsStay == Spec => []MountsOutliveBox
<1>1. SandboxesInv => MountsOutliveBox
  BY DEF SandboxesInv, DockerInv, CallInv, FilesInv, BoxInv, MountsOutliveBox,
         D!MountsOutliveBox, Early, WithBox
<1>. QED BY <1>1, SandboxesInvariance, PTL

\* Whatever request, copy, removal or deadline fails, Exec removes every file of its call
\* that can be removed before it returns.
THEOREM FilesAreRemoved == Spec => []NoFilesLeft
<1>1. SandboxesInv => NoFilesLeft
  BY DEF SandboxesInv, DockerInv, CallInv, FilesInv, NoFilesLeft, D!NoFilesLeft, D!PromptFile
<1>. QED BY <1>1, SandboxesInvariance, PTL

\* Either runtime does what the executor relies on: it returns no exit code 0 for a
\* workload that exited with another code, no success without its output, and leaves no
\* workload behind, unless the request to remove it failed.  What it returns of a
\* workload that the platform gave up after a clean exit is left open.
THEOREM SandboxesImplementRuntime == Spec => ImplementsRuntime
<1>1. Init => Runtime!Init
  <2> SUFFICES ASSUME Init PROVE Runtime!Init
    OBVIOUS
  <2>1. \A c \in Calls : Phase[c] = "idle"
    BY PhaseOf DEF Init, D!Init
  <2>2. Phase = [c \in Calls |-> "idle"]
    BY <2>1 DEF Phase
  <2>3. jobs \cup Alive = {}
    BY DEF Init, D!Init, K!Init, Alive
  <2>4. result = [c \in Calls |-> Runtime!NoResult]
    BY DEF Init, D!Init, D!Runtime!NoResult, Runtime!NoResult
  <2>. QED BY <2>2, <2>3, <2>4 DEF Init, D!Init, Runtime!Init, Phase, Alive
<1>2. SandboxesInv /\ [Next]_vars => [Runtime!Next]_(Runtime!vars)
  BY SandboxesStep
<1>. QED BY <1>1, <1>2, SandboxesInvariance, PTL DEF Spec, ImplementsRuntime, Runtime!Spec
=============================================================================
