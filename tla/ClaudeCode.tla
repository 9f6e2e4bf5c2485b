----------------------------- MODULE ClaudeCode -----------------------------
(***************************************************************************)
(* The coding executor up to its sandbox (internal/executor/claudecode,    *)
(* internal/vcs/vcs.go): which repository a task is about, and the tokens  *)
(* put into the sandbox's environment, each asked from the provider while  *)
(* installations change.  A text is the sequence of the URLs in it; the    *)
(* URL of a repository is the repository.  The adapters' goroutines that   *)
(* want an API client share the provider.                                  *)
(***************************************************************************)
EXTENDS Installations, SequencesExt

CONSTANTS
  Executor,     \* executions of a task
  Poster,       \* calls of SendResponse, Acknowledge
  Posts,        \* the repositories these are for
  Provider,     \* names of the registered VCS providers
  ProviderOf,   \* the provider that a repository's URL resolves to
  Elsewhere,    \* a URL that no provider recognises
  NoRepo,
  Job           \* what a task may hold: metadata "repo", its texts in order, other metadata

ASSUME ClaudeCodeAssumption ==
  /\ Caller = Executor \cup Poster /\ Executor \cap Poster = {}
  /\ WantsToken = Executor /\ Posts \subseteq Repo
  /\ ProviderOf \in [Repo -> Provider]
  /\ NoRepo \notin Repo /\ Elsewhere \notin Repo
  /\ Job \subseteq [repo : Repo \cup {NoRepo}, texts : Seq(Seq(Repo \cup {Elsewhere})),
                    metadata : SUBSET Seq(Repo \cup {Elsewhere})]
  /\ \A j \in Job : IsFiniteSet(j.metadata)

VARIABLES
  xpc,      \* where an execution is
  job,      \* the task it executes
  main,     \* the repository of the task
  todo,     \* the matches it has still to look at
  seen,     \* the providers it has done with
  env,      \* per provider, the repository its token in the environment is scoped to
  got       \* repositories it has obtained a token for (history)

executorVars == <<xpc, job, main, todo, seen, env, got>>
vars == <<installationVars, executorVars>>

TypeOK ==
  /\ InstallationsTypeOK
  /\ xpc \in [Executor -> {"begin", "primary", "primaryAsked", "match", "matchAsked", "exec"}]
  /\ job \in [Executor -> Job]
  /\ main \in [Executor -> Repo \cup {NoRepo}]
  /\ todo \in [Executor -> Seq(Repo)]
  /\ seen \in [Executor -> SUBSET Provider]
  /\ env \in [Executor -> [Provider -> Repo \cup {NoRepo}]]
  /\ got \in [Executor -> SUBSET Repo]

Init ==
  /\ InstallationsInit
  /\ repo = [c \in Caller |-> CHOOSE r \in Repo : TRUE]
  /\ xpc = [x \in Executor |-> "begin"]
  /\ job \in [Executor -> Job]
  /\ main = [x \in Executor |-> NoRepo]
  /\ todo = [x \in Executor |-> << >>]
  /\ seen = [x \in Executor |-> {}]
  /\ env = [x \in Executor |-> [p \in Provider |-> NoRepo]]
  /\ got = [x \in Executor |-> {}]

ExecAt(x, s) == xpc' = [xpc EXCEPT ![x] = s]

-----------------------------------------------------------------------------
\* The repositories of a text in the order of their first URLs, each once.
ExtractReposFromText(text) ==
  LET matches[k \in 0..Len(text)] ==
        IF k = 0 THEN << >>
        ELSE IF text[k] = Elsewhere \/ Contains(matches[k - 1], text[k]) THEN matches[k - 1]
        ELSE Append(matches[k - 1], text[k])
  IN  matches[Len(text)]

\* The orders in which a loop over the metadata map may meet its values.
MapOrders(texts) == SetToSeqs(texts)

\* The matches of the task's input and messages, then those of its metadata.
AllMatches(j, metadata) ==
  LET texts == j.texts \o metadata
      matches[k \in 0..Len(texts)] ==
        IF k = 0 THEN << >> ELSE matches[k - 1] \o ExtractReposFromText(texts[k])
  IN  matches[Len(texts)]

\* The repository is the one the event names; only without one is it the first
\* that is mentioned.
ResolveVCSContext(x) ==
  /\ xpc[x] = "begin"
  /\ \E metadata \in MapOrders(job[x].metadata) :
       LET matches == AllMatches(job[x], metadata)
       IN  /\ todo' = [todo EXCEPT ![x] = matches]
           /\ main' = [main EXCEPT ![x] = IF job[x].repo # NoRepo THEN job[x].repo
                                          ELSE IF matches # << >> THEN matches[1] ELSE NoRepo]
  /\ ExecAt(x, "primary")
  /\ UNCHANGED <<installationVars, job, seen, env, got>>

\* Variant with a fault: a task without a repository is asked for as well.
AskPrimaryUnchecked(x) ==
  /\ xpc[x] = "primary"
  /\ ExecAt(x, "primaryAsked") /\ Call(x, main[x])
  /\ UNCHANGED <<job, main, todo, seen, env, got>>

\* The token of the task's own repository is asked for first.
AskPrimary(x) ==
  /\ xpc[x] = "primary"
  /\ IF main[x] = NoRepo
     THEN ExecAt(x, "match") /\ UNCHANGED installationVars
     ELSE ExecAt(x, "primaryAsked") /\ Call(x, main[x])
  /\ UNCHANGED <<job, main, todo, seen, env, got>>

Keep(x, p, r) ==
  /\ env' = [env EXCEPT ![x][p] = r]
  /\ got' = [got EXCEPT ![x] = @ \cup {r}]

\* Variant with a fault: the provider is not marked as seen.
UsePrimaryUnseen(x) ==
  /\ xpc[x] = "primaryAsked"
  /\ Return(x)
  /\ IF ipc[x] = "ok" THEN Keep(x, ProviderOf[main[x]], main[x]) ELSE UNCHANGED <<env, got>>
  /\ ExecAt(x, "match")
  /\ UNCHANGED <<job, main, todo, seen>>

\* A provider whose token could not be made for the task's repository is still
\* asked for the first other repository of it that is mentioned.
UsePrimary(x) ==
  /\ xpc[x] = "primaryAsked"
  /\ Return(x)
  /\ LET p == ProviderOf[main[x]]
     IN  IF ipc[x] = "ok"
         THEN Keep(x, p, main[x]) /\ seen' = [seen EXCEPT ![x] = @ \cup {p}]
         ELSE UNCHANGED <<env, got, seen>>
  /\ ExecAt(x, "match")
  /\ UNCHANGED <<job, main, todo>>

\* The next match: one of a provider that was not asked yet is asked for.
AskMatch(x) ==
  /\ xpc[x] = "match" /\ todo[x] # << >>
  /\ LET p == ProviderOf[Head(todo[x])]
     IN  IF p \in seen[x]
         THEN /\ todo' = [todo EXCEPT ![x] = Tail(@)]
              /\ UNCHANGED <<installationVars, xpc, seen>>
         ELSE /\ seen' = [seen EXCEPT ![x] = @ \cup {p}]
              /\ Call(x, Head(todo[x]))
              /\ ExecAt(x, "matchAsked")
              /\ UNCHANGED todo
  /\ UNCHANGED <<job, main, env, got>>

UseMatch(x) ==
  /\ xpc[x] = "matchAsked"
  /\ Return(x)
  /\ IF ipc[x] = "ok" THEN Keep(x, ProviderOf[Head(todo[x])], Head(todo[x]))
                      ELSE UNCHANGED <<env, got>>
  /\ todo' = [todo EXCEPT ![x] = Tail(@)]
  /\ ExecAt(x, "match")
  /\ UNCHANGED <<job, main, seen>>

\* The sandbox is started with what was collected.
Exec(x) ==
  /\ xpc[x] = "match" /\ todo[x] = << >>
  /\ ExecAt(x, "exec")
  /\ UNCHANGED <<installationVars, job, main, todo, seen, env, got>>

ExecutorStep(x) ==
  \/ ResolveVCSContext(x) \/ AskPrimary(x) \/ UsePrimary(x)
  \/ AskMatch(x) \/ UseMatch(x) \/ Exec(x)
  \/ CallStep(x) /\ UNCHANGED executorVars

\* An adapter's goroutine asks for the client of a repository.
PosterStep(c) ==
  /\ CallStep(c) \/ \E r \in Posts : Call(c, r)
  /\ UNCHANGED executorVars

Next ==
  \/ \E x \in Executor : ExecutorStep(x)
  \/ \E c \in Poster : PosterStep(c)
  \/ GitHubStep /\ UNCHANGED executorVars

Spec == Init /\ [][Next]_vars

(***************************************************************************)
(* A goroutine keeps running, and a request ends at the latest with its    *)
(* context or its connection.  Nothing is assumed of installations,        *)
(* webhooks and of when contexts end.                                      *)
(***************************************************************************)
Fairness ==
  /\ \A x \in Executor : WF_vars(ExecutorStep(x))
  /\ \A c \in Poster : WF_vars(CallStep(c) /\ UNCHANGED executorVars)

FairSpec == Spec /\ Fairness

-----------------------------------------------------------------------------
\* The token the sandbox clones with is scoped to the repository it clones: once a
\* token was obtained for the task's repository, no URL in its texts, of the same
\* or of another repository, replaces it.
TokenFitsClone ==
  \A x \in Executor :
    main[x] \in got[x] => env[x][ProviderOf[main[x]]] = main[x]

\* Collecting tokens ends, whoever leads the discovery and however it fails: a
\* caller that waits for another one's request is not forgotten.
SandboxStarts ==
  \A x \in Executor : xpc[x] = "begin" ~> xpc[x] = "exec"
=============================================================================
