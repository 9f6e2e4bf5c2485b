---------------------------- MODULE Installations ----------------------------
(***************************************************************************)
(* The GitHub VCS provider (internal/vcs/github/github.go) and the cache   *)
(* of API clients of the GitHub adapter: which installation of the app a   *)
(* repository has.  Callers (executors that want a token, adapters that    *)
(* want a client) look the id up in a map and, if it is missing, join one  *)
(* discovery per repository; webhooks write to the same map.  GitHub is    *)
(* external: the app may be installed, removed and installed again.  Every *)
(* repository is taken to belong to an account of its own, since two of    *)
(* one account share an installation and cannot be mistaken for another.   *)
(***************************************************************************)
EXTENDS Naturals, Sequences, FiniteSets

CONSTANTS
  Repo,         \* repositories
  Caller,       \* goroutines that call the provider
  NoCaller,
  WantsToken,   \* the callers of CreateTokenForRepo; the others call getClientForRepo
  MaxInstalls,  \* bound: installations that are ever made
  MaxHooks      \* bound: webhooks that are ever sent

ASSUME InstallationsAssumption ==
  /\ NoCaller \notin Caller /\ WantsToken \subseteq Caller
  /\ MaxInstalls \in Nat /\ MaxHooks \in Nat

VARIABLES
  issuedTo,     \* external: the repository every installation id was issued to
  installed,    \* external: the id of each repository's installation, or None
  hooks,        \* external: webhooks on their way
  sent,         \* how many webhooks were sent
  told,         \* repositories whose current id a webhook has told (ghost, see below)
  cache,        \* repoInstallations
  group,        \* discoverGroup: the caller that leads a repository's discovery
  clients,      \* installationClients: the caller that made an id's client
  ipc,          \* where a caller is
  repo,         \* the repository it asks for
  id,           \* the installation id it holds
  client        \* the client it has been given

githubVars == <<issuedTo, installed, hooks, sent>>
callVars == <<ipc, repo, id, client>>
installationVars == <<githubVars, told, cache, group, clients, callVars>>

None == 0
Issued == DOMAIN issuedTo
InstallationId == 1..MaxInstalls
CallStates == {"idle", "load", "do", "ask", "store", "wait", "have", "make", "ok", "failed"}

InstallationsTypeOK ==
  /\ issuedTo \in Seq(Repo) /\ Len(issuedTo) <= MaxInstalls
  /\ installed \in [Repo -> {None} \cup Issued]
  /\ hooks \subseteq [repo : Repo, id : Issued]
  /\ sent \in 0..MaxHooks
  /\ told \subseteq Repo
  /\ cache \in [Repo -> {None} \cup Issued]
  /\ group \in [Repo -> Caller \cup {NoCaller}]
  /\ clients \in [InstallationId -> Caller \cup {NoCaller}]
  /\ ipc \in [Caller -> CallStates]
  /\ repo \in [Caller -> Repo]
  /\ id \in [Caller -> {None} \cup Issued]
  /\ client \in [Caller -> Caller \cup {NoCaller}]

InstallationsInit ==
  /\ issuedTo = << >>
  /\ installed = [r \in Repo |-> None]
  /\ hooks = {} /\ sent = 0 /\ told = {}
  /\ cache = [r \in Repo |-> None]
  /\ group = [r \in Repo |-> NoCaller]
  /\ clients = [i \in InstallationId |-> NoCaller]
  /\ ipc = [c \in Caller |-> "idle"]
  /\ repo \in [Caller -> Repo]
  /\ id = [c \in Caller |-> None]
  /\ client = [c \in Caller |-> NoCaller]

CallAt(c, s) == ipc' = [ipc EXCEPT ![c] = s]

-----------------------------------------------------------------------------
(* GitHub.                                                                   *)

\* The app is installed for a repository, instead of an earlier installation if
\* there is one; ids are never used again.
Install(r) ==
  /\ Len(issuedTo) < MaxInstalls
  /\ issuedTo' = Append(issuedTo, r)
  /\ installed' = [installed EXCEPT ![r] = Len(issuedTo) + 1]
  /\ told' = told \ {r}
  /\ UNCHANGED <<hooks, sent, cache, group, clients, callVars>>

Uninstall(r) ==
  /\ installed[r] # None
  /\ installed' = [installed EXCEPT ![r] = None]
  /\ told' = told \ {r}
  /\ UNCHANGED <<issuedTo, hooks, sent, cache, group, clients, callVars>>

\* A comment or a review makes a webhook that carries the installation it was
\* sent for; it may be on its way while that installation ends.
SendHook(r) ==
  /\ sent < MaxHooks /\ installed[r] # None
  /\ hooks' = hooks \cup {[repo |-> r, id |-> installed[r]]}
  /\ sent' = sent + 1
  /\ UNCHANGED <<issuedTo, installed, told, cache, group, clients, callVars>>

-----------------------------------------------------------------------------
(* The map of installation ids and the discovery.                            *)

\* What is on its way to the cache and was read from an earlier installation:
\* another webhook, or the answer a discovery has still to store.
Outdated(r) ==
  \/ \E h \in hooks : h.repo = r /\ h.id # installed[r]
  \/ \E c \in Caller : ipc[c] = "store" /\ repo[c] = r /\ id[c] # installed[r]

Told(r, i) == IF i = installed[r] /\ ~Outdated(r) THEN told \cup {r} ELSE told

\* Variant with a fault: an id that is there is kept.
TrackInstallationOnce(h) ==
  /\ h \in hooks
  /\ hooks' = hooks \ {h}
  /\ cache' = IF cache[h.repo] = None THEN [cache EXCEPT ![h.repo] = h.id] ELSE cache
  /\ told' = Told(h.repo, h.id)
  /\ UNCHANGED <<issuedTo, installed, sent, group, clients, callVars>>

\* handleWebhook stores the id of every webhook before it looks at its content.
\* told is history: the webhook was of the current installation, and nothing
\* older was left that could overwrite it.
TrackInstallation(h) ==
  /\ h \in hooks
  /\ hooks' = hooks \ {h}
  /\ cache' = [cache EXCEPT ![h.repo] = h.id]
  /\ told' = Told(h.repo, h.id)
  /\ UNCHANGED <<issuedTo, installed, sent, group, clients, callVars>>

\* A goroutine calls CreateTokenForRepo, or getClientForRepo.
Call(c, r) ==
  /\ ipc[c] = "idle"
  /\ CallAt(c, "load")
  /\ repo' = [repo EXCEPT ![c] = r]
  /\ UNCHANGED <<githubVars, told, cache, group, clients, id, client>>

GetInstallationID(c) ==
  /\ ipc[c] = "load"
  /\ id' = [id EXCEPT ![c] = cache[repo[c]]]
  /\ CallAt(c, IF cache[repo[c]] = None THEN "do" ELSE "have")
  /\ UNCHANGED <<githubVars, told, cache, group, clients, repo, client>>

\* Variant with a fault: every caller discovers for itself.
DoAlone(c) ==
  /\ ipc[c] = "do"
  /\ CallAt(c, "ask") /\ group' = [group EXCEPT ![repo[c]] = c]
  /\ UNCHANGED <<githubVars, told, cache, clients, repo, id, client>>

\* discoverGroup.Do: the first caller leads, the others wait for its result.
Do(c) ==
  /\ ipc[c] = "do"
  /\ IF group[repo[c]] = NoCaller
     THEN CallAt(c, "ask") /\ group' = [group EXCEPT ![repo[c]] = c]
     ELSE CallAt(c, "wait") /\ UNCHANGED group
  /\ UNCHANGED <<githubVars, told, cache, clients, repo, id, client>>

\* Variant with a fault: a caller takes the result of any discovery.
FollowersOfAny(c) == {c} \cup {x \in Caller : ipc[x] = "wait"}

\* Who gets the result of the discovery c leads.
Followers(c) == {c} \cup {x \in Caller : ipc[x] = "wait" /\ repo[x] = repo[c]}

\* Variant with a fault: only the leader hears of an error.
EndDiscoveryAlone(c, s, i) ==
  LET heard == IF s = "failed" THEN {c} ELSE Followers(c)
  IN  /\ ipc' = [x \in Caller |-> IF x \in heard THEN s ELSE ipc[x]]
      /\ id' = [x \in Caller |-> IF x \in heard THEN i ELSE id[x]]
      /\ group' = [group EXCEPT ![repo[c]] = NoCaller]

EndDiscovery(c, s, i) ==
  /\ ipc' = [x \in Caller |-> IF x \in Followers(c) THEN s ELSE ipc[x]]
  /\ id' = [x \in Caller |-> IF x \in Followers(c) THEN i ELSE id[x]]
  /\ group' = [group EXCEPT ![repo[c]] = NoCaller]

\* The leader's request under the leader's context: GitHub answers with the
\* installation of that moment.
FindRepositoryInstallation(c) ==
  /\ ipc[c] = "ask" /\ installed[repo[c]] # None
  /\ CallAt(c, "store")
  /\ id' = [id EXCEPT ![c] = installed[repo[c]]]
  /\ UNCHANGED <<githubVars, told, cache, group, clients, repo, client>>

\* There is none, the request fails, or the leader's context ends (the timeout of
\* its task, the connection of its webhook, the process): whoever waits gets the
\* leader's error.
FindFails(c) ==
  /\ ipc[c] = "ask"
  /\ EndDiscovery(c, "failed", None)
  /\ UNCHANGED <<githubVars, told, cache, clients, repo, client>>

\* The answer is stored whatever the cache holds by now.
DiscoverInstallation(c) ==
  /\ ipc[c] = "store"
  /\ cache' = [cache EXCEPT ![repo[c]] = id[c]]
  /\ EndDiscovery(c, "have", id[c])
  /\ UNCHANGED <<githubVars, told, clients, repo, client>>

-----------------------------------------------------------------------------
(* What the id is used for.                                                  *)

\* CreateInstallationToken: GitHub refuses an id that is not the repository's any
\* more, and the cache keeps it all the same; any other error is possible as well.
CreateToken(c) ==
  /\ ipc[c] = "have" /\ c \in WantsToken
  /\ \/ id[c] = installed[repo[c]] /\ CallAt(c, "ok")
     \/ CallAt(c, "failed")
  /\ UNCHANGED <<githubVars, told, cache, group, clients, repo, id, client>>

\* getInstallationClient: the client of the id, or a new one.
GetInstallationClient(c) ==
  /\ ipc[c] = "have" /\ c \notin WantsToken
  /\ IF clients[id[c]] # NoCaller
     THEN CallAt(c, "ok") /\ client' = [client EXCEPT ![c] = clients[id[c]]]
     ELSE CallAt(c, "make") /\ UNCHANGED client
  /\ UNCHANGED <<githubVars, told, cache, group, clients, repo, id>>

\* Variant with a fault: Store in place of LoadOrStore.
StoreClient(c) ==
  /\ ipc[c] = "make"
  /\ clients' = [clients EXCEPT ![id[c]] = c]
  /\ client' = [client EXCEPT ![c] = c]
  /\ CallAt(c, "ok")
  /\ UNCHANGED <<githubVars, told, cache, group, repo, id>>

\* Another caller may have stored one meanwhile: LoadOrStore returns that one.
LoadOrStoreClient(c) ==
  /\ ipc[c] = "make"
  /\ clients' = [clients EXCEPT ![id[c]] = IF @ = NoCaller THEN c ELSE @]
  /\ client' = [client EXCEPT ![c] = clients'[id[c]]]
  /\ CallAt(c, "ok")
  /\ UNCHANGED <<githubVars, told, cache, group, repo, id>>

\* The result is the caller's and it may call again.
Return(c) ==
  /\ ipc[c] \in {"ok", "failed"}
  /\ CallAt(c, "idle")
  /\ id' = [id EXCEPT ![c] = None]
  /\ UNCHANGED <<githubVars, told, cache, group, clients, repo, client>>

GitHubStep ==
  \/ \E r \in Repo : Install(r) \/ Uninstall(r) \/ SendHook(r)
  \/ \E h \in hooks : TrackInstallation(h)

CallStep(c) ==
  \/ GetInstallationID(c) \/ Do(c) \/ FindRepositoryInstallation(c) \/ FindFails(c)
  \/ DiscoverInstallation(c) \/ CreateToken(c)
  \/ GetInstallationClient(c) \/ LoadOrStoreClient(c)

InstallationsNext ==
  \/ GitHubStep
  \/ \E c \in Caller : CallStep(c) \/ Return(c) \/ \E r \in Repo : Call(c, r)

\* The provider with callers that call it as they like.
InstallationsSpec == InstallationsInit /\ [][InstallationsNext]_installationVars

-----------------------------------------------------------------------------
\* Callers of one repository share one discovery: however many miss the cache at
\* the same time, one of them asks GitHub and the others wait.
OneDiscovery ==
  \A c1, c2 \in Caller :
    /\ ipc[c1] \in {"ask", "store"} /\ ipc[c2] \in {"ask", "store"}
    /\ repo[c1] = repo[c2]
    => c1 = c2

\* The id a caller works with was issued to the repository it asked for, whether
\* it came from a webhook, from its own discovery or from another caller's.
IdIsOfTheRepo ==
  \A c \in Caller : ipc[c] \in {"store", "have", "make"} =>
    id[c] \in Issued /\ issuedTo[id[c]] = repo[c]

\* A new installation replaces the old one's id for good: once a webhook of it has
\* been handled, with nothing older on its way, the cache holds its id and no
\* discovery or webhook puts the old one back.
ToldIsCached ==
  \A r \in told : cache[r] = installed[r]

\* All callers that were given the client of one installation share one client, and
\* so one installation token, although they make it without a lock.
OneClient ==
  \A c1, c2 \in Caller :
    /\ ipc[c1] = "ok" /\ ipc[c2] = "ok"
    /\ c1 \notin WantsToken /\ c2 \notin WantsToken /\ id[c1] = id[c2]
    => client[c1] = client[c2]
=============================================================================
