------------------------- MODULE InstallationsProofs -------------------------
(***************************************************************************)
(* What the installation cache guarantees for any number of repositories,  *)
(* callers, installations and webhooks, nobody waiting for nothing among   *)
(* it; that the executors and adapters are such callers; and that an       *)
(* executor's token fits what it clones, for any tasks, texts and          *)
(* providers.                                                              *)
(***************************************************************************)
EXTENDS ClaudeCode, TLAPS, FiniteSetTheorems, WellFoundedInduction

\* An id never belongs to another repository than the one it is kept for.
OriginInv ==
  /\ \A r \in Repo : installed[r] # None => issuedTo[installed[r]] = r
  /\ \A r \in Repo : cache[r] # None => issuedTo[cache[r]] = r
  /\ \A h \in hooks : issuedTo[h.id] = h.repo
  /\ IdIsOfTheRepo

\* Whoever asks GitHub, or has its answer, is the leader of that repository.
LeaderInv ==
  \A c \in Caller : ipc[c] \in {"ask", "store"} => group[repo[c]] = c

\* Where the current id was told it is cached and nothing older is on its way.
ToldInv ==
  \A r \in told : cache[r] = installed[r] /\ ~Outdated(r)

\* Who was given a client was given the one that is kept.
ClientInv ==
  \A c \in Caller : ipc[c] = "ok" /\ c \notin WantsToken =>
    client[c] = clients[id[c]] /\ clients[id[c]] # NoCaller /\ id[c] \in Issued

CacheInv == InstallationsTypeOK /\ OriginInv /\ LeaderInv /\ ToldInv /\ ClientInv

-----------------------------------------------------------------------------
\* The ids that were issued are the numbers up to the last one.
LEMMA IssuedIds ==
  ASSUME InstallationsTypeOK
  PROVE  Issued = 1..Len(issuedTo) /\ Len(issuedTo) \in Nat /\ Issued \subseteq InstallationId
BY InstallationsAssumption DEF InstallationsTypeOK, Issued, InstallationId

\* In the beginning nothing is cached, nobody leads and nobody has a client.
LEMMA InitCacheInv == InstallationsInit => CacheInv
BY InstallationsAssumption
DEF InstallationsInit, CacheInv, InstallationsTypeOK, OriginInv, LeaderInv, ToldInv, ClientInv,
    IdIsOfTheRepo, CallStates, None, Issued, InstallationId

\* The steps of GitHub and of the webhook handler.
LEMMA GitHubKeepsInv == ASSUME CacheInv, GitHubStep PROVE CacheInv'
<1> USE InstallationsAssumption DEF None
<1>0. InstallationsTypeOK BY DEF CacheInv
<1>i. Issued = 1..Len(issuedTo) /\ Len(issuedTo) \in Nat BY <1>0, IssuedIds
<1>1. ASSUME NEW r \in Repo, Install(r) PROVE CacheInv'
  <2>1. /\ issuedTo' \in Seq(Repo) /\ Len(issuedTo') = Len(issuedTo) + 1
        /\ issuedTo'[Len(issuedTo) + 1] = r
        /\ \A i \in 1..Len(issuedTo) : issuedTo'[i] = issuedTo[i]
    BY <1>1, <1>0, <1>i DEF Install, InstallationsTypeOK
  <2>2. Issued' = 1..(Len(issuedTo) + 1) BY <2>1 DEF Issued
  <2>3. InstallationsTypeOK'
    BY <1>0, <1>1, <1>i, <2>1, <2>2 DEF Install, InstallationsTypeOK, callVars
  <2>4. OriginInv'
    BY <1>0, <1>1, <1>i, <2>1, <2>2
    DEF Install, InstallationsTypeOK, callVars, CacheInv, OriginInv, IdIsOfTheRepo
  <2>5. (LeaderInv /\ ClientInv)'
    BY <1>0, <1>1, <1>i, <2>2 DEF Install, callVars, CacheInv, LeaderInv, ClientInv
  <2>6. ToldInv'
    BY <1>0, <1>1 DEF Install, InstallationsTypeOK, callVars, CacheInv, ToldInv, Outdated
  <2> QED BY <2>3, <2>4, <2>5, <2>6 DEF CacheInv
<1>2. ASSUME NEW r \in Repo, Uninstall(r) PROVE CacheInv'
  <2>1. (InstallationsTypeOK /\ OriginInv /\ LeaderInv /\ ClientInv)'
    BY <1>0, <1>2
    DEF Uninstall, InstallationsTypeOK, callVars, CacheInv, OriginInv, IdIsOfTheRepo, LeaderInv,
        ClientInv, Issued
  <2>2. ToldInv'
    BY <1>0, <1>2 DEF Uninstall, InstallationsTypeOK, callVars, CacheInv, ToldInv, Outdated
  <2> QED BY <2>1, <2>2 DEF CacheInv
<1>3. ASSUME NEW r \in Repo, SendHook(r) PROVE CacheInv'
  <2>1. (InstallationsTypeOK /\ OriginInv /\ LeaderInv /\ ClientInv)'
    BY <1>0, <1>3
    DEF SendHook, InstallationsTypeOK, callVars, CacheInv, OriginInv, IdIsOfTheRepo, LeaderInv,
        ClientInv, Issued
  <2>2. ToldInv'
    BY <1>0, <1>3 DEF SendHook, InstallationsTypeOK, callVars, CacheInv, ToldInv, Outdated
  <2> QED BY <2>1, <2>2 DEF CacheInv
<1>4. ASSUME NEW h \in hooks, TrackInstallation(h) PROVE CacheInv'
  <2>0. h.repo \in Repo /\ h.id \in Issued BY <1>0 DEF InstallationsTypeOK
  <2>1. (InstallationsTypeOK /\ OriginInv /\ LeaderInv /\ ClientInv)'
    BY <1>0, <1>4, <2>0
    DEF TrackInstallation, Told, InstallationsTypeOK, callVars, CacheInv, OriginInv, IdIsOfTheRepo,
        LeaderInv, ClientInv, Issued
  <2>2. ToldInv'
    BY <1>0, <1>4, <2>0
    DEF TrackInstallation, Told, InstallationsTypeOK, callVars, CacheInv, ToldInv, Outdated
  <2> QED BY <2>1, <2>2 DEF CacheInv
<1> QED BY <1>1, <1>2, <1>3, <1>4 DEF GitHubStep

\* The end of a discovery changes the leader and its followers alike.
LEMMA EndKeepsInv ==
  ASSUME CacheInv, NEW c \in Caller,
         ipc[c] \in {"ask", "store"},
         NEW s \in {"failed", "have"}, NEW i \in {None} \cup Issued,
         s = "have" => i # None /\ issuedTo[i] = repo[c],
         EndDiscovery(c, s, i),
         cache' = cache \/ cache' = [cache EXCEPT ![repo[c]] = i],
         cache' # cache => s = "have" /\ ipc[c] = "store" /\ id[c] = i,
         UNCHANGED <<githubVars, told, clients, repo, client>>
  PROVE  CacheInv'
<1> USE InstallationsAssumption DEF None
<1>0. InstallationsTypeOK /\ repo[c] \in Repo BY DEF CacheInv, InstallationsTypeOK
<1>1. Followers(c) \subseteq Caller /\ \A x \in Followers(c) : repo[x] = repo[c]
  BY DEF Followers
<1>2. InstallationsTypeOK'
  <2>1. /\ ipc' \in [Caller -> CallStates] /\ id' \in [Caller -> {None} \cup Issued]
        /\ group' \in [Repo -> Caller \cup {NoCaller}]
    BY <1>0 DEF EndDiscovery, InstallationsTypeOK, CallStates
  <2>2. cache' \in [Repo -> {None} \cup Issued]
    BY <1>0 DEF InstallationsTypeOK
  <2>3. Issued' = Issued
    BY DEF githubVars, Issued
  <2> QED BY <1>0, <2>1, <2>2, <2>3 DEF InstallationsTypeOK, githubVars
<1>3. OriginInv'
  BY <1>0, <1>1
  DEF EndDiscovery, InstallationsTypeOK, githubVars, Issued, CacheInv, OriginInv, IdIsOfTheRepo
<1>4. LeaderInv'
  <2> SUFFICES ASSUME NEW x \in Caller, ipc'[x] \in {"ask", "store"} PROVE group'[repo'[x]] = x
    BY DEF LeaderInv
  <2>1. x \notin Followers(c) /\ ipc[x] \in {"ask", "store"}
    BY <1>0 DEF EndDiscovery, InstallationsTypeOK
  <2>2. x # c /\ repo[x] # repo[c]
    BY <2>1 DEF CacheInv, LeaderInv, Followers
  <2> QED BY <2>1, <2>2, <1>0 DEF EndDiscovery, InstallationsTypeOK, CacheInv, LeaderInv
<1>5. ToldInv'
  BY <1>0, <1>1
  DEF EndDiscovery, InstallationsTypeOK, githubVars, CacheInv, ToldInv, Outdated
<1>6. ClientInv'
  BY <1>0, <1>1
  DEF EndDiscovery, InstallationsTypeOK, githubVars, CacheInv, ClientInv, Issued
<1> QED BY <1>2, <1>3, <1>4, <1>5, <1>6 DEF CacheInv

\* The steps of a caller.
LEMMA CallKeepsInv ==
  ASSUME CacheInv, NEW c \in Caller, CallStep(c) \/ Return(c) \/ \E r \in Repo : Call(c, r)
  PROVE  CacheInv'
<1> USE InstallationsAssumption DEF None
<1>0. InstallationsTypeOK /\ repo[c] \in Repo /\ id[c] \in {None} \cup Issued
  BY DEF CacheInv, InstallationsTypeOK
<1>i. Issued \subseteq InstallationId /\ Issued \subseteq Nat \ {0}
  BY <1>0, IssuedIds DEF InstallationId
<1>1. CASE FindFails(c)
  BY <1>1, EndKeepsInv DEF FindFails
<1>2. CASE DiscoverInstallation(c)
  <2>1. id[c] \in Issued /\ issuedTo[id[c]] = repo[c]
    BY <1>2 DEF DiscoverInstallation, CacheInv, OriginInv, IdIsOfTheRepo
  <2> QED BY <1>2, <1>i, <2>1, EndKeepsInv DEF DiscoverInstallation
<1>3. CASE \/ GetInstallationID(c) \/ Do(c) \/ FindRepositoryInstallation(c) \/ CreateToken(c)
           \/ GetInstallationClient(c) \/ LoadOrStoreClient(c) \/ Return(c) \/ \E r \in Repo : Call(c, r)
  <2> USE DEF githubVars, Issued
  <2>1. InstallationsTypeOK'
    <3>1. CASE GetInstallationID(c)
      BY <1>0, <3>1 DEF InstallationsTypeOK, GetInstallationID, CallAt, CallStates
    <3>2. CASE Do(c)
      BY <1>0, <3>2 DEF InstallationsTypeOK, Do, CallAt, CallStates
    <3>4. CASE FindRepositoryInstallation(c)
      BY <1>0, <3>4 DEF InstallationsTypeOK, FindRepositoryInstallation, CallAt, CallStates
    <3>5. CASE CreateToken(c)
      BY <1>0, <3>5 DEF InstallationsTypeOK, CreateToken, CallAt, CallStates
    <3>6. CASE GetInstallationClient(c)
      <4>1. id[c] \in InstallationId
        BY <1>i, <3>6 DEF GetInstallationClient, CacheInv, OriginInv, IdIsOfTheRepo
      <4> QED BY <1>0, <3>6, <4>1 DEF InstallationsTypeOK, GetInstallationClient, CallAt, CallStates
    <3>7. CASE Return(c)
      BY <1>0, <3>7 DEF InstallationsTypeOK, Return, CallAt, CallStates
    <3>8. CASE \E r \in Repo : Call(c, r)
      BY <1>0, <3>8 DEF InstallationsTypeOK, Call, CallAt, CallStates
    <3>3. CASE LoadOrStoreClient(c)
      <4>1. id[c] \in InstallationId
        BY <1>i, <3>3 DEF LoadOrStoreClient, CacheInv, OriginInv, IdIsOfTheRepo
      <4> QED BY <1>0, <3>3, <4>1 DEF InstallationsTypeOK, LoadOrStoreClient, CallAt, CallStates
    <3> QED BY <1>3, <3>1, <3>2, <3>3, <3>4, <3>5, <3>6, <3>7, <3>8
  <2>2. OriginInv'
    BY <1>0, <1>3
    DEF InstallationsTypeOK, GetInstallationID, Do, FindRepositoryInstallation, CreateToken,
        GetInstallationClient, LoadOrStoreClient, Return, Call, CallAt, CacheInv, OriginInv,
        IdIsOfTheRepo
  <2>3. LeaderInv'
    BY <1>0, <1>3
    DEF InstallationsTypeOK, GetInstallationID, Do, FindRepositoryInstallation, CreateToken,
        GetInstallationClient, LoadOrStoreClient, Return, Call, CallAt, CacheInv, LeaderInv
  <2>4. ToldInv'
    <3> USE <1>0 DEF InstallationsTypeOK, CallAt, CacheInv, ToldInv, Outdated
    <3>1. CASE GetInstallationID(c)
      BY <3>1 DEF GetInstallationID
    <3>5. CASE Do(c)
      BY <3>5 DEF Do
    <3>6. CASE \E r \in Repo : Call(c, r)
      BY <3>6 DEF Call
    <3>2. CASE FindRepositoryInstallation(c)
      BY <3>2 DEF FindRepositoryInstallation
    <3>3. CASE CreateToken(c) \/ Return(c)
      BY <3>3 DEF CreateToken, Return
    <3>4. CASE GetInstallationClient(c) \/ LoadOrStoreClient(c)
      BY <3>4 DEF GetInstallationClient, LoadOrStoreClient
    <3> QED BY <1>3, <3>1, <3>2, <3>3, <3>4, <3>5, <3>6
  <2>5. ClientInv'
    <3>1. CASE LoadOrStoreClient(c)
      <4>1. id[c] \in InstallationId /\ id[c] \in Issued
        BY <1>i, <3>1 DEF LoadOrStoreClient, CacheInv, OriginInv, IdIsOfTheRepo
      <4>2. c # NoCaller OBVIOUS
      <4> QED BY <1>0, <3>1, <4>1, <4>2
          DEF InstallationsTypeOK, LoadOrStoreClient, CallAt, CacheInv, ClientInv
    <3>2. CASE GetInstallationClient(c)
      <4>1. id[c] \in Issued
        BY <3>2 DEF GetInstallationClient, CacheInv, OriginInv, IdIsOfTheRepo
      <4> QED BY <1>0, <3>2, <4>1
          DEF InstallationsTypeOK, GetInstallationClient, CallAt, CacheInv, ClientInv
    <3>3. CASE \/ GetInstallationID(c) \/ Do(c) \/ FindRepositoryInstallation(c) \/ CreateToken(c)
               \/ Return(c) \/ \E r \in Repo : Call(c, r)
      BY <1>0, <3>3
      DEF InstallationsTypeOK, GetInstallationID, Do, FindRepositoryInstallation, CreateToken,
          Return, Call, CallAt, CacheInv, ClientInv
    <3> QED BY <1>3, <3>1, <3>2, <3>3
  <2> QED BY <2>1, <2>2, <2>3, <2>4, <2>5 DEF CacheInv
<1> QED BY <1>1, <1>2, <1>3 DEF CallStep

\* What leaves the provider and GitHub alone keeps the invariant.
LEMMA StutterKeepsInv == ASSUME CacheInv, UNCHANGED installationVars PROVE CacheInv'
BY DEF installationVars, githubVars, callVars, CacheInv, InstallationsTypeOK, OriginInv, LeaderInv,
       ToldInv, ClientInv, IdIsOfTheRepo, Outdated, Issued

-----------------------------------------------------------------------------
\* The inductive invariant: ids keep to their repository, a discovery has one
\* leader, what was told is cached, clients are shared.
THEOREM CacheInvariance == InstallationsSpec => []CacheInv
<1>1. CacheInv /\ [InstallationsNext]_installationVars => CacheInv'
  BY GitHubKeepsInv, CallKeepsInv, StutterKeepsInv DEF InstallationsNext
<1> QED BY InitCacheInv, <1>1, PTL DEF InstallationsSpec

\* However many callers miss the cache, one asks GitHub per repository.
THEOREM DiscoveriesAreShared == InstallationsSpec => []OneDiscovery
<1>1. CacheInv => OneDiscovery BY DEF CacheInv, LeaderInv, OneDiscovery
<1> QED BY CacheInvariance, <1>1, PTL

\* No caller is ever given the installation of another repository.
THEOREM IdsAreOfTheirRepo == InstallationsSpec => []IdIsOfTheRepo
<1>1. CacheInv => IdIsOfTheRepo BY DEF CacheInv, OriginInv
<1> QED BY CacheInvariance, <1>1, PTL

\* What a webhook told, with nothing older on its way, stays cached until the
\* installation changes.
THEOREM ToldStaysCached == InstallationsSpec => []ToldIsCached
<1>1. CacheInv => ToldIsCached BY DEF CacheInv, ToldInv, ToldIsCached
<1> QED BY CacheInvariance, <1>1, PTL

\* An installation has one client, whoever raced to make it.
THEOREM ClientsAreShared == InstallationsSpec => []OneClient
<1>1. CacheInv => OneClient BY DEF CacheInv, ClientInv, OneClient
<1> QED BY CacheInvariance, <1>1, PTL

-----------------------------------------------------------------------------
(* Nobody waits for nothing *)

\* The leader of a repository's discovery is at it, and who waits has a leader.
LedInv ==
  /\ \A r \in Repo : group[r] # NoCaller =>
       group[r] \in Caller /\ ipc[group[r]] \in {"ask", "store"} /\ repo[group[r]] = r
  /\ \A c \in Caller : ipc[c] = "wait" => group[repo[c]] # NoCaller

\* A step that leaves the discoveries alone, or in which c, who does not lead and does not
\* wait, goes somewhere else but to wait.
LEMMA LedFrame ==
  ASSUME InstallationsTypeOK, LedInv, NEW c \in Caller, group' = group,
         \A x \in Caller \ {c} : ipc'[x] = ipc[x] /\ repo'[x] = repo[x],
         \/ ipc[c] \notin {"ask", "store", "wait"} /\ ipc'[c] # "wait"
         \/ ipc[c] = "ask" /\ ipc'[c] = "store" /\ repo'[c] = repo[c]
  PROVE  LedInv'
<1>1. /\ \A r \in Repo : group[r] # NoCaller =>
           /\ group[r] \in Caller /\ ipc'[group[r]] \in {"ask", "store"}
           /\ repo'[group[r]] = r
  BY DEF LedInv
<1>2. \A x \in Caller : ipc'[x] = "wait" => group[repo'[x]] # NoCaller
  BY DEF LedInv
<1> QED BY <1>1, <1>2 DEF LedInv

\* The end of a discovery takes everyone along who waits for it.
LEMMA LedEnd ==
  ASSUME CacheInv, LedInv, NEW c \in Caller, ipc[c] \in {"ask", "store"},
         NEW s \in {"failed", "have"}, NEW i, EndDiscovery(c, s, i), repo' = repo
  PROVE  LedInv'
<1>1. /\ InstallationsTypeOK /\ repo[c] \in Repo /\ group[repo[c]] = c
      /\ group \in [Repo -> Caller \cup {NoCaller}] /\ repo \in [Caller -> Repo]
  BY DEF CacheInv, InstallationsTypeOK, LeaderInv
<1>2. /\ group' = [group EXCEPT ![repo[c]] = NoCaller]
      /\ \A x \in Followers(c) \cap Caller : ipc'[x] = s
      /\ \A x \in Caller \ Followers(c) : ipc'[x] = ipc[x]
  BY DEF EndDiscovery
<1>3. ASSUME NEW r \in Repo, group'[r] # NoCaller
      PROVE  group'[r] \in Caller /\ ipc'[group'[r]] \in {"ask", "store"} /\ repo'[group'[r]] = r
  <2>1. r # repo[c] /\ group'[r] = group[r]
    BY <1>1, <1>2, <1>3
  <2>2. group[r] \in Caller /\ ipc[group[r]] \in {"ask", "store"} /\ repo[group[r]] = r
    BY <1>3, <2>1 DEF LedInv
  <2>3. group[r] \notin Followers(c)
    BY <2>1, <2>2 DEF Followers
  <2> QED BY <1>2, <2>1, <2>2, <2>3
<1>4. ASSUME NEW x \in Caller, ipc'[x] = "wait" PROVE group'[repo'[x]] # NoCaller
  <2>1. x \notin Followers(c) /\ ipc[x] = "wait"
    BY <1>2, <1>4
  <2>2. repo[x] # repo[c] /\ repo[x] \in Repo
    BY <1>1, <2>1 DEF Followers
  <2> QED BY <1>1, <1>2, <2>1, <2>2 DEF LedInv
<1> QED BY <1>3, <1>4 DEF LedInv

\* The first to miss the cache leads, the next ones join.
LEMMA LedDo ==
  ASSUME CacheInv, LedInv, NEW c \in Caller, Do(c)
  PROVE  LedInv'
<1>1. /\ repo[c] \in Repo /\ repo' = repo /\ ipc[c] = "do" /\ c # NoCaller
      /\ group \in [Repo -> Caller \cup {NoCaller}] /\ repo \in [Caller -> Repo]
      /\ ipc \in [Caller -> CallStates]
  BY InstallationsAssumption DEF CacheInv, InstallationsTypeOK, Do
<1>2. \A r \in Repo : group[r] # NoCaller => group[r] # c
  BY <1>1 DEF LedInv
<1>3. CASE group[repo[c]] = NoCaller
  <2>1. /\ ipc' = [ipc EXCEPT ![c] = "ask"] /\ group' = [group EXCEPT ![repo[c]] = c]
    BY <1>3 DEF Do, CallAt
  <2> QED BY <1>1, <1>2, <2>1 DEF LedInv
<1>4. CASE group[repo[c]] # NoCaller
  <2>1. ipc' = [ipc EXCEPT ![c] = "wait"] /\ group' = group
    BY <1>4 DEF Do, CallAt
  <2> QED BY <1>1, <1>2, <1>4, <2>1 DEF LedInv
<1> QED BY <1>3, <1>4

\* Every step keeps it.
LEMMA LedStep ==
  ASSUME CacheInv, LedInv, [InstallationsNext]_installationVars
  PROVE  LedInv'
<1>1. /\ InstallationsTypeOK /\ ipc \in [Caller -> CallStates] /\ repo \in [Caller -> Repo]
  BY DEF CacheInv, InstallationsTypeOK
<1>2. CASE GitHubStep \/ UNCHANGED installationVars
  <2>1. UNCHANGED <<ipc, repo, group>>
    BY <1>2 DEF GitHubStep, Install, Uninstall, SendHook, TrackInstallation, callVars,
       installationVars
  <2> QED BY <2>1 DEF LedInv
<1>3. ASSUME NEW c \in Caller, CallStep(c) \/ Return(c) \/ \E r \in Repo : Call(c, r)
      PROVE  LedInv'
  <2>1. CASE FindFails(c)
    BY <2>1, LedEnd DEF FindFails
  <2>2. CASE DiscoverInstallation(c)
    BY <2>2, LedEnd DEF DiscoverInstallation
  <2>3. CASE Do(c)
    BY <2>3, LedDo
  <2>4. CASE FindRepositoryInstallation(c)
    <3>1. /\ ipc[c] = "ask" /\ ipc' = [ipc EXCEPT ![c] = "store"] /\ UNCHANGED <<repo, group>>
      BY <2>4 DEF FindRepositoryInstallation, CallAt
    <3> QED BY <1>1, <3>1, LedFrame
  <2>5. CASE \/ GetInstallationID(c) \/ CreateToken(c) \/ GetInstallationClient(c)
             \/ LoadOrStoreClient(c) \/ Return(c) \/ \E r \in Repo : Call(c, r)
    <3>1. /\ ipc[c] \in {"load", "have", "make", "ok", "failed", "idle"} /\ group' = group
          /\ \E s \in CallStates \ {"wait"} : CallAt(c, s)
          /\ \A x \in Caller \ {c} : repo'[x] = repo[x]
      BY <1>1, <2>5 DEF GetInstallationID, CreateToken, GetInstallationClient, LoadOrStoreClient,
         Return, Call, CallAt, CallStates
    <3>2. /\ \A x \in Caller \ {c} : ipc'[x] = ipc[x]
          /\ ipc'[c] # "wait"
      BY <1>1, <3>1 DEF CallAt
    <3> QED BY <1>1, <3>1, <3>2, LedFrame
  <2> QED BY <1>3, <2>1, <2>2, <2>3, <2>4, <2>5 DEF CallStep
<1> QED BY <1>2, <1>3 DEF InstallationsNext

\* Who waits for a discovery waits for another caller that is at it for the same
\* repository and is not waiting itself: a leader that fails leaves nobody behind.
WaitersHaveLeader ==
  \A c \in Caller : ipc[c] = "wait" =>
    \E l \in Caller : ipc[l] \in {"ask", "store"} /\ repo[l] = repo[c]

\* No caller of the provider waits for nothing (singleflight, with the leader's errors).
THEOREM WaitersAreLed == InstallationsSpec => []WaitersHaveLeader
<1>1. InstallationsInit => LedInv
  BY DEF InstallationsInit, LedInv
<1>2. CacheInv /\ LedInv /\ [InstallationsNext]_installationVars => LedInv'
  BY LedStep
<1>3. CacheInv /\ LedInv => WaitersHaveLeader
  BY DEF CacheInv, InstallationsTypeOK, LedInv, WaitersHaveLeader
<1> QED BY <1>1, <1>2, <1>3, CacheInvariance, PTL DEF InstallationsSpec

-----------------------------------------------------------------------------
(* The repositories of a text *)

\* What holds of 0 and of every number up to n after the one before it holds up to n.
LEMMA UpTo ==
  ASSUME NEW n \in Nat, NEW G, 0 \in G, \A k \in 1..n : k - 1 \in G => k \in G
  PROVE  0..n \subseteq G
<1> DEFINE B == {k \in 0..n : k \notin G}
<1> SUFFICES ASSUME B # {} PROVE FALSE
  OBVIOUS
<1>1. PICK k \in B : \A m \in B : ~(<<m, k>> \in OpToRel(<, Nat))
  <2>1. B \subseteq Nat
    OBVIOUS
  <2> HIDE DEF B
  <2> QED BY <2>1, NatLessThanWellFounded, WFMin
<1>2. k \in 1..n /\ k - 1 \in 0..n /\ k - 1 < k /\ k - 1 \in Nat
  OBVIOUS
<1>3. k - 1 \in B
  BY <1>2
<1>4. \A m \in B : ~(m < k)
  <2>1. B \subseteq Nat
    OBVIOUS
  <2> HIDE DEF B
  <2> QED BY <1>1, <2>1 DEF OpToRel
<1>5. ~(k - 1 < k)
  <2> HIDE DEF B
  <2> QED BY <1>3, <1>4, Zenon
<1> QED BY <1>2, <1>5, Zenon

\* A loop of n steps over values in V, and the results after each step that it may have.
Loops(n, V) == [(1..n) \X V -> V]
Results(n, V, b, F) ==
  {g \in [0..n -> V] : g[0] = b /\ \A k \in 1..n : g[k] = F[<<k, g[k - 1]>>]}

\* Every loop has results.
LEMMA LoopResults ==
  ASSUME NEW V, NEW b \in V, NEW n \in Nat, NEW F \in Loops(n, V)
  PROVE  Results(n, V, b, F) # {}
<1> USE DEF Loops
<1> DEFINE Runs(m) == {g \in [0..m -> V] : g[0] = b /\ \A k \in 1..m : g[k] = F[<<k, g[k - 1]>>]}
           G == {m \in 0..n : Runs(m) # {}}
<1>1. 0 \in G
  <2>1. [i \in 0..0 |-> b] \in Runs(0)
    OBVIOUS
  <2> QED BY <2>1
<1>2. ASSUME NEW m \in 1..n, m - 1 \in G PROVE m \in G
  <2>1. PICK g \in Runs(m - 1) : TRUE
    BY <1>2
  <2>2. g[m - 1] \in V /\ m - 1 \in 0..m - 1 /\ F[<<m, g[m - 1]>>] \in V
    OBVIOUS
  <2> DEFINE f == [i \in 0..m |-> IF i = m THEN F[<<m, g[m - 1]>>] ELSE g[i]]
  <2>3. /\ f \in [0..m -> V] /\ f[0] = b /\ f[m] = F[<<m, g[m - 1]>>]
        /\ \A k \in 0..m - 1 : f[k] = g[k]
    BY <2>2
  <2>4. ASSUME NEW k \in 1..m PROVE f[k] = F[<<k, f[k - 1]>>]
    <3> HIDE DEF f
    <3>1. f[k - 1] = g[k - 1]
      BY <2>3
    <3>2. CASE k = m
      BY <2>3, <3>1, <3>2
    <3>3. CASE k # m
      <4>1. k \in 1..m - 1 /\ k \in 0..m - 1
        BY <3>3
      <4>2. g[k] = F[<<k, g[k - 1]>>]
        BY <4>1
      <4> QED BY <2>3, <3>1, <4>1, <4>2
    <3> QED BY <3>2, <3>3
  <2>5. f \in Runs(m)
    <3> HIDE DEF f
    <3> QED BY <2>3, <2>4
  <2>6. m \in 0..n
    OBVIOUS
  <2> HIDE DEF Runs, f
  <2> QED BY <2>5, <2>6
<1>3. n \in G
  <2> HIDE DEF G
  <2> QED BY <1>1, <1>2, UpTo
<1> QED BY <1>3 DEF Results

\* The repositories found in a text are repositories, each found once.
LEMMA ExtractedOnce ==
  ASSUME NEW text \in Seq(Repo \cup {Elsewhere})
  PROVE  /\ ExtractReposFromText(text) \in Seq(Repo)
         /\ \A i, j \in DOMAIN ExtractReposFromText(text) :
              ExtractReposFromText(text)[i] = ExtractReposFromText(text)[j] => i = j
<1> DEFINE n == Len(text)
           V == {q \in Seq(Repo) : \A i, j \in DOMAIN q : q[i] = q[j] => i = j}
           F == [p \in (1..n) \X V |->
                   IF text[p[1]] = Elsewhere \/ Contains(p[2], text[p[1]]) THEN p[2]
                   ELSE Append(p[2], text[p[1]])]
           Fcn(g) == g = [k \in 0..n |->
                            IF k = 0 THEN << >>
                            ELSE IF text[k] = Elsewhere \/ Contains(g[k - 1], text[k]) THEN g[k - 1]
                            ELSE Append(g[k - 1], text[k])]
<1>1. n \in Nat /\ << >> \in V
  OBVIOUS
<1>2. ASSUME NEW q \in V, NEW r \in Repo, ~Contains(q, r) PROVE Append(q, r) \in V
  <2>1. /\ Append(q, r) \in Seq(Repo) /\ Len(q) \in Nat /\ DOMAIN q = 1..Len(q)
        /\ DOMAIN Append(q, r) = 1..(Len(q) + 1) /\ Append(q, r)[Len(q) + 1] = r
        /\ \A i \in 1..Len(q) : Append(q, r)[i] = q[i] /\ q[i] # r
    BY <1>2 DEF Contains
  <2>2. ASSUME NEW i \in 1..(Len(q) + 1), NEW j \in 1..(Len(q) + 1), Append(q, r)[i] = Append(q, r)[j]
        PROVE  i = j
    <3>1. CASE i \in 1..Len(q) /\ j \in 1..Len(q)
      BY <2>1, <2>2, <3>1
    <3>2. CASE ~(i \in 1..Len(q) /\ j \in 1..Len(q))
      BY <2>1, <2>2, <3>2
    <3> QED BY <3>1, <3>2
  <2> QED BY <2>1, <2>2
<1>3. F \in [(1..n) \X V -> V]
  <2>1. ASSUME NEW k \in 1..n, NEW q \in V, text[k] # Elsewhere, ~Contains(q, text[k])
        PROVE  Append(q, text[k]) \in V
    <3>1. text[k] \in Repo
      BY <2>1
    <3> HIDE DEF V
    <3> QED BY <1>2, <2>1, <3>1
  <2> HIDE DEF V
  <2> QED BY <2>1
<1>4. PICK g \in [0..n -> V] : g[0] = << >> /\ \A k \in 1..n : g[k] = F[<<k, g[k - 1]>>]
  <2> HIDE DEF F, V, n
  <2>1. Results(n, V, << >>, F) # {}
    BY <1>1, <1>3, LoopResults DEF Loops
  <2> QED BY <2>1 DEF Results
<1>5. Fcn(g)
  <2>1. ASSUME NEW k \in 1..n
        PROVE  g[k] = IF text[k] = Elsewhere \/ Contains(g[k - 1], text[k]) THEN g[k - 1]
                      ELSE Append(g[k - 1], text[k])
    <3>1. k - 1 \in 0..n /\ g[k - 1] \in V
      BY <1>1
    <3> HIDE DEF V
    <3> QED BY <1>4, <3>1
  <2> HIDE DEF V, F, n
  <2>2. \A k \in 0..n : k # 0 => k \in 1..n
    BY <1>1
  <2>3. g = [k \in 0..n |-> g[k]]
    BY <1>4
  <2> QED BY <1>4, <2>1, <2>2, <2>3
<1> DEFINE found == CHOOSE f : Fcn(f)
<1>6. Fcn(found)
  <2> HIDE DEF Fcn
  <2> QED BY <1>5
<1>7. /\ found[0] = << >>
      /\ \A k \in 1..n :
           found[k] = IF text[k] = Elsewhere \/ Contains(found[k - 1], text[k]) THEN found[k - 1]
                      ELSE Append(found[k - 1], text[k])
  <2> HIDE DEF found, V, F, n
  <2>1. 0 \in 0..n /\ \A k \in 1..n : k \in 0..n /\ k # 0
    BY <1>1
  <2> QED BY <1>6, <2>1
<1>8. found[n] \in V
  <2> DEFINE G == {k \in 0..n : found[k] \in V}
  <2>1. ASSUME NEW k \in 1..n, found[k - 1] \in V PROVE found[k] \in V
    <3>1. text[k] # Elsewhere => text[k] \in Repo
      OBVIOUS
    <3> HIDE DEF found, V
    <3> QED BY <1>2, <1>7, <2>1, <3>1
  <2> HIDE DEF found, V, n
  <2>2. 0 \in G /\ \A k \in 1..n : k - 1 \in G => k \in G
    BY <1>1, <1>7, <2>1
  <2>3. 0..n \subseteq G
    <3> HIDE DEF G
    <3> QED BY <1>1, <2>2, UpTo
  <2> QED BY <1>1, <2>3
<1>9. ExtractReposFromText(text) = found[n]
  BY DEF ExtractReposFromText
<1>10. ExtractReposFromText(text) \in V
  <2> HIDE DEF V, found
  <2> QED BY <1>8, <1>9
<1> QED BY <1>10

\* The matches of a task are repositories, in whatever order the metadata is met.
LEMMA MatchesAreRepos ==
  ASSUME NEW j \in Job, NEW metadata \in MapOrders(j.metadata)
  PROVE  AllMatches(j, metadata) \in Seq(Repo)
<1> DEFINE Text == Seq(Repo \cup {Elsewhere})
           texts == j.texts \o metadata
           n == Len(texts)
           V == Seq(Repo)
           F == [p \in (1..n) \X V |-> p[2] \o ExtractReposFromText(texts[p[1]])]
           Fcn(g) == g = [k \in 0..n |->
                            IF k = 0 THEN << >> ELSE g[k - 1] \o ExtractReposFromText(texts[k])]
<1>1. texts \in Seq(Text)
  <2>1. j.texts \in Seq(Text) /\ j.metadata \in SUBSET Text /\ IsFiniteSet(j.metadata)
    BY ClaudeCodeAssumption
  <2>2. Cardinality(j.metadata) \in Nat
    BY <2>1, FS_CardinalityType
  <2>3. metadata \in [1..Cardinality(j.metadata) -> j.metadata]
    BY DEF MapOrders, SetToSeqs
  <2> HIDE DEF Text
  <2>4. metadata \in Seq(Text)
    BY <2>1, <2>2, <2>3
  <2> QED BY <2>1, <2>4
<1>2. n \in Nat /\ << >> \in V
  BY <1>1
<1>3. ASSUME NEW k \in 1..n PROVE ExtractReposFromText(texts[k]) \in V
  <2>1. texts[k] \in Text
    <3> HIDE DEF Text, texts
    <3> QED BY <1>1
  <2> HIDE DEF texts
  <2> QED BY <2>1, ExtractedOnce
<1>4. ASSUME NEW k \in 1..n, NEW q \in V PROVE q \o ExtractReposFromText(texts[k]) \in V
  <2> HIDE DEF texts, n
  <2> QED BY <1>3
<1>5. F \in Loops(n, V)
  <2> HIDE DEF V, n, texts
  <2> QED BY <1>4 DEF Loops
<1>6. PICK g \in [0..n -> V] : g[0] = << >> /\ \A k \in 1..n : g[k] = F[<<k, g[k - 1]>>]
  <2> HIDE DEF F, V, n
  <2>1. Results(n, V, << >>, F) # {}
    BY <1>2, <1>5, LoopResults
  <2> QED BY <2>1 DEF Results
<1>7. Fcn(g)
  <2> HIDE DEF V, n, texts
  <2>1. ASSUME NEW k \in 1..n PROVE g[k] = g[k - 1] \o ExtractReposFromText(texts[k])
    <3>1. k - 1 \in 0..n /\ g[k - 1] \in V
      BY <1>2
    <3> QED BY <1>6, <3>1
  <2> HIDE DEF F
  <2>2. \A k \in 0..n : k # 0 => k \in 1..n
    BY <1>2
  <2>3. g = [k \in 0..n |-> g[k]]
    BY <1>6
  <2> QED BY <1>6, <2>1, <2>2, <2>3
<1> DEFINE matches == CHOOSE f : Fcn(f)
<1>8. Fcn(matches)
  <2> HIDE DEF Fcn
  <2> QED BY <1>7
<1>9. /\ matches[0] = << >>
      /\ \A k \in 1..n : matches[k] = matches[k - 1] \o ExtractReposFromText(texts[k])
  <2> HIDE DEF matches, V, F, n, texts
  <2>1. 0 \in 0..n /\ \A k \in 1..n : k \in 0..n /\ k # 0
    BY <1>2
  <2> QED BY <1>8, <2>1
<1>10. matches[n] \in V
  <2> DEFINE G == {k \in 0..n : matches[k] \in V}
  <2> HIDE DEF matches, V, n, texts
  <2>0. ASSUME NEW k \in 1..n, matches[k - 1] \in V PROVE matches[k] \in V
    BY <1>4, <1>9, <2>0
  <2>1. 0 \in G /\ \A k \in 1..n : k - 1 \in G => k \in G
    BY <1>2, <1>9, <2>0
  <2>2. 0..n \subseteq G
    <3> HIDE DEF G
    <3> QED BY <1>2, <2>1, UpTo
  <2> QED BY <1>2, <2>2
<1>11. AllMatches(j, metadata) = matches[n]
  BY DEF AllMatches
<1> QED BY <1>10, <1>11

-----------------------------------------------------------------------------
(* The executors *)

\* While it asks for another repository's token, that one's provider is marked and is not
\* the one that has a token for the task's own; that one is marked and its token in place.
TokenOK(x) ==
  /\ xpc[x] \in {"begin", "primary", "primaryAsked"} => got[x] = {}
  /\ xpc[x] = "primaryAsked" => main[x] # NoRepo
  /\ main[x] \in got[x] =>
       env[x][ProviderOf[main[x]]] = main[x] /\ ProviderOf[main[x]] \in seen[x]
  /\ xpc[x] = "matchAsked" =>
       /\ todo[x] # << >> /\ ProviderOf[Head(todo[x])] \in seen[x]
       /\ main[x] \in got[x] => ProviderOf[Head(todo[x])] # ProviderOf[main[x]]

ExecutorTypes ==
  /\ xpc \in [Executor -> {"begin", "primary", "primaryAsked", "match", "matchAsked", "exec"}]
  /\ job \in [Executor -> Job]
  /\ main \in [Executor -> Repo \cup {NoRepo}]
  /\ todo \in [Executor -> Seq(Repo)]
  /\ seen \in [Executor -> SUBSET Provider]
  /\ env \in [Executor -> [Provider -> Repo \cup {NoRepo}]]
  /\ got \in [Executor -> SUBSET Repo]

TokenInv == ExecutorTypes /\ \A x \in Executor : TokenOK(x)

\* A step of one execution leaves the others as they are.
LEMMA OthersStay ==
  ASSUME TokenInv, NEW x \in Executor,
         \A y \in Executor \ {x} : /\ xpc'[y] = xpc[y] /\ main'[y] = main[y] /\ todo'[y] = todo[y]
                                  /\ seen'[y] = seen[y] /\ env'[y] = env[y] /\ got'[y] = got[y],
         ExecutorTypes', TokenOK(x)'
  PROVE  TokenInv'
BY DEF TokenInv, TokenOK

\* The steps of an execution keep the token of its own repository.
LEMMA ExecutorKeepsInv ==
  ASSUME TokenInv, NEW x \in Executor, ExecutorStep(x)
  PROVE  TokenInv'
<1>1. ExecutorTypes /\ TokenOK(x)
  BY DEF TokenInv
<1>2. /\ main[x] \in Repo \cup {NoRepo} /\ todo[x] \in Seq(Repo) /\ seen[x] \in SUBSET Provider
      /\ env[x] \in [Provider -> Repo \cup {NoRepo}] /\ got[x] \in SUBSET Repo /\ job[x] \in Job
      /\ \A r \in Repo : ProviderOf[r] \in Provider
      /\ NoRepo \notin Repo
  BY <1>1, ClaudeCodeAssumption DEF ExecutorTypes
<1>3. todo[x] # << >> => Head(todo[x]) \in Repo /\ Tail(todo[x]) \in Seq(Repo)
  BY <1>2
<1>4. ASSUME NEW p \in Provider, NEW r \in Repo, Keep(x, p, r)
      PROVE  /\ env' \in [Executor -> [Provider -> Repo \cup {NoRepo}]]
             /\ got' \in [Executor -> SUBSET Repo]
             /\ got'[x] = got[x] \cup {r} /\ env'[x][p] = r
             /\ \A q \in Provider \ {p} : env'[x][q] = env[x][q]
             /\ \A y \in Executor \ {x} : env'[y] = env[y] /\ got'[y] = got[y]
  BY <1>1, <1>2, <1>4 DEF Keep, ExecutorTypes
<1>5. CASE ResolveVCSContext(x)
  <2>1. PICK metadata \in MapOrders(job[x].metadata) :
          LET matches == AllMatches(job[x], metadata)
          IN  /\ todo' = [todo EXCEPT ![x] = matches]
              /\ main' = [main EXCEPT ![x] = IF job[x].repo # NoRepo THEN job[x].repo
                                             ELSE IF matches # << >> THEN matches[1] ELSE NoRepo]
    BY <1>5 DEF ResolveVCSContext
  <2> DEFINE matches == AllMatches(job[x], metadata)
  <2>2. matches \in Seq(Repo) /\ job[x].repo \in Repo \cup {NoRepo}
    BY <1>2, MatchesAreRepos, ClaudeCodeAssumption
  <2> HIDE DEF matches
  <2>3. /\ todo' = [todo EXCEPT ![x] = matches]
        /\ main' = [main EXCEPT ![x] = IF job[x].repo # NoRepo THEN job[x].repo
                                       ELSE IF matches # << >> THEN matches[1] ELSE NoRepo]
    BY <2>1 DEF matches
  <2>4. matches # << >> => matches[1] \in Repo
    BY <2>2
  <2>5. ExecutorTypes'
    BY <1>1, <1>5, <2>2, <2>3, <2>4 DEF ExecutorTypes, ResolveVCSContext, ExecAt
  <2>6. TokenOK(x)'
    BY <1>1, <1>5 DEF ExecutorTypes, TokenOK, ResolveVCSContext, ExecAt
  <2> QED BY <1>1, <1>5, <2>3, <2>5, <2>6, OthersStay DEF ResolveVCSContext, ExecAt, ExecutorTypes
<1>6. CASE AskPrimary(x)
  <2>1. ExecutorTypes'
    BY <1>1, <1>6 DEF ExecutorTypes, AskPrimary, ExecAt
  <2>2. TokenOK(x)'
    BY <1>1, <1>6 DEF ExecutorTypes, TokenOK, AskPrimary, ExecAt
  <2> QED BY <1>1, <1>6, <2>1, <2>2, OthersStay DEF AskPrimary, ExecAt, ExecutorTypes
<1>7. CASE UsePrimary(x)
  <2>1. main[x] \in Repo /\ ProviderOf[main[x]] \in Provider /\ got[x] = {}
    BY <1>1, <1>2, <1>7 DEF TokenOK, UsePrimary
  <2>2. CASE ipc[x] = "ok"
    <3>1. Keep(x, ProviderOf[main[x]], main[x])
          /\ seen' = [seen EXCEPT ![x] = @ \cup {ProviderOf[main[x]]}]
      BY <1>7, <2>2 DEF UsePrimary
    <3>2. ExecutorTypes'
      BY <1>1, <1>4, <1>7, <2>1, <3>1 DEF ExecutorTypes, UsePrimary, ExecAt
    <3>3. TokenOK(x)'
      BY <1>1, <1>4, <1>7, <2>1, <3>1 DEF ExecutorTypes, TokenOK, UsePrimary, ExecAt
    <3> QED BY <1>1, <1>4, <1>7, <2>1, <3>1, <3>2, <3>3, OthersStay
            DEF UsePrimary, ExecAt, ExecutorTypes
  <2>3. CASE ipc[x] # "ok"
    <3>1. UNCHANGED <<env, got, seen>>
      BY <1>7, <2>3 DEF UsePrimary
    <3>2. ExecutorTypes'
      BY <1>1, <1>7, <3>1 DEF ExecutorTypes, UsePrimary, ExecAt
    <3>3. TokenOK(x)'
      BY <1>1, <1>7, <2>1, <3>1 DEF ExecutorTypes, TokenOK, UsePrimary, ExecAt
    <3> QED BY <1>1, <1>7, <3>1, <3>2, <3>3, OthersStay DEF UsePrimary, ExecAt, ExecutorTypes
  <2> QED BY <2>2, <2>3
<1>8. CASE AskMatch(x)
  <2>1. ProviderOf[Head(todo[x])] \in Provider
    BY <1>2, <1>3, <1>8 DEF AskMatch
  <2>2. CASE ProviderOf[Head(todo[x])] \in seen[x]
    <3>1. ExecutorTypes'
      BY <1>1, <1>3, <1>8, <2>2 DEF ExecutorTypes, AskMatch
    <3>2. TokenOK(x)'
      BY <1>1, <1>8, <2>2 DEF ExecutorTypes, TokenOK, AskMatch
    <3> QED BY <1>1, <1>8, <2>2, <3>1, <3>2, OthersStay DEF AskMatch, ExecutorTypes
  <2>3. CASE ProviderOf[Head(todo[x])] \notin seen[x]
    <3>0. seen' = [seen EXCEPT ![x] = @ \cup {ProviderOf[Head(todo[x])]}]
      BY <1>8, <2>3 DEF AskMatch
    <3>1. ExecutorTypes'
      <4>1. seen' \in [Executor -> SUBSET Provider]
        BY <1>1, <2>1, <3>0 DEF ExecutorTypes
      <4> QED BY <1>1, <1>8, <2>3, <4>1 DEF ExecutorTypes, AskMatch, ExecAt
    <3>2. TokenOK(x)'
      BY <1>1, <1>8, <2>3 DEF ExecutorTypes, TokenOK, AskMatch, ExecAt
    <3> QED BY <1>1, <1>8, <2>3, <3>1, <3>2, OthersStay DEF AskMatch, ExecAt, ExecutorTypes
  <2> QED BY <2>2, <2>3
<1>9. CASE UseMatch(x)
  <2>1. /\ todo[x] # << >> /\ Head(todo[x]) \in Repo /\ Tail(todo[x]) \in Seq(Repo)
        /\ ProviderOf[Head(todo[x])] \in seen[x]
        /\ main[x] \in got[x] => ProviderOf[Head(todo[x])] # ProviderOf[main[x]]
    BY <1>1, <1>3, <1>9 DEF TokenOK, UseMatch
  <2>2. CASE ipc[x] = "ok"
    <3>1. Keep(x, ProviderOf[Head(todo[x])], Head(todo[x])) /\ ProviderOf[Head(todo[x])] \in Provider
      BY <1>2, <1>9, <2>1, <2>2 DEF UseMatch
    <3>2. ExecutorTypes'
      BY <1>1, <1>4, <1>9, <2>1, <3>1 DEF ExecutorTypes, UseMatch, ExecAt
    <3>3. TokenOK(x)'
      <4>1. main'[x] \in got'[x] =>
              env'[x][ProviderOf[main[x]]] = main[x] /\ ProviderOf[main[x]] \in seen'[x]
        BY <1>1, <1>2, <1>4, <1>9, <2>1, <3>1 DEF TokenOK, UseMatch
      <4> QED BY <1>1, <1>9, <4>1 DEF ExecutorTypes, TokenOK, UseMatch, ExecAt
    <3> QED BY <1>1, <1>4, <1>9, <2>1, <3>1, <3>2, <3>3, OthersStay
            DEF UseMatch, ExecAt, ExecutorTypes
  <2>3. CASE ipc[x] # "ok"
    <3>1. UNCHANGED <<env, got>>
      BY <1>9, <2>3 DEF UseMatch
    <3>2. ExecutorTypes'
      BY <1>1, <1>9, <2>1, <3>1 DEF ExecutorTypes, UseMatch, ExecAt
    <3>3. TokenOK(x)'
      BY <1>1, <1>9, <3>1 DEF ExecutorTypes, TokenOK, UseMatch, ExecAt
    <3> QED BY <1>1, <1>9, <3>1, <3>2, <3>3, OthersStay DEF UseMatch, ExecAt, ExecutorTypes
  <2> QED BY <2>2, <2>3
<1>10. CASE Exec(x)
  <2>1. ExecutorTypes' /\ TokenOK(x)'
    BY <1>1, <1>10 DEF ExecutorTypes, TokenOK, Exec, ExecAt
  <2> QED BY <1>1, <1>10, <2>1, OthersStay DEF Exec, ExecAt, ExecutorTypes
<1>11. CASE UNCHANGED executorVars
  BY <1>11 DEF executorVars, TokenInv, ExecutorTypes, TokenOK
<1> QED BY <1>5, <1>6, <1>7, <1>8, <1>9, <1>10, <1>11 DEF ExecutorStep

-----------------------------------------------------------------------------
\* TokenInv is an invariant of the executors and adapters that share the provider.
THEOREM TokenInvariance == Spec => []TokenInv
<1>1. Init => TokenInv
  BY DEF Init, TokenInv, ExecutorTypes, TokenOK
<1>2. TokenInv /\ [Next]_vars => TokenInv'
  <2> SUFFICES ASSUME TokenInv, [Next]_vars PROVE TokenInv'
    OBVIOUS
  <2>1. CASE \E x \in Executor : ExecutorStep(x)
    BY <2>1, ExecutorKeepsInv
  <2>2. CASE UNCHANGED executorVars
    BY <2>2 DEF executorVars, TokenInv, ExecutorTypes, TokenOK
  <2> QED BY <2>1, <2>2 DEF Next, PosterStep, vars
<1> QED BY <1>1, <1>2, PTL DEF Spec

\* The token in the environment of an execution is for the repository it clones, once there
\* is one for that, whatever other repositories its texts mention.
THEOREM TokensFitClones == Spec => []TokenFitsClone
<1>1. TokenInv => TokenFitsClone
  BY DEF TokenInv, TokenOK, TokenFitsClone
<1> QED BY <1>1, TokenInvariance, PTL

\* The executors and the adapters are callers of the provider as it expects them: what holds
\* of the provider with any callers holds of it with these.
THEOREM ExecutorsAreCallers == Spec => InstallationsSpec
<1>1. Init => InstallationsInit
  BY DEF Init
<1>2. TokenInv /\ [Next]_vars => [InstallationsNext]_installationVars
  <2> SUFFICES ASSUME TokenInv, [Next]_vars
               PROVE  InstallationsNext \/ UNCHANGED installationVars
    OBVIOUS
  <2>1. ASSUME NEW x \in Executor, ExecutorStep(x)
        PROVE  InstallationsNext \/ UNCHANGED installationVars
    <3>1. x \in Caller
      BY ClaudeCodeAssumption
    <3>2. CASE AskPrimary(x)
      <4>1. main[x] # NoRepo => main[x] \in Repo
        BY DEF TokenInv, ExecutorTypes
      <4> QED BY <3>1, <3>2, <4>1 DEF AskPrimary, InstallationsNext
    <3>3. CASE AskMatch(x)
      <4>1. todo[x] # << >> /\ todo[x] \in Seq(Repo)
        BY <3>3 DEF TokenInv, ExecutorTypes, AskMatch
      <4>2. Head(todo[x]) \in Repo
        BY <4>1
      <4> QED BY <3>1, <3>3, <4>2 DEF AskMatch, InstallationsNext
    <3>4. CASE UsePrimary(x) \/ UseMatch(x)
      BY <3>1, <3>4 DEF UsePrimary, UseMatch, InstallationsNext
    <3>5. CASE CallStep(x)
      BY <3>1, <3>5 DEF InstallationsNext
    <3> QED BY <2>1, <3>2, <3>3, <3>4, <3>5 DEF ExecutorStep, ResolveVCSContext, Exec
  <2>2. ASSUME NEW c \in Poster, PosterStep(c) PROVE InstallationsNext
    <3>1. c \in Caller /\ Posts \subseteq Repo
      BY ClaudeCodeAssumption
    <3> QED BY <2>2, <3>1 DEF PosterStep, InstallationsNext
  <2> QED BY <2>1, <2>2 DEF Next, InstallationsNext, vars
<1> QED BY <1>1, <1>2, TokenInvariance, PTL DEF Spec, InstallationsSpec

\* The executors, the provider and the environments they build stay within their types.
THEOREM ExecutorTypesHold == Spec => []TypeOK
<1>1. TokenInv /\ CacheInv => TypeOK
  BY DEF TokenInv, ExecutorTypes, CacheInv, TypeOK
<1> QED BY <1>1, TokenInvariance, ExecutorsAreCallers, CacheInvariance, PTL
=============================================================================
