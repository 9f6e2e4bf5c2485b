SPECIFICATION FairSpec
CONSTANTS
  r1 = r1
  r2 = r2
  x1 = x1
  p1 = p1
  p2 = p2
  github = github
  elsewhere = elsewhere
  norepo = norepo
  Repo <- Repos
  Caller = {x1, p1, p2}
  NoCaller = NoCaller
  WantsToken = {x1}
  Executor <- Executors
  Poster <- Posters
  Posts = {r1}
  Provider = {github}
  ProviderOf <- OneProvider
  Elsewhere <- elsewhere
  NoRepo <- norepo
  Job <- Jobs
  MaxInstalls = 2
  MaxHooks = 1
INVARIANTS TypeOK OneDiscovery IdIsOfTheRepo ToldIsCached OneClient TokenFitsClone
PROPERTY SandboxStarts
CHECK_DEADLOCK FALSE
