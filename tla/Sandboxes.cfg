\* One execution (executions share nothing), three skill images, up to four failures,
\* which is more than the attempts of a pull.  The call returns in the end.
CHECK_DEADLOCK FALSE
SPECIFICATION FairSpec
CONSTANTS
  Calls = {c1}
  Skills = 3
  Limits = {TRUE, FALSE}
  MaxFaults = 4
INVARIANTS
  TypeOK
  SecretOutlivesJob
  NoSecretLeft
  MountsOutliveBox
  NoFilesLeft
PROPERTIES
  ImplementsRuntime
  ExecReturns
