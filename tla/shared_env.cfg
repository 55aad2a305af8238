CONSTANTS
  Loaders = {a, b, c}
  Nobody = Nobody
  SkipTo = {TRUE}
  MaxEnvs = 3
SPECIFICATION Spec
INVARIANTS
  TypeOK
  SessionsHaveEnv
  UsersExact
  UsersNeverOver
  NoEnvLeaked
  FreeMeansUnused
PROPERTY CallsReturn
