CONSTANTS
  Loaders = {a, b, c}
  Nobody = Nobody
  SkipTo = {}
  MaxEnvs = 3
SPECIFICATION Spec
INVARIANT EnvOutlivesSessions
