CONSTANTS
  Files = 3
  Written = {1, 3}
  Kinds = {"good", "unloadable", "foreign", "outdated"}
  Threads = {t, u}
  Nobody = Nobody
SPECIFICATION ThreadsSpec
PROPERTY OverrideIsLastResort
