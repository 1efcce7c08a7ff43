SPECIFICATION Spec
CONSTANTS
  Threads = {t1, t2, t3}
  PoolSize = 2
  Requests <- MCRequests
  NULL = NULL
  Failed = Failed
INVARIANTS
  TypeOK
  ContextsConserved
PROPERTIES
  SomeReadCompletes
  ServesOwnKeystream
