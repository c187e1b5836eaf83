\* Threads of a DiskStore, tasks of a PostgresStore and of a RedisStore, with
\* close() at any time.
SPECIFICATION Spec
CONSTANTS
  None = None
  u1 = u1  u2 = u2  u3 = u3  k1 = k1  k2 = k2
  User = {u1, u2, u3}
  Closer = {k1, k2}
  MaxHandles = 4
  MaxCloses = 3
SYMMETRY Anyone
INVARIANTS NoOrphan WorksAfterClose
CHECK_DEADLOCK FALSE
