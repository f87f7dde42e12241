CONSTANTS
  Threads = {t1, t2}
  Keys = {k1, k2}
  Values = {v1, v2}
  None = None
  Torn = Torn
  NoThread = NoThread
SPECIFICATION Spec
INVARIANTS Durable
PROPERTIES ImplementsAtomicStore
