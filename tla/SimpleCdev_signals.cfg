SPECIFICATION Spec
CONSTANTS
  Threads = {t1, t2}
  Files = {f1, f2}
  MAX_BUFFER_LEN = 2
  DefaultLen = 1
  MaxInterrupts = 1
  t1 = t1
  t2 = t2
  f1 = f1
  f2 = f2
INVARIANT OneCopyAtATime
