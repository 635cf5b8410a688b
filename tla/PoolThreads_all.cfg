SPECIFICATION FairSpec
CONSTANTS
  item_total = 3
  INVALID_LIST_HEAD = INVALID_LIST_HEAD
  Threads = {t1, t2, t3}
  NoThread = NoThread
  t1 = t1
  t2 = t2
  t3 = t3
INVARIANTS NoItemSharedOrLost TailIsLast
PROPERTIES RefusedWhenEmpty CallsGoOn ImplementsFifo
