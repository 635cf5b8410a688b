SPECIFICATION Spec
CONSTANTS
  item_total = 3
  INVALID_LIST_HEAD = INVALID_LIST_HEAD
  Unwritten = Unwritten
  Fields = {pnext, pnext2}
  next_offset = pnext
  pnext = pnext
  pnext2 = pnext2
  Buckets = {b1}
  b1 = b1
  Keys = {k1, k2}
  k1 = k1
  k2 = k2
  Hash <- OneSlot
  Memory <- ZeroPages
  MaxDest = 2
SYMMETRY KeySymmetry
INVARIANTS FreeListExact BucketsExact KeysUnique DestIsLast
PROPERTY ImplementsPool
