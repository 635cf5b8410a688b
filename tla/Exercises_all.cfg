SPECIFICATION ExercisesSpec
CONSTANTS
  Sizes <- OneOrTwoMessages
  RcvSizes <- Buffers
  ReplyLens <- Answers
  MaxReplies = 3
  Listing <- SmallTree
  MaxStreams = 2
  MaxFailures = 2
  Inputs <- SmallInputs
  MaxDigits = 7
  Wrap = 16
  Delay = 3
  Users = {u1, u2}
  Cards = {c1, c2}
  Numbers = {1, 2}
  Nodes = 4
  WordBits = 4
  Words_ = 2
  Below = 2
  W = 3
  Decimals <- EveryWord
  BT_BUFFER_SIZE = 3
  Stacks <- SomeStacks
  Groups = {1, 2, 3}
  N = 6
  Values = {0, 1, 2, 3, 5}
  u1 = u1
  u2 = u2
  c1 = c1
  c2 = c2
INVARIANTS SentWhole FaultsReported
  NothingHeld CompleteListing
  DigitsAsWritten
  NothingRunsAfterUnload
  OnlyOldFilesStale
  NoProbeHalfDone OwnCardUnlessOverlapped
  FoundIsCard
  RangeSetThenCleared
  RoundTrip
  InnermostFrames
  NoMoveHelps
PROPERTY ProgramsEnd
