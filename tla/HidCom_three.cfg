SPECIFICATION Spec
CONSTANTS
  Sizes <- ThreeOrMore
  RcvSizes <- Buffers
  ReplyLens <- Answers
  MaxReplies = 3
INVARIANT ChunksInOrder
