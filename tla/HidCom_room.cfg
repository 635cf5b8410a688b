SPECIFICATION Spec
CONSTANTS
  Sizes <- OneOrTwoMessages
  RcvSizes <- Buffers
  ReplyLens <- Answers
  MaxReplies = 3
INVARIANT RoomForLengthAndCheck
