SPECIFICATION ListSpec
CONSTANTS
  Listing <- SmallTree
  MaxStreams = 3
  MaxFailures = 2
INVARIANT ReadErrorsReported
