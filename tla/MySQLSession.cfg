\* A client that waits for each answer and sends three commands; three framing
\* capabilities, one of which go-mysql asks for by itself.
SPECIFICATION FairSpec
CONSTANTS
  Framing <- MCFraming
  AskedByDefault <- MCAskedByDefault
  Window = 1
  MaxCmds = 3
INVARIANTS
  FramingExact
  UpstreamRunsTheRest
  AnswersInOrder
PROPERTIES
  LoginEnds
  RelayReturns
\* A session that has ended does nothing more.
CHECK_DEADLOCK FALSE
