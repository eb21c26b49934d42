\* Two chunks per buffer, four per peer: both buffers can be full while io.Copy
\* holds a chunk between them.
SPECIFICATION FairSpec
CONSTANTS
  BufSize = 2
  MaxChunks = 4
\* A relay that has returned does nothing more.
CHECK_DEADLOCK FALSE
PROPERTY EndsWhenEitherCloses
