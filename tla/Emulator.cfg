\* One listener served over TCP and in memory, one credential endpoint, one
\* slot per loop and three connections: one served, one held, one waiting.
SPECIFICATION FairSpec
CONSTANTS
  Conns = {c1, c2, c3}
  Tcp = {t1}
  Mem = {m1}
  Http = {h1}
  BindOrder <- MCBindOrder
  Cap = 1
  None = None
  t1 = t1  m1 = m1  h1 = h1  c1 = c1  c2 = c2  c3 = c3
INVARIANTS
  TypeOK
  SessionsWithinSlots
  NoOrphans
  DoneIsQuiet
  FailedStartClosesAll
PROPERTIES
  CloseReturns
  DialsEnd
\* A stopped emulator, or a Start that failed, does nothing more.
CHECK_DEADLOCK FALSE
