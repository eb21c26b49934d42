\* A buffer of two bytes, a reader of one or two and two writers: reads leave a
\* byte behind, a write of two bytes is split when one is buffered, and the clock
\* passes every deadline that is set.  No symmetry: there are liveness properties.
SPECIFICATION FairSpec
CONSTANTS
  Readers = {r1}
  Writers = {w1, w2}
  Limit = 2
  ReadSizes = {1, 2}
  WriteSizes = {1, 2}
  MaxBytes = 2
  MaxTime = 2
  r1 = r1  w1 = w1  w2 = w2
INVARIANTS
  TypeOK
  InOrderOnce
  EofAfterLastByte
  NoLostWakeup
PROPERTIES
  CloseUnblocks
  DeadlineUnblocks
