SPECIFICATION FairSpec
CONSTANTS
  f1 = f1
  f2 = f2
  Flushers = {f1, f2}
  MaxEvents = 5
INVARIANTS TypeOK EverythingInOrder NothingStranded
PROPERTIES OneWriteAtATime LogSpec EventuallyStored FlushSettles
CHECK_DEADLOCK FALSE
