SPECIFICATION Spec
CONSTANTS
  Fibers <- FiberSet
  Services <- ServiceSet
  Inject <- Injects
  Provide <- Provides
  Parent <- MountedBy
  MaxUpdates = 1
  None = None
CHECK_DEADLOCK FALSE
INVARIANT TypeOK
INVARIANT SettledIsCurrent
PROPERTY InnerFirst
