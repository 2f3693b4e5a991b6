SPECIFICATION FairSpec
CONSTANTS
  Processes = {0, 1, 2}
  None = None
  CurrentId = CurrentId
  MaxEras = 2
  Givens <- Named
INVARIANTS
  TypeOK AnnouncedAreFresh ToldAreAlive AliveAreTold QuietWhenUndisturbed
PROPERTIES ExitFollowsStart OperationEnds
