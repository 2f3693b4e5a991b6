SPECIFICATION Spec
CONSTANTS
  Processes = {0, 1, 2}
  None = None
  CurrentId = CurrentId
  MaxEras = 1
  Givens <- Defaulted
INVARIANT QuietWhenGone
