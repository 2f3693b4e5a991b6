SPECIFICATION Spec
CONSTANTS
  Images <- AllImages
  Fixed <- InPlace
  Paths <- SomePaths
  Offsets = {0, 1, 2}
  None = None
  Givens <- Untracked
INVARIANT AnswersAreLive
