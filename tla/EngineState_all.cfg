SPECIFICATION Spec
CONSTANTS
  Threads = {t1, t2, t3}
  AnyThread = AnyThread
  MaxScopes = 3
  Givens <- AllGivens
SYMMETRY Symmetry
INVARIANTS TypeOK StatusInSync ThreadInSync QuietBalanced
PROPERTY SilentScopes
