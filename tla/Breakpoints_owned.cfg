SPECIFICATION Spec
CONSTANTS
  Autos = {a1, a2}
  Objects = {o1, o2, o3}
  Processes = {p1, p2}
  Ids = {0, 1}
  None = None
  Givens <- SomeGivens
SYMMETRY Symmetry
INVARIANTS TypeOK RegistryMatchesEngine Ownership
