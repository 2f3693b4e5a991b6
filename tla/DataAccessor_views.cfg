SPECIFICATION Spec
CONSTANTS
  Accessors = {a1, a2, a3}
  Memory = Memory
  Register = Register
  CellCount = 4
  RegisterSize = 2
  Bytes <- AllBytes
  Garbage = Garbage
  Others = {Garbage}
  Sizes = {1, 2}
  DoubleSize = 2
  Ranges <- SomeRanges
  Initial <- SomeInitial
  Contents <- SomeContents
  Inputs <- SomeInputs
  ValidCells <- SomeValid
  MaxWrites = 1
  Nobody = Nobody
  None = None
SYMMETRY Symmetry
INVARIANTS TypeOK MovesItsBytes
PROPERTY StepsAreViewSteps
CHECK_DEADLOCK FALSE
