CONSTANTS
  CharBits = 2
  ShortBits = 4
  LongBits = 8
  LongLongBits = 12
  PtrSize = 4
  Symbols <- MCSymbols
  InitialMemory <- AllMemory
  Objects <- MCObjects
  Elements <- MCElements
  Numbers_ <- MCNumbers
  Lists <- MCLists
  Calls <- MCCalls
  OwnFields <- MCOwnFields
  MaxWrites = 2
  MaxOwn = 2
  MaxFields = 2
  Literals <- MCLiterals
  Variables <- MCVariables
  Leaves <- MCLeaves
  Operands <- MCOperands
  Subtracted <- MCSubtracted
  Casts <- MCCasts
  MemberNames <- MCMemberNames
  Specifiers <- MCSpecifiers
  Named <- MCNamed
  Counts = {2, 5}
  Arguments <- MCArguments
  MaxDepth = 2
  MaxWords = 4
  MaxMade = 3
  MaxNested = 3
SPECIFICATION ExpressionsSpec
INVARIANTS OwnLayout
PROPERTIES MeansAsCpp ListsComplete WritesOneElement EvaluatesAsC ConstantsAgree TypesReadAsC
CHECK_DEADLOCK FALSE
