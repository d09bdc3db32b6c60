\* Documents of up to two levels over buffers of three sizes, and none.
SPECIFICATION FairSpec
CONSTANTS
  Char <- MCChar
  Names <- MCNames
  Literals <- MCLiterals
  Strings <- MCStrings
  Objects <- MCObjects
  Sizes = {1, 2, 4}
  MaxText = 10
  MaxDepth = 2
INVARIANTS
  TypeOK
  RoomForNull
  TextKept
  WellFormed
  LastCallTells
PROPERTIES
  Delivered
  CallReturns
