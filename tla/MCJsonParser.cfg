\* Documents of two levels, their prefixes, and texts that are no documents.
SPECIFICATION PSpec
CONSTANTS
  Inputs <- MCInputs
  Names <- MCNames
INVARIANTS
  PTypeOK
  EnoughTokens
  Forest
  RoundTrip
  AcceptsDocuments
  ValuesRight
  LeaveReturns
CHECK_DEADLOCK FALSE
