\* Any failure of a claim or of a write, and any number of resets.
SPECIFICATION Spec
CONSTANTS
  Key = {k1, k2, k3}
  NULL = NULL
  Unread = Unread
  ReadsCanFail = FALSE
SYMMETRY Symmetry
INVARIANTS
  TypeOK
  CredentialsMatch
  RegisteredKept
PROPERTIES
  StoredPairKept
  ImplementsUtilityOutput
  ImplementsClaiming
