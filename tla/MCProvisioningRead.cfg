\* A read of storage that fails for a stored string.
SPECIFICATION Spec
CONSTANTS
  Key = {k1, k2, k3}
  NULL = NULL
  Unread = Unread
  ReadsCanFail = TRUE
PROPERTIES
  StoredPairKept
