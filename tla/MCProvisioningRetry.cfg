\* A claim that is retried.
SPECIFICATION Spec
CONSTANTS
  Key = {k1, k2}
  NULL = NULL
  Unread = Unread
  ReadsCanFail = FALSE
INVARIANTS
  ClaimHasCsr
