\* Two thing names, a clock of four bits, any number of boots.
SPECIFICATION Spec
CONSTANTS
  ThingName = {t1, t2}
  NodeId = mac
  NULL = NULL
  Unread = Unread
  ReadsCanFail = FALSE
  WORD = 16
  MILLISECONDS_PER_TICK = 2
  Timeout = 5
SYMMETRY Symmetry
INVARIANTS
  TypeOK
  IdentityKept
  EventsHaveGroup
  WaitsMeasured
