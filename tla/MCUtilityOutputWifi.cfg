\* The events of the station reach the task through two bits.
SPECIFICATION Spec
INVARIANTS
  UtilityHearsOfWifi
