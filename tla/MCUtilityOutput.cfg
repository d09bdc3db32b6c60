\* Under the fairness of UtilityOutput.tla, with a reset at any time.
SPECIFICATION FairSpec
INVARIANTS
  TypeOK
  NoReportLost
PROPERTIES
  UtilityFollows
