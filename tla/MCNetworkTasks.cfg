\* Two copies of each task: one that has reported, beside its successor.
\* Every outcome, also those after which a task is not restarted.
SPECIFICATION Spec
CONSTANTS
  Copy = {1, 2}
  MqttStatus = {"Success", "NoMemory", "SendOrRecvFailed", "Other"}
  CreateCanFail = TRUE
INVARIANTS
  TypeOK
  OneHolder
  TlsExclusive
  BitsTruthful
  WifiBitCurrent
