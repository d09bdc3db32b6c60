\* Liveness, under the fairness that NetworkTasks.tla justifies, with memory
\* for every task and every packet.
SPECIFICATION FairSpec
CONSTANTS
  Copy = {1}
  MqttStatus = {"Success", "SendOrRecvFailed", "Other"}
  CreateCanFail = FALSE
INVARIANTS
  NothingAbandoned
PROPERTIES
  KeepsPublishing
  WifiReturns
