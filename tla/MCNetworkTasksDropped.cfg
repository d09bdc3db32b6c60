\* xTaskCreate may fail: its result is ignored and the failed task is not
\* restarted.
SPECIFICATION Spec
CONSTANTS
  Copy = {1, 2}
  MqttStatus = {"Success", "SendOrRecvFailed", "Other"}
  CreateCanFail = TRUE
INVARIANTS
  NothingAbandoned
