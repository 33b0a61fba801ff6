SPECIFICATION WorkersSpec
CONSTANTS
  Workers = {w1}
  Compressors = {c1}
  NoProc = NoProc
  Events = {"broker_crash", "write_error", "worker_crash", "publish"}
  Requests <- ThreeKinds
  PermitedSizes <- ShippedPermitedSizes
  WaterMarkKeys <- ShippedWaterMarkKeys
  MaxVersion = 1
  MaxSockets = 1
  QueueLimit = 1
  SendMessageFlag = TRUE
  SendMessageFlag4EveryReq = TRUE
INVARIANTS TypeOK OnlyPermitedStored NoOrphanPartial
PROPERTY RequestsAnswered
