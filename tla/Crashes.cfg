SPECIFICATION Spec
CONSTANTS
  Workers = {w1}
  Compressors = {c1, c2}
  NoProc = NoProc
  Events = {"gm_error", "optimizer_error", "compressor_crash", "broker_crash", "replace", "delete"}
  Requests <- TwoRequests
  PermitedSizes <- ShippedPermitedSizes
  WaterMarkKeys <- ShippedWaterMarkKeys
  MaxVersion = 3
  MaxSockets = 2
  QueueLimit = 2
  SendMessageFlag = TRUE
  SendMessageFlag4EveryReq = FALSE
SYMMETRY Symmetry
INVARIANTS ServedComplete
PROPERTY NoResurrection
