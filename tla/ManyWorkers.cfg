SPECIFICATION Spec
CONSTANTS
  Workers = {w1, w2}
  Compressors = {c1, c2}
  NoProc = NoProc
  Events = {"replace"}
  Requests <- OneRequest
  PermitedSizes <- ShippedPermitedSizes
  WaterMarkKeys <- ShippedWaterMarkKeys
  MaxVersion = 2
  MaxSockets = 2
  QueueLimit = 2
  SendMessageFlag = TRUE
  SendMessageFlag4EveryReq = FALSE
SYMMETRY Symmetry
INVARIANTS NoOrphanPartial NoTempLeftBehind NoThumbnailEscapes
