SPECIFICATION FairSpec
CONSTANTS
  Workers = {w1}
  Compressors = {c1}
  NoProc = NoProc
  Events = {"replace"}
  Requests <- OneRequest
  PermitedSizes <- ShippedPermitedSizes
  WaterMarkKeys <- ShippedWaterMarkKeys
  MaxVersion = 2
  MaxSockets = 1
  QueueLimit = 1
  SendMessageFlag = TRUE
  SendMessageFlag4EveryReq = FALSE
PROPERTY StaleThumbnailsRemoved
