SPECIFICATION FairSpec
CONSTANTS
  Workers = {w1}
  Compressors = {c1, c2}
  NoProc = NoProc
  Events = {"replace", "delete"}
  Requests <- TwoRequests
  PermitedSizes <- ShippedPermitedSizes
  WaterMarkKeys <- ShippedWaterMarkKeys
  MaxVersion = 2
  MaxSockets = 2
  QueueLimit = 2
  SendMessageFlag = TRUE
  SendMessageFlag4EveryReq = FALSE

PROPERTIES EventuallyCompressed TrackedChangeRemoves OnlyMisnotedStay
