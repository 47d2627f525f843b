SPECIFICATION FairSpec
CONSTANTS
  Customers = {c1}
  Workers = {w1, w2}
  BookingIds = {b1, b2}
  Slots = {s1}
  NoOne = NoOne
  StrikeThreshold = 2
  CronBatch = 1
  MaxCrashes = 1
  Operations = {"create", "goOnline", "update", "accept", "reportNoShow"}
  Windows = {"open", "closed", "stale"}
  Reasons = {"CUSTOMER_COMPLAINT"}

PROPERTIES PendingIsAnswered AcceptedMovesOn
