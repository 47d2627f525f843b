SPECIFICATION Spec
CONSTANTS
  Customers = {c1}
  Workers = {w1}
  BookingIds = {b1}
  Slots = {s1, s2}
  NoOne = NoOne
  StrikeThreshold = 1
  CronBatch = 1
  MaxCrashes = 1
  Operations = {"create", "goOnline", "goOffline", "update", "accept", "reject", "start", "complete", "cancel", "reportNoShow", "reportCustomerNoShow", "confirm", "dismiss"}
  Windows = {"before", "open", "closed", "stale"}
  Reasons = {"POST_ACCEPT_CANCELLATION", "NO_SHOW", "CUSTOMER_COMPLAINT"}
SYMMETRY SlotSymmetry
INVARIANTS TypeOK JobsCounted ExpiryNoticeTruthful StruckIffWorkerCancelled VerdictHasGround
PROPERTIES FollowsLifecycle
