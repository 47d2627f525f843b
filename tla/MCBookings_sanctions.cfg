SPECIFICATION Spec
CONSTANTS
  Customers = {c1}
  Workers = {w1}
  BookingIds = {b1, b2}
  Slots = {s1, s2}
  NoOne = NoOne
  StrikeThreshold = 2
  CronBatch = 2
  MaxCrashes = 0
  Operations = {"create", "goOnline", "accept", "cancel", "reinstate", "strike", "suspend", "unsuspend"}
  Windows = {"before"}
  Reasons = {"CUSTOMER_COMPLAINT"}
SYMMETRY SlotAndBookingSymmetry
INVARIANTS OneActiveBookingPerWorker ThresholdSuspends StrikesBackCount AccountAndProfileAgree
