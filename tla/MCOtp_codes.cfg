SPECIFICATION Spec
CONSTANTS
  MaxCodes = 3
  Slots = {s1, s2}
  HourlyLimit = 1
  MaxAttempts = 2
SYMMETRY SlotSymmetry
INVARIANTS CodesTypeOK AcceptedOnce HourlyOvershoot RegistrationRestsOnCode
PROPERTIES LockedForGood AccountKeepsOrigin
