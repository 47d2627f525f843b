SPECIFICATION Spec
CONSTANTS
  Docs = {d1, d2, d3}
  Slots = {s1, s2, s3}
  MaxRejections = 2
  NoDoc = NoDoc
SYMMETRY SlotAndDocSymmetry
INVARIANTS ConductSuspensionHolds
