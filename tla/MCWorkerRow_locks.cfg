SPECIFICATION Spec
CONSTANTS
  Jobs = {j1, j2}
  Slots = {s1, s2, s3}
  NoJob = NoJob
SYMMETRY SlotAndJobSymmetry
INVARIANTS TypeOK AloneRepairs OnlyCompletionDeadlocks
