SPECIFICATION Spec
CONSTANTS
  Docs = {d1, d2}
  Credentials = {c1, c2, c3}
  Avatars = {a1}
  Legacy = {c1, d1}
  Slots = {s1, s2}
  NoKey = NoKey
  MaxActive = 1
  MaxRejections = 1
  MaxFaults = 1
SYMMETRY SlotAndKeySymmetry
INVARIANTS TypeOK RowsReadable NothingLeftBehind CapOvershoot NoPlaintextLeft
