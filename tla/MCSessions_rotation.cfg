SPECIFICATION Spec
CONSTANTS
  Tokens = {t1, t2, t3}
  Slots = {s1, s2}
  NoToken = NoToken
SYMMETRY SlotAndTokenSymmetry
INVARIANTS Lineage OneSuccessor OneLivePerLogin
PROPERTIES ClosedStaysClosed
