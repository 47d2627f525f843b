SPECIFICATION Spec
CONSTANTS
  Rows = {r1, r2}
  Codes = {c1, c2}
  Names = {n1, n2}
  Runs = {x1, x2}
  Updates = {u1, u2}
  MaxAreas = 1
  NoRow = NoRow
  NoCode = NoCode
  NoName = NoName
SYMMETRY Symmetry
INVARIANTS PlacesTypeOK AreasBounded
PROPERTY FeedListed
