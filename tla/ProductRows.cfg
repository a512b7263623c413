SPECIFICATION RowsSpec
CONSTANTS
  A = A
  B = B
  C = C
  p = p
  q = q
  r = r
  Orders = {A, B, C}
  Products = {p, q, r}
  Calls = {c1, c2, c3, c4, c5}
  Items <- SharedItems
  Priced <- SharedPrices
  MaxOpen = 3
  Nobody = Nobody
  Nothing = Nothing
CHECK_DEADLOCK FALSE
SYMMETRY CallSymmetry
INVARIANTS RowsTypeOK UnsharedIsKept OnlyOrderedProducts LastBuyerHolds
PROPERTY CreationIsWhole
