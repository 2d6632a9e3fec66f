\* A count is scanned, goods move, and the count is posted.
CONSTANTS
    o1 = o1  i1 = i1  p1 = p1  b1 = b1

    Products = {p1}
    Orders = {o1}
    Items = {i1}
    Lots = {b1}
    Receipts = {r1}
    Counts = {c1}
    ProductOf <- TheProduct
    OrderOf <- TheOrder
    LotProduct <- TheLot
    Backorder = {p1}
    MaxQuantity = 1
    MaxStock = 2
SPECIFICATION ShelfSpec
INVARIANT OnHandIsPhysical
