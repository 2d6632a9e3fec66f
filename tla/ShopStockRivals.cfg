\* Two orders compete for one product, and a receipt of two lots covers them.
CONSTANTS
    o1 = o1  o2 = o2  i1 = i1  i2 = i2  p1 = p1  b1 = b1  b2 = b2
    r1 = r1  r2 = r2

    Products = {p1}
    Orders = {o1, o2}
    Items = {i1, i2}
    Lots = {b1, b2}
    Receipts = {r1}
    Counts = {}
    ProductOf <- RivalProduct
    OrderOf <- RivalOrder
    LotProduct <- TwoLots
    Backorder = {p1}
    MaxQuantity = 1
    MaxStock = 2
SPECIFICATION Spec
INVARIANTS AllocationsCovered ReservedIsOwned LineOwnership NoOversell
PROPERTIES Promises
