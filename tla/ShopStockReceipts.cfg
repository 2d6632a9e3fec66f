\* Two receipts compete for one order line of up to two units, which is also
\* counted, written off and returned.
CONSTANTS
    o1 = o1  o2 = o2  i1 = i1  i2 = i2  p1 = p1  b1 = b1  b2 = b2
    r1 = r1  r2 = r2

    Products = {p1}
    Orders = {o1}
    Items = {i1}
    Lots = {b1}
    Receipts = {r1, r2}
    Counts = {c1}
    ProductOf <- SingleProduct
    OrderOf <- SingleOrder
    LotProduct <- OneLot
    Backorder = {p1}
    MaxQuantity = 2
    MaxStock = 3
SPECIFICATION Spec
SYMMETRY Drafts
INVARIANTS ProcurementExact UnstirredLotsIntact ParcelReturnsOnce 
 
