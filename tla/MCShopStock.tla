---------------------------- MODULE MCShopStock ----------------------------
\* Small shops for TLC: which product and order each line belongs to.
EXTENDS ShopStockInv, TLC

CONSTANTS o1, o2, i1, i2, p1, b1, b2, r1, r2

\* Two orders of one line each for the same product.
RivalProduct == i1 :> p1 @@ i2 :> p1
RivalOrder == i1 :> o1 @@ i2 :> o2

\* One line per order.
SingleProduct == i1 :> p1
SingleOrder == i1 :> o1

OneLot == b1 :> p1
TwoLots == b1 :> p1 @@ b2 :> p1

\* No property tells the receipts apart.
Drafts == Permutations({r1, r2})
=============================================================================
