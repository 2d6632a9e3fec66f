-------------------------- MODULE MCShopStockShelf --------------------------
\* One order of one line beside one count.
EXTENDS ShopStockShelf, TLC

CONSTANTS o1, i1, p1, b1

TheProduct == i1 :> p1
TheOrder == i1 :> o1
TheLot == b1 :> p1
=============================================================================
