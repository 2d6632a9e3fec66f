--------------------------- MODULE ShopStockShelf ---------------------------
(****************************************************************************)
(* ShopStock beside the goods on the shelf.  Staff move the goods as they   *)
(* book them and scan into a count what they see.                           *)
(****************************************************************************)
EXTENDS ShopStock

VARIABLE shelf      \* units of each product that are really there

ShelfInit == Init /\ shelf = [p \in Products |-> 0]

\* A booked movement is a movement of goods.
Moves == /\ OrderNext \/ ReturnNext \/ ReceiptNext \/ ManualNext
         /\ shelf' = [p \in Products |-> shelf[p] + stock'[p] - stock[p]]

\* Counting moves nothing: not the scan of what is there, nor the posting.
Counting ==
    /\ \E c \in Counts :
         \/ CreateCount(c) \/ PostCount(c)
         \/ \E p \in Products : SetCountItem(c, p, shelf[p])
    /\ UNCHANGED shelf

ShelfNext == /\ Moves \/ Counting
             /\ \A p \in Products : stock'[p] <= MaxStock     \* bound

ShelfSpec == ShelfInit /\ [][ShelfNext]_<<vars, shelf>>

\* "on_hand is the physical stock (Product.stock_quantity)"
\* (docs/inventory-api.md:7), as long as every booking and count is honest.
OnHandIsPhysical == stock = shelf
=============================================================================
