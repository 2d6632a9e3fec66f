----------------------------- MODULE ShopStockInv -----------------------------
(***************************************************************************)
(* The inductive invariants behind the safety properties of ShopStock.     *)
(***************************************************************************)
EXTENDS ShopStock

\* A lot is allocated only to lines of its product.
LotsMatch == \A r \in Receipts : \A b \in Lots : \A i \in Items :
    receipt[r].alloc[b][i] > 0 => ProductOf[i] = LotProduct[b]

StockInv == TypeOK /\ NoOversell /\ LotsMatch

-----------------------------------------------------------------------------
\* An order that was not placed has no facts; one that is completed was paid
\* and handed over; a parcel return presupposes the handover; and a cancelled
\* order with money is a refund.
OrderInv(o) ==
    /\ ~Placed(o) => ~order[o].paid /\ ~order[o].handed /\ order[o].workflow = "none"
    /\ order[o].status = "completed" => order[o].paid /\ order[o].handed
    /\ ReturnOpened(o) => order[o].handed
    /\ order[o].channel = "shop" /\ order[o].status = "cancelled" /\ order[o].paid
         => order[o].workflow = "refund"
    /\ order[o].status = "cancelled" => order[o].workflow \notin {"parcel", "inspected"}

\* The movements of a line agree with the facts of its order.
LineInv(i) ==
    LET o == OrderOf[i] IN
    /\ ledger[i].owned = IF Holds(i) THEN Holding(i) ELSE 0
    /\ ledger[i].shipped = IF order[o].handed THEN item[i].quantity ELSE 0
    /\ order[o].handed => Holding(i) = item[i].quantity
    /\ Holding(i) <= item[i].quantity
    /\ Live(o) => (item[i].procurement \in {"not_required", "received"}
                     <=> Remaining(i) = 0)
    /\ order[o].status = "cancelled" =>
         order[o].handed \/ item[i].procurement = "not_required"
    /\ ReturnOpened(o) => ledger[i].restored <= ledger[i].shipped
    /\ order[o].workflow = "parcel" => ledger[i].restored = 0

LinesInv == /\ \A o \in Orders : OrderInv(o)
            /\ \A i \in Items : LineInv(i)

ShopInv == StockInv /\ LinesInv

-----------------------------------------------------------------------------
\* What a lot gives to order lines comes with it; what a line received, posted
\* receipts gave it; and a line nobody ordered received nothing.
Fits(r) == \A b \in Lots : Total(Items, receipt[r].alloc[b]) <= receipt[r].quantity[b]
AllocInv == /\ \A r \in Receipts : Fits(r)
            /\ \A i \in Items : item[i].received = Given(i)
            /\ \A i \in Items : ~Placed(OrderOf[i]) => item[i].received = 0

-----------------------------------------------------------------------------

\* The units of p promised to order o: what its line for p owns.
Owned == [i \in Items |-> ledger[i].owned]
Promised(o) == [p \in Products |-> Total(ItemFor(o, p), Owned)]
Fate(o) == IF ~Placed(o) THEN "none"
           ELSE IF order[o].handed THEN "shipped"
           ELSE IF order[o].status = "cancelled" THEN "released" ELSE "open"

Promise == INSTANCE StockPromise WITH
             free <- [p \in Products |-> Available(p)],
             promise <- [o \in Orders |-> Promised(o)],
             fate <- [o \in Orders |-> Fate(o)]

\* The shop keeps its promises: the units an order was promised stay its own
\* until they are given back or shipped, all of them, whatever other orders,
\* receipts, counts, corrections and write-offs do.
Promises == Promise!Spec
=============================================================================
