------------------------------ MODULE ShopStock ------------------------------
(****************************************************************************)
(* The shop's stock: orders that reserve and ship it, supplier receipts     *)
(* that bring it in and cover back-ordered lines, counts and manual         *)
(* operations that correct it, and returns that put it back.                *)
(*                                                                          *)
(* Every operation is one database transaction that holds the row locks of  *)
(* the rows it decides on (receipt or count, order items, order, products)  *)
(* until it commits, so an operation is one step.  A refused operation      *)
(* rolls back and is no step.  Prices, promotions, names, costs and the     *)
(* replay of idempotent requests are left out.                              *)
(****************************************************************************)
EXTENDS Integers, FiniteSets

CONSTANTS
    Products,       \* rows of products
    Orders,         \* orders that may be placed
    Items,          \* order lines; an order is placed with all of its lines
    Lots,           \* receipt lines a receipt may hold: one per product and lot
    Receipts,       \* supplier receipts
    Counts,         \* stock counts
    ProductOf,      \* the product of an order line
    OrderOf,        \* the order of an order line
    LotProduct,     \* the product of a receipt line
    Backorder,      \* products whose allow_backorder is set
    MaxQuantity,    \* bound on every quantity a user enters
    MaxStock        \* bound on stock, for model checking

\* create_order refuses two lines with one product (order.py:103-107).
ASSUME StockAssumption ==
    /\ IsFiniteSet(Items) /\ IsFiniteSet(Lots) /\ IsFiniteSet(Receipts)
    /\ ProductOf \in [Items -> Products]
    /\ OrderOf \in [Items -> Orders]
    /\ LotProduct \in [Lots -> Products]
    /\ Backorder \subseteq Products
    /\ MaxQuantity \in Nat /\ MaxStock \in Nat
    /\ \A i, k \in Items :
         OrderOf[i] = OrderOf[k] /\ ProductOf[i] = ProductOf[k] => i = k

VARIABLES
    stock,      \* Product.stock_quantity
    reserved,   \* Product.reserved_quantity
    order,      \* orders with their payment, handover and workflow facts
    item,       \* order_items
    ledger,     \* inventory_movements of each order line, summed by kind
    receipt,    \* inventory_receipts with their lines and allocations
    stirred,    \* products with an outflow or reservation since a receipt
    count       \* inventory_counts

vars == <<stock, reserved, order, item, ledger, receipt, stirred, count>>

-----------------------------------------------------------------------------
\* A sum of quantities, as the number of units the lines of S stand for.
Units(S, f) == UNION {{i} \X (1 .. f[i]) : i \in S}
Total(S, f) == Cardinality(Units(S, f))

Least(m, n) == IF m <= n THEN m ELSE n

ItemsIn(o) == {i \in Items : OrderOf[i] = o}
LotsOf(p) == {b \in Lots : LotProduct[b] = p}

Quantity == 1 .. MaxQuantity
Statuses == {"none", "pending", "confirmed", "paid", "completed", "cancelled"}
Terminal == {"cancelled", "completed"}
Channels == {"shop", "backoffice_pos"}
NotScanned == -1

\* The resolution or parcel return that owns the order: an invoice review or
\* a paid cancellation before handover, a parcel return after it.
Workflows == {"none", "review", "refund", "parcel", "inspected", "closed"}

Placed(o) == order[o].status # "none"

\* Mutant: a cancelled order still takes part.
LiveUnlessCompleted(o) == Placed(o) /\ order[o].status # "completed"

Live(o) == Placed(o) /\ order[o].status \notin Terminal

ToOrder(i) == item[i].quantity - item[i].fromStock

\* Mutant: what earlier receipts brought is forgotten.
RemainingAtFirst(i) == ToOrder(i)

\* What receipts still have to bring for the line.
Remaining(i) == ToOrder(i) - item[i].received

\* Mutant: what receipts reserved for the line is forgotten.
HoldingFromStock(i) == item[i].fromStock

\* What the line holds for its customer: taken from stock or received for it.
Holding(i) == item[i].fromStock + item[i].received
Available(p) == stock[p] - reserved[p]

\* The line of order o for product p, as a set of at most one line.
ItemFor(o, p) == {i \in ItemsIn(o) : ProductOf[i] = p}

NoItem == [quantity |-> 0, fromStock |-> 0, received |-> 0,
           procurement |-> "not_required"]
NoLedger == [owned |-> 0, shipped |-> 0, restored |-> 0]
NoOrder == [status |-> "none", channel |-> "shop", paid |-> FALSE,
            handed |-> FALSE, workflow |-> "none"]
NoReceipt == [status |-> "none", lots |-> {}, quantity |-> [b \in Lots |-> 0],
              alloc |-> [b \in Lots |-> [i \in Items |-> 0]]]
NoCount == [status |-> "none", counted |-> [p \in Products |-> NotScanned]]

TypeOK ==
    /\ stock \in [Products -> Nat]
    /\ reserved \in [Products -> Nat]
    /\ order \in [Orders -> [status : Statuses, channel : Channels,
                             paid : BOOLEAN, handed : BOOLEAN,
                             workflow : Workflows]]
    /\ item \in [Items -> [quantity : Nat, fromStock : Nat, received : Nat,
                           procurement : {"not_required", "to_order",
                                          "ordered", "received"}]]
    /\ ledger \in [Items -> [owned : Nat, shipped : Nat, restored : Nat]]
    /\ receipt \in [Receipts -> [status : {"none", "draft", "posted"},
                                 lots : SUBSET Lots,
                                 quantity : [Lots -> Nat],
                                 alloc : [Lots -> [Items -> Nat]]]]
    /\ stirred \in [Receipts -> SUBSET Products]
    /\ count \in [Counts -> [status : {"none", "draft", "posted"},
                             counted : [Products -> Nat \cup {NotScanned}]]]

Init ==
    /\ stock = [p \in Products |-> 0]
    /\ reserved = [p \in Products |-> 0]
    /\ order = [o \in Orders |-> NoOrder]
    /\ item = [i \in Items |-> NoItem]
    /\ ledger = [i \in Items |-> NoLedger]
    /\ receipt = [r \in Receipts |-> NoReceipt]
    /\ stirred = [r \in Receipts |-> {}]
    /\ count = [c \in Counts |-> NoCount]

\* Mutant: outflows and reservations leave no movement behind.
StirNothing(P) == P \subseteq Products /\ stirred' = stirred

\* The movements an operation writes for the products of P are outflows or
\* new reservations: they come after what every posted receipt wrote.
Stir(P) == stirred' = [r \in Receipts |->
    IF receipt[r].status = "posted" THEN stirred[r] \cup P ELSE stirred[r]]

-----------------------------------------------------------------------------
\* create_order: take what is available of each line from stock and leave the
\* rest to procurement, which only the shop channel may do and only for a
\* product that allows it.
CreateOrder(o, channel, want) ==
    LET p(i) == ProductOf[i]
        taken == [i \in ItemsIn(o) |-> Least(want[i], Available(p(i)))]
        Reserve(q) == {i \in ItemFor(o, q) : taken[i] # 0}
    IN
    /\ ~Placed(o)
    /\ ItemsIn(o) # {}
    /\ \A i \in ItemsIn(o) :
         \/ Available(p(i)) >= want[i]
         \/ channel = "shop" /\ p(i) \in Backorder
    /\ order' = [order EXCEPT ![o] = [NoOrder EXCEPT !.status = "pending",
                                                     !.channel = channel]]
    /\ item' = [i \in Items |-> IF i \notin ItemsIn(o) THEN item[i] ELSE
         [quantity |-> want[i], fromStock |-> taken[i], received |-> 0,
          procurement |-> IF taken[i] < want[i] THEN "to_order"
                                                ELSE "not_required"]]
    /\ ledger' = [i \in Items |-> IF i \notin ItemsIn(o) THEN ledger[i] ELSE
         [NoLedger EXCEPT !.owned = taken[i]]]
    /\ reserved' = [q \in Products |->
         reserved[q] + Total(Reserve(q), taken)]
    /\ Stir({q \in Products : Reserve(q) # {}})
    /\ UNCHANGED <<stock, receipt, count>>

\* update_status to confirmed.
Confirm(o) ==
    /\ order[o].status = "pending"
    /\ order' = [order EXCEPT ![o].status = "confirmed"]
    /\ UNCHANGED <<stock, reserved, item, ledger, receipt, stirred, count>>

\* shop_payment_resolutions.active: an open case stops sales commands.
Resolving(o) ==
    \/ order[o].workflow = "refund"
    \/ order[o].workflow = "review" /\ ~order[o].paid

\* protect_np_return_context: an order with a parcel return takes no money,
\* handover or completion any more.
ReturnOpened(o) == order[o].workflow \in {"parcel", "inspected", "closed"}

\* A canonical payment.  The shop's moves the order to paid; the till's is
\* a fact beside the status.  A bank payment may settle an open review.
RecordPayment(o) ==
    /\ Live(o) /\ ~order[o].paid /\ ~ReturnOpened(o)
    /\ order' = [order EXCEPT ![o].paid = TRUE,
         ![o].status = IF order[o].channel = "shop" THEN "paid" ELSE @]
    /\ UNCHANGED <<stock, reserved, item, ledger, receipt, stirred, count>>

\* validate_owned_reservations: the movements of each line say that the order
\* owns what its lines hold.
ReservationsOwned(o) == \A i \in ItemsIn(o) : ledger[i].owned = Holding(i)

\* Mutant: what receipts reserved for the order stays reserved.
UnreserveFromStock(o) == reserved' = [p \in Products |-> reserved[p]
    - Total(ItemFor(o, p), [i \in ItemsIn(o) |-> HoldingFromStock(i)])]

\* The products of o no longer reserve what its lines hold.
Unreserve(o) == reserved' = [p \in Products |-> reserved[p]
    - Total(ItemFor(o, p), [i \in ItemsIn(o) |-> Holding(i)])]

\* The reservations of every line of o are given back.
ReleaseLines(o) ==
    /\ \A i \in ItemsIn(o) : Holding(i) <= reserved[ProductOf[i]]
    /\ Unreserve(o)
    /\ ledger' = [i \in Items |-> IF i \notin ItemsIn(o) THEN ledger[i]
         ELSE [ledger[i] EXCEPT !.owned = @ - Holding(i)]]
    /\ item' = [i \in Items |-> IF i \notin ItemsIn(o) THEN item[i]
         ELSE [item[i] EXCEPT !.procurement = "not_required"]]

\* Mutant: a payment alone does not stop a cancellation.
CancellableUnlessCase(o) == order[o].channel = "shop" => order[o].workflow = "none"

\* A shop order with money or a case is not cancelled here.
Cancellable(o) ==
    order[o].channel = "shop" => order[o].workflow = "none" /\ ~order[o].paid

\* update_status to cancelled.  A shop order with money, an invoice review or
\* a return needs the command that owns that fact.  (So does one with an issued
\* invoice; whether there is one shows only in the command that succeeds.)
Cancel(o) ==
    /\ Live(o) /\ ~order[o].handed
    /\ Cancellable(o)
    /\ ReservationsOwned(o)
    /\ ReleaseLines(o)
    /\ order' = [order EXCEPT ![o].status = "cancelled"]
    /\ UNCHANGED <<stock, receipt, stirred, count>>

\* apply_handover_inventory: every line is fully reserved and leaves.
ShipLines(o) ==
    LET held == [i \in ItemsIn(o) |-> Holding(i)]
        out == {ProductOf[i] : i \in ItemsIn(o)}
    IN
    /\ \A i \in ItemsIn(o) :
         /\ Holding(i) = item[i].quantity
         /\ Holding(i) <= reserved[ProductOf[i]]
         /\ Holding(i) <= stock[ProductOf[i]]
    /\ Unreserve(o)
    /\ stock' = [p \in Products |-> stock[p] - Total(ItemFor(o, p), held)]
    /\ ledger' = [i \in Items |-> IF i \notin ItemsIn(o) THEN ledger[i]
         ELSE [ledger[i] EXCEPT !.owned = @ - Holding(i),
                                !.shipped = @ + Holding(i)]]
    /\ Stir(out)
    /\ UNCHANGED <<item, receipt, count>>

\* The till's handover completes a paid order in the same transaction.
HandOverAtTill(o) ==
    /\ order[o].channel = "backoffice_pos"
    /\ Live(o) /\ ~order[o].handed /\ order[o].paid
    /\ ReservationsOwned(o)
    /\ ShipLines(o)
    /\ order' = [order EXCEPT ![o].handed = TRUE, ![o].status = "completed"]

\* The shop's handover ships the stock and keeps the status: a pickup needs
\* its payment first, a cash-on-delivery parcel (cod) goes out unpaid.
HandOverShop(o, cod) ==
    /\ order[o].channel = "shop"
    /\ Live(o) /\ ~order[o].handed
    /\ order[o].paid \/ cod
    /\ ~Resolving(o)
    /\ ReservationsOwned(o)
    /\ ShipLines(o)
    /\ order' = [order EXCEPT ![o].handed = TRUE]

CompleteShop(o) ==
    /\ order[o].channel = "shop"
    /\ Live(o) /\ order[o].paid /\ order[o].handed
    /\ ~Resolving(o) /\ ~ReturnOpened(o)
    /\ order' = [order EXCEPT ![o].status = "completed"]
    /\ UNCHANGED <<stock, reserved, item, ledger, receipt, stirred, count>>

\* Payment resolutions: an unpaid order with an issued invoice is reviewed, a
\* paid one is cancelled with a refund; both end with the release of stock.
OpenResolution(o) ==
    /\ order[o].channel = "shop"
    /\ Live(o) /\ ~order[o].handed /\ ~Resolving(o)
    /\ order[o].workflow \in {"none", "review"}
    /\ order' = [order EXCEPT ![o].workflow =
                   IF order[o].paid THEN "refund" ELSE "review"]
    /\ UNCHANGED <<stock, reserved, item, ledger, receipt, stirred, count>>

FinalizeResolution(o) ==
    /\ Live(o) /\ ~order[o].handed /\ Resolving(o)
    /\ ReservationsOwned(o)
    /\ ReleaseLines(o)
    /\ order' = [order EXCEPT ![o].status = "cancelled"]
    /\ UNCHANGED <<stock, receipt, stirred, count>>

-----------------------------------------------------------------------------
\* Returned goods.  back[i] units of each line are put back on the shelf; the
\* canonical workflows check the line's shipment and return movements first.
PutBack(o, back) ==
    /\ order[o].handed
    /\ \A i \in ItemsIn(o) : ledger[i].restored + back[i] <= ledger[i].shipped
    /\ stock' = [p \in Products |-> stock[p] + Total(ItemFor(o, p), back)]
    /\ ledger' = [i \in Items |-> IF i \notin ItemsIn(o) THEN ledger[i]
         ELSE [ledger[i] EXCEPT !.restored = @ + back[i]]]
    /\ UNCHANGED <<reserved, item, receipt, stirred, count>>

\* A return at the counter or of a mock parcel.
ReceiveReturn(o, back) ==
    /\ order[o].workflow \in {"none", "review"}
    /\ PutBack(o, back)
    /\ UNCHANGED order

\* A carrier return: one parcel per order, attached before anything came back,
\* inspected once, and closed with or without money.
AttachParcelReturn(o) ==
    /\ order[o].channel = "shop" /\ order[o].handed
    /\ order[o].status # "cancelled"
    /\ order[o].workflow \in {"none", "review"}
    /\ \A i \in ItemsIn(o) : ledger[i].restored = 0
    /\ order' = [order EXCEPT ![o].workflow = "parcel"]
    /\ UNCHANGED <<stock, reserved, item, ledger, receipt, stirred, count>>

InspectParcel(o, back) ==
    /\ order[o].workflow = "parcel"
    /\ PutBack(o, back)
    /\ order' = [order EXCEPT ![o].workflow = "inspected"]

\* close_unpaid cancels a refused parcel nobody paid for; a paid return is
\* resolved by its refund and leaves the order as it is.
CloseParcelReturn(o) ==
    /\ order[o].workflow = "inspected"
    /\ order' = [order EXCEPT ![o].workflow = "closed",
                              ![o].status = IF order[o].paid THEN @
                                                             ELSE "cancelled"]
    /\ UNCHANGED <<stock, reserved, item, ledger, receipt, stirred, count>>

-----------------------------------------------------------------------------
\* Procurement: staff order what the lines of S still lack.
MarkOrdered(S) ==
    /\ S # {}
    /\ \A i \in S : /\ Remaining(i) > 0
                    /\ item[i].procurement \in {"to_order", "ordered"}
    /\ item' = [i \in Items |-> IF i \notin S THEN item[i]
         ELSE [item[i] EXCEPT !.procurement = "ordered"]]
    /\ UNCHANGED <<stock, reserved, order, ledger, receipt, stirred, count>>

CreateReceipt(r) ==
    /\ receipt[r].status = "none"
    /\ receipt' = [receipt EXCEPT ![r].status = "draft"]
    /\ UNCHANGED <<stock, reserved, order, item, ledger, stirred, count>>

\* What receipt r plans for order line i, over its lots other than those of X.
Planned(r, i, X) == Total(Lots \ X, [b \in Lots |-> receipt[r].alloc[b][i]])

\* The allocations al of a lot b of n units, beside those of r's lots outside
\* X: ordered lines of the lot's product, each within what it still lacks.
Allocatable(r, b, n, al, X) ==
    /\ Total(Items, al) <= n
    /\ \A i \in Items : al[i] > 0 =>
         /\ ProductOf[i] = LotProduct[b]
         /\ item[i].procurement = "ordered"
         /\ Planned(r, i, X) + al[i] <= Remaining(i)

\* add_receipt_item: a scan adds to its lot and to the lot's allocations.
AddReceiptItem(r, b, n, al) ==
    /\ receipt[r].status = "draft"
    /\ Allocatable(r, b, n, al, {})
    /\ receipt[r].quantity[b] + n <= MaxQuantity     \* bound
    /\ receipt' = [receipt EXCEPT
         ![r].lots = @ \cup {b}, ![r].quantity[b] = @ + n,
         ![r].alloc[b] = [i \in Items |-> @[i] + al[i]]]
    /\ UNCHANGED <<stock, reserved, order, item, ledger, stirred, count>>

\* draft_edit replaces a lot's quantity and allocations, draft_delete drops it.
EditDraft(r, b, n, al) ==
    /\ receipt[r].status = "draft" /\ b \in receipt[r].lots
    /\ Allocatable(r, b, n, al, {b})
    /\ \A i \in Items : al[i] > 0 => Live(OrderOf[i])
    /\ receipt' = [receipt EXCEPT ![r].quantity[b] = n, ![r].alloc[b] = al]
    /\ UNCHANGED <<stock, reserved, order, item, ledger, stirred, count>>

DeleteDraftItem(r, b) ==
    /\ receipt[r].status = "draft" /\ b \in receipt[r].lots
    /\ receipt' = [receipt EXCEPT ![r].lots = @ \ {b}, ![r].quantity[b] = 0,
                                  ![r].alloc[b] = [i \in Items |-> 0]]
    /\ UNCHANGED <<stock, reserved, order, item, ledger, stirred, count>>

\* Mutant: an order under resolution still receives.
ReceivableWhileLive(o) == Live(o)

\* Orders whose lines may receive: neither closed nor under resolution, whose
\* goods the database triggers freeze.
Receivable(o) == Live(o) /\ ~Resolving(o)

\* post_receipt: the plan is checked again, the units come in, and those
\* allocated go to their order lines as reservations.
PostReceipt(r) ==
    LET arrived(p) == Total(LotsOf(p), receipt[r].quantity)
        covered(i) == Planned(r, i, {})
        cover == [i \in Items |-> covered(i)]
        coveredOf(p) == {i \in Items : ProductOf[i] = p}
    IN
    /\ receipt[r].status = "draft"
    /\ receipt[r].lots # {}
    /\ \A b \in Lots :
         Total(Items, receipt[r].alloc[b]) <= receipt[r].quantity[b]
    /\ \A i \in Items : covered(i) > 0 =>
         /\ Receivable(OrderOf[i])
         /\ item[i].procurement = "ordered"
         /\ covered(i) <= Remaining(i)
    /\ stock' = [p \in Products |-> stock[p] + arrived(p)]
    /\ reserved' = [p \in Products |->
         reserved[p] + Total(coveredOf(p), cover)]
    /\ item' = [i \in Items |-> IF covered(i) = 0 THEN item[i] ELSE
         [item[i] EXCEPT !.received = @ + covered(i),
                         !.procurement = IF covered(i) = Remaining(i)
                                         THEN "received" ELSE "ordered"]]
    /\ ledger' = [i \in Items |-> [ledger[i] EXCEPT !.owned = @ + covered(i)]]
    /\ Stir({ProductOf[i] : i \in {k \in Items : covered(k) > 0}})
    /\ receipt' = [receipt EXCEPT ![r].status = "posted"]
    /\ UNCHANGED <<order, count>>

\* Mutant: a lot may shrink below what it gave to order lines.
ProtectedQuantity(r, b, n) == b \in receipt[r].lots /\ n >= 0

\* A lot keeps what it gave to order lines.
Protected(r, b, n) == n >= Total(Items, receipt[r].alloc[b])

\* posted_correction: the effective quantity of a lot becomes n.  A decrease
\* needs free stock of which nothing was promised or taken since the posting.
CorrectReceipt(r, b, n) ==
    LET p == LotProduct[b]
        delta == n - receipt[r].quantity[b]
    IN
    /\ receipt[r].status = "posted" /\ b \in receipt[r].lots
    /\ delta # 0 /\ Protected(r, b, n)
    /\ delta < 0 => Available(p) >= -delta /\ p \notin stirred[r]
    /\ stock' = [stock EXCEPT ![p] = @ + delta]
    /\ receipt' = [receipt EXCEPT ![r].quantity[b] = n]
    /\ stirred' = [s \in Receipts |->
         IF s # r /\ receipt[s].status = "posted" /\ delta < 0
         THEN stirred[s] \cup {p} ELSE stirred[s]]
    /\ UNCHANGED <<reserved, order, item, ledger, count>>

-----------------------------------------------------------------------------
\* Manual operations: an opening balance, a receipt or a return without order,
\* a return tied to an order line, and a write-off of free stock.
ManualReceipt(p, n) ==
    /\ stock' = [stock EXCEPT ![p] = @ + n]
    /\ UNCHANGED <<reserved, order, item, ledger, receipt, stirred, count>>

\* Mutant: only a resolution keeps manual returns away.
UnownedByResolution(o) == order[o].workflow \notin {"review", "refund"}

\* No resolution or parcel return owns the order's goods.
Unowned(o) == order[o].workflow = "none"

ManualReturn(i, n) ==
    /\ Placed(OrderOf[i]) /\ Unowned(OrderOf[i])
    /\ ledger[i].restored + n <= MaxQuantity     \* bound
    /\ stock' = [stock EXCEPT ![ProductOf[i]] = @ + n]
    /\ ledger' = [ledger EXCEPT ![i].restored = @ + n]
    /\ UNCHANGED <<reserved, order, item, receipt, stirred, count>>

\* Mutant: reserved units are written off too.
WriteOffStock(p, n) ==
    /\ n <= stock[p]
    /\ stock' = [stock EXCEPT ![p] = @ - n]
    /\ Stir({p})
    /\ UNCHANGED <<reserved, order, item, ledger, receipt, count>>

WriteOff(p, n) ==
    /\ n <= Available(p)
    /\ stock' = [stock EXCEPT ![p] = @ - n]
    /\ Stir({p})
    /\ UNCHANGED <<reserved, order, item, ledger, receipt, count>>

\* Stock counts: drafted, scanned product by product, and posted once, when
\* the counted quantity replaces the stock.
CreateCount(c) ==
    /\ count[c].status = "none"
    /\ count' = [count EXCEPT ![c].status = "draft"]
    /\ UNCHANGED <<stock, reserved, order, item, ledger, receipt, stirred>>

SetCountItem(c, p, n) ==
    /\ count[c].status = "draft"
    /\ count' = [count EXCEPT ![c].counted[p] = n]
    /\ UNCHANGED <<stock, reserved, order, item, ledger, receipt, stirred>>

\* The lines of a count.
Scanned(c) == {p \in Products : count[c].counted[p] # NotScanned}

PostCount(c) ==
    /\ count[c].status = "draft" /\ Scanned(c) # {}
    /\ \A p \in Scanned(c) : count[c].counted[p] >= reserved[p]
    /\ stock' = [p \in Products |->
         IF p \in Scanned(c) THEN count[c].counted[p] ELSE stock[p]]
    /\ Stir({p \in Scanned(c) : count[c].counted[p] < stock[p]})
    /\ count' = [count EXCEPT ![c].status = "posted"]
    /\ UNCHANGED <<reserved, order, item, ledger, receipt>>

-----------------------------------------------------------------------------
Restocks(o) == [ItemsIn(o) -> 0 .. MaxQuantity]
Allocations == [Items -> 0 .. MaxQuantity]

OrderNext == \E o \in Orders :
    \/ \E channel \in Channels : \E want \in [ItemsIn(o) -> Quantity] :
         CreateOrder(o, channel, want)
    \/ Confirm(o) \/ RecordPayment(o) \/ Cancel(o)
    \/ HandOverAtTill(o)
    \/ \E cod \in BOOLEAN : HandOverShop(o, cod)
    \/ CompleteShop(o)
    \/ OpenResolution(o) \/ FinalizeResolution(o)

ReturnNext == \E o \in Orders :
    \/ \E back \in Restocks(o) : ReceiveReturn(o, back)
    \/ AttachParcelReturn(o)
    \/ \E back \in Restocks(o) : InspectParcel(o, back)
    \/ CloseParcelReturn(o)

ReceiptNext ==
    \/ \E S \in SUBSET Items : MarkOrdered(S)
    \/ \E r \in Receipts :
         \/ CreateReceipt(r) \/ PostReceipt(r)
         \/ \E b \in Lots : \E n \in Quantity : \E al \in Allocations :
              AddReceiptItem(r, b, n, al) \/ EditDraft(r, b, n, al)
         \/ \E b \in Lots : DeleteDraftItem(r, b)
         \/ \E b \in Lots : \E n \in 0 .. MaxQuantity : CorrectReceipt(r, b, n)

ManualNext ==
    \/ \E p \in Products : \E n \in Quantity :
         ManualReceipt(p, n) \/ WriteOff(p, n)
    \/ \E i \in Items : \E n \in Quantity : ManualReturn(i, n)

CountNext == \E c \in Counts :
    \/ CreateCount(c) \/ PostCount(c)
    \/ \E p \in Products : \E n \in 0 .. MaxStock : SetCountItem(c, p, n)

Next ==
    /\ OrderNext \/ ReturnNext \/ ReceiptNext \/ ManualNext \/ CountNext
    /\ \A p \in Products : stock'[p] <= MaxStock     \* bound

Spec == Init /\ [][Next]_vars

-----------------------------------------------------------------------------
\* Stock is never promised twice: what is reserved is there (products' check
\* constraints say so too; here it follows from the operations alone).
NoOversell == \A p \in Products : 0 <= reserved[p] /\ reserved[p] <= stock[p]

\* A product's reserved quantity is exactly what its order lines own by their
\* movements, whatever orders, receipts, cancellations and handovers did.
ReservedIsOwned == \A p \in Products : reserved[p] =
    Total({i \in Items : ProductOf[i] = p}, [i \in Items |-> ledger[i].owned])

\* A line owns what it took from stock and from receipts as long as its order
\* lives and was not handed over; it ships once, whole, and only by a handover.
Holds(i) == Live(OrderOf[i]) /\ ~order[OrderOf[i]].handed
LineOwnership == \A i \in Items :
    /\ ledger[i].owned = IF Holds(i) THEN Holding(i) ELSE 0
    /\ ledger[i].shipped = IF order[OrderOf[i]].handed THEN item[i].quantity
                                                       ELSE 0

\* A line never gets more than it asked for, and its procurement is finished
\* exactly when nothing is left to get, though drafts plan for it side by side.
ProcurementExact == \A i \in Items :
    /\ item[i].fromStock + item[i].received <= item[i].quantity
    /\ Live(OrderOf[i]) =>
         (item[i].procurement \in {"not_required", "received"} <=> Remaining(i) = 0)

\* What receipts gave to line i.
Posted == {r \in Receipts : receipt[r].status = "posted"}
Given(i) == Total(Posted, [r \in Receipts |-> Planned(r, i, {})])

\* What a lot gives to order lines comes with it, after edits, merged scans and
\* corrections in any order, and what a line received is exactly what the
\* posted receipts gave it: no allocation is lost, repeated or undone later.
AllocationsCovered ==
    /\ \A r \in Receipts : \A b \in Lots :
         Total(Items, receipt[r].alloc[b]) <= receipt[r].quantity[b]
    /\ \A i \in Items : item[i].received = Given(i)

\* As long as the system finds no later outflow or reservation, the units of a
\* posted receipt that went to no order are still free: what lets
\* posted_correction take them back ("cannot prove lot provenance" otherwise).
UnstirredLotsIntact == \A r \in Receipts : \A p \in Products \ stirred[r] :
    receipt[r].status = "posted" =>
      Total(LotsOf(p), receipt[r].quantity) <= Available(p) +
        Total({i \in Items : ProductOf[i] = p},
              [i \in Items |-> Planned(r, i, {})])

\* A parcel return is the only way its goods come back: they return at most
\* once, never beyond what was shipped, with manual operations about.
ParcelReturnsOnce == \A i \in Items : ReturnOpened(OrderOf[i]) =>
    /\ ledger[i].restored <= ledger[i].shipped
    /\ order[OrderOf[i]].workflow = "parcel" => ledger[i].restored = 0

\* A cancelled shop order whose payment was accepted went through the refund.
PaidCancellationRefunded == \A o \in Orders :
    order[o].channel = "shop" /\ order[o].status = "cancelled" /\ order[o].paid
      => order[o].workflow = "refund"

\* The goods of an order under resolution stay as they were when it opened.
GoodsFrozen == [][\A i \in Items :
    Live(OrderOf[i]) /\ Resolving(OrderOf[i]) /\ Live(OrderOf[i])' =>
      Holding(i)' = Holding(i)]_vars

\* A closed order stays closed, and no later receipt, handover or release
\* touches what its lines own or shipped.
ClosedIsFinal == [][\A i \in Items : order[OrderOf[i]].status \in Terminal =>
    /\ order'[OrderOf[i]].status = order[OrderOf[i]].status
    /\ ledger'[i].owned = ledger[i].owned
    /\ ledger'[i].shipped = ledger[i].shipped
    /\ item'[i] = item[i]]_vars
=============================================================================
