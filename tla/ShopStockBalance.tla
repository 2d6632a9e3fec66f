-------------------------- MODULE ShopStockBalance --------------------------
(***************************************************************************)
(* The books of ShopStock balance, for every shop: what is reserved is     *)
(* what the lines own, what lines received is what receipts gave them,     *)
(* what receipts brought is still free where nothing was taken since, and  *)
(* the shop keeps its promises (StockPromise).                             *)
(***************************************************************************)
EXTENDS ShopStockLines

USE StockAssumption
USE DEF Statuses, Channels, Workflows, NotScanned

LinesOf(p) == {i \in Items : ProductOf[i] = p}

-----------------------------------------------------------------------------
(* Reservations: what the products reserve is what the lines own.          *)

\* From f to g the lines of order o gain x, and no other line changes.
Gains(o, x, f, g) ==
    /\ \A i \in Items : f[i] \in Nat /\ g[i] \in Nat
    /\ \A i \in ItemsIn(o) : x[i] \in Nat /\ g[i] = f[i] + x[i]
    /\ \A i \in Items \ ItemsIn(o) : g[i] = f[i]

\* Then the sum over a product's lines grows by what o's line for it gains.
LEMMA LinesGrow ==
    ASSUME NEW o, NEW p, NEW x, NEW f, NEW g, Gains(o, x, f, g)
    PROVE  /\ Total(LinesOf(p), f) \in Nat /\ Total(ItemFor(o, p), x) \in Nat
           /\ Total(LinesOf(p), g) = Total(LinesOf(p), f) + Total(ItemFor(o, p), x)
<1> DEFINE S == LinesOf(p)
           R == ItemFor(o, p)
           d == [i \in S |-> IF i \in R THEN x[i] ELSE 0]
<1>1. /\ IsFiniteSet(S) /\ IsFiniteSet(R) /\ R \subseteq S
      /\ \A i \in S : i \in R <=> i \in ItemsIn(o)
      /\ \A i \in S : i \in Items
      /\ \A i \in R : i \in ItemsIn(o)
  BY FS_Subset DEF LinesOf, ItemFor, ItemsIn
<1> HIDE DEF S, R
<1>2. Adds(S, f, d, g)
  BY <1>1 DEF Adds, Gains
<1>3. (\A i \in S \ R : d[i] = 0) /\ \A i \in R : d[i] = x[i]
  BY <1>1
<1> HIDE DEF d
<1>4. /\ Total(S, f) \in Nat /\ Total(S, d) \in Nat
      /\ Total(S, g) = Total(S, f) + Total(S, d)
  BY <1>1, <1>2, TotalAdd
<1>5. Total(S, d) = Total(R, d)
  BY <1>1, <1>3, TotalZeroOutside
<1>6. Total(R, d) = Total(R, x)
  BY <1>3, TotalSame
<1> QED BY <1>4, <1>5, <1>6 DEF S, R

\* What the lines of p own, after a step in which they own what they owned.
LEMMA OwnedSame ==
    ASSUME ReservedIsOwned, reserved' = reserved,
           \A i \in Items : ledger'[i].owned = ledger[i].owned
    PROVE  ReservedIsOwned'
<1> SUFFICES ASSUME NEW p \in Products
             PROVE  reserved'[p] = Total(LinesOf(p), [i \in Items |-> ledger'[i].owned])
  BY DEF ReservedIsOwned, LinesOf
<1>1. [i \in Items |-> ledger'[i].owned] = [i \in Items |-> ledger[i].owned]
  OBVIOUS
<1> QED BY <1>1 DEF ReservedIsOwned, LinesOf

\* The lines of o own more, by x, and their products reserve as much more.
LEMMA OwnedMore ==
    ASSUME ReservedIsOwned, NEW o, NEW x,
           \A i \in Items : ledger[i].owned \in Nat /\ ledger'[i].owned \in Nat,
           \A i \in ItemsIn(o) :
              x[i] \in Nat /\ ledger'[i].owned = ledger[i].owned + x[i],
           \A i \in Items \ ItemsIn(o) : ledger'[i].owned = ledger[i].owned,
           \A p \in Products : reserved'[p] = reserved[p] + Total(ItemFor(o, p), x)
    PROVE  ReservedIsOwned'
<1> DEFINE f == [i \in Items |-> ledger[i].owned]
           g == [i \in Items |-> ledger'[i].owned]
<1> SUFFICES ASSUME NEW p \in Products PROVE reserved'[p] = Total(LinesOf(p), g)
  BY DEF ReservedIsOwned, LinesOf
<1>1. Gains(o, x, f, g)
  BY DEF Gains, ItemsIn
<1>2. reserved[p] = Total(LinesOf(p), f)
  BY DEF ReservedIsOwned, LinesOf
<1> HIDE DEF f, g
<1> QED BY <1>1, <1>2, LinesGrow

LEMMA OwnedPlaced ==
    ASSUME ShopInv, ReservedIsOwned, NEW o \in Orders, NEW channel \in Channels,
           NEW want \in [ItemsIn(o) -> Quantity], CreateOrder(o, channel, want)
    PROVE  ReservedIsOwned'
<1> DEFINE taken == [i \in ItemsIn(o) |-> Least(want[i], Available(ProductOf[i]))]
           Reserve(q) == {i \in ItemFor(o, q) : taken[i] # 0}
<1>0. /\ TypeOK /\ LinesInv /\ NoOversell /\ ~Placed(o)
      /\ stock \in [Products -> Nat] /\ reserved \in [Products -> Nat]
  BY Rows DEF ShopInv, StockInv, CreateOrder
<1>1. /\ ledger' = [i \in Items |-> IF i \notin ItemsIn(o) THEN ledger[i] ELSE
           [NoLedger EXCEPT !.owned = taken[i]]]
      /\ reserved' = [q \in Products |-> reserved[q] + Total(Reserve(q), taken)]
  BY DEF CreateOrder
<1>2. \A i \in ItemsIn(o) : i \in Items /\ OrderOf[i] = o /\ taken[i] \in Nat
  BY <1>0 DEF ItemsIn, Quantity, Least, Available, NoOversell
<1> HIDE DEF taken
<1>3. \A i \in Items : /\ ledger[i].owned \in Nat
                       /\ i \in ItemsIn(o) => ledger[i].owned = 0
  BY <1>0, <1>2, LineType DEF LinesInv, LineInv, Holds, Live
<1>4. \A i \in Items : ledger'[i].owned =
        IF i \in ItemsIn(o) THEN ledger[i].owned + taken[i] ELSE ledger[i].owned
  BY <1>1, <1>2, <1>3 DEF NoLedger
<1>5. ASSUME NEW p \in Products
      PROVE  Total(ItemFor(o, p), taken) = Total(Reserve(p), taken)
  <2>1. Reserve(p) \subseteq ItemFor(o, p)
    OBVIOUS
  <2>2. \A i \in ItemFor(o, p) \ Reserve(p) : taken[i] = 0
    OBVIOUS
  <2> HIDE DEF Reserve
  <2> QED BY <2>1, <2>2, TotalZeroOutside
<1>6. \A p \in Products : reserved'[p] = reserved[p] + Total(ItemFor(o, p), taken)
  BY <1>1, <1>5
<1>7. /\ \A i \in Items : ledger[i].owned \in Nat /\ ledger'[i].owned \in Nat
      /\ \A i \in ItemsIn(o) :
           taken[i] \in Nat /\ ledger'[i].owned = ledger[i].owned + taken[i]
      /\ \A i \in Items \ ItemsIn(o) : ledger'[i].owned = ledger[i].owned
  BY <1>2, <1>3, <1>4
<1> QED BY <1>6, <1>7, OwnedMore

\* A release or a shipment: the lines of o owned what they held, and own
\* nothing afterwards.
LEMMA OwnedEnds ==
    ASSUME ShopInv, ReservedIsOwned, NEW o \in Orders,
           ReservationsOwned(o), Unreserve(o),
           \A i \in Items : ledger'[i].owned =
              IF i \in ItemsIn(o) THEN ledger[i].owned - Holding(i) ELSE ledger[i].owned
    PROVE  ReservedIsOwned'
<1> DEFINE held == [i \in ItemsIn(o) |-> Holding(i)]
           f == [i \in Items |-> ledger[i].owned]
           g == [i \in Items |-> ledger'[i].owned]
<1>0. TypeOK /\ reserved \in [Products -> Nat]
  BY Rows DEF ShopInv, StockInv
<1>1. \A i \in ItemsIn(o) : i \in Items /\ held[i] \in Nat /\ ledger[i].owned = held[i]
                            /\ held[i] = Holding(i)
  BY <1>0, HoldingNat DEF ItemsIn, ReservationsOwned
<1>2. reserved' = [p \in Products |-> reserved[p] - Total(ItemFor(o, p), held)]
  BY DEF Unreserve
<1> HIDE DEF held
<1>3. Gains(o, held, g, f)
  BY <1>0, <1>1, LineType DEF Gains
<1> SUFFICES ASSUME NEW p \in Products PROVE reserved'[p] = Total(LinesOf(p), g)
  BY DEF ReservedIsOwned, LinesOf
<1>4. reserved[p] = Total(LinesOf(p), f)
  BY DEF ReservedIsOwned, LinesOf
<1> HIDE DEF f, g
<1>5. /\ Total(LinesOf(p), g) \in Nat /\ Total(ItemFor(o, p), held) \in Nat
      /\ Total(LinesOf(p), f) = Total(LinesOf(p), g) + Total(ItemFor(o, p), held)
  BY <1>3, LinesGrow
<1> QED BY <1>2, <1>4, <1>5

LEMMA OwnedCovered ==
    ASSUME ShopInv, ReservedIsOwned, NEW r \in Receipts, PostReceipt(r)
    PROVE  ReservedIsOwned'
<1> DEFINE cover == [i \in Items |-> Planned(r, i, {})]
           f == [i \in Items |-> ledger[i].owned]
           g == [i \in Items |-> ledger'[i].owned]
<1>0. TypeOK /\ ledger \in [Items -> Ledger] /\ \A i \in Items : cover[i] \in Nat
  BY Rows, PlannedNat DEF ShopInv, StockInv
<1>1. /\ ledger' = [i \in Items |-> [ledger[i] EXCEPT !.owned = @ + cover[i]]]
      /\ reserved' = [p \in Products |-> reserved[p] + Total(LinesOf(p), cover)]
  BY DEF PostReceipt, LinesOf
<1> HIDE DEF cover
<1>2. \A i \in Items : f[i] \in Nat /\ cover[i] \in Nat /\ g[i] = f[i] + cover[i]
  <2> TAKE i \in Items
  <2>1. ledger[i] \in Ledger /\ ledger'[i] = [ledger[i] EXCEPT !.owned = @ + cover[i]]
    BY <1>0, <1>1
  <2>2. ledger'[i].owned = ledger[i].owned + cover[i] /\ ledger[i].owned \in Nat
    BY <2>1 DEF Ledger
  <2> QED BY <1>0, <2>2
<1> SUFFICES ASSUME NEW p \in Products PROVE reserved'[p] = Total(LinesOf(p), g)
  BY DEF ReservedIsOwned, LinesOf
<1>3. reserved[p] = Total(LinesOf(p), f)
  BY DEF ReservedIsOwned, LinesOf
<1>4. IsFiniteSet(LinesOf(p)) /\ \A i \in LinesOf(p) : i \in Items
  BY FS_Subset DEF LinesOf
<1> HIDE DEF f, g
<1>5. Adds(LinesOf(p), f, cover, g)
  BY <1>2, <1>4 DEF Adds
<1>6. Total(LinesOf(p), g) = Total(LinesOf(p), f) + Total(LinesOf(p), cover)
  BY <1>4, <1>5, TotalAdd
<1> QED BY <1>1, <1>3, <1>6

-----------------------------------------------------------------------------
(* The steps that promise, cover, release or ship, and all the others.     *)

\* No product reserves, no line owns and no order's promise ends.
Quiet == /\ reserved' = reserved
         /\ \A i \in Items : ledger'[i].owned = ledger[i].owned
         /\ \A o \in Orders : Fate(o)' = Fate(o)

LEMMA QuietFacts ==
    ASSUME ShopInv, NEW o \in Orders,
           \/ Confirm(o) \/ RecordPayment(o) \/ CompleteShop(o)
           \/ OpenResolution(o) \/ AttachParcelReturn(o) \/ CloseParcelReturn(o)
    PROVE  Quiet
<1>0. order \in [Orders -> Order] /\ OrderInv(o)
  BY Rows DEF ShopInv, StockInv, LinesInv
<1>1. /\ \A x \in Orders \ {o} : order'[x] = order[x]
      /\ Fate(o)' = Fate(o)
      /\ reserved' = reserved /\ ledger' = ledger
  <2>1. CASE Confirm(o)
    BY <1>0, <2>1 DEF Confirm, Fate, Placed, Order
  <2>2. CASE RecordPayment(o)
    BY <1>0, <2>2 DEF RecordPayment, Fate, Placed, Live, Terminal, Order
  <2>3. CASE CompleteShop(o)
    BY <1>0, <2>3 DEF CompleteShop, Fate, Placed, Live, Order
  <2>4. CASE OpenResolution(o)
    BY <1>0, <2>4 DEF OpenResolution, Fate, Placed, Order
  <2>5. CASE AttachParcelReturn(o)
    BY <1>0, <2>5 DEF AttachParcelReturn, Fate, Placed, Order
  <2>6. CASE CloseParcelReturn(o)
    BY <1>0, <2>6 DEF CloseParcelReturn, Fate, Placed, OrderInv, ReturnOpened, Order
  <2> QED BY <2>1, <2>2, <2>3, <2>4, <2>5, <2>6
<1>2. \A x \in Orders \ {o} : Fate(x)' = Fate(x)
  BY <1>1 DEF Fate, Placed
<1> QED BY <1>1, <1>2 DEF Quiet

LEMMA QuietReturns ==
    ASSUME ShopInv, NEW o \in Orders, NEW back \in Restocks(o),
           ReceiveReturn(o, back) \/ InspectParcel(o, back)
    PROVE  Quiet
<1>0. order \in [Orders -> Order] /\ ledger \in [Items -> Ledger]
  BY Rows DEF ShopInv, StockInv
<1>1. PutBack(o, back)
  BY DEF ReceiveReturn, InspectParcel
<1>2. reserved' = reserved /\ \A i \in Items : ledger'[i].owned = ledger[i].owned
  BY <1>0, <1>1 DEF PutBack, Ledger
<1>3. \A x \in Orders : /\ order'[x].status = order[x].status
                        /\ order'[x].handed = order[x].handed
  BY <1>0 DEF ReceiveReturn, InspectParcel, Order
<1>4. \A x \in Orders : Fate(x)' = Fate(x)
  BY <1>3 DEF Fate, Placed
<1> QED BY <1>2, <1>4 DEF Quiet

LEMMA QuietOrders == ASSUME order' = order PROVE \A o \in Orders : Fate(o)' = Fate(o)
BY DEF Fate, Placed

\* Every step is quiet or one of the five that move reservations.
LEMMA StepKinds ==
    ASSUME ShopInv, [Next]_vars
    PROVE  \/ Quiet
           \/ \E o \in Orders :
                \/ \E channel \in Channels : \E want \in [ItemsIn(o) -> Quantity] :
                     CreateOrder(o, channel, want)
                \/ Cancel(o) \/ FinalizeResolution(o) \/ HandOverAtTill(o)
                \/ \E cod \in BOOLEAN : HandOverShop(o, cod)
           \/ \E r \in Receipts : PostReceipt(r)
<1>0. ledger \in [Items -> Ledger]
  BY Rows DEF ShopInv, StockInv
<1>1. order' = order /\ reserved' = reserved /\ ledger' = ledger => Quiet
  BY QuietOrders DEF Quiet
<1>2. CASE UNCHANGED vars
  BY <1>1, <1>2 DEF vars
<1>3. CASE OrderNext
  BY <1>3, QuietFacts DEF OrderNext
<1>4. CASE ReturnNext
  BY <1>4, QuietFacts, QuietReturns DEF ReturnNext
<1>5. CASE ReceiptNext
  <2>1. ASSUME NEW S \in SUBSET Items, MarkOrdered(S) PROVE Quiet
    BY <1>1, <2>1 DEF MarkOrdered
  <2>2. ASSUME NEW r \in Receipts,
               \/ CreateReceipt(r)
               \/ \E b \in Lots : \E n \in Quantity : \E al \in Allocations :
                    AddReceiptItem(r, b, n, al) \/ EditDraft(r, b, n, al)
               \/ \E b \in Lots : DeleteDraftItem(r, b)
               \/ \E b \in Lots : \E n \in 0 .. MaxQuantity : CorrectReceipt(r, b, n)
        PROVE  Quiet
    BY <1>1, <2>2, ZenonT(60)
       DEF CreateReceipt, AddReceiptItem, EditDraft, DeleteDraftItem, CorrectReceipt
  <2> QED BY <1>5, <2>1, <2>2 DEF ReceiptNext
<1>6. CASE ManualNext
  <2>1. ASSUME NEW i \in Items, NEW n \in Quantity, ManualReturn(i, n) PROVE Quiet
    BY <1>0, <2>1, QuietOrders DEF ManualReturn, Quiet, Ledger
  <2>2. ASSUME NEW p \in Products, NEW n \in Quantity, ManualReceipt(p, n) \/ WriteOff(p, n)
        PROVE  Quiet
    BY <1>1, <2>2 DEF ManualReceipt, WriteOff
  <2> QED BY <1>6, <2>1, <2>2 DEF ManualNext
<1>7. CASE CountNext
  BY <1>1, <1>7 DEF CountNext, CreateCount, PostCount, SetCountItem
<1> QED BY <1>2, <1>3, <1>4, <1>5, <1>6, <1>7 DEF Next

LEMMA OwnedStep ==
    ASSUME ShopInv, ReservedIsOwned, [Next]_vars
    PROVE  ReservedIsOwned'
<1>1. CASE Quiet
  BY <1>1, OwnedSame DEF Quiet
<1>2. ASSUME NEW o \in Orders, Cancel(o) \/ FinalizeResolution(o)
      PROVE  ReservedIsOwned'
  <2>1. ReservationsOwned(o) /\ ReleaseLines(o) /\ ledger \in [Items -> Ledger]
    BY <1>2, Rows DEF Cancel, FinalizeResolution, ShopInv, StockInv
  <2>2. Unreserve(o) /\ \A i \in Items : ledger'[i].owned =
          IF i \in ItemsIn(o) THEN ledger[i].owned - Holding(i) ELSE ledger[i].owned
    BY <2>1 DEF ReleaseLines, Ledger
  <2> QED BY <2>1, <2>2, OwnedEnds
<1>3. ASSUME NEW o \in Orders, HandOverAtTill(o) \/ \E cod \in BOOLEAN : HandOverShop(o, cod)
      PROVE  ReservedIsOwned'
  <2>1. ReservationsOwned(o) /\ ShipLines(o) /\ ledger \in [Items -> Ledger]
    BY <1>3, Rows DEF HandOverAtTill, HandOverShop, ShopInv, StockInv
  <2>2. Unreserve(o) /\ \A i \in Items : ledger'[i].owned =
          IF i \in ItemsIn(o) THEN ledger[i].owned - Holding(i) ELSE ledger[i].owned
    BY <2>1 DEF ShipLines, Ledger
  <2> QED BY <2>1, <2>2, OwnedEnds
<1> QED BY <1>1, <1>2, <1>3, StepKinds, OwnedPlaced, OwnedCovered

LEMMA InitOwned == Init => ReservedIsOwned
<1> SUFFICES ASSUME Init, NEW p \in Products
             PROVE  reserved[p] = Total(LinesOf(p), [i \in Items |-> ledger[i].owned])
  BY DEF ReservedIsOwned, LinesOf
<1> DEFINE f == [i \in Items |-> ledger[i].owned]
<1>1. \A i \in LinesOf(p) \ {} : f[i] = 0
  BY DEF Init, NoLedger, LinesOf
<1> HIDE DEF f
<1>2. Total(LinesOf(p), f) = Total({}, f)
  BY <1>1, TotalZeroOutside
<1> QED BY <1>2, TotalNone DEF Init, f

\* A product's reserved quantity is what its order lines own by their
\* movements, for every shop: Product.reserved_quantity and the movements are
\* written by different code on every path and never drift apart.
THEOREM ReservationsBalance == Spec => []ReservedIsOwned
BY InitOwned, OwnedStep, ShopInvariance, PTL DEF Spec

-----------------------------------------------------------------------------
(* Receipts: what a lot gives came with it, and what a line received was   *)
(* given to it.                                                            *)

\* A step that receives nothing, and unplaces no order.
LEMMA AllocSame ==
    ASSUME AllocInv, receipt' = receipt,
           \A i \in Items : item'[i].received = item[i].received,
           \A o \in Orders : Placed(o) => Placed(o)'
    PROVE  AllocInv'
<1>1. \A r \in Receipts : Fits(r)'
  BY DEF AllocInv, Fits
<1>2. \A i \in Items : Given(i)' = Given(i)
  BY DEF Given, Posted, Planned
<1> QED BY <1>1, <1>2 DEF AllocInv

\* Lines are given as much as before when the same receipts are posted and
\* their allocations stay.
LEMMA GivenSame ==
    ASSUME NEW i \in Items,
           \A r \in Receipts : receipt'[r].status = "posted" <=> receipt[r].status = "posted",
           \A r \in Posted : receipt'[r].alloc = receipt[r].alloc
    PROVE  Given(i)' = Given(i)
<1> DEFINE f == [r \in Receipts |-> Planned(r, i, {})]
           g == [r \in Receipts |-> Planned(r, i, {})']
<1>1. Posted' = Posted
  BY DEF Posted
<1>2. \A r \in Posted : g[r] = f[r]
  BY DEF Posted, Planned
<1> HIDE DEF f, g
<1>3. Total(Posted, g) = Total(Posted, f)
  BY <1>2, TotalSame
<1> QED BY <1>1, <1>3 DEF Given, f, g

\* A step that writes one receipt, before or after its posting.
LEMMA AllocWritten ==
    ASSUME AllocInv, NEW r \in Receipts, Fits(r)',
           receipt'[r].status = "posted" <=> receipt[r].status = "posted",
           receipt[r].status = "posted" => receipt'[r].alloc = receipt[r].alloc,
           \A s \in Receipts \ {r} : receipt'[s] = receipt[s],
           item' = item, order' = order
    PROVE  AllocInv'
<1>1. \A s \in Receipts : Fits(s)'
  BY DEF AllocInv, Fits
<1>2. \A i \in Items : Given(i)' = Given(i)
  BY GivenSame DEF Posted
<1> QED BY <1>1, <1>2 DEF AllocInv, Placed

LEMMA AllocDraft ==
    ASSUME StockInv, AllocInv, NEW r \in Receipts,
           \/ CreateReceipt(r)
           \/ \E b \in Lots : \E n \in Quantity : \E al \in Allocations :
                AddReceiptItem(r, b, n, al) \/ EditDraft(r, b, n, al)
           \/ \E b \in Lots : DeleteDraftItem(r, b)
           \/ \E b \in Lots : \E n \in 0 .. MaxQuantity : CorrectReceipt(r, b, n)
    PROVE  AllocInv'
<1> DEFINE x == receipt[r]
           y == receipt'[r]
           Kept == /\ y.status = "posted" <=> x.status = "posted"
                   /\ x.status = "posted" => y.alloc = x.alloc
                   /\ \A s \in Receipts \ {r} : receipt'[s] = receipt[s]
                   /\ item' = item /\ order' = order
<1>0. /\ receipt \in [Receipts -> Receipt] /\ x \in Receipt
      /\ \A b \in Lots : x.quantity[b] \in Nat /\ x.alloc[b] \in [Items -> Nat]
      /\ \A b \in Lots : Total(Items, x.alloc[b]) <= x.quantity[b]
  BY Rows DEF StockInv, AllocInv, Fits, Receipt
<1>1. CASE CreateReceipt(r)
  <2>1. Kept /\ y.alloc = x.alloc /\ y.quantity = x.quantity
    BY <1>0, <1>1 DEF CreateReceipt, Receipt
  <2>2. Fits(r)'
    BY <1>0, <2>1 DEF Fits
  <2> QED BY <2>1, <2>2, AllocWritten
<1>2. ASSUME NEW b \in Lots, NEW n \in Quantity, NEW al \in Allocations,
             AddReceiptItem(r, b, n, al)
      PROVE  AllocInv'
  <2>1. /\ Kept /\ \A c \in Lots \ {b} : y.alloc[c] = x.alloc[c] /\ y.quantity[c] = x.quantity[c]
        /\ y.alloc[b] = [i \in Items |-> x.alloc[b][i] + al[i]]
        /\ y.quantity[b] = x.quantity[b] + n
    <3> DEFINE qs == [x.quantity EXCEPT ![b] = @ + n]
               sum == [i \in Items |-> x.alloc[b][i] + al[i]]
               as == [x.alloc EXCEPT ![b] = sum]
               z == [x EXCEPT !.lots = @ \cup {b}, !.quantity = qs, !.alloc = as]
    <3>1. receipt' = [receipt EXCEPT ![r] = z] /\ x.status = "draft"
          /\ item' = item /\ order' = order
      BY <1>0, <1>2 DEF AddReceiptItem, Receipt
    <3>2. z.status = x.status /\ z.quantity = qs /\ z.alloc = as
      BY <1>0 DEF Receipt
    <3>3. /\ \A c \in Lots \ {b} : as[c] = x.alloc[c] /\ qs[c] = x.quantity[c]
          /\ as[b] = sum /\ qs[b] = x.quantity[b] + n
      BY <1>0 DEF Receipt
    <3> HIDE DEF z, as, qs
    <3>4. y = z /\ \A s \in Receipts \ {r} : receipt'[s] = receipt[s]
      BY <1>0, <3>1
    <3>5. Kept
      BY <3>1, <3>2, <3>4
    <3> HIDE DEF x, y, Kept
    <3> QED BY <3>2, <3>3, <3>4, <3>5
  <2>2. n \in Nat /\ al \in [Items -> Nat] /\ Total(Items, al) <= n
    <3>1. n \in Nat /\ al \in [Items -> Nat]
      BY DEF Quantity, Allocations
    <3>2. Total(Items, al) <= n
      BY <1>2 DEF AddReceiptItem, Allocatable
    <3> QED BY <3>1, <3>2
  <2>3. Adds(Items, x.alloc[b], al, y.alloc[b])
    BY <1>0, <2>1, <2>2 DEF Adds
  <2> HIDE DEF x, y
  <2>4. /\ Total(Items, x.alloc[b]) \in Nat /\ Total(Items, al) \in Nat
        /\ Total(Items, y.alloc[b]) = Total(Items, x.alloc[b]) + Total(Items, al)
    BY <2>3, TotalAdd
  <2>5. \A c \in Lots : Total(Items, y.alloc[c]) <= y.quantity[c]
    BY <1>0, <2>1, <2>2, <2>4
  <2> QED BY <2>1, <2>5, AllocWritten DEF Fits, x, y
<1>3. ASSUME NEW b \in Lots, NEW n \in Quantity, NEW al \in Allocations, EditDraft(r, b, n, al)
      PROVE  AllocInv'
  <2>1. /\ Kept /\ \A c \in Lots \ {b} : y.alloc[c] = x.alloc[c] /\ y.quantity[c] = x.quantity[c]
        /\ y.alloc[b] = al /\ y.quantity[b] = n
    BY <1>0, <1>3 DEF EditDraft, Receipt
  <2>2. Total(Items, al) <= n
    BY <1>3 DEF EditDraft, Allocatable
  <2>3. \A c \in Lots : Total(Items, y.alloc[c]) <= y.quantity[c]
    BY <1>0, <2>1, <2>2
  <2> QED BY <2>1, <2>3, AllocWritten DEF Fits
<1>4. ASSUME NEW b \in Lots, DeleteDraftItem(r, b) PROVE AllocInv'
  <2>1. /\ Kept /\ \A c \in Lots \ {b} : y.alloc[c] = x.alloc[c] /\ y.quantity[c] = x.quantity[c]
        /\ y.alloc[b] = [i \in Items |-> 0] /\ y.quantity[b] = 0
    BY <1>0, <1>4 DEF DeleteDraftItem, Receipt
  <2>2. Total(Items, y.alloc[b]) = 0
    BY <2>1, TotalZeroOutside, TotalNone
  <2>3. \A c \in Lots : Total(Items, y.alloc[c]) <= y.quantity[c]
    BY <1>0, <2>1, <2>2
  <2> QED BY <2>1, <2>3, AllocWritten DEF Fits
<1>5. ASSUME NEW b \in Lots, NEW n \in 0 .. MaxQuantity, CorrectReceipt(r, b, n) PROVE AllocInv'
  <2>1. /\ Kept /\ y.alloc = x.alloc /\ y.quantity[b] = n
        /\ \A c \in Lots \ {b} : y.quantity[c] = x.quantity[c]
    BY <1>0, <1>5 DEF CorrectReceipt, Receipt
  <2>2. n >= Total(Items, x.alloc[b])
    BY <1>5 DEF CorrectReceipt, Protected
  <2>3. \A c \in Lots : Total(Items, y.alloc[c]) <= y.quantity[c]
    <3>1. Total(Items, x.alloc[b]) \in Nat
      BY <1>0, TotalNat
    <3> QED BY <1>0, <2>1, <2>2, <3>1
  <2> QED BY <2>1, <2>3, AllocWritten DEF Fits
<1> QED BY <1>1, <1>2, <1>3, <1>4, <1>5

\* What a posting gives a line is added to what the others gave.
LEMMA AllocPosted ==
    ASSUME StockInv, AllocInv, NEW r \in Receipts, PostReceipt(r)
    PROVE  AllocInv'
<1>0. /\ TypeOK /\ receipt \in [Receipts -> Receipt] /\ item \in [Items -> Item]
      /\ \A i \in Items : Planned(r, i, {}) \in Nat
  BY Rows, PlannedNat DEF StockInv
<1>1. /\ receipt' = [receipt EXCEPT ![r].status = "posted"] /\ receipt[r].status = "draft"
      /\ order' = order
  BY DEF PostReceipt
<1>2. /\ \A s \in Receipts : /\ receipt'[s].alloc = receipt[s].alloc
                             /\ receipt'[s].quantity = receipt[s].quantity
      /\ Posted' = Posted \cup {r} /\ r \notin Posted
  BY <1>0, <1>1 DEF Posted, Receipt
<1>3. \A s \in Receipts : Fits(s)'
  BY <1>2 DEF AllocInv, Fits
<1>4. ASSUME NEW i \in Items
      PROVE  /\ item'[i].received = item[i].received + Planned(r, i, {})
             /\ Planned(r, i, {}) > 0 => Placed(OrderOf[i])
  <2> DEFINE n == Planned(r, i, {})
  <2>1. /\ item'[i] = IF n = 0 THEN item[i] ELSE
             [item[i] EXCEPT !.received = @ + n,
                             !.procurement = IF n = Remaining(i) THEN "received" ELSE "ordered"]
        /\ n > 0 => Placed(OrderOf[i])
    BY DEF PostReceipt, Receivable, Live
  <2>2. n \in Nat /\ item[i] \in Item
    BY <1>0
  <2> HIDE DEF n
  <2>3. item'[i].received = item[i].received + n
    BY <2>1, <2>2 DEF Item
  <2> QED BY <2>1, <2>3 DEF n
<1>5. ASSUME NEW i \in Items
      PROVE  Given(i)' = Given(i) + Planned(r, i, {})
  <2> DEFINE f == [s \in Receipts |-> Planned(s, i, {})]
             g == [s \in Receipts |-> Planned(s, i, {})']
             R == {r}
             Q == Posted'
  <2>1. \A s \in Receipts : g[s] = f[s] /\ f[s] \in Nat
    BY <1>0, <1>2, PlannedNat DEF Planned
  <2>2. Total(R, f) = Planned(r, i, {})
    BY <2>1, TotalOne
  <2>3. Q = Posted \cup R /\ R \cap Posted = {} /\ Q \subseteq Receipts
    BY <1>2 DEF Posted
  <2>4. Given(i) = Total(Posted, f) /\ Given(i)' = Total(Q, g)
    BY DEF Given
  <2> HIDE DEF f, g, R, Q
  <2>5. /\ IsFiniteSet(Q) /\ R \subseteq Q /\ Q \ R = Posted
        /\ \A s \in Q : g[s] = f[s] /\ f[s] \in Nat
    BY <2>1, <2>3, FS_Subset
  <2>6. Total(Q, g) = Total(Q, f)
    BY <2>5, TotalSame
  <2>7. /\ Total(R, f) \in Nat /\ Total(Q \ R, f) \in Nat
        /\ Total(Q, f) = Total(R, f) + Total(Q \ R, f)
    BY <2>5, TotalSplit
  <2>8. Total(Q \ R, f) = Total(Posted, f)
    BY <2>5, Zenon
  <2> QED BY <2>2, <2>4, <2>6, <2>7, <2>8
<1>6. \A i \in Items : item'[i].received = Given(i)'
  BY <1>4, <1>5 DEF AllocInv
<1>7. \A i \in Items : ~Placed(OrderOf[i])' => item'[i].received = 0
  BY <1>0, <1>1, <1>4 DEF AllocInv, Placed, Item
<1> QED BY <1>3, <1>6, <1>7 DEF AllocInv

LEMMA AllocStep ==
    ASSUME ShopInv, AllocInv, [Next]_vars
    PROVE  AllocInv'
<1>0. /\ item \in [Items -> Item] /\ order \in [Orders -> Order]
      /\ \A o \in Orders : Placed(o) => order[o].status \in Statuses \ {"none"}
  BY Rows DEF ShopInv, StockInv, Placed, Order
<1>1. item' = item /\ order' = order /\ receipt' = receipt => AllocInv'
  BY AllocSame DEF Placed
<1>2. CASE UNCHANGED vars
  BY <1>1, <1>2 DEF vars
<1>3. CASE OrderNext
  <2>1. ASSUME NEW o \in Orders, NEW channel \in Channels,
               NEW want \in [ItemsIn(o) -> Quantity], CreateOrder(o, channel, want)
        PROVE  AllocInv'
    <3>1. \A x \in Orders : Placed(x) => Placed(x)'
      BY <1>0, <2>1 DEF CreateOrder, Placed, NoOrder
    <3>2. \A i \in Items : item'[i].received = item[i].received
      BY <2>1 DEF CreateOrder, AllocInv, ItemsIn
    <3> QED BY <2>1, <3>1, <3>2, AllocSame DEF CreateOrder
  <2>2. ASSUME NEW o \in Orders, Cancel(o) \/ FinalizeResolution(o) PROVE AllocInv'
    <3>1. \A x \in Orders : Placed(x) => Placed(x)'
      BY <1>0, <2>2 DEF Cancel, FinalizeResolution, Placed, Order
    <3>2. \A i \in Items : item'[i].received = item[i].received
      BY <1>0, <2>2 DEF Cancel, FinalizeResolution, ReleaseLines, Item
    <3> QED BY <2>2, <3>1, <3>2, AllocSame DEF Cancel, FinalizeResolution
  <2>3. ASSUME NEW o \in Orders,
               Confirm(o) \/ RecordPayment(o) \/ CompleteShop(o) \/ OpenResolution(o)
        PROVE  AllocInv'
    <3>1. item' = item /\ receipt' = receipt
      BY <2>3 DEF Confirm, RecordPayment, CompleteShop, OpenResolution
    <3>2. \A x \in Orders : Placed(x) => Placed(x)'
      <4>1. CASE Confirm(o)
        BY <1>0, <4>1 DEF Confirm, Placed, Order
      <4>2. CASE RecordPayment(o)
        BY <1>0, <4>2 DEF RecordPayment, Placed, Order
      <4>3. CASE CompleteShop(o)
        BY <1>0, <4>3 DEF CompleteShop, Placed, Order
      <4>4. CASE OpenResolution(o)
        <5>1. \A x \in Orders : order'[x].status = order[x].status
          BY <1>0, <4>4 DEF OpenResolution, Order
        <5> QED BY <5>1 DEF Placed
      <4> QED BY <2>3, <4>1, <4>2, <4>3, <4>4
    <3> QED BY <3>1, <3>2, AllocSame
  <2>4. ASSUME NEW o \in Orders, HandOverAtTill(o) \/ \E cod \in BOOLEAN : HandOverShop(o, cod)
        PROVE  AllocInv'
    <3>1. item' = item /\ receipt' = receipt
      BY <2>4 DEF HandOverAtTill, HandOverShop, ShipLines
    <3>2. \A x \in Orders : Placed(x) => Placed(x)'
      BY <1>0, <2>4 DEF HandOverAtTill, HandOverShop, Placed, Order
    <3> QED BY <3>1, <3>2, AllocSame
  <2> QED BY <1>3, <2>1, <2>2, <2>3, <2>4 DEF OrderNext
<1>4. CASE ReturnNext
  <2>1. item' = item /\ receipt' = receipt
    BY <1>4 DEF ReturnNext, ReceiveReturn, InspectParcel, PutBack, AttachParcelReturn,
                CloseParcelReturn
  <2>2. \A x \in Orders : Placed(x) => Placed(x)'
    BY <1>0, <1>4 DEF ReturnNext, ReceiveReturn, InspectParcel, AttachParcelReturn,
                CloseParcelReturn, Placed, Order
  <2> QED BY <2>1, <2>2, AllocSame
<1>5. CASE ReceiptNext
  <2>1. ASSUME NEW S \in SUBSET Items, MarkOrdered(S) PROVE AllocInv'
    <3>1. \A i \in Items : item'[i].received = item[i].received
      BY <1>0, <2>1 DEF MarkOrdered, Item
    <3> QED BY <2>1, <3>1, AllocSame DEF MarkOrdered, Placed
  <2> QED BY <1>5, <2>1, AllocDraft, AllocPosted DEF ReceiptNext, ShopInv
<1>6. CASE ManualNext
  BY <1>1, <1>6 DEF ManualNext, ManualReceipt, WriteOff, ManualReturn
<1>7. CASE CountNext
  BY <1>1, <1>7 DEF CountNext, CreateCount, PostCount, SetCountItem
<1> QED BY <1>2, <1>3, <1>4, <1>5, <1>6, <1>7 DEF Next

LEMMA InitAlloc == Init => AllocInv
<1> SUFFICES ASSUME Init PROVE AllocInv
  OBVIOUS
<1>1. ASSUME NEW r \in Receipts PROVE Fits(r)
  <2> SUFFICES ASSUME NEW b \in Lots PROVE Total(Items, receipt[r].alloc[b]) <= receipt[r].quantity[b]
    BY DEF Fits
  <2>1. receipt[r].quantity[b] = 0 /\ receipt[r].alloc[b] = [i \in Items |-> 0]
    BY DEF Init, NoReceipt
  <2>2. Total(Items, receipt[r].alloc[b]) = 0
    BY <2>1, TotalZeroOutside, TotalNone
  <2> QED BY <2>1, <2>2
<1>2. Posted = {}
  BY DEF Init, NoReceipt, Posted
<1>3. \A i \in Items : Given(i) = 0
  BY <1>2, TotalNone DEF Given
<1> QED BY <1>1, <1>3 DEF AllocInv, Init, NoItem

\* What lots give to lines came with them and stays with them, whatever edits,
\* merged scans and corrections follow, and what a line received is the sum of
\* what the posted receipts gave it.
THEOREM Covered == Spec => []AllocationsCovered
<1>1. Spec => []AllocInv
  BY InitAlloc, AllocStep, ShopInvariance, PTL DEF Spec
<1>2. AllocInv => AllocationsCovered
  BY DEF AllocInv, AllocationsCovered, Fits
<1> QED BY <1>1, <1>2, PTL

-----------------------------------------------------------------------------
(* Corrections: what a receipt brought is free where nothing was taken.    *)

\* What receipt r brought of product p, and how much of it went to lines.
Brought(r, p) == Total(LotsOf(p), receipt[r].quantity)
Spent(r, p) == Total(LinesOf(p), [i \in Items |-> Planned(r, i, {})])

LEMMA IntactDef ==
    UnstirredLotsIntact <=> \A r \in Receipts : \A p \in Products \ stirred[r] :
        receipt[r].status = "posted" => Brought(r, p) <= Available(p) + Spent(r, p)
BY DEF UnstirredLotsIntact, Brought, Spent, LinesOf

LEMMA LotNumbers ==
    ASSUME TypeOK, NEW r \in Receipts, NEW p \in Products
    PROVE  Brought(r, p) \in Nat /\ Spent(r, p) \in Nat /\ Available(p) \in Int
<1> DEFINE cover == [i \in Items |-> Planned(r, i, {})]
<1>1. /\ \A b \in LotsOf(p) : receipt[r].quantity[b] \in Nat
      /\ \A i \in LinesOf(p) : cover[i] \in Nat
      /\ IsFiniteSet(LotsOf(p)) /\ IsFiniteSet(LinesOf(p))
  BY Rows, PlannedNat, FS_Subset DEF Receipt, LotsOf, LinesOf
<1> HIDE DEF cover
<1>2. Total(LotsOf(p), receipt[r].quantity) \in Nat
  BY <1>1, TotalNat
<1>3. Total(LinesOf(p), cover) \in Nat
  BY <1>1, TotalNat
<1>4. Available(p) \in Int
  BY Rows DEF Available
<1> QED BY <1>2, <1>3, <1>4 DEF Brought, Spent, cover

\* A step after which a posted receipt is the same, and every product it has
\* not found an outflow of has no less available.
Rises(r) == receipt'[r].status = "posted" =>
    /\ receipt'[r] = receipt[r] /\ stirred[r] \subseteq stirred'[r]
    /\ \A p \in Products \ stirred'[r] : Available(p) <= Available(p)'

LEMMA IntactRises ==
    ASSUME TypeOK, TypeOK', UnstirredLotsIntact, NEW r \in Receipts, Rises(r),
           NEW p \in Products \ stirred'[r], receipt'[r].status = "posted"
    PROVE  Brought(r, p)' <= Available(p)' + Spent(r, p)'
<1>1. Brought(r, p) <= Available(p) + Spent(r, p)
  BY IntactDef DEF Rises
<1>2. Brought(r, p)' = Brought(r, p) /\ Spent(r, p)' = Spent(r, p)
  BY DEF Rises, Brought, Spent, Planned
<1>3. Available(p) <= Available(p)' /\ Available(p)' \in Int
  BY LotNumbers, RowsAfter DEF Rises, Available
<1> QED BY <1>1, <1>2, <1>3, LotNumbers

LEMMA RisesSame ==
    ASSUME UNCHANGED <<receipt, stirred>>, TypeOK,
           \A p \in Products : Available(p) <= Available(p)'
    PROVE  \A r \in Receipts : Rises(r)
BY DEF Rises

\* Steps that take from a product stir it.
LEMMA RisesStirred ==
    ASSUME NEW P, Stir(P), UNCHANGED receipt,
           \A p \in Products \ P : Available(p) <= Available(p)'
    PROVE  \A r \in Receipts : Rises(r)
BY DEF Rises, Stir

LEMMA RisesPlaced ==
    ASSUME TypeOK, NEW o \in Orders, NEW channel \in Channels,
           NEW want \in [ItemsIn(o) -> Quantity], CreateOrder(o, channel, want)
    PROVE  \A r \in Receipts : Rises(r)
<1> DEFINE taken == [i \in ItemsIn(o) |-> Least(want[i], Available(ProductOf[i]))]
           Reserve(q) == {i \in ItemFor(o, q) : taken[i] # 0}
           P == {q \in Products : Reserve(q) # {}}
<1>1. /\ Stir(P) /\ receipt' = receipt /\ stock' = stock
      /\ reserved' = [q \in Products |-> reserved[q] + Total(Reserve(q), taken)]
  BY DEF CreateOrder
<1> HIDE DEF taken
<1>2. ASSUME NEW p \in Products \ P PROVE Available(p) <= Available(p)'
  <2>1. Reserve(p) = {}
    OBVIOUS
  <2>2. Total(Reserve(p), taken) = 0
    BY <2>1, TotalNone
  <2>3. reserved'[p] = reserved[p] + 0 /\ reserved[p] \in Nat /\ stock[p] \in Nat
    BY <1>1, <2>2, Rows
  <2> QED BY <1>1, <2>3 DEF Available
<1> HIDE DEF P
<1> QED BY <1>1, <1>2, RisesStirred

LEMMA RisesReleased ==
    ASSUME StockInv, NEW o \in Orders, Cancel(o) \/ FinalizeResolution(o)
    PROVE  \A r \in Receipts : Rises(r)
<1>1. /\ ReservationsOwned(o) /\ ReleaseLines(o)
      /\ stock' = stock /\ receipt' = receipt /\ stirred' = stirred
  BY DEF Cancel, FinalizeResolution
<1>2. /\ reserved' \in [Products -> Nat] /\ reserved \in [Products -> Nat]
      /\ stock \in [Products -> Nat] /\ \A p \in Products : reserved'[p] <= reserved[p]
  BY <1>1, UnreserveFacts, Rows DEF ReleaseLines, StockInv
<1>3. \A p \in Products : Available(p) <= Available(p)'
  BY <1>1, <1>2 DEF Available
<1> QED BY <1>1, <1>3, RisesSame DEF StockInv

LEMMA RisesShipped ==
    ASSUME TypeOK, NEW o \in Orders,
           HandOverAtTill(o) \/ \E cod \in BOOLEAN : HandOverShop(o, cod)
    PROVE  \A r \in Receipts : Rises(r)
<1> DEFINE held == [i \in ItemsIn(o) |-> Holding(i)]
           P == {ProductOf[i] : i \in ItemsIn(o)}
<1>1. /\ Stir(P) /\ receipt' = receipt
      /\ stock' = [p \in Products |-> stock[p] - Total(ItemFor(o, p), held)]
      /\ reserved' = [p \in Products |-> reserved[p] - Total(ItemFor(o, p), held)]
  BY DEF HandOverAtTill, HandOverShop, ShipLines, Unreserve
<1> HIDE DEF held
<1>2. ASSUME NEW p \in Products \ P PROVE Available(p) <= Available(p)'
  <2>1. ItemFor(o, p) = {}
    BY DEF ItemFor
  <2>2. Total(ItemFor(o, p), held) = 0
    BY <2>1, TotalNone
  <2>3. /\ reserved'[p] = reserved[p] - 0 /\ stock'[p] = stock[p] - 0
        /\ reserved[p] \in Nat /\ stock[p] \in Nat
    BY <1>1, <2>2, Rows
  <2> QED BY <2>3 DEF Available
<1> HIDE DEF P
<1> QED BY <1>1, <1>2, RisesStirred

LEMMA RisesRestocked ==
    ASSUME TypeOK, TypeOK', NEW o \in Orders, NEW back \in Restocks(o), PutBack(o, back)
    PROVE  \A r \in Receipts : Rises(r)
<1>1. /\ receipt' = receipt /\ stirred' = stirred /\ reserved' = reserved
      /\ stock' = [p \in Products |-> stock[p] + Total(ItemFor(o, p), back)]
  BY DEF PutBack
<1>2. \A i \in ItemsIn(o) : back[i] \in Nat
  BY DEF Restocks
<1>3. ASSUME NEW p \in Products PROVE Available(p) <= Available(p)'
  <2>1. Total(ItemFor(o, p), back) \in Nat
    BY <1>2, LineTotal
  <2> QED BY <1>1, <2>1, Rows DEF Available
<1> QED BY <1>1, <1>3, RisesSame

LEMMA RisesDrafted ==
    ASSUME TypeOK, NEW s \in Receipts,
           \/ CreateReceipt(s)
           \/ \E b \in Lots : \E n \in Quantity : \E al \in Allocations :
                AddReceiptItem(s, b, n, al) \/ EditDraft(s, b, n, al)
           \/ \E b \in Lots : DeleteDraftItem(s, b)
    PROVE  \A r \in Receipts : Rises(r)
<1>0. receipt \in [Receipts -> Receipt] /\ \A p \in Products : Available(p) \in Int
  BY Rows DEF Available
<1> DEFINE Drafted == /\ UNCHANGED <<stock, reserved, stirred>>
                      /\ \A r \in Receipts \ {s} : receipt'[r] = receipt[r]
                      /\ receipt'[s].status = "draft"
<1>1. ASSUME CreateReceipt(s) PROVE Drafted
  BY <1>0, <1>1 DEF CreateReceipt, Receipt
<1>2. ASSUME NEW b \in Lots, NEW n, NEW al, AddReceiptItem(s, b, n, al) PROVE Drafted
  BY <1>0, <1>2 DEF AddReceiptItem, Receipt
<1>3. ASSUME NEW b \in Lots, NEW n, NEW al, EditDraft(s, b, n, al) PROVE Drafted
  BY <1>0, <1>3 DEF EditDraft, Receipt
<1>4. ASSUME NEW b \in Lots, DeleteDraftItem(s, b) PROVE Drafted
  <2>1. UNCHANGED <<stock, reserved, stirred>> /\ receipt[s].status = "draft"
    BY <1>4 DEF DeleteDraftItem
  <2>2. \A r \in Receipts : r # s => receipt'[r] = receipt[r]
    BY <1>0, <1>4 DEF DeleteDraftItem
  <2>3. receipt'[s].status = receipt[s].status
    <3>1. receipt' = [receipt EXCEPT ![s].lots = @ \ {b}, ![s].quantity[b] = 0,
                                     ![s].alloc[b] = [i \in Items |-> 0]]
      BY <1>4 DEF DeleteDraftItem
    <3> DEFINE none == [i \in Items |-> 0]
    <3>2. receipt' = [receipt EXCEPT ![s].lots = @ \ {b}, ![s].quantity[b] = 0,
                                     ![s].alloc[b] = none]
      BY <3>1
    <3> HIDE DEF none
    <3> QED BY ONLY <1>0, <3>2, s \in Receipts DEF Receipt
  <2> QED BY <2>1, <2>2, <2>3
<1>5. Drafted
  BY <1>1, <1>2, <1>3, <1>4
<1>6. \A p \in Products : Available(p)' = Available(p)
  BY <1>5 DEF Available
<1> QED BY <1>0, <1>5, <1>6 DEF Rises

LEMMA RisesByHand ==
    ASSUME TypeOK, ManualNext
    PROVE  \A r \in Receipts : Rises(r)
<1>0. stock \in [Products -> Nat] /\ reserved \in [Products -> Nat]
  BY Rows
<1>1. ASSUME NEW q \in Products, NEW n \in Quantity,
             \/ ManualReceipt(q, n)
             \/ \E i \in Items : ProductOf[i] = q /\ ManualReturn(i, n)
      PROVE  \A r \in Receipts : Rises(r)
  <2>1. /\ UNCHANGED <<receipt, stirred, reserved>>
        /\ stock' = [stock EXCEPT ![q] = @ + n] /\ n \in Nat
    BY <1>1 DEF ManualReceipt, ManualReturn, Quantity
  <2>2. \A p \in Products : Available(p) <= Available(p)'
    BY <1>0, <2>1 DEF Available
  <2> QED BY <2>1, <2>2, RisesSame
<1>2. ASSUME NEW q \in Products, NEW n \in Quantity, WriteOff(q, n)
      PROVE  \A r \in Receipts : Rises(r)
  <2> DEFINE P == {q}
  <2>1. Stir(P) /\ receipt' = receipt
    BY <1>2 DEF WriteOff
  <2>2. \A p \in Products \ P : Available(p) <= Available(p)'
    BY <1>0, <1>2 DEF WriteOff, Available
  <2> HIDE DEF P
  <2> QED BY <2>1, <2>2, RisesStirred
<1> QED BY <1>1, <1>2 DEF ManualNext

LEMMA RisesCounted ==
    ASSUME TypeOK, CountNext
    PROVE  \A r \in Receipts : Rises(r)
<1>0. /\ stock \in [Products -> Nat] /\ reserved \in [Products -> Nat]
      /\ count \in [Counts -> Count] /\ \A p \in Products : Available(p) \in Int
  BY Rows DEF Available
<1>1. ASSUME NEW c \in Counts,
             CreateCount(c) \/ \E p \in Products : \E n \in 0 .. MaxStock : SetCountItem(c, p, n)
      PROVE  \A r \in Receipts : Rises(r)
  <2>1. UNCHANGED <<stock, reserved, receipt, stirred>>
    BY <1>1 DEF CreateCount, SetCountItem
  <2>2. \A p \in Products : Available(p) <= Available(p)'
    BY <1>0, <2>1 DEF Available
  <2> QED BY <2>1, <2>2, RisesSame
<1>2. ASSUME NEW c \in Counts, PostCount(c)
      PROVE  \A r \in Receipts : Rises(r)
  <2> DEFINE P == {p \in Scanned(c) : count[c].counted[p] < stock[p]}
  <2>1. /\ Stir(P) /\ receipt' = receipt /\ reserved' = reserved
        /\ stock' = [p \in Products |-> IF p \in Scanned(c) THEN count[c].counted[p] ELSE stock[p]]
    BY <1>2 DEF PostCount
  <2>2. ASSUME NEW p \in Products \ P PROVE Available(p) <= Available(p)'
    <3>1. p \in Scanned(c) => count[c].counted[p] \in Nat
      BY <1>0 DEF Scanned, Count
    <3> QED BY <1>0, <2>1, <3>1 DEF Available
  <2> HIDE DEF P
  <2> QED BY <2>1, <2>2, RisesStirred
<1> QED BY <1>1, <1>2 DEF CountNext

\* A posting brings at least what it gives to lines; of the other receipts it
\* stirs the products whose lines it covers.
LEMMA IntactPosted ==
    ASSUME StockInv, UnstirredLotsIntact, NEW s \in Receipts, PostReceipt(s), TypeOK'
    PROVE  UnstirredLotsIntact'
<1> DEFINE arrived(p) == Total(LotsOf(p), receipt[s].quantity)
           covered(i) == Planned(s, i, {})
           out(p) == Total(LinesOf(p), [i \in Items |-> Planned(s, i, {})])
           P == {ProductOf[i] : i \in {k \in Items : covered(k) > 0}}
<1>0. /\ TypeOK /\ stock \in [Products -> Nat] /\ reserved \in [Products -> Nat]
      /\ receipt \in [Receipts -> Receipt] /\ stirred \in [Receipts -> SUBSET Products]
      /\ \A i \in Items : covered(i) \in Nat
      /\ \A p \in Products : reserved[p] <= stock[p]
  BY Rows, PlannedNat DEF StockInv, NoOversell
<1>1. /\ stock' = [p \in Products |-> stock[p] + arrived(p)]
      /\ reserved' = [p \in Products |-> reserved[p] + out(p)]
      /\ Stir(P) /\ receipt' = [receipt EXCEPT ![s].status = "posted"]
      /\ receipt[s].status = "draft"
  BY DEF PostReceipt, LinesOf
<1>2. \A p \in Products : /\ arrived(p) = Brought(s, p) /\ arrived(p) \in Nat
                          /\ out(p) = Spent(s, p) /\ out(p) \in Nat
  BY <1>0, LotNumbers DEF Brought, Spent
<1>3. \A p \in Products \ P : out(p) = 0
  <2> TAKE p \in Products \ P
  <2> DEFINE cover == [i \in Items |-> Planned(s, i, {})]
  <2>1. \A i \in LinesOf(p) \ {} : cover[i] = 0
    <3> TAKE i \in LinesOf(p) \ {}
    <3>1. i \in Items /\ ProductOf[i] = p
      BY DEF LinesOf
    <3>2. ~(covered(i) > 0) /\ covered(i) \in Nat
      BY <1>0, <3>1
    <3> HIDE DEF covered
    <3>3. covered(i) = 0
      BY <3>2
    <3> QED BY <3>1, <3>3 DEF covered
  <2> HIDE DEF cover
  <2>2. Total(LinesOf(p), cover) = 0
    BY <2>1, TotalZeroOutside, TotalNone
  <2> QED BY <2>2 DEF cover
<1>4. \A p \in Products : Available(p)' = Available(p) + arrived(p) - out(p) /\ Available(p) >= 0
  <2> HIDE DEF arrived, out
  <2> QED BY <1>0, <1>1, <1>2 DEF Available
<1>5. ASSUME NEW r \in Receipts \ {s} PROVE Rises(r)
  <2>1. receipt'[r] = receipt[r]
    BY <1>0, <1>1
  <2>2. receipt[r].status = "posted" => stirred'[r] = stirred[r] \cup P
    BY <1>1 DEF Stir
  <2>3. \A p \in Products \ P : Available(p) <= Available(p)'
    <3> HIDE DEF arrived, out, P
    <3> QED BY <1>0, <1>2, <1>3, <1>4 DEF Available
  <2> HIDE DEF P
  <2> QED BY <2>1, <2>2, <2>3 DEF Rises
<1>6. ASSUME NEW p \in Products PROVE Brought(s, p)' <= Available(p)' + Spent(s, p)'
  <2>1. receipt'[s].quantity = receipt[s].quantity /\ receipt'[s].alloc = receipt[s].alloc
    BY <1>0, <1>1 DEF Receipt
  <2>2. Brought(s, p)' = Brought(s, p) /\ Spent(s, p)' = Spent(s, p)
    BY <2>1 DEF Brought, Spent, Planned
  <2> HIDE DEF arrived, out
  <2> QED BY <1>0, <1>2, <1>4, <2>2 DEF Available
<1>7. ASSUME NEW r \in Receipts, NEW p \in Products \ stirred'[r], receipt'[r].status = "posted"
      PROVE  Brought(r, p)' <= Available(p)' + Spent(r, p)'
  BY <1>0, <1>5, <1>6, <1>7, IntactRises
<1> QED BY <1>7 DEF UnstirredLotsIntact, Brought, Spent, LinesOf

\* A correction moves the stock by as much as the lot, and a decrease stirs
\* the product for the other receipts.
LEMMA IntactCorrected ==
    ASSUME StockInv, UnstirredLotsIntact, TypeOK', NEW s \in Receipts, NEW b \in Lots,
           NEW n \in 0 .. MaxQuantity, CorrectReceipt(s, b, n)
    PROVE  UnstirredLotsIntact'
<1> DEFINE q == LotProduct[b]
           old == receipt[s].quantity
           new == receipt'[s].quantity
           delta == n - old[b]
<1>0. /\ TypeOK /\ stock \in [Products -> Nat] /\ reserved \in [Products -> Nat]
      /\ receipt \in [Receipts -> Receipt] /\ stirred \in [Receipts -> SUBSET Products]
      /\ old \in [Lots -> Nat] /\ q \in Products /\ n \in Nat /\ delta \in Int
  BY Rows DEF StockInv, Receipt
<1>1. /\ receipt[s].status = "posted" /\ b \in receipt[s].lots
      /\ stock' = [stock EXCEPT ![q] = @ + delta] /\ reserved' = reserved
      /\ receipt' = [receipt EXCEPT ![s].quantity[b] = n]
      /\ stirred' = [r \in Receipts |->
           IF r # s /\ receipt[r].status = "posted" /\ delta < 0
           THEN stirred[r] \cup {q} ELSE stirred[r]]
  BY DEF CorrectReceipt
<1>2. /\ receipt'[s].alloc = receipt[s].alloc /\ new = [old EXCEPT ![b] = n]
      /\ \A r \in Receipts \ {s} : receipt'[r] = receipt[r]
  BY <1>0, <1>1 DEF Receipt
<1> HIDE DEF old, new
<1>3. \A p \in Products : /\ Available(p)' = IF p = q THEN Available(p) + delta ELSE Available(p)
                          /\ Available(p) \in Int
  <2> HIDE DEF delta, q
  <2> QED BY <1>0, <1>1 DEF Available
<1>4. ASSUME NEW r \in Receipts \ {s} PROVE Rises(r)
  <2>1. receipt'[r] = receipt[r] /\ stirred[r] \subseteq stirred'[r]
    BY <1>1, <1>2
  <2>2. receipt[r].status = "posted" /\ delta < 0 => q \in stirred'[r]
    BY <1>1
  <2>3. \A p \in Products \ stirred'[r] : receipt[r].status = "posted" =>
          Available(p) <= Available(p)'
    <3> HIDE DEF delta, q
    <3> QED BY <1>0, <1>3, <2>2
  <2> QED BY <2>1, <2>3 DEF Rises
<1>5. ASSUME NEW p \in Products \ stirred'[s]
      PROVE  Brought(s, p)' <= Available(p)' + Spent(s, p)'
  <2>1. p \in Products \ stirred[s]
    BY <1>1
  <2>2. Brought(s, p) <= Available(p) + Spent(s, p)
    BY <1>1, <2>1, IntactDef
  <2>3. Spent(s, p)' = Spent(s, p)
    BY <1>2 DEF Spent, Planned
  <2>4. Brought(s, p) = Total(LotsOf(p), old) /\ Brought(s, p)' = Total(LotsOf(p), new)
    BY DEF Brought, old, new
  <2>5. CASE p # q
    <3>1. \A c \in LotsOf(p) : new[c] = old[c]
      BY <1>0, <1>2, <2>5 DEF LotsOf
    <3>2. Total(LotsOf(p), new) = Total(LotsOf(p), old)
      BY <3>1, TotalSame
    <3> QED BY <1>3, <2>2, <2>3, <2>4, <2>5, <3>2
  <2>6. CASE p = q
    <3>1. b \in LotsOf(p) /\ IsFiniteSet(LotsOf(p))
      BY <2>6, FS_Subset DEF LotsOf
    <3>2. /\ \A c \in LotsOf(p) : old[c] \in Nat /\ new[c] \in Nat
          /\ \A c \in LotsOf(p) \ {b} : new[c] = old[c]
          /\ new[b] = n
      BY <1>0, <1>2 DEF LotsOf
    <3>3. /\ Total(LotsOf(p), old) \in Nat /\ Total(LotsOf(p), new) \in Nat
          /\ Total(LotsOf(p), new) = Total(LotsOf(p), old) - old[b] + new[b]
      BY <3>1, <3>2, TotalPut
    <3>4. Spent(s, p) \in Nat /\ Available(p) \in Int /\ old[b] \in Nat
      BY <1>0, LotNumbers
    <3> QED BY <1>0, <1>3, <2>2, <2>3, <2>4, <2>6, <3>2, <3>3, <3>4
  <2> QED BY <2>5, <2>6
<1>6. ASSUME NEW r \in Receipts, NEW p \in Products \ stirred'[r], receipt'[r].status = "posted"
      PROVE  Brought(r, p)' <= Available(p)' + Spent(r, p)'
  BY <1>0, <1>4, <1>5, <1>6, IntactRises
<1> QED BY <1>6 DEF UnstirredLotsIntact, Brought, Spent, LinesOf

LEMMA IntactStep ==
    ASSUME StockInv, StockInv', UnstirredLotsIntact, [Next]_vars
    PROVE  UnstirredLotsIntact'
<1>0. TypeOK /\ TypeOK' /\ \A p \in Products : Available(p) \in Int
  BY Rows DEF StockInv, Available
<1>1. ASSUME \A r \in Receipts : Rises(r) PROVE UnstirredLotsIntact'
  <2>1. ASSUME NEW r \in Receipts, NEW p \in Products \ stirred'[r], receipt'[r].status = "posted"
        PROVE  Brought(r, p)' <= Available(p)' + Spent(r, p)'
    BY <1>0, <1>1, <2>1, IntactRises
  <2> QED BY <2>1 DEF UnstirredLotsIntact, Brought, Spent, LinesOf
<1>2. UNCHANGED <<stock, reserved, receipt, stirred>> => \A r \in Receipts : Rises(r)
  BY <1>0, RisesSame DEF Available
<1>3. CASE UNCHANGED vars
  BY <1>1, <1>2, <1>3 DEF vars
<1>4. CASE OrderNext
  <2>1. ASSUME NEW o \in Orders,
               Confirm(o) \/ RecordPayment(o) \/ CompleteShop(o) \/ OpenResolution(o)
        PROVE  \A r \in Receipts : Rises(r)
    BY <1>2, <2>1 DEF Confirm, RecordPayment, CompleteShop, OpenResolution
  <2> QED BY <1>0, <1>1, <1>4, <2>1, RisesPlaced, RisesReleased, RisesShipped DEF OrderNext
<1>5. CASE ReturnNext
  <2>1. ASSUME NEW o \in Orders, AttachParcelReturn(o) \/ CloseParcelReturn(o)
        PROVE  \A r \in Receipts : Rises(r)
    BY <1>2, <2>1 DEF AttachParcelReturn, CloseParcelReturn
  <2>2. ASSUME NEW o \in Orders, NEW back \in Restocks(o),
               ReceiveReturn(o, back) \/ InspectParcel(o, back)
        PROVE  \A r \in Receipts : Rises(r)
    BY <1>0, <2>2, RisesRestocked DEF ReceiveReturn, InspectParcel
  <2> QED BY <1>1, <1>5, <2>1, <2>2 DEF ReturnNext
<1>6. CASE ReceiptNext
  <2>1. ASSUME NEW S \in SUBSET Items, MarkOrdered(S) PROVE \A r \in Receipts : Rises(r)
    BY <1>2, <2>1 DEF MarkOrdered
  <2> QED BY <1>0, <1>1, <1>6, <2>1, RisesDrafted, IntactPosted, IntactCorrected DEF ReceiptNext
<1>7. CASE ManualNext
  BY <1>0, <1>1, <1>7, RisesByHand
<1>8. CASE CountNext
  BY <1>0, <1>1, <1>8, RisesCounted
<1> QED BY <1>3, <1>4, <1>5, <1>6, <1>7, <1>8 DEF Next

\* While the movements show no later outflow or reservation of a product, what
\* a posted receipt brought and gave to no line is free: the evidence by which
\* posted_correction takes units back is enough, for every shop.
THEOREM LotsIntact == Spec => []UnstirredLotsIntact
<1>1. Init => UnstirredLotsIntact
  BY DEF Init, NoReceipt, UnstirredLotsIntact
<1>2. StockInv /\ StockInv' /\ UnstirredLotsIntact /\ [Next]_vars => UnstirredLotsIntact'
  BY IntactStep
<1> QED BY <1>1, <1>2, StockInvariance, PTL DEF Spec

-----------------------------------------------------------------------------
(* The refinement: every step makes, covers, releases or ships a promise,  *)
(* or leaves all promises alone.                                           *)

LEMMA PromisedNat ==
    ASSUME TypeOK, NEW o \in Orders
    PROVE  Promised(o) \in [Products -> Nat]
<1> SUFFICES ASSUME NEW p \in Products PROVE Total(ItemFor(o, p), Owned) \in Nat
  BY DEF Promised
<1>1. \A i \in ItemsIn(o) : Owned[i] \in Nat
  BY LineType DEF Owned, ItemsIn
<1> QED BY <1>1, LineTotal

LEMMA PromisedAfter == TypeOK' => (\A o \in Orders : Promised(o) \in [Products -> Nat])'
<1>1. TypeOK => \A o \in Orders : Promised(o) \in [Products -> Nat]
  BY PromisedNat
<1> QED BY <1>1, PTL

\* What order o is promised depends on its own lines only.
LEMMA PromisedSame ==
    ASSUME NEW o \in Orders, \A i \in ItemsIn(o) : ledger'[i].owned = ledger[i].owned
    PROVE  Promised(o)' = Promised(o)
<1> SUFFICES ASSUME NEW p \in Products
             PROVE  Total(ItemFor(o, p), Owned') = Total(ItemFor(o, p), Owned)
  BY DEF Promised
<1> DEFINE f == Owned
           g == Owned'
<1>1. \A i \in ItemFor(o, p) : g[i] = f[i]
  BY DEF Owned, ItemFor, ItemsIn
<1> HIDE DEF f, g
<1>2. Total(ItemFor(o, p), g) = Total(ItemFor(o, p), f)
  BY <1>1, TotalSame
<1> QED BY <1>2 DEF f, g

\* The lines of o own x, before a step or after it.
LEMMA PromisedIs ==
    ASSUME NEW o \in Orders, NEW x, \A i \in ItemsIn(o) : Owned[i] = x[i]
    PROVE  \A p \in Products : Promised(o)[p] = Total(ItemFor(o, p), x)
<1> SUFFICES ASSUME NEW p \in Products
             PROVE  Total(ItemFor(o, p), Owned) = Total(ItemFor(o, p), x)
  BY DEF Promised
<1>1. \A i \in ItemFor(o, p) : Owned[i] = x[i]
  BY DEF ItemFor
<1> QED BY <1>1, TotalSame

LEMMA PromisedBecomes ==
    ASSUME NEW o \in Orders, NEW x, \A i \in ItemsIn(o) : Owned'[i] = x[i]
    PROVE  \A p \in Products : Promised(o)'[p] = Total(ItemFor(o, p), x)
<1> SUFFICES ASSUME NEW p \in Products
             PROVE  Total(ItemFor(o, p), Owned') = Total(ItemFor(o, p), x)
  BY DEF Promised
<1>1. \A i \in ItemFor(o, p) : Owned'[i] = x[i]
  BY DEF ItemFor
<1> HIDE DEF Owned
<1> QED BY <1>1, TotalSame

LEMMA FateElsewhere ==
    ASSUME NEW o, NEW x \in Orders \ {o}, order'[x] = order[x]
    PROVE  Fate(x)' = Fate(x)
BY DEF Fate, Placed

LEMMA MakesPromise ==
    ASSUME ShopInv, NEW o \in Orders, NEW channel \in Channels,
           NEW want \in [ItemsIn(o) -> Quantity], CreateOrder(o, channel, want)
    PROVE  Promise!Make(o)
<1> DEFINE taken == [i \in ItemsIn(o) |-> Least(want[i], Available(ProductOf[i]))]
           Reserve(q) == {i \in ItemFor(o, q) : taken[i] # 0}
<1>0. /\ order \in [Orders -> Order] /\ ~Placed(o)
      /\ stock \in [Products -> Nat] /\ reserved \in [Products -> Nat] /\ NoOversell
  BY Rows DEF ShopInv, StockInv, CreateOrder
<1>1. /\ order' = [order EXCEPT ![o] = [NoOrder EXCEPT !.status = "pending", !.channel = channel]]
      /\ ledger' = [i \in Items |-> IF i \notin ItemsIn(o) THEN ledger[i] ELSE
           [NoLedger EXCEPT !.owned = taken[i]]]
      /\ reserved' = [q \in Products |-> reserved[q] + Total(Reserve(q), taken)]
      /\ stock' = stock
  BY DEF CreateOrder
<1>2. \A i \in ItemsIn(o) : i \in Items /\ taken[i] \in Nat
  BY <1>0 DEF ItemsIn, Quantity, Least, Available, NoOversell
<1> HIDE DEF taken
<1>3. Fate(o) = "none" /\ Fate(o)' = "open" /\ \A x \in Orders \ {o} : Fate(x)' = Fate(x)
  BY <1>0, <1>1, FateElsewhere DEF Fate, Placed, NoOrder
<1>4. ASSUME NEW x \in Orders \ {o} PROVE Promised(x)' = Promised(x)
  <2>1. \A i \in ItemsIn(x) : ledger'[i].owned = ledger[i].owned
    BY <1>1 DEF ItemsIn
  <2> QED BY <2>1, PromisedSame
<1>5. \A i \in ItemsIn(o) : Owned'[i] = taken[i]
  BY <1>1, <1>2 DEF Owned, NoLedger
<1>6. ASSUME NEW p \in Products PROVE Available(p)' = Available(p) - Promised(o)'[p]
  <2>1. Promised(o)'[p] = Total(ItemFor(o, p), taken)
    BY <1>5, PromisedBecomes
  <2>2. Total(ItemFor(o, p), taken) \in Nat
    BY <1>2, LineTotal
  <2>3. Total(ItemFor(o, p), taken) = Total(Reserve(p), taken)
    <3>1. Reserve(p) \subseteq ItemFor(o, p)
      OBVIOUS
    <3>2. \A i \in ItemFor(o, p) \ Reserve(p) : taken[i] = 0
      OBVIOUS
    <3> HIDE DEF Reserve
    <3> QED BY <3>1, <3>2, TotalZeroOutside
  <2>4. reserved'[p] = reserved[p] + Total(ItemFor(o, p), taken)
    BY <1>1, <2>3
  <2> QED BY <1>0, <1>1, <2>1, <2>2, <2>4 DEF Available
<1> QED BY <1>3, <1>4, <1>6 DEF Promise!Make

\* The promise to an order ends when its lines own nothing any more.
LEMMA EndsPromise ==
    ASSUME ShopInv, NEW o \in Orders, NEW as, Fate(o) = "open", Fate(o)' = as,
           \A x \in Orders \ {o} : order'[x] = order[x],
           \A i \in ItemsIn(o) : ledger'[i].owned = 0,
           \A i \in Items \ ItemsIn(o) : ledger'[i].owned = ledger[i].owned
    PROVE  Promise!End(o, as)
<1>1. \A x \in Orders \ {o} : Fate(x)' = Fate(x)
  BY FateElsewhere
<1>2. ASSUME NEW x \in Orders \ {o} PROVE Promised(x)' = Promised(x)
  <2>1. \A i \in ItemsIn(x) : ledger'[i].owned = ledger[i].owned
    BY DEF ItemsIn
  <2> QED BY <2>1, PromisedSame
<1>3. Promised(o)' = Promise!Nothing
  <2> DEFINE x == [i \in ItemsIn(o) |-> 0]
  <2>1. \A i \in ItemsIn(o) : Owned'[i] = x[i]
    BY DEF Owned, ItemsIn
  <2>2. \A i : i \in ItemsIn(o) => x[i] = 0
    OBVIOUS
  <2> HIDE DEF x
  <2>3. \A p \in Products : Promised(o)'[p] = 0
    <3> TAKE p \in Products
    <3>1. Promised(o)'[p] = Total(ItemFor(o, p), x)
      BY <2>1, PromisedBecomes
    <3>2. \A i \in ItemFor(o, p) \ {} : x[i] = 0
      BY <2>2 DEF ItemFor
    <3>3. Total(ItemFor(o, p), x) = Total({}, x)
      BY <3>2, TotalZeroOutside
    <3> QED BY <3>1, <3>3, TotalNone
  <2> QED BY <2>3 DEF Promised, Promise!Nothing
<1> QED BY <1>1, <1>2, <1>3 DEF Promise!End

\* What the products of o reserve for it is what it is promised.
LEMMA PromisedHeld ==
    ASSUME ShopInv, NEW o \in Orders, ReservationsOwned(o), NEW p \in Products
    PROVE  Promised(o)[p] = Total(ItemFor(o, p), [i \in ItemsIn(o) |-> Holding(i)])
<1> DEFINE held == [i \in ItemsIn(o) |-> Holding(i)]
<1>1. \A i \in ItemsIn(o) : Owned[i] = held[i]
  BY DEF Owned, ReservationsOwned, ItemsIn
<1> HIDE DEF held
<1>2. Promised(o)[p] = Total(ItemFor(o, p), held)
  BY <1>1, PromisedIs
<1> QED BY <1>2 DEF held

LEMMA ReleasesPromise ==
    ASSUME ShopInv, NEW o \in Orders, Cancel(o) \/ FinalizeResolution(o)
    PROVE  Promise!Release(o)
<1>0. /\ order \in [Orders -> Order] /\ ledger \in [Items -> Ledger] /\ TypeOK
      /\ stock \in [Products -> Nat] /\ reserved \in [Products -> Nat]
      /\ \A p \in Products : Promised(o)[p] \in Nat
  BY Rows, PromisedNat DEF ShopInv, StockInv
<1>1. /\ Live(o) /\ ~order[o].handed /\ ReservationsOwned(o) /\ ReleaseLines(o)
      /\ order' = [order EXCEPT ![o].status = "cancelled"] /\ stock' = stock
  BY DEF Cancel, FinalizeResolution
<1>2. /\ Fate(o) = "open" /\ Fate(o)' = "released"
      /\ \A x \in Orders \ {o} : order'[x] = order[x]
  BY <1>0, <1>1 DEF Fate, Live, Placed, Terminal, Order
<1>3. /\ \A i \in ItemsIn(o) : ledger'[i].owned = 0
      /\ \A i \in Items \ ItemsIn(o) : ledger'[i].owned = ledger[i].owned
  <2>1. \A i \in ItemsIn(o) : i \in Items /\ ledger[i].owned - Holding(i) = 0
    BY <1>0, <1>1, LineType DEF ReservationsOwned, ItemsIn
  <2> QED BY <1>0, <1>1, <2>1 DEF ReleaseLines, Ledger
<1>4. ASSUME NEW p \in Products PROVE Available(p)' = Available(p) + Promised(o)[p]
  <2>1. reserved'[p] = reserved[p] - Promised(o)[p]
    BY <1>1, PromisedHeld DEF ReleaseLines, Unreserve
  <2> QED BY <1>0, <1>1, <2>1 DEF Available
<1>5. Promise!End(o, "released")
  BY <1>2, <1>3, EndsPromise
<1> QED BY <1>4, <1>5 DEF Promise!Release

LEMMA ShipsPromise ==
    ASSUME ShopInv, NEW o \in Orders,
           HandOverAtTill(o) \/ \E cod \in BOOLEAN : HandOverShop(o, cod)
    PROVE  Promise!Ship(o)
<1>0. /\ order \in [Orders -> Order] /\ ledger \in [Items -> Ledger] /\ TypeOK
      /\ stock \in [Products -> Nat] /\ reserved \in [Products -> Nat]
      /\ \A p \in Products : Promised(o)[p] \in Nat
  BY Rows, PromisedNat DEF ShopInv, StockInv
<1>1. Live(o) /\ ~order[o].handed /\ ReservationsOwned(o) /\ ShipLines(o)
  BY DEF HandOverAtTill, HandOverShop
<1>2. /\ Fate(o) = "open" /\ Fate(o)' = "shipped"
      /\ \A x \in Orders \ {o} : order'[x] = order[x]
  BY <1>0, <1>1 DEF HandOverAtTill, HandOverShop, Fate, Live, Placed, Terminal, Order
<1>3. /\ \A i \in ItemsIn(o) : ledger'[i].owned = 0
      /\ \A i \in Items \ ItemsIn(o) : ledger'[i].owned = ledger[i].owned
  <2>1. \A i \in ItemsIn(o) : i \in Items /\ ledger[i].owned - Holding(i) = 0
    BY <1>0, <1>1, LineType DEF ReservationsOwned, ItemsIn
  <2>2. ledger' = [i \in Items |-> IF i \notin ItemsIn(o) THEN ledger[i]
                     ELSE [ledger[i] EXCEPT !.owned = @ - Holding(i),
                                            !.shipped = @ + Holding(i)]]
    BY <1>1 DEF ShipLines
  <2>3. \A i \in ItemsIn(o) : ledger'[i].owned = ledger[i].owned - Holding(i)
    BY <1>0, <2>1, <2>2 DEF Ledger
  <2> QED BY <2>1, <2>2, <2>3
<1>4. ASSUME NEW p \in Products PROVE Available(p)' = Available(p)
  <2>1. reserved'[p] = reserved[p] - Total(ItemFor(o, p), [i \in ItemsIn(o) |-> Holding(i)])
    BY <1>1 DEF ShipLines, Unreserve
  <2>2. stock'[p] = stock[p] - Total(ItemFor(o, p), [i \in ItemsIn(o) |-> Holding(i)])
    BY <1>1 DEF ShipLines
  <2>3. Total(ItemFor(o, p), [i \in ItemsIn(o) |-> Holding(i)]) = Promised(o)[p]
    BY <1>1, PromisedHeld, Zenon
  <2> QED BY <1>0, <2>1, <2>2, <2>3 DEF Available
<1>5. Promise!End(o, "shipped")
  BY <1>2, <1>3, EndsPromise
<1> QED BY <1>4, <1>5 DEF Promise!Ship

LEMMA CoversPromise ==
    ASSUME ShopInv, TypeOK', NEW r \in Receipts, PostReceipt(r)
    PROVE  Promise!Cover
<1> DEFINE covered(i) == Planned(r, i, {})
           arrived(p) == Total(LotsOf(p), receipt[r].quantity)
           out(p) == Total({i \in Items : ProductOf[i] = p}, [i \in Items |-> covered(i)])
<1>0. /\ TypeOK /\ ledger \in [Items -> Ledger] /\ \A i \in Items : covered(i) \in Nat
      /\ stock \in [Products -> Nat] /\ reserved \in [Products -> Nat]
  BY Rows, PlannedNat DEF ShopInv, StockInv
<1>1. \A p \in Products : arrived(p) \in Nat /\ out(p) \in Nat /\ out(p) <= arrived(p)
  BY PlannedCovered DEF PostReceipt, ShopInv
<1>2. /\ stock' = [p \in Products |-> stock[p] + arrived(p)]
      /\ reserved' = [p \in Products |-> reserved[p] + out(p)]
      /\ ledger' = [i \in Items |-> [ledger[i] EXCEPT !.owned = @ + covered(i)]]
      /\ order' = order
  BY DEF PostReceipt
<1>3. \A p \in Products : Available(p)' >= Available(p)
  <2> HIDE DEF arrived, out
  <2> QED BY <1>0, <1>1, <1>2 DEF Available
<1>4. ASSUME NEW i \in Items
      PROVE  /\ Owned[i] \in Nat /\ Owned'[i] \in Nat
             /\ Owned'[i] = Owned[i] + covered(i)
             /\ covered(i) > 0 => Fate(OrderOf[i]) = "open"
  <2> DEFINE n == covered(i)
             o == OrderOf[i]
  <2>1. ledger'[i] = [ledger[i] EXCEPT !.owned = @ + n]
    BY <1>2
  <2>2. n > 0 => Live(o) /\ n <= Remaining(i)
    BY DEF PostReceipt, Receivable
  <2>3. n \in Nat /\ ledger[i] \in Ledger /\ LineInv(i)
    BY <1>0 DEF ShopInv, LinesInv
  <2> HIDE DEF n
  <2>4. Owned[i] \in Nat /\ Owned'[i] = Owned[i] + n
    BY <2>1, <2>3 DEF Owned, Ledger
  <2>5. n > 0 => ~order[o].handed
    BY <1>0, <2>2, <2>3, LineType DEF LineInv, Holding, Remaining, ToOrder
  <2>6. n > 0 => Fate(o) = "open"
    BY <2>2, <2>5 DEF Fate, Live, Placed, Terminal
  <2> QED BY <2>3, <2>4, <2>6 DEF n
<1>5. ASSUME NEW o \in Orders, NEW p \in Products
      PROVE  /\ Promised(o)'[p] >= Promised(o)[p]
             /\ Promised(o)'[p] > Promised(o)[p] => Fate(o) = "open"
  <2> DEFINE f == Owned
             g == Owned'
  <2>1. Promised(o)[p] = Total(ItemFor(o, p), f) /\ Promised(o)'[p] = Total(ItemFor(o, p), g)
    BY DEF Promised
  <2>2. IsFiniteSet(ItemFor(o, p)) /\ \A i \in ItemFor(o, p) : i \in Items /\ OrderOf[i] = o
    BY FS_Subset DEF ItemFor, ItemsIn
  <2>3. \A i \in ItemFor(o, p) : f[i] \in Nat /\ g[i] \in Nat /\ f[i] <= g[i]
    BY <1>0, <1>4, <2>2
  <2>4. ASSUME Fate(o) # "open" PROVE \A i \in ItemFor(o, p) : g[i] = f[i]
    BY <1>0, <1>4, <2>2, <2>4
  <2> HIDE DEF f, g
  <2>5. Total(ItemFor(o, p), f) <= Total(ItemFor(o, p), g)
    BY <2>2, <2>3, TotalMonotone
  <2>6. Fate(o) # "open" => Total(ItemFor(o, p), f) = Total(ItemFor(o, p), g)
    BY <2>4, TotalSame
  <2>7. Total(ItemFor(o, p), f) \in Nat /\ Total(ItemFor(o, p), g) \in Nat
    BY <2>2, <2>3, TotalNat
  <2> QED BY <2>1, <2>5, <2>6, <2>7
<1>6. \A o \in Orders : Fate(o)' = Fate(o)
  BY <1>2, QuietOrders
<1> QED BY <1>3, <1>5, <1>6 DEF Promise!Cover

LEMMA AdjustsPromise == ASSUME Quiet PROVE Promise!Adjust
<1>1. \A o \in Orders : Promised(o)' = Promised(o)
  BY PromisedSame DEF Quiet, ItemsIn
<1> QED BY <1>1 DEF Quiet, Promise!Adjust

LEMMA PromiseStep ==
    ASSUME ShopInv, ShopInv', [Next]_vars
    PROVE  Promise!Next
<1>1. [p \in Products |-> Available(p)]' \in Promise!Units
  BY Rows, RowsAfter DEF ShopInv, StockInv, NoOversell, Available, Promise!Units
<1>2. [o \in Orders |-> Promised(o)]' \in [Orders -> Promise!Units]
  BY PromisedAfter DEF ShopInv, StockInv, Promise!Units
<1>3. \/ Promise!Adjust \/ Promise!Cover
      \/ \E o \in Orders : Promise!Make(o) \/ Promise!Release(o) \/ Promise!Ship(o)
  BY StepKinds, AdjustsPromise, MakesPromise, ReleasesPromise, ShipsPromise, CoversPromise
     DEF ShopInv, StockInv
<1> QED BY <1>1, <1>2, <1>3 DEF Promise!Next

LEMMA InitPromise == Init => Promise!Init
<1> SUFFICES ASSUME Init PROVE Promise!Init
  OBVIOUS
<1>1. \A p \in Products : Available(p) = 0
  BY DEF Init, Available
<1>2. \A o \in Orders : Fate(o) = "none"
  BY DEF Init, NoOrder, Fate, Placed
<1>3. ASSUME NEW o \in Orders PROVE Promised(o) = Promise!Nothing
  <2> SUFFICES ASSUME NEW p \in Products PROVE Total(ItemFor(o, p), Owned) = 0
    BY DEF Promised, Promise!Nothing
  <2>1. \A i \in ItemFor(o, p) \ {} : Owned[i] = 0
    BY DEF Init, NoLedger, Owned, ItemFor, ItemsIn
  <2>2. Total(ItemFor(o, p), Owned) = Total({}, Owned)
    BY <2>1, TotalZeroOutside
  <2> QED BY <2>2, TotalNone
<1> QED BY <1>1, <1>2, <1>3 DEF Promise!Init, Promise!Nothing

\* The shop keeps its promises, for every shop: the units promised to an order
\* leave it only by its own release or shipment, all at once and for good, and
\* free stock changes with them unit for unit.
THEOREM PromisesKept == Spec => Promises
<1>1. ShopInv /\ ShopInv' /\ [Next]_vars =>
        [Promise!Next]_<<[p \in Products |-> Available(p)], [o \in Orders |-> Promised(o)],
                         [o \in Orders |-> Fate(o)]>>
  BY PromiseStep
<1> QED BY <1>1, InitPromise, ShopInvariance, PTL DEF Spec, Promises, Promise!Spec
=============================================================================
