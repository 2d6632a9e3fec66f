--------------------------- MODULE ShopStockLines ---------------------------
(***************************************************************************)
(* What an order line owns, ships and gets back agrees with the facts of   *)
(* its order, for every shop.                                              *)
(***************************************************************************)
EXTENDS ShopStockProofs

USE StockAssumption
USE DEF Statuses, Channels, Workflows, NotScanned

-----------------------------------------------------------------------------
(* Frames: what a step leaves alone.                                       *)

LEMMA SameOrder ==
    ASSUME NEW o \in Orders, OrderInv(o), order'[o] = order[o]
    PROVE  OrderInv(o)'
BY DEF OrderInv, Placed, ReturnOpened

LEMMA SameLine ==
    ASSUME NEW i \in Items, LineInv(i), item'[i] = item[i], ledger'[i] = ledger[i],
           order'[OrderOf[i]] = order[OrderOf[i]]
    PROVE  LineInv(i)'
BY DEF LineInv, Holds, Live, Placed, Holding, Remaining, ToOrder, ReturnOpened

LEMMA OneOrder ==
    ASSUME LinesInv, NEW o \in Orders,
           \A x \in Orders \ {o} : order'[x] = order[x],
           \A i \in Items \ ItemsIn(o) : item'[i] = item[i] /\ ledger'[i] = ledger[i],
           OrderInv(o)', \A i \in ItemsIn(o) : LineInv(i)'
    PROVE  LinesInv'
<1>1. ASSUME NEW x \in Orders PROVE OrderInv(x)'
  BY SameOrder DEF LinesInv
<1>2. ASSUME NEW i \in Items PROVE LineInv(i)'
  <2>1. i \notin ItemsIn(o) => OrderOf[i] \in Orders \ {o}
    BY DEF ItemsIn
  <2> QED BY <2>1, SameLine DEF LinesInv
<1> QED BY <1>1, <1>2 DEF LinesInv

LEMMA NoOrderNoLine ==
    ASSUME LinesInv, UNCHANGED <<order, item, ledger>>
    PROVE  LinesInv'
<1>1. ASSUME NEW x \in Orders PROVE OrderInv(x)'
  BY SameOrder DEF LinesInv
<1>2. ASSUME NEW i \in Items PROVE LineInv(i)'
  BY SameLine DEF LinesInv
<1> QED BY <1>1, <1>2 DEF LinesInv

\* The numbers of a line.
LEMMA LineType ==
    ASSUME TypeOK, NEW i \in Items
    PROVE  /\ item[i].quantity \in Nat /\ item[i].fromStock \in Nat
           /\ item[i].received \in Nat
           /\ item[i].procurement \in {"not_required", "to_order", "ordered", "received"}
           /\ ledger[i].owned \in Nat /\ ledger[i].shipped \in Nat
           /\ ledger[i].restored \in Nat
BY DEF TypeOK

-----------------------------------------------------------------------------
(* Steps that change facts of an order only.                               *)

\* The facts of o that its lines depend on, as they become.
LEMMA FactsStep ==
    ASSUME ShopInv, NEW o \in Orders,
           \/ Confirm(o) \/ RecordPayment(o) \/ CompleteShop(o)
           \/ OpenResolution(o) \/ AttachParcelReturn(o) \/ CloseParcelReturn(o)
    PROVE  LinesInv'
<1>0. order \in [Orders -> Order] /\ OrderInv(o) /\ LinesInv /\ TypeOK
  BY Rows DEF ShopInv, StockInv, LinesInv
<1>1. /\ \A x \in Orders \ {o} : order'[x] = order[x]
      /\ item' = item /\ ledger' = ledger
      /\ order'[o].handed = order[o].handed
      /\ OrderInv(o)'
      /\ Live(o) => Live(o)' \/ order[o].handed
      /\ ~Live(o) => ~Live(o)'
      /\ order'[o].status = "cancelled" => order[o].status = "cancelled" \/ order[o].handed
      /\ order'[o].workflow = "parcel" =>
           \/ order[o].workflow = "parcel"
           \/ \A i \in ItemsIn(o) : ledger[i].restored = 0
      /\ ReturnOpened(o)' =>
           \/ ReturnOpened(o)
           \/ \A i \in ItemsIn(o) : ledger[i].restored = 0
  <2>1. CASE Confirm(o)
    BY <1>0, <2>1 DEF Confirm, OrderInv, Order, Placed, Live, Terminal, ReturnOpened
  <2>2. CASE RecordPayment(o)
    BY <1>0, <2>2 DEF RecordPayment, OrderInv, Order, Placed, Live, Terminal, ReturnOpened
  <2>3. CASE CompleteShop(o)
    BY <1>0, <2>3 DEF CompleteShop, OrderInv, Order, Placed, Live, Terminal, ReturnOpened
  <2>4. CASE OpenResolution(o)
    BY <1>0, <2>4 DEF OpenResolution, OrderInv, Order, Placed, Live, Terminal, ReturnOpened
  <2>5. CASE AttachParcelReturn(o)
    BY <1>0, <2>5 DEF AttachParcelReturn, OrderInv, Order, Placed, Live, Terminal, ReturnOpened
  <2>6. CASE CloseParcelReturn(o)
    BY <1>0, <2>6 DEF CloseParcelReturn, OrderInv, Order, Placed, Live, Terminal, ReturnOpened
  <2> QED BY <2>1, <2>2, <2>3, <2>4, <2>5, <2>6
<1>2. ASSUME NEW i \in ItemsIn(o) PROVE LineInv(i)'
  <2>1. i \in Items /\ OrderOf[i] = o /\ LineInv(i)
    BY <1>0 DEF ItemsIn, LinesInv
  <2>2. ledger[i].restored = 0 => ledger[i].restored <= ledger[i].shipped
    BY <1>0, <2>1, LineType
  <2>3. item'[i] = item[i] /\ ledger'[i] = ledger[i]
    BY <1>1
  <2>4. Holds(i)' <=> Holds(i)
    BY <1>1, <2>1 DEF Holds
  <2> QED BY <1>1, <2>1, <2>2, <2>3, <2>4
          DEF LineInv, Holding, Remaining, ToOrder
<1> QED BY <1>0, <1>1, <1>2, OneOrder

-----------------------------------------------------------------------------
(* Steps that place, release or ship the lines of an order.                *)

LEMMA PlaceStep ==
    ASSUME ShopInv, NEW o \in Orders, NEW channel \in Channels,
           NEW want \in [ItemsIn(o) -> Quantity], CreateOrder(o, channel, want)
    PROVE  LinesInv'
<1> DEFINE taken == [i \in ItemsIn(o) |-> Least(want[i], Available(ProductOf[i]))]
<1>0. /\ order \in [Orders -> Order] /\ OrderInv(o) /\ LinesInv /\ TypeOK /\ ~Placed(o)
      /\ stock \in [Products -> Nat] /\ reserved \in [Products -> Nat] /\ NoOversell
  BY Rows DEF ShopInv, StockInv, LinesInv, CreateOrder
<1>1. \A i \in ItemsIn(o) : /\ i \in Items /\ OrderOf[i] = o /\ want[i] \in Nat
                            /\ taken[i] \in Nat /\ taken[i] <= want[i]
  BY <1>0 DEF ItemsIn, Quantity, Least, Available, NoOversell
<1>2. /\ order' = [order EXCEPT ![o] = [NoOrder EXCEPT !.status = "pending", !.channel = channel]]
      /\ item' = [i \in Items |-> IF i \notin ItemsIn(o) THEN item[i] ELSE
           [quantity |-> want[i], fromStock |-> taken[i], received |-> 0,
            procurement |-> IF taken[i] < want[i] THEN "to_order" ELSE "not_required"]]
      /\ ledger' = [i \in Items |-> IF i \notin ItemsIn(o) THEN ledger[i] ELSE
           [NoLedger EXCEPT !.owned = taken[i]]]
  BY DEF CreateOrder
<1> HIDE DEF taken
<1>3. /\ \A x \in Orders \ {o} : order'[x] = order[x]
      /\ order'[o].status = "pending" /\ ~order'[o].handed /\ ~order'[o].paid
      /\ order'[o].workflow = "none"
  BY <1>0, <1>2 DEF NoOrder
<1>4. OrderInv(o)'
  BY <1>3 DEF OrderInv, Placed, ReturnOpened
<1>5. ASSUME NEW i \in ItemsIn(o) PROVE LineInv(i)'
  <2>1. /\ item'[i].quantity = want[i] /\ item'[i].fromStock = taken[i]
        /\ item'[i].received = 0
        /\ item'[i].procurement = IF taken[i] < want[i] THEN "to_order" ELSE "not_required"
    BY <1>1, <1>2
  <2>2. ledger'[i].owned = taken[i] /\ ledger'[i].shipped = 0 /\ ledger'[i].restored = 0
    BY <1>1, <1>2 DEF NoLedger
  <2>3. /\ Holding(i)' = taken[i] /\ Holding(i)' <= want[i]
        /\ Remaining(i)' = want[i] - taken[i] /\ Holds(i)'
    BY <1>1, <1>3, <2>1 DEF Holding, Remaining, ToOrder, Holds, Live, Placed, Terminal
  <2> QED BY <1>1, <1>3, <2>1, <2>2, <2>3 DEF LineInv, ReturnOpened
<1>6. \A i \in Items \ ItemsIn(o) : item'[i] = item[i] /\ ledger'[i] = ledger[i]
  BY <1>2
<1> QED BY <1>0, <1>3, <1>4, <1>5, <1>6, OneOrder

LEMMA CancelStep ==
    ASSUME ShopInv, NEW o \in Orders, Cancel(o) \/ FinalizeResolution(o)
    PROVE  LinesInv'
<1>0. /\ order \in [Orders -> Order] /\ OrderInv(o) /\ LinesInv /\ TypeOK
      /\ item \in [Items -> Item] /\ ledger \in [Items -> Ledger]
  BY Rows DEF ShopInv, StockInv, LinesInv
<1>1. /\ Live(o) /\ ~order[o].handed /\ ReservationsOwned(o) /\ ReleaseLines(o)
      /\ order' = [order EXCEPT ![o].status = "cancelled"]
      /\ order[o].channel = "shop" /\ order[o].paid => order[o].workflow = "refund"
  BY DEF Cancel, Cancellable, FinalizeResolution, Resolving
<1>2. /\ \A x \in Orders \ {o} : order'[x] = order[x]
      /\ order'[o].status = "cancelled" /\ order'[o].handed = order[o].handed
      /\ order'[o].paid = order[o].paid /\ order'[o].channel = order[o].channel
      /\ order'[o].workflow = order[o].workflow
  BY <1>0, <1>1 DEF Order
<1>3. OrderInv(o)'
  BY <1>0, <1>1, <1>2 DEF OrderInv, Placed, ReturnOpened
<1>4. ASSUME NEW i \in ItemsIn(o) PROVE LineInv(i)'
  <2>1. i \in Items /\ OrderOf[i] = o /\ LineInv(i)
    BY <1>0 DEF ItemsIn, LinesInv
  <2>2. ledger[i].owned - Holding(i) = 0
    BY <1>0, <1>1, <2>1, LineType DEF ReservationsOwned
  <2>3. /\ ledger'[i].owned = 0 /\ ledger'[i].shipped = ledger[i].shipped
        /\ ledger'[i].restored = ledger[i].restored
    BY <1>0, <1>1, <2>1, <2>2 DEF ReleaseLines, Ledger
  <2>4. /\ item'[i].quantity = item[i].quantity /\ item'[i].fromStock = item[i].fromStock
        /\ item'[i].received = item[i].received /\ item'[i].procurement = "not_required"
    BY <1>0, <1>1, <2>1 DEF ReleaseLines, Item
  <2>5. Holding(i)' = Holding(i) /\ ~Holds(i)' /\ ~Live(o)'
    BY <1>2, <2>1, <2>4 DEF Holding, Holds, Live, Placed, Terminal
  <2> QED BY <1>1, <1>2, <2>1, <2>3, <2>4, <2>5 DEF LineInv, ReturnOpened
<1>5. \A i \in Items \ ItemsIn(o) : item'[i] = item[i] /\ ledger'[i] = ledger[i]
  BY <1>1 DEF ReleaseLines
<1> QED BY <1>0, <1>2, <1>3, <1>4, <1>5, OneOrder

LEMMA HandOverStep ==
    ASSUME ShopInv, NEW o \in Orders,
           HandOverAtTill(o) \/ \E cod \in BOOLEAN : HandOverShop(o, cod)
    PROVE  LinesInv'
<1>0. /\ order \in [Orders -> Order] /\ OrderInv(o) /\ LinesInv /\ TypeOK
      /\ ledger \in [Items -> Ledger]
  BY Rows DEF ShopInv, StockInv, LinesInv
<1>1. Live(o) /\ ~order[o].handed /\ ReservationsOwned(o) /\ ShipLines(o)
  BY DEF HandOverAtTill, HandOverShop
<1>2. /\ \A x \in Orders \ {o} : order'[x] = order[x]
      /\ \/ order'[o].status = "completed" /\ order[o].paid
         \/ order'[o].status = order[o].status
      /\ order'[o].handed = TRUE
      /\ order'[o].paid = order[o].paid /\ order'[o].channel = order[o].channel
      /\ order'[o].workflow = order[o].workflow
  BY <1>0 DEF HandOverAtTill, HandOverShop, Order
<1>3. OrderInv(o)'
  BY <1>0, <1>1, <1>2 DEF OrderInv, Placed, Live, Terminal, ReturnOpened
<1>4. ASSUME NEW i \in ItemsIn(o) PROVE LineInv(i)'
  <2>1. i \in Items /\ OrderOf[i] = o /\ LineInv(i)
    BY <1>0 DEF ItemsIn, LinesInv
  <2>2. /\ ledger[i].owned - Holding(i) = 0 /\ Holding(i) = item[i].quantity
        /\ ledger[i].shipped = 0 /\ Holding(i) \in Nat /\ 0 + Holding(i) = Holding(i)
    <3>1. Holding(i) \in Nat /\ ledger[i].owned \in Nat
      BY <1>0, <2>1, LineType, HoldingNat
    <3>2. ledger[i].owned = Holding(i) /\ Holding(i) = item[i].quantity
      BY <1>1 DEF ReservationsOwned, ShipLines
    <3>3. ledger[i].shipped = 0
      BY <1>1, <2>1 DEF LineInv
    <3> QED BY <3>1, <3>2, <3>3
  <2>3. /\ ledger'[i].owned = 0 /\ ledger'[i].shipped = Holding(i)
        /\ ledger'[i].restored = ledger[i].restored
    BY <1>0, <1>1, <2>1, <2>2 DEF ShipLines, Ledger
  <2>4. item' = item
    BY <1>1 DEF ShipLines
  <2>5. /\ Holding(i)' = Holding(i) /\ ~Holds(i)' /\ Remaining(i)' = Remaining(i)
        /\ Live(o)' => Live(o)
    BY <1>1, <1>2, <2>1, <2>4 DEF Holding, Remaining, ToOrder, Holds, Live, Placed, Terminal
  <2>6. ~ReturnOpened(o)' /\ order'[o].workflow # "parcel" /\ order'[o].status # "cancelled"
    BY <1>0, <1>1, <1>2 DEF OrderInv, ReturnOpened, Live, Terminal
  <2> QED BY <1>1, <1>2, <2>1, <2>2, <2>3, <2>4, <2>5, <2>6 DEF LineInv
<1>5. \A i \in Items \ ItemsIn(o) : item'[i] = item[i] /\ ledger'[i] = ledger[i]
  BY <1>1 DEF ShipLines
<1> QED BY <1>0, <1>2, <1>3, <1>4, <1>5, OneOrder

-----------------------------------------------------------------------------
(* Steps that put goods back or bring them in for lines.                   *)

LEMMA PutBackStep ==
    ASSUME ShopInv, NEW o \in Orders, NEW back \in Restocks(o),
           ReceiveReturn(o, back) \/ InspectParcel(o, back)
    PROVE  LinesInv'
<1>0. /\ order \in [Orders -> Order] /\ OrderInv(o) /\ LinesInv /\ TypeOK
      /\ ledger \in [Items -> Ledger]
  BY Rows DEF ShopInv, StockInv, LinesInv
<1>1. PutBack(o, back)
  BY DEF ReceiveReturn, InspectParcel
<1>2. /\ \A x \in Orders \ {o} : order'[x] = order[x]
      /\ order'[o].status = order[o].status /\ order'[o].handed = order[o].handed
      /\ order'[o].paid = order[o].paid /\ order'[o].channel = order[o].channel
      /\ \/ order'[o].workflow = order[o].workflow /\ order[o].workflow \in {"none", "review"}
         \/ order'[o].workflow = "inspected" /\ order[o].workflow = "parcel"
  BY <1>0 DEF ReceiveReturn, InspectParcel, Order
<1>3. OrderInv(o)'
  BY <1>0, <1>2 DEF OrderInv, Placed, ReturnOpened
<1>4. ASSUME NEW i \in ItemsIn(o) PROVE LineInv(i)'
  <2>1. i \in Items /\ OrderOf[i] = o /\ LineInv(i)
    BY <1>0 DEF ItemsIn, LinesInv
  <2>2. /\ ledger'[i].owned = ledger[i].owned /\ ledger'[i].shipped = ledger[i].shipped
        /\ ledger'[i].restored = ledger[i].restored + back[i]
        /\ ledger[i].restored + back[i] <= ledger[i].shipped
    BY <1>0, <1>1, <2>1 DEF PutBack, Ledger
  <2>3. item' = item
    BY <1>1 DEF PutBack
  <2>4. /\ Holding(i)' = Holding(i) /\ Remaining(i)' = Remaining(i)
        /\ (Holds(i)' <=> Holds(i)) /\ (Live(o)' <=> Live(o))
    BY <1>2, <2>1, <2>3 DEF Holding, Remaining, ToOrder, Holds, Live, Placed
  <2> QED BY <1>2, <2>1, <2>2, <2>3, <2>4 DEF LineInv
<1>5. \A i \in Items \ ItemsIn(o) : item'[i] = item[i] /\ ledger'[i] = ledger[i]
  BY <1>1 DEF PutBack
<1> QED BY <1>0, <1>2, <1>3, <1>4, <1>5, OneOrder

LEMMA ReturnByHandStep ==
    ASSUME ShopInv, NEW k \in Items, NEW n \in Quantity, ManualReturn(k, n)
    PROVE  LinesInv'
<1>0. LinesInv /\ TypeOK /\ ledger \in [Items -> Ledger] /\ order' = order /\ item' = item
  BY Rows DEF ShopInv, StockInv, ManualReturn
<1>1. \A x \in Orders : OrderInv(x)'
  BY <1>0, SameOrder DEF LinesInv
<1>2. ASSUME NEW i \in Items PROVE LineInv(i)'
  <2>1. LineInv(i)
    BY <1>0 DEF LinesInv
  <2>2. CASE i # k
    <3>1. ledger'[i] = ledger[i]
      BY <2>2 DEF ManualReturn
    <3> QED BY <1>0, <2>1, <3>1, SameLine
  <2>3. CASE i = k
    <3>1. ledger'[i].owned = ledger[i].owned /\ ledger'[i].shipped = ledger[i].shipped
      BY <1>0, <2>3 DEF ManualReturn, Ledger
    <3>2. order[OrderOf[i]].workflow = "none"
      BY <2>3 DEF ManualReturn, Unowned
    <3> QED BY <1>0, <2>1, <3>1, <3>2
            DEF LineInv, Holds, Live, Placed, Holding, Remaining, ToOrder, ReturnOpened
  <2> QED BY <2>2, <2>3
<1> QED BY <1>1, <1>2 DEF LinesInv

LEMMA OrderedStep ==
    ASSUME ShopInv, NEW S \in SUBSET Items, MarkOrdered(S)
    PROVE  LinesInv'
<1>0. LinesInv /\ TypeOK /\ item \in [Items -> Item] /\ order' = order /\ ledger' = ledger
  BY Rows DEF ShopInv, StockInv, MarkOrdered
<1>1. \A x \in Orders : OrderInv(x)'
  BY <1>0, SameOrder DEF LinesInv
<1>2. ASSUME NEW i \in Items PROVE LineInv(i)'
  <2>1. LineInv(i) /\ OrderInv(OrderOf[i])
    BY <1>0 DEF LinesInv
  <2>2. CASE i \notin S
    <3>1. item'[i] = item[i]
      BY <2>2 DEF MarkOrdered
    <3> QED BY <1>0, <2>1, <3>1, SameLine
  <2>3. CASE i \in S
    <3>1. /\ item'[i].quantity = item[i].quantity /\ item'[i].fromStock = item[i].fromStock
          /\ item'[i].received = item[i].received /\ item'[i].procurement = "ordered"
          /\ Remaining(i) > 0 /\ item[i].procurement # "not_required"
      BY <1>0, <2>3 DEF MarkOrdered, Item
    <3>2. Holding(i)' = Holding(i) /\ Remaining(i)' = Remaining(i) /\ Remaining(i) # 0
      BY <1>0, <3>1, LineType DEF Holding, Remaining, ToOrder
    <3> QED BY <1>0, <2>1, <3>1, <3>2 DEF LineInv, Holds, Live, Placed, ReturnOpened
  <2> QED BY <2>2, <2>3
<1> QED BY <1>1, <1>2 DEF LinesInv

LEMMA CoverStep ==
    ASSUME ShopInv, NEW r \in Receipts, PostReceipt(r)
    PROVE  LinesInv'
<1> DEFINE covered(i) == Planned(r, i, {})
<1>0. /\ LinesInv /\ TypeOK /\ item \in [Items -> Item] /\ ledger \in [Items -> Ledger]
      /\ order' = order
  BY Rows DEF ShopInv, StockInv, PostReceipt
<1>1. \A x \in Orders : OrderInv(x)'
  BY <1>0, SameOrder DEF LinesInv
<1>2. ASSUME NEW i \in Items PROVE LineInv(i)'
  <2>1. LineInv(i) /\ covered(i) \in Nat
    BY <1>0, PlannedNat DEF LinesInv
  <2>2. /\ item'[i] = IF covered(i) = 0 THEN item[i] ELSE
             [item[i] EXCEPT !.received = @ + covered(i),
                             !.procurement = IF covered(i) = Remaining(i)
                                             THEN "received" ELSE "ordered"]
        /\ ledger'[i] = [ledger[i] EXCEPT !.owned = @ + covered(i)]
        /\ covered(i) > 0 => /\ Live(OrderOf[i]) /\ item[i].procurement = "ordered"
                             /\ covered(i) <= Remaining(i)
    BY DEF PostReceipt, Receivable
  <2> DEFINE n == covered(i)
  <2> HIDE DEF covered
  <2>3. /\ item[i] \in Item /\ ledger[i] \in Ledger
        /\ item[i].quantity \in Nat /\ item[i].fromStock \in Nat /\ item[i].received \in Nat
        /\ ledger[i].owned \in Nat
    BY <1>0, LineType
  <2>4. CASE n = 0
    <3>1. item'[i] = item[i] /\ ledger'[i] = ledger[i]
      BY <2>2, <2>3, <2>4 DEF Ledger
    <3> QED BY <1>0, <2>1, <3>1, SameLine
  <2>5. CASE n > 0
    <3>1. /\ item'[i].quantity = item[i].quantity /\ item'[i].fromStock = item[i].fromStock
          /\ item'[i].received = item[i].received + n
          /\ item'[i].procurement = IF n = Remaining(i) THEN "received" ELSE "ordered"
      BY <2>2, <2>3, <2>5 DEF Item
    <3>2. /\ ledger'[i].owned = ledger[i].owned + n
          /\ ledger'[i].shipped = ledger[i].shipped /\ ledger'[i].restored = ledger[i].restored
      BY <2>2, <2>3 DEF Ledger
    <3>3. Live(OrderOf[i]) /\ n <= Remaining(i)
      BY <2>2, <2>5
    <3>4. /\ Holding(i)' = Holding(i) + n /\ Remaining(i)' = Remaining(i) - n
          /\ Remaining(i) = item[i].quantity - Holding(i)
          /\ Holding(i) \in Nat /\ Remaining(i) \in Int /\ Remaining(i)' \in Int
      BY <2>1, <2>3, <3>1 DEF Holding, Remaining, ToOrder
    <3>5. ~order[OrderOf[i]].handed /\ Holds(i)
      BY <2>1, <2>3, <2>5, <3>3, <3>4 DEF LineInv, Holds
    <3>6. Holding(i)' <= item'[i].quantity /\ (Remaining(i)' = 0 <=> n = Remaining(i))
      BY <2>1, <2>3, <3>1, <3>3, <3>4
    <3>7. /\ (Holds(i)' <=> Holds(i)) /\ (Live(OrderOf[i])' <=> Live(OrderOf[i]))
          /\ (ReturnOpened(OrderOf[i])' <=> ReturnOpened(OrderOf[i]))
          /\ order[OrderOf[i]].status # "cancelled"
      BY <1>0, <3>3 DEF Holds, Live, Placed, ReturnOpened, Terminal
    <3> QED BY <1>0, <2>1, <3>1, <3>2, <3>4, <3>5, <3>6, <3>7 DEF LineInv
  <2> QED BY <2>1, <2>4, <2>5
<1> QED BY <1>1, <1>2 DEF LinesInv

-----------------------------------------------------------------------------

LEMMA InitLines == Init => LinesInv
<1> SUFFICES ASSUME Init PROVE LinesInv
  OBVIOUS
<1>1. \A o \in Orders : OrderInv(o)
  BY DEF Init, NoOrder, OrderInv, Placed, ReturnOpened
<1>2. ASSUME NEW i \in Items PROVE LineInv(i)
  <2>1. item[i] = NoItem /\ ledger[i] = NoLedger /\ order[OrderOf[i]] = NoOrder
    BY DEF Init
  <2>2. Holding(i) = 0 /\ Remaining(i) = 0 /\ ~Live(OrderOf[i]) /\ ~Holds(i)
    BY <2>1 DEF NoItem, NoOrder, Holding, Remaining, ToOrder, Holds, Live, Placed
  <2> QED BY <2>1, <2>2 DEF LineInv, NoItem, NoLedger, NoOrder, ReturnOpened
<1> QED BY <1>1, <1>2 DEF LinesInv

LEMMA LinesStep == ShopInv /\ [Next]_vars => LinesInv'
<1> SUFFICES ASSUME ShopInv, [Next]_vars PROVE LinesInv'
  OBVIOUS
<1>0. LinesInv
  BY DEF ShopInv
<1>1. CASE UNCHANGED vars
  BY <1>0, <1>1, NoOrderNoLine DEF vars
<1>2. CASE OrderNext
  BY <1>2, PlaceStep, FactsStep, CancelStep, HandOverStep DEF OrderNext
<1>3. CASE ReturnNext
  BY <1>3, PutBackStep, FactsStep DEF ReturnNext
<1>4. CASE ReceiptNext
  <2>1. ASSUME NEW S \in SUBSET Items, MarkOrdered(S) PROVE LinesInv'
    BY <2>1, OrderedStep
  <2>2. ASSUME NEW r \in Receipts, PostReceipt(r) PROVE LinesInv'
    BY <2>2, CoverStep
  <2>3. ASSUME NEW r \in Receipts, CreateReceipt(r) PROVE LinesInv'
    BY <1>0, <2>3, NoOrderNoLine DEF CreateReceipt
  <2>4. ASSUME NEW r \in Receipts, NEW b \in Lots, NEW n, NEW al,
               AddReceiptItem(r, b, n, al) \/ EditDraft(r, b, n, al)
        PROVE  LinesInv'
    BY <1>0, <2>4, NoOrderNoLine DEF AddReceiptItem, EditDraft
  <2>5. ASSUME NEW r \in Receipts, NEW b \in Lots, NEW n,
               DeleteDraftItem(r, b) \/ CorrectReceipt(r, b, n)
        PROVE  LinesInv'
    BY <1>0, <2>5, NoOrderNoLine DEF DeleteDraftItem, CorrectReceipt
  <2> QED BY <1>4, <2>1, <2>2, <2>3, <2>4, <2>5 DEF ReceiptNext
<1>5. CASE ManualNext
  <2>1. ASSUME NEW p \in Products, NEW n \in Quantity, ManualReceipt(p, n) \/ WriteOff(p, n)
        PROVE  LinesInv'
    BY <1>0, <2>1, NoOrderNoLine DEF ManualReceipt, WriteOff
  <2> QED BY <1>5, <2>1, ReturnByHandStep DEF ManualNext
<1>6. CASE CountNext
  <2>1. ASSUME NEW c \in Counts, CreateCount(c) \/ PostCount(c) PROVE LinesInv'
    BY <1>0, <2>1, NoOrderNoLine DEF CreateCount, PostCount
  <2>2. ASSUME NEW c \in Counts, NEW p \in Products, NEW n, SetCountItem(c, p, n) PROVE LinesInv'
    BY <1>0, <2>2, NoOrderNoLine DEF SetCountItem
  <2> QED BY <1>6, <2>1, <2>2 DEF CountNext
<1> QED BY <1>1, <1>2, <1>3, <1>4, <1>5, <1>6 DEF Next

THEOREM ShopInvariance == Spec => []ShopInv
<1>1. Init => ShopInv
  BY InitStock, InitLines DEF ShopInv
<1>2. ShopInv /\ [Next]_vars => ShopInv'
  BY StockStep, LinesStep DEF ShopInv
<1> QED BY <1>1, <1>2, PTL DEF Spec

-----------------------------------------------------------------------------

\* A line owns what stock and receipts gave it exactly while its order lives
\* and was not handed over, and ships once, whole, by the handover: no order
\* releases or ships what another one holds.
THEOREM Ownership == Spec => []LineOwnership
<1>1. ShopInv => LineOwnership
  BY DEF ShopInv, LinesInv, LineInv, LineOwnership
<1> QED BY <1>1, ShopInvariance, PTL

\* Receipts that were drafted side by side never give a line more than it
\* lacks, and its procurement ends exactly when nothing is lacking.
THEOREM Procurement == Spec => []ProcurementExact
<1>1. ShopInv => ProcurementExact
  BY DEF ShopInv, LinesInv, LineInv, ProcurementExact, Holding
<1> QED BY <1>1, ShopInvariance, PTL

\* The goods of a parcel return come back once, and never more than went out.
THEOREM ParcelOnce == Spec => []ParcelReturnsOnce
<1>1. ShopInv => ParcelReturnsOnce
  BY DEF ShopInv, LinesInv, LineInv, ParcelReturnsOnce
<1> QED BY <1>1, ShopInvariance, PTL

\* An accepted payment of a shop order leaves it only through the refund.
THEOREM Refunded == Spec => []PaidCancellationRefunded
<1>1. ShopInv => PaidCancellationRefunded
  BY DEF ShopInv, LinesInv, OrderInv, PaidCancellationRefunded
<1> QED BY <1>1, ShopInvariance, PTL

-----------------------------------------------------------------------------
(* What a step may never do to a line.                                     *)

Untouched(i) == /\ order'[OrderOf[i]].status = order[OrderOf[i]].status
                /\ ledger'[i].owned = ledger[i].owned
                /\ ledger'[i].shipped = ledger[i].shipped
                /\ item'[i] = item[i]

LEMMA ClosedUntouched ==
    ASSUME ShopInv, [Next]_vars, NEW i \in Items, order[OrderOf[i]].status \in Terminal
    PROVE  Untouched(i)
<1> DEFINE w == OrderOf[i]
<1>0. /\ order \in [Orders -> Order] /\ ledger \in [Items -> Ledger] /\ item \in [Items -> Item]
      /\ TypeOK /\ OrderInv(w) /\ LineInv(i) /\ w \in Orders /\ ~Live(w) /\ Placed(w)
  BY Rows DEF ShopInv, StockInv, LinesInv, Live, Placed, Terminal
<1>1. Remaining(i) = 0 \/ item[i].procurement = "not_required"
  <2>1. Holding(i) = item[i].quantity => Remaining(i) = 0
    BY <1>0, LineType DEF Holding, Remaining, ToOrder
  <2> QED BY <1>0, <2>1 DEF OrderInv, LineInv, Terminal
<1>2. order' = order /\ ledger' = ledger /\ item' = item => Untouched(i)
  BY DEF Untouched
<1>3. CASE UNCHANGED vars
  BY <1>2, <1>3 DEF vars
<1>4. CASE OrderNext
  <2>1. PICK o \in Orders : \/ \E channel \in Channels : \E want \in [ItemsIn(o) -> Quantity] :
                                 CreateOrder(o, channel, want)
                            \/ Confirm(o) \/ RecordPayment(o) \/ Cancel(o) \/ HandOverAtTill(o)
                            \/ \E cod \in BOOLEAN : HandOverShop(o, cod)
                            \/ CompleteShop(o) \/ OpenResolution(o) \/ FinalizeResolution(o)
    BY <1>4 DEF OrderNext
  <2>2. o # w
    BY <1>0, <2>1 DEF CreateOrder, Confirm, RecordPayment, Cancel, HandOverAtTill, HandOverShop,
                      CompleteShop, OpenResolution, FinalizeResolution, Live, Placed, Terminal
  <2>3. i \notin ItemsIn(o)
    BY <2>2 DEF ItemsIn
  <2>4. order'[w] = order[w]
    BY <1>0, <2>1, <2>2 DEF CreateOrder, Confirm, RecordPayment, Cancel, HandOverAtTill, HandOverShop,
                      CompleteShop, OpenResolution, FinalizeResolution
  <2>5. ledger'[i] = ledger[i] /\ item'[i] = item[i]
    BY <2>1, <2>3 DEF CreateOrder, Confirm, RecordPayment, Cancel, HandOverAtTill, HandOverShop,
                      CompleteShop, OpenResolution, FinalizeResolution, ReleaseLines, ShipLines
  <2> QED BY <2>4, <2>5 DEF Untouched
<1>5. CASE ReturnNext
  <2>1. ASSUME NEW o \in Orders, NEW back \in Restocks(o),
               ReceiveReturn(o, back) \/ InspectParcel(o, back)
        PROVE  Untouched(i)
    <3>1. PutBack(o, back) /\ order'[w].status = order[w].status
      BY <1>0, <2>1 DEF ReceiveReturn, InspectParcel, Order
    <3>2. /\ ledger'[i].owned = ledger[i].owned /\ ledger'[i].shipped = ledger[i].shipped
          /\ item' = item
      BY <1>0, <3>1 DEF PutBack, Ledger
    <3> QED BY <3>1, <3>2 DEF Untouched
  <2>2. ASSUME NEW o \in Orders, AttachParcelReturn(o) \/ CloseParcelReturn(o)
        PROVE  Untouched(i)
    <3>1. order'[w].status = order[w].status
      <4>1. CASE o # w
        BY <1>0, <2>2, <4>1 DEF AttachParcelReturn, CloseParcelReturn
      <4>2. CASE AttachParcelReturn(o)
        BY <1>0, <4>2 DEF AttachParcelReturn, Order
      <4>3. CASE o = w /\ CloseParcelReturn(o)
        <5>1. order[w].paid
          BY <1>0, <4>3 DEF CloseParcelReturn, OrderInv, Terminal
        <5> QED BY <1>0, <4>3, <5>1 DEF CloseParcelReturn, Order
      <4> QED BY <2>2, <4>1, <4>2, <4>3
    <3> QED BY <2>2, <3>1 DEF AttachParcelReturn, CloseParcelReturn, Untouched
  <2> QED BY <1>5, <2>1, <2>2 DEF ReturnNext
<1>6. CASE ReceiptNext
  <2>1. ASSUME NEW S \in SUBSET Items, MarkOrdered(S) PROVE Untouched(i)
    <3>1. i \notin S
      BY <1>1, <2>1 DEF MarkOrdered
    <3> QED BY <2>1, <3>1 DEF MarkOrdered, Untouched
  <2>2. ASSUME NEW r \in Receipts, PostReceipt(r) PROVE Untouched(i)
    <3>1. Planned(r, i, {}) = 0
      <4>1. Planned(r, i, {}) \in Nat
        BY <1>0, PlannedNat
      <4>2. ~(Planned(r, i, {}) > 0)
        BY <1>0, <2>2 DEF PostReceipt, Receivable
      <4> QED BY <4>1, <4>2
    <3>2. item'[i] = item[i] /\ order' = order
      BY <2>2, <3>1 DEF PostReceipt
    <3>3. ledger'[i] = [ledger[i] EXCEPT !.owned = @ + 0]
      BY <2>2, <3>1, ZenonT(60) DEF PostReceipt
    <3> QED BY <1>0, <3>2, <3>3 DEF Untouched, Ledger
  <2>3. ASSUME NEW r \in Receipts,
               \/ CreateReceipt(r)
               \/ \E b \in Lots : \E n \in Quantity : \E al \in Allocations :
                    AddReceiptItem(r, b, n, al) \/ EditDraft(r, b, n, al)
               \/ \E b \in Lots : DeleteDraftItem(r, b)
               \/ \E b \in Lots : \E n \in 0 .. MaxQuantity : CorrectReceipt(r, b, n)
        PROVE  Untouched(i)
    BY <1>2, <2>3, ZenonT(60) DEF CreateReceipt, AddReceiptItem, EditDraft, DeleteDraftItem, CorrectReceipt
  <2> QED BY <1>6, <2>1, <2>2, <2>3 DEF ReceiptNext
<1>7. CASE ManualNext
  <2>1. ASSUME NEW k \in Items, NEW n \in Quantity, ManualReturn(k, n) PROVE Untouched(i)
    BY <1>0, <2>1 DEF ManualReturn, Untouched, Ledger
  <2>2. ASSUME NEW p \in Products, NEW n \in Quantity, ManualReceipt(p, n) \/ WriteOff(p, n)
        PROVE  Untouched(i)
    BY <1>2, <2>2 DEF ManualReceipt, WriteOff
  <2> QED BY <1>7, <2>1, <2>2 DEF ManualNext
<1>8. CASE CountNext
  BY <1>2, <1>8 DEF CountNext, CreateCount, PostCount, SetCountItem
<1> QED BY <1>3, <1>4, <1>5, <1>6, <1>7, <1>8 DEF Next

\* A completed or cancelled order stays so, and nothing that comes later
\* changes what its lines hold, own or shipped.
THEOREM Closed == Spec => ClosedIsFinal
<1>1. ShopInv /\ [Next]_vars =>
        [\A i \in Items : order[OrderOf[i]].status \in Terminal =>
            /\ order'[OrderOf[i]].status = order[OrderOf[i]].status
            /\ ledger'[i].owned = ledger[i].owned
            /\ ledger'[i].shipped = ledger[i].shipped
            /\ item'[i] = item[i]]_vars
  BY ClosedUntouched DEF Untouched
<1> QED BY <1>1, ShopInvariance, PTL DEF Spec, ClosedIsFinal

LEMMA ResolvingUntouched ==
    ASSUME ShopInv, [Next]_vars, NEW i \in Items, Live(OrderOf[i]), Resolving(OrderOf[i])
    PROVE  item'[i].fromStock = item[i].fromStock /\ item'[i].received = item[i].received
<1> DEFINE w == OrderOf[i]
           Same == item'[i].fromStock = item[i].fromStock /\ item'[i].received = item[i].received
<1>0. item \in [Items -> Item] /\ TypeOK /\ item[i] \in Item
  BY Rows DEF ShopInv, StockInv
<1>1. item' = item => Same
  OBVIOUS
<1>2. CASE UNCHANGED vars
  BY <1>2 DEF vars
<1>3. CASE OrderNext
  <2>1. ASSUME NEW o \in Orders, NEW channel \in Channels,
               NEW want \in [ItemsIn(o) -> Quantity], CreateOrder(o, channel, want)
        PROVE  Same
    BY <2>1 DEF CreateOrder, ItemsIn, Live
  <2>2. ASSUME NEW o \in Orders, Cancel(o) \/ FinalizeResolution(o) PROVE Same
    BY <1>0, <2>2 DEF Cancel, FinalizeResolution, ReleaseLines, Item
  <2>3. ASSUME NEW o \in Orders,
               \/ Confirm(o) \/ RecordPayment(o) \/ HandOverAtTill(o)
               \/ \E cod \in BOOLEAN : HandOverShop(o, cod)
               \/ CompleteShop(o) \/ OpenResolution(o)
        PROVE  Same
    BY <2>3 DEF Confirm, RecordPayment, HandOverAtTill, HandOverShop, ShipLines, CompleteShop,
                OpenResolution
  <2> QED BY <1>3, <2>1, <2>2, <2>3 DEF OrderNext
<1>4. CASE ReturnNext
  BY <1>4 DEF ReturnNext, ReceiveReturn, InspectParcel, PutBack, AttachParcelReturn, CloseParcelReturn
<1>5. CASE ReceiptNext
  <2>1. ASSUME NEW S \in SUBSET Items, MarkOrdered(S) PROVE Same
    BY <1>0, <2>1 DEF MarkOrdered, Item
  <2>2. ASSUME NEW r \in Receipts, PostReceipt(r) PROVE Same
    <3>1. Planned(r, i, {}) = 0
      <4>1. Planned(r, i, {}) \in Nat
        BY <1>0, PlannedNat
      <4>2. ~(Planned(r, i, {}) > 0)
        BY <2>2 DEF PostReceipt, Receivable
      <4> QED BY <4>1, <4>2
    <3> QED BY <2>2, <3>1 DEF PostReceipt
  <2>3. ASSUME NEW r \in Receipts,
               \/ CreateReceipt(r)
               \/ \E b \in Lots : \E n \in Quantity : \E al \in Allocations :
                    AddReceiptItem(r, b, n, al) \/ EditDraft(r, b, n, al)
               \/ \E b \in Lots : DeleteDraftItem(r, b)
               \/ \E b \in Lots : \E n \in 0 .. MaxQuantity : CorrectReceipt(r, b, n)
        PROVE  Same
    BY <2>3 DEF CreateReceipt, AddReceiptItem, EditDraft, DeleteDraftItem, CorrectReceipt
  <2> QED BY <1>5, <2>1, <2>2, <2>3 DEF ReceiptNext
<1>6. CASE ManualNext
  BY <1>6 DEF ManualNext, ManualReceipt, WriteOff, ManualReturn
<1>7. CASE CountNext
  BY <1>7 DEF CountNext, CreateCount, PostCount, SetCountItem
<1> QED BY <1>2, <1>3, <1>4, <1>5, <1>6, <1>7 DEF Next

\* While a resolution is open, no receipt covers the order's lines: the refund
\* or release works on the goods its operator saw.
THEOREM Frozen == Spec => GoodsFrozen
<1>1. ShopInv /\ [Next]_vars =>
        [\A i \in Items : Live(OrderOf[i]) /\ Resolving(OrderOf[i]) /\ Live(OrderOf[i])' =>
            Holding(i)' = Holding(i)]_vars
  BY ResolvingUntouched DEF Holding
<1> QED BY <1>1, ShopInvariance, PTL DEF Spec, GoodsFrozen
=============================================================================
