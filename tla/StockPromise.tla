---------------------------- MODULE StockPromise ----------------------------
(***************************************************************************)
(* What the shop promises of its stock, with no word of lines, movements,  *)
(* receipts, counts, payments or resolutions.                              *)
(*                                                                         *)
(* Units of a product are free or promised to an order.  An order is       *)
(* promised units once, "open", and gets more only as goods come in; then  *)
(* the promise ends for good, "released" or "shipped".  Free units come    *)
(* and go at any time, promised ones only with their order.                *)
(***************************************************************************)
EXTENDS Integers

CONSTANTS Products, Orders
VARIABLES free, promise, fate

Units == [Products -> Nat]
Nothing == [p \in Products |-> 0]

Init == /\ free = Nothing
        /\ promise = [o \in Orders |-> Nothing]
        /\ fate = [o \in Orders |-> "none"]

\* An order takes free units, any number of each product.
Make(o) == /\ fate[o] = "none"
           /\ fate' = [fate EXCEPT ![o] = "open"]
           /\ \A q \in Orders \ {o} : promise'[q] = promise[q]
           /\ free' = [p \in Products |-> free[p] - promise'[o][p]]

\* Goods come in, for the open orders and for nobody.
Cover == /\ \A o \in Orders : \A p \in Products :
              /\ promise'[o][p] >= promise[o][p]
              /\ promise'[o][p] > promise[o][p] => fate[o] = "open"
         /\ \A p \in Products : free'[p] >= free[p]
         /\ UNCHANGED fate

\* The promise ends, all of it: its units are free again, or have left.
End(o, as) == /\ fate[o] = "open"
              /\ fate' = [fate EXCEPT ![o] = as]
              /\ promise' = [promise EXCEPT ![o] = Nothing]

Release(o) == /\ End(o, "released")
              /\ free' = [p \in Products |-> free[p] + promise[o][p]]

Ship(o) == End(o, "shipped") /\ UNCHANGED free

\* Deliveries, returns, corrections, counts and write-offs.
Adjust == UNCHANGED <<promise, fate>>

Next == /\ \/ Adjust \/ Cover
           \/ \E o \in Orders : Make(o) \/ Release(o) \/ Ship(o)
        /\ free' \in Units /\ promise' \in [Orders -> Units]

Spec == Init /\ [][Next]_<<free, promise, fate>>
=============================================================================
