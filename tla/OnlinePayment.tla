--------------------------- MODULE OnlinePayment ---------------------------
(****************************************************************************)
(* The online payment of one delivery order: the one-shot request for a     *)
(* bank invoice, its recovery, verification of the money by staff and by    *)
(* the poll, import of the fiscal receipt, and the review that corrects an  *)
(* invoice or closes the order unpaid.                                      *)
(*                                                                          *)
(* No lock is held over a bank call.  A call reads the order, asks the      *)
(* bank, locks the order again and goes on only if the revision it began    *)
(* with is still current.  One whose revision is gone can only fail: Bump,  *)
(* which stands for "order.revision += 1", ends it there and then.  The     *)
(* bank moves on by itself.                                                 *)
(****************************************************************************)
EXTENDS Naturals

CONSTANTS
    Invoices,   \* invoices of the merchant at the bank
    Ours,       \* those that carry the reference of this order
    NoInvoice,
    Tabs,       \* checkout pages that start the payment, again and again
    Desks,      \* calls of the staff
    Poller      \* mono_checkbox_poll, one at a time by its advisory lease

ASSUME PaymentAssumption ==
    Ours \subseteq Invoices /\ NoInvoice \notin Invoices /\ Poller \notin Desks

VARIABLES
    order,      \* Order: status, method; its intent and its request
    bound,      \* ShopPaymentIntent.invoice_id, the first candidate
    fix,        \* ShopPaymentInvoiceCorrection.replacement_invoice_id
    payment,    \* the invoice of the recorded ShopPaymentEvidence
    review,     \* the invoice_review case: status, observations, exceptions
    receipt,    \* the receipt: imported, last observation, return observed
    tab,        \* how far each start has come, and the invoice it was given
    call,       \* the calls that wait for the bank, and what they saw
    posts,      \* invoice/create requests sent
    bank,       \* status of each invoice at the bank
    checks      \* fiscal checks of the paid invoice

ours == <<order, bound, fix, payment, review, receipt>>
outside == <<bank, checks>>
vars == <<ours, tab, call, posts, outside>>

Calls == Desks \cup {Poller}
Statuses == {"open", "paid", "completed", "cancelled"}
\* unpaid: created, processing, failed or expired; none of them is final.
Money == {"none", "unpaid", "hold", "success", "reversed"}
Checks == {"none", "sale", "return"}
\* pending: no receipt yet, or an answer that proves none.
Observed == {"pending", "accepted", "return"}
Kinds == {"none", "verify", "recover", "refresh", "inspect"}
Phases == {"idle", "fenced", "checked", "answered"}

IdleCall == [kind |-> "none", invoice |-> NoInvoice, saw |-> "unread"]
IdleTab == [phase |-> "idle", invoice |-> NoInvoice]

Init ==
    /\ order = [status |-> "open", method |-> "online",
                intent |-> FALSE, request |-> FALSE]
    /\ bound = NoInvoice /\ fix = NoInvoice /\ payment = NoInvoice
    /\ review = [status |-> "none", seen |-> [i \in Invoices |-> "none"],
                 money |-> {}]
    /\ receipt = [imported |-> FALSE, last |-> "pending", returned |-> FALSE]
    /\ tab = [t \in Tabs |-> IdleTab]
    /\ call = [c \in Calls |-> IdleCall]
    /\ posts = 0
    \* The invoices of other orders are paid already, the worst of them.
    /\ bank = [i \in Invoices |-> IF i \in Ours THEN "none" ELSE "success"]
    /\ checks = "none"

\* effective_invoice, payment_blocked and active of shop_payment_resolutions,
\* and validate_order; the revision is dealt with by Bump.
Effective == IF fix # NoInvoice THEN fix ELSE bound
Blocked == review.status = "closed" \/ review.money # {}
Payable == order.status = "open" /\ payment = NoInvoice /\ ~Blocked
ResolutionActive ==
    review.money # {} \/ (review.status = "open" /\ payment = NoInvoice)

\* order.revision += 1.  An inspection is pinned to the revision of its case,
\* which BumpCase raises as well.
TabsAfter == [t \in Tabs |-> IF tab[t].phase = "fenced" THEN IdleTab ELSE tab[t]]
CallsAfter ==
    [c \in Calls |-> IF call[c].kind = "inspect" THEN call[c] ELSE IdleCall]
Bump == tab' = TabsAfter /\ call' = CallsAfter
BumpCase == tab' = TabsAfter /\ call' = [c \in Calls |-> IdleCall]

Begin(c, kind, i) ==
    /\ call[c] = IdleCall
    /\ call' = [call EXCEPT ![c] =
                  [kind |-> kind, invoice |-> i, saw |-> "unread"]]

Waits(c, kind) == call[c].kind = kind /\ call[c].saw = "unread"
Sees(c, what) == call' = [call EXCEPT ![c].saw = what]
Has(c, kind, what) == call[c].kind = kind /\ call[c].saw = what

-----------------------------------------------------------------------------
(* The checkout page *)

\* pre_dispatch_payment_methods: nothing has touched the order's money.
Untouched == Payable /\ order.method = "online" /\ ~order.intent

\* Mutant: a start does not look for the request of another start.
TabStartAgain(t) ==
    /\ tab[t].phase = "idle" /\ Payable /\ order.method = "online"
    /\ order' = [order EXCEPT !.intent = TRUE, !.request = TRUE]
    /\ tab' = [TabsAfter EXCEPT ![t].phase = "fenced"]
    /\ call' = CallsAfter
    /\ UNCHANGED <<bound, fix, payment, review, receipt, posts, outside>>

\* start commits the request and the intent before it talks to the bank; with
\* a request already there it only replays the state.
TabStart(t) ==
    /\ tab[t].phase = "idle" /\ Untouched
    /\ order' = [order EXCEPT !.intent = TRUE, !.request = TRUE]
    /\ tab' = [TabsAfter EXCEPT ![t].phase = "fenced"]
    /\ call' = CallsAfter
    /\ UNCHANGED <<bound, fix, payment, review, receipt, posts, outside>>

\* before_dispatch, without a lock: what it checked may change before the POST.
TabChecks(t) ==
    /\ tab[t].phase = "fenced" /\ Payable /\ bound = NoInvoice
    /\ tab' = [tab EXCEPT ![t].phase = "checked"]
    /\ UNCHANGED <<ours, call, posts, outside>>

\* create_invoice: the bank makes a new invoice for every POST.
TabPosts(t, i) ==
    /\ tab[t].phase = "checked" /\ i \in Ours /\ bank[i] = "none"
    /\ posts' = posts + 1
    /\ bank' = [bank EXCEPT ![i] = "unpaid"]
    /\ tab' = [tab EXCEPT ![t] = [phase |-> "answered", invoice |-> i]]
    /\ UNCHANGED <<ours, call, checks>>

\* The request does not arrive or is refused; to the order it is an unknown
\* answer like any other.
TabPostsInVain(t) ==
    /\ tab[t].phase = "checked"
    /\ posts' = posts + 1
    /\ tab' = [tab EXCEPT ![t] = IdleTab]
    /\ UNCHANGED <<ours, call, outside>>

\* Mutant: the answer is recorded whatever was bound while the bank was asked.
TabRecordsOver(t) ==
    /\ tab[t].phase = "answered"
    /\ bound' = tab[t].invoice
    /\ tab' = [TabsAfter EXCEPT ![t] = IdleTab]
    /\ call' = CallsAfter
    /\ UNCHANGED <<order, fix, payment, review, receipt, posts, outside>>

\* The answer is recorded under the lock whatever the order has become.
TabRecords(t) ==
    /\ tab[t].phase = "answered" /\ bound \in {NoInvoice, tab[t].invoice}
    /\ bound' = tab[t].invoice
    /\ tab' = [TabsAfter EXCEPT ![t] = IdleTab]
    /\ call' = CallsAfter
    /\ UNCHANGED <<order, fix, payment, review, receipt, posts, outside>>

\* A crash, a failed check, a lost or a conflicting answer.
TabFails(t) ==
    /\ tab[t] # IdleTab
    /\ tab' = [tab EXCEPT ![t] = IdleTab]
    /\ UNCHANGED <<ours, call, posts, outside>>

ChangeMethod ==
    /\ Untouched
    /\ order' = [order EXCEPT !.method = "offline"]
    /\ Bump
    /\ UNCHANGED <<bound, fix, payment, review, receipt, posts, outside>>

\* OrderService.update_status: an intent has to be reconciled first.
Cancel ==
    /\ order.status = "open" /\ ~order.intent
    /\ order' = [order EXCEPT !.status = "cancelled"]
    /\ Bump
    /\ UNCHANGED <<bound, fix, payment, review, receipt, posts, outside>>

\* Confirmations, shipments, documents and the handover raise the revision.
Touch ==
    /\ order.status \in {"open", "paid"}
    /\ Bump
    /\ UNCHANGED <<ours, posts, outside>>

-----------------------------------------------------------------------------
(* Verification and recovery *)

\* The operator may issue the invoice of the intent at the bank by hand.
PrepareIntent ==
    /\ Untouched
    /\ order' = [order EXCEPT !.intent = TRUE]
    /\ Bump
    /\ UNCHANGED <<bound, fix, payment, review, receipt, posts, outside>>

\* The first candidate is bound without raising the revision.
VerifyBegins(c, i) ==
    /\ order.intent /\ Payable
    /\ Effective \in {NoInvoice, i} /\ bank[i] # "none"
    /\ bound' = IF bound = NoInvoice THEN i ELSE bound
    /\ Begin(c, "verify", i)
    /\ UNCHANGED <<order, fix, payment, review, receipt, tab, posts, outside>>

\* Mutant: money on hold counts as paid.
VerifyTakesHold(c) ==
    /\ Waits(c, "verify")
    /\ call[c].invoice \in Ours /\ bank[call[c].invoice] \in {"hold", "success"}
    /\ Sees(c, "success")
    /\ UNCHANGED <<ours, tab, posts, outside>>

\* get_invoice; any other answer ends the call, with an audit record only.
VerifyAsks(c) ==
    /\ Waits(c, "verify")
    /\ call[c].invoice \in Ours /\ bank[call[c].invoice] = "success"
    /\ Sees(c, "success")
    /\ UNCHANGED <<ours, tab, posts, outside>>

VerifyRecords(c) ==
    /\ Has(c, "verify", "success")
    /\ Payable /\ call[c].invoice = Effective
    /\ payment' = call[c].invoice
    /\ order' = [order EXCEPT !.status = "paid"]
    /\ Bump
    /\ UNCHANGED <<bound, fix, review, receipt, posts, outside>>

RecoverBegins(c, i) ==
    /\ order.request /\ bound = NoInvoice
    /\ Begin(c, "recover", i)
    /\ UNCHANGED <<ours, tab, posts, outside>>

\* The invoice exists, carries the reference and was created in time.
RecoverAsks(c) ==
    /\ Waits(c, "recover")
    /\ call[c].invoice \in Ours /\ bank[call[c].invoice] # "none"
    /\ Sees(c, "success")
    /\ UNCHANGED <<ours, tab, posts, outside>>

RecoverBinds(c) ==
    /\ Has(c, "recover", "success") /\ bound = NoInvoice
    /\ bound' = call[c].invoice
    /\ Bump
    /\ UNCHANGED <<order, fix, payment, review, receipt, posts, outside>>

\* A crash, a refused check, an answer that says nothing, or none at all.
CallFails(c) ==
    /\ call[c] # IdleCall
    /\ call' = [call EXCEPT ![c] = IdleCall]
    /\ UNCHANGED <<ours, tab, posts, outside>>

-----------------------------------------------------------------------------
(* The receipt and completion *)

RefreshBegins(c) ==
    /\ payment # NoInvoice
    /\ Begin(c, "refresh", payment)
    /\ UNCHANGED <<ours, tab, posts, outside>>

\* get_invoice and then get_fiscal_checks; either may fail to prove anything.
RefreshAsksMoney(c) ==
    /\ Waits(c, "refresh")
    /\ \/ bank[call[c].invoice] = "success" /\ Sees(c, "success")
       \/ Sees(c, "pending")
    /\ UNCHANGED <<ours, tab, posts, outside>>

CheckStatus ==
    [none |-> "pending", sale |-> "accepted", return |-> "return"][checks]

RefreshAsksChecks(c) ==
    /\ Has(c, "refresh", "success")
    /\ \/ Sees(c, CheckStatus)
       \/ Sees(c, "pending")
    /\ UNCHANGED <<ours, tab, posts, outside>>

Import(saw) ==
    receipt' = [imported |-> receipt.imported \/ saw = "accepted",
                last |-> saw, returned |-> receipt.returned \/ saw = "return"]

\* Mutant: the observation is written without raising the revision.
RefreshWritesQuietly(c) ==
    /\ call[c].kind = "refresh" /\ call[c].saw \in Observed
    /\ Import(call[c].saw)
    /\ call' = [call EXCEPT ![c] = IdleCall]
    /\ UNCHANGED <<order, bound, fix, payment, review, tab, posts, outside>>

RefreshWrites(c) ==
    /\ call[c].kind = "refresh" /\ call[c].saw \in Observed
    /\ Import(call[c].saw)
    /\ Bump
    /\ UNCHANGED <<order, bound, fix, payment, review, posts, outside>>

AcceptedReceipt ==
    payment # NoInvoice /\ receipt.imported /\ receipt.last = "accepted"

\* The goods were handed over before, under the same conditions.
Complete ==
    /\ order.status = "paid" /\ AcceptedReceipt /\ ~ResolutionActive
    /\ order' = [order EXCEPT !.status = "completed"]
    /\ Bump
    /\ UNCHANGED <<bound, fix, payment, review, receipt, posts, outside>>

-----------------------------------------------------------------------------
(* The invoice review *)

OpenReview ==
    /\ bound # NoInvoice /\ Payable /\ review.status = "none"
    /\ review' = [review EXCEPT !.status = "open"]
    /\ Bump
    /\ UNCHANGED <<order, bound, fix, payment, receipt, posts, outside>>

InspectBegins(c, i) ==
    /\ review.status # "none" /\ bank[i] # "none"
    /\ Begin(c, "inspect", i)
    /\ UNCHANGED <<ours, tab, posts, outside>>

InspectAsks(c) ==
    /\ Waits(c, "inspect")
    /\ Sees(c, bank[call[c].invoice])
    /\ UNCHANGED <<ours, tab, posts, outside>>

Rank == [none |-> 0, unpaid |-> 1, hold |-> 2, success |-> 3, reversed |-> 4]

\* validate_shop_resolution_observation: not older than what was seen.
NotOlder(i, saw) == Rank[review.seen[i]] <= Rank[saw]

\* Money on the reference that the order can no longer, or not also, take.
Exceptional(i, saw) ==
    /\ i \in Ours
    /\ \/ saw = "reversed"
       \/ saw = "hold" /\ review.status = "closed"
       \/ /\ saw = "success" /\ i # payment
          /\ review.status = "closed" \/ payment # NoInvoice

\* An inspection writes what it saw, and the exception with it.
InspectWrites(c) ==
    /\ call[c].kind = "inspect" /\ call[c].saw # "unread"
    /\ LET i == call[c].invoice
           saw == call[c].saw
       IN  /\ NotOlder(i, saw)
           /\ review' = [review EXCEPT
                           !.seen[i] = saw,
                           !.money = IF Exceptional(i, saw)
                                     THEN @ \cup {i} ELSE @]
    /\ BumpCase
    /\ UNCHANGED <<order, bound, fix, payment, receipt, posts, outside>>

\* known_ids and contradictory: what was seen of our reference.
SeenOurs == {i \in Ours : review.seen[i] # "none"}
MoneySeen == {i \in Ours : review.seen[i] \in {"success", "reversed"}}
Contradictory == review.money # {} \/ MoneySeen # {}

\* The bound candidate was seen to be foreign, the replacement to be ours.
Correct(i) ==
    /\ review.status = "open" /\ review.money = {} /\ payment = NoInvoice
    /\ fix = NoInvoice
    /\ bound \notin Ours /\ review.seen[bound] # "none"
    /\ i \in SeenOurs
    /\ Contradictory => SeenOurs = {i}
    /\ fix' = i
    /\ BumpCase
    /\ UNCHANGED <<order, bound, payment, review, receipt, posts, outside>>

\* Mutant: money seen before the closing is not held against it.
CloseUnpaidBlindly ==
    /\ review.status = "open" /\ review.money = {} /\ payment = NoInvoice
    /\ review' = [review EXCEPT !.status = "closed"]
    /\ order' = [order EXCEPT !.status = "cancelled"]
    /\ BumpCase
    /\ UNCHANGED <<bound, fix, payment, receipt, posts, outside>>

\* A document of the bank says there is no money; only what was inspected can
\* contradict it.
CloseUnpaid ==
    /\ review.status = "open" /\ ~Contradictory /\ payment = NoInvoice
    /\ review' = [review EXCEPT !.status = "closed"]
    /\ order' = [order EXCEPT !.status = "cancelled"]
    /\ BumpCase
    /\ UNCHANGED <<bound, fix, payment, receipt, posts, outside>>

-----------------------------------------------------------------------------
(* The poll *)

\* Mutant: the poll verifies the first candidate for ever.
PollVerifiesFirst ==
    /\ bound # NoInvoice
    /\ VerifyBegins(Poller, bound)

PollVerifies ==
    /\ bound # NoInvoice
    /\ VerifyBegins(Poller, Effective)

\* Mutant: the poll looks only at orders that are completed.
PollRefreshesLate ==
    /\ order.status = "completed"
    /\ RefreshBegins(Poller)

PollRefreshes ==
    /\ order.status = "paid"
    /\ RefreshBegins(Poller)

-----------------------------------------------------------------------------
(* The bank *)

IssueByHand(i) ==
    /\ order.intent /\ i \in Ours /\ bank[i] = "none"
    /\ bank' = [bank EXCEPT ![i] = "unpaid"]
    /\ UNCHANGED <<ours, tab, call, posts, checks>>

Moves == {<<"unpaid", "hold">>, <<"unpaid", "success">>, <<"hold", "success">>,
          <<"hold", "reversed">>, <<"success", "reversed">>}

BankMoves(i, m) ==
    /\ i \in Ours /\ <<bank[i], m>> \in Moves
    /\ bank' = [bank EXCEPT ![i] = m]
    /\ UNCHANGED <<ours, tab, call, posts, checks>>

\* Checkbox issues the sale, and later perhaps a return, for the paid invoice.
ChecksMove(k) ==
    /\ payment # NoInvoice
    /\ <<checks, k>> \in {<<"none", "sale">>, <<"sale", "return">>}
    /\ checks' = k
    /\ UNCHANGED <<ours, tab, call, posts, bank>>

\* A cancelled order without an intent is over.
Over == order.status = "cancelled" /\ ~order.intent /\ UNCHANGED vars

TabStep(t) ==
    \/ TabStart(t) \/ TabChecks(t) \/ TabPostsInVain(t)
    \/ TabRecords(t) \/ TabFails(t)
    \/ \E i \in Invoices : TabPosts(t, i)

DeskStep(c) ==
    \/ RefreshBegins(c)
    \/ \E i \in Invoices :
         VerifyBegins(c, i) \/ RecoverBegins(c, i) \/ InspectBegins(c, i)

CallStep(c) ==
    \/ VerifyAsks(c) \/ VerifyRecords(c)
    \/ RecoverAsks(c) \/ RecoverBinds(c)
    \/ RefreshAsksMoney(c) \/ RefreshAsksChecks(c) \/ RefreshWrites(c)
    \/ InspectAsks(c) \/ InspectWrites(c)
    \/ CallFails(c)

BankStep ==
    \/ \E i \in Invoices : IssueByHand(i) \/ \E m \in Money : BankMoves(i, m)
    \/ \E k \in Checks : ChecksMove(k)

Next ==
    \/ \E t \in Tabs : TabStep(t)
    \/ \E c \in Desks : DeskStep(c)
    \/ \E c \in Calls : CallStep(c)
    \/ ChangeMethod \/ Cancel \/ Touch \/ PrepareIntent
    \/ PollVerifies \/ PollRefreshes
    \/ OpenReview \/ CloseUnpaid \/ Complete
    \/ \E i \in Invoices : Correct(i)
    \/ BankStep
    \/ Over

\* The poll comes back for ever, a call of it ends, and now and then the bank
\* answers it while nothing changes the order.
Fairness ==
    /\ WF_vars(CallFails(Poller))
    /\ SF_vars(PollVerifies) /\ SF_vars(PollRefreshes)
    /\ SF_vars(VerifyAsks(Poller)) /\ SF_vars(VerifyRecords(Poller))
    /\ SF_vars(RefreshAsksMoney(Poller) /\ call'[Poller].saw = "success")
    /\ SF_vars(RefreshAsksChecks(Poller) /\ call'[Poller].saw = CheckStatus)
    /\ SF_vars(RefreshWrites(Poller) /\ call[Poller].saw # "pending")

Spec == Init /\ [][Next]_vars /\ Fairness

-----------------------------------------------------------------------------
\* The type invariant: the candidates are invoices, the recorded payment and
\* the correction are ours, and so is every invoice a start was given.
TypeOK ==
    /\ order \in [status : Statuses, method : {"online", "offline"},
                  intent : BOOLEAN, request : BOOLEAN]
    /\ bound \in Invoices \cup {NoInvoice}
    /\ fix \in Ours \cup {NoInvoice}
    /\ payment \in Ours \cup {NoInvoice}
    /\ review \in [status : {"none", "open", "closed"},
                   seen : [Invoices -> Money], money : SUBSET Ours]
    /\ receipt \in [imported : BOOLEAN, last : Observed, returned : BOOLEAN]
    /\ tab \in [Tabs -> [phase : Phases, invoice : Ours \cup {NoInvoice}]]
    /\ call \in [Calls -> [kind : Kinds, invoice : Invoices \cup {NoInvoice},
                           saw : Money \cup Observed \cup {"unread"}]]
    /\ posts \in Nat
    /\ bank \in [Invoices -> Money]
    /\ checks \in Checks

\* One invoice/create request is sent for an order, whatever tabs, retries,
\* crashes and unknown answers there are (the docstring of create_invoice),
\* and none for an order that has left online payment.
OnePost ==
    /\ posts <= 1
    /\ order.method = "offline" => (posts = 0 /\ bound = NoInvoice)

\* Recorded money is money: the bank took it on an invoice of the order's own
\* reference that is still the effective one, and the order is paid or
\* completed (canonical_payment), never closed as unpaid by a review that ran
\* beside the verification.
EvidenceStands ==
    payment # NoInvoice =>
      /\ payment \in Ours /\ payment = Effective
      /\ order.status \in {"paid", "completed"} /\ review.status # "closed"
      /\ bank[payment] \in {"success", "reversed"}

\* After the closing, every invoice of the reference on which money was seen,
\* before or since, has its financial exception (require_shop_late_exception).
LateMoneyHeard ==
    review.status = "closed" => MoneySeen \subseteq review.money

\* A receipt is not accepted again by a slower answer once its return was seen.
NoReceiptAfterReturn ==
    receipt.returned => receipt.last # "accepted"

\* The first candidate, its correction and the payment are never replaced, by
\* whichever of start, recovery and verification comes second.
BindingsStay ==
    [][/\ bound # NoInvoice => bound' = bound
       /\ fix # NoInvoice => fix' = fix
       /\ payment # NoInvoice => payment' = payment]_vars

\* Money on the effective invoice of a payable order is recorded, unless the
\* order is closed or under exception, or the money goes back.
MoneyRecorded ==
    \A i \in Ours :
      (bank[i] = "success" /\ i = Effective /\ Payable) ~>
        (payment = i \/ Blocked \/ bank[i] = "reversed")

\* The receipt of a paid order is imported, unless it was returned meanwhile.
ReceiptImported ==
    \A i \in Ours :
      (order.status = "paid" /\ payment = i /\ checks = "sale") ~>
        (receipt.imported \/ checks = "return" \/ bank[i] = "reversed")
=============================================================================
