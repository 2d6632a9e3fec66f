------------------------- MODULE OnlinePaymentProofs -------------------------
(****************************************************************************)
(* What OnlinePayment promises for any number of invoices, checkout pages   *)
(* and staff calls.  The invariant relates the parts of the order to the    *)
(* starts and calls in flight and to what the bank said to them.            *)
(****************************************************************************)
EXTENDS OnlinePayment, TLAPS

\* The intent comes before a request and a candidate, and an order with one
\* cannot leave online payment.
Intended ==
    /\ order.request => order.intent
    /\ (bound # NoInvoice) => order.intent
    /\ (order.method = "offline") => ~order.intent
    /\ (fix # NoInvoice) => (bound # NoInvoice)
    /\ (review.status # "none") => (bound # NoInvoice)

\* One start gets past the request, once, and nothing was sent before it asks.
OneStart ==
    /\ \A t \in Tabs : (tab[t].phase # "idle") => order.request
    /\ \A t, u \in Tabs :
         (tab[t].phase # "idle" /\ tab[u].phase # "idle") => t = u
    /\ \A t \in Tabs : (tab[t].phase \in {"fenced", "checked"}) => posts = 0
    /\ (posts # 0) => (posts = 1 /\ order.request)

\* A call in flight is about an invoice, and an answer about money is still
\* true of it, but for a reversal.
Flying(k) ==
    /\ (k.kind # "none") => (k.invoice \in Invoices)
    /\ (k.kind = "recover") => order.request
    /\ (k.kind = "inspect") => (k.saw \in Money \cup {"unread"})
    /\ (k.kind = "verify" /\ k.saw = "success") =>
         (k.invoice \in Ours /\ bank[k.invoice] \in {"success", "reversed"})
AllFlying == \A c \in Calls : Flying(call[c])

\* A return once seen is there, and no call still carries the receipt before it.
Returns ==
    /\ receipt.returned => (receipt.last # "accepted" /\ checks = "return")
    /\ \A c \in Calls : (call[c].kind = "refresh") =>
         /\ (call[c].saw = "return") => (checks = "return")
         /\ (call[c].saw = "accepted") => ~receipt.returned

IInv ==
    /\ TypeOK /\ Intended /\ OneStart /\ AllFlying /\ Returns
    /\ EvidenceStands /\ LateMoneyHeard

-----------------------------------------------------------------------------
(* The steps *)

\* A bound order has an effective invoice.
LEMMA EffectiveIsInvoice ==
    ASSUME TypeOK, bound # NoInvoice
    PROVE  Effective \in Invoices
BY PaymentAssumption DEF TypeOK, Effective

\* The steps of the system, the poll's among them.
LEMMA StepCases ==
    ASSUME TypeOK, [Next]_vars
    PROVE  \/ \E t \in Tabs :
                \/ TabStart(t) \/ TabChecks(t) \/ TabPostsInVain(t)
                \/ TabRecords(t) \/ TabFails(t)
                \/ \E i \in Invoices : TabPosts(t, i)
           \/ \E c \in Calls :
                \/ VerifyAsks(c) \/ VerifyRecords(c)
                \/ RecoverAsks(c) \/ RecoverBinds(c)
                \/ RefreshBegins(c) \/ RefreshAsksMoney(c)
                \/ RefreshAsksChecks(c) \/ RefreshWrites(c)
                \/ InspectAsks(c) \/ InspectWrites(c) \/ CallFails(c)
                \/ \E i \in Invoices :
                     VerifyBegins(c, i) \/ RecoverBegins(c, i) \/ InspectBegins(c, i)
           \/ ChangeMethod \/ Cancel \/ Touch \/ PrepareIntent
           \/ OpenReview \/ CloseUnpaid \/ Complete
           \/ \E i \in Invoices :
                \/ Correct(i) \/ IssueByHand(i)
                \/ \E m \in Money : BankMoves(i, m)
           \/ \E k \in Checks : ChecksMove(k)
           \/ UNCHANGED vars
<1>1. CASE \E t \in Tabs : TabStep(t)
    BY <1>1 DEF TabStep
<1>2. CASE \E c \in Desks : DeskStep(c)
    BY <1>2 DEF DeskStep, Calls
<1>3. CASE \E c \in Calls : CallStep(c)
    BY <1>3 DEF CallStep
<1>4. CASE PollVerifies
    <2>1. Poller \in Calls /\ Effective \in Invoices
        BY <1>4, EffectiveIsInvoice DEF Calls, PollVerifies
    <2>2. VerifyBegins(Poller, Effective)
        BY <1>4 DEF PollVerifies
    <2>3. QED BY <2>1, <2>2
<1>5. CASE PollRefreshes
    BY <1>5 DEF PollRefreshes, Calls
<1>6. CASE BankStep
    BY <1>6 DEF BankStep
<1>7. CASE Over
    BY <1>7 DEF Over
<1>8. QED BY <1>1, <1>2, <1>3, <1>4, <1>5, <1>6, <1>7 DEF Next

\* What a change of the revision leaves of the starts and calls in flight.
LEMMA AfterBump ==
    ASSUME TypeOK
    PROVE  /\ TabsAfter \in [Tabs -> [phase : Phases, invoice : Ours \cup {NoInvoice}]]
           /\ \A t \in Tabs :
                TabsAfter[t] = IdleTab \/ (/\ TabsAfter[t] = tab[t]
                                          /\ tab[t].phase # "fenced")
           /\ CallsAfter \in [Calls -> [kind : Kinds,
                                        invoice : Invoices \cup {NoInvoice},
                                        saw : Money \cup Observed \cup {"unread"}]]
           /\ \A c \in Calls :
                CallsAfter[c] = IdleCall \/ (/\ CallsAfter[c] = call[c]
                                            /\ call[c].kind = "inspect")
BY DEF TypeOK, TabsAfter, CallsAfter, IdleTab, IdleCall, Phases, Kinds

\* A raised revision keeps the types of both.
LEMMA BumpType ==
    ASSUME TypeOK, Bump \/ BumpCase
    PROVE  /\ tab' \in [Tabs -> [phase : Phases, invoice : Ours \cup {NoInvoice}]]
           /\ call' \in [Calls -> [kind : Kinds,
                                  invoice : Invoices \cup {NoInvoice},
                                  saw : Money \cup Observed \cup {"unread"}]]
<1>1. IdleCall \in [kind : Kinds, invoice : Invoices \cup {NoInvoice},
                    saw : Money \cup Observed \cup {"unread"}]
    BY DEF IdleCall, Kinds
<1>2. QED BY <1>1, AfterBump DEF Bump, BumpCase

\* What the fiscal checks are read as.
LEMMA CheckStatusType ==
    ASSUME TypeOK
    PROVE  /\ CheckStatus \in Observed
           /\ (CheckStatus = "accepted") => (checks = "sale")
           /\ (CheckStatus = "return") => (checks = "return")
BY DEF TypeOK, CheckStatus, Checks, Observed

-----------------------------------------------------------------------------
(* Types *)

\* Every step keeps the types.
LEMMA TypeStep ==
    ASSUME TypeOK, AllFlying, [Next]_vars
    PROVE  TypeOK'
<1>1. ASSUME NEW t \in Tabs, TabStart(t) PROVE TypeOK'
    <2>1. tab' \in [Tabs -> [phase : Phases, invoice : Ours \cup {NoInvoice}]]
        BY <1>1, AfterBump DEF TabStart, Phases
    <2>2. call' \in [Calls -> [kind : Kinds, invoice : Invoices \cup {NoInvoice},
                               saw : Money \cup Observed \cup {"unread"}]]
        BY <1>1, AfterBump DEF TabStart
    <2>3. order' \in [status : Statuses, method : {"online", "offline"},
                      intent : BOOLEAN, request : BOOLEAN]
        BY <1>1 DEF TabStart, TypeOK
    <2>4. QED BY <1>1, <2>1, <2>2, <2>3 DEF TypeOK, TabStart, outside
<1>2. ASSUME NEW t \in Tabs, TabChecks(t) PROVE TypeOK'
    BY <1>2 DEF TypeOK, TabChecks, ours, outside, Phases
<1>3. ASSUME NEW t \in Tabs, TabPostsInVain(t) PROVE TypeOK'
    BY <1>3 DEF TypeOK, TabPostsInVain, ours, outside, IdleTab, Phases
<1>4. ASSUME NEW t \in Tabs, TabRecords(t) PROVE TypeOK'
    <2>1. tab[t].invoice \in Ours \cup {NoInvoice}
        BY DEF TypeOK
    <2>2. IdleTab \in [phase : Phases, invoice : Ours \cup {NoInvoice}]
        BY DEF IdleTab, Phases
    <2>3. tab' \in [Tabs -> [phase : Phases, invoice : Ours \cup {NoInvoice}]]
        BY <1>4, <2>2, AfterBump DEF TabRecords
    <2>4. bound' \in Invoices \cup {NoInvoice}
        BY <1>4, <2>1, PaymentAssumption DEF TabRecords
    <2>5. QED BY <1>4, <2>3, <2>4, AfterBump DEF TypeOK, TabRecords, outside
<1>5. ASSUME NEW t \in Tabs, TabFails(t) PROVE TypeOK'
    BY <1>5 DEF TypeOK, TabFails, ours, outside, IdleTab, Phases
<1>6. ASSUME NEW t \in Tabs, NEW i \in Invoices, TabPosts(t, i) PROVE TypeOK'
    BY <1>6 DEF TypeOK, TabPosts, ours, Phases, Money
<1>7. ASSUME NEW c \in Calls, RefreshBegins(c) PROVE TypeOK'
    BY <1>7, PaymentAssumption DEF TypeOK, RefreshBegins, ours, outside,
       Begin, Kinds
<1>8. ASSUME NEW c \in Calls, NEW i \in Invoices, VerifyBegins(c, i) PROVE TypeOK'
    BY <1>8 DEF TypeOK, VerifyBegins, outside, Begin, Kinds
<1>9. ASSUME NEW c \in Calls, NEW i \in Invoices, RecoverBegins(c, i) PROVE TypeOK'
    BY <1>9 DEF TypeOK, RecoverBegins, ours, outside, Begin, Kinds
<1>10. ASSUME NEW c \in Calls, NEW i \in Invoices, InspectBegins(c, i) PROVE TypeOK'
    BY <1>10 DEF TypeOK, InspectBegins, ours, outside, Begin, Kinds
<1>11. ASSUME NEW c \in Calls, VerifyAsks(c) PROVE TypeOK'
    BY <1>11, PaymentAssumption DEF TypeOK, VerifyAsks, ours, outside, Sees
<1>12. ASSUME NEW c \in Calls, VerifyRecords(c) PROVE TypeOK'
    BY <1>12, BumpType DEF TypeOK, VerifyRecords, outside, Has, Statuses,
       AllFlying, Flying
<1>13. ASSUME NEW c \in Calls, RecoverAsks(c) PROVE TypeOK'
    BY <1>13 DEF TypeOK, RecoverAsks, ours, outside, Sees, Money
<1>14. ASSUME NEW c \in Calls, RecoverBinds(c) PROVE TypeOK'
    BY <1>14, BumpType DEF TypeOK, RecoverBinds, outside
<1>15. ASSUME NEW c \in Calls, RefreshAsksMoney(c) PROVE TypeOK'
    BY <1>15 DEF TypeOK, RefreshAsksMoney, ours, outside, Waits, Sees,
       AllFlying, Money, Observed
<1>16. ASSUME NEW c \in Calls, RefreshAsksChecks(c) PROVE TypeOK'
    BY <1>16, PaymentAssumption, CheckStatusType DEF TypeOK,
       RefreshAsksChecks, ours, outside, Sees, Kinds, Checks, Observed
<1>17. ASSUME NEW c \in Calls, RefreshWrites(c) PROVE TypeOK'
    BY <1>17, BumpType DEF TypeOK, RefreshWrites, outside, Import
<1>18. ASSUME NEW c \in Calls, InspectAsks(c) PROVE TypeOK'
    BY <1>18 DEF TypeOK, InspectAsks, ours, outside, Waits, Sees, AllFlying,
       Flying
<1>19. ASSUME NEW c \in Calls, InspectWrites(c) PROVE TypeOK'
    <2>1. call[c].invoice \in Invoices /\ call[c].saw \in Money
        BY <1>19 DEF InspectWrites, AllFlying, Flying
    <2>2. review' \in [status : {"none", "open", "closed"},
                       seen : [Invoices -> Money], money : SUBSET Ours]
        <3>1. review'.seen \in [Invoices -> Money]
            BY <1>19, <2>1 DEF InspectWrites, TypeOK
        <3>2. review'.money \in SUBSET Ours
            BY <1>19 DEF InspectWrites, Exceptional, TypeOK
        <3>3. QED BY <1>19, <3>1, <3>2 DEF InspectWrites, TypeOK
    <2>3. QED
        BY <1>19, <2>2, BumpType DEF TypeOK, InspectWrites, outside
<1>20. ASSUME NEW c \in Calls, CallFails(c) PROVE TypeOK'
    BY <1>20 DEF TypeOK, CallFails, ours, outside, IdleCall, Kinds
<1>21. CASE ChangeMethod
    BY <1>21, BumpType DEF TypeOK, ChangeMethod, outside
<1>22. CASE Cancel
    BY <1>22, BumpType DEF TypeOK, Cancel, outside, Statuses
<1>23. CASE Touch
    BY <1>23, BumpType DEF TypeOK, Touch, ours, outside
<1>24. CASE PrepareIntent
    BY <1>24, BumpType DEF TypeOK, PrepareIntent, outside
<1>25. CASE OpenReview
    BY <1>25, BumpType DEF TypeOK, OpenReview, outside
<1>26. CASE CloseUnpaid
    BY <1>26, BumpType DEF TypeOK, CloseUnpaid, outside, Statuses
<1>27. CASE Complete
    BY <1>27, BumpType DEF TypeOK, Complete, outside, Statuses
<1>28. ASSUME NEW i \in Invoices, Correct(i) PROVE TypeOK'
    BY <1>28, BumpType DEF TypeOK, Correct, outside, SeenOurs
<1>29. ASSUME NEW i \in Invoices, IssueByHand(i) PROVE TypeOK'
    BY <1>29 DEF TypeOK, IssueByHand, ours, Money
<1>30. ASSUME NEW i \in Invoices, NEW m \in Money, BankMoves(i, m) PROVE TypeOK'
    BY <1>30 DEF TypeOK, BankMoves, ours
<1>31. ASSUME NEW k \in Checks, ChecksMove(k) PROVE TypeOK'
    BY <1>31 DEF TypeOK, ChecksMove, ours
<1>32. CASE UNCHANGED vars
    BY <1>32 DEF TypeOK, vars, ours, outside
<1>33. QED BY <1>1, <1>2, <1>3, <1>4, <1>5, <1>6, <1>7, <1>8, <1>9, <1>10,
       <1>11, <1>12, <1>13, <1>14, <1>15, <1>16, <1>17, <1>18, <1>19, <1>20,
       <1>21, <1>22, <1>23, <1>24, <1>25, <1>26, <1>27, <1>28, <1>29, <1>30,
       <1>31, <1>32, StepCases

-----------------------------------------------------------------------------
(* The intent *)

\* Whatever binds a candidate or opens a review finds the intent there.
LEMMA IntentStep ==
    ASSUME TypeOK, Intended, OneStart, AllFlying, [Next]_vars
    PROVE  Intended'
<1>1. ASSUME NEW t \in Tabs, TabStart(t) PROVE Intended'
    BY <1>1 DEF Intended, TabStart, Untouched
<1>2. ASSUME NEW t \in Tabs,
           TabChecks(t) \/ TabPostsInVain(t) \/ TabFails(t)
    PROVE  Intended'
    BY <1>2 DEF Intended, TabChecks, ours, TabPostsInVain, TabFails
<1>3. ASSUME NEW t \in Tabs, TabRecords(t) PROVE Intended'
    BY <1>3 DEF Intended, TabRecords, OneStart
<1>4. ASSUME NEW t \in Tabs, NEW i \in Invoices, TabPosts(t, i) PROVE Intended'
    BY <1>4 DEF TypeOK, Intended, TabPosts, ours, outside
<1>5. ASSUME NEW c \in Calls,
           RefreshBegins(c) \/ VerifyAsks(c) \/ VerifyRecords(c)
           \/ RecoverAsks(c) \/ RefreshAsksMoney(c) \/ RefreshAsksChecks(c)
           \/ RefreshWrites(c) \/ InspectAsks(c) \/ InspectWrites(c)
           \/ CallFails(c)
    PROVE  Intended'
    BY <1>5 DEF TypeOK, Intended, RefreshBegins, ours, VerifyAsks,
       VerifyRecords, RecoverAsks, RefreshAsksMoney, RefreshAsksChecks,
       RefreshWrites, InspectAsks, InspectWrites, CallFails
<1>6. ASSUME NEW c \in Calls, NEW i \in Invoices, VerifyBegins(c, i) PROVE Intended'
    BY <1>6 DEF Intended, VerifyBegins
<1>7. ASSUME NEW c \in Calls, NEW i \in Invoices,
           RecoverBegins(c, i) \/ InspectBegins(c, i)
    PROVE  Intended'
    BY <1>7 DEF Intended, RecoverBegins, ours, InspectBegins
<1>8. ASSUME NEW c \in Calls, RecoverBinds(c) PROVE Intended'
    BY <1>8 DEF Intended, RecoverBinds, Has, AllFlying, Flying
<1>9. CASE ChangeMethod
    BY <1>9 DEF Intended, ChangeMethod, Untouched
<1>10. CASE Cancel \/ Touch \/ CloseUnpaid \/ Complete \/ UNCHANGED vars
    BY <1>10 DEF TypeOK, Intended, Cancel, ours, Touch, CloseUnpaid, Complete,
       vars
<1>11. CASE PrepareIntent
    BY <1>11 DEF Intended, PrepareIntent, Untouched
<1>12. CASE OpenReview
    BY <1>12 DEF Intended, OpenReview
<1>13. ASSUME NEW i \in Invoices, Correct(i) PROVE Intended'
    BY <1>13 DEF Intended, Correct
<1>14. ASSUME NEW i \in Invoices, IssueByHand(i) PROVE Intended'
    BY <1>14 DEF TypeOK, Intended, IssueByHand, ours, outside
<1>15. ASSUME NEW i \in Invoices, NEW m \in Money, BankMoves(i, m) PROVE Intended'
    BY <1>15 DEF Intended, BankMoves, ours
<1>16. ASSUME NEW k \in Checks, ChecksMove(k) PROVE Intended'
    BY <1>16 DEF TypeOK, Intended, ChecksMove, ours, outside
<1>17. QED BY <1>1, <1>2, <1>3, <1>4, <1>5, <1>6, <1>7, <1>8, <1>9, <1>10,
       <1>11, <1>12, <1>13, <1>14, <1>15, <1>16, StepCases

-----------------------------------------------------------------------------
(* One start *)

\* A change of the revision ends a start that is still fenced and no other.
LEMMA BumpedStart ==
    ASSUME TypeOK, OneStart, tab' = TabsAfter, posts' = posts,
           order'.request = order.request
    PROVE  OneStart'
<1>1. \A t \in Tabs : (tab'[t].phase # "idle") => (tab'[t] = tab[t])
    BY AfterBump DEF IdleTab
<1>2. QED BY <1>1 DEF OneStart

\* A start gets past the request only when there is none, and sends after it.
LEMMA StartStep ==
    ASSUME TypeOK, Intended, OneStart, [Next]_vars
    PROVE  OneStart'
<1>1. ASSUME NEW t \in Tabs, TabStart(t) PROVE OneStart'
    BY <1>1, AfterBump DEF OneStart, TabStart, Untouched, Intended, IdleTab
<1>2. ASSUME NEW t \in Tabs, TabChecks(t) PROVE OneStart'
    BY <1>2 DEF OneStart, TabChecks, ours
<1>3. ASSUME NEW t \in Tabs, TabPostsInVain(t) PROVE OneStart'
    BY <1>3 DEF TypeOK, OneStart, TabPostsInVain, ours, IdleTab
<1>4. ASSUME NEW t \in Tabs, TabRecords(t) PROVE OneStart'
    <2>1. TabsAfter \in [Tabs -> [phase : Phases, invoice : Ours \cup {NoInvoice}]]
        BY AfterBump
    <2>2. /\ tab' = [TabsAfter EXCEPT ![t] = IdleTab]
          /\ UNCHANGED <<order, posts>>
        BY <1>4 DEF TabRecords
    <2>3. \A u \in Tabs : tab'[u] = IdleTab \/ tab'[u] = tab[u]
        BY <2>1, <2>2, AfterBump
    <2>4. QED BY <2>2, <2>3 DEF OneStart, IdleTab
<1>5. ASSUME NEW t \in Tabs, TabFails(t) PROVE OneStart'
    BY <1>5 DEF OneStart, TabFails, ours, IdleTab
<1>6. ASSUME NEW t \in Tabs, NEW i \in Invoices, TabPosts(t, i) PROVE OneStart'
    BY <1>6 DEF TypeOK, OneStart, TabPosts, ours, outside
<1>7. ASSUME NEW c \in Calls,
           RefreshBegins(c) \/ VerifyAsks(c) \/ RecoverAsks(c)
           \/ RefreshAsksMoney(c) \/ RefreshAsksChecks(c) \/ InspectAsks(c)
           \/ CallFails(c)
    PROVE  OneStart'
    BY <1>7 DEF OneStart, RefreshBegins, ours, VerifyAsks, RecoverAsks,
       RefreshAsksMoney, RefreshAsksChecks, InspectAsks, CallFails
<1>8. ASSUME NEW c \in Calls, NEW i \in Invoices,
           VerifyBegins(c, i) \/ RecoverBegins(c, i) \/ InspectBegins(c, i)
    PROVE  OneStart'
    BY <1>8 DEF OneStart, VerifyBegins, ours, RecoverBegins, InspectBegins
<1>9. ASSUME NEW c \in Calls,
           VerifyRecords(c) \/ RecoverBinds(c) \/ RefreshWrites(c)
           \/ InspectWrites(c)
    PROVE  OneStart'
    BY <1>9, BumpedStart DEF TypeOK, VerifyRecords, Bump, BumpCase,
       RecoverBinds, RefreshWrites, InspectWrites
<1>10. CASE ChangeMethod \/ Cancel \/ Touch \/ PrepareIntent \/ OpenReview
         \/ CloseUnpaid \/ Complete
    BY <1>10, BumpedStart DEF TypeOK, ChangeMethod, ours, Bump, BumpCase,
       Cancel, Touch, PrepareIntent, OpenReview, CloseUnpaid, Complete
<1>11. ASSUME NEW i \in Invoices, Correct(i) PROVE OneStart'
    BY <1>11, BumpedStart DEF Correct, BumpCase
<1>12. ASSUME NEW i \in Invoices, IssueByHand(i) PROVE OneStart'
    BY <1>12 DEF TypeOK, OneStart, IssueByHand, ours, outside
<1>13. ASSUME NEW i \in Invoices, NEW m \in Money, BankMoves(i, m) PROVE OneStart'
    BY <1>13 DEF OneStart, BankMoves, ours
<1>14. ASSUME NEW k \in Checks, ChecksMove(k) PROVE OneStart'
    BY <1>14 DEF TypeOK, OneStart, ChecksMove, ours, outside
<1>15. CASE UNCHANGED vars
    BY <1>15 DEF TypeOK, OneStart, vars, ours, outside
<1>16. QED BY <1>1, <1>2, <1>3, <1>4, <1>5, <1>6, <1>7, <1>8, <1>9, <1>10,
       <1>11, <1>12, <1>13, <1>14, <1>15, StepCases

-----------------------------------------------------------------------------
(* Calls in flight *)

\* A change of the revision, the case's too, begins no call.
LEMMA BumpedCalls ==
    ASSUME TypeOK, AllFlying, bank' = bank, order.request => order'.request,
           call' = CallsAfter \/ call' = [c \in Calls |-> IdleCall]
    PROVE  AllFlying'
<1>1. \A c \in Calls : call'[c] = IdleCall \/ call'[c] = call[c]
    BY AfterBump
<1>2. QED BY <1>1 DEF AllFlying, Flying, IdleCall

\* What the bank said of an invoice's money is not taken back but by a reversal.
LEMMA FlyingStep ==
    ASSUME TypeOK, EvidenceStands, AllFlying, [Next]_vars
    PROVE  AllFlying'
<1>1. ASSUME NEW t \in Tabs,
           TabStart(t) \/ TabRecords(t)
    PROVE  AllFlying'
    BY <1>1, BumpedCalls DEF TypeOK, TabStart, outside, TabRecords
<1>2. ASSUME NEW t \in Tabs,
           TabChecks(t) \/ TabPostsInVain(t) \/ TabFails(t)
    PROVE  AllFlying'
    BY <1>2 DEF AllFlying, Flying, TabChecks, ours, outside, TabPostsInVain,
       TabFails
<1>3. ASSUME NEW t \in Tabs, NEW i \in Invoices, TabPosts(t, i) PROVE AllFlying'
    BY <1>3 DEF AllFlying, Flying, TabPosts, ours
<1>4. ASSUME NEW c \in Calls, RefreshBegins(c) PROVE AllFlying'
    BY <1>4, PaymentAssumption DEF AllFlying, Flying, RefreshBegins, ours,
       outside, Begin, EvidenceStands
<1>5. ASSUME NEW c \in Calls, NEW i \in Invoices, VerifyBegins(c, i) PROVE AllFlying'
    BY <1>5 DEF AllFlying, Flying, VerifyBegins, outside, Begin
<1>6. ASSUME NEW c \in Calls, NEW i \in Invoices, RecoverBegins(c, i) PROVE AllFlying'
    BY <1>6 DEF AllFlying, Flying, RecoverBegins, ours, outside, Begin
<1>7. ASSUME NEW c \in Calls, NEW i \in Invoices, InspectBegins(c, i) PROVE AllFlying'
    BY <1>7 DEF AllFlying, Flying, InspectBegins, ours, outside, Begin
<1>8. ASSUME NEW c \in Calls, VerifyAsks(c) PROVE AllFlying'
    BY <1>8 DEF AllFlying, Flying, VerifyAsks, ours, outside, Waits, Sees
<1>9. ASSUME NEW c \in Calls,
           VerifyRecords(c) \/ RecoverBinds(c) \/ RefreshWrites(c)
           \/ InspectWrites(c)
    PROVE  AllFlying'
    BY <1>9, BumpedCalls DEF TypeOK, VerifyRecords, outside, Bump, BumpCase,
       RecoverBinds, RefreshWrites, InspectWrites
<1>10. ASSUME NEW c \in Calls, RecoverAsks(c) PROVE AllFlying'
    BY <1>10 DEF AllFlying, Flying, RecoverAsks, ours, outside, Waits, Sees
<1>11. ASSUME NEW c \in Calls, RefreshAsksMoney(c) PROVE AllFlying'
    BY <1>11 DEF TypeOK, AllFlying, Flying, RefreshAsksMoney, ours, outside,
       Waits, Sees
<1>12. ASSUME NEW c \in Calls, RefreshAsksChecks(c) PROVE AllFlying'
    BY <1>12, CheckStatusType DEF TypeOK, AllFlying, Flying,
       RefreshAsksChecks, ours, outside, Waits, Sees, Has, Observed
<1>13. ASSUME NEW c \in Calls, InspectAsks(c) PROVE AllFlying'
    BY <1>13 DEF TypeOK, AllFlying, Flying, InspectAsks, ours, outside,
       Waits, Sees
<1>14. ASSUME NEW c \in Calls, CallFails(c) PROVE AllFlying'
    BY <1>14 DEF AllFlying, Flying, CallFails, ours, outside, IdleCall
<1>15. CASE ChangeMethod \/ Cancel \/ Touch \/ PrepareIntent \/ OpenReview
         \/ CloseUnpaid \/ Complete
    BY <1>15, BumpedCalls DEF TypeOK, ChangeMethod, ours, outside, Bump,
       BumpCase, Cancel, Touch, PrepareIntent, OpenReview, CloseUnpaid,
       Complete
<1>16. ASSUME NEW i \in Invoices, Correct(i) PROVE AllFlying'
    BY <1>16, BumpedCalls DEF Correct, outside, BumpCase
<1>17. ASSUME NEW i \in Invoices, IssueByHand(i) PROVE AllFlying'
    BY <1>17 DEF AllFlying, Flying, IssueByHand, ours
<1>18. ASSUME NEW i \in Invoices, NEW m \in Money, BankMoves(i, m) PROVE AllFlying'
    BY <1>18 DEF AllFlying, Flying, BankMoves, ours, Moves
<1>19. ASSUME NEW k \in Checks, ChecksMove(k) PROVE AllFlying'
    BY <1>19 DEF AllFlying, Flying, ChecksMove, ours
<1>20. CASE UNCHANGED vars
    BY <1>20 DEF AllFlying, Flying, vars, ours, outside
<1>21. QED BY <1>1, <1>2, <1>3, <1>4, <1>5, <1>6, <1>7, <1>8, <1>9, <1>10,
       <1>11, <1>12, <1>13, <1>14, <1>15, <1>16, <1>17, <1>18, <1>19, <1>20,
       StepCases

-----------------------------------------------------------------------------
(* The return *)

\* A change of the revision ends the refreshes in flight.
LEMMA BumpedReturns ==
    ASSUME TypeOK, Returns, receipt' = receipt, checks' = checks,
           call' = CallsAfter \/ call' = [c \in Calls |-> IdleCall]
    PROVE  Returns'
<1>1. \A c \in Calls : call'[c] = IdleCall \/ call'[c].kind = "inspect"
    BY AfterBump
<1>2. QED BY <1>1 DEF Returns, IdleCall

\* The observation of a return ends every refresh that saw less.
LEMMA ReturnStep ==
    ASSUME TypeOK, Returns, [Next]_vars
    PROVE  Returns'
<1>1. ASSUME NEW t \in Tabs,
           TabStart(t) \/ TabRecords(t)
    PROVE  Returns'
    BY <1>1, BumpedReturns DEF TabStart, outside, TabRecords
<1>2. ASSUME NEW t \in Tabs,
           TabChecks(t) \/ TabPostsInVain(t) \/ TabFails(t)
    PROVE  Returns'
    BY <1>2 DEF Returns, TabChecks, ours, outside, TabPostsInVain, TabFails
<1>3. ASSUME NEW t \in Tabs, NEW i \in Invoices, TabPosts(t, i) PROVE Returns'
    BY <1>3 DEF TypeOK, Returns, TabPosts, ours, outside
<1>4. ASSUME NEW c \in Calls, RefreshBegins(c) PROVE Returns'
    BY <1>4 DEF Returns, RefreshBegins, ours, outside, Begin
<1>5. ASSUME NEW c \in Calls, NEW i \in Invoices, VerifyBegins(c, i) PROVE Returns'
    BY <1>5 DEF Returns, VerifyBegins, outside, Begin
<1>6. ASSUME NEW c \in Calls, NEW i \in Invoices, RecoverBegins(c, i) PROVE Returns'
    BY <1>6 DEF Returns, RecoverBegins, ours, outside, Begin
<1>7. ASSUME NEW c \in Calls, NEW i \in Invoices, InspectBegins(c, i) PROVE Returns'
    BY <1>7 DEF Returns, InspectBegins, ours, outside, Begin
<1>8. ASSUME NEW c \in Calls, VerifyAsks(c) PROVE Returns'
    BY <1>8 DEF Returns, VerifyAsks, ours, outside, Sees
<1>9. ASSUME NEW c \in Calls,
           VerifyRecords(c) \/ RecoverBinds(c) \/ InspectWrites(c)
    PROVE  Returns'
    BY <1>9, BumpedReturns DEF VerifyRecords, outside, Bump, BumpCase,
       RecoverBinds, InspectWrites
<1>10. ASSUME NEW c \in Calls, RecoverAsks(c) PROVE Returns'
    BY <1>10 DEF Returns, RecoverAsks, ours, outside, Sees
<1>11. ASSUME NEW c \in Calls, RefreshAsksMoney(c) PROVE Returns'
    BY <1>11 DEF TypeOK, Returns, RefreshAsksMoney, ours, outside, Waits,
       Sees
<1>12. ASSUME NEW c \in Calls, RefreshAsksChecks(c) PROVE Returns'
    BY <1>12, CheckStatusType DEF TypeOK, Returns, RefreshAsksChecks, ours,
       outside, Sees
<1>13. ASSUME NEW c \in Calls, RefreshWrites(c) PROVE Returns'
    BY <1>13, AfterBump DEF TypeOK, Returns, RefreshWrites, ours, outside,
       Bump, BumpCase, Import, IdleCall
<1>14. ASSUME NEW c \in Calls, InspectAsks(c) PROVE Returns'
    BY <1>14 DEF Returns, InspectAsks, ours, outside, Waits, Sees
<1>15. ASSUME NEW c \in Calls, CallFails(c) PROVE Returns'
    BY <1>15 DEF Returns, CallFails, ours, outside, IdleCall
<1>16. CASE ChangeMethod \/ Cancel \/ Touch \/ PrepareIntent \/ OpenReview
         \/ CloseUnpaid \/ Complete
    BY <1>16, BumpedReturns DEF ChangeMethod, ours, outside, Bump, BumpCase,
       Cancel, Touch, PrepareIntent, OpenReview, CloseUnpaid, Complete
<1>17. ASSUME NEW i \in Invoices, Correct(i) PROVE Returns'
    BY <1>17, BumpedReturns DEF Correct, outside, BumpCase
<1>18. ASSUME NEW i \in Invoices, IssueByHand(i) PROVE Returns'
    BY <1>18 DEF TypeOK, Returns, IssueByHand, ours, outside
<1>19. ASSUME NEW i \in Invoices, NEW m \in Money, BankMoves(i, m) PROVE Returns'
    BY <1>19 DEF Returns, BankMoves, ours
<1>20. ASSUME NEW k \in Checks, ChecksMove(k) PROVE Returns'
    BY <1>20 DEF TypeOK, Returns, ChecksMove, ours, outside
<1>21. CASE UNCHANGED vars
    BY <1>21 DEF TypeOK, Returns, vars, ours, outside
<1>22. QED BY <1>1, <1>2, <1>3, <1>4, <1>5, <1>6, <1>7, <1>8, <1>9, <1>10,
       <1>11, <1>12, <1>13, <1>14, <1>15, <1>16, <1>17, <1>18, <1>19, <1>20,
       <1>21, StepCases

-----------------------------------------------------------------------------
(* The evidence *)

\* A verification records money only while its order can still take it, and
\* nothing that is done later contradicts what it recorded.
LEMMA EvidenceStep ==
    ASSUME TypeOK, Intended, AllFlying, EvidenceStands, [Next]_vars
    PROVE  EvidenceStands'
<1>1. ASSUME NEW t \in Tabs,
           TabStart(t) \/ TabChecks(t) \/ TabPostsInVain(t) \/ TabFails(t)
    PROVE  EvidenceStands'
    BY <1>1 DEF TypeOK, EvidenceStands, Effective, TabStart, ours, outside,
       TabChecks, TabPostsInVain, TabFails
<1>2. ASSUME NEW t \in Tabs, TabRecords(t) PROVE EvidenceStands'
    BY <1>2 DEF EvidenceStands, Effective, TabRecords, outside
<1>3. ASSUME NEW t \in Tabs, NEW i \in Invoices, TabPosts(t, i) PROVE EvidenceStands'
    BY <1>3 DEF EvidenceStands, Effective, TabPosts, ours
<1>4. ASSUME NEW c \in Calls,
           RefreshBegins(c) \/ VerifyAsks(c) \/ RecoverAsks(c)
           \/ RefreshAsksMoney(c) \/ RefreshAsksChecks(c)
           \/ RefreshWrites(c) \/ InspectAsks(c) \/ CallFails(c)
    PROVE  EvidenceStands'
    BY <1>4 DEF EvidenceStands, Effective, RefreshBegins, ours, outside,
       VerifyAsks, RecoverAsks, RefreshAsksMoney, RefreshAsksChecks,
       RefreshWrites, InspectAsks, CallFails
<1>5. ASSUME NEW c \in Calls, NEW i \in Invoices, VerifyBegins(c, i) PROVE EvidenceStands'
    BY <1>5 DEF EvidenceStands, Effective, VerifyBegins, outside
<1>6. ASSUME NEW c \in Calls, NEW i \in Invoices,
           RecoverBegins(c, i) \/ InspectBegins(c, i)
    PROVE  EvidenceStands'
    BY <1>6 DEF EvidenceStands, Effective, RecoverBegins, ours, outside,
       InspectBegins
<1>7. ASSUME NEW c \in Calls, VerifyRecords(c) PROVE EvidenceStands'
    BY <1>7 DEF EvidenceStands, Effective, VerifyRecords, outside, Has,
       Payable, Blocked, AllFlying, Flying
<1>8. ASSUME NEW c \in Calls, RecoverBinds(c) PROVE EvidenceStands'
    BY <1>8 DEF EvidenceStands, Effective, RecoverBinds, Intended
<1>9. ASSUME NEW c \in Calls, InspectWrites(c) PROVE EvidenceStands'
    BY <1>9 DEF EvidenceStands, Effective, InspectWrites, outside
<1>10. CASE ChangeMethod \/ Touch \/ PrepareIntent \/ UNCHANGED vars
    BY <1>10 DEF TypeOK, EvidenceStands, Effective, ChangeMethod, ours,
       outside, Touch, PrepareIntent, vars
<1>11. CASE Cancel
    BY <1>11 DEF EvidenceStands, Cancel
<1>12. CASE OpenReview
    BY <1>12 DEF EvidenceStands, Effective, OpenReview, outside
<1>13. CASE CloseUnpaid
    BY <1>13 DEF EvidenceStands, CloseUnpaid
<1>14. CASE Complete
    BY <1>14 DEF EvidenceStands, Effective, Complete, outside
<1>15. ASSUME NEW i \in Invoices, Correct(i) PROVE EvidenceStands'
    BY <1>15 DEF EvidenceStands, Correct
<1>16. ASSUME NEW i \in Invoices, IssueByHand(i) PROVE EvidenceStands'
    BY <1>16 DEF EvidenceStands, Effective, IssueByHand, ours
<1>17. ASSUME NEW i \in Invoices, NEW m \in Money, BankMoves(i, m) PROVE EvidenceStands'
    BY <1>17 DEF EvidenceStands, Effective, BankMoves, ours, Moves
<1>18. ASSUME NEW k \in Checks, ChecksMove(k) PROVE EvidenceStands'
    BY <1>18 DEF EvidenceStands, Effective, ChecksMove, ours
<1>19. QED BY <1>1, <1>2, <1>3, <1>4, <1>5, <1>6, <1>7, <1>8, <1>9, <1>10,
       <1>11, <1>12, <1>13, <1>14, <1>15, <1>16, <1>17, <1>18, StepCases

-----------------------------------------------------------------------------
(* Late money *)

\* An inspection of a closed order cannot see money without an exception.
LEMMA LateStep ==
    ASSUME TypeOK, EvidenceStands, LateMoneyHeard, [Next]_vars
    PROVE  LateMoneyHeard'
<1>1. ASSUME NEW t \in Tabs,
           TabStart(t) \/ TabChecks(t) \/ TabPostsInVain(t) \/ TabRecords(t)
           \/ TabFails(t)
    PROVE  LateMoneyHeard'
    BY <1>1 DEF LateMoneyHeard, MoneySeen, TabStart, ours, TabChecks,
       TabPostsInVain, TabRecords, TabFails
<1>2. ASSUME NEW t \in Tabs, NEW i \in Invoices, TabPosts(t, i) PROVE LateMoneyHeard'
    BY <1>2 DEF LateMoneyHeard, MoneySeen, TabPosts, ours, outside
<1>3. ASSUME NEW c \in Calls,
           RefreshBegins(c) \/ VerifyAsks(c) \/ VerifyRecords(c)
           \/ RecoverAsks(c) \/ RecoverBinds(c) \/ RefreshAsksMoney(c)
           \/ RefreshAsksChecks(c) \/ RefreshWrites(c) \/ InspectAsks(c)
           \/ CallFails(c)
    PROVE  LateMoneyHeard'
    BY <1>3 DEF LateMoneyHeard, MoneySeen, RefreshBegins, ours, VerifyAsks,
       VerifyRecords, RecoverAsks, RecoverBinds, RefreshAsksMoney,
       RefreshAsksChecks, RefreshWrites, InspectAsks, CallFails
<1>4. ASSUME NEW c \in Calls, NEW i \in Invoices,
           VerifyBegins(c, i) \/ RecoverBegins(c, i) \/ InspectBegins(c, i)
    PROVE  LateMoneyHeard'
    BY <1>4 DEF LateMoneyHeard, MoneySeen, VerifyBegins, ours, RecoverBegins,
       InspectBegins
<1>5. ASSUME NEW c \in Calls, InspectWrites(c) PROVE LateMoneyHeard'
    BY <1>5, PaymentAssumption DEF LateMoneyHeard, MoneySeen, InspectWrites,
       Exceptional, EvidenceStands
<1>6. CASE ChangeMethod \/ Cancel \/ Touch \/ PrepareIntent \/ Complete
         \/ UNCHANGED vars
    BY <1>6 DEF LateMoneyHeard, MoneySeen, ChangeMethod, ours, Cancel, Touch,
       PrepareIntent, Complete, vars
<1>7. CASE OpenReview
    BY <1>7 DEF LateMoneyHeard, OpenReview
<1>8. CASE CloseUnpaid
    BY <1>8 DEF LateMoneyHeard, MoneySeen, CloseUnpaid, Contradictory
<1>9. ASSUME NEW i \in Invoices,
           Correct(i) \/ IssueByHand(i)
    PROVE  LateMoneyHeard'
    BY <1>9 DEF LateMoneyHeard, MoneySeen, Correct, ours, IssueByHand
<1>10. ASSUME NEW i \in Invoices, NEW m \in Money, BankMoves(i, m) PROVE LateMoneyHeard'
    BY <1>10 DEF LateMoneyHeard, MoneySeen, BankMoves, ours
<1>11. ASSUME NEW k \in Checks, ChecksMove(k) PROVE LateMoneyHeard'
    BY <1>11 DEF LateMoneyHeard, MoneySeen, ChecksMove, ours, outside
<1>12. QED BY <1>1, <1>2, <1>3, <1>4, <1>5, <1>6, <1>7, <1>8, <1>9, <1>10,
       <1>11, StepCases

-----------------------------------------------------------------------------
(* The theorems *)

\* The parts of the invariant, of every reachable state.
THEOREM Invariance == Spec => []IInv
<1>1. Init => IInv
    <2>1. SUFFICES ASSUME Init PROVE IInv
        OBVIOUS
    <2>2. TypeOK
        BY <2>1 DEF Init, TypeOK, IdleTab, IdleCall, Statuses, Money, Checks,
                    Observed, Kinds, Phases
    <2>3. Intended /\ OneStart
        BY <2>1 DEF Init, Intended, OneStart, IdleTab
    <2>4. AllFlying /\ Returns
        BY <2>1 DEF Init, AllFlying, Flying, Returns, IdleCall
    <2>5. EvidenceStands /\ LateMoneyHeard
        BY <2>1 DEF Init, EvidenceStands, LateMoneyHeard
    <2>6. QED BY <2>2, <2>3, <2>4, <2>5 DEF IInv
<1>2. IInv /\ [Next]_vars => IInv'
    BY TypeStep, IntentStep, StartStep, FlyingStep, ReturnStep, EvidenceStep,
       LateStep DEF IInv
<1>3. QED BY <1>1, <1>2, PTL DEF Spec

\* The candidates, the payment, the starts and the calls have their types.
THEOREM TypeCorrect == Spec => []TypeOK
<1>1. IInv => TypeOK BY DEF IInv
<1>2. QED BY <1>1, Invariance, PTL

\* For any number of tabs, retries and lost answers, one request is sent.
THEOREM SentOnce == Spec => []OnePost
<1>1. IInv => OnePost
    BY DEF IInv, TypeOK, Intended, OneStart, OnePost
<1>2. QED BY <1>1, Invariance, PTL

\* Recorded money is money on the effective invoice of a paid order.
THEOREM EvidenceHolds == Spec => []EvidenceStands
<1>1. IInv => EvidenceStands BY DEF IInv
<1>2. QED BY <1>1, Invariance, PTL

\* Money seen on any invoice of a closed order has its exception.
THEOREM LateMoneyIsHeard == Spec => []LateMoneyHeard
<1>1. IInv => LateMoneyHeard BY DEF IInv
<1>2. QED BY <1>1, Invariance, PTL

\* No slower answer accepts a receipt whose return was seen.
THEOREM ReturnedStays == Spec => []NoReceiptAfterReturn
<1>1. IInv => NoReceiptAfterReturn
    BY DEF IInv, Returns, NoReceiptAfterReturn
<1>2. QED BY <1>1, Invariance, PTL

\* The first candidate, its correction and the payment are never replaced.
THEOREM BoundForGood == Spec => BindingsStay
<1> DEFINE Stays ==
        /\ bound # NoInvoice => bound' = bound
        /\ fix # NoInvoice => fix' = fix
        /\ payment # NoInvoice => payment' = payment
<1>1. IInv /\ [Next]_vars => [Stays]_vars
    <2>1. SUFFICES ASSUME IInv, [Next]_vars PROVE Stays
        OBVIOUS
    <2>2. TypeOK
        BY <2>1 DEF IInv
    <2>3. QED
        BY <2>1, <2>2, StepCases
           DEF vars, ours, TabStart, TabChecks, TabPostsInVain, TabRecords,
               TabFails, TabPosts, VerifyAsks, VerifyRecords, RecoverAsks,
               RecoverBinds, RefreshBegins, RefreshAsksMoney,
               RefreshAsksChecks, RefreshWrites, InspectAsks, InspectWrites,
               CallFails, VerifyBegins, RecoverBegins, InspectBegins,
               ChangeMethod, Cancel, Touch, PrepareIntent, OpenReview,
               CloseUnpaid, Complete, Correct, IssueByHand, BankMoves,
               ChecksMove, Payable
<1>2. QED BY <1>1, Invariance, PTL DEF Spec, BindingsStay
=============================================================================
