# Verification of sc-be

sc-be is the backend of a barbershop chain: a FastAPI application over
PostgreSQL with bookings, customer messaging, a shop with inventory, payments
and fiscal receipts. Its correctness rests less on any one request than on what
several processes do to the same rows: API handlers, background workers and
callbacks of providers run concurrently, die, retry and arrive late. This
directory holds TLA+ models of those parts, TLC runs that check them on small
instances and TLAPS proofs about them for every instance.

Run everything from this directory:

    tlc -workers 2 -config SmsQueueTakeover.cfg MCSmsQueue
    tlc -workers 2 -config ShopStockRivals.cfg MCShopStock
    tlc -workers 2 -config WaitCalendar.cfg MCWaitlistOffers
    tlc -workers 2 -config CampaignCap.cfg MCCampaignRuns
    tlc -workers 2 -config OnlinePayment.cfg MCOnlinePayment
    tlapm SmsQueueSafety.tla
    tlapm ShopStockBalance.tla
    tlapm WaitlistProofs.tla
    tlapm CampaignProofs.tla
    tlapm OnlinePaymentProofs.tla

`tlapm` checks the module it is given; `SmsQueueProofs`, `ShopStockProofs` and
`ShopStockLines`, which two of these extend, are checked by a call of their own.

`PROJECT.json` lists the components, runs, mutants, theorems and hazards, and
maps every definition to the source lines it stands for.

## 1. Inventory of the system

Paths are relative to `src/app/` unless they say otherwise. The services hold
the logic (about 36,000 lines in 97 files); routes, schemas and models are thin,
except for the booking routes, which hold the edits of a visit.
All of them use one async SQLAlchemy session per request or job, READ COMMITTED
transactions and explicit row locks (`SELECT ... FOR UPDATE`).

| Component | State it keeps | Operations | What makes it correct |
|---|---|---|---|
| Durable SMS queue (`services/sms_queue.py`, `sms.py`, `sms_queue_scheduler.py`) | `sms_queue_jobs` rows: status, attempts, lease, transport start, payload, outcome and projection marks; one throttle row | enqueue, claim, recover, admit, call the provider, finish, poll delivery, project the outcome, cancel | a message leaves at most once; the row never lies about it; outcomes reach the business rows; every job ends |
| Campaign runs (`campaign_runs.py`, `campaign_dispatch.py`) | campaign and run status, recipients with send reservations, Telegram attempts | launch, snapshot, send, eligibility, final gate, outcome callback, reconcile, retry, cancel | a customer gets one marketing message per window over all runs and channels; reports are true; a run closes with its last recipient |
| OTP and transactional SMS (`customer_auth.py`, `sms_notification_queue.py`, `booking_sms_notifications.py`) | codes, notification rows | issue, replace, expire, outcome callback | an expired or replaced code is not sent |
| Shop orders (`order.py`) | `orders`, `order_items`, the reservation side of `inventory_movements` | create, confirm, cancel, complete | a reservation is owned by exactly one line and released or shipped once |
| Inventory (`inventory.py`, `inventory_receipt_changes.py`) | `products.stock_quantity` and `reserved_quantity`, receipts with lots and allocations, counts, movements | procurement, receipt drafts, posting, corrections, manual operations, counts | reserved never exceeds stock; lines get what they asked for; a lot covers what it gave |
| Shop sales (`shop_sales.py`) | payment confirmation, fulfilment fact, completion | payment, handover, completion | facts in order, none on a closed order |
| Payment resolutions (`shop_payment_resolutions.py`) | cases with observations, closures, finalizations | open a review or paid cancellation, observe, finalize | goods frozen while open; a paid order is cancelled only with a refund |
| Parcel returns (`shop_np_returns.py`) | cases, receipts, closures | attach, refresh, inspect, close, claim | goods of a parcel come back once |
| Till and counter (`local_sales.py`, `fiscal_returns.py`, `mock_cod.py`, `shipments.py`, `shop_carrier_returns.py`) | payments, handovers, returns | payment, handover, restock | no restock beyond the shipment |
| Online payments (`shop_payments.py`, `shop_online_payment.py`, `shop_mono_checkbox.py`, `mono_checkbox_poll.py`, `monobank_provider.py`) | requests, intents with the bound invoice, evidence, receipts, observations | start, change method, prepare an intent, verify, recover, refresh the receipt, poll | one invoice asked for per order; money recorded once, where it is; a closed order hears of late money; money and receipt arrive |
| Fiscal receipts (`fiscal*.py`, `shop_fiscal.py`, `shop_checkbox.py`, `checkbox_provider.py`) | registers, shifts, operations with unknown outcome | sale, return, close, look up | one receipt per fact; a shift closes settled |
| Bookings (`services/booking.py`, `api/v1/routes/bookings.py`, `telegram_inbox.py`, `master_availability.py`) | the backend's own calendar: bookings, availability windows, time blocks, redirects between masters | create, confirm, move, cancel, archive, open and close windows, block, redirect | no slot sold twice; a hold is respected by everybody else |
| Waitlist (`waitlist.py`, `waitlist_offers.py`) | requests, offers with expiry and SMS jobs, freed slots in memory | offer, send when due, project, claim, expire, poll, cancel | a slot has one open offer; a request is on offer exactly while it has one; closed stays closed |
| Telegram (`telegram_*.py`, `master_notifications.py`, `master_schedule_reminders.py`) | inbox, delivery attempts, funnels | receive, send, recover | one send per key, one effect per update |
| Email and checkout reminders (`brevo*.py`, `checkout_reminder*.py`) | reminders with fences | schedule, send, bind to an order | no reminder after the order |
| Background workers (`core/background_workers.py`) | an advisory lock, tasks | acquire, heartbeat, stop | one owner runs the schedulers |
| Catalog, promotions, content, segments, statistics, reviews, rewards, point of sale, customers, delivery directory | their own tables, caches | CRUD, queries | no protocol between processes |

How they interact: every sender of SMS puts a job into the queue and registers
an eligibility and an outcome callback, which the queue calls without holding
its locks; cancelling a campaign run changes jobs from outside. A cancelled or
moved visit hands its slot to the waitlist by a task in memory; a waitlist offer
is a message in the queue, then a hold in the calendar. Shop orders,
receipts, returns and resolutions share the product rows and the movement
ledger; database triggers of the migrations 0122 to 0128 guard orders, goods
and money beside the Python code. Providers (SMSClub, Monobank, Checkbox, Nova
Poshta, Telegram) are called between transactions.

The hard behaviours: leases that end while their worker still works, commits
whose acknowledgement is lost, provider calls with unknown outcome, callbacks
for an outcome that changes meanwhile; checks made before the lock they need, and
rows read before a lock that the session returns again after it; orders,
receipts and counts that decide on one stock figure; documents drafted against
a state that is gone when they are posted; several workflows that may put the
same goods back, or end the same offer.

## 2. Modules

| Module | Stands for |
|---|---|
| `SmsQueue` | `SmsQueueService` with its workers, the provider and the clock |
| `SmsDelivery` | what the queue promises of one message: the abstract specification |
| `SmsQueueInv` | the inductive invariant of `SmsQueue` |
| `SmsQueueProofs` | type correctness |
| `SmsQueueSafety` | the invariant, the safety properties and the refinement `SmsQueue => SmsDelivery`, proved |
| `MCSmsQueue` | small queues for TLC |
| `ShopStock` | orders, receipts, counts, manual operations and returns over the shared stock |
| `ShopStockShelf` | the same beside the goods that really lie on the shelf |
| `StockPromise` | what the shop promises of its stock: the abstract specification |
| `ShopStockInv` | the inductive invariants of `ShopStock` and its refinement mapping to `StockPromise` |
| `ShopStockProofs` | lemmas about sums of quantities; the stock invariant, type correctness and no overselling, proved |
| `ShopStockLines` | the invariant of orders and lines and the properties that follow, proved |
| `ShopStockBalance` | reservations against movements, lots against lines, and the refinement `ShopStock => StockPromise`, proved |
| `MCShopStock`, `MCShopStockShelf` | small shops for TLC |
| `BookingCalendar` | the masters' calendars: bookings, windows, blocks, redirects |
| `WaitlistOffers` | the waitlist composed with the calendar and with the SMS queue's contract |
| `WaitlistProofs` | invariants of both, proved |
| `MCWaitlistOffers` | small salons for TLC |
| `CampaignRuns` | campaigns over Telegram and over the SMS queue's contract |
| `CampaignProofs` | its invariant and its safety properties, proved |
| `MCCampaignRuns` | a small campaign for TLC |
| `OnlinePayment` | the online payment of one order beside the bank: checkout tabs, staff, the poll, the review of an invoice |
| `OnlinePaymentProofs` | its invariant and its safety properties, proved |
| `MCOnlinePayment` | one order and two invoices for TLC |

### SmsQueue

State: `row` (the `sms_queue_jobs` rows), `gate` (the account row), per worker
the transaction of `process_one` it is at (`pc`), its job, verdict and provider
call; the projection (`todo`, `seen`, the advisory lock `lock`, and `view`, the
outcome of each job its business callback last committed); and the provider's
side (`posts`, `late`, `taken`), which no code reads.

One action per transaction of the code, because everything between two commits
may interleave: `ClaimJob` and `ClaimNone` (recovery of stale claims, selection
and claim in one transaction, `sms_queue.py:322-354`), `Scan` and the
`Project...` actions (the idle scan of outcomes and the callback in its own
transaction, 266-312), `Eligibility` (the callback without lock), `Admit`,
`Refuse` and `AdmitUnacknowledged` (the admission under the gate, 511-583, and
its lost acknowledgement), `Answer` (what `SmsService` makes of the provider's
reply, `sms.py:167-229`), `Finish` and `FinishLost` (585-662), `CancelUnsent`
(`campaign_runs.py:902-921`), `Enqueue`. `Crash` ends a worker at any step and
`LeaseEnds`, `BecomesDue`, `Expires`, `BackoffEnds` and `GateOpens` are the
comparisons of the code with the clock: time only moves rows to the other side
of them. `ProviderAccepts`, `ProviderRejects` and `LateDecision` are the
provider: a request whose sender stopped waiting may still be taken.

A claim's token is the worker that took it. `skip_locked`, the batch limit of
the idle scan, the order of equal priorities and message bodies are abstracted;
`payload` only says whether phone and body are still in the row. A status poll
is a job whose operation is a receipt of a send.

`SmsDelivery` says of each message where it really is (idle, flying, taken) and
what the queue reports of it. A request flies only while the report is open; the
report is closed once and truthfully; later only receipts correct it.

### ShopStock

Every operation is one transaction that locks the rows it decides on (receipt
or count, order items, order, products, in this order) until it commits. So an
operation is one action and a refused operation is none. The triggers of the
migrations appear as guards of the actions they guard: `Receivable` (goods
frozen under a resolution), `ReturnOpened` (no money, handover or completion
after a parcel return), `Unowned` (a manual return beside a canonical one).

State: `stock` and `reserved` per product, `order` with its status, channel,
payment, handover and the workflow that owns it, `item` with the quantity
taken from stock and received, `ledger` (the movements of each line summed by
kind, which is what `validate_owned_reservations` and the returns read),
`receipt` with its lots and allocations, `count`, and `stirred`: the products
that had an outflow or a new reservation after a receipt's movements, which is
what a correction looks for (`inventory_receipt_changes.py:134`).

| Actions | Code |
|---|---|
| `CreateOrder`, `Confirm`, `Cancel` | `order.py` `create_order`, `update_status` |
| `RecordPayment` | `shop_sales.py:528-578`, `shop_payments.py` `record`, `local_sales.py:199-207` |
| `HandOverAtTill` | `local_sales.py:190-198` with `update_status` and `apply_handover_inventory` |
| `HandOverShop`, `CompleteShop` | `shop_sales.py:579-638` |
| `OpenResolution`, `FinalizeResolution` | `shop_payment_resolutions.py:249-278`, `334-362` |
| `ReceiveReturn` | `fiscal_returns.py:240-262`, `mock_cod.py`, `shop_carrier_returns.py:566-600`, `shop_fiscal.py:698-725`, `shop_checkbox.py:1016-1044` |
| `AttachParcelReturn`, `InspectParcel`, `CloseParcelReturn` | `shop_np_returns.py:380-456` |
| `MarkOrdered`, `CreateReceipt`, `AddReceiptItem`, `PostReceipt` | `inventory.py:319-758` |
| `EditDraft`, `DeleteDraftItem`, `CorrectReceipt` | `inventory_receipt_changes.py:88-217` |
| `ManualReceipt`, `ManualReturn`, `WriteOff` | `inventory.py:760-882` |
| `CreateCount`, `SetCountItem`, `PostCount` | `inventory.py:909-1096` |

These are all the places in the code that write `stock_quantity` or
`reserved_quantity`.

Abstractions to know: receipt lines are the fixed set `Lots`, one per product
and lot; whether an invoice was issued shows only in which of `Cancel` and
`OpenResolution` succeeds, so both are possible; revisions, idempotency keys
and provider proofs only refuse operations and are left out; a paid parcel
return ends in `CloseParcelReturn` with its status unchanged; the till may
cancel an order that has a payment (`update_status` checks payments for the
shop channel only), so `PaidCancellationRefunded` speaks of shop orders.

`StockPromise` is what is left when lines, movements, receipts, counts, payments
and resolutions are forgotten: of each product some units are free, and each
order is promised some. An order takes free units once (`Make`), may get more as
goods come in (`Cover`), and loses them all at once and for good, back to the
free ones (`Release`) or to its customer (`Ship`); everything else moves free units
only (`Adjust`). The mapping in `ShopStockInv` reads the free units off the
product row (`Available`), the promise off the movements (what they leave each
line) and the fate of an order off its status and fulfilment, three records that
different code writes.

`ShopStockShelf` adds `shelf`, the units that are there: a booking moves goods,
a scan records what is seen, and posting a count moves nothing.

### BookingCalendar and WaitlistOffers

Every writer of a calendar locks the row of the master before its conflict
query (`ensure_slot_available`, `booking.py:1023-1065`) and keeps the lock to its
commit, so it is one action. What is decided before that lock is an action of
its own: a master's edit of a visit reads the windows and waits (`BeginEdit`,
then `CommitEdit` or `RefuseEdit`), and a change of a redirect is checked and
committed without any lock (`CheckRedirect`, `CommitRedirect`).

State: `booking`, `window`, `block` and `redirect` are the tables; `edit` and
`change` what waiting requests have in hand; `offer` an offer with its SMS job
(`job`), whether an outcome of it is not yet projected (`owed`) and whether its
expiry has passed (`lapsed`); `freed` the slots handed to background tasks;
`request` the waitlist requests; `claiming` and `polled` the claims and delivery
polls that have read an offer and not written yet.

| Actions | Code |
|---|---|
| `Create`, `AdminConfirm`, `AdminMove`, `SetStatus`, `Archive` | `booking.py:1144-1268`, `routes/bookings.py:1918-2102`, `booking_completion.py`, `booking_archive.py` |
| `BeginEdit`, `CommitEdit`, `RefuseEdit` | `routes/bookings.py:1098-1227` |
| `CustomerMove`, `Cancel` | `telegram_booking_management.py`, `customer_activity.py:241-281`, and the routes' cancellations |
| `OpenWindow`, `CloseWindow`, `AddBlock`, `DropBlock` | `booking.py:1270-1356` and their routes |
| `CheckRedirect`, `CommitRedirect` | `routes/bookings.py:378-494`, `1445-1494` |
| `Ask`, `CancelRequest`, `ExpireRequest` | `waitlist.py:64-244` |
| `OfferSlot`, `DropSlot` | `waitlist_offers.py:407-681` |
| `SendDue`, `RefuseDue` | `send_due_offers`, 683-775 |
| `Project` | `sms_notification_queue.py:39-83` |
| `ExpireHold`, `Poll`, `Sync` | 169-230, `sync_delivery_statuses` 777-900 |
| `ReadClaim`, `Claim`, `RefuseClaim`, `LateClaim` | `claim`, 902-1116 |
| `EndJob`, `Lapse` | the SMS queue's contract; the clock |
| `Restart` | tasks, unfinished requests and reads are in memory |

`MaxStale` is how many claims of an offer (and whether a poll) may hold an old
copy of the row. The locked read of `claim` (951-957) has no `populate_existing`,
so the session returns the row it loaded before the lock: with `MaxStale = 1` the
claim decides on that copy, as the code does; with `MaxStale = 0` reading and
deciding are one step, which is what the properties of offers need (section 6).

Time is a slot's position on a short day; only the future part of a calendar
exists. Services, prices, consents and quiet hours do not change within an
instance; whether a message is deferred, and whether the public master still
offers the services, are inputs of the steps that ask.

### CampaignRuns

One action per transaction. `send_recipient` is split where it commits around
its call to Telegram (`Reserve`, `Post`, `Answer`, `Record`, or `FallBack` to SMS,
with `SenderDies` in between); the SMS queue is used through what `SmsQueue` shows
of it (`Claim`, `Eligibility`, `Admit`, `Finish`, `Recover`, `Receipt`), and its
projection is read and written apart (`ProjectRead`, `ProjectWrite`,
`ProjectFail`), because everything may change in between.

| Actions | Code |
|---|---|
| `SetStatus`, `OptOut` | `routes/messaging.py:2904-2998`, `messaging.py:463-482` |
| `Launch`, `ProcessDueRun` with `Snapshot` | `campaign_runs.py:389-588` |
| `RetryFailed` | `messaging.py:1380-1434` |
| `CancelRunUnsent` | `campaign_runs.py:902-922` |
| `Enqueue`, `Reserve`, `SkipRecipient`, `SkipCancelled`, `FallBack`, `Record` | `send_recipient`, 745-885 |
| `Post`, `Answer` | `telegram_delivery.py:28-94` |
| `ReconcileAccepted`, `ReconcileStale` | 608-639 |
| `Eligibility`, `LateEligibility`, `Admit` | `campaign_dispatch.py:71-232` |
| `ProjectWrite` | `sms_job_outcome`, 234-315 |
| `Claim`, `Finish`, `FinishDeclined`, `Recover`, `Receipt` | `sms_queue.py` |

`provider` says what was really done with a message on each channel: nothing,
taken, or open, which is a request whose answer nobody knows. `stale` counts
eligibility calls whose lease was taken from them and that still run
(`LateEligibility`); `MaxStale` bounds them. `Completed` closes a run with its last
pending recipient, as `_complete_run_if_finished` does under the lock of the run.

Abstractions to know: days do not pass, so every contact stays in the frequency
window; the sending window, throughput limits and conditions of the audience are
open choices of the steps that ask them; no sender outlasts the fifteen minutes
that `reconcile_interrupted_sends` waits; `CancelRunUnsent` runs two statements, and
rows that other transactions commit between them may be missed, which the set
`missed` over-approximates; the campaign status completed stops sending as
draft does and is left out.

### OnlinePayment

One order whose customer pays online. No transaction spans a call to the bank:
`start`, `verify`, `recover`, `refresh` and `inspect` read the order, ask the bank, lock
the order again and go on if the revision they began with is still current. So
each has an action that begins it, one or two that ask, and one that writes.

State: `order` with its status, its method, whether it has an intent and an
online request; `bound`, `fix` and `payment`, the first candidate, its correction
and the invoice of the recorded evidence; `review` (the case with what was seen
of each invoice, and the invoices under a financial exception); `receipt`; how far
each checkout `tab` has come; the `call`s in flight and what they saw; and
outside the program `posts`, `bank` and `checks`.

A revision is only compared with one read before, so the model keeps none: a
call whose revision is gone can only fail, and the action that raises the
revision ends it (`Bump`, `BumpCase`). What is compared with the revision, and what
is not, is the point: `before_dispatch` and the answer of `invoice/create` do not
look at it, `VerifyBegins` binds without raising it, an inspection is pinned to
the revision of its case instead.

| Actions | Code |
|---|---|
| `TabStart`, `TabChecks`, `TabPosts`, `TabPostsInVain`, `TabRecords`, `TabFails` | `shop_online_payment.py` `start`, 327-426 |
| `ChangeMethod`, `Cancel`, `Touch` | `change_method`, 295-324; `order.py:342-356`; confirmations, shipments, documents, the handover |
| `PrepareIntent`, `VerifyBegins`, `VerifyAsks`, `VerifyRecords` | `shop_payments.py` `command`, 213-326 |
| `RecoverBegins`, `RecoverAsks`, `RecoverBinds` | `recover`, 438-483 |
| `RefreshBegins`, `RefreshAsksMoney`, `RefreshAsksChecks`, `RefreshWrites` | `shop_mono_checkbox.py` `refresh`, 253-341 |
| `Complete` | `shop_sales.py:621-638` |
| `OpenReview`, `InspectBegins`, `InspectAsks`, `InspectWrites`, `Correct`, `CloseUnpaid` | `shop_payment_resolutions.py` `command`, 214-362 |
| `PollVerifies`, `PollRefreshes` | `mono_checkbox_poll.py` `poll_once`, 44-87 |
| `IssueByHand`, `BankMoves`, `ChecksMove` | Monobank and its Checkbox |

Abstractions to know: amounts, currencies and time windows always match, so a
proof fails on the reference, on the status or not at all; an answer that proves
nothing is `pending`; `unpaid` stands for created, processing, failed and expired,
none of which is final; `review.seen` keeps the latest status of an invoice, as the
trigger `validate_shop_resolution_observation` refuses older ones.

## 3. What the runs check

All runs check deadlock: idle workers still poll, a shop can always book, a
window can always be opened or closed, a campaign can always be paused.

| Run | Instance | Question |
|---|---|---|
| `sms_takeover` | one send, two attempts, two workers, fair | Over crashes, lease ends, retries, late requests: sent at most once (`SendOnce`), the row tells the truth (`HonestOutcome`), attempts bounded (`RetryBudget`), no callback for a claimed job and no retry before its projection (`CallbacksInOrder`), refines `SmsDelivery` (`Delivers`), every durable job ends (`JobsSettle`), every outcome is projected (`OutcomesProjected`) |
| `sms_receipts` | a send and two status polls | contradicting receipts change no settled outcome (`TerminalIsFinal`), outcome and business rows agree (`ProjectionFaithful`), bodies are erased at the end (`PayloadErased`), claims stay within the limit (`ClaimsBounded`) |
| `sms_overrun` | two sends, concurrency one | violated: `ProviderConcurrency`, see section 6 |
| `stock_rivals` | two orders of one line for one product, one receipt of two lots | what one line is promised no other gets (`NoOversell`, `ReservedIsOwned`, `LineOwnership`), a lot covers what it gave and lines received what lots gave (`AllocationsCovered`), refines `StockPromise` (`Promises`) |
| `stock_receipts` | one order line of up to two units, two receipts, one count, returns | drafts of the same missing units do not both arrive for the line (`ProcurementExact`), a correction takes nothing that moved on (`UnstirredLotsIntact`), parcel goods come back once (`ParcelReturnsOnce`), a paid order is cancelled only with a refund (`PaidCancellationRefunded`), a resolution freezes goods (`GoodsFrozen`) |
| `stock_shelf` | one order line, one receipt, one count | violated: `OnHandIsPhysical`, see section 6 |
| `wait_calendar` | one master, two visits, one request, intervals that overlap in part, a stale claim and a stale poll | visits never overlap (`NoDoubleBooking`) and nobody else gets a live hold (`HoldsRespected`), whatever order edits, moves and claims commit in |
| `wait_holds` | two requests for one slot, two visits, restarts | `OneOfferPerSlot`; a request is on offer exactly while it has an open offer (`OfferedExactly`); closed requests stay closed and are booked only by a live hold (`ClosedStaysClosed`) |
| `wait_decided` | two masters with a redirect, one visit, one request, restarts, fair | every offer ends, except one whose message is uncertain (`OfferDecided`) |
| `wait_claim_race` | one hold, one claim that waits for its locks | violated: `ClaimsLiveHold`, see section 6 |
| `campaign_cap` | two runs reaching one customer, one over Telegram with SMS to fall back on, one stale eligibility call, fair | one marketing message per window over runs and channels (`FrequencyCap`), reports are true (`ReportsHonest`), runs close (`RunsClose`), skipped stays skipped (`SkippedStays`), a pause, a cancellation or an opt-out stops what has not started (`StopsAreHeard`), what a provider accepted is reported (`AcceptedIsReported`) |
| `payment_online` | one order, the invoice of its reference and a paid one of another order, two tabs, one member of staff, fair | one `invoice/create` (`OnePost`); recorded money is there and its order paid (`EvidenceStands`); a closed order hears of late money (`LateMoneyHeard`); no receipt is accepted after its return was seen (`NoReceiptAfterReturn`); candidate, correction and payment are never replaced (`BindingsStay`); money and receipt arrive (`MoneyRecorded`, `ReceiptImported`) |

The bounds. Two workers are enough for a takeover, and a third would only
repeat it; two attempts let a retry follow a refund. A takeover needs one job,
the urgency order and the limit need two, receipts that contradict each other a
send and two polls. `sms_receipts` and `sms_overrun` use symmetries that no property
or fairness of theirs tells apart; `sms_takeover`, which has fairness, uses none.
Where a `VIEW` is set (`LiveView`) it hides the columns of a row that nothing
reads in its status. `sms_receipts` gives its polls no expiry (`PollsInTime`), the
one state constraint.

In the shop, two orders make a race for one product, two receipts a race for
one line, two lots merged and split plans; quantities up to two let a line be
half from stock and half received; `MaxStock` leaves one unit more than any
line wants, so that free stock, reserved stock and none all occur. `MaxStock`
and `MaxQuantity` are the only bounds of `ShopStock`. `SmsQueue` needs none:
`MaxAttempts` is a setting of the code (1 to 10).

In the salon, two visits are what an overlap needs, a slot of one hour inside a
slot of two gives partial overlap and released remainders, two requests make a
race for one slot, and two masters a redirect. `EditKinds`, `WindowSlots` and
`BlockSlots` say which edits, windows and blocks an instance uses; what one
leaves out another has. `MaxStale` is the bound on old copies of rows. In the
campaign two recipients of one customer are what the cap is about; the second
has both channels. `StatusChanges` leaves out the way back to draft, which stops
dispatch as paused does; `MaxStale = 1` lets one eligibility call outlive its
lease at a time.

In the payment, two tabs make a race for the one request, and the foreign
invoice is what staff can bind by mistake and the review corrects. With one
member of staff a verification meets the poll and the tabs; two at once, and two
invoices of the order's own reference (which take an operator who issues one by
hand), make the liveness check too large. The safety properties were checked
on two own invoices as well and are proved for any number of invoices, tabs and
staff.

Each property of a passing run has a mutant in its module: an operator that
changes one definition the way a plausible bug would (a dropped guard, a missing
reset, a swapped order). Put in the place of the definition it breaks the
property in that run.

Fairness. Four runs assume any.

- `sms_takeover`: the scheduler polls forever (`sms_queue_scheduler.py:12-29`), so a
  worker that can take its next step takes it (weak fairness of `Work` and
  `Project` per worker) and the clock moves on. The oldest outcome without
  projection is scanned first and a callback that fails is retried with a
  backoff; that it succeeds in the end is strong fairness of the scan and of the
  projection of each job, and it is an assumption about the callback. Workers
  may still crash at any step, any number of times.
- `wait_decided`: the offer scheduler (`waitlist_offers.py:1137-1149`) expires due
  holds and sends due offers again and again, the queue ends its jobs
  (`JobsSettle`) and projects them (`OutcomesProjected`), and time passes. Nobody has
  to claim, cancel or poll, and the process may restart at any moment.
- `campaign_cap`: the campaign scheduler reconciles whatever the status of the
  campaign (`campaign_run_scheduler.py:15-26`): weak fairness of
  `ReconcileAccepted` and `ProjectRead`. Strong fairness of `ProjectWrite` says that
  not every callback fails. No sender, no claim and no administrator has to move.
- `payment_online`: `run_mono_checkbox_scheduler` polls forever and one pass at a
  time holds the advisory lease, so strong fairness of `PollVerifies` and
  `PollRefreshes` and weak fairness of the end of its calls. That the bank answers
  the poll now and then, and that such a pass is not interrupted every time by a
  change of the order, is strong fairness of its reading and writing steps: an
  assumption about the bank and the shop. Customers and staff need not move.

## 4. What is proved

The theorems hold for every value of the constants: any finite sets of jobs,
workers, products, orders, lines, lots, receipts and counts, any quantities, any
masters, visits and intervals, any runs, customers and recipients, any invoices,
tabs and staff. They rest on
the assumptions the modules name: in `SmsQueue` finite sets of jobs and workers
and settings of at least one; in `ShopStock` (`StockAssumption`) finite sets of
lines, lots and receipts, and no two lines of an order with one product, which
`create_order` refuses; in `BookingCalendar` intervals that begin before they end
(`CalendarAssumption`); in `CampaignRuns` that a recipient has one run and one
customer and that there are finitely many; in `OnlinePayment`
(`PaymentAssumption`) that the order's invoices are invoices. The bounds on quantities are
part of the specification, for every value of `MaxStock` and `MaxQuantity`, and so
is `MaxStale`.

**SmsQueue.** The properties are not inductive: whether a message may be sent
again depends on where the worker that sent it is. `SmsQueueInv` relates the
step of each worker to the row it claimed. `Transport`: a worker in transport
owns its started claim, unless recovery took it, which leaves a send uncertain,
and it is the only one with a request for the job. `Report`: what the owner of a
claim is about to write agrees with the provider. `Budget`: attempts count
requests, one more while a claim has not made its own. `Projections`: the
advisory lock has one holder, who is projecting an outcome nobody else can mark,
and the job cannot be claimed meanwhile. `SmsQueueProofs` proves types,
`SmsQueueSafety` this invariant and from it `SendOnce`, `HonestOutcome`,
`RetryBudget`, `ProjectionFaithful`, `PayloadErased`, `TerminalIsFinal`,
`CallbacksInOrder` and `ClaimsBounded`, and at last that every step is one step
of `SmsDelivery` or a stutter: `FateSteps` lists what a step does at the provider,
`MoveSteps` puts what it does to the row beside it.

**ShopStock.** `Total(S, f)` is the number of units the lines of `S` stand for,
a cardinality, so the proofs need no recursion; `ShopStockProofs` begins with the
lemmas (a sum over one line, over none, over a subset, of equal functions).
`StockInv` is the types, `NoOversell` and `LotsMatch`: a lot is allocated only
to lines of its product. The last is what the hard case needs, `PostReceipt`,
where the units reserved must not exceed the units that arrived: the
reservation sums the allocations per line, the guard of the code per lot, and
the lemma `PlannedCovered` exchanges the two by counting the same units twice.
Releases and shipments keep stock above its reservations because `ReleaseLines`
and `ShipLines` check the product figures as the code does. `ShopStockLines` adds
`OrderInv` (which facts of an order go together) and `LineInv` (what a line may
own, hold and have shipped at each of them), and derives `LineOwnership`,
`ProcurementExact`, `ParcelReturnsOnce`, `PaidCancellationRefunded`,
`ClosedIsFinal` and `GoodsFrozen`. TLC was first run on the same invariants.

`ShopStockBalance` proves what relates two records of the same goods. That a
product reserves what its lines own by their movements (`ReservedIsOwned`) is
inductive beside `ShopInv`: every operation changes both by the same sum over
the lines of the product, and where an operation takes what a line *holds* (from
stock, or received) `LineInv` says that this is what it *owns*. `AllocInv` says that
what a lot gives comes with it (`Fits`), that a line received what posted receipts
gave it (`Given`), and that a line nobody ordered received nothing. The last part
looks idle but carries the second: `CreateOrder` resets what a line received, which
agrees with receipts only because none was posted for it before. The invariant
needs all receipts to be finitely many, since `Given` counts over them; hence that
assumption. `AllocationsCovered` follows. `UnstirredLotsIntact` is inductive relative
to `StockInv` as it stands: an operation that lowers the free units of a product
writes the movement row a correction looks for (`Stir`), or reserves no more than
the same posting brought, and the lemmas `Rises...` show one by one that no other
lowers them. `PromisesKept` is the refinement: `ShopInv` gives the facts of an order
that decide its fate, and of each operation a lemma says which promises it makes,
covers, releases or ships. It yields, for every shop, that what an order was
promised is never lessened by another order, a receipt, a count, a correction or a
write-off. `ClosedIsFinal` is proved and no run checks it any more: the fate of an
order ends once in `StockPromise`, and the theorem says the rest.

**BookingCalendar and WaitlistOffers.** `EditHoldsRow`: while a master's edit
waits, its visit is not cancelled, moved or archived by anybody else, because the
edit has its row; so what it commits is what it checked. `SeatIsFree` says what a
step may do to the seats: a visit that becomes confirmed, or moves, does so
into an interval that is `Free` of everything but what it replaces; the lemma
`StepSeats` shows it of every action. From the two follow `NoDoubleBooking` and
`HoldsRespected`, for stale claims and polls as well: the interval is checked
under the lock even where the offer is not.

`Agreed` ties offers to requests: a request is on offer exactly while it has an
open offer, it has one at most, a slot has one at most, and no copy of a row is
old. It is inductive only under `MaxStale = 0`, which `OffersAgree`,
`RequestsOnOffer` (for `OfferedExactly`) and `ClosedRequestsStay` assume: with stale
claims they are false of the code (section 6). `RequestEffect` lists what a step may do to the requests, and
`ClosedStaysClosed` is read off it.

**CampaignRuns.** The cap is not inductive: whether a customer was contacted
is a matter of what the providers did, and the code only sees its rows.
`AllConsistent` relates, for each recipient, the row, the Telegram attempt and
its sender, the job and what a projection has read of it, and the provider: a
message that may have been taken has a reservation or a sent row on top of it.
`OneReserved` says that a customer has at most one recipient that is reserved
or sent; late eligibility calls keep it because they ask the same question under
the same locks. `FreshRuns` (a run that has not begun has no rows) carries the
snapshot. With types and `RunsClose` these are `IInv`; `ContactIsReserved` then
gives `FrequencyCap`, and the rest follow from it. `RunsAreClosed` holds for runs of
any size, where the instance of `campaign_cap` has one recipient in each.

**OnlinePayment.** What the order says is not enough: whether a second request
can be sent depends on the starts in flight, and whether an answer may be
written on what was true when it was read. `OneStart`: one start at most is past
the request, and nothing was sent before it asks. `Flying`: money a verification
saw is still there but for a reversal. `Returns`: a return once observed is real,
and no refresh in flight carries the receipt before it, because writing the
return raised the revision. `Intended` says that an intent comes before a request,
a candidate and a review. With types, `EvidenceStands` and `LateMoneyHeard` these
are `IInv`, which gives `OnePost` and `NoReceiptAfterReturn`; `BindingsStay` follows
from it step by step.

TLC checks only parts of these invariants as properties; types are proved, not
run; the module comments say what each part is for.

Every safety property and every refinement the passing runs check is a theorem.
Only model-checked are the six liveness properties `JobsSettle`,
`OutcomesProjected`, `OfferDecided`, `AcceptedIsReported`, `MoneyRecorded` and
`ReceiptImported`: the prover reaches neither fairness nor ENABLED.

## 5. Not modelled

The components marked so in `PROJECT.json`, with reasons. Within the modelled
ones:

- Shop: purchase costs, promotions, prices, fiscal checks and documents; replay
  of idempotent requests; orders without a channel from before the shop existed;
  simulated orders with mock parcels, which complete unpaid
  (`shipments.py:215-230`) and exist only in sandboxes; the case of a resolution
  with financial exceptions, which stays open; changes of `allow_backorder`.
- Calendar: services, durations and prices of a visit, promotions, repeat-visit
  offers, the search for free slots and alternatives, which only reads; pending
  bookings, which occupy nothing; deleting a master.
- Waitlist: ranking of the candidates beyond who is eligible, consents, the
  text of the messages, quiet hours other than as an input.
- Campaigns: the evaluation of an audience, the sending window and throughput,
  the promotional offers issued with a run (`campaign_offers.py`), analytics.
- Online payments: the settlement of cash on delivery, QR payments, the masters'
  own invoices (`master_mono.py`), the presentation of the payment page,
  permissions and configuration; that an invoice belongs to one order only
  (`guard_shop_invoice_identity`), as the model has one; a receipt whose id
  differs from the imported one; paid cancellations, which are in `ShopStock`.
- OTP codes, Telegram's inbox and funnels, fiscal registers, checkout reminders
  and the ownership of background workers are protocols worth modelling that are
  left for later.

## 6. Where code and documentation disagree

Shown by a run:

- `sms_overrun`: `docs/sms-queue-api.md:21` calls `SMS_QUEUE_CONCURRENCY` the
  maximum of simultaneous provider operations. The code counts rows in status
  dispatching (`sms_queue.py:330`). A worker that overruns its lease is closed
  as uncertain by recovery while its request is still in flight, and the next
  one starts: two operations under a limit of one. `ClaimsBounded`, the limit on
  live claims, is what the code keeps.
- `stock_shelf`: `docs/inventory-api.md:7` says that `on_hand` is the physical
  stock and that nothing overwrites it. Posting a count sets it to the quantity
  scanned earlier (`inventory.py:1066-1071`), so goods booked between the scan
  and the posting vanish from the books.
- `wait_claim_race`: the comment at `waitlist_offers.py:932-934` says that both state
  checks happen after the locks are held, so that a cancelled hold cannot be
  claimed. The offer was loaded by the unlocked lookup, the locked select has no
  `populate_existing`, and the session answers with the row it has: a claim that
  waited for a cancellation books the cancelled hold.

Met while modelling, without a run of their own:

- The same stale copy lets the second of two claims of one token, whose slot the
  first has booked, rewrite the claimed offer as cancelled and its request as
  active (`waitlist_offers.py:1013-1040`). `wait_holds` and the theorems about offers
  therefore assume `MaxStale = 0`.
- A hold counts in the calendar only once the provider has its message
  (`ACTIVE_HOLD_STATUSES`, `booking.py:506-525`). An offer whose message is uncertain
  stays pending (`sms_notification_queue.py:79`) and keeps no slot, although the
  customer may have the message; `OfferDecided` excepts it.
- `docs/no-slots-recovery-waitlist.md:132` says that a refused message passes the
  slot to the next request; the projection of a failed job cancels the offer and
  hands nothing on (`sms_notification_queue.py:72`).
- A change of a redirect reads the future state of a master and commits without
  a lock (`routes/bookings.py:413-472`), so a visit booked in between keeps the
  former master.
- An eligibility call that outlives its lease commits its reservation all the
  same, and the next claimant skips the recipient as already reserved
  (`campaign_dispatch.py:167`), although `docs/sms-queue-api.md:70` says that an
  abandoned claim that never reached transport is reclaimed. `FrequencyCap`
  holds, the message is lost.
- Success seen on one invoice of the order's reference before a payment on
  another is recorded raises no financial exception
  (`shop_payment_resolutions.py:303-305` asks for recorded evidence or a closing),
  although migration 0128 says that known contradictory or late money requires
  one; the payment raises none either. `LateMoneyHeard` therefore speaks of closed
  orders.
- A change of the order between the commit of an online request and
  `before_dispatch` (`shop_online_payment.py:387`) fails the start after its request
  is there: no invoice was asked for, and every later start replays the state. The
  way on is an invoice issued by hand, or the review.

## 7. Plan

Done, in this order: `SmsQueue` and `ShopStock`, each with its abstract
specification and proofs, the calendar and the waitlist, campaigns and the online
payment with their proofs. Next, most important first:

1. `FiscalRegister`: receipts with unknown outcome and the closing of a shift.
2. `TelegramInbox` and `CustomerOtp`: one effect per update; expiry and
   replacement of codes over the queue.
3. `ManualOperation`: the retry protocol of keyed operations
   (`inventory.py:809-882`) with lost answers.
4. `LockOrder`: the operations of `ShopStock` split at their row locks, no
   deadlock.
5. `WorkerOwnership`: the advisory lock, its heartbeat and the drain.
