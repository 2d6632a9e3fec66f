--------------------------- MODULE WaitlistOffers ---------------------------
(****************************************************************************)
(* The waitlist over the calendars: a freed slot is offered to one waiting  *)
(* request, the offer is sent through the durable SMS queue, becomes a hold *)
(* once the provider has the message, and is claimed, cancelled or expired. *)
(*                                                                          *)
(* The queue is used through its contract: a job ends accepted (and later   *)
(* delivered or failed), failed or uncertain, and the outcome is projected  *)
(* onto the offer afterwards.  Consent, services and quiet hours do not     *)
(* change here; whether the public master still offers the services is an   *)
(* input of each step that asks.                                            *)
(****************************************************************************)
EXTENDS BookingCalendar

CONSTANTS
    MaxStale,   \* claims, and polls, of an offer between their read and write
    Restarts    \* whether the process may stop between two steps

ASSUME WaitlistAssumption == MaxStale \in Nat /\ Restarts \in BOOLEAN

VARIABLES
    request,    \* WaitlistRequest.status
    claiming,   \* claims of each offer that have read it and wait for its lock
    polled      \* offers whose delivery status the provider was asked for

waitlist == <<request, claiming, polled>>
vars == <<calendar, offer, freed, waitlist>>

RequestStatuses == {"none", "active", "offered", "booked", "cancelled",
                    "expired"}
Waiting == {"active", "offered"}
Jobs == {"none", "queued", "accepted", "delivered", "failed", "uncertain"}

Req(o) == o[1]
Due(o) == offer[o].job = "none"     \* deferred to the end of the quiet hours

NoOffer == [status |-> "none", lapsed |-> FALSE, job |-> "none",
            owed |-> FALSE]

Init ==
    /\ CalendarInit
    /\ offer = [o \in Offers |-> NoOffer]
    /\ freed = {}
    /\ request = [r \in Requests |-> "none"]
    /\ claiming = [o \in Offers |-> 0]
    /\ polled = {}

Reset(f, r) == [f EXCEPT ![r] = IF @ = "offered" THEN "active" ELSE @]

\* The offer ends and its request waits again, unless it was closed meanwhile.
Close(o, status) ==
    /\ offer' = [offer EXCEPT ![o].status = status]
    /\ request' = Reset(request, Req(o))

-----------------------------------------------------------------------------
Ask(r) ==
    /\ request[r] = "none"
    /\ request' = [request EXCEPT ![r] = "active"]
    /\ UNCHANGED <<calendar, offer, freed, claiming, polled>>

\* Mutant: the offers of a cancelled request stay as they are.
CancelRequestOnly(r) ==
    /\ request[r] \in Waiting
    /\ request' = [request EXCEPT ![r] = "cancelled"]
    /\ UNCHANGED <<calendar, offer, freed, claiming, polled>>

\* cancel_request and expire_due_requests close the request with its offers;
\* only the first hands the slots on.
CloseOffers(r, status) ==
    [o \in Offers |->
       IF Req(o) = r /\ offer[o].status \in Open
       THEN [offer[o] EXCEPT !.status = status] ELSE offer[o]]

CancelRequest(r) ==
    /\ request[r] \in Waiting
    /\ request' = [request EXCEPT ![r] = "cancelled"]
    /\ offer' = CloseOffers(r, "cancelled")
    /\ freed' = freed \cup {Slot(o) : o \in {p \in Offers :
                        Req(p) = r /\ offer[p].status \in Open}}
    /\ UNCHANGED <<calendar, claiming, polled>>

ExpireRequest(r) ==
    /\ request[r] \in Waiting
    /\ request' = [request EXCEPT ![r] = "expired"]
    /\ offer' = CloseOffers(r, "expired")
    /\ UNCHANGED <<calendar, freed, claiming, polled>>

-----------------------------------------------------------------------------
\* offer_slot holds the master: the slot must have no open offer, a window and
\* nothing in the way.
Offerable(s) ==
    /\ \A o \in Offers : Slot(o) = s => offer[o].status \notin Open
    /\ Available(s) /\ Free(s, {}, {})

Eligible(o) == request[Req(o)] = "active" /\ offer[o].status = "none"

\* Mutant: a slot on offer is offered again.
OfferSlotTwice(o, deferred) ==
    /\ Slot(o) \in freed /\ Free(Slot(o), {}, {}) /\ Eligible(o)
    /\ offer' = [offer EXCEPT ![o] =
                   [status |-> "pending", lapsed |-> FALSE, owed |-> FALSE,
                    job |-> IF deferred THEN "none" ELSE "queued"]]
    /\ request' = [request EXCEPT ![Req(o)] = "offered"]
    /\ freed' = freed \ {Slot(o)}
    /\ UNCHANGED <<calendar, claiming, polled>>

\* The candidate is the best ranked request no other transaction has locked,
\* so any eligible one.  In the quiet hours the message waits.
OfferSlot(o, deferred) ==
    /\ Slot(o) \in freed /\ Offerable(Slot(o)) /\ Eligible(o)
    /\ offer' = [offer EXCEPT ![o] =
                   [status |-> "pending", lapsed |-> FALSE, owed |-> FALSE,
                    job |-> IF deferred THEN "none" ELSE "queued"]]
    /\ request' = [request EXCEPT ![Req(o)] = "offered"]
    /\ freed' = freed \ {Slot(o)}
    /\ UNCHANGED <<calendar, claiming, polled>>

\* A failed check, or nobody waiting, drops the slot.
DropSlot(s) ==
    /\ s \in freed
    /\ \/ ~Offerable(s)
       \/ \A o \in Offers : Slot(o) = s => ~Eligible(o)
    /\ freed' = freed \ {s}
    /\ UNCHANGED <<calendar, offer, waitlist>>

\* send_due_offers, of an offer that has no job yet.
SendDue(o) ==
    /\ offer[o].status = "pending" /\ Due(o) /\ request[Req(o)] \in Waiting
    /\ Available(Slot(o)) /\ Free(Slot(o), {}, {o})
    /\ offer' = [offer EXCEPT ![o].job = "queued", ![o].lapsed = FALSE]
    /\ UNCHANGED <<calendar, freed, waitlist>>

\* The slot is gone, or the master no longer offers the services; in the
\* second case the slot is offered to the next request.
RefuseDue(o, handOn) ==
    /\ offer[o].status = "pending" /\ Due(o) /\ request[Req(o)] \in Waiting
    /\ handOn => Available(Slot(o)) /\ Free(Slot(o), {}, {o})
    /\ Close(o, "cancelled")
    /\ freed' = IF handOn THEN freed \cup {Slot(o)} ELSE freed
    /\ UNCHANGED <<calendar, claiming, polled>>

\* The queue ends a job.  Its last gate lets only a pending, unexpired offer
\* of a waiting request out; a refused, cancelled or exhausted job fails.
Sendable(o) == /\ offer[o].status = "pending" /\ ~offer[o].lapsed
               /\ request[Req(o)] \in Waiting

EndJob(o, end) ==
    /\ \/ /\ offer[o].job = "queued"
          /\ \/ end = "failed"
             \/ Sendable(o) /\ end \in {"accepted", "uncertain"}
       \/ offer[o].job = "accepted" /\ end \in {"delivered", "failed"}
    /\ offer' = [offer EXCEPT ![o].job = end, ![o].owed = TRUE]
    /\ UNCHANGED <<calendar, freed, waitlist>>

\* sms_job_outcome.
Project(o) ==
    /\ offer[o].owed
    /\ LET status == offer[o].status
           told == [offer EXCEPT ![o].owed = FALSE]
       IN CASE offer[o].job \in {"accepted", "delivered"} /\ status \in Open ->
                 /\ offer' = [told EXCEPT ![o].status =
                       IF status = "delivered" \/ offer[o].job = "delivered"
                       THEN "delivered" ELSE "sent"]
                 /\ request' = [request EXCEPT ![Req(o)] =
                       IF /\ @ \in Waiting
                          /\ status = "delivered" => offer[o].job = "delivered"
                       THEN "offered" ELSE @]
            [] offer[o].job = "failed" /\ status \in {"pending", "sent"} ->
                 /\ offer' = [told EXCEPT ![o].status = "cancelled"]
                 /\ request' = Reset(request, Req(o))
            [] OTHER -> offer' = told /\ UNCHANGED request
    /\ UNCHANGED <<calendar, freed, claiming, polled>>

-----------------------------------------------------------------------------
\* Time passes the offer's expires_at.
Lapse(o) ==
    /\ offer[o].status \in Open /\ ~offer[o].lapsed
    /\ offer' = [offer EXCEPT ![o].lapsed = TRUE]
    /\ UNCHANGED <<calendar, freed, waitlist>>

\* Mutant: a hold the customer was told of does not end.
ExpireSent(o) ==
    /\ offer[o].status = "sent" /\ offer[o].lapsed
    /\ Close(o, "expired")
    /\ freed' = freed \cup {Slot(o)}
    /\ UNCHANGED <<calendar, claiming, polled>>

\* expire_and_offer_next, of one due hold.
ExpireHold(o) ==
    /\ offer[o].status \in Live /\ offer[o].lapsed
    /\ Close(o, "expired")
    /\ freed' = freed \cup {Slot(o)}
    /\ UNCHANGED <<calendar, claiming, polled>>

\* sync_delivery_statuses reads the sent offers, waits for the provider and
\* writes what it says over whatever the offer has become.
Poll(o) ==
    /\ MaxStale > 0 /\ offer[o].status = "sent" /\ o \notin polled
    /\ polled' = polled \cup {o}
    /\ UNCHANGED <<calendar, offer, freed, request, claiming>>

Sync(o, delivered) ==
    /\ \/ o \in polled
       \/ MaxStale = 0 /\ offer[o].status = "sent"
    /\ polled' = polled \ {o}
    /\ IF delivered
       THEN /\ offer' = [offer EXCEPT ![o].status = "delivered"]
            /\ UNCHANGED <<freed, request>>
       ELSE Close(o, "cancelled") /\ freed' = freed \cup {Slot(o)}
    /\ UNCHANGED <<calendar, claiming>>

\* claim reads the offer, then waits for the locks of the request and of the
\* offer.  The locked read returns the row already loaded, so that the status
\* it decides on is the one read before the locks.
ReadClaim(o) ==
    /\ claiming[o] < MaxStale /\ offer[o].status \in Live
    /\ claiming' = [claiming EXCEPT ![o] = @ + 1]
    /\ UNCHANGED <<calendar, offer, freed, request, polled>>

\* Mutant: the status of the offer is not looked at.
DecidesAlways(o) == offer[o].status # "none" /\ UNCHANGED claiming

Decides(o) ==
    \/ /\ claiming[o] > 0
       /\ claiming' = [claiming EXCEPT ![o] = @ - 1]
    \/ /\ MaxStale = 0 /\ offer[o].status \in Live
       /\ UNCHANGED claiming

Claim(o, b) ==
    /\ Decides(o) /\ ~offer[o].lapsed
    /\ booking[b].status = "none"
    /\ Available(Slot(o)) /\ Free(Slot(o), {}, {o})
    /\ booking' = [booking EXCEPT ![b] = [status |-> "confirmed",
                     slot |-> Slot(o), via |-> Slot(o).master]]
    /\ offer' = [offer EXCEPT ![o].status = "claimed"]
    /\ request' = [request EXCEPT ![Req(o)] = "booked"]
    /\ UNCHANGED <<edit, window, block, redirect, change, freed, polled>>

\* The slot is taken, or the master no longer offers the services: the request
\* waits again, whatever it was.
RefuseClaim(o) ==
    /\ Decides(o) /\ ~offer[o].lapsed
    /\ offer' = [offer EXCEPT ![o].status = "cancelled"]
    /\ request' = [request EXCEPT ![Req(o)] = "active"]
    /\ UNCHANGED <<calendar, freed, polled>>

LateClaim(o) ==
    /\ Decides(o) /\ offer[o].lapsed
    /\ Close(o, "expired")
    /\ UNCHANGED <<calendar, freed, polled>>

\* Tasks and reads are in memory; what was committed stays.
Restart ==
    /\ Restarts
    /\ freed' = {} /\ polled' = {}
    /\ claiming' = [o \in Offers |-> 0]
    /\ edit' = [b \in Bookings |-> NoEdit]
    /\ change' = [m \in Masters |-> "none"]
    /\ UNCHANGED <<booking, window, block, redirect, offer, request>>

-----------------------------------------------------------------------------
OfferStep ==
    \E o \in Offers :
        \/ \E deferred \in BOOLEAN : OfferSlot(o, deferred)
        \/ SendDue(o)
        \/ \E handOn \in BOOLEAN : RefuseDue(o, handOn)
        \/ \E end \in Jobs \ {"none", "queued"} : EndJob(o, end)
        \/ Project(o)
        \/ Lapse(o)
        \/ ExpireHold(o)
        \/ Poll(o)
        \/ \E delivered \in BOOLEAN : Sync(o, delivered)
        \/ ReadClaim(o)
        \/ \E b \in Bookings : Claim(o, b)
        \/ RefuseClaim(o)
        \/ LateClaim(o)

RequestStep ==
    \E r \in Requests : Ask(r) \/ CancelRequest(r) \/ ExpireRequest(r)

Next ==
    \/ (BookingStep \/ SettingStep) /\ UNCHANGED waitlist
    \/ RequestStep
    \/ OfferStep
    \/ \E s \in freed : DropSlot(s)
    \/ Restart

Spec == Init /\ [][Next]_vars

\* The scheduler and the queue's workers keep running, and time passes.
FairSpec ==
    /\ Spec
    /\ \A o \in Offers :
         /\ WF_vars(\E deferred \in BOOLEAN : OfferSlot(o, deferred))
         /\ WF_vars(SendDue(o) \/ \E handOn \in BOOLEAN : RefuseDue(o, handOn))
         /\ WF_vars(offer[o].job = "queued" /\
                      \E end \in {"accepted", "failed", "uncertain"} :
                         EndJob(o, end))
         /\ WF_vars(Project(o))
         /\ WF_vars(Lapse(o))
         /\ WF_vars(ExpireHold(o))

TypeOK ==
    /\ CalendarTypeOK
    /\ offer \in [Offers -> [status : OfferStatuses, lapsed : BOOLEAN,
                             job : Jobs, owed : BOOLEAN]]
    /\ freed \subseteq Slots
    /\ request \in [Requests -> RequestStatuses]
    /\ claiming \in [Offers -> 0 .. MaxStale]
    /\ polled \subseteq Offers

-----------------------------------------------------------------------------
\* Two confirmed visits of one master never overlap, whoever made, moved,
\* confirmed or claimed them and in whatever order (ensure_slot_available).
NoDoubleBooking ==
    \A b, c \in Bookings :
        b # c /\ Taken(b) /\ Taken(c) => ~Clash(booking[b].slot, booking[c].slot)

\* While a customer's hold is live, no other customer gets its interval: a
\* visit that becomes confirmed or moves in that step overlaps no live hold,
\* except the one it claims.
HoldsRespected ==
    [][\A b \in Bookings :
         Taken(b)' /\ (~Taken(b) \/ booking'[b].slot # booking[b].slot) =>
           \A o \in Offers :
              Held(o) /\ offer'[o].status # "claimed" =>
                ~Clash(Slot(o), booking'[b].slot)]_vars

\* "Only one request receives an offer for a slot at a time."
OneOfferPerSlot ==
    \A o, p \in Offers :
        (Slot(o) = Slot(p) /\ {offer[o].status, offer[p].status} \subseteq Open)
        => o = p

\* A request is on offer exactly while it has one open offer, and a closed
\* request has none: every path that ends an offer settles its request, and
\* every path that ends a request settles its offers.
OfferedExactly ==
    \A r \in Requests :
        LET mine == {o \in Offers : Req(o) = r /\ offer[o].status \in Open}
        IN /\ request[r] = "offered" <=> mine # {}
           /\ Cardinality(mine) <= 1

\* A request leaves booked, cancelled or expired for nothing, and is booked
\* only by the claim of a live hold of its own.
ClosedStaysClosed ==
    [][\A r \in Requests :
         /\ request[r] \in {"booked", "cancelled", "expired"} =>
              request'[r] = request[r]
         /\ request'[r] = "booked" /\ request[r] # "booked" =>
              \E o \in Offers : Req(o) = r /\ Held(o)
                                 /\ offer'[o].status = "claimed"]_vars

\* A request on offer is not left there: the offer is decided, except one
\* whose message may or may not have been sent.
OfferDecided ==
    \A o \in Offers :
        offer[o].status \in Open ~>
          \/ offer[o].status \notin Open
          \/ offer[o].status = "pending" /\ offer[o].job = "uncertain"

\* "both state checks happen after locks are held, so cancel-vs-claim cannot
\* deadlock or claim a cancelled hold": a claim books only a hold that is live.
ClaimsLiveHold ==
    [][\A o \in Offers :
         offer'[o].status = "claimed" /\ offer[o].status # "claimed" =>
           offer[o].status \in Live]_vars
=============================================================================
