-------------------------- MODULE BookingCalendar --------------------------
(****************************************************************************)
(* The masters' calendars: bookings, availability windows, time blocks,     *)
(* redirects from one master to another, and the waitlist offers that hold  *)
(* a slot.  Only the future part of the calendar is modelled.               *)
(*                                                                          *)
(* Every writer locks the master's row before its conflict query and keeps  *)
(* the lock to its commit, so an operation is one step.  Two operations     *)
(* decide something before they lock and are two steps: a master's own      *)
(* edit of a booking reads the windows first, and a redirect change never   *)
(* locks the master at all.  Prices, promotions and names are left out.     *)
(****************************************************************************)
EXTENDS Integers, FiniteSets

CONSTANTS
    Masters,
    Bookings,       \* bookings that may be made
    Slots,          \* intervals of a master's day that are used
    WindowSlots,    \* those an availability window may cover
    BlockSlots,     \* those a time block may cover
    EditKinds,      \* which of a master's own edits of a booking are made
    Requests,       \* waitlist requests
    Wants           \* the slots whose duration, day and master suit a request

Day == 0 .. 3

ASSUME CalendarAssumption ==
    /\ Slots \subseteq {s \in [master : Masters, from : Day, to : Day] :
                          s.from < s.to}
    /\ Slots # {}
    /\ WindowSlots \subseteq Slots /\ BlockSlots \subseteq Slots
    /\ EditKinds \subseteq {"move", "confirm"}
    /\ Wants \in [Requests -> SUBSET Slots]

NoMaster == "no master"
ASSUME NoMasterAssumption == NoMaster \notin Masters

VARIABLES
    booking,    \* Booking rows
    edit,       \* master edits that found a window and wait for the lock
    window,     \* MasterAvailabilityWindow rows
    block,      \* MasterTimeBlock rows
    redirect,   \* Master.booking_redirect_master_id
    change,     \* redirect changes that were checked and not yet committed
    offer,      \* WaitlistOffer rows with their queued SMS
    freed       \* freed slots whose background offer task has yet to run

calendar == <<booking, edit, window, block, redirect, change>>

-----------------------------------------------------------------------------
\* A pending booking occupies nothing and is edited like one that did not show.
Statuses == {"none", "confirmed", "cancelled", "no_show", "completed",
             "archived"}
OfferStatuses == {"none", "pending", "sent", "delivered", "claimed",
                  "expired", "cancelled"}
Live == {"sent", "delivered"}           \* ACTIVE_HOLD_STATUSES
Open == {"pending"} \cup Live           \* OPEN_OFFER_STATUSES

\* A request has at most one offer of a slot, ever.
Offers == UNION {{<<r, s>> : s \in Wants[r]} : r \in Requests}
Slot(o) == o[2]

Clash(s, t) == s.master = t.master /\ s.from < t.to /\ t.from < s.to

Taken(b) == booking[b].status = "confirmed"
Held(o) == offer[o].status \in Live /\ ~offer[o].lapsed

\* Mutant: a live hold is in nobody's way.
FreeOfBookings(s, B, H) ==
    /\ \A b \in Bookings \ B : Taken(b) => ~Clash(booking[b].slot, s)
    /\ \A t \in block : ~Clash(t, s)

\* ensure_slot_available: nothing but the booking or the offer left out is in
\* the way.
Free(s, B, H) ==
    /\ \A b \in Bookings \ B : Taken(b) => ~Clash(booking[b].slot, s)
    /\ \A o \in Offers \ H : Held(o) => ~Clash(Slot(o), s)
    /\ \A t \in block : ~Clash(t, s)

\* ensure_booking_within_availability, over windows merged within the day.
Available(s) ==
    \A t \in s.from .. s.to - 1 : \E w \in window :
        w.master = s.master /\ w.from <= t /\ t < w.to

\* The master whose calendar a booking of m uses, at the end of its redirects.
Leads(m, t) ==
    \E n \in 0 .. Cardinality(Masters) : \E p \in [0 .. n -> Masters] :
        /\ p[0] = m /\ p[n] = t
        /\ \A i \in 0 .. n - 1 : redirect[p[i]] = p[i + 1]
Serves(m, t) == Leads(m, t) /\ redirect[t] = NoMaster

Least(m, n) == IF m <= n THEN m ELSE n
Most(m, n) == IF m <= n THEN n ELSE m

\* What an edit releases of the interval it moves a booking away from.
Released(s, t) ==
    {u \in Slots : /\ u.master = s.master
                   /\ \/ u.from = s.from /\ u.to = Least(s.to, t.from)
                      \/ u.from = Most(s.from, t.to) /\ u.to = s.to}

NoBooking == [status |-> "none", slot |-> CHOOSE s \in Slots : TRUE,
              via |-> CHOOSE m \in Masters : TRUE]
NoEdit == [kind |-> "none", slot |-> CHOOSE s \in Slots : TRUE]

CalendarInit ==
    /\ booking = [b \in Bookings |-> NoBooking]
    /\ edit = [b \in Bookings |-> NoEdit]
    /\ window = {} /\ block = {}
    /\ redirect = [m \in Masters |-> NoMaster]
    /\ change = [m \in Masters |-> "none"]

\* The booking's row is not locked by a master's edit.
Unlocked(b) == edit[b].kind = "none"
Exists(b) == booking[b].status \notin {"none", "archived"}
Editable(b) == Unlocked(b) /\ Exists(b) /\ booking[b].status # "completed"

Move(b, s) ==
    /\ booking' = [booking EXCEPT ![b].slot = s]
    /\ freed' = freed \cup
           (IF Taken(b) THEN Released(booking[b].slot, s) ELSE {})

Reconfirm(b) ==
    /\ booking' = [booking EXCEPT ![b].status = "confirmed"]
    /\ UNCHANGED freed

-----------------------------------------------------------------------------
\* create_public_booking; a superuser may book outside the windows.
Create(b, m, s, byAdmin) ==
    /\ booking[b].status = "none"
    /\ Serves(m, s.master)
    /\ byAdmin \/ Available(s)
    /\ Free(s, {}, {})
    /\ booking' = [booking EXCEPT ![b] =
                     [status |-> "confirmed", slot |-> s, via |-> m]]
    /\ UNCHANGED <<edit, window, block, redirect, change, offer, freed>>

\* A superuser's status change and move check the slot under the lock.
AdminConfirm(b) ==
    /\ Editable(b) /\ ~Taken(b)
    /\ Free(booking[b].slot, {b}, {})
    /\ Reconfirm(b)
    /\ UNCHANGED <<edit, window, block, redirect, change, offer>>

AdminMove(b, s) ==
    /\ Editable(b) /\ s.master = booking[b].slot.master
    /\ Free(s, {b}, {})
    /\ Move(b, s)
    /\ UNCHANGED <<edit, window, block, redirect, change, offer>>

\* The owner moves a visit from the bot: the master is locked first, the
\* windows are read after, and the whole old interval is handed on.
CustomerMove(b, s) ==
    /\ Unlocked(b) /\ Taken(b) /\ s.master = booking[b].slot.master
    /\ Free(s, {b}, {}) /\ Available(s)
    /\ booking' = [booking EXCEPT ![b].slot = s]
    /\ freed' = freed \cup {booking[b].slot}
    /\ UNCHANGED <<edit, window, block, redirect, change, offer>>

\* Mutant: the slot was seen free when the windows were read.
CommitEditUnchecked(b) ==
    /\ ~Unlocked(b)
    /\ \/ edit[b].kind = "move" /\ Move(b, edit[b].slot)
       \/ edit[b].kind = "confirm" /\ Reconfirm(b)
    /\ edit' = [edit EXCEPT ![b] = NoEdit]
    /\ UNCHANGED <<window, block, redirect, change, offer>>

\* A master's own confirmation or move: the booking is locked and the windows
\* read, and only then does ensure_slot_available lock the master.
BeginEdit(b, kind, s) ==
    /\ Editable(b) /\ s.master = booking[b].slot.master
    /\ kind = "confirm" => ~Taken(b) /\ s = booking[b].slot
    /\ Available(s)
    /\ edit' = [edit EXCEPT ![b] = [kind |-> kind, slot |-> s]]
    /\ UNCHANGED <<booking, window, block, redirect, change, offer, freed>>

CommitEdit(b) ==
    /\ ~Unlocked(b)
    /\ Free(edit[b].slot, {b}, {})
    /\ \/ edit[b].kind = "move" /\ Move(b, edit[b].slot)
       \/ edit[b].kind = "confirm" /\ Reconfirm(b)
    /\ edit' = [edit EXCEPT ![b] = NoEdit]
    /\ UNCHANGED <<window, block, redirect, change, offer>>

RefuseEdit(b) ==
    /\ ~Unlocked(b) /\ ~Free(edit[b].slot, {b}, {})
    /\ edit' = [edit EXCEPT ![b] = NoEdit]
    /\ UNCHANGED <<booking, window, block, redirect, change, offer, freed>>

\* Cancelled by the customer, the bot, a master or a superuser.
Cancel(b) ==
    /\ Unlocked(b) /\ Taken(b)
    /\ booking' = [booking EXCEPT ![b].status = "cancelled"]
    /\ freed' = freed \cup {booking[b].slot}
    /\ UNCHANGED <<edit, window, block, redirect, change, offer>>

\* Any other status is set without a slot being offered; the workday closing
\* completes the visits left confirmed.
SetStatus(b, status) ==
    /\ Editable(b) /\ status # booking[b].status
    /\ status = "cancelled" => ~Taken(b)
    /\ booking' = [booking EXCEPT ![b].status = status]
    /\ UNCHANGED <<edit, window, block, redirect, change, offer, freed>>

Archive(b) ==
    /\ Unlocked(b) /\ Exists(b)
    /\ booking' = [booking EXCEPT ![b].status = "archived"]
    /\ freed' = freed \cup (IF Taken(b) THEN {booking[b].slot} ELSE {})
    /\ UNCHANGED <<edit, window, block, redirect, change, offer>>

-----------------------------------------------------------------------------
OpenWindow(s) ==
    /\ \E m \in Masters : Serves(m, s.master)
    /\ \A w \in window : ~Clash(w, s)
    /\ window' = window \cup {s}
    /\ UNCHANGED <<booking, edit, block, redirect, change, offer, freed>>

\* A master may not drop a window that is booked or held; a superuser may.
CloseWindow(w, byAdmin) ==
    /\ byAdmin \/ /\ \A b \in Bookings : Taken(b) => ~Clash(booking[b].slot, w)
                  /\ \A o \in Offers : Held(o) => ~Clash(Slot(o), w)
    /\ window' = window \ {w}
    /\ UNCHANGED <<booking, edit, block, redirect, change, offer, freed>>

\* Blocks are written without a lock and without a look at the bookings.
AddBlock(s) ==
    /\ s \notin block /\ \E m \in Masters : Serves(m, s.master)
    /\ block' = block \cup {s}
    /\ UNCHANGED <<booking, edit, window, redirect, change, offer, freed>>

DropBlock(s) ==
    /\ block' = block \ {s}
    /\ UNCHANGED <<booking, edit, window, redirect, change, offer, freed>>

\* admin_update_master reads everything it decides on without a lock.
HasFutureState(m) ==
    \/ \E b \in Bookings : Taken(b) /\ m \in {booking[b].slot.master,
                                               booking[b].via}
    \/ \E s \in window \cup block : s.master = m
    \/ \E o \in Offers : offer[o].status \in Open /\ Slot(o).master = m

CheckRedirect(m, t) ==
    /\ change[m] = "none" /\ t # redirect[m]
    /\ t # NoMaster => /\ ~Leads(t, m)
                       /\ \E u \in Masters : Serves(t, u)
    /\ ~HasFutureState(m)
    /\ change' = [change EXCEPT ![m] = t]
    /\ UNCHANGED <<booking, edit, window, block, redirect, offer, freed>>

CommitRedirect(m) ==
    /\ change[m] # "none"
    /\ redirect' = [redirect EXCEPT ![m] = change[m]]
    /\ change' = [change EXCEPT ![m] = "none"]
    /\ UNCHANGED <<booking, edit, window, block, offer, freed>>

BookingStep ==
    \E b \in Bookings :
        \/ \E s \in Slots :
             \/ \E m \in Masters, byAdmin \in BOOLEAN : Create(b, m, s, byAdmin)
             \/ AdminMove(b, s)
             \/ CustomerMove(b, s)
             \/ \E kind \in EditKinds : BeginEdit(b, kind, s)
        \/ AdminConfirm(b)
        \/ CommitEdit(b)
        \/ RefuseEdit(b)
        \/ Cancel(b)
        \/ \E status \in {"cancelled", "no_show", "completed"} :
             SetStatus(b, status)
        \/ Archive(b)

SettingStep ==
    \/ \E s \in WindowSlots : OpenWindow(s)
    \/ \E w \in window, byAdmin \in BOOLEAN : CloseWindow(w, byAdmin)
    \/ \E s \in BlockSlots : AddBlock(s)
    \/ \E s \in block : DropBlock(s)
    \/ \E m \in Masters, t \in Masters \cup {NoMaster} : CheckRedirect(m, t)
    \/ \E m \in Masters : CommitRedirect(m)

CalendarTypeOK ==
    /\ booking \in [Bookings -> [status : Statuses, slot : Slots,
                                 via : Masters]]
    /\ edit \in [Bookings -> [kind : {"none", "move", "confirm"},
                              slot : Slots]]
    /\ window \subseteq WindowSlots /\ block \subseteq BlockSlots
    /\ redirect \in [Masters -> Masters \cup {NoMaster}]
    /\ change \in [Masters -> Masters \cup {NoMaster, "none"}]
=============================================================================
