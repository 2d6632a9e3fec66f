--------------------------- MODULE WaitlistProofs ---------------------------
(****************************************************************************)
(* What holds of the calendars and the waitlist for any masters, slots,     *)
(* bookings and requests: the type invariant, that visits never overlap and *)
(* holds are respected (stale claims and polls included), and, when no read *)
(* goes stale, that offers and requests agree.                              *)
(****************************************************************************)
EXTENDS WaitlistOffers, FiniteSetTheorems, TLAPS

BookingRow == [status : Statuses, slot : Slots, via : Masters]
EditRow == [kind : {"none", "move", "confirm"}, slot : Slots]
OfferRow == [status : OfferStatuses, lapsed : BOOLEAN, job : Jobs,
             owed : BOOLEAN]

\* An offer is of one request and one slot that suits it.
LEMMA OfferParts ==
    \A o \in Offers : Req(o) \in Requests /\ Slot(o) \in Slots
BY CalendarAssumption DEF Offers, Req, Slot

LEMMA SlotParts ==
    \A s \in Slots : s.master \in Masters /\ s.from \in Day /\ s.to \in Day
                     /\ s.from < s.to
BY CalendarAssumption

LEMMA EmptyRows == NoBooking \in BookingRow /\ NoEdit \in EditRow
                   /\ NoOffer \in OfferRow
<1>1. PICK s \in Slots : TRUE
  BY CalendarAssumption
<1>2. Masters # {}
  BY <1>1, SlotParts
<1>3. (CHOOSE t \in Slots : TRUE) \in Slots
  BY <1>1
<1>4. (CHOOSE m \in Masters : TRUE) \in Masters
  BY <1>2
<1> QED
  BY <1>3, <1>4 DEF NoBooking, NoEdit, NoOffer, BookingRow, EditRow, OfferRow,
     Statuses, OfferStatuses, Jobs

LEMMA ReleasedSlots == \A s, t : Released(s, t) \subseteq Slots
BY DEF Released

LEMMA InitType == Init => TypeOK
<1> SUFFICES ASSUME Init PROVE TypeOK
  OBVIOUS
<1>1. CalendarTypeOK
  BY EmptyRows DEF Init, CalendarInit, CalendarTypeOK, BookingRow, EditRow
<1>2. offer \in [Offers -> OfferRow]
  BY EmptyRows DEF Init
<1> QED
  BY <1>1, <1>2, WaitlistAssumption
  DEF Init, TypeOK, OfferRow, RequestStatuses

-----------------------------------------------------------------------------
\* One row of the bookings changes, to a row.
LEMMA BookingPut ==
    ASSUME booking \in [Bookings -> BookingRow], NEW b \in Bookings,
           NEW y \in BookingRow
    PROVE  [booking EXCEPT ![b] = y] \in [Bookings -> BookingRow]
OBVIOUS

LEMMA StatusPut ==
    ASSUME booking \in [Bookings -> BookingRow], NEW b \in Bookings,
           NEW st \in Statuses
    PROVE  [booking EXCEPT ![b].status = st] \in [Bookings -> BookingRow]
<1> DEFINE y == [booking[b] EXCEPT !.status = st]
<1>1. y \in BookingRow
  BY DEF BookingRow
<1>2. [booking EXCEPT ![b].status = st] = [booking EXCEPT ![b] = y]
  OBVIOUS
<1> QED
  BY <1>1, <1>2

LEMMA SlotPut ==
    ASSUME booking \in [Bookings -> BookingRow], NEW b \in Bookings,
           NEW s \in Slots
    PROVE  [booking EXCEPT ![b].slot = s] \in [Bookings -> BookingRow]
<1> DEFINE y == [booking[b] EXCEPT !.slot = s]
<1>1. y \in BookingRow
  BY DEF BookingRow
<1>2. [booking EXCEPT ![b].slot = s] = [booking EXCEPT ![b] = y]
  OBVIOUS
<1> QED
  BY <1>1, <1>2

LEMMA EditPut ==
    ASSUME edit \in [Bookings -> EditRow], NEW b \in Bookings,
           NEW y \in EditRow
    PROVE  [edit EXCEPT ![b] = y] \in [Bookings -> EditRow]
OBVIOUS

\* The steps on a booking keep its row, its edit and the freed slots typed.
LEMMA BookingStepType ==
    ASSUME TypeOK, BookingStep
    PROVE  /\ booking' \in [Bookings -> BookingRow]
           /\ edit' \in [Bookings -> EditRow]
           /\ freed' \subseteq Slots
           /\ UNCHANGED <<window, block, redirect, change, offer>>
<1>1. /\ booking \in [Bookings -> BookingRow] /\ edit \in [Bookings -> EditRow]
      /\ freed \subseteq Slots
  BY DEF TypeOK, CalendarTypeOK, BookingRow, EditRow
<1>2. PICK b \in Bookings :
        \/ \E s \in Slots :
             \/ \E m \in Masters, byAdmin \in BOOLEAN : Create(b, m, s, byAdmin)
             \/ AdminMove(b, s)
             \/ CustomerMove(b, s)
             \/ \E kind \in EditKinds : BeginEdit(b, kind, s)
        \/ AdminConfirm(b)
        \/ CommitEdit(b)
        \/ RefuseEdit(b)
        \/ Cancel(b)
        \/ \E status \in {"cancelled", "no_show", "completed"} :
             SetStatus(b, status)
        \/ Archive(b)
  BY DEF BookingStep
<1>3. booking[b].slot \in Slots /\ edit[b].slot \in Slots
  BY <1>1 DEF BookingRow, EditRow
<1>4. ASSUME NEW s \in Slots, NEW m \in Masters, NEW byAdmin \in BOOLEAN,
             Create(b, m, s, byAdmin)
      PROVE  booking' \in [Bookings -> BookingRow] /\ freed' = freed
             /\ edit' = edit
             /\ UNCHANGED <<window, block, redirect, change, offer>>
  <2> DEFINE y == [status |-> "confirmed", slot |-> s, via |-> m]
  <2>1. y \in BookingRow
    BY DEF BookingRow, Statuses
  <2>2. booking' = [booking EXCEPT ![b] = y]
    BY <1>4 DEF Create
  <2> HIDE DEF y
  <2> QED
    BY <1>1, <1>4, <2>1, <2>2, BookingPut DEF Create
<1>5. ASSUME NEW s \in Slots, Move(b, s)
      PROVE  booking' \in [Bookings -> BookingRow] /\ freed' \subseteq Slots
  BY <1>1, <1>5, SlotPut, ReleasedSlots DEF Move
<1>6. ASSUME Reconfirm(b)
      PROVE  booking' \in [Bookings -> BookingRow] /\ freed' \subseteq Slots
  BY <1>1, <1>6, StatusPut DEF Reconfirm, Statuses
<1>7. ASSUME NEW s \in Slots, AdminMove(b, s) PROVE
        booking' \in [Bookings -> BookingRow] /\ freed' \subseteq Slots
        /\ edit' = edit /\ UNCHANGED <<window, block, redirect, change, offer>>
  BY <1>5, <1>7 DEF AdminMove
<1>8. ASSUME NEW s \in Slots, CustomerMove(b, s) PROVE
        booking' \in [Bookings -> BookingRow] /\ freed' \subseteq Slots
        /\ edit' = edit /\ UNCHANGED <<window, block, redirect, change, offer>>
  BY <1>1, <1>3, <1>8, SlotPut DEF CustomerMove
<1>9. ASSUME NEW s \in Slots, NEW kind \in EditKinds, BeginEdit(b, kind, s)
      PROVE  booking' = booking /\ freed' = freed
             /\ edit' \in [Bookings -> EditRow]
             /\ UNCHANGED <<window, block, redirect, change, offer>>
  <2> DEFINE y == [kind |-> kind, slot |-> s]
  <2>1. y \in EditRow
    BY CalendarAssumption DEF EditRow
  <2>2. edit' = [edit EXCEPT ![b] = y]
    BY <1>9 DEF BeginEdit
  <2> HIDE DEF y
  <2> QED
    BY <1>1, <1>9, <2>1, <2>2, EditPut DEF BeginEdit
<1>10. ASSUME AdminConfirm(b) PROVE
        booking' \in [Bookings -> BookingRow] /\ freed' \subseteq Slots
        /\ edit' = edit /\ UNCHANGED <<window, block, redirect, change, offer>>
  BY <1>6, <1>10 DEF AdminConfirm
<1>11. [edit EXCEPT ![b] = NoEdit] \in [Bookings -> EditRow]
  BY <1>1, EmptyRows, EditPut
<1>12. ASSUME CommitEdit(b) PROVE
        booking' \in [Bookings -> BookingRow] /\ freed' \subseteq Slots
        /\ edit' \in [Bookings -> EditRow]
        /\ UNCHANGED <<window, block, redirect, change, offer>>
  BY <1>3, <1>5, <1>6, <1>11, <1>12 DEF CommitEdit
<1>13. ASSUME RefuseEdit(b) PROVE
        booking' = booking /\ freed' = freed
        /\ edit' \in [Bookings -> EditRow]
        /\ UNCHANGED <<window, block, redirect, change, offer>>
  BY <1>11, <1>13 DEF RefuseEdit
<1>14. ASSUME Cancel(b) PROVE
        booking' \in [Bookings -> BookingRow] /\ freed' \subseteq Slots
        /\ edit' = edit /\ UNCHANGED <<window, block, redirect, change, offer>>
  BY <1>1, <1>3, <1>14, StatusPut DEF Cancel, Statuses
<1>15. ASSUME NEW status \in {"cancelled", "no_show", "completed"},
              SetStatus(b, status)
      PROVE  booking' \in [Bookings -> BookingRow] /\ freed' = freed
             /\ edit' = edit
             /\ UNCHANGED <<window, block, redirect, change, offer>>
  BY <1>1, <1>15, StatusPut DEF SetStatus, Statuses
<1>16. ASSUME Archive(b) PROVE
        booking' \in [Bookings -> BookingRow] /\ freed' \subseteq Slots
        /\ edit' = edit /\ UNCHANGED <<window, block, redirect, change, offer>>
  BY <1>1, <1>3, <1>16, StatusPut DEF Archive, Statuses
<1> QED
  BY <1>1, <1>2, <1>4, <1>7, <1>8, <1>9, <1>10, <1>12, <1>13, <1>14, <1>15,
     <1>16

LEMMA SettingStepType ==
    ASSUME TypeOK, SettingStep
    PROVE  /\ window' \subseteq WindowSlots /\ block' \subseteq BlockSlots
           /\ redirect' \in [Masters -> Masters \cup {NoMaster}]
           /\ change' \in [Masters -> Masters \cup {NoMaster, "none"}]
           /\ UNCHANGED <<booking, edit, offer, freed>>
<1> USE DEF TypeOK, CalendarTypeOK
<1>1. CASE \E s \in WindowSlots : OpenWindow(s)
  BY <1>1 DEF OpenWindow
<1>2. CASE \E w \in window, byAdmin \in BOOLEAN : CloseWindow(w, byAdmin)
  BY <1>2 DEF CloseWindow
<1>3. CASE \E s \in BlockSlots : AddBlock(s)
  BY <1>3 DEF AddBlock
<1>4. CASE \E s \in block : DropBlock(s)
  BY <1>4 DEF DropBlock
<1>5. ASSUME NEW m \in Masters, NEW t \in Masters \cup {NoMaster},
             CheckRedirect(m, t)
      PROVE  /\ change' \in [Masters -> Masters \cup {NoMaster, "none"}]
             /\ UNCHANGED <<booking, edit, offer, freed, window, block,
                            redirect>>
  BY <1>5 DEF CheckRedirect
<1>6. ASSUME NEW m \in Masters, CommitRedirect(m)
      PROVE  /\ change' \in [Masters -> Masters \cup {NoMaster, "none"}]
             /\ redirect' \in [Masters -> Masters \cup {NoMaster}]
             /\ UNCHANGED <<booking, edit, offer, freed, window, block>>
  BY <1>6 DEF CommitRedirect
<1> QED
  BY <1>1, <1>2, <1>3, <1>4, <1>5, <1>6 DEF SettingStep

-----------------------------------------------------------------------------
\* One offer's row changes, to a row.
LEMMA OfferPut ==
    ASSUME offer \in [Offers -> OfferRow], NEW o \in Offers, NEW y \in OfferRow
    PROVE  [offer EXCEPT ![o] = y] \in [Offers -> OfferRow]
OBVIOUS

LEMMA OfferStatusPut ==
    ASSUME offer \in [Offers -> OfferRow], NEW o \in Offers,
           NEW st \in OfferStatuses
    PROVE  [offer EXCEPT ![o].status = st] \in [Offers -> OfferRow]
<1> DEFINE y == [offer[o] EXCEPT !.status = st]
<1>1. y \in OfferRow
  BY DEF OfferRow
<1>2. [offer EXCEPT ![o].status = st] = [offer EXCEPT ![o] = y]
  OBVIOUS
<1> QED
  BY <1>1, <1>2

LEMMA RequestPut ==
    ASSUME request \in [Requests -> RequestStatuses], NEW r \in Requests,
           NEW st \in RequestStatuses
    PROVE  /\ [request EXCEPT ![r] = st] \in [Requests -> RequestStatuses]
           /\ Reset(request, r) \in [Requests -> RequestStatuses]
BY DEF Reset, RequestStatuses

LEMMA CloseOffersType ==
    ASSUME offer \in [Offers -> OfferRow], NEW r \in Requests,
           NEW st \in OfferStatuses
    PROVE  CloseOffers(r, st) \in [Offers -> OfferRow]
<1>1. ASSUME NEW o \in Offers PROVE [offer[o] EXCEPT !.status = st] \in OfferRow
  BY DEF OfferRow
<1> QED
  BY <1>1 DEF CloseOffers

\* A step of a request keeps requests, offers and freed slots typed.
LEMMA RequestStepType ==
    ASSUME TypeOK, RequestStep
    PROVE  /\ request' \in [Requests -> RequestStatuses]
           /\ offer' \in [Offers -> OfferRow]
           /\ freed' \subseteq Slots
           /\ UNCHANGED <<calendar, claiming, polled>>
<1>1. /\ request \in [Requests -> RequestStatuses]
      /\ offer \in [Offers -> OfferRow] /\ freed \subseteq Slots
  BY DEF TypeOK, OfferRow
<1>2. PICK r \in Requests : Ask(r) \/ CancelRequest(r) \/ ExpireRequest(r)
  BY DEF RequestStep
<1>3. CASE Ask(r)
  BY <1>1, <1>3, RequestPut DEF Ask, RequestStatuses
<1>4. CASE CancelRequest(r)
  BY <1>1, <1>4, RequestPut, CloseOffersType, OfferParts
  DEF CancelRequest, RequestStatuses, OfferStatuses
<1>5. CASE ExpireRequest(r)
  BY <1>1, <1>5, RequestPut, CloseOffersType
  DEF ExpireRequest, RequestStatuses, OfferStatuses
<1> QED
  BY <1>2, <1>3, <1>4, <1>5

LEMMA CloseType ==
    ASSUME TypeOK, NEW o \in Offers, NEW st \in OfferStatuses, Close(o, st)
    PROVE  /\ request' \in [Requests -> RequestStatuses]
           /\ offer' \in [Offers -> OfferRow]
<1>1. /\ request \in [Requests -> RequestStatuses]
      /\ offer \in [Offers -> OfferRow] /\ Req(o) \in Requests
  BY OfferParts DEF TypeOK, OfferRow
<1> QED
  BY <1>1, OfferStatusPut, RequestPut DEF Close, RequestStatuses

LEMMA ProjectType ==
    ASSUME TypeOK, NEW o \in Offers, Project(o)
    PROVE  /\ request' \in [Requests -> RequestStatuses]
           /\ offer' \in [Offers -> OfferRow]
<1> DEFINE told == [offer EXCEPT ![o].owed = FALSE]
           st == IF offer[o].status = "delivered" \/ offer[o].job = "delivered"
                 THEN "delivered" ELSE "sent"
           on == IF /\ request[Req(o)] \in Waiting
                    /\ offer[o].status = "delivered" =>
                         offer[o].job = "delivered"
                 THEN "offered" ELSE request[Req(o)]
<1>1. /\ request \in [Requests -> RequestStatuses]
      /\ offer \in [Offers -> OfferRow] /\ Req(o) \in Requests
  BY OfferParts DEF TypeOK, OfferRow
<1>2. told \in [Offers -> OfferRow]
  <2> DEFINE y == [offer[o] EXCEPT !.owed = FALSE]
  <2>1. y \in OfferRow
    BY <1>1 DEF OfferRow
  <2>2. told = [offer EXCEPT ![o] = y]
    BY <1>1
  <2> QED
    BY <1>1, <2>1, <2>2, OfferPut
<1>3. ASSUME NEW s \in OfferStatuses
      PROVE  [told EXCEPT ![o].status = s] \in [Offers -> OfferRow]
  <2> DEFINE y == [told[o] EXCEPT !.status = s]
  <2>1. y \in OfferRow
    BY <1>2 DEF OfferRow
  <2>2. [told EXCEPT ![o].status = s] = [told EXCEPT ![o] = y]
    BY <1>2
  <2> HIDE DEF told, y
  <2> QED
    BY <1>2, <2>1, <2>2
<1>4. st \in OfferStatuses /\ "cancelled" \in OfferStatuses
  BY DEF OfferStatuses
<1>5. on \in RequestStatuses
  BY <1>1 DEF RequestStatuses
<1>6. \/ offer' = [told EXCEPT ![o].status = st]
         /\ request' = [request EXCEPT ![Req(o)] = on]
      \/ offer' = [told EXCEPT ![o].status = "cancelled"]
         /\ request' = Reset(request, Req(o))
      \/ offer' = told /\ request' = request
  BY <1>1 DEF Project
<1> HIDE DEF told, st, on
<1> QED
  BY <1>1, <1>2, <1>3, <1>4, <1>5, <1>6, RequestPut

\* A step of an offer keeps bookings, offers, requests, freed slots, claims
\* and polls typed and leaves the settings alone.
LEMMA OfferStepType ==
    ASSUME TypeOK, OfferStep
    PROVE  /\ booking' \in [Bookings -> BookingRow]
           /\ offer' \in [Offers -> OfferRow]
           /\ request' \in [Requests -> RequestStatuses]
           /\ freed' \subseteq Slots
           /\ claiming' \in [Offers -> 0 .. MaxStale]
           /\ polled' \subseteq Offers
           /\ UNCHANGED <<edit, window, block, redirect, change>>
<1> DEFINE Kept == /\ booking' \in [Bookings -> BookingRow]
                   /\ UNCHANGED <<edit, window, block, redirect, change>>
           Rows == /\ offer' \in [Offers -> OfferRow]
                   /\ request' \in [Requests -> RequestStatuses]
           Rest == /\ freed' \subseteq Slots
                   /\ claiming' \in [Offers -> 0 .. MaxStale]
                   /\ polled' \subseteq Offers
<1>1. /\ booking \in [Bookings -> BookingRow]
      /\ offer \in [Offers -> OfferRow]
      /\ request \in [Requests -> RequestStatuses]
      /\ freed \subseteq Slots /\ claiming \in [Offers -> 0 .. MaxStale]
      /\ polled \subseteq Offers
  BY DEF TypeOK, CalendarTypeOK, OfferRow, BookingRow
<1>2. PICK o \in Offers :
        \/ \E deferred \in BOOLEAN : OfferSlot(o, deferred)
        \/ SendDue(o)
        \/ \E handOn \in BOOLEAN : RefuseDue(o, handOn)
        \/ \E end \in Jobs \ {"none", "queued"} : EndJob(o, end)
        \/ Project(o)
        \/ Lapse(o)
        \/ ExpireHold(o)
        \/ Poll(o)
        \/ \E delivered \in BOOLEAN : Sync(o, delivered)
        \/ ReadClaim(o)
        \/ \E b \in Bookings : Claim(o, b)
        \/ RefuseClaim(o)
        \/ LateClaim(o)
  BY DEF OfferStep
<1>3. Req(o) \in Requests /\ Slot(o) \in Slots
  BY OfferParts
<1>4. \A st \in {"sent", "delivered", "claimed", "expired", "cancelled"} :
        st \in OfferStatuses
  BY DEF OfferStatuses
<1>5. \A st \in {"active", "offered", "booked"} : st \in RequestStatuses
  BY DEF RequestStatuses
<1>6. ASSUME NEW deferred \in BOOLEAN, OfferSlot(o, deferred)
      PROVE  Kept /\ Rows /\ Rest
  <2> DEFINE y == [status |-> "pending", lapsed |-> FALSE, owed |-> FALSE,
                   job |-> IF deferred THEN "none" ELSE "queued"]
  <2>1. y \in OfferRow
    BY DEF OfferRow, OfferStatuses, Jobs
  <2>2. offer' = [offer EXCEPT ![o] = y]
    BY <1>6 DEF OfferSlot
  <2> HIDE DEF y
  <2>3. Rows
    BY <1>1, <1>3, <1>5, <1>6, <2>1, <2>2, OfferPut, RequestPut DEF OfferSlot
  <2> QED
    BY <1>1, <1>6, <2>3 DEF OfferSlot, calendar
<1>7. CASE SendDue(o)
  <2> DEFINE y == [offer[o] EXCEPT !.job = "queued", !.lapsed = FALSE]
  <2>1. y \in OfferRow
    BY <1>1 DEF OfferRow, Jobs
  <2>2. offer' = [offer EXCEPT ![o] = y]
    BY <1>1, <1>7 DEF SendDue
  <2> HIDE DEF y
  <2>3. request' = request
    BY <1>7 DEF SendDue, waitlist
  <2>4. Rows
    BY <1>1, <2>1, <2>2, <2>3, OfferPut
  <2> QED
    BY <1>1, <1>7, <2>4 DEF SendDue, calendar, waitlist
<1>8. ASSUME NEW handOn \in BOOLEAN, RefuseDue(o, handOn)
      PROVE  Kept /\ Rows /\ Rest
  <2>1. Rows
    BY <1>4, <1>8, CloseType DEF RefuseDue
  <2> QED
    BY <1>1, <1>3, <1>8, <2>1 DEF RefuseDue, calendar
<1>9. ASSUME NEW end \in Jobs \ {"none", "queued"}, EndJob(o, end)
      PROVE  Kept /\ Rows /\ Rest
  <2> DEFINE y == [offer[o] EXCEPT !.job = end, !.owed = TRUE]
  <2>1. y \in OfferRow
    BY <1>1 DEF OfferRow
  <2>2. offer' = [offer EXCEPT ![o] = y]
    BY <1>1, <1>9 DEF EndJob
  <2> HIDE DEF y
  <2>3. Rows
    BY <1>1, <1>9, <2>1, <2>2, OfferPut DEF EndJob, waitlist
  <2> QED
    BY <1>1, <1>9, <2>3 DEF EndJob, calendar, waitlist
<1>10. CASE Project(o)
  <2>1. Rows
    BY <1>10, ProjectType
  <2>2. UNCHANGED <<calendar, freed, claiming, polled>>
    BY <1>10 DEF Project
  <2> QED
    BY <1>1, <2>1, <2>2 DEF calendar
<1>11. CASE Lapse(o)
  <2> DEFINE y == [offer[o] EXCEPT !.lapsed = TRUE]
  <2>1. y \in OfferRow
    BY <1>1 DEF OfferRow
  <2>2. offer' = [offer EXCEPT ![o] = y]
    BY <1>1, <1>11 DEF Lapse
  <2> HIDE DEF y
  <2>3. Rows
    BY <1>1, <1>11, <2>1, <2>2, OfferPut DEF Lapse, waitlist
  <2> QED
    BY <1>1, <1>11, <2>3 DEF Lapse, calendar, waitlist
<1>12. CASE ExpireHold(o)
  <2>1. Rows
    BY <1>4, <1>12, CloseType DEF ExpireHold
  <2> QED
    BY <1>1, <1>3, <1>12, <2>1 DEF ExpireHold, calendar
<1>13. CASE Poll(o)
  BY <1>1, <1>13 DEF Poll, calendar
<1>14. ASSUME NEW delivered \in BOOLEAN, Sync(o, delivered)
      PROVE  Kept /\ Rows /\ Rest
  <2>1. Rows
    BY <1>1, <1>4, <1>14, CloseType, OfferStatusPut DEF Sync
  <2> QED
    BY <1>1, <1>3, <1>14, <2>1 DEF Sync, calendar
<1>15. CASE ReadClaim(o)
  BY <1>1, <1>15, WaitlistAssumption DEF ReadClaim, calendar
<1>16. Decides(o) => claiming' \in [Offers -> 0 .. MaxStale]
  BY <1>1, WaitlistAssumption DEF Decides
<1>17. ASSUME NEW b \in Bookings, Claim(o, b)
      PROVE  Kept /\ Rows /\ Rest
  <2> DEFINE y == [status |-> "confirmed", slot |-> Slot(o),
                   via |-> Slot(o).master]
  <2>1. y \in BookingRow
    BY <1>3, SlotParts DEF BookingRow, Statuses
  <2>2. booking' = [booking EXCEPT ![b] = y]
    BY <1>17 DEF Claim
  <2> HIDE DEF y
  <2>3. booking' \in [Bookings -> BookingRow]
    BY <1>1, <2>1, <2>2, BookingPut
  <2>4. Rows
    BY <1>1, <1>3, <1>4, <1>5, <1>17, OfferStatusPut, RequestPut DEF Claim
  <2>5. Decides(o) /\ UNCHANGED <<edit, window, block, redirect, change,
                                  freed, polled>>
    BY <1>17 DEF Claim
  <2> QED
    BY <1>1, <1>16, <2>3, <2>4, <2>5
<1>18. CASE RefuseClaim(o)
  <2>1. Rows
    BY <1>1, <1>3, <1>4, <1>5, <1>18, OfferStatusPut, RequestPut
    DEF RefuseClaim
  <2> QED
    BY <1>1, <1>16, <1>18, <2>1 DEF RefuseClaim, calendar
<1>19. CASE LateClaim(o)
  <2>1. Rows
    BY <1>4, <1>19, CloseType DEF LateClaim
  <2> QED
    BY <1>1, <1>16, <1>19, <2>1 DEF LateClaim, calendar
<1> QED
  BY <1>2, <1>6, <1>7, <1>8, <1>9, <1>10, <1>11, <1>12, <1>13, <1>14, <1>15,
     <1>17, <1>18, <1>19

LEMMA TypeStep ==
    ASSUME TypeOK, [Next]_vars
    PROVE  TypeOK'
<1> USE DEF TypeOK, CalendarTypeOK, BookingRow, EditRow, OfferRow
<1>1. CASE BookingStep /\ UNCHANGED waitlist
  BY <1>1, BookingStepType DEF waitlist
<1>2. CASE SettingStep /\ UNCHANGED waitlist
  BY <1>2, SettingStepType DEF waitlist
<1>3. CASE RequestStep
  BY <1>3, RequestStepType DEF calendar
<1>4. CASE OfferStep
  BY <1>4, OfferStepType
<1>5. ASSUME NEW s \in freed, DropSlot(s) PROVE TypeOK'
  BY <1>5 DEF DropSlot, calendar, waitlist
<1>6. CASE Restart
  <2>1. edit' \in [Bookings -> EditRow]
    BY <1>6, EmptyRows DEF Restart
  <2>2. claiming' \in [Offers -> 0 .. MaxStale]
    BY <1>6, WaitlistAssumption DEF Restart
  <2> QED
    BY <1>6, <2>1, <2>2 DEF Restart
<1>7. CASE UNCHANGED vars
  BY <1>7 DEF vars, calendar, waitlist
<1> QED
  BY <1>1, <1>2, <1>3, <1>4, <1>5, <1>6, <1>7 DEF Next

\* Every row has its type in every reachable state.
THEOREM TypeCorrect == Spec => []TypeOK
<1>1. Init => TypeOK
  BY InitType
<1>2. TypeOK /\ [Next]_vars => TypeOK'
  BY TypeStep
<1> QED
  BY <1>1, <1>2, PTL DEF Spec

-----------------------------------------------------------------------------
\* While an edit holds the row of a booking, the booking stays as it was read:
\* a confirmation is of the interval that the booking still has.
EditHoldsRow ==
    \A b \in Bookings : ~Unlocked(b) =>
        /\ Exists(b)
        /\ edit[b].kind = "confirm" => edit[b].slot = booking[b].slot

LEMMA EditHoldsRowStep ==
    ASSUME TypeOK, EditHoldsRow, [Next]_vars
    PROVE  EditHoldsRow'
<1> USE DEF EditHoldsRow, Unlocked, Exists
<1>1. /\ booking \in [Bookings -> BookingRow] /\ edit \in [Bookings -> EditRow]
  BY DEF TypeOK, CalendarTypeOK, BookingRow, EditRow
<1>2. NoEdit.kind = "none"
  BY DEF NoEdit
<1>3. CASE BookingStep
  <2>1. PICK b \in Bookings :
        \/ \E s \in Slots :
             \/ \E m \in Masters, byAdmin \in BOOLEAN : Create(b, m, s, byAdmin)
             \/ AdminMove(b, s)
             \/ CustomerMove(b, s)
             \/ \E kind \in EditKinds : BeginEdit(b, kind, s)
        \/ AdminConfirm(b)
        \/ CommitEdit(b)
        \/ RefuseEdit(b)
        \/ Cancel(b)
        \/ \E status \in {"cancelled", "no_show", "completed"} :
             SetStatus(b, status)
        \/ Archive(b)
    BY <1>3 DEF BookingStep
  <2>2. \A c \in Bookings : c # b => booking'[c] = booking[c]
                                     /\ edit'[c] = edit[c]
    BY <1>1, <2>1 DEF Create, AdminMove, CustomerMove, BeginEdit, AdminConfirm,
       CommitEdit, RefuseEdit, Cancel, SetStatus, Archive, Move, Reconfirm
  <2>4. CASE edit'[b].kind = "none"
    BY <2>2, <2>4
  <2>5. CASE ~Unlocked(b)
    BY <1>1, <1>2, <2>1, <2>2, <2>5 DEF Create, AdminMove, CustomerMove,
       BeginEdit, AdminConfirm, CommitEdit, RefuseEdit, Cancel, SetStatus,
       Archive, Editable
  <2>6. CASE Unlocked(b) /\ edit'[b].kind # "none"
    <3>1. PICK s \in Slots, kind \in EditKinds : BeginEdit(b, kind, s)
      BY <1>1, <2>1, <2>6 DEF Create, AdminMove, CustomerMove, AdminConfirm,
         CommitEdit, RefuseEdit, Cancel, SetStatus, Archive
    <3>2. /\ booking'[b] = booking[b] /\ Exists(b)
          /\ edit'[b] = [kind |-> kind, slot |-> s]
          /\ kind = "confirm" => s = booking[b].slot
      BY <1>1, <3>1 DEF BeginEdit, Editable
    <3>3. Exists(b)' /\ (edit'[b].kind = "confirm" =>
                          edit'[b].slot = booking'[b].slot)
      BY <3>2
    <3>4. ASSUME NEW c \in Bookings, c # b, ~Unlocked(c)'
          PROVE  Exists(c)' /\ (edit'[c].kind = "confirm" =>
                                  edit'[c].slot = booking'[c].slot)
      <4>1. booking'[c] = booking[c] /\ edit'[c] = edit[c]
        BY <2>2, <3>4
      <4> QED
        BY <3>4, <4>1
    <3> QED
      BY <3>3, <3>4
  <2> QED
    BY <2>4, <2>5, <2>6
<1>4. ASSUME NEW o \in Offers, NEW b \in Bookings, Claim(o, b)
      PROVE  EditHoldsRow'
  BY <1>1, <1>4 DEF Claim
<1>5. CASE Restart
  BY <1>2, <1>5 DEF Restart
<1>6. CASE UNCHANGED <<booking, edit>>
  BY <1>6
<1>7. \/ BookingStep \/ Restart \/ UNCHANGED <<booking, edit>>
      \/ \E o \in Offers, b \in Bookings : Claim(o, b)
  <2>1. CASE SettingStep
    BY <2>1, SettingStepType
  <2>2. CASE RequestStep
    BY <2>2, RequestStepType DEF calendar
  <2>3. CASE OfferStep
    BY <2>3 DEF OfferStep, OfferSlot, SendDue, RefuseDue, EndJob, Project,
       Lapse, ExpireHold, Poll, Sync, ReadClaim, RefuseClaim, LateClaim,
       calendar
  <2> QED
    BY <2>1, <2>2, <2>3 DEF Next, vars, calendar, DropSlot
<1> QED
  BY <1>3, <1>4, <1>5, <1>6, <1>7

LEMMA EditsHoldRows == Spec => []EditHoldsRow
<1>1. Init => EditHoldsRow
  BY DEF Init, CalendarInit, EditHoldsRow, Unlocked, NoEdit
<1>2. TypeOK /\ EditHoldsRow /\ [Next]_vars => EditHoldsRow'
  BY EditHoldsRowStep
<1> QED
  BY <1>1, <1>2, TypeCorrect, PTL DEF Spec

-----------------------------------------------------------------------------
\* A visit that becomes confirmed, or moves, in a step.
Seated(b) == Taken(b)' /\ (~Taken(b) \/ booking'[b].slot # booking[b].slot)

\* It is the only booking that changes, and its interval was free of the
\* visits and of the holds that the step does not claim.
SeatIsFree ==
    \A b \in Bookings : Seated(b) =>
        /\ \A c \in Bookings \ {b} :
             /\ booking'[c] = booking[c]
             /\ Taken(c) => ~Clash(booking[c].slot, booking'[b].slot)
        /\ \A o \in Offers :
             Held(o) /\ offer'[o].status # "claimed" =>
               ~Clash(Slot(o), booking'[b].slot)

\* Every step that seats a visit has looked at the whole calendar.
LEMMA StepSeats ==
    ASSUME TypeOK, EditHoldsRow, [Next]_vars
    PROVE  SeatIsFree
<1>1. booking \in [Bookings -> BookingRow]
  BY DEF TypeOK, CalendarTypeOK, BookingRow
<1>2. CASE booking' = booking
  BY <1>2 DEF SeatIsFree, Seated, Taken
<1>3. CASE BookingStep
  <2>1. PICK b \in Bookings :
        \/ \E s \in Slots :
             \/ \E m \in Masters, byAdmin \in BOOLEAN : Create(b, m, s, byAdmin)
             \/ AdminMove(b, s)
             \/ CustomerMove(b, s)
             \/ \E kind \in EditKinds : BeginEdit(b, kind, s)
        \/ AdminConfirm(b)
        \/ CommitEdit(b)
        \/ RefuseEdit(b)
        \/ Cancel(b)
        \/ \E status \in {"cancelled", "no_show", "completed"} :
             SetStatus(b, status)
        \/ Archive(b)
    BY <1>3 DEF BookingStep
  <2>2. offer' = offer
    BY <1>3, BookingStepType
  <2>3. booking[b] \in BookingRow
    BY <1>1
  <2>4. ASSUME NEW s \in Slots, Free(s, {b}, {}),
               \/ booking' = [booking EXCEPT ![b].slot = s]
               \/ \E m \in Masters : booking' = [booking EXCEPT ![b] =
                    [status |-> "confirmed", slot |-> s, via |-> m]]
        PROVE  SeatIsFree
    <3>1. CASE booking' = [booking EXCEPT ![b].slot = s]
      BY <1>1, <1>3, <2>2, <2>3, <2>4, <3>1
      DEF SeatIsFree, Seated, Taken, Free, BookingRow
    <3>2. CASE \E m \in Masters : booking' = [booking EXCEPT ![b] =
                 [status |-> "confirmed", slot |-> s, via |-> m]]
      BY <1>1, <1>3, <2>2, <2>3, <2>4, <3>2
      DEF SeatIsFree, Seated, Taken, Free, BookingRow
    <3> QED
      BY <2>4, <3>1, <3>2
  <2>5. ASSUME NEW st \in Statuses,
               booking' = [booking EXCEPT ![b].status = st],
               st = "confirmed" => Free(booking[b].slot, {b}, {})
        PROVE  SeatIsFree
    BY <1>1, <2>2, <2>3, <2>5 DEF SeatIsFree, Seated, Taken, Free, BookingRow
  <2>6. edit[b].slot \in Slots
    BY DEF TypeOK, CalendarTypeOK
  <2>7. ASSUME NEW s \in Slots, NEW m \in Masters, NEW byAdmin \in BOOLEAN,
               Create(b, m, s, byAdmin)
        PROVE  SeatIsFree
    <3>1. Free(s, {b}, {})
      BY <2>7 DEF Create, Free
    <3> QED
      BY <2>4, <2>7, <3>1 DEF Create
  <2>8. ASSUME NEW s \in Slots, AdminMove(b, s) \/ CustomerMove(b, s)
        PROVE  SeatIsFree
    BY <2>4, <2>8 DEF AdminMove, CustomerMove, Move
  <2>9. CASE AdminConfirm(b)
    BY <2>5, <2>9 DEF AdminConfirm, Reconfirm, Statuses
  <2>10. CASE CommitEdit(b) /\ edit[b].kind = "move"
    BY <2>4, <2>6, <2>10 DEF CommitEdit, Move
  <2>11. CASE CommitEdit(b) /\ edit[b].kind # "move"
    <3>1. booking' = [booking EXCEPT ![b].status = "confirmed"]
          /\ Free(edit[b].slot, {b}, {}) /\ edit[b].kind = "confirm"
      BY <2>11 DEF CommitEdit, Reconfirm
    <3>2. edit[b].slot = booking[b].slot
      BY <2>11, <3>1 DEF CommitEdit, EditHoldsRow
    <3> QED
      BY <2>5, <3>1, <3>2 DEF Statuses
  <2>12. CASE Cancel(b) \/ Archive(b)
    <3>1. PICK st \in {"cancelled", "archived"} :
            booking' = [booking EXCEPT ![b].status = st]
      BY <2>12 DEF Cancel, Archive
    <3> QED
      BY <2>5, <3>1 DEF Statuses
  <2>13. ASSUME NEW st \in {"cancelled", "no_show", "completed"},
                SetStatus(b, st)
         PROVE  SeatIsFree
    BY <2>5, <2>13 DEF SetStatus, Statuses
  <2>14. CASE RefuseEdit(b) \/ \E s \in Slots, kind \in EditKinds :
                                 BeginEdit(b, kind, s)
    BY <1>2, <2>14 DEF RefuseEdit, BeginEdit
  <2> QED
    BY <2>1, <2>7, <2>8, <2>9, <2>10, <2>11, <2>12, <2>13, <2>14
<1>4. ASSUME NEW o \in Offers, NEW b \in Bookings, Claim(o, b)
      PROVE  SeatIsFree
  <2>1. /\ booking' = [booking EXCEPT ![b] = [status |-> "confirmed",
                         slot |-> Slot(o), via |-> Slot(o).master]]
        /\ Free(Slot(o), {}, {o})
    BY <1>4 DEF Claim
  <2>2. offer'[o].status = "claimed"
    BY <1>4 DEF Claim, TypeOK
  <2> QED
    BY <1>1, <2>1, <2>2 DEF SeatIsFree, Seated, Taken, Free
<1>5. CASE \E o \in Offers : OfferStep /\ booking' # booking
  <2>1. \E o \in Offers, b \in Bookings : Claim(o, b)
    BY <1>5 DEF OfferStep, OfferSlot, SendDue, RefuseDue, EndJob, Project,
       Lapse, ExpireHold, Poll, Sync, ReadClaim, RefuseClaim, LateClaim,
       calendar
  <2> QED
    BY <1>4, <2>1
<1>6. booking' = booking \/ BookingStep \/ OfferStep
  <2>1. CASE SettingStep
    BY <2>1, SettingStepType
  <2>2. CASE RequestStep
    BY <2>2, RequestStepType DEF calendar
  <2> QED
    BY <2>1, <2>2 DEF Next, vars, calendar, DropSlot, Restart
<1>7. OfferStep => \E o \in Offers : TRUE
  BY DEF OfferStep
<1> QED
  BY <1>2, <1>3, <1>5, <1>6, <1>7

\* Visits of one master never overlap, in every reachable state.
THEOREM NeverDoubleBooked == Spec => []NoDoubleBooking
<1>1. Init => NoDoubleBooking
  BY DEF Init, CalendarInit, NoDoubleBooking, Taken, NoBooking
<1>2. TypeOK /\ EditHoldsRow /\ NoDoubleBooking /\ [Next]_vars
        => NoDoubleBooking'
  <2> SUFFICES ASSUME TypeOK, EditHoldsRow, NoDoubleBooking, [Next]_vars,
                      NEW b \in Bookings, NEW c \in Bookings, b # c,
                      Taken(b)', Taken(c)',
                      Clash(booking'[b].slot, booking'[c].slot)
               PROVE  FALSE
    BY DEF NoDoubleBooking, Clash
  <2>1. SeatIsFree
    BY StepSeats
  <2>2. CASE Seated(b)
    BY <2>1, <2>2 DEF SeatIsFree, Clash, Taken
  <2>3. CASE Seated(c)
    BY <2>1, <2>3 DEF SeatIsFree, Clash, Taken
  <2>4. CASE ~Seated(b) /\ ~Seated(c)
    BY <2>4 DEF Seated, NoDoubleBooking, Clash
  <2> QED
    BY <2>2, <2>3, <2>4
<1> QED
  BY <1>1, <1>2, TypeCorrect, EditsHoldRows, PTL DEF Spec

\* No step gives the interval of a live hold to another customer.
THEOREM HoldsAreRespected == Spec => HoldsRespected
<1>1. TypeOK /\ EditHoldsRow /\ [Next]_vars =>
        [\A b \in Bookings :
           Taken(b)' /\ (~Taken(b) \/ booking'[b].slot # booking[b].slot) =>
             \A o \in Offers :
                Held(o) /\ offer'[o].status # "claimed" =>
                  ~Clash(Slot(o), booking'[b].slot)]_vars
  BY StepSeats DEF SeatIsFree, Seated
<1> QED
  BY <1>1, TypeCorrect, EditsHoldRows, PTL DEF Spec, HoldsRespected

-----------------------------------------------------------------------------
\* When no claim and no poll goes stale, an offer that is open and a request
\* on offer are one and the same thing.
IsOpen(o) == offer[o].status \in Open
OnOffer(r) == request[r] = "offered"

Agreed ==
    /\ polled = {} /\ \A o \in Offers : claiming[o] = 0
    /\ \A o \in Offers : IsOpen(o) => OnOffer(Req(o))
    /\ \A r \in Requests : OnOffer(r) =>
         \E o \in Offers : Req(o) = r /\ IsOpen(o)
    /\ \A o, p \in Offers : Req(o) = Req(p) /\ IsOpen(o) /\ IsOpen(p) => o = p
    /\ \A o, p \in Offers : Slot(o) = Slot(p) /\ IsOpen(o) /\ IsOpen(p) => o = p

Still == polled' = polled /\ claiming' = claiming

LEMMA AgreedKept ==
    ASSUME Agreed, Still,
           \A o \in Offers : IsOpen(o)' <=> IsOpen(o),
           \A r \in Requests : OnOffer(r)' <=> OnOffer(r)
    PROVE  Agreed'
BY OfferParts DEF Agreed, Still, OnOffer, Req, Slot

LEMMA AgreedClosed ==
    ASSUME Agreed, Still, NEW o \in Offers, IsOpen(o), ~IsOpen(o)',
           \A p \in Offers : p # o => (IsOpen(p)' <=> IsOpen(p)),
           ~OnOffer(Req(o))',
           \A r \in Requests : r # Req(o) => (OnOffer(r)' <=> OnOffer(r))
    PROVE  Agreed'
<1>1. ASSUME NEW p \in Offers, IsOpen(p)' PROVE OnOffer(Req(p))' /\ IsOpen(p)
  BY <1>1, OfferParts DEF Agreed
<1>2. ASSUME NEW r \in Requests, OnOffer(r)'
      PROVE  \E p \in Offers : Req(p) = r /\ IsOpen(p)'
  BY <1>2 DEF Agreed
<1> QED
  BY <1>1, <1>2 DEF Agreed, Still, Req, Slot

LEMMA AgreedOpened ==
    ASSUME Agreed, Still, NEW o \in Offers, IsOpen(o)', ~OnOffer(Req(o)),
           \A p \in Offers : Slot(p) = Slot(o) => ~IsOpen(p),
           \A p \in Offers : p # o => (IsOpen(p)' <=> IsOpen(p)),
           OnOffer(Req(o))',
           \A r \in Requests : r # Req(o) => (OnOffer(r)' <=> OnOffer(r))
    PROVE  Agreed'
<1>1. ASSUME NEW p \in Offers, IsOpen(p)', p # o
      PROVE  IsOpen(p) /\ Req(p) # Req(o) /\ OnOffer(Req(p))'
             /\ Slot(p) # Slot(o)
  BY <1>1, OfferParts DEF Agreed
<1>2. ASSUME NEW r \in Requests, OnOffer(r)'
      PROVE  \E p \in Offers : Req(p) = r /\ IsOpen(p)'
  <2>1. CASE r = Req(o)
    BY <2>1
  <2>2. CASE r # Req(o)
    <3>1. PICK p \in Offers : Req(p) = r /\ IsOpen(p)
      BY <1>2, <2>2 DEF Agreed
    <3> QED
      BY <2>2, <3>1
  <2> QED
    BY <2>1, <2>2
<1>3. \A p, q \in Offers : Req(p) = Req(q) /\ IsOpen(p)' /\ IsOpen(q)' => p = q
  BY <1>1 DEF Agreed
<1>4. \A p, q \in Offers : Slot(p) = Slot(q) /\ IsOpen(p)' /\ IsOpen(q)'
                           => p = q
  BY <1>1 DEF Agreed
<1> QED
  BY <1>1, <1>2, <1>3, <1>4 DEF Agreed, Still, Req, Slot

LEMMA AgreedWithdrawn ==
    ASSUME TypeOK, Agreed, Still, NEW r \in Requests, ~OnOffer(r)',
           NEW st \in OfferStatuses \ Open, offer' = CloseOffers(r, st),
           \A q \in Requests : q # r => (OnOffer(q)' <=> OnOffer(q))
    PROVE  Agreed'
<1>1. \A o \in Offers : IsOpen(o)' <=> IsOpen(o) /\ Req(o) # r
  BY DEF CloseOffers, IsOpen, TypeOK
<1>2. \A o \in Offers : IsOpen(o)' => OnOffer(Req(o))'
  BY <1>1, OfferParts DEF Agreed
<1>3. \A q \in Requests : OnOffer(q)' =>
        \E o \in Offers : Req(o) = q /\ IsOpen(o)'
  BY <1>1 DEF Agreed
<1> QED
  BY <1>1, <1>2, <1>3 DEF Agreed, Still, Req, Slot

LEMMA ClosedAgrees ==
    ASSUME TypeOK, Agreed, Still, NEW o \in Offers, IsOpen(o),
           NEW st \in {"cancelled", "expired"}, Close(o, st)
    PROVE  Agreed'
<1>1. /\ offer \in [Offers -> OfferRow] /\ Req(o) \in Requests
      /\ request \in [Requests -> RequestStatuses]
  BY OfferParts DEF TypeOK, OfferRow
<1>2. ~IsOpen(o)' /\ \A p \in Offers : p # o => (IsOpen(p)' <=> IsOpen(p))
  BY <1>1 DEF Close, IsOpen, Open, Live, OfferRow
<1>3. ~OnOffer(Req(o))'
      /\ \A r \in Requests : r # Req(o) => (OnOffer(r)' <=> OnOffer(r))
  BY <1>1 DEF Close, Reset, OnOffer
<1> QED
  BY <1>2, <1>3, AgreedClosed

LEMMA ProjectAgrees ==
    ASSUME TypeOK, Agreed, NEW o \in Offers, Project(o)
    PROVE  Agreed'
<1>1. /\ offer \in [Offers -> OfferRow] /\ Req(o) \in Requests
      /\ request \in [Requests -> RequestStatuses]
      /\ IsOpen(o) => OnOffer(Req(o))
  BY OfferParts DEF TypeOK, OfferRow, Agreed
<1>2. Still
  BY <1>1 DEF Project, Still
<1>3. CASE /\ offer[o].job = "failed" /\ offer[o].status \in {"pending", "sent"}
  <2>1. /\ offer' = [[offer EXCEPT ![o].owed = FALSE] EXCEPT
                       ![o].status = "cancelled"]
        /\ request' = Reset(request, Req(o))
    BY <1>1, <1>3 DEF Project
  <2>2. IsOpen(o) /\ ~IsOpen(o)'
    BY <1>1, <1>3, <2>1 DEF IsOpen, Open, Live, OfferRow
  <2>3. \A p \in Offers : p # o => (IsOpen(p)' <=> IsOpen(p))
    BY <1>1, <2>1 DEF IsOpen
  <2>4. ~OnOffer(Req(o))'
        /\ \A r \in Requests : r # Req(o) => (OnOffer(r)' <=> OnOffer(r))
    BY <1>1, <2>1 DEF Reset, OnOffer
  <2> QED
    BY <1>2, <2>2, <2>3, <2>4, AgreedClosed
<1>4. CASE ~(offer[o].job = "failed" /\ offer[o].status \in {"pending", "sent"})
  <2>1. CASE offer[o].job \in {"accepted", "delivered"} /\ IsOpen(o)
    <3>1. /\ \E st \in {"sent", "delivered"} :
               offer' = [[offer EXCEPT ![o].owed = FALSE] EXCEPT
                           ![o].status = st]
          /\ request' = request \/ request' =
               [request EXCEPT ![Req(o)] = "offered"]
      BY <1>1, <2>1 DEF Project, IsOpen
    <3>2. \A p \in Offers : IsOpen(p)' <=> IsOpen(p)
      BY <1>1, <2>1, <3>1 DEF IsOpen, Open, Live, OfferRow
    <3>3. \A r \in Requests : OnOffer(r)' <=> OnOffer(r)
      BY <1>1, <2>1, <3>1 DEF OnOffer
    <3> QED
      BY <1>2, <3>2, <3>3, AgreedKept
  <2>2. CASE ~(offer[o].job \in {"accepted", "delivered"} /\ IsOpen(o))
    <3>1. offer' = [offer EXCEPT ![o].owed = FALSE] /\ request' = request
      BY <1>1, <1>4, <2>2 DEF Project, IsOpen
    <3>2. \A p \in Offers : IsOpen(p)' <=> IsOpen(p)
      BY <1>1, <3>1 DEF IsOpen, OfferRow
    <3> QED
      BY <1>2, <3>1, <3>2, AgreedKept DEF OnOffer
  <2> QED
    BY <2>1, <2>2
<1> QED
  BY <1>3, <1>4

LEMMA AgreedStep ==
    ASSUME MaxStale = 0, TypeOK, Agreed, [Next]_vars
    PROVE  Agreed'
<1> USE DEF Open, Live
<1>1. /\ offer \in [Offers -> OfferRow]
      /\ request \in [Requests -> RequestStatuses]
      /\ polled = {} /\ \A o \in Offers : claiming[o] = 0
  BY DEF TypeOK, OfferRow, Agreed
<1>2. ASSUME offer' = offer, request' = request, Still PROVE Agreed'
  BY <1>2, AgreedKept DEF IsOpen, OnOffer
<1>3. ASSUME BookingStep \/ SettingStep, UNCHANGED waitlist PROVE Agreed'
  <2>1. offer' = offer
    BY <1>3, BookingStepType, SettingStepType
  <2> QED
    BY <1>2, <1>3, <2>1 DEF waitlist, Still
<1>4. ASSUME NEW r \in Requests, Ask(r) PROVE Agreed'
  <2>1. \A q \in Requests : OnOffer(q)' <=> OnOffer(q)
    BY <1>1, <1>4 DEF Ask, OnOffer
  <2>2. Still /\ offer' = offer
    BY <1>4 DEF Ask, Still
  <2> QED
    BY <2>1, <2>2, AgreedKept DEF IsOpen
<1>5. ASSUME NEW r \in Requests, CancelRequest(r) PROVE Agreed'
  <2>1. ~OnOffer(r)' /\ \A q \in Requests : q # r =>
                          (OnOffer(q)' <=> OnOffer(q))
    BY <1>1, <1>5 DEF CancelRequest, OnOffer
  <2>2. Still /\ offer' = CloseOffers(r, "cancelled")
        /\ "cancelled" \in OfferStatuses \ Open
    BY <1>5 DEF CancelRequest, Still, OfferStatuses
  <2> QED
    BY <2>1, <2>2, AgreedWithdrawn
<1>6. ASSUME NEW r \in Requests, ExpireRequest(r) PROVE Agreed'
  <2>1. ~OnOffer(r)' /\ \A q \in Requests : q # r =>
                          (OnOffer(q)' <=> OnOffer(q))
    BY <1>1, <1>6 DEF ExpireRequest, OnOffer
  <2>2. Still /\ offer' = CloseOffers(r, "expired")
        /\ "expired" \in OfferStatuses \ Open
    BY <1>6 DEF ExpireRequest, Still, OfferStatuses
  <2> QED
    BY <2>1, <2>2, AgreedWithdrawn
<1>7. CASE OfferStep
  <2>1. PICK o \in Offers :
        \/ \E deferred \in BOOLEAN : OfferSlot(o, deferred)
        \/ SendDue(o)
        \/ \E handOn \in BOOLEAN : RefuseDue(o, handOn)
        \/ \E end \in Jobs \ {"none", "queued"} : EndJob(o, end)
        \/ Project(o)
        \/ Lapse(o)
        \/ ExpireHold(o)
        \/ Poll(o)
        \/ \E delivered \in BOOLEAN : Sync(o, delivered)
        \/ ReadClaim(o)
        \/ \E b \in Bookings : Claim(o, b)
        \/ RefuseClaim(o)
        \/ LateClaim(o)
    BY <1>7 DEF OfferStep
  <2>2. Req(o) \in Requests
    BY OfferParts
  <2>3. ASSUME offer' \in [Offers -> OfferRow], request' = request, Still,
               offer'[o].status = offer[o].status,
               \A p \in Offers : p # o => offer'[p] = offer[p]
        PROVE  Agreed'
    BY <2>3, AgreedKept DEF IsOpen, OnOffer
  <2>4. offer' \in [Offers -> OfferRow]
    BY <1>7, OfferStepType
  <2>5. ASSUME NEW deferred \in BOOLEAN, OfferSlot(o, deferred) PROVE Agreed'
    <3>1. IsOpen(o)' /\ \A p \in Offers : p # o => (IsOpen(p)' <=> IsOpen(p))
      BY <1>1, <2>5 DEF OfferSlot, IsOpen
    <3>2. \A p \in Offers : Slot(p) = Slot(o) => ~IsOpen(p)
      BY <2>5 DEF OfferSlot, Offerable, IsOpen
    <3>3. /\ ~OnOffer(Req(o)) /\ OnOffer(Req(o))'
          /\ \A r \in Requests : r # Req(o) => (OnOffer(r)' <=> OnOffer(r))
      BY <1>1, <2>2, <2>5 DEF OfferSlot, Eligible, OnOffer
    <3>4. Still
      BY <2>5 DEF OfferSlot, Still
    <3> QED
      BY <3>1, <3>2, <3>3, <3>4, AgreedOpened
  <2>6. CASE SendDue(o)
    BY <1>1, <2>3, <2>4, <2>6 DEF SendDue, Still, waitlist
  <2>7. ASSUME NEW end \in Jobs, EndJob(o, end) PROVE Agreed'
    BY <1>1, <2>3, <2>4, <2>7 DEF EndJob, Still, waitlist
  <2>8. CASE Lapse(o)
    BY <1>1, <2>3, <2>4, <2>8 DEF Lapse, Still, waitlist
  <2>9. ASSUME NEW handOn \in BOOLEAN, RefuseDue(o, handOn) PROVE Agreed'
    BY <2>9, ClosedAgrees DEF RefuseDue, Still, IsOpen
  <2>10. CASE Project(o)
    BY <2>10, ProjectAgrees
  <2>11. CASE ExpireHold(o)
    BY <2>11, ClosedAgrees DEF ExpireHold, Still, IsOpen
  <2>12. ~Poll(o) /\ ~ReadClaim(o)
    BY <1>1 DEF Poll, ReadClaim
  <2>13. ASSUME NEW delivered \in BOOLEAN, Sync(o, delivered) PROVE Agreed'
    <3>1. offer[o].status = "sent" /\ Still
      BY <1>1, <2>13 DEF Sync, Still
    <3>2. CASE delivered
      <4>1. /\ offer' = [offer EXCEPT ![o].status = "delivered"]
            /\ request' = request
        BY <2>13, <3>2 DEF Sync
      <4>2. \A p \in Offers : IsOpen(p)' <=> IsOpen(p)
        BY <1>1, <3>1, <4>1 DEF IsOpen, OfferRow
      <4> QED
        BY <3>1, <4>1, <4>2, AgreedKept DEF OnOffer
    <3>3. CASE ~delivered
      BY <2>13, <3>1, <3>3, ClosedAgrees DEF Sync, IsOpen
    <3> QED
      BY <3>2, <3>3
  <2>14. Decides(o) => IsOpen(o) /\ claiming' = claiming
    BY <1>1 DEF Decides, IsOpen
  <2>15. ASSUME NEW b \in Bookings, Claim(o, b) PROVE Agreed'
    <3>1. ~IsOpen(o)' /\ \A p \in Offers : p # o => (IsOpen(p)' <=> IsOpen(p))
      BY <1>1, <2>15 DEF Claim, IsOpen
    <3>2. ~OnOffer(Req(o))'
          /\ \A r \in Requests : r # Req(o) => (OnOffer(r)' <=> OnOffer(r))
      BY <1>1, <2>2, <2>15 DEF Claim, OnOffer
    <3>3. Still /\ IsOpen(o)
      BY <2>14, <2>15 DEF Claim, Still
    <3> QED
      BY <3>1, <3>2, <3>3, AgreedClosed
  <2>16. CASE RefuseClaim(o)
    <3>1. ~IsOpen(o)' /\ \A p \in Offers : p # o => (IsOpen(p)' <=> IsOpen(p))
      BY <1>1, <2>16 DEF RefuseClaim, IsOpen
    <3>2. ~OnOffer(Req(o))'
          /\ \A r \in Requests : r # Req(o) => (OnOffer(r)' <=> OnOffer(r))
      BY <1>1, <2>2, <2>16 DEF RefuseClaim, OnOffer
    <3>3. Still /\ IsOpen(o)
      BY <2>14, <2>16 DEF RefuseClaim, Still
    <3> QED
      BY <3>1, <3>2, <3>3, AgreedClosed
  <2>17. CASE LateClaim(o)
    <3>1. Still /\ IsOpen(o)
      BY <2>14, <2>17 DEF LateClaim, Still
    <3> QED
      BY <2>17, <3>1, ClosedAgrees DEF LateClaim
  <2> QED
    BY <2>1, <2>5, <2>6, <2>7, <2>8, <2>9, <2>10, <2>11, <2>12, <2>13, <2>15,
       <2>16, <2>17
<1>8. ASSUME NEW s \in freed, DropSlot(s) PROVE Agreed'
  BY <1>2, <1>8 DEF DropSlot, waitlist, Still
<1>9. CASE Restart
  <2>1. /\ \A o \in Offers : IsOpen(o)' <=> IsOpen(o)
        /\ \A r \in Requests : OnOffer(r)' <=> OnOffer(r)
        /\ polled' = {} /\ \A o \in Offers : claiming'[o] = 0
    BY <1>9 DEF Restart, IsOpen, OnOffer
  <2> QED
    BY <2>1, OfferParts DEF Agreed, Req, Slot
<1>10. CASE UNCHANGED vars
  BY <1>2, <1>10 DEF vars, waitlist, Still
<1> QED
  BY <1>3, <1>4, <1>5, <1>6, <1>7, <1>8, <1>9, <1>10 DEF Next, RequestStep

LEMMA AgreedMeans ==
    ASSUME TypeOK, Agreed
    PROVE  OneOfferPerSlot /\ OfferedExactly
<1>1. OneOfferPerSlot
  BY DEF OneOfferPerSlot, Agreed, IsOpen
<1>2. ASSUME NEW r \in Requests,
             NEW mine, mine = {o \in Offers : Req(o) = r
                                              /\ offer[o].status \in Open}
      PROVE  (request[r] = "offered" <=> mine # {}) /\ Cardinality(mine) <= 1
  <2>1. request[r] = "offered" <=> mine # {}
    BY <1>2 DEF Agreed, IsOpen, OnOffer
  <2>2. CASE mine = {}
    BY <2>1, <2>2, FS_EmptySet
  <2>3. CASE mine # {}
    <3>1. PICK o \in mine : TRUE
      BY <2>3
    <3>2. mine = {o}
      BY <1>2, <3>1 DEF Agreed, IsOpen
    <3>3. Cardinality({o}) = 1
      BY FS_Singleton, Zenon
    <3> QED
      BY <2>1, <3>2, <3>3
  <2> QED
    BY <2>2, <2>3
<1> QED
  BY <1>1, <1>2 DEF OfferedExactly

\* When no read goes stale, a slot has one open offer at most, and a request is
\* on offer exactly while it has one.
THEOREM OffersAgree ==
    ASSUME MaxStale = 0
    PROVE  Spec => [](OneOfferPerSlot /\ OfferedExactly)
<1>1. Init => Agreed
  BY DEF Init, Agreed, IsOpen, OnOffer, NoOffer, Open, Live
<1>2. TypeOK /\ Agreed /\ [Next]_vars => Agreed'
  BY AgreedStep
<1>3. TypeOK /\ Agreed => OneOfferPerSlot /\ OfferedExactly
  BY AgreedMeans
<1> QED
  BY <1>1, <1>2, <1>3, TypeCorrect, PTL DEF Spec

\* A customer's request shows an offer exactly while one is open for it: no
\* claim, decline, expiry or withdrawal leaves it on offer without one, nor
\* open offers behind a request that is back in the queue or closed.
THEOREM RequestsOnOffer ==
    ASSUME MaxStale = 0
    PROVE  Spec => []OfferedExactly
BY OffersAgree, PTL

\* What a step does to the requests: it leaves them, or asks or closes one that
\* is not closed, or settles one that is on offer.
LEMMA RequestEffect ==
    ASSUME MaxStale = 0, TypeOK, Agreed, [Next]_vars
    PROVE  \/ request' = request
           \/ \E r \in Requests, st \in RequestStatuses \ {"booked"} :
                /\ request[r] \notin {"booked", "cancelled", "expired"}
                /\ request' = [request EXCEPT ![r] = st]
           \/ \E o \in Offers : /\ OnOffer(Req(o)) /\ Held(o)
                                /\ offer'[o].status = "claimed"
                                /\ request' = [request EXCEPT ![Req(o)] = "booked"]
<1> DEFINE Settled == \E r \in Requests, st \in RequestStatuses \ {"booked"} :
                        /\ request[r] \notin {"booked", "cancelled", "expired"}
                        /\ request' = [request EXCEPT ![r] = st]
<1>1. /\ offer \in [Offers -> OfferRow]
      /\ request \in [Requests -> RequestStatuses]
      /\ polled = {} /\ \A o \in Offers : claiming[o] = 0
      /\ \A o \in Offers : Req(o) \in Requests
  BY OfferParts DEF TypeOK, OfferRow, Agreed
<1>2. \A o \in Offers : offer[o].status \in Open => OnOffer(Req(o))
  BY DEF Agreed, IsOpen
<1>3. ASSUME NEW o \in Offers, request' = Reset(request, Req(o))
      PROVE  request' = request \/ Settled
  <2>1. CASE request[Req(o)] = "offered"
    <3>1. request' = [request EXCEPT ![Req(o)] = "active"]
      BY <1>1, <1>3, <2>1 DEF Reset
    <3> QED
      BY <1>1, <2>1, <3>1 DEF RequestStatuses
  <2>2. CASE request[Req(o)] # "offered"
    BY <1>1, <1>3, <2>2 DEF Reset
  <2> QED
    BY <2>1, <2>2
<1>4. ASSUME NEW r \in Requests, Ask(r) \/ CancelRequest(r) \/ ExpireRequest(r)
      PROVE  Settled
  <2>1. PICK st \in {"active", "cancelled", "expired"} :
          request' = [request EXCEPT ![r] = st]
    BY <1>4 DEF Ask, CancelRequest, ExpireRequest
  <2>2. request[r] \notin {"booked", "cancelled", "expired"}
    BY <1>4 DEF Ask, CancelRequest, ExpireRequest, Waiting
  <2>3. st \in RequestStatuses \ {"booked"}
    BY DEF RequestStatuses
  <2> QED
    BY <2>1, <2>2, <2>3
<1>5. ASSUME NEW o \in Offers, NEW deferred \in BOOLEAN, OfferSlot(o, deferred)
      PROVE  Settled
  <2>1. request' = [request EXCEPT ![Req(o)] = "offered"]
        /\ request[Req(o)] = "active"
    BY <1>5 DEF OfferSlot, Eligible
  <2>2. "offered" \in RequestStatuses \ {"booked"}
    BY DEF RequestStatuses
  <2> QED
    BY <1>1, <2>1, <2>2
<1>6. ASSUME NEW o \in Offers, Project(o)
      PROVE  request' = request \/ Settled
  <2>1. \/ request' = request
        \/ request' = Reset(request, Req(o))
        \/ request' = [request EXCEPT ![Req(o)] = "offered"]
           /\ request[Req(o)] \in Waiting
    BY <1>1, <1>6 DEF Project
  <2>2. "offered" \in RequestStatuses \ {"booked"}
    BY DEF RequestStatuses
  <2> QED
    BY <1>1, <1>3, <2>1, <2>2 DEF Waiting
<1>7. ASSUME NEW o \in Offers, Decides(o)
      PROVE  offer[o].status \in Live /\ OnOffer(Req(o))
  BY <1>1, <1>2, <1>7 DEF Decides, Open
<1>8. ASSUME NEW o \in Offers, NEW b \in Bookings, Claim(o, b)
      PROVE  /\ OnOffer(Req(o)) /\ Held(o) /\ offer'[o].status = "claimed"
             /\ request' = [request EXCEPT ![Req(o)] = "booked"]
  BY <1>1, <1>7, <1>8 DEF Claim, Held
<1>9. ASSUME NEW o \in Offers, RefuseClaim(o) PROVE Settled
  <2>1. request[Req(o)] = "offered"
        /\ request' = [request EXCEPT ![Req(o)] = "active"]
    BY <1>7, <1>9 DEF RefuseClaim, OnOffer
  <2>2. "active" \in RequestStatuses \ {"booked"}
    BY DEF RequestStatuses
  <2> QED
    BY <1>1, <2>1, <2>2
<1>10. ASSUME NEW o \in Offers,
              \/ \E handOn \in BOOLEAN : RefuseDue(o, handOn)
              \/ ExpireHold(o) \/ LateClaim(o)
       PROVE  request' = request \/ Settled
  BY <1>3, <1>10 DEF RefuseDue, ExpireHold, LateClaim, Close
<1>11. ASSUME NEW o \in Offers, NEW delivered \in BOOLEAN, Sync(o, delivered)
       PROVE  request' = request \/ Settled
  BY <1>3, <1>11 DEF Sync, Close
<1>12. ASSUME NEW o \in Offers,
              \/ SendDue(o) \/ Lapse(o) \/ Poll(o) \/ ReadClaim(o)
              \/ \E end \in Jobs : EndJob(o, end)
       PROVE  request' = request
  BY <1>12 DEF SendDue, Lapse, Poll, ReadClaim, EndJob, waitlist
<1>13. CASE OfferStep
  BY <1>5, <1>6, <1>8, <1>9, <1>10, <1>11, <1>12, <1>13 DEF OfferStep
<1>14. CASE RequestStep
  BY <1>4, <1>14 DEF RequestStep
<1> QED
  BY <1>13, <1>14 DEF Next, vars, waitlist, DropSlot, Restart

\* When no read goes stale, a request that is closed stays closed, and it is
\* booked by the claim of a live hold of its own.
THEOREM ClosedRequestsStay ==
    ASSUME MaxStale = 0
    PROVE  Spec => ClosedStaysClosed
<1>1. TypeOK /\ Agreed /\ [Next]_vars =>
        [\A r \in Requests :
           /\ request[r] \in {"booked", "cancelled", "expired"} =>
                request'[r] = request[r]
           /\ request'[r] = "booked" /\ request[r] # "booked" =>
                \E o \in Offers : Req(o) = r /\ Held(o)
                                   /\ offer'[o].status = "claimed"]_vars
  <2> SUFFICES ASSUME TypeOK, Agreed, [Next]_vars, NEW r \in Requests
               PROVE  /\ request[r] \in {"booked", "cancelled", "expired"} =>
                           request'[r] = request[r]
                      /\ request'[r] = "booked" /\ request[r] # "booked" =>
                           \E o \in Offers : Req(o) = r /\ Held(o)
                                              /\ offer'[o].status = "claimed"
    OBVIOUS
  <2>1. request \in [Requests -> RequestStatuses]
    BY DEF TypeOK
  <2> QED
    BY <2>1, RequestEffect DEF OnOffer
<1>2. Init => Agreed
  BY DEF Init, Agreed, IsOpen, OnOffer, NoOffer, Open, Live
<1>3. TypeOK /\ Agreed /\ [Next]_vars => Agreed'
  BY AgreedStep
<1> QED
  BY <1>1, <1>2, <1>3, TypeCorrect, PTL DEF Spec, ClosedStaysClosed
=============================================================================
