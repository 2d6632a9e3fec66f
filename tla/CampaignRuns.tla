----------------------------- MODULE CampaignRuns -----------------------------
(****************************************************************************)
(* Marketing campaigns: a launched run takes a snapshot of its audience,    *)
(* every recipient is sent by Telegram or through the durable SMS queue,    *)
(* and administrators pause, archive and cancel while messages are on their *)
(* way.  One campaign, several runs of it, customers in more than one run.  *)
(*                                                                          *)
(* Each action is one database transaction.  Those of one recipient lock    *)
(* campaign, customer and recipient in that order.  The queue is used       *)
(* through what SmsQueue shows of it: a claim is asked for eligibility,     *)
(* passes the final gate and starts its transport at most once unless the   *)
(* request was refused, an abandoned claim is taken back, and a retry waits *)
(* for its outcome to be projected.                                         *)
(*                                                                          *)
(* Days do not pass: every contact stays within the frequency window.  The  *)
(* sending window, the throughput limits and the conditions of the audience *)
(* are open, so a send that asks them may be deferred or skipped by them.   *)
(****************************************************************************)
EXTENDS Naturals, FiniteSets

CONSTANTS
    Runs,
    Customers,
    Recipients,
    RunOf,          \* the run of a recipient
    CustomerOf,     \* its customer
    OnTelegram,     \* recipients with a Telegram chat (telegram_then_sms)
    StatusChanges,  \* the statuses an administrator gives the campaign
    MaxStale        \* eligibility calls of one job that outlive their lease

ASSUME RunAssumption == RunOf \in [Recipients -> Runs]
ASSUME CustomerAssumption == CustomerOf \in [Recipients -> Customers]
ASSUME RecipientAssumption ==
    IsFiniteSet(Recipients) /\ OnTelegram \subseteq Recipients
ASSUME StaleAssumption == MaxStale \in Nat

VARIABLES
    campaign,   \* Campaign.status
    barred,     \* customers who opted out or are not to be contacted
    run,        \* CampaignRun.status
    recipient,  \* MessageRecipient rows
    attempt,    \* TelegramDeliveryAttempt.state
    sender,     \* the send_recipient call that uses Telegram
    job,        \* SmsQueueJob rows
    stale,      \* eligibility calls still running after their lease
    seen,       \* the outcome that a projection has read and not yet written
    provider    \* what SMSClub and Telegram did with the message

admin == <<campaign, barred, run>>
telegram == <<attempt, sender>>
queue == <<job, stale, seen>>
vars == <<admin, recipient, telegram, queue, provider>>

-----------------------------------------------------------------------------
\* CampaignStatus; completed stops dispatch as draft does and is left out.
CampaignStatuses == {"draft", "active", "paused", "archived"}
ASSUME StatusAssumption == StatusChanges \subseteq CampaignStatuses
RunStatuses == {"none", "scheduled", "snapshotted", "completed", "cancelled",
                "failed"}

\* MessageDeliveryStatus; "unclear" is failed with delivery_uncertain.
RecipientStatuses == {"none", "pending", "sent", "delivered", "failed",
                      "unclear", "skipped"}

\* reserved and sent: send_started_at and sent_at are set.
Row == [status : RecipientStatuses, reserved : BOOLEAN, sent : BOOLEAN]
NoRow == [status |-> "none", reserved |-> FALSE, sent |-> FALSE]
NewRow == [NoRow EXCEPT !.status = "pending"]

\* "undelivered" is failed with provider_delivery_failed, after acceptance.
Ended == {"accepted", "delivered", "undelivered", "failed", "skipped",
          "uncertain", "cancelled"}
JobStatuses == {"none", "queued", "dispatching"} \cup Ended

\* Where a claim is: asking for eligibility, eligible, refused by eligibility
\* or by the gate, its transport started, or started and not acknowledged.
Phases == {"idle", "asking", "allowed", "skip", "defer", "started", "aborted"}

\* fresh: never claimed; owed: an outcome that is not projected yet.
Job == [status : JobStatuses, phase : Phases, fresh : BOOLEAN, owed : BOOLEAN]
NoJob == [status |-> "none", phase |-> "idle", fresh |-> FALSE, owed |-> FALSE]
NewJob == [NoJob EXCEPT !.status = "queued", !.fresh = TRUE]
Outcome(status) == [NoJob EXCEPT !.status = status, !.owed = TRUE]

Attempts == {"none", "attempting", "accepted", "rejected", "ambiguous"}
Senders == {"none", "reserved", "waiting", "accepted", "rejected", "gone",
            "ambiguous"}
Channels == {"sms", "telegram"}

\* A request whose answer nobody knows stays open: it may have been taken.
Requests == {"none", "open", "taken"}

Init ==
    /\ campaign = "draft"
    /\ barred = {}
    /\ run = [x \in Runs |-> "none"]
    /\ recipient = [r \in Recipients |-> NoRow]
    /\ attempt = [r \in Recipients |-> "none"]
    /\ sender = [r \in Recipients |-> "none"]
    /\ job = [r \in Recipients |-> NoJob]
    /\ stale = [r \in Recipients |-> 0]
    /\ seen = [r \in Recipients |-> "none"]
    /\ provider = [r \in Recipients |-> [c \in Channels |-> "none"]]

Members(x) == {r \in Recipients : RunOf[r] = x}
Pending(rows, x) == {r \in Members(x) : rows[r].status = "pending"}

\* Mutant: only the last recipient that was sent closes its run.
CompletedBySend(rows, r) ==
    LET x == RunOf[r] IN
    IF run[x] # "cancelled" /\ Pending(rows, x) = {} /\ rows[r].sent
    THEN [run EXCEPT ![x] = "completed"] ELSE run

\* _complete_run_if_finished, under the lock of the run.
Completed(rows, r) ==
    LET x == RunOf[r] IN
    IF run[x] # "cancelled" /\ Pending(rows, x) = {}
    THEN [run EXCEPT ![x] = "completed"] ELSE run

\* The recipient's row becomes row, and its run is closed if it was the last.
Settle(r, row) ==
    /\ recipient' = [recipient EXCEPT ![r] = row]
    /\ run' = Completed(recipient', r)
    /\ UNCHANGED <<campaign, barred>>

\* Mutant: only messages known to be accepted count as contacts.
CappedBySent(r) ==
    \E p \in Recipients \ {r} :
        CustomerOf[p] = CustomerOf[r] /\ recipient[p].sent

\* marketing_contact_predicate: acceptance, or a claim that may have led to it.
Capped(r) ==
    \E p \in Recipients \ {r} :
        /\ CustomerOf[p] = CustomerOf[r]
        /\ recipient[p].sent \/ recipient[p].reserved

Barred(r) == CustomerOf[r] \in barred

-----------------------------------------------------------------------------
(* Administration.                                                          *)

SetStatus(status) ==
    /\ campaign # status /\ campaign' = status
    /\ UNCHANGED <<barred, run, recipient, telegram, queue, provider>>

OptOut(c) ==
    /\ c \notin barred /\ barred' = barred \cup {c}
    /\ UNCHANGED <<campaign, run, recipient, telegram, queue, provider>>

\* snapshot: the audience is evaluated once, and an empty one ends the run.
Snapshot(x, audience) ==
    /\ audience \subseteq Members(x)
    /\ recipient' = [r \in Recipients |->
                       IF r \in audience THEN NewRow ELSE recipient[r]]
    /\ run' = [run EXCEPT ![x] = IF audience = {} THEN "completed"
                                 ELSE "snapshotted"]

\* launch, once per idempotency key: at once, or scheduled for later.
Launch(x) ==
    /\ run[x] = "none" /\ campaign \in {"draft", "active"}
    /\ campaign' = "active"
    /\ \/ \E audience \in SUBSET Members(x) : Snapshot(x, audience)
       \/ run' = [run EXCEPT ![x] = "scheduled"] /\ UNCHANGED recipient
    /\ UNCHANGED <<barred, telegram, queue, provider>>

\* process_due_runs; a snapshot that is refused fails the run.
ProcessDueRun(x) ==
    /\ run[x] = "scheduled" /\ campaign = "active"
    /\ \/ \E audience \in SUBSET Members(x) : Snapshot(x, audience)
       \/ run' = [run EXCEPT ![x] = "failed"] /\ UNCHANGED recipient
    /\ UNCHANGED <<campaign, barred, telegram, queue, provider>>

\* retry_failed: what was definitely not sent may be sent again.
RetryFailed(r) ==
    /\ recipient[r].status = "failed" /\ ~recipient[r].reserved
    /\ job[r].status = "none"
    /\ recipient' = [recipient EXCEPT ![r].status = "pending"]
    /\ UNCHANGED <<admin, telegram, queue, provider>>

\* A claim whose lease was taken away may still be waiting for its answer.
Outlives(r) == job[r].phase = "asking" /\ stale[r] < MaxStale
Abandoned(R) ==
    \E alive \in SUBSET {r \in R : Outlives(r)} :
        stale' = [r \in Recipients |->
                    IF r \in alive THEN stale[r] + 1 ELSE stale[r]]

Unsent(r) == \/ job[r].status = "queued"
             \/ /\ job[r].status = "dispatching"
                /\ job[r].phase \notin {"started", "aborted"}

\* Recipients of a snapshot, and jobs of an enqueue, committed between two
\* statements of the cancellation: those are left to eligibility.
Missable(r) ==
    /\ recipient[r].status = "pending" /\ ~recipient[r].reserved
    /\ job[r].status = "none" \/ job[r].fresh

\* Jobs of R that were not started, and the recipients they release.
UnsentIn(R) == {r \in R : Unsent(r)}
Released(R) ==
    {r \in R : /\ recipient[r].status = "pending"
               /\ \/ Unsent(r)
                  \/ job[r].status = "none" /\ ~recipient[r].reserved}

Cancelling(R) ==
    /\ job' = [r \in Recipients |->
                 IF r \in UnsentIn(R) THEN Outcome("cancelled") ELSE job[r]]
    /\ recipient' = [r \in Recipients |->
                 IF r \in Released(R)
                 THEN [recipient[r] EXCEPT !.status = "skipped", !.reserved = FALSE]
                 ELSE recipient[r]]
    /\ Abandoned(UnsentIn(R))

\* cancel_run_unsent, under the campaign's lock.
CancelRunUnsent(x) ==
    /\ run[x] # "none"
    /\ run' = [run EXCEPT ![x] = "cancelled"]
    /\ \E missed \in SUBSET {r \in Members(x) : Missable(r)} :
         Cancelling(Members(x) \ missed)
    /\ UNCHANGED <<campaign, barred, telegram, seen, provider>>

-----------------------------------------------------------------------------
(* send_recipient, of a recipient nothing was tried for yet.                *)

Unsettled(r) ==
    /\ recipient[r].status = "pending" /\ ~recipient[r].reserved
    /\ job[r].status = "none" /\ campaign = "active"
    /\ attempt[r] \in {"none", "rejected"}

SkipCancelled(r) ==
    /\ Unsettled(r) /\ run[RunOf[r]] = "cancelled"
    /\ recipient' = [recipient EXCEPT ![r].status = "skipped"]
    /\ UNCHANGED <<admin, telegram, queue, provider>>

\* Consent, the cap, or a condition of the audience; or no provider.
SkipRecipient(r, status) ==
    /\ Unsettled(r) /\ run[RunOf[r]] # "cancelled"
    /\ status = "failed" => ~Barred(r) /\ ~Capped(r)
    /\ Settle(r, [recipient[r] EXCEPT !.status = status])
    /\ UNCHANGED <<telegram, queue, provider>>

Sendable(r) == /\ Unsettled(r) /\ run[RunOf[r]] # "cancelled"
               /\ ~Barred(r) /\ ~Capped(r)

Enqueue(r) ==
    /\ Sendable(r) /\ r \notin OnTelegram
    /\ job' = [job EXCEPT ![r] = NewJob]
    /\ UNCHANGED <<admin, recipient, telegram, stale, seen, provider>>

\* "Commit BEFORE external I/O: a crash/timeout must never silently resend."
Reserve(r) ==
    /\ Sendable(r) /\ r \in OnTelegram /\ sender[r] = "none"
    /\ recipient' = [recipient EXCEPT ![r].reserved = TRUE]
    /\ sender' = [sender EXCEPT ![r] = "reserved"]
    /\ UNCHANGED <<admin, attempt, queue, provider>>

\* durable_telegram_send owns the attempt before it calls Telegram.
Post(r) ==
    /\ sender[r] = "reserved" /\ attempt[r] \in {"none", "rejected"}
    /\ attempt' = [attempt EXCEPT ![r] = "attempting"]
    /\ sender' = [sender EXCEPT ![r] = "waiting"]
    /\ provider' = [provider EXCEPT ![r]["telegram"] = "open"]
    /\ UNCHANGED <<admin, recipient, queue>>

\* _send_owned records the answer with the attempt.
Answer(r, answer) ==
    /\ sender[r] = "waiting"
    /\ attempt' = [attempt EXCEPT ![r] =
                     IF answer = "gone" THEN "rejected" ELSE answer]
    /\ sender' = [sender EXCEPT ![r] = answer]
    /\ provider' = [provider EXCEPT ![r]["telegram"] =
                      CASE answer = "accepted" -> "taken"
                        [] answer = "ambiguous" -> "open"
                        [] OTHER -> "none"]
    /\ UNCHANGED <<admin, recipient, queue>>

\* A destination that Telegram rejected for good may fall back to SMS.
FallBack(r) ==
    /\ sender[r] = "gone"
    /\ sender' = [sender EXCEPT ![r] = "none"]
    /\ recipient' = [recipient EXCEPT ![r].reserved = FALSE]
    /\ job' = [job EXCEPT ![r] = NewJob]
    /\ UNCHANGED <<admin, attempt, stale, seen, provider>>

\* What the sender makes of its answer; a reconciled row is left alone.
Recorded(row, answer) ==
    CASE answer = "accepted" -> [row EXCEPT !.status = "sent", !.sent = TRUE]
      [] answer = "ambiguous" -> [row EXCEPT !.status = "unclear"]
      [] OTHER -> [row EXCEPT !.status = "failed", !.reserved = FALSE]

Record(r) ==
    /\ sender[r] \in {"accepted", "rejected", "gone", "ambiguous"}
    /\ sender' = [sender EXCEPT ![r] = "none"]
    /\ IF sender[r] = "accepted" /\ recipient[r].status \in {"sent", "delivered"}
       THEN UNCHANGED <<admin, recipient>>
       ELSE Settle(r, Recorded(recipient[r], sender[r]))
    /\ UNCHANGED <<attempt, queue, provider>>

\* The process dies, or loses its database, before its next commit.
SenderDies(r) ==
    /\ sender[r] # "none"
    /\ sender' = [sender EXCEPT ![r] = "none"]
    /\ UNCHANGED <<admin, recipient, attempt, queue, provider>>

\* Mutant: rows that were already given up are not looked at again.
ReconcilePending(r) ==
    /\ attempt[r] = "accepted" /\ recipient[r].status = "pending"
    /\ Settle(r, Recorded(recipient[r], "accepted"))
    /\ UNCHANGED <<telegram, queue, provider>>

\* reconcile_interrupted_sends (and send_recipient): an accepted attempt
\* decides its recipient, whatever was made of it before.
ReconcileAccepted(r) ==
    /\ attempt[r] = "accepted"
    /\ recipient[r].status \in {"pending", "failed", "unclear"}
    /\ Settle(r, Recorded(recipient[r], "accepted"))
    /\ UNCHANGED <<telegram, queue, provider>>

\* Mutant: an interrupted send goes back to be sent again.
ReconcileResends(r) ==
    /\ recipient[r].status = "pending" /\ recipient[r].reserved
    /\ job[r].status = "none" /\ sender[r] = "none"
    /\ Settle(r, [recipient[r] EXCEPT !.reserved = FALSE])
    /\ attempt' = [attempt EXCEPT ![r] = "none"]
    /\ UNCHANGED <<sender, queue, provider>>

\* "Surface abandoned durable claims; never turn them back into sendable
\* work."  No sender outlasts the 15 minutes this waits; the batch limit may
\* leave accepted attempts of other recipients for a later round.
ReconcileStale(r) ==
    /\ recipient[r].status = "pending" /\ recipient[r].reserved
    /\ job[r].status = "none" /\ sender[r] = "none"
    /\ Settle(r, [recipient[r] EXCEPT !.status = "unclear"])
    /\ UNCHANGED <<telegram, queue, provider>>

-----------------------------------------------------------------------------
(* The durable queue's jobs of this campaign.                               *)

\* An outcome must have been projected before its job is claimed again.
Claim(r) ==
    /\ job[r].status = "queued" /\ ~job[r].owed
    /\ job' = [job EXCEPT ![r] = [NoJob EXCEPT !.status = "dispatching",
                                             !.phase = "asking"]]
    /\ UNCHANGED <<admin, recipient, telegram, stale, seen, provider>>

\* sms_job_eligibility reserves the recipient, under campaign, customer and
\* recipient locks, when nothing speaks against it.
Reservable(r) ==
    /\ recipient[r].status = "pending"
    /\ ~recipient[r].sent /\ ~recipient[r].reserved
    /\ run[RunOf[r]] # "cancelled" /\ campaign = "active"
    /\ ~Barred(r) /\ ~Capped(r)

\* A campaign that only waits defers, and does not skip, what is pending.
Waits(r) ==
    /\ recipient[r].status = "pending" /\ ~recipient[r].sent
    /\ run[RunOf[r]] # "cancelled" /\ campaign \in {"draft", "paused"}

\* The verdict of a live claim.  A call that raised defers, whether its
\* reservation was committed or not.
Eligibility(r, verdict) ==
    /\ job[r].phase = "asking"
    /\ job' = [job EXCEPT ![r].phase = verdict]
    /\ \/ verdict = "defer" /\ UNCHANGED recipient
       \/ verdict = "skip" /\ ~Waits(r) /\ UNCHANGED recipient
       \/ /\ verdict \in {"allowed", "defer"} /\ Reservable(r)
          /\ recipient' = [recipient EXCEPT ![r].reserved = TRUE]
    /\ UNCHANGED <<admin, telegram, stale, seen, provider>>

\* A call whose claim was taken away commits its reservation all the same.
LateEligibility(r) ==
    /\ stale[r] > 0
    /\ stale' = [stale EXCEPT ![r] = @ - 1]
    /\ \/ UNCHANGED recipient
       \/ /\ Reservable(r)
          /\ recipient' = [recipient EXCEPT ![r].reserved = TRUE]
    /\ UNCHANGED <<admin, telegram, job, seen, provider>>

\* Mutant: what eligibility said is not asked again.
AdmitUngated(r, verdict) ==
    /\ job[r].phase = "allowed"
    /\ job' = [job EXCEPT ![r].phase = verdict]
    /\ provider' = IF verdict = "started"
                   THEN [provider EXCEPT ![r]["sms"] = "open"] ELSE provider
    /\ UNCHANGED <<admin, recipient, telegram, stale, seen>>

\* _admit_transport with final_gate: the last word on campaign, run, consent
\* and cap, then the account's throttle.  An admission that was committed and
\* not acknowledged makes no request.
Admit(r, verdict) ==
    LET stopped == campaign = "archived" \/ run[RunOf[r]] = "cancelled"
        active == ~stopped /\ campaign = "active"
        clear == active /\ ~Barred(r) /\ ~Capped(r)
    IN /\ job[r].phase = "allowed"
       /\ verdict = "skip" => stopped \/ active
       /\ verdict \in {"started", "aborted"} => clear
       /\ job' = [job EXCEPT ![r].phase = verdict]
       /\ provider' = IF verdict = "started"
                      THEN [provider EXCEPT ![r]["sms"] = "open"] ELSE provider
       /\ UNCHANGED <<admin, recipient, telegram, stale, seen>>

\* _finish without a request: deferred or skipped.
FinishDeclined(r) ==
    /\ job[r].phase \in {"skip", "defer", "aborted"}
    /\ job' = [job EXCEPT ![r] =
                 Outcome(IF job[r].phase = "skip" THEN "skipped" ELSE "queued")]
    /\ UNCHANGED <<admin, recipient, telegram, stale, seen, provider>>

\* _finish of a request: taken, definitely refused (now or until a retry), or
\* nobody can tell.
Finish(r, status) ==
    /\ job[r].phase = "started"
    /\ job' = [job EXCEPT ![r] = Outcome(status)]
    /\ provider' = [provider EXCEPT ![r]["sms"] =
                      CASE status = "accepted" -> "taken"
                        [] status = "uncertain" -> "open"
                        [] OTHER -> "none"]
    /\ UNCHANGED <<admin, recipient, telegram, stale, seen>>

\* _recover: a lease that ran out, or a queued job that did.
Recover(r, status) ==
    /\ \/ job[r].status = "queued" /\ status = "cancelled"
       \/ /\ job[r].status = "dispatching"
          /\ status \in IF job[r].phase \in {"started", "aborted"}
                        THEN {"uncertain"} ELSE {"queued", "cancelled"}
    /\ job' = [job EXCEPT ![r] = Outcome(status)]
    /\ Abandoned({r})
    /\ UNCHANGED <<admin, recipient, telegram, seen, provider>>

\* A delivery receipt of an accepted message.
Receipt(r, status) ==
    /\ \/ job[r].status = "accepted"
       \/ job[r].status = "undelivered" /\ status = "delivered"
    /\ job' = [job EXCEPT ![r] = Outcome(status)]
    /\ UNCHANGED <<admin, recipient, telegram, stale, seen, provider>>

-----------------------------------------------------------------------------
(* Projection of the queue's outcomes on the recipients: sms_job_outcome.   *)

ProjectRead(r) ==
    /\ job[r].owed /\ job[r].status # "dispatching" /\ seen[r] = "none"
    /\ seen' = [seen EXCEPT ![r] = job[r].status]
    /\ UNCHANGED <<admin, recipient, telegram, job, stale, provider>>

\* Mutant: a retry puts a row back that was skipped in the meantime.
SettledUnlessSkipped(row, status) ==
    \/ row.sent /\ status \notin {"delivered", "undelivered"}
    \/ row.status = "delivered"

\* The row is ahead of the outcome that was read.
Settled(row, status) ==
    \/ row.sent /\ status \notin {"delivered", "undelivered"}
    \/ row.status = "delivered"
    \/ status = "queued" /\ row.status = "skipped"

Projected(row, status) ==
    CASE status = "queued" ->
           [row EXCEPT !.status = "pending", !.reserved = FALSE]
      [] status = "accepted" -> [row EXCEPT !.status = "sent", !.sent = TRUE]
      [] status = "delivered" ->
           [row EXCEPT !.status = "delivered", !.sent = TRUE]
      [] status = "undelivered" ->
           [row EXCEPT !.status = "failed", !.sent = TRUE]
      [] status \in {"cancelled", "skipped"} -> [row EXCEPT !.status = "skipped"]
      [] status = "failed" -> [row EXCEPT !.status = "failed"]
      [] OTHER -> [row EXCEPT !.status = "unclear"]

\* The outcome is marked as projected unless it changed since it was read, or
\* the process dies first.
ProjectWrite(r) ==
    /\ seen[r] # "none"
    /\ seen' = [seen EXCEPT ![r] = "none"]
    /\ IF Settled(recipient[r], seen[r])
       THEN UNCHANGED <<admin, recipient>>
       ELSE Settle(r, Projected(recipient[r], seen[r]))
    /\ \/ UNCHANGED job
       \/ /\ job[r].status = seen[r]
          /\ job' = [job EXCEPT ![r].owed = FALSE]
    /\ UNCHANGED <<telegram, stale, provider>>

\* The callback raised, or its process died: the outcome stays owed.
ProjectFail(r) ==
    /\ seen[r] # "none"
    /\ seen' = [seen EXCEPT ![r] = "none"]
    /\ UNCHANGED <<admin, recipient, telegram, job, stale, provider>>

-----------------------------------------------------------------------------
Administrate ==
    \/ \E status \in StatusChanges : SetStatus(status)
    \/ \E c \in Customers : OptOut(c)
    \/ \E x \in Runs : Launch(x) \/ ProcessDueRun(x) \/ CancelRunUnsent(x)

Send(r) ==
    \/ SkipCancelled(r) \/ Enqueue(r) \/ Reserve(r) \/ Post(r)
    \/ \E status \in {"skipped", "failed"} : SkipRecipient(r, status)
    \/ \E answer \in {"accepted", "rejected", "gone", "ambiguous"} :
         Answer(r, answer)
    \/ FallBack(r) \/ Record(r) \/ SenderDies(r)

Queue(r) ==
    \/ Claim(r) \/ LateEligibility(r) \/ FinishDeclined(r)
    \/ \E verdict \in {"allowed", "skip", "defer"} : Eligibility(r, verdict)
    \/ \E verdict \in {"started", "aborted", "skip", "defer"} : Admit(r, verdict)
    \/ \E status \in {"accepted", "queued", "failed", "uncertain"} :
         Finish(r, status)
    \/ \E status \in {"queued", "cancelled", "uncertain"} : Recover(r, status)
    \/ \E status \in {"delivered", "undelivered"} : Receipt(r, status)

Reconcile(r) == ReconcileAccepted(r) \/ ReconcileStale(r)
Project(r) == ProjectRead(r) \/ ProjectWrite(r) \/ ProjectFail(r)

Next ==
    \/ Administrate
    \/ \E r \in Recipients :
         RetryFailed(r) \/ Send(r) \/ Reconcile(r) \/ Queue(r) \/ Project(r)

Spec == Init /\ [][Next]_vars

\* The schedulers reconcile and project again and again, whatever the status
\* of the campaign, and not every callback fails.
FairSpec ==
    /\ Spec
    /\ \A r \in Recipients :
         /\ WF_vars(ReconcileAccepted(r))
         /\ WF_vars(ProjectRead(r)) /\ SF_vars(ProjectWrite(r))

-----------------------------------------------------------------------------
TypeOK ==
    /\ campaign \in CampaignStatuses
    /\ barred \subseteq Customers
    /\ run \in [Runs -> RunStatuses]
    /\ recipient \in [Recipients -> Row]
    /\ attempt \in [Recipients -> Attempts]
    /\ sender \in [Recipients -> Senders]
    /\ job \in [Recipients -> Job]
    /\ stale \in [Recipients -> Nat]
    /\ seen \in [Recipients -> {"none", "queued"} \cup Ended]
    /\ provider \in [Recipients -> [Channels -> Requests]]

\* The channels on which r was contacted, or may have been.
Contacts(r) == {c \in Channels : provider[r][c] # "none"}
Contacted(r) == Contacts(r) # {}

\* A customer gets one marketing message within the frequency window, over
\* all runs and both channels, though crashes, fallbacks, retries and late
\* eligibility calls release and repeat reservations
\* (marketing_contact_predicate, send_recipient, sms_job_eligibility).
FrequencyCap ==
    /\ \A r \in Recipients : Cardinality(Contacts(r)) <= 1
    /\ \A r, p \in Recipients :
         (Contacted(r) /\ Contacted(p) /\ CustomerOf[r] = CustomerOf[p]) => r = p

\* What the backoffice shows is what happened: sent and delivered messages
\* were taken, skipped ones and definite failures were never handed over, and
\* a row that can be sent has no message on its way.
ReportsHonest ==
    \A r \in Recipients :
        LET row == recipient[r] IN
        /\ row.sent => \E c \in Channels : provider[r][c] = "taken"
        /\ row.status \in {"sent", "delivered"} => row.sent
        /\ (row.status \in {"skipped", "failed"} /\ ~row.sent) => ~Contacted(r)
        /\ (row.status = "pending" /\ ~row.reserved) => ~Contacted(r)

\* A run whose last recipient has finished is closed, also when two finish
\* together (_complete_run_if_finished).
RunsClose ==
    \A x \in Runs : run[x] = "snapshotted" => Pending(recipient, x) # {}

\* A recipient that was skipped, by a cancellation too, stays skipped: no
\* outcome of the queue that was read before reopens it (sms_job_outcome).
SkippedStays ==
    [][\A r \in Recipients : recipient[r].status = "skipped" =>
         recipient'[r].status = "skipped"]_vars

\* No SMS request starts for a run that was cancelled, a campaign that was
\* paused or archived, or a customer who opted out, though eligibility was
\* granted before (final_gate).
StopsAreHeard ==
    [][\A r \in Recipients :
         (job[r].phase # "started" /\ job'[r].phase = "started") =>
           /\ campaign = "active" /\ run[RunOf[r]] # "cancelled"
           /\ ~Barred(r)]_vars

\* What a provider has accepted is reported as sent in the end, whoever dies
\* (reconcile_interrupted_sends, _project).
AcceptedIsReported ==
    \A r \in Recipients :
        (attempt[r] = "accepted" \/ job[r].status = "accepted")
            ~> recipient[r].sent
=============================================================================
