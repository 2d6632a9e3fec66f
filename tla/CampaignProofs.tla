---------------------------- MODULE CampaignProofs ----------------------------
(****************************************************************************)
(* What CampaignRuns promises, for any number of runs, customers and        *)
(* recipients.  The heart is Consistent: how the row of one recipient, its  *)
(* Telegram attempt and sender, its SMS job, the projection that is under   *)
(* way and the providers hang together between any two transactions.        *)
(****************************************************************************)
EXTENDS CampaignRuns, FiniteSetTheorems, TLAPS

Reads == {"none", "queued"} \cup Ended
Handed == {"accepted", "delivered", "undelivered"}

\* The row, the attempt, its sender, the job, the outcome that was read and
\* the two providers, of one recipient.
TelegramAgrees(row, a, s, j, p) ==
    /\ (p["telegram"] = "none") <=> (a \in {"none", "rejected"})
    /\ (p["telegram"] = "taken") <=> (a = "accepted")
    /\ (a \notin {"none", "rejected"}) => (row.reserved /\ j.status = "none")
    /\ (s # "none") => (row.reserved /\ j.status = "none")
    /\ (s \notin {"none", "accepted"}) => (row.status = "pending" /\ ~row.sent)
    /\ (s = "reserved") => (a \in {"none", "rejected"})
    /\ (s = "waiting") => (a = "attempting")
    /\ (s \in {"rejected", "gone"}) => (a = "rejected")
    /\ (s = "ambiguous") => (a = "ambiguous")
    /\ (s = "accepted") => (a = "accepted" /\ row.status \in {"pending", "sent"})

SmsAgrees(row, j, o, p) ==
    /\ (p["sms"] = "open") => (j.phase = "started" \/ j.status = "uncertain")
    /\ (p["sms"] = "taken") <=> (j.status \in Handed)
    /\ (j.phase # "idle") <=> (j.status = "dispatching")
    /\ (j.phase \in {"allowed", "started", "aborted"}) =>
         (row.status = "pending" /\ row.reserved /\ ~row.sent)
    /\ (j.status \in Handed \cup {"uncertain"}) => row.reserved
    /\ (o # "none") => j.owed
    /\ j.owed => (j.status \notin {"none", "dispatching"})

\* What was read is what the job says, or what it said a little before.
ReadAgrees(j, o) ==
    /\ (o = "queued") => (j.status \in {"queued", "cancelled"})
    /\ (o = "accepted") => (j.status \in Handed)
    /\ (o = "delivered") => (j.status = "delivered")
    /\ (o = "undelivered") => (j.status \in {"undelivered", "delivered"})
    /\ (o \in {"failed", "skipped", "uncertain", "cancelled"}) => (j.status = o)

RowAgrees(row, a, s, j, p) ==
    /\ row.sent => (p["sms"] = "taken" \/ p["telegram"] = "taken")
    /\ (row.status \in {"sent", "delivered"}) => row.sent
    /\ (row.status = "none") =>
         /\ ~row.sent /\ ~row.reserved
         /\ a = "none" /\ s = "none" /\ j.status = "none"
    /\ (row.status = "skipped") =>
         /\ ~row.sent /\ a \in {"none", "rejected"} /\ s = "none"
         /\ j.status \in {"none", "skipped", "cancelled"}
    /\ (row.status = "failed" /\ ~row.sent) =>
         /\ a \in {"none", "rejected"} /\ s = "none"
         /\ j.status \in {"none", "failed"}

Consistent(row, a, s, j, o, p) ==
    /\ TelegramAgrees(row, a, s, j, p)
    /\ SmsAgrees(row, j, o, p)
    /\ ReadAgrees(j, o)
    /\ RowAgrees(row, a, s, j, p)

AllConsistent ==
    \A r \in Recipients :
        Consistent(recipient[r], attempt[r], sender[r], job[r], seen[r], provider[r])

\* Two recipients of one customer never hold a reservation at a time.
OneReserved ==
    \A r, p \in Recipients :
        (/\ r # p /\ CustomerOf[r] = CustomerOf[p]
         /\ recipient[r].reserved) => ~recipient[p].reserved

FreshRuns ==
    \A r \in Recipients :
        (run[RunOf[r]] \in {"none", "scheduled"}) => recipient[r].status = "none"

IInv == TypeOK /\ AllConsistent /\ OneReserved /\ FreshRuns /\ RunsClose

-----------------------------------------------------------------------------
(* Rows and jobs that the actions build are rows and jobs.                  *)

LEMMA Built ==
    /\ NoRow \in Row /\ NewRow \in Row
    /\ NoJob \in Job /\ NewJob \in Job
    /\ \A row \in Row, status \in RecipientStatuses, b \in BOOLEAN :
         /\ [row EXCEPT !.status = status] \in Row
         /\ [row EXCEPT !.reserved = b] \in Row
         /\ [row EXCEPT !.status = status, !.reserved = b] \in Row
         /\ [row EXCEPT !.status = status, !.sent = b] \in Row
    /\ \A j \in Job, phase \in Phases : [j EXCEPT !.phase = phase] \in Job
    /\ \A j \in Job : [j EXCEPT !.owed = FALSE] \in Job
    /\ \A status \in JobStatuses : Outcome(status) \in Job
    /\ [NoJob EXCEPT !.status = "dispatching", !.phase = "asking"] \in Job
<1>1. NoRow \in Row /\ NewRow \in Row
  BY DEF NoRow, NewRow, Row, RecipientStatuses
<1>2. NoJob \in Job /\ NewJob \in Job
  BY DEF NoJob, NewJob, Job, JobStatuses, Phases
<1>3. \A row \in Row, status \in RecipientStatuses, b \in BOOLEAN :
         /\ [row EXCEPT !.status = status] \in Row
         /\ [row EXCEPT !.reserved = b] \in Row
         /\ [row EXCEPT !.status = status, !.reserved = b] \in Row
         /\ [row EXCEPT !.status = status, !.sent = b] \in Row
  BY DEF Row
<1>4. \A j \in Job, phase \in Phases : [j EXCEPT !.phase = phase] \in Job
  BY DEF Job
<1>5. \A j \in Job : [j EXCEPT !.owed = FALSE] \in Job
  BY DEF Job
<1>6. \A status \in JobStatuses : Outcome(status) \in Job
  BY DEF Job, Outcome, NoJob, Phases
<1>7. [NoJob EXCEPT !.status = "dispatching", !.phase = "asking"] \in Job
  BY DEF Job, NoJob, Phases, JobStatuses
<1>8. QED BY <1>1, <1>2, <1>3, <1>4, <1>5, <1>6, <1>7

\* What the sender and the projection make of a row is a row.
LEMMA RecordedRow ==
    ASSUME NEW row \in Row, NEW answer \in Senders
    PROVE  Recorded(row, answer) \in Row
BY DEF Recorded, Row, RecipientStatuses

LEMMA ProjectedRow ==
    ASSUME NEW row \in Row, NEW status \in Reads
    PROVE  Projected(row, status) \in Row
BY DEF Projected, Row, RecipientStatuses

\* Settle changes one row and at most closes its run.
LEMMA SettleTypes ==
    ASSUME TypeOK, NEW r \in Recipients, NEW row \in Row, Settle(r, row)
    PROVE  /\ recipient' \in [Recipients -> Row]
           /\ run' \in [Runs -> RunStatuses]
           /\ campaign' = campaign /\ barred' = barred
<1>1. RunOf[r] \in Runs
  BY RunAssumption
<1>2. recipient' \in [Recipients -> Row]
  BY DEF TypeOK, Settle
<1>3. run' \in [Runs -> RunStatuses]
  BY <1>1 DEF TypeOK, Settle, Completed, RunStatuses
<1>4. QED BY <1>2, <1>3 DEF Settle

LEMMA AbandonedTypes ==
    ASSUME TypeOK, NEW R \in SUBSET Recipients, Abandoned(R)
    PROVE  stale' \in [Recipients -> Nat]
BY DEF TypeOK, Abandoned

-----------------------------------------------------------------------------
(* Type correctness.                                                        *)

LEMMA AdministrateTypes == TypeOK /\ Administrate => TypeOK'
<1> SUFFICES ASSUME TypeOK, Administrate PROVE TypeOK'
  OBVIOUS
<1>1. CASE \E status \in StatusChanges : SetStatus(status)
  BY <1>1, StatusAssumption DEF TypeOK, SetStatus, telegram, queue
<1>2. CASE \E c \in Customers : OptOut(c)
  BY <1>2 DEF TypeOK, OptOut, telegram, queue
<1>3. ASSUME NEW x \in Runs, NEW audience, Snapshot(x, audience)
      PROVE  recipient' \in [Recipients -> Row] /\ run' \in [Runs -> RunStatuses]
  <2>1. recipient' \in [Recipients -> Row]
    BY <1>3, Built DEF TypeOK, Snapshot
  <2>2. run' \in [Runs -> RunStatuses]
    BY <1>3 DEF TypeOK, Snapshot, RunStatuses
  <2>3. QED BY <2>1, <2>2
<1>4. ASSUME NEW x \in Runs, Launch(x) PROVE TypeOK'
  <2>1. recipient' \in [Recipients -> Row] /\ run' \in [Runs -> RunStatuses]
    <3>1. CASE \E audience \in SUBSET Members(x) : Snapshot(x, audience)
      BY <3>1, <1>3
    <3>2. CASE run' = [run EXCEPT ![x] = "scheduled"] /\ UNCHANGED recipient
      BY <3>2 DEF TypeOK, RunStatuses
    <3>3. QED BY <3>1, <3>2, <1>4 DEF Launch
  <2>2. campaign' \in CampaignStatuses
    BY <1>4 DEF Launch, CampaignStatuses
  <2>3. QED BY <2>1, <2>2, <1>4 DEF TypeOK, Launch, telegram, queue
<1>5. ASSUME NEW x \in Runs, ProcessDueRun(x) PROVE TypeOK'
  <2>1. recipient' \in [Recipients -> Row] /\ run' \in [Runs -> RunStatuses]
    <3>1. CASE \E audience \in SUBSET Members(x) : Snapshot(x, audience)
      BY <3>1, <1>3
    <3>2. CASE run' = [run EXCEPT ![x] = "failed"] /\ UNCHANGED recipient
      BY <3>2 DEF TypeOK, RunStatuses
    <3>3. QED BY <3>1, <3>2, <1>5 DEF ProcessDueRun
  <2>2. QED BY <2>1, <1>5 DEF TypeOK, ProcessDueRun, telegram, queue
<1>6. ASSUME NEW x \in Runs, CancelRunUnsent(x) PROVE TypeOK'
  <2>1. PICK missed \in SUBSET {r \in Members(x) : Missable(r)} :
          Cancelling(Members(x) \ missed)
    BY <1>6 DEF CancelRunUnsent
  <2>2. job' \in [Recipients -> Job]
    BY <2>1, Built DEF Cancelling, TypeOK, JobStatuses, Ended
  <2>3. recipient' \in [Recipients -> Row]
    BY <2>1, Built DEF Cancelling, TypeOK, RecipientStatuses
  <2>4. stale' \in [Recipients -> Nat]
    BY <2>1, AbandonedTypes DEF Cancelling, Members, UnsentIn
  <2>5. run' \in [Runs -> RunStatuses]
    BY <1>6 DEF CancelRunUnsent, TypeOK, RunStatuses
  <2>6. QED BY <2>2, <2>3, <2>4, <2>5, <1>6 DEF TypeOK, CancelRunUnsent, telegram
<1>7. QED BY <1>1, <1>2, <1>4, <1>5, <1>6 DEF Administrate

LEMMA SendTypes ==
    ASSUME TypeOK, NEW r \in Recipients, Send(r)
    PROVE  TypeOK'
<1>1. CASE SkipCancelled(r)
  <2>1. recipient' \in [Recipients -> Row]
    BY <1>1, Built DEF SkipCancelled, TypeOK, RecipientStatuses
  <2>2. QED BY <1>1, <2>1 DEF SkipCancelled, TypeOK, admin, telegram, queue
<1>2. CASE Enqueue(r)
  <2>1. job' \in [Recipients -> Job]
    BY <1>2, Built DEF Enqueue, TypeOK
  <2>2. QED BY <1>2, <2>1 DEF Enqueue, TypeOK, admin, telegram
<1>3. CASE Reserve(r)
  <2>1. recipient' \in [Recipients -> Row]
    BY <1>3, Built DEF Reserve, TypeOK, RecipientStatuses
  <2>2. sender' \in [Recipients -> Senders]
    BY <1>3 DEF Reserve, TypeOK, Senders
  <2>3. QED BY <1>3, <2>1, <2>2 DEF Reserve, TypeOK, admin, queue
<1>4. CASE Post(r)
  <2>1. attempt' \in [Recipients -> Attempts]
    BY <1>4 DEF Post, TypeOK, Attempts
  <2>2. sender' \in [Recipients -> Senders]
    BY <1>4 DEF Post, TypeOK, Senders
  <2>3. provider' \in [Recipients -> [Channels -> Requests]]
    BY <1>4 DEF Post, TypeOK, Channels, Requests
  <2>4. QED BY <1>4, <2>1, <2>2, <2>3 DEF Post, TypeOK, admin, queue
<1>5. ASSUME NEW status \in {"skipped", "failed"}, SkipRecipient(r, status)
      PROVE  TypeOK'
  <2>1. [recipient[r] EXCEPT !.status = status] \in Row
    BY Built DEF TypeOK, RecipientStatuses
  <2>2. QED BY <1>5, <2>1, SettleTypes DEF SkipRecipient, TypeOK, telegram, queue
<1>6. ASSUME NEW answer \in {"accepted", "rejected", "gone", "ambiguous"},
             Answer(r, answer)
      PROVE  TypeOK'
  <2>1. attempt' \in [Recipients -> Attempts]
    BY <1>6 DEF Answer, TypeOK, Attempts
  <2>2. sender' \in [Recipients -> Senders]
    BY <1>6 DEF Answer, TypeOK, Senders
  <2>3. provider' \in [Recipients -> [Channels -> Requests]]
    BY <1>6 DEF Answer, TypeOK, Channels, Requests
  <2>4. QED BY <1>6, <2>1, <2>2, <2>3 DEF Answer, TypeOK, admin, queue
<1>7. CASE FallBack(r)
  <2>1. recipient' \in [Recipients -> Row]
    BY <1>7, Built DEF FallBack, TypeOK, RecipientStatuses
  <2>2. sender' \in [Recipients -> Senders]
    BY <1>7 DEF FallBack, TypeOK, Senders
  <2>3. job' \in [Recipients -> Job]
    BY <1>7, Built DEF FallBack, TypeOK
  <2>4. QED BY <1>7, <2>1, <2>2, <2>3 DEF FallBack, TypeOK, admin
<1>8. CASE Record(r)
  <2>1. sender' \in [Recipients -> Senders]
    BY <1>8 DEF Record, TypeOK, Senders
  <2>2. /\ recipient' \in [Recipients -> Row] /\ run' \in [Runs -> RunStatuses]
        /\ campaign' = campaign /\ barred' = barred
    <3>1. CASE UNCHANGED <<admin, recipient>>
      BY <3>1 DEF TypeOK, admin
    <3>2. CASE Settle(r, Recorded(recipient[r], sender[r]))
      <4>1. Recorded(recipient[r], sender[r]) \in Row
        BY RecordedRow DEF TypeOK
      <4>2. QED BY <3>2, <4>1, SettleTypes
    <3>3. QED BY <1>8, <3>1, <3>2 DEF Record
  <2>3. QED BY <1>8, <2>1, <2>2 DEF Record, TypeOK, queue
<1>9. CASE SenderDies(r)
  <2>1. sender' \in [Recipients -> Senders]
    BY <1>9 DEF SenderDies, TypeOK, Senders
  <2>2. QED BY <1>9, <2>1 DEF SenderDies, TypeOK, admin, queue
<1>10. QED
  BY <1>1, <1>2, <1>3, <1>4, <1>5, <1>6, <1>7, <1>8, <1>9 DEF Send

LEMMA ReconcileTypes ==
    ASSUME TypeOK, NEW r \in Recipients, Reconcile(r)
    PROVE  TypeOK'
<1>1. CASE ReconcileAccepted(r)
  <2>1. Recorded(recipient[r], "accepted") \in Row
    BY RecordedRow DEF TypeOK, Senders
  <2>2. QED BY <1>1, <2>1, SettleTypes DEF ReconcileAccepted, TypeOK, telegram, queue
<1>2. CASE ReconcileStale(r)
  <2>1. [recipient[r] EXCEPT !.status = "unclear"] \in Row
    BY Built DEF TypeOK, RecipientStatuses
  <2>2. QED BY <1>2, <2>1, SettleTypes DEF ReconcileStale, TypeOK, telegram, queue
<1>3. QED BY <1>1, <1>2 DEF Reconcile

LEMMA RetryTypes ==
    ASSUME TypeOK, NEW r \in Recipients, RetryFailed(r)
    PROVE  TypeOK'
<1>1. recipient' \in [Recipients -> Row]
  BY Built DEF RetryFailed, TypeOK, RecipientStatuses
<1>2. QED BY <1>1 DEF RetryFailed, TypeOK, admin, telegram, queue

LEMMA QueueTypes ==
    ASSUME TypeOK, NEW r \in Recipients, Queue(r)
    PROVE  TypeOK'
<1>1. CASE Claim(r)
  <2>1. job' \in [Recipients -> Job]
    BY <1>1, Built DEF Claim, TypeOK
  <2>2. QED BY <1>1, <2>1 DEF Claim, TypeOK, admin, telegram
<1>2. CASE LateEligibility(r)
  <2>1. recipient' \in [Recipients -> Row]
    <3>1. CASE UNCHANGED recipient
      BY <3>1 DEF TypeOK
    <3>2. CASE recipient' = [recipient EXCEPT ![r].reserved = TRUE]
      BY <3>2, Built DEF TypeOK, RecipientStatuses
    <3>3. QED BY <1>2, <3>1, <3>2 DEF LateEligibility
  <2>2. stale' \in [Recipients -> Nat]
    BY <1>2 DEF LateEligibility, TypeOK
  <2>3. QED BY <1>2, <2>1, <2>2 DEF LateEligibility, TypeOK, admin, telegram
<1>3. CASE FinishDeclined(r)
  <2>1. job' \in [Recipients -> Job]
    BY <1>3, Built DEF FinishDeclined, TypeOK, JobStatuses, Ended
  <2>2. QED BY <1>3, <2>1 DEF FinishDeclined, TypeOK, admin, telegram
<1>4. ASSUME NEW verdict \in {"allowed", "skip", "defer"}, Eligibility(r, verdict)
      PROVE  TypeOK'
  <2>1. job' \in [Recipients -> Job]
    BY <1>4, Built DEF Eligibility, TypeOK, Phases
  <2>2. recipient' \in [Recipients -> Row]
    <3>1. CASE UNCHANGED recipient
      BY <3>1 DEF TypeOK
    <3>2. CASE recipient' = [recipient EXCEPT ![r].reserved = TRUE]
      BY <3>2, Built DEF TypeOK, RecipientStatuses
    <3>3. QED BY <1>4, <3>1, <3>2 DEF Eligibility
  <2>3. QED BY <1>4, <2>1, <2>2 DEF Eligibility, TypeOK, admin, telegram
<1>5. ASSUME NEW verdict \in {"started", "aborted", "skip", "defer"}, Admit(r, verdict)
      PROVE  TypeOK'
  <2>1. job' \in [Recipients -> Job]
    BY <1>5, Built DEF Admit, TypeOK, Phases
  <2>2. provider' \in [Recipients -> [Channels -> Requests]]
    BY <1>5 DEF Admit, TypeOK, Channels, Requests
  <2>3. QED BY <1>5, <2>1, <2>2 DEF Admit, TypeOK, admin, telegram
<1>6. ASSUME NEW status \in {"accepted", "queued", "failed", "uncertain"},
             Finish(r, status)
      PROVE  TypeOK'
  <2>1. job' \in [Recipients -> Job]
    BY <1>6, Built DEF Finish, TypeOK, JobStatuses, Ended
  <2>2. provider' \in [Recipients -> [Channels -> Requests]]
    BY <1>6 DEF Finish, TypeOK, Channels, Requests
  <2>3. QED BY <1>6, <2>1, <2>2 DEF Finish, TypeOK, admin, telegram
<1>7. ASSUME NEW status \in {"queued", "cancelled", "uncertain"}, Recover(r, status)
      PROVE  TypeOK'
  <2>1. job' \in [Recipients -> Job]
    BY <1>7, Built DEF Recover, TypeOK, JobStatuses, Ended
  <2>2. stale' \in [Recipients -> Nat]
    BY <1>7, AbandonedTypes DEF Recover
  <2>3. QED BY <1>7, <2>1, <2>2 DEF Recover, TypeOK, admin, telegram
<1>8. ASSUME NEW status \in {"delivered", "undelivered"}, Receipt(r, status)
      PROVE  TypeOK'
  <2>1. job' \in [Recipients -> Job]
    BY <1>8, Built DEF Receipt, TypeOK, JobStatuses, Ended
  <2>2. QED BY <1>8, <2>1 DEF Receipt, TypeOK, admin, telegram
<1>9. QED
  BY <1>1, <1>2, <1>3, <1>4, <1>5, <1>6, <1>7, <1>8 DEF Queue

LEMMA ProjectTypes ==
    ASSUME TypeOK, NEW r \in Recipients, Project(r), AllConsistent
    PROVE  TypeOK'
<1>1. CASE ProjectRead(r)
  <2>1. job[r].status \in Reads
    BY <1>1 DEF TypeOK, AllConsistent, Consistent, SmsAgrees, ProjectRead, Job,
                JobStatuses, Reads
  <2>2. seen' \in [Recipients -> Reads]
    BY <1>1, <2>1 DEF ProjectRead, TypeOK, Reads
  <2>3. QED BY <1>1, <2>2 DEF ProjectRead, TypeOK, Reads, admin, telegram
<1>2. CASE ProjectWrite(r)
  <2>1. seen' \in [Recipients -> Reads]
    BY <1>2 DEF ProjectWrite, TypeOK, Reads
  <2>2. job' \in [Recipients -> Job]
    <3>1. CASE UNCHANGED job
      BY <3>1 DEF TypeOK
    <3>2. CASE job' = [job EXCEPT ![r].owed = FALSE]
      BY <3>2, Built DEF TypeOK
    <3>3. QED BY <1>2, <3>1, <3>2 DEF ProjectWrite
  <2>3. /\ recipient' \in [Recipients -> Row] /\ run' \in [Runs -> RunStatuses]
        /\ campaign' = campaign /\ barred' = barred
    <3>1. CASE UNCHANGED <<admin, recipient>>
      BY <3>1 DEF TypeOK, admin
    <3>2. CASE Settle(r, Projected(recipient[r], seen[r]))
      <4>1. Projected(recipient[r], seen[r]) \in Row
        BY ProjectedRow DEF TypeOK, Reads
      <4>2. QED BY <3>2, <4>1, SettleTypes
    <3>3. QED BY <1>2, <3>1, <3>2 DEF ProjectWrite
  <2>4. QED BY <1>2, <2>1, <2>2, <2>3 DEF ProjectWrite, TypeOK, telegram, Reads
<1>3. CASE ProjectFail(r)
  <2>1. seen' \in [Recipients -> Reads]
    BY <1>3 DEF ProjectFail, TypeOK, Reads
  <2>2. QED BY <1>3, <2>1 DEF ProjectFail, TypeOK, Reads, admin, telegram
<1>4. QED BY <1>1, <1>2, <1>3 DEF Project

-----------------------------------------------------------------------------
(* Consistent survives every step.  A step of one recipient leaves the      *)
(* others alone, so it is enough to look at that recipient.                 *)

\* What every action on r but a run's leaves of the other recipients.
Others(r) ==
    \A p \in Recipients \ {r} :
        /\ recipient'[p] = recipient[p] /\ attempt'[p] = attempt[p]
        /\ sender'[p] = sender[p] /\ job'[p] = job[p]
        /\ seen'[p] = seen[p] /\ provider'[p] = provider[p]

Agrees(r) ==
    Consistent(recipient[r], attempt[r], sender[r], job[r], seen[r], provider[r])

LEMMA OneRecipient ==
    ASSUME AllConsistent, NEW r \in Recipients, Others(r), Agrees(r)'
    PROVE  AllConsistent'
BY DEF AllConsistent, Others, Agrees

LEMMA SettleRow ==
    ASSUME TypeOK, NEW r \in Recipients, NEW row, Settle(r, row)
    PROVE  /\ recipient'[r] = row
           /\ \A p \in Recipients \ {r} : recipient'[p] = recipient[p]
BY DEF TypeOK, Settle

LEMMA SendAgrees ==
    ASSUME TypeOK, AllConsistent, NEW r \in Recipients, Send(r)
    PROVE  AllConsistent'
<1>0. Agrees(r) /\ recipient[r] \in Row /\ job[r] \in Job
  BY DEF AllConsistent, Agrees, TypeOK
<1> USE DEF Consistent, TelegramAgrees, SmsAgrees, ReadAgrees, RowAgrees, Agrees
<1>1. CASE SkipCancelled(r)
  <2>1. Others(r)
    BY <1>1 DEF SkipCancelled, Others, TypeOK, admin, telegram, queue
  <2>2. Agrees(r)'
    BY <1>0, <1>1 DEF SkipCancelled, Unsettled, TypeOK, telegram, queue, Row, Job
  <2>3. QED BY <2>1, <2>2, OneRecipient
<1>2. CASE Enqueue(r)
  <2>1. Others(r)
    BY <1>2 DEF Enqueue, Others, TypeOK, admin, telegram
  <2>2. Agrees(r)'
    BY <1>0, <1>2 DEF Enqueue, Sendable, Unsettled, TypeOK, telegram, NewJob, NoJob, Row, Job, Handed
  <2>3. QED BY <2>1, <2>2, OneRecipient
<1>3. CASE Reserve(r)
  <2>1. Others(r)
    BY <1>3 DEF Reserve, Others, TypeOK, admin, queue
  <2>2. Agrees(r)'
    BY <1>0, <1>3 DEF Reserve, Sendable, Unsettled, TypeOK, queue, Row, Job, Handed
  <2>3. QED BY <2>1, <2>2, OneRecipient
<1>4. CASE Post(r)
  <2>1. Others(r)
    BY <1>4 DEF Post, Others, TypeOK, admin, queue
  <2>2. Agrees(r)'
    BY <1>0, <1>4 DEF Post, TypeOK, queue, Row, Job, Handed, Channels
  <2>3. QED BY <2>1, <2>2, OneRecipient
<1>5. ASSUME NEW status \in {"skipped", "failed"}, SkipRecipient(r, status)
      PROVE  AllConsistent'
  <2>1. recipient'[r] = [recipient[r] EXCEPT !.status = status]
    BY <1>5, SettleRow DEF SkipRecipient
  <2>2. Others(r)
    BY <1>5, SettleRow DEF SkipRecipient, Others, TypeOK, telegram, queue
  <2>3. Agrees(r)'
    BY <1>0, <1>5, <2>1 DEF SkipRecipient, Unsettled, TypeOK, telegram, queue, Row, Job, Handed
  <2>4. QED BY <2>2, <2>3, OneRecipient
<1>6. ASSUME NEW answer \in {"accepted", "rejected", "gone", "ambiguous"},
             Answer(r, answer)
      PROVE  AllConsistent'
  <2>1. Others(r)
    BY <1>6 DEF Answer, Others, TypeOK, admin, queue
  <2>2. Agrees(r)'
    BY <1>0, <1>6 DEF Answer, TypeOK, admin, queue, Row, Job, Handed, Channels
  <2>3. QED BY <2>1, <2>2, OneRecipient
<1>7. CASE FallBack(r)
  <2>1. Others(r)
    BY <1>7 DEF FallBack, Others, TypeOK, admin
  <2>2. Agrees(r)'
    BY <1>0, <1>7 DEF FallBack, TypeOK, NewJob, NoJob, Row, Job, Handed
  <2>3. QED BY <2>1, <2>2, OneRecipient
<1>8. CASE Record(r)
  <2>1. CASE UNCHANGED <<admin, recipient>>
    <3>1. Others(r)
      BY <1>8, <2>1 DEF Record, Others, TypeOK, queue
    <3>2. Agrees(r)'
      BY <1>0, <1>8, <2>1 DEF Record, TypeOK, queue, Row, Job, Handed
    <3>3. QED BY <3>1, <3>2, OneRecipient
  <2>2. CASE Settle(r, Recorded(recipient[r], sender[r]))
    <3>1. recipient'[r] = Recorded(recipient[r], sender[r])
      BY <2>2, SettleRow
    <3>2. Others(r)
      BY <1>8, <2>2, SettleRow DEF Record, Others, TypeOK, queue
    <3>3. Agrees(r)'
      BY <1>0, <1>8, <3>1 DEF Record, Recorded, TypeOK, queue, Row, Job, Handed
    <3>4. QED BY <3>2, <3>3, OneRecipient
  <2>3. QED BY <1>8, <2>1, <2>2 DEF Record
<1>9. CASE SenderDies(r)
  <2>1. Others(r)
    BY <1>9 DEF SenderDies, Others, TypeOK, admin, queue
  <2>2. Agrees(r)'
    BY <1>0, <1>9 DEF SenderDies, TypeOK, queue, Row, Job, Handed
  <2>3. QED BY <2>1, <2>2, OneRecipient
<1>10. QED
  BY <1>1, <1>2, <1>3, <1>4, <1>5, <1>6, <1>7, <1>8, <1>9 DEF Send

LEMMA ReconcileAgrees ==
    ASSUME TypeOK, AllConsistent, NEW r \in Recipients, Reconcile(r)
    PROVE  AllConsistent'
<1>0. Agrees(r) /\ recipient[r] \in Row /\ job[r] \in Job
  BY DEF AllConsistent, Agrees, TypeOK
<1> USE DEF Consistent, TelegramAgrees, SmsAgrees, ReadAgrees, RowAgrees, Agrees
<1>1. CASE ReconcileAccepted(r)
  <2>1. recipient'[r] = Recorded(recipient[r], "accepted")
    BY <1>1, SettleRow DEF ReconcileAccepted
  <2>2. Others(r)
    BY <1>1, SettleRow DEF ReconcileAccepted, Others, TypeOK, telegram, queue
  <2>3. Agrees(r)'
    BY <1>0, <1>1, <2>1
       DEF ReconcileAccepted, Recorded, TypeOK, telegram, queue, Row, Job, Handed,
           Senders
  <2>4. QED BY <2>2, <2>3, OneRecipient
<1>2. CASE ReconcileStale(r)
  <2>1. recipient'[r] = [recipient[r] EXCEPT !.status = "unclear"]
    BY <1>2, SettleRow DEF ReconcileStale
  <2>2. Others(r)
    BY <1>2, SettleRow DEF ReconcileStale, Others, TypeOK, telegram, queue
  <2>3. Agrees(r)'
    BY <1>0, <1>2, <2>1 DEF ReconcileStale, TypeOK, telegram, queue, Row, Job, Handed
  <2>4. QED BY <2>2, <2>3, OneRecipient
<1>3. QED BY <1>1, <1>2 DEF Reconcile

LEMMA RetryAgrees ==
    ASSUME TypeOK, AllConsistent, NEW r \in Recipients, RetryFailed(r)
    PROVE  AllConsistent'
<1>0. Agrees(r) /\ recipient[r] \in Row /\ job[r] \in Job
  BY DEF AllConsistent, Agrees, TypeOK
<1>1. Others(r)
  BY DEF RetryFailed, Others, TypeOK, admin, telegram, queue
<1>2. Agrees(r)'
  BY <1>0 DEF Consistent, TelegramAgrees, SmsAgrees, ReadAgrees, RowAgrees, Agrees,
              RetryFailed, TypeOK, telegram, queue, Row, Job, Handed
<1>3. QED BY <1>1, <1>2, OneRecipient

LEMMA QueueAgrees ==
    ASSUME TypeOK, AllConsistent, NEW r \in Recipients, Queue(r)
    PROVE  AllConsistent'
<1>0. Agrees(r) /\ recipient[r] \in Row /\ job[r] \in Job
  BY DEF AllConsistent, Agrees, TypeOK
<1> USE DEF Consistent, TelegramAgrees, SmsAgrees, ReadAgrees, RowAgrees, Agrees
<1>1. CASE Claim(r)
  <2>1. Others(r)
    BY <1>1 DEF Claim, Others, TypeOK, admin, telegram
  <2>2. Agrees(r)'
    BY <1>0, <1>1 DEF Claim, TypeOK, telegram, Row, Job, Handed, NoJob
  <2>3. QED BY <2>1, <2>2, OneRecipient
<1>2. CASE LateEligibility(r)
  <2>1. Others(r)
    BY <1>2 DEF LateEligibility, Others, TypeOK, admin, telegram
  <2>2. Agrees(r)'
    BY <1>0, <1>2 DEF LateEligibility, TypeOK, telegram, Row, Job, Handed, Reservable
  <2>3. QED BY <2>1, <2>2, OneRecipient
<1>3. CASE FinishDeclined(r)
  <2>1. Others(r)
    BY <1>3 DEF FinishDeclined, Others, TypeOK, admin, telegram
  <2>2. Agrees(r)'
    BY <1>0, <1>3 DEF FinishDeclined, TypeOK, telegram, Row, Job, Handed, Outcome, NoJob
  <2>3. QED BY <2>1, <2>2, OneRecipient
<1>4. ASSUME NEW verdict \in {"allowed", "skip", "defer"},
             Eligibility(r, verdict)
      PROVE  AllConsistent'
  <2>1. Others(r)
    BY <1>4 DEF Eligibility, Others, TypeOK, admin, telegram
  <2>2. Agrees(r)'
    BY <1>0, <1>4 DEF Eligibility, TypeOK, telegram, Row, Job, Handed, Reservable
  <2>3. QED BY <2>1, <2>2, OneRecipient
<1>5. ASSUME NEW verdict \in {"started", "aborted", "skip", "defer"},
             Admit(r, verdict)
      PROVE  AllConsistent'
  <2>1. Others(r)
    BY <1>5 DEF Admit, Others, TypeOK, admin, telegram
  <2>2. Agrees(r)'
    BY <1>0, <1>5 DEF Admit, TypeOK, telegram, Row, Job, Handed, Channels
  <2>3. QED BY <2>1, <2>2, OneRecipient
<1>6. ASSUME NEW status \in {"accepted", "queued", "failed", "uncertain"},
             Finish(r, status)
      PROVE  AllConsistent'
  <2>1. Others(r)
    BY <1>6 DEF Finish, Others, TypeOK, admin, telegram
  <2>2. Agrees(r)'
    BY <1>0, <1>6 DEF Finish, TypeOK, telegram, Row, Job, Handed, Outcome, NoJob, Channels
  <2>3. QED BY <2>1, <2>2, OneRecipient
<1>7. ASSUME NEW status \in {"queued", "cancelled", "uncertain"},
             Recover(r, status)
      PROVE  AllConsistent'
  <2>1. Others(r)
    BY <1>7 DEF Recover, Others, TypeOK, admin, telegram
  <2>2. Agrees(r)'
    BY <1>0, <1>7 DEF Recover, TypeOK, telegram, Row, Job, Handed, Outcome, NoJob
  <2>3. QED BY <2>1, <2>2, OneRecipient
<1>8. ASSUME NEW status \in {"delivered", "undelivered"},
             Receipt(r, status)
      PROVE  AllConsistent'
  <2>1. Others(r)
    BY <1>8 DEF Receipt, Others, TypeOK, admin, telegram
  <2>2. Agrees(r)'
    BY <1>0, <1>8 DEF Receipt, TypeOK, telegram, Row, Job, Handed, Outcome, NoJob
  <2>3. QED BY <2>1, <2>2, OneRecipient
<1>9. QED
  BY <1>1, <1>2, <1>3, <1>4, <1>5, <1>6, <1>7, <1>8 DEF Queue

LEMMA ProjectAgrees ==
    ASSUME TypeOK, AllConsistent, NEW r \in Recipients, Project(r)
    PROVE  AllConsistent'
<1>0. Agrees(r) /\ recipient[r] \in Row /\ job[r] \in Job /\ seen[r] \in Reads
  BY DEF AllConsistent, Agrees, TypeOK, Reads
<1> USE DEF Consistent, TelegramAgrees, SmsAgrees, ReadAgrees, RowAgrees, Agrees
<1>1. CASE ProjectRead(r)
  <2>1. Others(r)
    BY <1>1 DEF ProjectRead, Others, TypeOK, admin, telegram
  <2>2. Agrees(r)'
    BY <1>0, <1>1 DEF ProjectRead, TypeOK, telegram, Row, Job, Handed
  <2>3. QED BY <2>1, <2>2, OneRecipient
<1>2. CASE ProjectWrite(r)
  <2>1. /\ job'[r] \in {job[r], [job[r] EXCEPT !.owed = FALSE]}
        /\ \A p \in Recipients \ {r} : job'[p] = job[p]
    BY <1>2 DEF ProjectWrite, TypeOK
  <2>2. CASE UNCHANGED <<admin, recipient>>
    <3>1. Others(r)
      BY <1>2, <2>1, <2>2 DEF ProjectWrite, Others, TypeOK, telegram
    <3>2. Agrees(r)'
      BY <1>0, <1>2, <2>1, <2>2 DEF ProjectWrite, TypeOK, telegram, Row, Job, Handed
    <3>3. QED BY <3>1, <3>2, OneRecipient
  <2>3. CASE ~Settled(recipient[r], seen[r]) /\ Settle(r, Projected(recipient[r], seen[r]))
    <3>1. recipient'[r] = Projected(recipient[r], seen[r])
      BY <2>3, SettleRow
    <3>2. Others(r)
      BY <1>2, <2>1, <2>3, SettleRow DEF ProjectWrite, Others, TypeOK, telegram
    <3>3. Agrees(r)'
      BY <1>0, <1>2, <2>1, <2>3, <3>1
         DEF ProjectWrite, Projected, Settled, TypeOK, telegram, Row, Job, Handed,
             Reads, Ended
    <3>4. QED BY <3>2, <3>3, OneRecipient
  <2>4. QED BY <1>2, <2>2, <2>3 DEF ProjectWrite
<1>3. CASE ProjectFail(r)
  <2>1. Others(r)
    BY <1>3 DEF ProjectFail, Others, TypeOK, admin, telegram
  <2>2. Agrees(r)'
    BY <1>0, <1>3 DEF ProjectFail, TypeOK, telegram, Row, Job, Handed
  <2>3. QED BY <2>1, <2>2, OneRecipient
<1>4. QED BY <1>1, <1>2, <1>3 DEF Project

\* A snapshot finds the recipients of its run untouched.
LEMMA SnapshotAgrees ==
    ASSUME TypeOK, AllConsistent, FreshRuns, NEW x \in Runs,
           run[x] \in {"none", "scheduled"}, NEW audience, Snapshot(x, audience),
           UNCHANGED <<telegram, queue, provider>>
    PROVE  AllConsistent'
<1> SUFFICES ASSUME NEW r \in Recipients PROVE Agrees(r)'
  BY DEF AllConsistent, Agrees
<1>1. Agrees(r) /\ recipient[r] \in Row /\ job[r] \in Job
  BY DEF AllConsistent, Agrees, TypeOK
<1>2. CASE r \in audience
  <2>1. recipient[r].status = "none"
    BY <1>2 DEF Snapshot, Members, FreshRuns
  <2>2. recipient'[r] = NewRow
    BY <1>2 DEF Snapshot
  <2>3. QED
    BY <1>1, <2>1, <2>2 DEF Agrees, Consistent, TelegramAgrees, SmsAgrees,
       ReadAgrees, RowAgrees, telegram, queue, NewRow, NoRow, Row, Job, Handed
<1>3. CASE r \notin audience
  <2>1. recipient'[r] = recipient[r]
    BY <1>3 DEF Snapshot
  <2>2. QED BY <1>1, <2>1 DEF Agrees, telegram, queue
<1>4. QED BY <1>2, <1>3

LEMMA CancelAgrees ==
    ASSUME TypeOK, AllConsistent, NEW x \in Runs, CancelRunUnsent(x)
    PROVE  AllConsistent'
<1>1. PICK missed \in SUBSET {r \in Members(x) : Missable(r)} :
        Cancelling(Members(x) \ missed)
  BY DEF CancelRunUnsent
<1> DEFINE R == Members(x) \ missed
<1> SUFFICES ASSUME NEW r \in Recipients PROVE Agrees(r)'
  BY DEF AllConsistent, Agrees
<1>2. Agrees(r) /\ recipient[r] \in Row /\ job[r] \in Job
  BY DEF AllConsistent, Agrees, TypeOK
<1>3. UNCHANGED <<attempt, sender, seen, provider>>
  BY DEF CancelRunUnsent, telegram
<1>4. job'[r] = IF r \in UnsentIn(R) THEN Outcome("cancelled") ELSE job[r]
  BY <1>1 DEF Cancelling
<1>5. recipient'[r] = IF r \in Released(R)
        THEN [recipient[r] EXCEPT !.status = "skipped", !.reserved = FALSE]
        ELSE recipient[r]
  BY <1>1 DEF Cancelling
<1> HIDE DEF R
<1> USE DEF Agrees, Consistent, TelegramAgrees, SmsAgrees, ReadAgrees, RowAgrees,
            UnsentIn, Unsent, Released, Outcome, NoJob, Row, Job, Handed
<1>6. CASE r \in UnsentIn(R) /\ r \in Released(R)
  BY <1>2, <1>3, <1>4, <1>5, <1>6
<1>7. CASE r \in UnsentIn(R) /\ r \notin Released(R)
  BY <1>2, <1>3, <1>4, <1>5, <1>7
<1>8. CASE r \notin UnsentIn(R) /\ r \in Released(R)
  BY <1>2, <1>3, <1>4, <1>5, <1>8
<1>9. CASE r \notin UnsentIn(R) /\ r \notin Released(R)
  BY <1>2, <1>3, <1>4, <1>5, <1>9
<1>10. QED BY <1>6, <1>7, <1>8, <1>9

LEMMA AdministrateAgrees ==
    ASSUME TypeOK, AllConsistent, FreshRuns, Administrate
    PROVE  AllConsistent'
<1>1. ASSUME UNCHANGED <<recipient, telegram, queue, provider>>
      PROVE  AllConsistent'
  BY <1>1 DEF AllConsistent, telegram, queue
<1>2. CASE \E status \in StatusChanges : SetStatus(status)
  BY <1>1, <1>2 DEF SetStatus
<1>3. CASE \E c \in Customers : OptOut(c)
  BY <1>1, <1>3 DEF OptOut
<1>4. ASSUME NEW x \in Runs, Launch(x) PROVE AllConsistent'
  BY <1>1, <1>4, SnapshotAgrees DEF Launch
<1>5. ASSUME NEW x \in Runs, ProcessDueRun(x) PROVE AllConsistent'
  BY <1>1, <1>5, SnapshotAgrees DEF ProcessDueRun
<1>6. QED BY <1>2, <1>3, <1>4, <1>5, CancelAgrees DEF Administrate

-----------------------------------------------------------------------------
(* One reservation per customer, untouched runs, and runs that close.       *)

Rest == OneReserved /\ FreshRuns /\ RunsClose

\* Nothing is reserved that was not, and no status changes.
LEMMA QuietStep ==
    ASSUME Rest, run' = run,
           \A p \in Recipients :
             /\ recipient'[p].status = recipient[p].status
             /\ recipient'[p].reserved => recipient[p].reserved
    PROVE  Rest'
BY DEF Rest, OneReserved, FreshRuns, RunsClose, Pending, Members

\* r is reserved while no other recipient of its customer is.
LEMMA ReserveStep ==
    ASSUME Rest, run' = run, NEW r \in Recipients, ~Capped(r), TypeOK,
           recipient' = [recipient EXCEPT ![r].reserved = TRUE]
    PROVE  Rest'
<1>1. \A p \in Recipients : recipient'[p].status = recipient[p].status
  BY DEF TypeOK, Row
<1>2. FreshRuns' /\ RunsClose'
  BY <1>1 DEF Rest, FreshRuns, RunsClose, Pending, Members
<1>3. \A p \in Recipients \ {r} :
        /\ recipient'[p] = recipient[p]
        /\ CustomerOf[p] = CustomerOf[r] => ~recipient[p].reserved
  BY DEF Capped, TypeOK
<1>4. OneReserved'
  BY <1>3 DEF Rest, OneReserved
<1>5. QED BY <1>2, <1>4 DEF Rest

\* A row of a snapshot is settled, and its run is closed if it was the last.
LEMMA SettleStep ==
    ASSUME Rest, TypeOK, NEW r \in Recipients, NEW row, Settle(r, row),
           recipient[r].status # "none", row.reserved => recipient[r].reserved
    PROVE  Rest'
<1>1. /\ recipient'[r] = row
      /\ \A p \in Recipients \ {r} : recipient'[p] = recipient[p]
  BY SettleRow
<1>2. OneReserved'
  BY <1>1 DEF Rest, OneReserved
<1>3. /\ RunOf[r] \in Runs
      /\ \A x \in Runs \ {RunOf[r]} : run'[x] = run[x]
      /\ \/ run'[RunOf[r]] = "completed"
         \/ /\ run'[RunOf[r]] = run[RunOf[r]]
            /\ (run[RunOf[r]] = "cancelled" \/ Pending(recipient', RunOf[r]) # {})
  BY RunAssumption DEF Settle, Completed, TypeOK
<1>4. FreshRuns'
  BY <1>1, <1>3, RunAssumption DEF Rest, FreshRuns
<1>5. RunsClose'
  <2> SUFFICES ASSUME NEW x \in Runs, run'[x] = "snapshotted"
               PROVE  Pending(recipient', x) # {}
    BY DEF RunsClose
  <2>1. CASE x = RunOf[r]
    BY <1>3, <2>1
  <2>2. CASE x # RunOf[r]
    BY <1>1, <1>3, <2>2 DEF Rest, RunsClose, Pending, Members
  <2>3. QED BY <2>1, <2>2
<1>6. QED BY <1>2, <1>4, <1>5 DEF Rest

LEMMA SendRest ==
    ASSUME TypeOK, AllConsistent, Rest, NEW r \in Recipients, Send(r)
    PROVE  Rest'
<1>0. /\ recipient[r] \in Row /\ sender[r] \in Senders
      /\ sender[r] # "none" => recipient[r].status # "none"
  BY DEF AllConsistent, Consistent, RowAgrees, TypeOK
<1>1. CASE SkipCancelled(r)
  <2>1. /\ recipient'[r] = [recipient[r] EXCEPT !.status = "skipped"]
        /\ run' = run /\ run[RunOf[r]] = "cancelled"
        /\ \A p \in Recipients \ {r} : recipient'[p] = recipient[p]
    BY <1>1 DEF SkipCancelled, TypeOK, admin
  <2>2. recipient'[r].reserved = recipient[r].reserved
    BY <1>0, <2>1 DEF Row
  <2>3. OneReserved' /\ FreshRuns'
    BY <2>1, <2>2 DEF Rest, OneReserved, FreshRuns
  <2>4. RunsClose'
    BY <2>1 DEF Rest, RunsClose, Pending, Members
  <2>5. QED BY <2>3, <2>4 DEF Rest
<1>2. CASE Enqueue(r)
  BY <1>2, QuietStep DEF Enqueue, admin
<1>3. CASE Reserve(r)
  BY <1>3, ReserveStep DEF Reserve, Sendable, admin
<1>4. CASE Post(r)
  BY <1>4, QuietStep DEF Post, admin
<1>5. ASSUME NEW status \in {"skipped", "failed"}, SkipRecipient(r, status)
      PROVE  Rest'
  <2>1. [recipient[r] EXCEPT !.status = status].reserved = recipient[r].reserved
    BY <1>0 DEF Row
  <2>2. QED BY <1>5, <2>1, SettleStep DEF SkipRecipient, Unsettled
<1>6. ASSUME NEW answer \in {"accepted", "rejected", "gone", "ambiguous"},
             Answer(r, answer)
      PROVE  Rest'
  BY <1>6, QuietStep DEF Answer, admin
<1>7. CASE FallBack(r)
  <2>1. \A p \in Recipients :
          /\ recipient'[p].status = recipient[p].status
          /\ recipient'[p].reserved => recipient[p].reserved
    BY <1>7 DEF FallBack, TypeOK, Row
  <2>2. QED BY <1>7, <2>1, QuietStep DEF FallBack, admin
<1>8. CASE Record(r)
  <2>1. CASE UNCHANGED <<admin, recipient>>
    BY <2>1, QuietStep DEF admin
  <2>2. CASE Settle(r, Recorded(recipient[r], sender[r]))
    <3>1. Recorded(recipient[r], sender[r]).reserved => recipient[r].reserved
      BY <1>0 DEF Recorded, Row
    <3>2. recipient[r].status # "none"
      BY <1>0, <1>8 DEF Record
    <3>3. QED BY <2>2, <3>1, <3>2, SettleStep
  <2>3. QED BY <1>8, <2>1, <2>2 DEF Record
<1>9. CASE SenderDies(r)
  BY <1>9, QuietStep DEF SenderDies, admin
<1>10. QED
  BY <1>1, <1>2, <1>3, <1>4, <1>5, <1>6, <1>7, <1>8, <1>9 DEF Send

LEMMA ReconcileRest ==
    ASSUME TypeOK, Rest, NEW r \in Recipients, Reconcile(r)
    PROVE  Rest'
<1>0. recipient[r] \in Row
  BY DEF TypeOK
<1>1. CASE ReconcileAccepted(r)
  <2>1. Recorded(recipient[r], "accepted").reserved = recipient[r].reserved
    BY <1>0 DEF Recorded, Row
  <2>2. QED BY <1>1, <2>1, SettleStep DEF ReconcileAccepted
<1>2. CASE ReconcileStale(r)
  <2>1. [recipient[r] EXCEPT !.status = "unclear"].reserved = recipient[r].reserved
    BY <1>0 DEF Row
  <2>2. QED BY <1>2, <2>1, SettleStep DEF ReconcileStale
<1>3. QED BY <1>1, <1>2 DEF Reconcile

LEMMA RetryRest ==
    ASSUME TypeOK, Rest, NEW r \in Recipients, RetryFailed(r)
    PROVE  Rest'
<1>1. /\ recipient'[r].status = "pending"
      /\ recipient'[r].reserved = recipient[r].reserved
      /\ \A p \in Recipients \ {r} : recipient'[p] = recipient[p]
      /\ recipient[r].status = "failed" /\ run' = run
  BY DEF RetryFailed, TypeOK, Row, admin
<1>2. OneReserved' /\ FreshRuns'
  BY <1>1 DEF Rest, OneReserved, FreshRuns
<1>3. RunsClose'
  BY <1>1 DEF Rest, RunsClose, Pending, Members
<1>4. QED BY <1>2, <1>3 DEF Rest

LEMMA QueueRest ==
    ASSUME TypeOK, Rest, NEW r \in Recipients, Queue(r)
    PROVE  Rest'
<1>1. ASSUME recipient' = recipient, UNCHANGED admin PROVE Rest'
  BY <1>1, QuietStep DEF admin
<1>2. CASE LateEligibility(r)
  BY <1>1, <1>2, ReserveStep DEF LateEligibility, Reservable, admin
<1>3. ASSUME NEW verdict \in {"allowed", "skip", "defer"}, Eligibility(r, verdict)
      PROVE  Rest'
  BY <1>1, <1>3, ReserveStep DEF Eligibility, Reservable, admin
<1>4. QED
  BY <1>1, <1>2, <1>3 DEF Queue, Claim, FinishDeclined, Admit, Finish, Recover, Receipt

LEMMA ProjectRest ==
    ASSUME TypeOK, AllConsistent, Rest, NEW r \in Recipients, Project(r)
    PROVE  Rest'
<1>1. ASSUME recipient' = recipient, UNCHANGED admin PROVE Rest'
  BY <1>1, QuietStep DEF admin
<1>2. CASE ProjectWrite(r) /\ Settle(r, Projected(recipient[r], seen[r]))
  <2>1. recipient[r].status # "none"
    BY <1>2 DEF ProjectWrite, AllConsistent, Consistent, SmsAgrees, RowAgrees
  <2>2. Projected(recipient[r], seen[r]).reserved => recipient[r].reserved
    BY DEF Projected, TypeOK, Row
  <2>3. QED BY <1>2, <2>1, <2>2, SettleStep
<1>3. QED
  BY <1>1, <1>2 DEF Project, ProjectRead, ProjectWrite, ProjectFail

LEMMA AdministrateRest ==
    ASSUME TypeOK, Rest, Administrate
    PROVE  Rest'
<1>1. CASE \E status \in StatusChanges : SetStatus(status)
  BY <1>1, QuietStep DEF SetStatus
<1>2. CASE \E c \in Customers : OptOut(c)
  BY <1>2, QuietStep DEF OptOut
<1>3. ASSUME NEW x \in Runs, run[x] \in {"none", "scheduled"},
             NEW audience, Snapshot(x, audience)
      PROVE  Rest'
  <2>1. /\ \A p \in Recipients :
             recipient'[p] = IF p \in audience THEN NewRow ELSE recipient[p]
        /\ \A y \in Runs \ {x} : run'[y] = run[y]
        /\ run'[x] = IF audience = {} THEN "completed" ELSE "snapshotted"
        /\ audience \subseteq {p \in Recipients : RunOf[p] = x}
    BY <1>3 DEF Snapshot, TypeOK, Members
  <2>2. OneReserved'
    BY <2>1 DEF Rest, OneReserved, NewRow, NoRow
  <2>3. FreshRuns'
    BY <2>1, RunAssumption DEF Rest, FreshRuns
  <2>4. RunsClose'
    <3> SUFFICES ASSUME NEW y \in Runs, run'[y] = "snapshotted"
                 PROVE  Pending(recipient', y) # {}
      BY DEF RunsClose
    <3>1. CASE y = x
      BY <2>1, <3>1 DEF Pending, Members, NewRow, NoRow
    <3>2. CASE y # x
      BY <2>1, <3>2 DEF Rest, RunsClose, Pending, Members
    <3>3. QED BY <3>1, <3>2
  <2>5. QED BY <2>2, <2>3, <2>4 DEF Rest
<1>4. ASSUME NEW x \in Runs, NEW status \in {"scheduled", "failed"},
             run[x] \in {"none", "scheduled"}, recipient' = recipient,
             run' = [run EXCEPT ![x] = status]
      PROVE  Rest'
  <2>1. OneReserved'
    BY <1>4 DEF Rest, OneReserved
  <2>2. FreshRuns'
    BY <1>4, RunAssumption DEF Rest, FreshRuns, TypeOK
  <2>3. RunsClose'
    BY <1>4 DEF Rest, RunsClose, Pending, TypeOK
  <2>4. QED BY <2>1, <2>2, <2>3 DEF Rest
<1>5. ASSUME NEW x \in Runs, Launch(x) PROVE Rest'
  BY <1>3, <1>4, <1>5 DEF Launch
<1>6. ASSUME NEW x \in Runs, ProcessDueRun(x) PROVE Rest'
  BY <1>3, <1>4, <1>6 DEF ProcessDueRun
<1>7. ASSUME NEW x \in Runs, CancelRunUnsent(x) PROVE Rest'
  <2>1. PICK missed \in SUBSET {r \in Members(x) : Missable(r)} :
          Cancelling(Members(x) \ missed)
    BY <1>7 DEF CancelRunUnsent
  <2>2. \A p \in Recipients :
          \/ recipient'[p] = recipient[p]
          \/ /\ RunOf[p] = x /\ recipient[p].status = "pending"
             /\ recipient'[p] = [recipient[p] EXCEPT !.status = "skipped", !.reserved = FALSE]
    BY <2>1 DEF Cancelling, Released, Members
  <2>3. \A y \in Runs : run'[y] = IF y = x THEN "cancelled" ELSE run[y]
    BY <1>7 DEF CancelRunUnsent, TypeOK
  <2>4. ASSUME NEW p \in Recipients, recipient'[p].reserved PROVE recipient[p].reserved
    <3>1. recipient[p] \in Row
      BY DEF TypeOK
    <3>2. recipient'[p] = recipient[p]
      BY <2>2, <2>4, <3>1 DEF Row
    <3>3. QED BY <2>4, <3>2
  <2>5. OneReserved'
    BY <2>4 DEF Rest, OneReserved
  <2>6. FreshRuns'
    BY <2>2, <2>3, RunAssumption DEF Rest, FreshRuns
  <2>7. RunsClose'
    <3> SUFFICES ASSUME NEW y \in Runs, run'[y] = "snapshotted"
                 PROVE  Pending(recipient', y) # {}
      BY DEF RunsClose
    <3>1. y # x /\ run[y] = "snapshotted"
      BY <2>3
    <3>2. PICK p \in Recipients : RunOf[p] = y /\ recipient[p].status = "pending"
      BY <3>1 DEF Rest, RunsClose, Pending, Members
    <3>3. recipient'[p] = recipient[p]
      BY <2>2, <3>1, <3>2
    <3>4. QED BY <3>2, <3>3 DEF Pending, Members
  <2>8. QED BY <2>5, <2>6, <2>7 DEF Rest
<1>8. QED BY <1>1, <1>2, <1>5, <1>6, <1>7 DEF Administrate

-----------------------------------------------------------------------------
(* The inductive invariant and what follows from it.                        *)

LEMMA InitInvariant == Init => IInv
<1> SUFFICES ASSUME Init PROVE IInv
  OBVIOUS
<1>1. TypeOK
  <2>1. recipient \in [Recipients -> Row] /\ job \in [Recipients -> Job]
    BY Built DEF Init
  <2>2. provider \in [Recipients -> [Channels -> Requests]]
    BY DEF Init, Requests
  <2>3. QED
    BY <2>1, <2>2 DEF Init, TypeOK, CampaignStatuses, RunStatuses, Attempts, Senders
<1>2. AllConsistent
  BY DEF Init, AllConsistent, Consistent, TelegramAgrees, SmsAgrees, ReadAgrees,
         RowAgrees, NoRow, NoJob, Handed, Channels
<1>3. OneReserved /\ FreshRuns /\ RunsClose
  BY RunAssumption DEF Init, OneReserved, FreshRuns, RunsClose, NoRow
<1>4. QED BY <1>1, <1>2, <1>3 DEF IInv

LEMMA StepInvariant == IInv /\ [Next]_vars => IInv'
<1> SUFFICES ASSUME IInv, [Next]_vars PROVE IInv'
  OBVIOUS
<1> USE DEF IInv, Rest
<1>1. CASE Administrate
  BY <1>1, AdministrateTypes, AdministrateAgrees, AdministrateRest
<1>2. ASSUME NEW r \in Recipients, RetryFailed(r) PROVE IInv'
  BY <1>2, RetryTypes, RetryAgrees, RetryRest
<1>3. ASSUME NEW r \in Recipients, Send(r) PROVE IInv'
  BY <1>3, SendTypes, SendAgrees, SendRest
<1>4. ASSUME NEW r \in Recipients, Reconcile(r) PROVE IInv'
  BY <1>4, ReconcileTypes, ReconcileAgrees, ReconcileRest
<1>5. ASSUME NEW r \in Recipients, Queue(r) PROVE IInv'
  BY <1>5, QueueTypes, QueueAgrees, QueueRest
<1>6. ASSUME NEW r \in Recipients, Project(r) PROVE IInv'
  BY <1>6, ProjectTypes, ProjectAgrees, ProjectRest
<1>7. CASE UNCHANGED vars
  BY <1>7 DEF vars, admin, telegram, queue, TypeOK, AllConsistent, OneReserved,
              FreshRuns, RunsClose, Pending, Members
<1>8. QED BY <1>1, <1>2, <1>3, <1>4, <1>5, <1>6, <1>7 DEF Next

LEMMA Invariant == Spec => []IInv
BY InitInvariant, StepInvariant, PTL DEF Spec

\* Every variable keeps its type, for any number of runs, customers and
\* recipients, and whatever eligibility calls outlive their leases.
THEOREM TypeCorrect == Spec => []TypeOK
BY Invariant, PTL DEF IInv

\* A message that may have been handed over keeps its recipient reserved.
LEMMA ContactIsReserved ==
    ASSUME IInv, NEW r \in Recipients, Contacted(r)
    PROVE  recipient[r].reserved
BY DEF IInv, TypeOK, AllConsistent, Consistent, TelegramAgrees, SmsAgrees,
       Contacted, Contacts, Channels, Requests, Handed

\* Nobody gets two marketing messages within the window, over all runs and
\* both channels: every contact holds a reservation, and reservations of one
\* customer exclude each other (marketing_contact_predicate).
THEOREM CapHolds == Spec => []FrequencyCap
<1>1. IInv => FrequencyCap
  <2> SUFFICES ASSUME IInv PROVE FrequencyCap
    OBVIOUS
  <2>1. ASSUME NEW r \in Recipients PROVE Cardinality(Contacts(r)) <= 1
    <3>1. \/ Contacts(r) = {} \/ Contacts(r) = {"sms"} \/ Contacts(r) = {"telegram"}
      <4>1. provider[r]["sms"] = "none" \/ provider[r]["telegram"] = "none"
        BY DEF IInv, TypeOK, AllConsistent, Consistent, TelegramAgrees, SmsAgrees,
               Requests, Channels, Handed
      <4>2. QED BY <4>1 DEF Contacts, Channels
    <3>2. Cardinality({}) = 0
      BY FS_EmptySet
    <3>3. Cardinality({"sms"}) = 1 /\ Cardinality({"telegram"}) = 1
      BY FS_Singleton
    <3>4. QED BY <3>1, <3>2, <3>3
  <2>2. ASSUME NEW r \in Recipients, NEW p \in Recipients, Contacted(r),
               Contacted(p), CustomerOf[r] = CustomerOf[p], r # p
        PROVE  FALSE
    BY <2>2, ContactIsReserved DEF IInv, OneReserved
  <2>3. QED BY <2>1, <2>2 DEF FrequencyCap
<1>2. QED BY <1>1, Invariant, PTL

\* What is reported of a message is what happened to it, and a row that can
\* be sent has nothing on its way (sms_job_outcome, send_recipient).
THEOREM ReportsAreHonest == Spec => []ReportsHonest
<1>1. IInv => ReportsHonest
  <2> SUFFICES ASSUME IInv, NEW r \in Recipients
               PROVE  /\ recipient[r].sent =>
                           \E c \in Channels : provider[r][c] = "taken"
                      /\ recipient[r].status \in {"sent", "delivered"} =>
                           recipient[r].sent
                      /\ (recipient[r].status \in {"skipped", "failed"} /\
                           ~recipient[r].sent) => ~Contacted(r)
                      /\ (recipient[r].status = "pending" /\
                           ~recipient[r].reserved) => ~Contacted(r)
    BY DEF ReportsHonest
  <2>1. Consistent(recipient[r], attempt[r], sender[r], job[r], seen[r], provider[r])
    BY DEF IInv, AllConsistent
  <2>2. provider[r] \in [Channels -> Requests] /\ job[r] \in Job
    BY DEF IInv, TypeOK
  <2>3. recipient[r].sent => \E c \in Channels : provider[r][c] = "taken"
    BY <2>1 DEF Consistent, RowAgrees, Channels
  <2>4. (recipient[r].status \in {"skipped", "failed"} /\ ~recipient[r].sent)
          => ~Contacted(r)
    BY <2>1, <2>2 DEF Consistent, RowAgrees, TelegramAgrees, SmsAgrees, Contacted,
       Contacts, Channels, Requests, Handed
  <2>5. QED BY <2>1, <2>3, <2>4, ContactIsReserved DEF Consistent, RowAgrees
<1>2. QED BY <1>1, Invariant, PTL

\* A run whose recipients have all finished is closed, for runs of any size
\* (_complete_run_if_finished).
THEOREM RunsAreClosed == Spec => []RunsClose
BY Invariant, PTL DEF IInv

\* An SMS starts only past the final gate (_admit_transport, final_gate).
THEOREM StopsHold == Spec => StopsAreHeard
<1> DEFINE Heard == \A r \in Recipients :
         (job[r].phase # "started" /\ job'[r].phase = "started") =>
           /\ campaign = "active" /\ run[RunOf[r]] # "cancelled"
           /\ ~Barred(r)
<1>1. IInv /\ [Next]_vars => [Heard]_vars
  <2> SUFFICES ASSUME IInv, Next, NEW r \in Recipients,
                      job[r].phase # "started", job'[r].phase = "started"
               PROVE  campaign = "active" /\ run[RunOf[r]] # "cancelled" /\ ~Barred(r)
    OBVIOUS
  <2>0. job \in [Recipients -> Job]
    BY DEF IInv, TypeOK
  <2>1. \E verdict \in {"started", "aborted", "skip", "defer"} : Admit(r, verdict)
    <3>1. ASSUME job' = job PROVE FALSE
      BY <3>1
    <3>2. ASSUME NEW q \in Recipients, NEW j, job' = [job EXCEPT ![q] = j],
                 j.phase # "started"
          PROVE  FALSE
      BY <2>0, <3>2
    <3>3. ASSUME NEW status PROVE Outcome(status).phase # "started"
      BY DEF Outcome, NoJob
    <3>4. CASE Administrate
      <4>1. CASE \E x \in Runs : CancelRunUnsent(x)
        <5>1. PICK x \in Runs, missed \in SUBSET Recipients :
                Cancelling(Members(x) \ missed)
          BY <4>1 DEF CancelRunUnsent, Members
        <5>2. job'[r] \in {Outcome("cancelled"), job[r]}
          BY <5>1 DEF Cancelling
        <5>3. QED BY <3>3, <5>2
      <4>2. CASE \E x \in Runs : Launch(x) \/ ProcessDueRun(x)
        BY <3>1, <4>2 DEF Launch, ProcessDueRun, queue
      <4>3. QED
        BY <3>1, <3>4, <4>1, <4>2 DEF Administrate, SetStatus, OptOut, queue
    <3>5. ASSUME NEW q \in Recipients, Send(q) PROVE FALSE
      <4>1. NewJob.phase # "started"
        BY DEF NewJob, NoJob
      <4>2. CASE Enqueue(q) \/ FallBack(q)
        BY <3>2, <4>1, <4>2 DEF Enqueue, FallBack
      <4>3. QED
        BY <3>1, <3>5, <4>2 DEF Send, SkipCancelled, Reserve, Post, SkipRecipient,
           Answer, Record, SenderDies, queue
    <3>6. ASSUME NEW q \in Recipients, RetryFailed(q) \/ Reconcile(q) PROVE FALSE
      BY <3>1, <3>6 DEF RetryFailed, Reconcile, ReconcileAccepted, ReconcileStale, queue
    <3>7. ASSUME NEW q \in Recipients, Project(q) PROVE FALSE
      <4>1. job'[r].phase = job[r].phase
        BY <2>0, <3>7 DEF Project, ProjectRead, ProjectWrite, ProjectFail, Job
      <4>2. QED BY <4>1
    <3>8. ASSUME NEW q \in Recipients, Queue(q)
          PROVE  \E verdict \in {"started", "aborted", "skip", "defer"} : Admit(r, verdict)
      <4>1. CASE Claim(q)
        BY <2>0, <4>1 DEF Claim, NoJob
      <4>2. CASE LateEligibility(q)
        BY <3>1, <4>2 DEF LateEligibility
      <4>3. CASE FinishDeclined(q)
        BY <3>2, <3>3, <4>3 DEF FinishDeclined
      <4>4. CASE \E verdict \in {"allowed", "skip", "defer"} : Eligibility(q, verdict)
        BY <2>0, <4>4 DEF Eligibility, Job
      <4>5. CASE \E status \in {"accepted", "queued", "failed", "uncertain"} :
                   Finish(q, status)
        BY <3>2, <3>3, <4>5 DEF Finish
      <4>6. CASE \E status \in {"queued", "cancelled", "uncertain"} : Recover(q, status)
        BY <3>2, <3>3, <4>6 DEF Recover
      <4>7. CASE \E status \in {"delivered", "undelivered"} : Receipt(q, status)
        BY <3>2, <3>3, <4>7 DEF Receipt
      <4>8. CASE \E verdict \in {"started", "aborted", "skip", "defer"} :
                   Admit(q, verdict)
        BY <2>0, <4>8 DEF Admit
      <4>9. QED
        BY <3>8, <4>1, <4>2, <4>3, <4>4, <4>5, <4>6, <4>7, <4>8 DEF Queue
    <3>9. QED BY <3>4, <3>5, <3>6, <3>7, <3>8 DEF Next
  <2>2. QED BY <2>0, <2>1 DEF Admit, Job
<1>2. QED BY <1>1, Invariant, PTL DEF Spec, StopsAreHeard

\* A skipped recipient stays skipped, whatever the queue still reports
\* (sms_job_outcome, cancel_run_unsent).
THEOREM SkippedIsFinal == Spec => SkippedStays
<1> DEFINE Stays == \A r \in Recipients :
         recipient[r].status = "skipped" => recipient'[r].status = "skipped"
<1>1. IInv /\ [Next]_vars => [Stays]_vars
  <2> SUFFICES ASSUME IInv, Next, NEW r \in Recipients, recipient[r].status = "skipped"
               PROVE  recipient'[r].status = "skipped"
    OBVIOUS
  <2>0. /\ TypeOK /\ recipient[r] \in Row
        /\ Consistent(recipient[r], attempt[r], sender[r], job[r], seen[r], provider[r])
    BY DEF IInv, AllConsistent, TypeOK
  <2>1. ASSUME recipient' = recipient PROVE recipient'[r].status = "skipped"
    BY <2>1
  <2>2. ASSUME NEW q \in Recipients, NEW row, Settle(q, row), q # r
        PROVE  recipient'[r].status = "skipped"
    BY <2>0, <2>2, SettleRow
  <2>3. CASE Administrate
    <3>1. CASE \E x \in Runs : CancelRunUnsent(x)
      BY <2>0, <3>1 DEF CancelRunUnsent, Cancelling, Released, Row
    <3>2. ASSUME NEW x \in Runs, run[x] \in {"none", "scheduled"},
                 NEW audience, Snapshot(x, audience)
          PROVE  recipient'[r].status = "skipped"
      BY <3>2 DEF Snapshot, Members, IInv, FreshRuns
    <3>3. QED
      BY <2>1, <2>3, <3>1, <3>2
         DEF Administrate, SetStatus, OptOut, Launch, ProcessDueRun
  <2>4. ASSUME NEW q \in Recipients, Send(q) PROVE recipient'[r].status = "skipped"
    <3>1. CASE q # r
      BY <2>0, <2>1, <2>2, <2>4, <3>1 DEF Send, SkipCancelled, Enqueue, Reserve, Post,
         SkipRecipient, Answer, FallBack, Record, SenderDies, TypeOK
    <3>2. CASE q = r
      <4>1. sender[r] = "none" /\ recipient[r].status # "pending"
        BY <2>0 DEF Consistent, RowAgrees
      <4>2. QED
        BY <2>4, <3>2, <4>1 DEF Send, SkipCancelled, Enqueue, Reserve, Post, Unsettled,
           Sendable, SkipRecipient, Answer, FallBack, Record, SenderDies
    <3>3. QED BY <3>1, <3>2
  <2>5. ASSUME NEW q \in Recipients, RetryFailed(q) PROVE recipient'[r].status = "skipped"
    BY <2>0, <2>5 DEF RetryFailed, TypeOK
  <2>6. ASSUME NEW q \in Recipients, Reconcile(q) PROVE recipient'[r].status = "skipped"
    BY <2>2, <2>6 DEF Reconcile, ReconcileAccepted, ReconcileStale
  <2>7. ASSUME NEW q \in Recipients, Queue(q) PROVE recipient'[r].status = "skipped"
    <3>1. CASE \/ UNCHANGED recipient
               \/ recipient' = [recipient EXCEPT ![q].reserved = TRUE]
      BY <2>0, <3>1 DEF TypeOK, Row
    <3>2. QED
      BY <2>7, <3>1 DEF Queue, Claim, LateEligibility, FinishDeclined, Eligibility,
         Admit, Finish, Recover, Receipt
  <2>8. ASSUME NEW q \in Recipients, Project(q) PROVE recipient'[r].status = "skipped"
    <3>1. CASE /\ ProjectWrite(q) /\ q = r /\ ~Settled(recipient[r], seen[r])
               /\ Settle(r, Projected(recipient[r], seen[r]))
      <4>1. recipient'[r] = Projected(recipient[r], seen[r])
        BY <3>1, <2>0, SettleRow
      <4>2. seen[r] \in {"skipped", "cancelled"}
        BY <2>0, <3>1 DEF TypeOK, Ended, Consistent, RowAgrees, SmsAgrees, ReadAgrees,
           ProjectWrite, Settled, Handed
      <4>3. QED BY <2>0, <4>1, <4>2 DEF Projected, Row
    <3>2. QED
      BY <2>1, <2>2, <2>8, <3>1 DEF Project, ProjectRead, ProjectWrite, ProjectFail
  <2>9. QED BY <2>3, <2>4, <2>5, <2>6, <2>7, <2>8 DEF Next
<1>2. QED BY <1>1, Invariant, PTL DEF Spec, SkippedStays
=============================================================================
