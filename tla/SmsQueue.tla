------------------------------ MODULE SmsQueue ------------------------------
(***************************************************************************)
(* The durable SMS queue of app/services/sms_queue.py, run by every worker *)
(* and API process over one PostgreSQL account row and one job table.      *)
(*                                                                         *)
(* A worker is one call of process_one.  Each of its database transactions *)
(* is one action; between two of them any other worker may run, the lease  *)
(* may run out, the process may die.  The transactions of one account are  *)
(* serialised by the account row lock (_account), so an action is atomic.  *)
(*                                                                         *)
(* Time is abstracted to the comparisons the code makes: whether a lease   *)
(* is over, whether a job is due or expired, whether the account may issue *)
(* a request now (gate), whether a projection is backing off.              *)
(***************************************************************************)
EXTENDS Naturals, FiniteSets

CONSTANTS
    Jobs,         \* idempotency keys: one durable job each
    Workers,      \* concurrent process_one calls over all processes
    Op,           \* Op[j] is "send" or "status"
    Priority,     \* Priority[j]: smaller is more urgent
    RunJobs,      \* send jobs that belong to the one campaign run of the model
    MaxAttempts,  \* settings.sms_queue_max_attempts
    Concurrency,  \* settings.sms_queue_concurrency
    NoWorker, NoJob

ASSUME OpAssumption == Op \in [Jobs -> {"send", "status"}]
ASSUME PriorityAssumption == Priority \in [Jobs -> Nat]
ASSUME RunAssumption == RunJobs \subseteq {j \in Jobs : Op[j] = "send"}
ASSUME MaxAttemptsAssumption == MaxAttempts \in Nat \ {0}
ASSUME ConcurrencyAssumption == Concurrency \in Nat \ {0}
ASSUME FiniteAssumption == IsFiniteSet(Jobs) /\ IsFiniteSet(Workers)
ASSUME NullAssumption == NoWorker \notin Workers /\ NoJob \notin Jobs

VARIABLES
    row,     \* row[j]: the SmsQueueJob row of j
    gate,    \* now >= next_request_at and now >= cooldown_until
    pc,      \* pc[w]: the next transaction of worker w in process_one
    job,     \* job[w]: the job it claimed
    verdict, \* verdict[w]: what it will report to _finish
    call,    \* call[w]: its provider request
    todo,    \* todo[w]: jobs it has still to project
    seen,    \* seen[w]: the job snapshot of its projection under way
    lock,    \* lock[j]: holder of the advisory lock _project takes for j
    view,    \* view[j]: the last outcome of j its business callback committed
    posts,   \* posts[j]: provider requests ever issued for j
    late,    \* late[j]: requests whose worker stopped waiting, still undecided
    taken    \* taken[j]: requests of send j the provider accepted

worker == <<pc, job, verdict, call>>
projection == <<todo, seen, lock, view>>
provider == <<posts, late, taken>>
vars == <<row, gate, worker, projection, provider>>

-----------------------------------------------------------------------------

Terminal == {"accepted", "delivered", "failed", "skipped", "uncertain", "cancelled"}
Statuses == Terminal \cup {"absent", "queued", "dispatching"}

\* The columns of a job row that the queue reads.  token is lease_token: a
\* fresh uuid per claim, so it is named by the claim's worker; started, err,
\* projected and accepted say whether the column of that name is not null.
JobRow == [status    : Statuses,
           attempts  : Nat,
           token     : Workers \cup {NoWorker},
           leaseOver : BOOLEAN,   \* lease_expires_at <= now
           started   : BOOLEAN,   \* transport_started_at
           err       : BOOLEAN,   \* error_code
           projected : BOOLEAN,   \* outcome_projected_at
           backoff   : BOOLEAN,   \* projection_retry_at > now
           due       : BOOLEAN,   \* available_at <= now
           expired   : BOOLEAN,   \* expires_at <= now
           payload   : BOOLEAN,   \* the payload still holds phone and body
           accepted  : BOOLEAN]   \* accepted_at

\* What _project remembers between reading a job and marking it projected.
Snapshot == [job : Jobs \cup {NoJob}, status : Statuses, attempts : Nat, done : BOOLEAN]
NoSnap == [job |-> NoJob, status |-> "absent", attempts |-> 0, done |-> FALSE]

Phases == {"claim", "scan", "eligibility", "admission", "transport", "finish"}
Verdicts == {"none", "defer", "deferNow", "skip", "ok", "retry", "fail", "uncertain"}
Calls == {"none", "open", "taken", "rejected"}

Sends == {j \in Jobs : Op[j] = "send"}

AbsentRow == [status |-> "absent", attempts |-> 0, token |-> NoWorker, leaseOver |-> FALSE,
              started |-> FALSE, err |-> FALSE, projected |-> FALSE, backoff |-> FALSE,
              due |-> FALSE, expired |-> FALSE, payload |-> FALSE, accepted |-> FALSE]

Init == /\ row = [j \in Jobs |-> AbsentRow]
        /\ gate = TRUE
        /\ pc = [w \in Workers |-> "claim"]
        /\ job = [w \in Workers |-> NoJob]
        /\ verdict = [w \in Workers |-> "none"]
        /\ call = [w \in Workers |-> "none"]
        /\ todo = [w \in Workers |-> {}]
        /\ seen = [w \in Workers |-> NoSnap]
        /\ lock = [j \in Jobs |-> NoWorker]
        /\ view = [j \in Jobs |-> "absent"]
        /\ posts = [j \in Jobs |-> 0]
        /\ late = [j \in Jobs |-> 0]
        /\ taken = [j \in Jobs |-> 0]

-----------------------------------------------------------------------------
(* Pieces the transactions share.                                          *)

Dec(n) == IF n = 0 THEN 0 ELSE n - 1

\* Mutant: an outcome that keeps the phone number and the body.
SettleKeepsPayload(r) == [r EXCEPT !.token = NoWorker, !.leaseOver = FALSE,
                                   !.projected = FALSE, !.backoff = FALSE]

\* A new outcome: the lease ends, the projection starts over and a terminal
\* job loses its payload.
Settle(r) == [r EXCEPT !.token = NoWorker, !.leaseOver = FALSE,
                       !.projected = FALSE, !.backoff = FALSE,
                       !.payload = @ /\ r.status \notin Terminal]

\* Mutant: abandoned claims are not recovered, only expired waiting jobs.
StaleOnlyExpired(r) == r.status = "queued" /\ r.expired

Stale(r) == \/ r.status = "dispatching" /\ r.leaseOver
            \/ r.status = "queued" /\ r.expired

\* Mutant: an abandoned claim is requeued without asking whether its request left.
RecoverForgetsTransport(j, r) ==
    LET s == IF r.expired THEN "cancelled"
             ELSE IF r.attempts >= MaxAttempts THEN "failed" ELSE "queued"
    IN Settle([r EXCEPT !.status = s, !.err = TRUE, !.due = @ \/ s = "queued"])

\* _recover on one stale row.
Recover(j, r) ==
    LET live == r.status = "dispatching"
        n == IF live /\ ~r.started THEN Dec(r.attempts) ELSE r.attempts
        s == IF live /\ r.started /\ Op[j] = "send" THEN "uncertain"
             ELSE IF r.expired THEN "cancelled"
             ELSE IF n >= MaxAttempts THEN "failed" ELSE "queued"
    IN Settle([r EXCEPT !.status = s, !.attempts = n, !.err = TRUE, !.due = @ \/ s = "queued"])

StaleJobs == {j \in Jobs : Stale(row[j])}
RecoveredRows == [j \in Jobs |-> IF j \in StaleJobs THEN Recover(j, row[j]) ELSE row[j]]

\* Mutant: a retry may be claimed while its previous outcome is unprojected.
ReadyAtOnce(r) == r.status = "queued" /\ r.due /\ ~r.expired

\* A retry is not claimable before its previous outcome reached the business.
Ready(r) == /\ r.status = "queued" /\ r.due /\ ~r.expired
            /\ ~r.err \/ r.projected

Dispatching(rows) == {j \in Jobs : rows[j].status = "dispatching"}

\* Mutant: one claim more than the limit.
SelectedOverLimit(rows, j) ==
    /\ gate
    /\ Cardinality(Dispatching(rows)) <= Concurrency
    /\ Ready(rows[j])
    /\ \A k \in Jobs : Ready(rows[k]) => Priority[j] <= Priority[k]

\* The job process_one selects; order among equals (creation time) is open.
Selected(rows, j) ==
    /\ gate
    /\ Cardinality(Dispatching(rows)) < Concurrency
    /\ Ready(rows[j])
    /\ \A k \in Jobs : Ready(rows[k]) => Priority[j] <= Priority[k]

Claimed(r, w) == [r EXCEPT !.status = "dispatching", !.token = w, !.leaseOver = FALSE,
                           !.started = FALSE, !.attempts = @ + 1, !.err = FALSE,
                           !.projected = FALSE, !.backoff = FALSE]

\* Nothing left to project: process_one goes on.
Quiet(w) == todo[w] = {} /\ seen[w] = NoSnap
At(w, phase) == pc[w] = phase /\ Quiet(w)

\* w ends this call of process_one and starts the next.
Return(w) == /\ pc' = [pc EXCEPT ![w] = "claim"]
             /\ job' = [job EXCEPT ![w] = NoJob]
             /\ verdict' = [verdict EXCEPT ![w] = "none"]
             /\ call' = [call EXCEPT ![w] = "none"]

\* Mutant: ownership by status alone, not by lease token.
OwnsAnyClaim(w) == row[job[w]].status = "dispatching"

\* Mutant: a worker writes its verdict whoever owns the row.
OwnsAlways(w) == TRUE

\* w still holds the claim it made: status and lease_token are as claimed.
Owns(w) == row[job[w]].status = "dispatching" /\ row[job[w]].token = w

-----------------------------------------------------------------------------
(* Producers and cancellation.                                             *)

\* enqueue: the unique idempotency key makes a repeated call return the row.
Enqueue(j) ==
    /\ row[j].status = "absent"
    /\ row' = [row EXCEPT ![j] = [AbsentRow EXCEPT !.status = "queued", !.due = TRUE, !.payload = TRUE]]
    /\ UNCHANGED <<gate, worker, projection, provider>>

\* Mutant: a claim whose request has left is cancelled too.
UnsentOrClaimed(r) == r.status \in {"queued", "dispatching"}

Unsent(r) == r.status = "queued" \/ (r.status = "dispatching" /\ ~r.started)

Cancelled(r) == Settle([r EXCEPT !.status = "cancelled", !.err = TRUE,
                                 !.attempts = IF r.status = "dispatching" THEN Dec(@) ELSE @])

\* cancel_run_unsent: every job of the run that has not reached the provider.
CancelUnsent ==
    /\ \E j \in RunJobs : Unsent(row[j])
    /\ row' = [j \in Jobs |->
                 IF j \in RunJobs /\ Unsent(row[j])
                   THEN Cancelled(row[j]) ELSE row[j]]
    /\ UNCHANGED <<gate, worker, projection, provider>>

-----------------------------------------------------------------------------
(* process_one, transaction 1: recover what is stale, then claim a job.    *)

ClaimJob(w, j) ==
    /\ At(w, "claim")
    /\ Selected(RecoveredRows, j)
    /\ row' = [RecoveredRows EXCEPT ![j] = Claimed(@, w)]
    /\ pc' = [pc EXCEPT ![w] = "eligibility"]
    /\ job' = [job EXCEPT ![w] = j]
    /\ todo' = [todo EXCEPT ![w] = StaleJobs]
    /\ UNCHANGED <<gate, verdict, call, seen, lock, view, provider>>

ClaimNone(w) ==
    /\ At(w, "claim")
    /\ ~\E j \in Jobs : Selected(RecoveredRows, j)
    /\ row' = RecoveredRows
    /\ pc' = [pc EXCEPT ![w] = "scan"]
    /\ todo' = [todo EXCEPT ![w] = StaleJobs]
    /\ UNCHANGED <<gate, job, verdict, call, seen, lock, view, provider>>

\* Mutant: cancellations are left out of the statuses to project.
HasOutcomeButCancelled(r) == \/ r.status \in Terminal \ {"cancelled"}
                             \/ r.status = "queued" /\ r.err

HasOutcome(r) == r.status \in Terminal \/ (r.status = "queued" /\ r.err)
Unprojected(r) == HasOutcome(r) /\ ~r.projected

\* A worker that claimed nothing projects one durable outcome left behind.
Scan(w, j) ==
    /\ At(w, "scan")
    /\ Unprojected(row[j]) /\ ~row[j].backoff
    /\ todo' = [todo EXCEPT ![w] = {j}]
    /\ Return(w)
    /\ UNCHANGED <<row, gate, seen, lock, view, provider>>

ScanNone(w) ==
    /\ At(w, "scan")
    /\ \A j \in Jobs : Unprojected(row[j]) => row[j].backoff
    /\ Return(w)
    /\ UNCHANGED <<row, gate, projection, provider>>

-----------------------------------------------------------------------------
(* _project: read under the advisory lock, run the business callback in a  *)
(* transaction of its own, then mark the outcome if it is still the one.   *)

ProjectSkip(w, j) ==
    /\ seen[w] = NoSnap /\ j \in todo[w]
    /\ lock[j] # NoWorker \/ ~Unprojected(row[j])
    /\ todo' = [todo EXCEPT ![w] = @ \ {j}]
    /\ UNCHANGED <<row, gate, worker, seen, lock, view, provider>>

ProjectRead(w, j) ==
    /\ seen[w] = NoSnap /\ j \in todo[w]
    /\ lock[j] = NoWorker /\ Unprojected(row[j])
    /\ lock' = [lock EXCEPT ![j] = w]
    /\ seen' = [seen EXCEPT ![w] = [job |-> j, status |-> row[j].status,
                                   attempts |-> row[j].attempts, done |-> FALSE]]
    /\ UNCHANGED <<row, gate, worker, todo, view, provider>>

ProjectCallback(w) ==
    /\ seen[w] # NoSnap /\ ~seen[w].done
    /\ view' = [view EXCEPT ![seen[w].job] = seen[w].status]
    /\ seen' = [seen EXCEPT ![w].done = TRUE]
    /\ UNCHANGED <<row, gate, worker, todo, lock, provider>>

\* Mutant: the mark does not compare the outcome with the one projected.
SameOutcomeAlways(s) == TRUE

SameOutcome(s) == row[s.job].status = s.status /\ row[s.job].attempts = s.attempts
Marked(r) == [r EXCEPT !.projected = TRUE, !.backoff = FALSE]

ProjectEnd(w) ==
    /\ lock' = [lock EXCEPT ![seen[w].job] = NoWorker]
    /\ todo' = [todo EXCEPT ![w] = @ \ {seen[w].job}]
    /\ seen' = [seen EXCEPT ![w] = NoSnap]
    /\ UNCHANGED <<gate, worker, view, provider>>

ProjectMark(w) ==
    /\ seen[w] # NoSnap /\ seen[w].done
    /\ row' = IF SameOutcome(seen[w])
                THEN [row EXCEPT ![seen[w].job] = Marked(@)]
                ELSE row
    /\ ProjectEnd(w)

\* The callback raised, with or without its own transaction committed.
ProjectRaise(w) ==
    /\ seen[w] # NoSnap
    /\ row' = IF SameOutcome(seen[w]) /\ ~row[seen[w].job].projected
                THEN [row EXCEPT ![seen[w].job].backoff = TRUE]
                ELSE row
    /\ ProjectEnd(w)

-----------------------------------------------------------------------------
(* Eligibility, admission and transport of the claimed job.                *)

\* The eligibility callback of a send may defer or skip; one that raises
\* defers.  Status jobs have no callback.
Eligibility(w) ==
    /\ At(w, "eligibility")
    /\ \/ /\ pc' = [pc EXCEPT ![w] = "admission"]
          /\ UNCHANGED verdict
       \/ /\ Op[job[w]] = "send"
          /\ pc' = [pc EXCEPT ![w] = "finish"]
          /\ \E d \in {"defer", "skip"} : verdict' = [verdict EXCEPT ![w] = d]
    /\ UNCHANGED <<row, gate, job, call, projection, provider>>

ClaimLive(w) == Owns(w) /\ ~row[job[w]].leaseOver

\* A more urgent job that is waiting or has not reached its own admission.
Overtakes(k, j) ==
    /\ Priority[k] < Priority[j]
    /\ ~row[k].expired
    /\ \/ Ready(row[k])
       \/ row[k].status = "dispatching" /\ ~row[k].started /\ ~row[k].leaseOver

\* The answers of _admit_transport short of admission: the claim is gone; the
\* job expired or a final gate (OTP, campaign, waitlist, booking) skips it; a
\* final gate, the account throttle, a more urgent job or a failure defers it.
Refusal(w, d) ==
    LET j == job[w] IN
    \/ d = "deferNow" /\ ~ClaimLive(w)
    \/ d = "skip" /\ ClaimLive(w) /\ (row[j].expired \/ Op[j] = "send")
    \/ d = "defer"

Refuse(w) ==
    /\ At(w, "admission")
    /\ pc' = [pc EXCEPT ![w] = "finish"]
    /\ \E d \in {"defer", "deferNow", "skip"} :
         Refusal(w, d) /\ verdict' = [verdict EXCEPT ![w] = d]
    /\ UNCHANGED <<row, gate, job, call, projection, provider>>

Admissible(w) ==
    LET j == job[w] IN
    /\ At(w, "admission")
    /\ ClaimLive(w) /\ ~row[j].expired
    /\ gate
    /\ \A k \in Jobs : ~Overtakes(k, j)

Started(r) == [r EXCEPT !.started = TRUE]

\* The transport start is durable before the request leaves.
Admit(w) ==
    /\ Admissible(w)
    /\ row' = [row EXCEPT ![job[w]] = Started(@)]
    /\ gate' = FALSE
    /\ pc' = [pc EXCEPT ![w] = "transport"]
    /\ call' = [call EXCEPT ![w] = "open"]
    /\ posts' = [posts EXCEPT ![job[w]] = @ + 1]
    /\ UNCHANGED <<job, verdict, projection, late, taken>>

\* The commit took effect, its acknowledgement was lost: no request is made.
AdmitUnacknowledged(w) ==
    /\ Admissible(w)
    /\ row' = [row EXCEPT ![job[w]] = Started(@)]
    /\ gate' = FALSE
    /\ pc' = [pc EXCEPT ![w] = "finish"]
    /\ verdict' = [verdict EXCEPT ![w] = "defer"]
    /\ UNCHANGED <<job, call, projection, provider>>

\* The provider decides an open request; only sends are counted as taken.
ProviderAccepts(w) ==
    /\ call[w] = "open"
    /\ call' = [call EXCEPT ![w] = "taken"]
    /\ taken' = IF job[w] \in Sends THEN [taken EXCEPT ![job[w]] = @ + 1] ELSE taken
    /\ UNCHANGED <<row, gate, pc, job, verdict, projection, posts, late>>

ProviderRejects(w) ==
    /\ call[w] = "open"
    /\ call' = [call EXCEPT ![w] = "rejected"]
    /\ UNCHANGED <<row, gate, pc, job, verdict, projection, provider>>

\* A request that outlived its worker is still decided, or never arrives.
LateDecision(j) ==
    /\ late[j] > 0
    /\ late' = [late EXCEPT ![j] = @ - 1]
    /\ \/ taken' = [taken EXCEPT ![j] = @ + 1]
       \/ UNCHANGED taken
    /\ UNCHANGED <<row, gate, worker, projection, posts>>

\* Worker w stops waiting for its answer.
Abandon(w) ==
    late' = IF call[w] = "open" /\ job[w] \in Sends THEN [late EXCEPT ![job[w]] = @ + 1] ELSE late

\* The transport returned: a confirmed result, a definitive rejection that may
\* or may not be retried, or no definitive answer, which is uncertain for a
\* send and a plain retry for a status request.
Answer(w, v) ==
    /\ pc[w] = "transport"
    /\ \/ v = "ok" /\ call[w] = "taken"
       \/ v \in {"retry", "fail"} /\ call[w] = "rejected"
       \/ v = "uncertain" /\ Op[job[w]] = "send"
       \/ v = "retry" /\ Op[job[w]] = "status"
    /\ Abandon(w)
    /\ pc' = [pc EXCEPT ![w] = "finish"]
    /\ verdict' = [verdict EXCEPT ![w] = v]
    /\ call' = [call EXCEPT ![w] = "none"]
    /\ UNCHANGED <<row, gate, job, projection, posts, taken>>

-----------------------------------------------------------------------------
(* _finish: only the owner of the claim may write its outcome.             *)

Declined == {"defer", "deferNow", "skip"}  \* the decision argument: no request was made

\* Mutant: a send without a definitive answer is recorded as failed.
OutcomeCertain(r, v) ==
    CASE v \in {"defer", "deferNow"} -> "queued"
      [] v = "skip" -> "skipped"
      [] v \in {"uncertain", "fail"} -> "failed"
      [] v = "retry" -> IF r.attempts < MaxAttempts THEN "queued" ELSE "failed"
      [] OTHER -> "accepted"

\* The status a claim with verdict v ends in.
Outcome(r, v) ==
    CASE v \in {"defer", "deferNow"} -> "queued"
      [] v = "skip" -> "skipped"
      [] v = "uncertain" -> "uncertain"
      [] v = "retry" -> IF r.attempts < MaxAttempts THEN "queued" ELSE "failed"
      [] v = "fail" -> "failed"
      [] OTHER -> "accepted"

\* Mutant: a rejected request hands its attempt back like a deferred one.
FinishedRefunding(j, r, v) ==
    LET s == Outcome(r, v) IN
    Settle([r EXCEPT !.status = s,
                     !.attempts = IF v \in Declined \cup {"retry"} THEN Dec(@) ELSE @,
                     !.err = (v # "ok"),
                     !.due = (v = "deferNow" \/ s # "queued"),
                     !.accepted = @ \/ (v = "ok" /\ Op[j] = "send")])

\* The row _finish writes.  The acceptance of a send is stamped.
Finished(j, r, v) ==
    LET s == Outcome(r, v) IN
    Settle([r EXCEPT !.status = s,
                     !.attempts = IF v \in Declined THEN Dec(@) ELSE @,
                     !.err = (v # "ok"),
                     !.due = (v = "deferNow" \/ s # "queued"),
                     !.accepted = @ \/ (v = "ok" /\ Op[j] = "send")])

\* A delivery receipt that changes the state of an accepted send.
Receipted(r, status) ==
    [r EXCEPT !.status = status, !.err = (status = "failed"), !.projected = FALSE, !.backoff = FALSE]

\* Mutant: a delivered send still takes receipts.
ReceivableAlways(w) ==
    {k \in Sends : Op[job[w]] = "status" /\ verdict[w] = "ok" /\ row[k].accepted}

\* The sends whose receipts the answer of w may carry.
Receivable(w) ==
    {k \in Sends : /\ Op[job[w]] = "status" /\ verdict[w] = "ok"
                   /\ row[k].accepted /\ row[k].status # "delivered"}

\* D were delivered, F failed, the others' receipts bring nothing new.
Finish(w) ==
    /\ pc[w] = "finish"
    /\ Owns(w)
    /\ \E D \in SUBSET Receivable(w) : \E F \in SUBSET (Receivable(w) \ D) :
         /\ row' = [k \in Jobs |->
                      IF k = job[w] THEN Finished(k, row[k], verdict[w])
                      ELSE IF k \in D THEN Receipted(row[k], "delivered")
                      ELSE IF k \in F THEN Receipted(row[k], "failed")
                      ELSE row[k]]
         /\ todo' = [todo EXCEPT ![w] = {job[w]} \cup D \cup F]
    /\ gate' = (gate /\ verdict[w] \in Declined)
    /\ Return(w)
    /\ UNCHANGED <<seen, lock, view, provider>>

FinishLost(w) ==
    /\ pc[w] = "finish"
    /\ ~Owns(w)
    /\ Return(w)
    /\ UNCHANGED <<row, gate, projection, provider>>

-----------------------------------------------------------------------------
(* The environment: crashes and the passage of time.                       *)

\* The process dies: its session locks go, its row locks were never held
\* across actions, its open request may or may not have left.
Crash(w) ==
    /\ ~At(w, "claim")
    /\ Return(w)
    /\ Abandon(w)
    /\ todo' = [todo EXCEPT ![w] = {}]
    /\ seen' = [seen EXCEPT ![w] = NoSnap]
    /\ lock' = [j \in Jobs |-> IF lock[j] = w THEN NoWorker ELSE lock[j]]
    /\ UNCHANGED <<row, gate, view, posts, taken>>

LeaseEnds(j) ==
    /\ row[j].status = "dispatching" /\ ~row[j].leaseOver
    /\ row' = [row EXCEPT ![j].leaseOver = TRUE]
    /\ UNCHANGED <<gate, worker, projection, provider>>

BecomesDue(j) ==
    /\ row[j].status = "queued" /\ ~row[j].due
    /\ row' = [row EXCEPT ![j].due = TRUE]
    /\ UNCHANGED <<gate, worker, projection, provider>>

Expires(j) ==
    /\ row[j].status \in {"queued", "dispatching"} /\ ~row[j].expired
    /\ row' = [row EXCEPT ![j].expired = TRUE]
    /\ UNCHANGED <<gate, worker, projection, provider>>

BackoffEnds(j) ==
    /\ row[j].backoff
    /\ row' = [row EXCEPT ![j].backoff = FALSE]
    /\ UNCHANGED <<gate, worker, projection, provider>>

GateOpens ==
    /\ ~gate
    /\ gate' = TRUE
    /\ UNCHANGED <<row, worker, projection, provider>>

Time == GateOpens \/ \E j \in Jobs : LeaseEnds(j) \/ BecomesDue(j) \/ Expires(j) \/ BackoffEnds(j)

Project(w) == \/ \E j \in Jobs : ProjectSkip(w, j) \/ ProjectRead(w, j)
              \/ ProjectCallback(w) \/ ProjectMark(w)

Work(w) == \/ ClaimNone(w) \/ ScanNone(w) \/ Eligibility(w) \/ Refuse(w) \/ Admit(w)
           \/ AdmitUnacknowledged(w) \/ Finish(w) \/ FinishLost(w)
           \/ \E j \in Jobs : ClaimJob(w, j) \/ Scan(w, j)
           \/ \E v \in {"ok", "retry", "fail", "uncertain"} : Answer(w, v)

Provider(w) == ProviderAccepts(w) \/ ProviderRejects(w)

Next == \/ \E j \in Jobs : Enqueue(j) \/ LateDecision(j)
        \/ CancelUnsent
        \/ \E w \in Workers : Work(w) \/ Project(w) \/ ProjectRaise(w) \/ Provider(w) \/ Crash(w)
        \/ Time

Spec == Init /\ [][Next]_vars

-----------------------------------------------------------------------------
(* Properties.                                                             *)

TypeOK == /\ row \in [Jobs -> JobRow]
          /\ gate \in BOOLEAN
          /\ pc \in [Workers -> Phases]
          /\ job \in [Workers -> Jobs \cup {NoJob}]
          /\ verdict \in [Workers -> Verdicts]
          /\ call \in [Workers -> Calls]
          /\ todo \in [Workers -> SUBSET Jobs]
          /\ seen \in [Workers -> Snapshot]
          /\ lock \in [Jobs -> Workers \cup {NoWorker}]
          /\ view \in [Jobs -> Statuses]
          /\ posts \in [Jobs -> Nat]
          /\ late \in [Jobs -> Nat]
          /\ taken \in [Jobs -> Nat]

\* The provider has not decided yet the request for j that w waits for.
InCall(w, j) == job[w] = j /\ call[w] = "open"

\* The provider took j, or still may.
Exposed(j) == taken[j] > 0 \/ late[j] > 0 \/ \E w \in Workers : InCall(w, j)

SentOnce(j) == /\ taken[j] + late[j] <= 1
               /\ \A w \in Workers : InCall(w, j) => /\ taken[j] + late[j] = 0
                                                     /\ \A v \in Workers : InCall(v, j) => v = w

\* No SMS reaches a customer twice: over all crashes, lease takeovers, retries
\* and late requests, at most one request of a send is accepted or undecided
\* (docs/sms-queue-api.md:70: "Expired claims whose transport may have started become
\* uncertain and are not made sendable again").
SendOnce == \A j \in Sends : SentOnce(j)

Honest(j) == /\ Exposed(j) => \/ row[j].status = "dispatching" /\ row[j].started
                              \/ row[j].status \in {"accepted", "delivered", "uncertain"}
                              \/ row[j].status = "failed" /\ row[j].accepted
             /\ row[j].accepted => taken[j] = 1

\* A row that reads queued, skipped, cancelled or failed at dispatch belongs to
\* a message the provider neither took nor can still take, and a row stamped
\* accepted to one it took: no status the queue reports misleads its reader.
HonestOutcome == \A j \in Sends : Honest(j)

\* outcome_projected_at is set only while the business rows show that outcome:
\* a receipt or cancellation that lands during a callback reopens projection.
ProjectionFaithful == \A j \in Jobs : row[j].projected => view[j] = row[j].status

\* The provider is asked at most sms_queue_max_attempts times per job, though
\* deferrals, recoveries and cancellations hand attempts back.
RetryBudget == \A j \in Jobs : posts[j] <= MaxAttempts

\* Claims in flight over all workers stay within sms_queue_concurrency.
ClaimsBounded == Cardinality(Dispatching(row)) <= Concurrency

\* Message bodies and OTPs survive exactly as long as the job can be sent.
PayloadErased == \A j \in Jobs : row[j].payload <=> row[j].status \in {"queued", "dispatching"}

\* The callbacks of a job keep step with its attempts, whichever workers run
\* them: an old retry callback cannot clear a newer attempt's send reservation,
\* as none commits for a job that is claimed, and a retry is claimed only after
\* the business committed its previous outcome.
CallbacksInOrder ==
    [][\A j \in Jobs :
         /\ view'[j] # view[j] => row[j].status # "dispatching"
         /\ row[j].status = "queued" /\ row[j].err /\ row'[j].status = "dispatching"
              => view[j] = "queued"]_vars

\* A terminal job never becomes sendable again and a delivered one is final,
\* whatever stale worker, recovery, cancellation or late receipt comes.
TerminalIsFinal ==
    [][\A j \in Jobs : /\ row[j].status \in Terminal => row'[j].status \in Terminal
                       /\ row[j].status = "delivered" => row'[j].status = "delivered"]_vars

\* docs/sms-queue-api.md:21 calls sms_queue_concurrency the "Maximum
\* simultaneous provider operations across account workers".
ProviderConcurrency == Cardinality({w \in Workers : pc[w] = "transport"}) <= Concurrency

\* Fairness: workers poll forever (run_sms_queue_worker), clocks advance, and a
\* step that can be taken again and again is not interrupted by a crash or a
\* failing callback every single time.
Fairness ==
    /\ WF_vars(GateOpens)
    /\ \A j \in Jobs : /\ WF_vars(LeaseEnds(j)) /\ WF_vars(Expires(j)) /\ WF_vars(BackoffEnds(j))
                       /\ SF_vars(\E w \in Workers : Scan(w, j))
                       /\ SF_vars(\E w \in Workers : ProjectRead(w, j))
                       /\ SF_vars(\E w \in Workers : ProjectCallback(w) /\ seen[w].job = j)
                       /\ SF_vars(\E w \in Workers : ProjectMark(w) /\ seen[w].job = j)
    /\ \A w \in Workers : SF_vars(ClaimNone(w)) /\ WF_vars(Work(w)) /\ WF_vars(Project(w))
FairSpec == Spec /\ Fairness

\* Every durable job reaches a terminal outcome.
JobsSettle == \A j \in Jobs : row[j].status = "queued" ~> row[j].status \in Terminal

\* Every terminal outcome reaches the business rows, though the worker that
\* wrote it may die before its callback or the callback may fail.
OutcomesProjected == \A j \in Jobs : row[j].status \in Terminal ~> row[j].projected
=============================================================================
