--------------------------- MODULE SmsQueueProofs ---------------------------
(***************************************************************************)
(* Proofs about SmsQueue for every set of jobs and workers.                *)
(***************************************************************************)
EXTENDS SmsQueueInv, TLAPS

USE DEF Terminal, Statuses, Verdicts

-----------------------------------------------------------------------------
(* What the row transformers write.                                        *)

LEMMA SettleFacts ==
    ASSUME NEW r \in JobRow
    PROVE  /\ Settle(r) \in JobRow
           /\ Settle(r).status = r.status /\ Settle(r).attempts = r.attempts
           /\ Settle(r).started = r.started /\ Settle(r).accepted = r.accepted
           /\ Settle(r).expired = r.expired /\ Settle(r).due = r.due
           /\ Settle(r).token = NoWorker /\ Settle(r).err = r.err /\ ~Settle(r).projected
           /\ Settle(r).payload <=> r.payload /\ r.status \notin Terminal
BY DEF Settle, JobRow

LEMMA RecoverFacts ==
    ASSUME NEW j \in Jobs, NEW r \in JobRow
    PROVE  LET rr == Recover(j, r) IN
           /\ rr \in JobRow
           /\ rr.status \in {"uncertain", "cancelled", "failed", "queued"}
           /\ rr.status = "uncertain" <=> r.status = "dispatching" /\ r.started /\ Op[j] = "send"
           /\ rr.status = "queued" => rr.attempts < MaxAttempts /\ ~r.expired
           /\ rr.attempts = IF r.status = "dispatching" /\ ~r.started THEN Dec(r.attempts) ELSE r.attempts
           /\ rr.started = r.started /\ rr.accepted = r.accepted
           /\ rr.token = NoWorker /\ rr.err /\ ~rr.projected
           /\ rr.payload <=> r.payload /\ rr.status \notin Terminal
<1> DEFINE live == r.status = "dispatching"
           n == IF live /\ ~r.started THEN Dec(r.attempts) ELSE r.attempts
           s == IF live /\ r.started /\ Op[j] = "send" THEN "uncertain"
                ELSE IF r.expired THEN "cancelled"
                ELSE IF n >= MaxAttempts THEN "failed" ELSE "queued"
           d == r.due \/ s = "queued"
           q == [r EXCEPT !.status = s, !.attempts = n, !.err = TRUE, !.due = d]
<1>1. n \in Nat /\ s \in {"uncertain", "cancelled", "failed", "queued"} /\ d \in BOOLEAN
  BY DEF JobRow, Dec
<1>2. /\ s = "uncertain" <=> r.status = "dispatching" /\ r.started /\ Op[j] = "send"
      /\ s = "queued" => n < MaxAttempts /\ ~r.expired
  BY <1>1, MaxAttemptsAssumption
<1>3. Recover(j, r) = Settle(q)
  BY DEF Recover
<1> HIDE DEF s, n, d
<1>4. q \in JobRow /\ q.status = s /\ q.attempts = n /\ q.started = r.started
      /\ q.accepted = r.accepted /\ q.payload = r.payload /\ q.err
  BY <1>1 DEF JobRow
<1> HIDE DEF q
<1>5. n = IF r.status = "dispatching" /\ ~r.started THEN Dec(r.attempts) ELSE r.attempts
  BY DEF n
<1> QED BY <1>1, <1>2, <1>3, <1>4, <1>5, SettleFacts

LEMMA CancelledFacts ==
    ASSUME NEW r \in JobRow
    PROVE  LET rr == Cancelled(r) IN
           /\ rr \in JobRow /\ rr.status = "cancelled"
           /\ rr.attempts = IF r.status = "dispatching" THEN Dec(r.attempts) ELSE r.attempts
           /\ rr.started = r.started /\ rr.accepted = r.accepted
           /\ rr.token = NoWorker /\ rr.err /\ ~rr.projected /\ ~rr.payload
<1> DEFINE n == IF r.status = "dispatching" THEN Dec(r.attempts) ELSE r.attempts
           q == [r EXCEPT !.status = "cancelled", !.err = TRUE, !.attempts = n]
<1>1. n \in Nat
  BY DEF Dec, JobRow
<1>2. Cancelled(r) = Settle(q)
  BY DEF Cancelled
<1> HIDE DEF n
<1>3. q \in JobRow /\ q.status = "cancelled" /\ q.attempts = n /\ q.started = r.started
      /\ q.accepted = r.accepted /\ q.err
  BY <1>1 DEF JobRow
<1> HIDE DEF q
<1>4. n = IF r.status = "dispatching" THEN Dec(r.attempts) ELSE r.attempts
  BY DEF n
<1> QED BY <1>2, <1>3, <1>4, SettleFacts

LEMMA FinishedFacts ==
    ASSUME NEW j \in Jobs, NEW r \in JobRow, NEW v \in Verdicts
    PROVE  LET rr == Finished(j, r, v) IN
           /\ rr \in JobRow
           /\ rr.token = NoWorker /\ ~rr.projected
           /\ rr.attempts = IF v \in Declined THEN Dec(r.attempts) ELSE r.attempts
           /\ v \in Declined => rr.status \in {"queued", "skipped"}
           /\ v \in {"retry", "fail"} => rr.status \in {"queued", "failed"}
           /\ v = "uncertain" => rr.status = "uncertain"
           /\ v = "ok" => rr.status = "accepted"
           /\ rr.status = "queued" => rr.err /\ (v \in Declined \/ r.attempts < MaxAttempts)
           /\ rr.accepted <=> r.accepted \/ (v = "ok" /\ Op[j] = "send")
           /\ rr.payload <=> r.payload /\ rr.status \notin Terminal
<1> DEFINE s == Outcome(r, v)
           n == IF v \in Declined THEN Dec(r.attempts) ELSE r.attempts
           e == v # "ok"
           d == v = "deferNow" \/ s # "queued"
           a == r.accepted \/ (v = "ok" /\ Op[j] = "send")
           q == [r EXCEPT !.status = s, !.attempts = n, !.err = e, !.due = d, !.accepted = a]
<1>1. n \in Nat /\ e \in BOOLEAN /\ d \in BOOLEAN /\ a \in BOOLEAN
  BY DEF Dec, JobRow
<1>2. /\ v \in Declined => s \in {"queued", "skipped"}
      /\ v \in {"retry", "fail"} => s \in {"queued", "failed"}
      /\ v = "uncertain" => s = "uncertain"
      /\ v = "ok" => s = "accepted"
      /\ s = "queued" => e /\ (v \in Declined \/ r.attempts < MaxAttempts)
      /\ s \in {"queued", "skipped", "failed", "uncertain", "accepted"}
  BY DEF Outcome, Declined
<1>3. Finished(j, r, v) = Settle(q)
  BY DEF Finished
<1>4. /\ n = IF v \in Declined THEN Dec(r.attempts) ELSE r.attempts
      /\ a <=> r.accepted \/ (v = "ok" /\ Op[j] = "send")
  OBVIOUS
<1> HIDE DEF s, n, e, d, a
<1>5. q \in JobRow /\ q.status = s /\ q.attempts = n /\ q.err = e
      /\ q.accepted = a /\ q.payload = r.payload
  BY <1>1, <1>2 DEF JobRow
<1> HIDE DEF q
<1>6. q.err => Finished(j, r, v).err
  BY <1>3, <1>5, SettleFacts
<1> QED BY <1>1, <1>2, <1>3, <1>4, <1>5, <1>6, SettleFacts

LEMMA ClaimedFacts ==
    ASSUME NEW r \in JobRow, NEW w \in Workers
    PROVE  LET rr == Claimed(r, w) IN
           /\ rr \in JobRow /\ rr.status = "dispatching" /\ rr.token = w
           /\ ~rr.started /\ ~rr.projected /\ ~rr.err
           /\ rr.attempts = r.attempts + 1 /\ rr.payload = r.payload /\ rr.accepted = r.accepted
<1> DEFINE n == r.attempts + 1
           q == [r EXCEPT !.status = "dispatching", !.token = w, !.leaseOver = FALSE,
                          !.started = FALSE, !.attempts = n, !.err = FALSE,
                          !.projected = FALSE, !.backoff = FALSE]
<1>1. n \in Nat
  BY DEF JobRow
<1>2. Claimed(r, w) = q
  BY DEF Claimed
<1> HIDE DEF n
<1>3. q \in JobRow /\ q.status = "dispatching" /\ q.token = w /\ ~q.started /\ ~q.projected
      /\ ~q.err /\ q.attempts = n /\ q.payload = r.payload /\ q.accepted = r.accepted
  BY <1>1 DEF JobRow
<1>4. n = r.attempts + 1
  BY DEF n
<1> QED BY <1>2, <1>3, <1>4

LEMMA ReceiptedFacts ==
    ASSUME NEW r \in JobRow, NEW s \in {"delivered", "failed"}
    PROVE  LET rr == Receipted(r, s) IN
           /\ rr \in JobRow /\ rr.status = s /\ ~rr.projected
           /\ rr.token = r.token /\ rr.started = r.started /\ rr.attempts = r.attempts
           /\ rr.payload = r.payload /\ rr.accepted = r.accepted
<1> DEFINE e == s = "failed"
           q == [r EXCEPT !.status = s, !.err = e, !.projected = FALSE, !.backoff = FALSE]
<1>1. e \in BOOLEAN
  OBVIOUS
<1>2. Receipted(r, s) = q
  BY DEF Receipted
<1> HIDE DEF e
<1>3. q \in JobRow /\ q.status = s /\ ~q.projected /\ q.token = r.token /\ q.started = r.started
      /\ q.attempts = r.attempts /\ q.payload = r.payload /\ q.accepted = r.accepted
  BY <1>1 DEF JobRow
<1> QED BY <1>2, <1>3

LEMMA MarkedFacts ==
    ASSUME NEW r \in JobRow
    PROVE  LET rr == Marked(r) IN
           /\ rr \in JobRow /\ rr.projected
           /\ rr.status = r.status /\ rr.attempts = r.attempts /\ rr.token = r.token
           /\ rr.started = r.started /\ rr.payload = r.payload /\ rr.accepted = r.accepted
BY DEF Marked, JobRow

LEMMA StartedFacts ==
    ASSUME NEW r \in JobRow
    PROVE  LET rr == Started(r) IN
           /\ rr \in JobRow /\ rr.started /\ rr.err = r.err /\ rr.projected = r.projected
           /\ rr.status = r.status /\ rr.attempts = r.attempts /\ rr.token = r.token
           /\ rr.payload = r.payload /\ rr.accepted = r.accepted
BY DEF Started, JobRow

\* The updates that only time or a failing callback make.
SameClaim(r, q) ==
    /\ q.status = r.status /\ q.attempts = r.attempts /\ q.token = r.token /\ q.started = r.started
    /\ q.accepted = r.accepted /\ q.payload = r.payload
    /\ q.err = r.err /\ q.projected = r.projected

LEMMA ClockFacts ==
    ASSUME NEW r \in JobRow, NEW b \in BOOLEAN
    PROVE  /\ [r EXCEPT !.leaseOver = TRUE] \in JobRow /\ SameClaim(r, [r EXCEPT !.leaseOver = TRUE])
           /\ [r EXCEPT !.due = TRUE] \in JobRow /\ SameClaim(r, [r EXCEPT !.due = TRUE])
           /\ [r EXCEPT !.expired = TRUE] \in JobRow /\ SameClaim(r, [r EXCEPT !.expired = TRUE])
           /\ [r EXCEPT !.backoff = b] \in JobRow /\ SameClaim(r, [r EXCEPT !.backoff = b])
BY DEF JobRow, SameClaim

LEMMA RecoveredFacts ==
    ASSUME TypeOK
    PROVE  /\ RecoveredRows \in [Jobs -> JobRow]
           /\ \A j \in Jobs : RecoveredRows[j] = IF j \in StaleJobs THEN Recover(j, row[j]) ELSE row[j]
BY RecoverFacts DEF TypeOK, RecoveredRows

LEMMA NoSnapType == NoSnap \in Snapshot
BY DEF NoSnap, Snapshot

LEMMA AbsentType == AbsentRow \in JobRow /\ AbsentRow.status = "absent" /\ AbsentRow.attempts = 0
                    /\ AbsentRow.token = NoWorker /\ ~AbsentRow.accepted /\ ~AbsentRow.projected
                    /\ ~AbsentRow.payload /\ ~AbsentRow.started
BY DEF AbsentRow, JobRow

LEMMA EnqueuedType ==
    LET q == [AbsentRow EXCEPT !.status = "queued", !.due = TRUE, !.payload = TRUE] IN
    /\ q \in JobRow /\ q.status = "queued" /\ q.attempts = 0 /\ q.token = NoWorker /\ q.payload
    /\ ~q.accepted /\ ~q.projected /\ ~q.started
BY AbsentType DEF JobRow

-----------------------------------------------------------------------------
(* Types.                                                                  *)

LEMMA TypeInit == Init => TypeOK
BY NullAssumption, AbsentType, NoSnapType DEF Init, TypeOK, Phases, Calls

LEMMA TypeNext ==
    ASSUME TypeOK, Steps, [Next]_vars
    PROVE  TypeOK'
<1> USE DEF TypeOK, Phases, Calls
<1>1. CASE \E j \in Jobs : Enqueue(j)
  BY <1>1, EnqueuedType DEF Enqueue, worker, projection, provider
<1>2. CASE \E j \in Jobs : LateDecision(j)
  BY <1>2 DEF LateDecision, worker, projection
<1>3. CASE CancelUnsent
  BY <1>3, CancelledFacts DEF CancelUnsent, worker, projection, provider
<1>4. ASSUME NEW w \in Workers, NEW j \in Jobs, ClaimJob(w, j) PROVE TypeOK'
  BY <1>4, RecoveredFacts, ClaimedFacts DEF ClaimJob, StaleJobs, provider
<1>5. ASSUME NEW w \in Workers, ClaimNone(w) PROVE TypeOK'
  BY <1>5, RecoveredFacts DEF ClaimNone, StaleJobs, provider
<1>6. ASSUME NEW w \in Workers, NEW j \in Jobs, Scan(w, j) PROVE TypeOK'
  BY <1>6 DEF Scan, Return, provider
<1>7. ASSUME NEW w \in Workers, ScanNone(w) PROVE TypeOK'
  BY <1>7 DEF ScanNone, Return, projection, provider
<1>8. ASSUME NEW w \in Workers, NEW j \in Jobs, ProjectSkip(w, j) PROVE TypeOK'
  BY <1>8 DEF ProjectSkip, worker, provider
<1>9. ASSUME NEW w \in Workers, NEW j \in Jobs, ProjectRead(w, j) PROVE TypeOK'
  BY <1>9 DEF ProjectRead, Snapshot, JobRow, worker, provider
<1>10. ASSUME NEW w \in Workers, ProjectCallback(w) PROVE TypeOK'
  BY <1>10, ZenonT(60) DEF ProjectCallback, Snapshot, NoSnap, worker, provider
<1>11. ASSUME NEW w \in Workers, ProjectMark(w) PROVE TypeOK'
  BY <1>11, NoSnapType, MarkedFacts DEF ProjectMark, ProjectEnd, worker, provider
<1>12. ASSUME NEW w \in Workers, ProjectRaise(w) PROVE TypeOK'
  BY <1>12, NoSnapType, ClockFacts DEF ProjectRaise, ProjectEnd, worker, provider
<1>13. ASSUME NEW w \in Workers, Eligibility(w) PROVE TypeOK'
  BY <1>13 DEF Eligibility, projection, provider
<1>14. ASSUME NEW w \in Workers, Refuse(w) PROVE TypeOK'
  BY <1>14 DEF Refuse, projection, provider
<1>15. ASSUME NEW w \in Workers, Admit(w) PROVE TypeOK'
  <2>1. row' \in [Jobs -> JobRow]
    BY <1>15, StartedFacts DEF Admit
  <2>2. job[w] \in Jobs /\ posts[job[w]] + 1 \in Nat
    BY <1>15 DEF Admit, Admissible, At, Steps, Busy
  <2>3. posts' \in [Jobs -> Nat]
    BY <1>15, <2>2 DEF Admit
  <2> QED BY <1>15, <2>1, <2>3 DEF Admit, projection
<1>16. ASSUME NEW w \in Workers, AdmitUnacknowledged(w) PROVE TypeOK'
  BY <1>16, StartedFacts DEF AdmitUnacknowledged, projection, provider
<1>17. ASSUME NEW w \in Workers, Provider(w) PROVE TypeOK'
  BY <1>17 DEF Provider, ProviderAccepts, ProviderRejects, Sends, projection, provider
<1>18. ASSUME NEW w \in Workers, NEW v \in {"ok", "retry", "fail", "uncertain"}, Answer(w, v) PROVE TypeOK'
  BY <1>18 DEF Answer, Abandon, Sends, projection
<1>19. ASSUME NEW w \in Workers, Finish(w) PROVE TypeOK'
  <2>1. row' \in [Jobs -> JobRow]
    BY <1>19, FinishedFacts, ReceiptedFacts DEF Finish
  <2>2. todo' \in [Workers -> SUBSET Jobs]
    <3>1. PICK D \in SUBSET Receivable(w), F \in SUBSET Receivable(w) :
            todo' = [todo EXCEPT ![w] = {job[w]} \cup D \cup F]
      BY <1>19 DEF Finish
    <3>2. job[w] \in Jobs
      BY <1>19 DEF Finish, Steps, Busy
    <3> QED BY <3>1, <3>2 DEF Receivable, Sends
  <2>3. gate' \in BOOLEAN
    BY <1>19 DEF Finish
  <2> QED BY <1>19, <2>1, <2>2, <2>3 DEF Finish, Return, provider
<1>20. ASSUME NEW w \in Workers, FinishLost(w) PROVE TypeOK'
  BY <1>20 DEF FinishLost, Return, projection, provider
<1>21. ASSUME NEW w \in Workers, Crash(w) PROVE TypeOK'
  BY <1>21, NoSnapType, NullAssumption DEF Crash, Return, Abandon, Sends
<1>22. CASE Time
  <2>1. row' \in [Jobs -> JobRow]
    <3>1. ASSUME NEW j \in Jobs, LeaseEnds(j) PROVE row' \in [Jobs -> JobRow]
      BY <3>1, ClockFacts DEF LeaseEnds
    <3>2. ASSUME NEW j \in Jobs, BecomesDue(j) PROVE row' \in [Jobs -> JobRow]
      BY <3>2, ClockFacts DEF BecomesDue
    <3>3. ASSUME NEW j \in Jobs, Expires(j) PROVE row' \in [Jobs -> JobRow]
      BY <3>3, ClockFacts DEF Expires
    <3>4. ASSUME NEW j \in Jobs, BackoffEnds(j) PROVE row' \in [Jobs -> JobRow]
      BY <3>4, ClockFacts DEF BackoffEnds
    <3> QED BY <1>22, <3>1, <3>2, <3>3, <3>4 DEF Time, GateOpens
  <2> QED BY <1>22, <2>1 DEF Time, GateOpens, LeaseEnds, BecomesDue, Expires, BackoffEnds,
                            worker, projection, provider
<1>23. CASE UNCHANGED vars
  BY <1>23 DEF vars, worker, projection, provider
<1> QED
  BY <1>1, <1>2, <1>3, <1>4, <1>5, <1>6, <1>7, <1>8, <1>9, <1>10, <1>11, <1>12, <1>13, <1>14,
     <1>15, <1>16, <1>17, <1>18, <1>19, <1>20, <1>21, <1>22, <1>23 DEF Next, Work, Project

LEMMA StepsInit == Init => Steps
BY DEF Init, Steps, Busy

LEMMA StepsNext ==
    ASSUME TypeOK, Steps, [Next]_vars
    PROVE  Steps'
<1> USE DEF TypeOK, Steps, Busy, Phases, Calls
<1>1. CASE UNCHANGED worker
  BY <1>1 DEF worker
<1>2. ASSUME NEW w \in Workers, Return(w) PROVE Steps'
  BY <1>2 DEF Return
<1>3. ASSUME NEW w \in Workers, NEW j \in Jobs, ClaimJob(w, j) PROVE Steps'
  BY <1>3 DEF ClaimJob, At
<1>4. ASSUME NEW w \in Workers, ClaimNone(w) PROVE Steps'
  BY <1>4 DEF ClaimNone, At
<1>5. ASSUME NEW w \in Workers, Eligibility(w) PROVE Steps'
  BY <1>5 DEF Eligibility, At
<1>6. ASSUME NEW w \in Workers, Refuse(w) PROVE Steps'
  BY <1>6 DEF Refuse, At
<1>7. ASSUME NEW w \in Workers, Admit(w) PROVE Steps'
  BY <1>7 DEF Admit, Admissible, At
<1>8. ASSUME NEW w \in Workers, AdmitUnacknowledged(w) PROVE Steps'
  BY <1>8 DEF AdmitUnacknowledged, Admissible, At
<1>9. ASSUME NEW w \in Workers, Provider(w) PROVE Steps'
  BY <1>9 DEF Provider, ProviderAccepts, ProviderRejects
<1>10. ASSUME NEW w \in Workers, NEW v \in {"ok", "retry", "fail", "uncertain"}, Answer(w, v) PROVE Steps'
  BY <1>10 DEF Answer
<1>11. ASSUME NEW w \in Workers, Project(w) \/ ProjectRaise(w) PROVE Steps'
  BY <1>1, <1>11 DEF Project, ProjectSkip, ProjectRead, ProjectCallback, ProjectMark, ProjectRaise, ProjectEnd
<1>12. ASSUME NEW w \in Workers, Work(w) PROVE Steps'
  BY <1>2, <1>3, <1>4, <1>5, <1>6, <1>7, <1>8, <1>10, <1>12 DEF Work, Scan, ScanNone, Finish, FinishLost
<1>13. ASSUME NEW w \in Workers, Crash(w) PROVE Steps'
  BY <1>2, <1>13 DEF Crash
<1>14. CASE CancelUnsent \/ Time \/ UNCHANGED vars \/ \E j \in Jobs : Enqueue(j) \/ LateDecision(j)
  BY <1>1, <1>14 DEF CancelUnsent, Time, Enqueue, LateDecision, LeaseEnds, BecomesDue, Expires,
                     BackoffEnds, GateOpens, vars
<1> QED
  BY <1>9, <1>11, <1>12, <1>13, <1>14 DEF Next

\* Every column, worker variable and counter of the queue keeps its type; that a
\* finishing worker has a job needs the invariant on the workers' steps.
THEOREM TypeCorrect == Spec => []TypeOK
<1>1. TypeOK /\ Steps /\ [Next]_vars => (TypeOK /\ Steps)'
  BY TypeNext, StepsNext
<1> QED BY <1>1, TypeInit, StepsInit, PTL DEF Spec

=============================================================================
