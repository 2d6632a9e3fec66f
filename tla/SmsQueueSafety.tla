--------------------------- MODULE SmsQueueSafety ---------------------------
(***************************************************************************)
(* The safety theorems of SmsQueue: its invariant Inv is inductive, and    *)
(* under it each step is a step of SmsDelivery or stutters.                *)
(*                                                                         *)
(* Most steps keep what Inv says about the claims and provider requests of *)
(* a job, its Core: the row is kept, withdrawn (recovered or cancelled) or *)
(* created, and no worker moves on with a claim of the job.  KeepCore      *)
(* proves those at once; for the job a claim's owner or the provider works *)
(* on, each step has a lemma of its own.                                   *)
(***************************************************************************)
EXTENDS SmsQueueProofs, FiniteSetTheorems

Kept(j) ==
    /\ row'[j].status = row[j].status /\ row'[j].attempts = row[j].attempts
    /\ row'[j].token = row[j].token /\ row'[j].started = row[j].started
    /\ row'[j].accepted = row[j].accepted /\ row'[j].payload = row[j].payload

\* Recovered or cancelled: a started send becomes uncertain, nothing else does.
Withdrawn(j) ==
    /\ row[j].status \in {"queued", "dispatching"}
    /\ row'[j].status \in {"uncertain", "cancelled", "failed", "queued"}
    /\ row'[j].status = "uncertain" <=> row[j].status = "dispatching" /\ row[j].started /\ j \in Sends
    /\ row'[j].status = "queued" => row'[j].attempts < MaxAttempts
    /\ row'[j].attempts = IF row[j].status = "dispatching" /\ ~row[j].started
                            THEN Dec(row[j].attempts) ELSE row[j].attempts
    /\ row'[j].token = NoWorker /\ row'[j].accepted = row[j].accepted
    /\ row'[j].payload <=> row[j].payload /\ row'[j].status \notin Terminal

Created(j) ==
    /\ row[j].status = "absent" /\ row'[j].status = "queued" /\ row'[j].attempts = 0
    /\ row'[j].token = NoWorker /\ ~row'[j].accepted /\ row'[j].payload

RowKept(j) == Kept(j) \/ Withdrawn(j) \/ Created(j)

\* A worker that is past its claim of j after the step was there before.
WorkersKept(j) ==
    \A w \in Workers :
      /\ job'[w] = j /\ pc'[w] \in Busy => pc'[w] = pc[w] /\ job'[w] = job[w] /\ verdict'[w] = verdict[w]
      /\ job'[w] = j /\ call'[w] # "none" => call'[w] = call[w] /\ job'[w] = job[w]
      /\ job[w] = j /\ call[w] # "none" => call'[w] = call[w] /\ job'[w] = job[w]

ProviderKept(j) == posts'[j] = posts[j] /\ late'[j] = late[j] /\ taken'[j] = taken[j]

LEMMA KeepCore ==
    ASSUME Inv, TypeOK', Steps', NEW j \in Jobs, RowKept(j), WorkersKept(j), ProviderKept(j)
    PROVE  CoreOf(j)'
<1> USE DEF Inv, Core, CoreOf, ProviderKept
<1>1. \A w \in Workers : InCall(w, j)' <=> InCall(w, j)
  BY DEF InCall, WorkersKept
<1>2. Exposed(j)' <=> Exposed(j)
  BY <1>1 DEF Exposed
<1>3. j \in Sends => SentOnce(j)'
  BY <1>1 DEF SentOnce
<1>4. ASSUME j \in Sends PROVE Honest(j)'
  <2>1. Honest(j) /\ Claim(j) /\ j \in Sends
    BY <1>4
  <2> QED BY <1>2, <2>1 DEF Honest, Claim, RowKept, Kept, Withdrawn, Created
<1>5. Claim(j)'
  <2>1. Kept(j) \/ row'[j].token = NoWorker
    BY DEF RowKept, Withdrawn, Created
  <2>2. row'[j].accepted => row'[j].status \in {"accepted", "delivered", "failed"}
    BY DEF RowKept, Kept, Withdrawn, Created, Claim
  <2> QED BY <2>1, <2>2, NullAssumption DEF Kept, Claim, WorkersKept, Busy
<1>6. ASSUME j \in Sends PROVE Transport(j)'
  <2> SUFFICES ASSUME NEW w \in Workers, InTransport(w, j)'
               PROVE  /\ \/ row'[j].status = "dispatching" /\ row'[j].token = w /\ row'[j].started
                         \/ row'[j].status = "uncertain"
                      /\ \A v \in Workers : InTransport(v, j)' => v = w
                      /\ late'[j] = 0
                      /\ call'[w] \in {"open", "rejected"} => taken'[j] = 0
                      /\ call'[w] = "taken" => taken'[j] = 1
    BY DEF Transport
  <2>1. \A v \in Workers : InTransport(v, j)' => InTransport(v, j)
    BY DEF InTransport, WorkersKept, Busy
  <2>2. call'[w] # "none" => call'[w] = call[w]
    BY DEF WorkersKept, InTransport
  <2>3. /\ \/ row[j].status = "dispatching" /\ row[j].token = w /\ row[j].started
           \/ row[j].status = "uncertain"
        /\ j \in Sends
    BY <1>6, <2>1 DEF Transport
  <2>4. Kept(j) \/ row'[j].status = "uncertain"
    BY <2>3 DEF RowKept, Withdrawn, Created
  <2> QED BY <1>6, <2>1, <2>2, <2>3, <2>4 DEF Transport, Kept
<1>7. ASSUME j \in Sends PROVE Report(j)'
  <2> SUFFICES ASSUME NEW w \in Workers, pc'[w] = "finish", job'[w] = j
               PROVE  /\ verdict'[w] = "ok" => taken'[j] = 1
                      /\ row'[j].token = w /\ verdict'[w] \in Refused => ~Exposed(j)'
    BY DEF Report
  <2>1. pc[w] = "finish" /\ job[w] = j /\ verdict'[w] = verdict[w]
    BY DEF WorkersKept, Busy
  <2>2. row'[j].token = w => row[j].token = w
    BY NullAssumption DEF RowKept, Kept, Withdrawn, Created
  <2> QED BY <1>2, <1>7, <2>1, <2>2 DEF Report
<1>8. Budget(j)'
  <2>0. row[j].attempts \in Nat /\ posts[j] \in Nat
    BY DEF TypeOK, JobRow
  <2>1. CASE Kept(j)
    <3>1. \A w \in Workers : pc'[w] = "finish" /\ job'[w] = j
                               => pc[w] = "finish" /\ job'[w] = job[w] /\ verdict'[w] = verdict[w]
      BY DEF WorkersKept, Busy
    <3>2. \A w \in Workers :
            row'[j].token = w /\ pc'[w] = "finish" /\ job'[w] = j /\ verdict'[w] \in Declined
              => posts[j] < row[j].attempts
      BY <2>1, <3>1 DEF Kept, Budget
    <3> QED BY <2>1, <3>2 DEF Kept, Budget
  <2>2. CASE Withdrawn(j)
    BY <2>0, <2>2, NullAssumption, MaxAttemptsAssumption DEF Withdrawn, Budget, Dec
  <2>3. CASE Created(j)
    <3>1. row[j].attempts = 0 /\ posts[j] <= row[j].attempts
      BY <2>3 DEF Created, Budget
    <3> QED BY <2>0, <2>3, <3>1, NullAssumption, MaxAttemptsAssumption DEF Created, Budget
  <2> QED BY <2>1, <2>2, <2>3 DEF RowKept
<1> QED BY <1>3, <1>4, <1>5, <1>6, <1>7, <1>8

OnlyWorker(w) ==
    \A v \in Workers \ {w} :
      pc'[v] = pc[v] /\ job'[v] = job[v] /\ verdict'[v] = verdict[v] /\ call'[v] = call[v]

\* A job that the one worker that moves has nothing to do with.
LEMMA Elsewhere ==
    ASSUME Inv, TypeOK', Steps', NEW j \in Jobs, RowKept(j), ProviderKept(j),
           NEW w \in Workers, OnlyWorker(w), job'[w] # j, job[w] # j \/ call[w] = "none"
    PROVE  CoreOf(j)'
<1>1. WorkersKept(j)
  BY DEF OnlyWorker, WorkersKept
<1> QED BY <1>1, KeepCore

LEMMA RecoveredKept ==
    ASSUME Inv, NEW j \in Jobs, row'[j] = RecoveredRows[j]
    PROVE  RowKept(j)
<1>1. row[j] \in JobRow
  BY DEF Inv, TypeOK
<1>2. CASE j \notin StaleJobs
  BY <1>2, RecoveredFacts DEF Inv, RowKept, Kept
<1>3. CASE j \in StaleJobs
  <2>1. row'[j] = Recover(j, row[j]) /\ row[j].status \in {"queued", "dispatching"}
    BY <1>3, RecoveredFacts DEF Inv, StaleJobs, Stale
  <2>2. Withdrawn(j)
    BY <1>1, <2>1, RecoverFacts DEF Withdrawn, Sends
  <2> QED BY <2>2 DEF RowKept
<1> QED BY <1>2, <1>3

\* What a selected job looks like: it was queued and nothing recovered it.
LEMMA SelectedFacts ==
    ASSUME Inv, NEW w \in Workers, NEW j \in Jobs, ClaimJob(w, j)
    PROVE  /\ row[j].status = "queued" /\ row[j] \in JobRow
           /\ row'[j] = Claimed(row[j], w)
           /\ ~Unprojected(row[j])
<1>1. RecoveredRows \in [Jobs -> JobRow] /\ row[j] \in JobRow
  BY RecoveredFacts DEF Inv, TypeOK
<1>2. Ready(RecoveredRows[j]) /\ row'[j] = Claimed(RecoveredRows[j], w)
  BY <1>1 DEF ClaimJob, Selected
<1>3. j \notin StaleJobs
  <2>1. SUFFICES ASSUME j \in StaleJobs PROVE FALSE
    OBVIOUS
  <2>2. RecoveredRows[j].err /\ ~RecoveredRows[j].projected
    BY <1>1, <2>1, RecoveredFacts, RecoverFacts DEF Inv
  <2> QED BY <1>2, <2>2 DEF Ready
<1>4. RecoveredRows[j] = row[j]
  BY <1>3, RecoveredFacts DEF Inv
<1>5. row[j].status = "queued" /\ (row[j].err => row[j].projected)
  BY <1>2, <1>4 DEF Ready
<1> QED BY <1>1, <1>2, <1>4, <1>5 DEF Unprojected, HasOutcome, Terminal

LEMMA ClaimCore ==
    ASSUME Inv, TypeOK', Steps', NEW w \in Workers, NEW k \in Jobs, ClaimJob(w, k)
    PROVE  Core'
<1>1. /\ pc[w] = "claim" /\ call[w] = "none" /\ pc'[w] = "eligibility" /\ job'[w] = k
      /\ call' = call /\ verdict' = verdict /\ OnlyWorker(w) /\ UNCHANGED provider
  BY DEF ClaimJob, At, Inv, TypeOK, Steps, OnlyWorker
<1>2. ASSUME NEW j \in Jobs, j # k PROVE CoreOf(j)'
  <2>1. row'[j] = RecoveredRows[j]
    BY <1>2, RecoveredFacts DEF ClaimJob, Inv
  <2> QED BY <1>1, <1>2, <2>1, RecoveredKept, Elsewhere DEF ProviderKept, provider
<1>3. CoreOf(k)'
  <2> DEFINE r == row[k]
             q == row'[k]
  <2>1. /\ r.status = "queued" /\ r \in JobRow /\ CoreOf(k)
        /\ q.status = "dispatching" /\ q.token = w /\ ~q.started
        /\ q.attempts = r.attempts + 1 /\ q.accepted = r.accepted
    BY SelectedFacts, ClaimedFacts DEF Inv, Core
  <2>2. r.attempts \in Nat /\ posts[k] \in Nat
    BY DEF Inv, TypeOK, JobRow
  <2> HIDE DEF r
  <2>3. ~r.accepted
    BY <2>1 DEF CoreOf, Claim, r
  <2>4. Claim(k)'
    BY <2>1, <2>3 DEF Claim
  <2>5. Budget(k)'
    <3>1. r.attempts < MaxAttempts /\ posts[k] <= r.attempts /\ posts' = posts
      BY <1>1, <2>1 DEF CoreOf, Budget, r, provider
    <3> QED BY <1>1, <2>1, <2>2, <3>1, MaxAttemptsAssumption DEF Budget, OnlyWorker
  <2>6. ASSUME k \in Sends PROVE Transport(k)' /\ Report(k)' /\ SentOnce(k)' /\ Honest(k)'
    <3>1. Transport(k) /\ Report(k) /\ SentOnce(k) /\ Honest(k)
      BY <2>1, <2>6 DEF CoreOf
    <3>2. \A v \in Workers : InCall(v, k)' <=> InCall(v, k)
      BY <1>1 DEF InCall, OnlyWorker
    <3>3. Exposed(k)' <=> Exposed(k)
      BY <1>1, <3>2 DEF Exposed, provider
    <3>4. Transport(k)'
      BY <1>1, <2>1, <3>1 DEF Transport, InTransport, OnlyWorker, r
    <3>5. Report(k)'
      BY <1>1, <2>1, <3>1 DEF Report, OnlyWorker, provider
    <3>6. SentOnce(k)'
      BY <1>1, <3>1, <3>2 DEF SentOnce, provider
    <3>7. Honest(k)'
      BY <1>1, <2>1, <2>3, <3>1, <3>3 DEF Honest, r
    <3> QED BY <3>4, <3>5, <3>6, <3>7
  <2> QED BY <2>4, <2>5, <2>6 DEF CoreOf
<1> QED BY <1>2, <1>3 DEF Core

\* Before its admission the owner of a claim has nothing at the provider.
LEMMA UnstartedFacts ==
    ASSUME Inv, NEW w \in Workers, pc[w] \in {"eligibility", "admission"}, row[job[w]].token = w
    PROVE  /\ job[w] \in Jobs /\ row[job[w]].status = "dispatching" /\ ~row[job[w]].started
           /\ ~row[job[w]].accepted
           /\ posts[job[w]] < row[job[w]].attempts
           /\ job[w] \in Sends => ~Exposed(job[w]) /\ taken[job[w]] = 0 /\ late[job[w]] = 0
<1>1. job[w] \in Jobs /\ CoreOf(job[w])
  BY DEF Inv, Steps, Busy, Core
<1>2. /\ row[job[w]].status = "dispatching" /\ ~row[job[w]].started /\ ~row[job[w]].accepted
      /\ posts[job[w]] < row[job[w]].attempts
  BY <1>1, NullAssumption DEF CoreOf, Claim, Budget
<1>3. job[w] \in Sends => ~Exposed(job[w])
  BY <1>1, <1>2 DEF CoreOf, Honest
<1>4. taken[job[w]] \in Nat /\ late[job[w]] \in Nat
  BY <1>1 DEF Inv, TypeOK
<1> QED BY <1>1, <1>2, <1>3, <1>4 DEF Exposed

LEMMA DeclineCore ==
    ASSUME Inv, TypeOK', Steps', NEW w \in Workers, Eligibility(w) \/ Refuse(w),
           NEW k \in Jobs, job[w] = k
    PROVE  Core'
<1>1. /\ pc[w] \in {"eligibility", "admission"} /\ call[w] = "none"
      /\ OnlyWorker(w) /\ UNCHANGED <<row, job, call, provider>>
      /\ pc'[w] = "admission" \/ (pc'[w] = "finish" /\ verdict'[w] \in Declined)
  BY DEF Eligibility, Refuse, At, Inv, TypeOK, Steps, Busy, OnlyWorker, Declined
<1>2. ASSUME NEW j \in Jobs, j # k PROVE CoreOf(j)'
  BY <1>1, <1>2, Elsewhere DEF RowKept, Kept, ProviderKept, provider
<1>3. CoreOf(k)'
  <2>1. CoreOf(k) /\ UNCHANGED <<posts, late, taken>>
    BY <1>1 DEF Inv, Core, provider
  <2>2. /\ row[k].token = w => ~row[k].started /\ posts[k] < row[k].attempts
        /\ row[k].token = w /\ k \in Sends => ~Exposed(k)
    BY <1>1, UnstartedFacts
  <2>3. Claim(k)'
    BY <1>1, <2>1, <2>2 DEF CoreOf, Claim, OnlyWorker
  <2>4. Budget(k)'
    BY <1>1, <2>1, <2>2 DEF CoreOf, Budget, OnlyWorker
  <2>5. ASSUME k \in Sends PROVE Transport(k)' /\ Report(k)' /\ SentOnce(k)' /\ Honest(k)'
    <3>1. Transport(k) /\ Report(k) /\ SentOnce(k) /\ Honest(k)
      BY <2>1, <2>5 DEF CoreOf
    <3>2. Exposed(k)' <=> Exposed(k)
      BY <1>1, <2>1 DEF Exposed, InCall
    <3>3. Transport(k)'
      BY <1>1, <2>1, <3>1 DEF Transport, InTransport, OnlyWorker
    <3>4. Report(k)'
      BY <1>1, <2>1, <2>2, <2>5, <3>1, <3>2 DEF Report, OnlyWorker, Declined
    <3>5. SentOnce(k)' /\ Honest(k)'
      BY <1>1, <2>1, <3>1, <3>2 DEF SentOnce, Honest, InCall
    <3> QED BY <3>3, <3>4, <3>5
  <2> QED BY <2>3, <2>4, <2>5 DEF CoreOf
<1> QED BY <1>2, <1>3 DEF Core

LEMMA AdmitCore ==
    ASSUME Inv, TypeOK', Steps', NEW w \in Workers, Admit(w) \/ AdmitUnacknowledged(w),
           NEW k \in Jobs, job[w] = k
    PROVE  Core'
<1>1. /\ pc[w] = "admission" /\ call[w] = "none" /\ row[k] \in JobRow
      /\ row[k].token = w /\ posts[k] \in Nat
      /\ row' = [row EXCEPT ![k] = Started(@)] /\ row'[k] = Started(row[k])
      /\ OnlyWorker(w) /\ UNCHANGED <<job, late, taken>>
  BY DEF Admit, AdmitUnacknowledged, Admissible, ClaimLive, Owns, At, Inv, TypeOK, Steps, Busy,
         OnlyWorker, provider
<1>2. \/ pc'[w] = "transport" /\ call'[w] = "open" /\ posts' = [posts EXCEPT ![k] = @ + 1]
      \/ pc'[w] = "finish" /\ call' = call /\ posts' = posts /\ verdict'[w] \in Declined
  BY DEF Admit, AdmitUnacknowledged, Inv, TypeOK, provider, Declined
<1>3. ASSUME NEW j \in Jobs, j # k PROVE CoreOf(j)'
  <2>1. row'[j] = row[j] /\ posts'[j] = posts[j]
    BY <1>1, <1>2, <1>3 DEF Inv, TypeOK
  <2> QED BY <1>1, <1>3, <2>1, Elsewhere DEF RowKept, Kept, ProviderKept
<1>4. CoreOf(k)'
  <2>1. /\ CoreOf(k)
        /\ row[k].status = "dispatching" /\ ~row[k].started /\ ~row[k].accepted
        /\ posts[k] < row[k].attempts
        /\ k \in Sends => ~Exposed(k) /\ taken[k] = 0 /\ late[k] = 0
    BY <1>1, UnstartedFacts DEF Inv, Core
  <2>2. /\ row'[k].status = "dispatching" /\ row'[k].started /\ ~row'[k].accepted
        /\ row'[k].token = w /\ row'[k].attempts = row[k].attempts /\ row[k].attempts \in Nat
    BY <1>1, <2>1, StartedFacts DEF JobRow
  <2>3. posts'[k] <= row[k].attempts /\ (pc'[w] = "finish" => posts'[k] < row[k].attempts)
    BY <1>1, <1>2, <2>1, <2>2 DEF Inv, TypeOK
  <2>4. Claim(k)'
    BY <1>1, <1>2, <2>2 DEF Claim
  <2>5. Budget(k)'
    <3>1. row[k].attempts <= MaxAttempts /\ row[k].attempts > 0
      BY <2>1 DEF CoreOf, Budget
    <3> QED BY <1>1, <1>2, <2>2, <2>3, <3>1 DEF Budget
  <2>6. ASSUME k \in Sends PROVE Transport(k)' /\ Report(k)' /\ SentOnce(k)' /\ Honest(k)'
    <3>1. Transport(k) /\ Report(k) /\ SentOnce(k) /\ Honest(k)
      BY <2>1, <2>6 DEF CoreOf
    <3>2. \A v \in Workers : ~InCall(v, k) /\ ~InTransport(v, k)
      BY <2>1, <2>6, <3>1 DEF Exposed, Transport
    <3>3. Transport(k)'
      BY <1>1, <1>2, <2>1, <2>2, <2>6, <3>2 DEF Transport, InTransport, OnlyWorker
    <3>4. Report(k)'
      <4>1. ASSUME pc'[w] = "finish" PROVE ~Exposed(k)'
        BY <1>1, <1>2, <2>1, <2>6, <4>1 DEF Exposed, InCall
      <4> QED BY <1>1, <1>2, <2>1, <2>2, <2>6, <3>1, <4>1 DEF Report, OnlyWorker, Declined
    <3>5. SentOnce(k)'
      BY <1>1, <2>1, <2>6, <3>2 DEF SentOnce, InCall, OnlyWorker
    <3>6. Honest(k)'
      BY <2>2 DEF Honest
    <3> QED BY <3>3, <3>4, <3>5, <3>6
  <2> QED BY <2>4, <2>5, <2>6 DEF CoreOf
<1> QED BY <1>3, <1>4 DEF Core

\* A worker with a request out: what Transport and Steps say of it.
LEMMA CallingFacts ==
    ASSUME Inv, NEW w \in Workers, pc[w] = "transport", NEW k \in Jobs, job[w] = k, k \in Sends
    PROVE  /\ \/ row[k].status = "dispatching" /\ row[k].token = w /\ row[k].started
              \/ row[k].status = "uncertain" /\ row[k].token = NoWorker
           /\ \A v \in Workers : InTransport(v, k) \/ InCall(v, k) => v = w
           /\ late[k] = 0 /\ taken[k] \in {0, 1}
           /\ call[w] \in {"open", "rejected"} => taken[k] = 0
           /\ call[w] = "taken" => taken[k] = 1
           /\ \A v \in Workers : row[k].token = v => v = w
<1>1. Transport(k) /\ SentOnce(k) /\ Claim(k)
  BY DEF Inv, Core, CoreOf
<1>2. taken[k] \in Nat /\ late[k] \in Nat
  BY DEF Inv, TypeOK
<1>3. \A v \in Workers : InCall(v, k) => InTransport(v, k)
  BY DEF Inv, Steps, InCall, InTransport
<1>4. InTransport(w, k)
  BY DEF InTransport
<1>5. taken[k] \in {0, 1}
  BY <1>1, <1>2 DEF SentOnce
<1> QED BY <1>1, <1>3, <1>4, <1>5, NullAssumption DEF Transport, Claim

LEMMA ProviderCore ==
    ASSUME Inv, TypeOK', Steps', NEW w \in Workers, Provider(w), NEW k \in Jobs, job[w] = k
    PROVE  Core'
<1>1. /\ pc[w] = "transport" /\ call[w] = "open" /\ OnlyWorker(w)
      /\ UNCHANGED <<row, pc, job, verdict, posts, late>>
      /\ \/ call'[w] = "taken" /\ taken' = IF k \in Sends THEN [taken EXCEPT ![k] = @ + 1] ELSE taken
         \/ call'[w] = "rejected" /\ taken' = taken
  BY DEF Provider, ProviderAccepts, ProviderRejects, Inv, TypeOK, Steps, OnlyWorker, provider
<1>2. ASSUME NEW j \in Jobs, j # k PROVE CoreOf(j)'
  <2>1. taken'[j] = taken[j]
    BY <1>1, <1>2 DEF Inv, TypeOK
  <2> QED BY <1>1, <1>2, <2>1, Elsewhere DEF RowKept, Kept, ProviderKept
<1>3. CoreOf(k)'
  <2>1. CoreOf(k)
    BY DEF Inv, Core
  <2>2. Claim(k)' /\ Budget(k)'
    BY <1>1, <2>1 DEF CoreOf, Claim, Budget
  <2>3. ASSUME k \in Sends PROVE Transport(k)' /\ Report(k)' /\ SentOnce(k)' /\ Honest(k)'
    <3>1. Transport(k) /\ Report(k) /\ SentOnce(k) /\ Honest(k)
      BY <2>1, <2>3 DEF CoreOf
    <3>2. /\ \A v \in Workers : InTransport(v, k) \/ InCall(v, k) => v = w
          /\ late[k] = 0 /\ taken[k] = 0 /\ InCall(w, k)
          /\ \A v \in Workers : row[k].token = v => v = w
      BY <1>1, <2>3, CallingFacts DEF InCall
    <3>3. /\ \/ call'[w] = "taken" /\ taken'[k] = 1
             \/ call'[w] = "rejected" /\ taken'[k] = 0
          /\ late'[k] = 0
      BY <1>1, <2>3, <3>2 DEF Inv, TypeOK
    <3>4. \A v \in Workers : ~InCall(v, k)'
      BY <1>1, <3>2 DEF InCall, OnlyWorker
    <3>5. Transport(k)'
      BY <1>1, <3>1, <3>2, <3>3 DEF Transport, InTransport
    <3>6. Report(k)'
      <4> SUFFICES ASSUME NEW v \in Workers, pc'[v] = "finish", job'[v] = k
                   PROVE  verdict'[v] # "ok" /\ row'[k].token # v
        BY DEF Report
      <4>1. pc[v] = "finish" /\ job[v] = k /\ verdict'[v] = verdict[v] /\ row' = row /\ v # w
        BY <1>1
      <4> QED BY <3>1, <3>2, <4>1 DEF Report
    <3>7. SentOnce(k)'
      BY <3>3, <3>4 DEF SentOnce
    <3>8. Honest(k)'
      <4>1. Exposed(k)
        BY <3>2 DEF Exposed
      <4> QED BY <1>1, <3>1, <3>2, <4>1 DEF Honest
    <3> QED BY <3>5, <3>6, <3>7, <3>8
  <2> QED BY <2>2, <2>3 DEF CoreOf
<1> QED BY <1>2, <1>3 DEF Core

LEMMA AnswerCore ==
    ASSUME Inv, TypeOK', Steps', NEW w \in Workers, NEW r \in {"ok", "retry", "fail", "uncertain"},
           Answer(w, r), NEW k \in Jobs, job[w] = k
    PROVE  Core'
<1>1. /\ pc[w] = "transport" /\ pc'[w] = "finish" /\ verdict'[w] = r /\ call'[w] = "none"
      /\ OnlyWorker(w) /\ UNCHANGED <<row, job, posts, taken>>
      /\ late' = IF call[w] = "open" /\ k \in Sends THEN [late EXCEPT ![k] = @ + 1] ELSE late
  BY DEF Answer, Abandon, Inv, TypeOK, OnlyWorker
<1>2. ASSUME NEW j \in Jobs, j # k PROVE CoreOf(j)'
  <2>1. late'[j] = late[j]
    BY <1>1, <1>2 DEF Inv, TypeOK
  <2> QED BY <1>1, <1>2, <2>1, Elsewhere DEF RowKept, Kept, ProviderKept
<1>3. CoreOf(k)'
  <2>1. CoreOf(k)
    BY DEF Inv, Core
  <2>2. Claim(k)'
    BY <1>1, <2>1 DEF CoreOf, Claim, OnlyWorker
  <2>3. Budget(k)'
    BY <1>1, <2>1 DEF CoreOf, Budget, OnlyWorker, Declined
  <2>4. ASSUME k \in Sends PROVE Transport(k)' /\ Report(k)' /\ SentOnce(k)' /\ Honest(k)'
    <3>1. Transport(k) /\ Report(k) /\ SentOnce(k) /\ Honest(k)
      BY <2>1, <2>4 DEF CoreOf
    <3>2. /\ \/ row[k].status = "dispatching" /\ row[k].started
             \/ row[k].status = "uncertain"
          /\ \A v \in Workers : InTransport(v, k) \/ InCall(v, k) => v = w
          /\ late[k] = 0 /\ taken[k] \in {0, 1}
          /\ call[w] \in {"open", "rejected"} => taken[k] = 0
          /\ call[w] = "taken" => taken[k] = 1
          /\ \A v \in Workers : row[k].token = v => v = w
      BY <1>1, <2>4, CallingFacts
    <3>3. /\ r = "ok" => call[w] = "taken"
          /\ r \in {"retry", "fail"} => call[w] = "rejected"
      BY <2>4 DEF Answer, Sends
    <3>4. late'[k] = IF call[w] = "open" THEN 1 ELSE 0
      BY <1>1, <2>4, <3>2 DEF Inv, TypeOK
    <3>5. \A v \in Workers : ~InTransport(v, k)' /\ ~InCall(v, k)'
      BY <1>1, <3>2 DEF InTransport, InCall, OnlyWorker
    <3>6. Transport(k)'
      BY <3>5 DEF Transport
    <3>7. Report(k)'
      <4>1. r \in {"retry", "fail"} => ~Exposed(k)'
        BY <1>1, <3>2, <3>3, <3>4, <3>5 DEF Exposed
      <4> QED BY <1>1, <3>1, <3>2, <3>3, <4>1 DEF Report, OnlyWorker, Refused, Declined
    <3>8. SentOnce(k)'
      BY <1>1, <3>2, <3>4, <3>5 DEF SentOnce
    <3>9. Honest(k)'
      BY <1>1, <3>1, <3>2 DEF Honest
    <3> QED BY <3>6, <3>7, <3>8, <3>9
  <2> QED BY <2>2, <2>3, <2>4 DEF CoreOf
<1> QED BY <1>2, <1>3 DEF Core

\* A crash leaves the open request of w behind.
LEMMA CrashCore ==
    ASSUME Inv, TypeOK', Steps', NEW w \in Workers, Crash(w)
    PROVE  Core'
<1>1. /\ pc'[w] = "claim" /\ job'[w] = NoJob /\ call'[w] = "none" /\ OnlyWorker(w)
      /\ UNCHANGED <<row, posts, taken>>
      /\ late' = IF call[w] = "open" /\ job[w] \in Sends THEN [late EXCEPT ![job[w]] = @ + 1] ELSE late
  BY DEF Crash, Return, Abandon, Inv, TypeOK, OnlyWorker
<1>2. ASSUME NEW j \in Jobs, j # job[w] \/ call[w] = "none" PROVE CoreOf(j)'
  <2>1. late'[j] = late[j]
    BY <1>1, <1>2 DEF Inv, TypeOK
  <2> QED BY <1>1, <1>2, <2>1, NullAssumption, Elsewhere DEF RowKept, Kept, ProviderKept
<1>3. ASSUME NEW k \in Jobs, k = job[w], call[w] # "none" PROVE CoreOf(k)'
  <2>1. CoreOf(k) /\ pc[w] = "transport"
    BY <1>3 DEF Inv, Core, Steps
  <2>2. Claim(k)'
    BY <1>1, <2>1, NullAssumption DEF CoreOf, Claim, OnlyWorker
  <2>3. Budget(k)'
    BY <1>1, <2>1, NullAssumption DEF CoreOf, Budget, OnlyWorker
  <2>4. ASSUME k \in Sends PROVE Transport(k)' /\ Report(k)' /\ SentOnce(k)' /\ Honest(k)'
    <3>1. Transport(k) /\ Report(k) /\ SentOnce(k) /\ Honest(k)
      BY <2>1, <2>4 DEF CoreOf
    <3>2. /\ \/ row[k].status = "dispatching" /\ row[k].started
             \/ row[k].status = "uncertain"
          /\ \A v \in Workers : InTransport(v, k) \/ InCall(v, k) => v = w
          /\ late[k] = 0 /\ taken[k] \in {0, 1}
          /\ call[w] \in {"open", "rejected"} => taken[k] = 0
          /\ \A v \in Workers : row[k].token = v => v = w
      BY <1>3, <2>1, <2>4, CallingFacts
    <3>3. late'[k] = IF call[w] = "open" THEN 1 ELSE 0
      BY <1>1, <1>3, <2>4, <3>2 DEF Inv, TypeOK
    <3>4. \A v \in Workers : ~InTransport(v, k)' /\ ~InCall(v, k)'
      BY <1>1, <3>2, NullAssumption DEF InTransport, InCall, OnlyWorker
    <3>5. Transport(k)'
      BY <3>4 DEF Transport
    <3>6. Report(k)'
      <4> SUFFICES ASSUME NEW v \in Workers, pc'[v] = "finish", job'[v] = k
                   PROVE  (verdict'[v] = "ok" => taken'[k] = 1) /\ row'[k].token # v
        BY DEF Report
      <4>1. pc[v] = "finish" /\ job[v] = k /\ verdict'[v] = verdict[v] /\ v # w
        BY <1>1 DEF OnlyWorker
      <4> QED BY <1>1, <3>1, <3>2, <4>1 DEF Report
    <3>7. SentOnce(k)'
      BY <1>1, <3>2, <3>3, <3>4 DEF SentOnce
    <3>8. Honest(k)'
      BY <1>1, <3>1, <3>2 DEF Honest
    <3> QED BY <3>5, <3>6, <3>7, <3>8
  <2> QED BY <2>2, <2>3, <2>4 DEF CoreOf
<1> QED BY <1>2, <1>3 DEF Core

LEMMA LateCore ==
    ASSUME Inv, TypeOK', Steps', NEW k \in Jobs, LateDecision(k)
    PROVE  Core'
<1>1. /\ UNCHANGED <<row, pc, job, verdict, call, posts>>
      /\ late[k] > 0 /\ late'[k] = late[k] - 1 /\ taken'[k] \in {taken[k], taken[k] + 1}
      /\ \A j \in Jobs \ {k} : late'[j] = late[j] /\ taken'[j] = taken[j]
      /\ late[k] \in Nat /\ taken[k] \in Nat
  BY DEF LateDecision, worker, Inv, TypeOK
<1>2. ASSUME NEW j \in Jobs, j # k PROVE CoreOf(j)'
  BY <1>1, <1>2, KeepCore DEF RowKept, Kept, ProviderKept, WorkersKept
<1>3. CoreOf(k)'
  <2>1. CoreOf(k)
    BY DEF Inv, Core
  <2>2. Claim(k)' /\ Budget(k)'
    BY <1>1, <2>1 DEF CoreOf, Claim, Budget
  <2>3. ASSUME k \in Sends PROVE Transport(k)' /\ Report(k)' /\ SentOnce(k)' /\ Honest(k)'
    <3>1. Transport(k) /\ Report(k) /\ SentOnce(k) /\ Honest(k)
      BY <2>1, <2>3 DEF CoreOf
    <3>2. /\ late[k] = 1 /\ taken[k] = 0 /\ Exposed(k)
          /\ \A v \in Workers : ~InCall(v, k) /\ ~InTransport(v, k)
      BY <1>1, <3>1 DEF SentOnce, Exposed, Transport
    <3>3. late'[k] = 0 /\ taken'[k] \in {0, 1}
      BY <1>1, <3>2
    <3>4. Transport(k)'
      BY <1>1, <3>2 DEF Transport, InTransport
    <3>5. Report(k)'
      <4> SUFFICES ASSUME NEW v \in Workers, pc'[v] = "finish", job'[v] = k
                   PROVE  verdict'[v] # "ok" /\ ~(row'[k].token = v /\ verdict'[v] \in Refused)
        BY DEF Report
      <4> QED BY <1>1, <3>1, <3>2 DEF Report
    <3>6. SentOnce(k)'
      BY <1>1, <3>2, <3>3 DEF SentOnce, InCall
    <3>7. Honest(k)'
      BY <1>1, <3>1, <3>2 DEF Honest
    <3> QED BY <3>4, <3>5, <3>6, <3>7
  <2> QED BY <2>2, <2>3 DEF CoreOf
<1> QED BY <1>2, <1>3 DEF Core

\* A receipt finds a send the provider took and moves it to another such state.
LEMMA ReceiptCore ==
    ASSUME Inv, TypeOK', Steps', NEW w \in Workers, Finish(w), NEW j \in Sends, j # job[w],
           row[j].accepted, NEW s \in {"delivered", "failed"}, row'[j] = Receipted(row[j], s)
    PROVE  CoreOf(j)'
<1>1. /\ pc[w] = "finish" /\ pc'[w] = "claim" /\ call[w] = "none" /\ call'[w] = "none"
      /\ job'[w] = NoJob /\ OnlyWorker(w) /\ UNCHANGED provider
  BY DEF Finish, Return, Inv, TypeOK, Steps, OnlyWorker
<1>2. /\ j \in Jobs /\ CoreOf(j) /\ row[j].status \in {"accepted", "delivered", "failed"}
      /\ row[j].token = NoWorker /\ taken[j] = 1 /\ row[j] \in JobRow
  BY DEF Inv, TypeOK, Core, CoreOf, Claim, Honest, Sends
<1>3. /\ row'[j].status \in {"delivered", "failed"} /\ row'[j].token = NoWorker
      /\ row'[j].attempts = row[j].attempts /\ row'[j].accepted
  BY <1>2, ReceiptedFacts
<1>4. Transport(j) /\ Report(j) /\ SentOnce(j)
  BY <1>2 DEF CoreOf
<1>5. Claim(j)' /\ Honest(j)'
  BY <1>1, <1>2, <1>3, NullAssumption DEF Claim, Honest, provider
<1>6. Budget(j)'
  BY <1>1, <1>2, <1>3, NullAssumption DEF CoreOf, Budget, provider
<1>7. Transport(j)'
  BY <1>1, <1>2, <1>4, NullAssumption DEF Transport, InTransport, OnlyWorker
<1>8. Report(j)'
  BY <1>1, <1>2, <1>3, NullAssumption DEF Report, provider
<1>9. SentOnce(j)'
  BY <1>1, <1>4, NullAssumption DEF SentOnce, InCall, OnlyWorker, provider
<1> QED BY <1>5, <1>6, <1>7, <1>8, <1>9 DEF CoreOf

LEMMA FinishCore ==
    ASSUME Inv, TypeOK', Steps', NEW w \in Workers, Finish(w), NEW k \in Jobs, job[w] = k
    PROVE  Core'
<1>1. /\ pc[w] = "finish" /\ pc'[w] = "claim" /\ call[w] = "none" /\ call'[w] = "none"
      /\ job'[w] = NoJob /\ OnlyWorker(w) /\ UNCHANGED provider
      /\ row[k].status = "dispatching" /\ row[k].token = w /\ row[k] \in JobRow
      /\ verdict[w] \in Verdicts /\ verdict[w] # "none"
      /\ row'[k] = Finished(k, row[k], verdict[w])
  BY DEF Finish, Return, Inv, TypeOK, Steps, OnlyWorker, Owns
<1>2. ASSUME NEW j \in Jobs, j # k PROVE CoreOf(j)'
  <2>1. \/ row'[j] = row[j]
        \/ /\ j \in Sends /\ row[j].accepted
           /\ \E s \in {"delivered", "failed"} : row'[j] = Receipted(row[j], s)
    BY <1>2 DEF Finish, Receivable
  <2>2. CASE row'[j] = row[j]
    BY <1>1, <1>2, <2>2, NullAssumption, Elsewhere DEF RowKept, Kept, ProviderKept, provider
  <2> QED BY <1>2, <2>1, <2>2, ReceiptCore
<1>3. CoreOf(k)'
  <2> DEFINE v == verdict[w]
             n == row[k].attempts
  <2>1. CoreOf(k) /\ ~row[k].accepted /\ n \in Nat /\ posts[k] \in Nat
    BY <1>1 DEF Inv, Core, CoreOf, Claim, TypeOK, JobRow
  <2>2. /\ row'[k].token = NoWorker
        /\ row'[k].attempts = IF v \in Declined THEN Dec(n) ELSE n
        /\ v \in Declined => row'[k].status \in {"queued", "skipped"}
        /\ v \in {"retry", "fail"} => row'[k].status \in {"queued", "failed"}
        /\ v = "uncertain" => row'[k].status = "uncertain"
        /\ v = "ok" => row'[k].status = "accepted"
        /\ row'[k].status = "queued" => v \in Declined \/ n < MaxAttempts
        /\ row'[k].accepted <=> v = "ok" /\ k \in Sends
    BY <1>1, <2>1, FinishedFacts DEF Sends
  <2>3. v \in Declined \cup {"retry", "fail", "uncertain", "ok"}
    BY <1>1 DEF Verdicts, Declined
  <2>4. /\ n > 0 /\ n <= MaxAttempts /\ posts[k] <= n
        /\ v \in Declined => posts[k] < n
    BY <1>1, <2>1 DEF CoreOf, Budget
  <2> HIDE DEF v, n
  <2>5. Claim(k)'
    BY <2>2, NullAssumption DEF Claim
  <2>6. Budget(k)'
    <3>1. row'[k].status \in {"queued", "skipped", "failed", "uncertain", "accepted"}
      BY <2>2, <2>3
    <3>2. posts'[k] = posts[k]
      BY <1>1 DEF provider
    <3> QED BY <2>1, <2>2, <2>4, <3>1, <3>2, NullAssumption, MaxAttemptsAssumption DEF Budget, Dec
  <2>7. ASSUME k \in Sends PROVE Transport(k)' /\ Report(k)' /\ SentOnce(k)' /\ Honest(k)'
    <3>1. Transport(k) /\ Report(k) /\ SentOnce(k) /\ Honest(k)
      BY <2>1, <2>7 DEF CoreOf
    <3>2. Exposed(k)' <=> Exposed(k)
      BY <1>1, NullAssumption DEF Exposed, InCall, OnlyWorker, provider
    <3>3. v = "ok" => taken[k] = 1
      BY <1>1, <3>1 DEF Report, v
    <3>4. v \in Refused => ~Exposed(k)
      BY <1>1, <3>1 DEF Report, v
    <3>5. Transport(k)'
      BY <1>1, <3>1, NullAssumption DEF Transport, InTransport, OnlyWorker
    <3>6. Report(k)'
      BY <1>1, <2>2, <3>1, NullAssumption DEF Report, OnlyWorker, provider
    <3>7. SentOnce(k)'
      BY <1>1, <3>1, NullAssumption DEF SentOnce, InCall, OnlyWorker, provider
    <3>8. Honest(k)'
      BY <1>1, <2>2, <2>3, <3>2, <3>3, <3>4 DEF Honest, Refused, provider
    <3> QED BY <3>5, <3>6, <3>7, <3>8
  <2> QED BY <2>5, <2>6, <2>7 DEF CoreOf
<1> QED BY <1>2, <1>3 DEF Core

-----------------------------------------------------------------------------
(* What projection relies on: a claimed or changed row reopens its outcome. *)

OutcomeKept(j) ==
    /\ Unprojected(row[j]) => Unprojected(row'[j])
    /\ row'[j].projected => row[j].projected /\ row'[j].status = row[j].status

LEMMA KeepProjections ==
    ASSUME Inv, TypeOK', \A j \in Jobs : OutcomeKept(j), UNCHANGED <<seen, lock, view>>
    PROVE  Projections' /\ ProjectionFaithful'
BY DEF Inv, Projections, ProjectionFaithful, OutcomeKept

LEMMA OutcomeRecovered ==
    ASSUME Inv, NEW j \in Jobs, row'[j] = RecoveredRows[j]
    PROVE  OutcomeKept(j)
<1>1. row[j] \in JobRow
  BY DEF Inv, TypeOK
<1>2. CASE j \notin StaleJobs
  BY <1>2, RecoveredFacts DEF Inv, OutcomeKept
<1>3. CASE j \in StaleJobs
  <2>1. row'[j] = Recover(j, row[j])
    BY <1>3, RecoveredFacts DEF Inv
  <2> QED BY <1>1, <2>1, RecoverFacts DEF OutcomeKept, Unprojected, HasOutcome, Terminal
<1> QED BY <1>2, <1>3

LEMMA ClaimOutcome ==
    ASSUME Inv, TypeOK', NEW w \in Workers, NEW k \in Jobs, ClaimJob(w, k)
    PROVE  Projections' /\ ProjectionFaithful'
<1>1. OutcomeKept(k)
  BY SelectedFacts, ClaimedFacts DEF OutcomeKept
<1>2. ASSUME NEW j \in Jobs, j # k PROVE OutcomeKept(j)
  BY <1>2, RecoveredFacts, OutcomeRecovered DEF ClaimJob, Inv
<1> QED BY <1>1, <1>2, KeepProjections DEF ClaimJob

LEMMA FinishOutcome ==
    ASSUME Inv, TypeOK', NEW w \in Workers, Finish(w)
    PROVE  Projections' /\ ProjectionFaithful'
<1>1. row[job[w]].status = "dispatching" /\ verdict[w] \in Verdicts
  BY DEF Finish, Owns, Inv, TypeOK
<1>2. ASSUME NEW j \in Jobs PROVE OutcomeKept(j)
  <2>1. \/ j = job[w] /\ row'[j] = Finished(j, row[j], verdict[w])
        \/ \E s \in {"delivered", "failed"} : row'[j] = Receipted(row[j], s)
        \/ row'[j] = row[j]
    BY DEF Finish
  <2>2. row[j] \in JobRow
    BY DEF Inv, TypeOK
  <2>3. CASE j = job[w] /\ row'[j] = Finished(j, row[j], verdict[w])
    BY <1>1, <2>2, <2>3, FinishedFacts DEF OutcomeKept, Unprojected, HasOutcome, Terminal
  <2>4. ASSUME NEW s \in {"delivered", "failed"}, row'[j] = Receipted(row[j], s) PROVE OutcomeKept(j)
    BY <2>2, <2>4, ReceiptedFacts DEF OutcomeKept, Unprojected, HasOutcome, Terminal
  <2> QED BY <2>1, <2>3, <2>4 DEF OutcomeKept
<1> QED BY <1>2, KeepProjections DEF Finish

LEMMA ReadOutcome ==
    ASSUME Inv, TypeOK', NEW w \in Workers, NEW k \in Jobs, ProjectRead(w, k)
    PROVE  Projections' /\ ProjectionFaithful'
<1>1. /\ lock[k] = NoWorker /\ Unprojected(row[k]) /\ UNCHANGED <<row, view>>
      /\ lock' = [lock EXCEPT ![k] = w] /\ \A v \in Workers \ {w} : seen'[v] = seen[v]
      /\ seen'[w].job = k /\ ~seen'[w].done
  BY DEF ProjectRead, Inv, TypeOK
<1>2. \A v \in Workers : seen[v].job \in Jobs \cup {NoJob}
  BY DEF Inv, TypeOK, Snapshot
<1>3. seen[w].job = NoJob
  BY DEF ProjectRead, NoSnap
<1>4. \A j \in Jobs : lock[j] = w => FALSE
  BY <1>3, NullAssumption DEF Inv, Projections
<1> QED BY <1>1, <1>2, <1>3, <1>4, NullAssumption DEF Inv, TypeOK, Projections, ProjectionFaithful

\* Whoever projects k is the holder of its lock, and nobody marked k meanwhile.
LEMMA HolderFacts ==
    ASSUME Inv, NEW w \in Workers, seen[w].job # NoJob
    PROVE  /\ seen[w].job \in Jobs /\ lock[seen[w].job] = w
           /\ Unprojected(row[seen[w].job])
           /\ seen[w].done => view[seen[w].job] = seen[w].status
<1>1. seen[w].job \in Jobs
  BY DEF Inv, TypeOK, Snapshot
<1> QED BY <1>1, NullAssumption DEF Inv, Projections

LEMMA CallbackOutcome ==
    ASSUME Inv, TypeOK', NEW w \in Workers, ProjectCallback(w)
    PROVE  Projections' /\ ProjectionFaithful'
<1>1. /\ UNCHANGED <<row, lock>> /\ view' = [view EXCEPT ![seen[w].job] = seen[w].status]
      /\ \A v \in Workers \ {w} : seen'[v] = seen[v]
      /\ seen'[w].job = seen[w].job /\ seen'[w].status = seen[w].status
  <2>1. seen[w] \in Snapshot /\ seen' = [seen EXCEPT ![w].done = TRUE] /\ seen \in [Workers -> Snapshot]
    BY DEF ProjectCallback, Inv, TypeOK
  <2> QED BY <2>1 DEF ProjectCallback, Snapshot
<1>2. CASE seen[w].job = NoJob
  <2>1. view' = view
    BY <1>1, <1>2, NullAssumption DEF Inv, TypeOK
  <2>2. \A j \in Jobs : lock[j] # w
    BY <1>2, NullAssumption DEF Inv, Projections
  <2> QED BY <1>1, <1>2, <2>1, <2>2 DEF Inv, TypeOK, Projections, ProjectionFaithful
<1>3. CASE seen[w].job # NoJob
  <2>1. /\ seen[w].job \in Jobs /\ lock[seen[w].job] = w /\ Unprojected(row[seen[w].job])
        /\ view'[seen[w].job] = seen[w].status
        /\ \A j \in Jobs \ {seen[w].job} : view'[j] = view[j] /\ lock[j] # w
    BY <1>1, <1>3, HolderFacts, NullAssumption DEF Inv, TypeOK, Projections
  <2>2. Projections'
    <3>1. \A v \in Workers : seen'[v].job # NoJob => lock'[seen'[v].job] = v
      BY <1>1 DEF Inv, Projections
    <3>2. ASSUME NEW j \in Jobs, lock'[j] # NoWorker
          PROVE  /\ seen'[lock'[j]].job = j /\ Unprojected(row'[j])
                 /\ seen'[lock'[j]].done => view'[j] = seen'[lock'[j]].status
      <4>1. CASE j = seen[w].job
        BY <1>1, <2>1, <4>1
      <4>2. CASE j # seen[w].job
        <5>1. lock[j] \in Workers \ {w} /\ lock'[j] = lock[j] /\ view'[j] = view[j]
          BY <1>1, <2>1, <3>2, <4>2 DEF Inv, TypeOK
        <5> QED BY <1>1, <5>1, NullAssumption DEF Inv, Projections
      <4> QED BY <4>1, <4>2
    <3> QED BY <3>1, <3>2 DEF Projections
  <2>3. ProjectionFaithful'
    BY <1>1, <2>1 DEF Inv, ProjectionFaithful, Unprojected
  <2> QED BY <2>2, <2>3
<1> QED BY <1>2, <1>3

\* Ending a projection: the holder lets go of k, whose row may be marked.
LEMMA EndOutcome ==
    ASSUME Inv, TypeOK', NEW w \in Workers, ProjectEnd(w),
           \A j \in Jobs : j # seen[w].job => OutcomeKept(j),
           seen[w].job \in Jobs => (row'[seen[w].job].projected => view[seen[w].job] = row'[seen[w].job].status)
    PROVE  Projections' /\ ProjectionFaithful'
<1>1. /\ lock' = [lock EXCEPT ![seen[w].job] = NoWorker] /\ view' = view
      /\ \A v \in Workers \ {w} : seen'[v] = seen[v]
      /\ seen'[w].job = NoJob
  BY DEF ProjectEnd, NoSnap, Inv, TypeOK
<1>2. \A v \in Workers : seen[v].job \in Jobs \cup {NoJob}
  BY DEF Inv, TypeOK, Snapshot
<1>3. \A j \in Jobs : lock'[j] # NoWorker => lock'[j] = lock[j] /\ j # seen[w].job /\ lock[j] # w
  BY <1>1, NullAssumption DEF Inv, TypeOK, Projections
<1>4. \A v \in Workers \ {w} : seen[v].job # NoJob => lock[seen[v].job] = v /\ seen[v].job # seen[w].job
  BY <1>2, NullAssumption DEF Inv, Projections
<1>5. Projections'
  <2>1. \A v \in Workers : seen'[v].job # NoJob => lock'[seen'[v].job] = v
    <3>1. \A j \in Jobs : j # seen[w].job => lock'[j] = lock[j]
      BY <1>1 DEF Inv, TypeOK
    <3>2. \A v \in Workers : seen'[v].job # NoJob => v # w /\ seen'[v] = seen[v]
      BY <1>1
    <3> QED BY <1>2, <1>4, <3>1, <3>2
  <2>2. ASSUME NEW j \in Jobs, lock'[j] # NoWorker
        PROVE  /\ seen'[lock'[j]].job = j /\ Unprojected(row'[j])
               /\ seen'[lock'[j]].done => view'[j] = seen'[lock'[j]].status
    <3>1. lock[j] \in Workers \ {w} /\ lock'[j] = lock[j] /\ j # seen[w].job
      BY <1>3, <2>2 DEF Inv, TypeOK
    <3> QED BY <1>1, <3>1, NullAssumption DEF Inv, Projections, OutcomeKept
  <2> QED BY <2>1, <2>2 DEF Projections
<1>6. ProjectionFaithful'
  BY <1>1 DEF Inv, ProjectionFaithful, OutcomeKept
<1> QED BY <1>5, <1>6

LEMMA MarkOutcome ==
    ASSUME Inv, TypeOK', NEW w \in Workers, ProjectMark(w) \/ ProjectRaise(w)
    PROVE  Projections' /\ ProjectionFaithful'
<1> DEFINE i == seen[w].job
<1>1. ASSUME NEW j \in Jobs, j # i PROVE OutcomeKept(j)
  <2>1. row'[j] = row[j]
    BY <1>1 DEF ProjectMark, ProjectRaise, Inv, TypeOK
  <2> QED BY <2>1 DEF OutcomeKept
<1>2. ASSUME i \in Jobs PROVE row'[i].projected => view[i] = row'[i].status
  <2>1. row[i] \in JobRow /\ ~row[i].projected /\ (seen[w].done => view[i] = seen[w].status)
    BY <1>2, HolderFacts, NullAssumption DEF Unprojected, Inv, TypeOK
  <2>2. \/ row'[i] = row[i]
        \/ row'[i] = Marked(row[i]) /\ seen[w].done /\ row[i].status = seen[w].status
        \/ row'[i] = [row[i] EXCEPT !.backoff = TRUE]
    BY <1>2 DEF ProjectMark, ProjectRaise, SameOutcome, Inv, TypeOK
  <2>3. ASSUME row'[i] = [row[i] EXCEPT !.backoff = TRUE] PROVE ~row'[i].projected
    BY <2>1, <2>3, ClockFacts DEF SameClaim
  <2>4. ASSUME row'[i] = Marked(row[i]) PROVE row'[i].status = row[i].status
    BY <2>1, <2>4, MarkedFacts
  <2> QED BY <2>1, <2>2, <2>3, <2>4
<1> QED BY <1>1, <1>2, EndOutcome DEF ProjectMark, ProjectRaise

LEMMA CrashOutcome ==
    ASSUME Inv, TypeOK', NEW w \in Workers, Crash(w)
    PROVE  Projections' /\ ProjectionFaithful'
<1>1. /\ \A v \in Workers \ {w} : seen'[v] = seen[v]
      /\ seen'[w].job = NoJob /\ UNCHANGED <<row, view>>
      /\ \A j \in Jobs : lock'[j] = IF lock[j] = w THEN NoWorker ELSE lock[j]
  BY DEF Crash, NoSnap, Inv, TypeOK
<1>2. \A v \in Workers : seen[v].job \in Jobs \cup {NoJob}
  BY DEF Inv, TypeOK, Snapshot
<1>3. \A v \in Workers : seen'[v].job # NoJob => lock'[seen'[v].job] = v
  <2> SUFFICES ASSUME NEW v \in Workers, seen'[v].job # NoJob PROVE lock'[seen'[v].job] = v
    OBVIOUS
  <2>1. v # w /\ seen'[v] = seen[v] /\ seen[v].job \in Jobs /\ lock[seen[v].job] = v
    BY <1>1, <1>2 DEF Inv, Projections
  <2> QED BY <1>1, <2>1
<1>4. ASSUME NEW j \in Jobs, lock'[j] # NoWorker
      PROVE  /\ seen'[lock'[j]].job = j /\ Unprojected(row'[j])
             /\ seen'[lock'[j]].done => view'[j] = seen'[lock'[j]].status
  <2>1. lock[j] \in Workers \ {w} /\ lock'[j] = lock[j]
    BY <1>1, <1>4 DEF Inv, TypeOK
  <2> QED BY <1>1, <2>1, NullAssumption DEF Inv, Projections
<1> QED BY <1>1, <1>3, <1>4 DEF Inv, Projections, ProjectionFaithful

-----------------------------------------------------------------------------
(* Every step preserves Inv.                                               *)

LEMMA KeepPayload ==
    ASSUME Inv, TypeOK', \A j \in Jobs : RowKept(j)
    PROVE  PayloadErased'
BY DEF Inv, PayloadErased, RowKept, Kept, Withdrawn, Created, Terminal

LEMMA PayloadNext ==
    ASSUME Inv, TypeOK', NEW w \in Workers, Admit(w) \/ AdmitUnacknowledged(w) \/ Finish(w)
    PROVE  PayloadErased'
<1> SUFFICES ASSUME NEW j \in Jobs
             PROVE  row'[j].payload <=> row'[j].status \in {"queued", "dispatching"}
  BY DEF PayloadErased
<1>1. row[j] \in JobRow /\ (row[j].payload <=> row[j].status \in {"queued", "dispatching"})
  BY DEF Inv, TypeOK, PayloadErased
<1>2. CASE Admit(w) \/ AdmitUnacknowledged(w)
  <2>1. row'[j] = row[j] \/ row'[j] = Started(row[j])
    BY <1>2 DEF Admit, AdmitUnacknowledged, Inv, TypeOK
  <2> QED BY <1>1, <2>1, StartedFacts
<1>3. CASE Finish(w)
  <2>1. \/ /\ row'[j] = Finished(j, row[j], verdict[w]) /\ row[j].status = "dispatching"
           /\ verdict[w] \in Verdicts \ {"none"}
        \/ /\ \E s \in {"delivered", "failed"} : row'[j] = Receipted(row[j], s)
           /\ row[j].accepted /\ j \in Sends
        \/ row'[j] = row[j]
    BY <1>3 DEF Finish, Owns, Inv, TypeOK, Steps, Receivable
  <2>2. CASE /\ row'[j] = Finished(j, row[j], verdict[w]) /\ row[j].status = "dispatching"
             /\ verdict[w] \in Verdicts \ {"none"}
    <3>1. row'[j].status \in {"queued", "skipped", "failed", "uncertain", "accepted"}
      BY <1>1, <2>2, FinishedFacts DEF Verdicts, Declined
    <3> QED BY <1>1, <2>2, <3>1, FinishedFacts DEF Terminal
  <2>3. ASSUME NEW s \in {"delivered", "failed"}, row'[j] = Receipted(row[j], s), row[j].accepted
        PROVE  row'[j].payload <=> row'[j].status \in {"queued", "dispatching"}
    <3>1. row[j].status \in {"accepted", "delivered", "failed"}
      BY <2>3 DEF Inv, Core, CoreOf, Claim
    <3> QED BY <1>1, <2>3, <3>1, ReceiptedFacts
  <2> QED BY <1>1, <2>1, <2>2, <2>3
<1> QED BY <1>2, <1>3

Safe == Core /\ Projections /\ ProjectionFaithful /\ PayloadErased

\* Steps that change no claim.
LEMMA QuietNext ==
    ASSUME Inv, TypeOK', Steps', \A j \in Jobs : RowKept(j) /\ OutcomeKept(j) /\ WorkersKept(j),
           UNCHANGED provider, UNCHANGED <<seen, lock, view>>
    PROVE  Safe'
<1>1. Core'
  BY KeepCore DEF Core, ProviderKept, provider
<1> QED BY <1>1, KeepProjections, KeepPayload DEF Safe

LEMMA ClockRows ==
    ASSUME Inv, Time
    PROVE  \A j \in Jobs : RowKept(j) /\ OutcomeKept(j)
<1>1. \A j \in Jobs : row'[j] = row[j] \/ (row[j] \in JobRow /\ SameClaim(row[j], row'[j]))
  <2>1. CASE GateOpens
    BY <2>1 DEF GateOpens
  <2>2. ASSUME NEW j \in Jobs, LeaseEnds(j) \/ BecomesDue(j) \/ Expires(j) \/ BackoffEnds(j)
        PROVE  \A k \in Jobs : row'[k] = row[k] \/ (row[k] \in JobRow /\ SameClaim(row[k], row'[k]))
    <3>1. row \in [Jobs -> JobRow]
      BY DEF Inv, TypeOK
    <3>2. \A k \in Jobs \ {j} : row'[k] = row[k]
      BY <2>2, <3>1 DEF LeaseEnds, BecomesDue, Expires, BackoffEnds
    <3>3. row[j] \in JobRow /\ SameClaim(row[j], row'[j])
      <4>1. CASE LeaseEnds(j)
        BY <3>1, <4>1, ClockFacts DEF LeaseEnds
      <4>2. CASE BecomesDue(j)
        BY <3>1, <4>2, ClockFacts DEF BecomesDue
      <4>3. CASE Expires(j)
        BY <3>1, <4>3, ClockFacts DEF Expires
      <4>4. CASE BackoffEnds(j)
        BY <3>1, <4>4, ClockFacts DEF BackoffEnds
      <4> QED BY <2>2, <4>1, <4>2, <4>3, <4>4
    <3> QED BY <3>2, <3>3
  <2> QED BY <2>1, <2>2 DEF Time
<1> QED BY <1>1 DEF RowKept, Kept, OutcomeKept, SameClaim, Unprojected, HasOutcome

LEMMA ClockNext ==
    ASSUME Inv, TypeOK', Steps', Time
    PROVE  Safe'
<1>1. UNCHANGED <<pc, job, verdict, call, seen, lock, view, provider>>
  BY DEF Time, GateOpens, LeaseEnds, BecomesDue, Expires, BackoffEnds, worker, projection
<1> QED BY <1>1, ClockRows, QuietNext DEF WorkersKept

LEMMA ProducerRows ==
    ASSUME Inv, CancelUnsent \/ \E k \in Jobs : Enqueue(k)
    PROVE  \A j \in Jobs : RowKept(j) /\ OutcomeKept(j)
<1>1. row \in [Jobs -> JobRow]
  BY DEF Inv, TypeOK
<1>2. ASSUME CancelUnsent, NEW j \in Jobs PROVE RowKept(j) /\ OutcomeKept(j)
  <2>1. CASE row'[j] = row[j]
    BY <2>1 DEF RowKept, Kept, OutcomeKept
  <2>2. CASE row'[j] = Cancelled(row[j]) /\ Unsent(row[j])
    <3>1. Withdrawn(j)
      BY <1>1, <2>2, CancelledFacts DEF Withdrawn, Unsent, Terminal
    <3>2. OutcomeKept(j)
      BY <1>1, <2>2, CancelledFacts DEF OutcomeKept, Unprojected, HasOutcome, Terminal
    <3> QED BY <3>1, <3>2 DEF RowKept
  <2> QED BY <1>2, <2>1, <2>2 DEF CancelUnsent
<1>3. ASSUME NEW k \in Jobs, Enqueue(k), NEW j \in Jobs PROVE RowKept(j) /\ OutcomeKept(j)
  <2>1. CASE j # k
    <3>1. row'[j] = row[j]
      BY <1>1, <1>3, <2>1 DEF Enqueue
    <3> QED BY <3>1 DEF RowKept, Kept, OutcomeKept
  <2>2. CASE j = k
    <3>1. row'[j] = [AbsentRow EXCEPT !.status = "queued", !.due = TRUE, !.payload = TRUE]
          /\ row[j].status = "absent"
      BY <1>1, <1>3, <2>2 DEF Enqueue
    <3> QED BY <3>1, EnqueuedType DEF RowKept, Created, OutcomeKept, Unprojected, HasOutcome, Terminal
  <2> QED BY <2>1, <2>2
<1> QED BY <1>2, <1>3

LEMMA ProducerNext ==
    ASSUME Inv, TypeOK', Steps', CancelUnsent \/ \E k \in Jobs : Enqueue(k)
    PROVE  Safe'
<1>1. UNCHANGED <<pc, job, verdict, call, seen, lock, view, provider>>
  BY DEF CancelUnsent, Enqueue, worker, projection
<1> QED BY <1>1, ProducerRows, QuietNext DEF WorkersKept

\* Projection touches no claim: the rows keep their claim columns.
LEMMA ProjectRows ==
    ASSUME Inv, NEW w \in Workers, Project(w) \/ ProjectRaise(w), NEW j \in Jobs
    PROVE  Kept(j)
<1>1. \/ row'[j] = row[j]
      \/ row'[j] = Marked(row[j])
      \/ row'[j] = [row[j] EXCEPT !.backoff = TRUE]
  BY DEF Project, ProjectSkip, ProjectRead, ProjectCallback, ProjectMark, ProjectRaise, Inv, TypeOK
<1>2. row[j] \in JobRow
  BY DEF Inv, TypeOK
<1>3. ASSUME row'[j] = [row[j] EXCEPT !.backoff = TRUE] PROVE Kept(j)
  BY <1>2, <1>3, ClockFacts DEF SameClaim, Kept
<1>4. ASSUME row'[j] = Marked(row[j]) PROVE Kept(j)
  BY <1>2, <1>4, MarkedFacts DEF Kept
<1> QED BY <1>1, <1>3, <1>4 DEF Kept

LEMMA ProjectNext ==
    ASSUME Inv, TypeOK', Steps', NEW w \in Workers, Project(w) \/ ProjectRaise(w)
    PROVE  Safe'
<1>1. UNCHANGED <<pc, job, verdict, call, posts, late, taken>>
  BY DEF Project, ProjectSkip, ProjectRead, ProjectCallback, ProjectMark, ProjectRaise, ProjectEnd,
         worker, provider
<1>2. Core' /\ PayloadErased'
  BY <1>1, ProjectRows, KeepCore, KeepPayload DEF RowKept, Core, WorkersKept, ProviderKept
<1>3. ASSUME NEW j \in Jobs, ProjectSkip(w, j) PROVE Projections' /\ ProjectionFaithful'
  BY <1>3, KeepProjections DEF ProjectSkip, OutcomeKept
<1> QED BY <1>2, <1>3, ReadOutcome, CallbackOutcome, MarkOutcome DEF Project, Safe

LEMMA WorkNext ==
    ASSUME Inv, TypeOK', Steps', NEW w \in Workers, Work(w)
    PROVE  Safe'
<1>0. pc[w] \in Busy => job[w] \in Jobs
  BY DEF Inv, Steps
<1>1. ASSUME NEW j \in Jobs, ClaimJob(w, j) PROVE Safe'
  <2>1. PayloadErased'
    <3>1. row'[j].payload <=> row'[j].status \in {"queued", "dispatching"}
      BY <1>1, SelectedFacts, ClaimedFacts DEF Inv, PayloadErased
    <3>2. ASSUME NEW k \in Jobs, k # j PROVE RowKept(k)
      BY <1>1, <3>2, RecoveredFacts, RecoveredKept DEF ClaimJob, Inv
    <3>3. ASSUME NEW k \in Jobs, k # j PROVE row'[k].payload <=> row'[k].status \in {"queued", "dispatching"}
      BY <3>2, <3>3 DEF Inv, PayloadErased, RowKept, Kept, Withdrawn, Created, Terminal
    <3> QED BY <3>1, <3>3 DEF PayloadErased
  <2> QED BY <1>1, <2>1, ClaimCore, ClaimOutcome DEF Safe
<1>2. CASE ClaimNone(w)
  <2>1. \A j \in Jobs : RowKept(j) /\ OutcomeKept(j)
    BY <1>2, RecoveredKept, OutcomeRecovered DEF ClaimNone
  <2>2. \A j \in Jobs : WorkersKept(j)
    BY <1>2 DEF ClaimNone, WorkersKept, Inv, TypeOK, Busy
  <2> QED BY <1>2, <2>1, <2>2, QuietNext DEF ClaimNone
<1>3. ASSUME ScanNone(w) \/ FinishLost(w) \/ \E j \in Jobs : Scan(w, j) PROVE Safe'
  <2>1. \A j \in Jobs : RowKept(j) /\ OutcomeKept(j)
    BY <1>3 DEF ScanNone, FinishLost, Scan, RowKept, Kept, OutcomeKept
  <2>2. call[w] = "none" /\ Return(w)
    BY <1>3 DEF ScanNone, FinishLost, Scan, At, Inv, Steps
  <2>3. \A j \in Jobs : WorkersKept(j)
    BY <2>2, NullAssumption DEF Return, WorkersKept, Inv, TypeOK, Busy
  <2>4. UNCHANGED provider /\ UNCHANGED <<seen, lock, view>>
    BY <1>3 DEF ScanNone, FinishLost, Scan, projection
  <2> QED BY <2>1, <2>3, <2>4, QuietNext
<1>4. CASE Eligibility(w) \/ Refuse(w)
  <2>1. UNCHANGED <<row, seen, lock, view>> /\ job[w] \in Jobs
    BY <1>0, <1>4 DEF Eligibility, Refuse, At, Busy, projection
  <2>2. \A j \in Jobs : RowKept(j) /\ OutcomeKept(j)
    BY <2>1 DEF RowKept, Kept, OutcomeKept
  <2> QED BY <1>4, <2>1, <2>2, DeclineCore, KeepProjections, KeepPayload DEF Safe
<1>5. CASE Admit(w) \/ AdmitUnacknowledged(w)
  <2>1. UNCHANGED <<seen, lock, view>> /\ job[w] \in Jobs
    BY <1>0, <1>5 DEF Admit, AdmitUnacknowledged, Admissible, At, Busy, projection
  <2>2. ASSUME NEW j \in Jobs PROVE OutcomeKept(j)
    <3>1. row[j] \in JobRow /\ (row'[j] = row[j] \/ row'[j] = Started(row[j]))
      BY <1>5 DEF Admit, AdmitUnacknowledged, Inv, TypeOK
    <3> QED BY <3>1, StartedFacts DEF OutcomeKept, Unprojected, HasOutcome
  <2> QED BY <1>5, <2>1, <2>2, AdmitCore, KeepProjections, PayloadNext DEF Safe
<1>6. CASE Finish(w)
  <2>1. job[w] \in Jobs
    BY <1>0, <1>6 DEF Finish, Busy
  <2> QED BY <1>6, <2>1, FinishCore, FinishOutcome, PayloadNext DEF Safe
<1>7. ASSUME NEW r \in {"ok", "retry", "fail", "uncertain"}, Answer(w, r) PROVE Safe'
  <2>1. UNCHANGED <<row, seen, lock, view>> /\ job[w] \in Jobs
    BY <1>0, <1>7 DEF Answer, Busy, projection
  <2>2. \A j \in Jobs : RowKept(j) /\ OutcomeKept(j)
    BY <2>1 DEF RowKept, Kept, OutcomeKept
  <2> QED BY <1>7, <2>1, <2>2, AnswerCore, KeepProjections, KeepPayload DEF Safe
<1> QED BY <1>1, <1>2, <1>3, <1>4, <1>5, <1>6, <1>7 DEF Work

LEMMA EnvironmentNext ==
    ASSUME Inv, TypeOK', Steps',
           UNCHANGED vars \/ (\E k \in Jobs : LateDecision(k)) \/ \E w \in Workers : Provider(w) \/ Crash(w)
    PROVE  Safe'
<1>1. UNCHANGED row
  BY DEF LateDecision, Provider, ProviderAccepts, ProviderRejects, Crash, vars
<1>2. \A j \in Jobs : RowKept(j) /\ OutcomeKept(j)
  BY <1>1 DEF RowKept, Kept, OutcomeKept
<1>3. ASSUME NEW w \in Workers, Crash(w) PROVE Safe'
  BY <1>2, <1>3, CrashCore, CrashOutcome, KeepPayload DEF Safe
<1>4. ASSUME NEW w \in Workers, Provider(w) PROVE Safe'
  <2>1. UNCHANGED <<seen, lock, view>> /\ job[w] \in Jobs
    BY <1>4 DEF Provider, ProviderAccepts, ProviderRejects, projection, Inv, Steps, Busy
  <2> QED BY <1>2, <1>4, <2>1, ProviderCore, KeepProjections, KeepPayload DEF Safe
<1>5. ASSUME NEW k \in Jobs, LateDecision(k) PROVE Safe'
  BY <1>2, <1>5, LateCore, KeepProjections, KeepPayload DEF Safe, LateDecision, projection
<1>6. CASE UNCHANGED vars
  BY <1>2, <1>6, QuietNext DEF vars, worker, projection, WorkersKept
<1> QED BY <1>3, <1>4, <1>5, <1>6

LEMMA InvInit == Init => Inv
<1> SUFFICES ASSUME Init PROVE Inv
  OBVIOUS
<1>1. TypeOK /\ Steps
  BY TypeInit, StepsInit
<1>2. \A j \in Jobs : row[j] = AbsentRow /\ posts[j] = 0 /\ late[j] = 0 /\ taken[j] = 0
  BY DEF Init
<1>3. \A w \in Workers : pc[w] = "claim" /\ call[w] = "none"
  BY DEF Init
<1>4. Core
  <2> SUFFICES ASSUME NEW j \in Jobs PROVE CoreOf(j)
    BY DEF Core
  <2>1. \A w \in Workers : ~InCall(w, j) /\ ~InTransport(w, j)
    BY <1>3 DEF InCall, InTransport
  <2>2. Claim(j) /\ Budget(j)
    BY <1>2, <1>3, AbsentType, NullAssumption, MaxAttemptsAssumption DEF Claim, Budget
  <2>3. Transport(j) /\ Report(j) /\ SentOnce(j) /\ Honest(j)
    BY <1>2, <1>3, <2>1, AbsentType DEF Transport, Report, SentOnce, Honest, Exposed
  <2> QED BY <2>2, <2>3 DEF CoreOf
<1>5. Projections /\ ProjectionFaithful /\ PayloadErased
  BY <1>2, AbsentType DEF Init, NoSnap, Projections, ProjectionFaithful, PayloadErased
<1> QED BY <1>1, <1>4, <1>5 DEF Inv

LEMMA InvNext ==
    ASSUME Inv, [Next]_vars
    PROVE  Inv'
<1>1. TypeOK' /\ Steps'
  BY TypeNext, StepsNext DEF Inv
<1>2. Safe'
  BY <1>1, ClockNext, ProducerNext, ProjectNext, WorkNext, EnvironmentNext DEF Next
<1> QED BY <1>1, <1>2 DEF Inv, Safe

\* The invariant the safety theorems rest on.
THEOREM Invariance == Spec => []Inv
BY InvInit, InvNext, PTL DEF Spec

\* Whatever crashes, takeovers, retries and late requests happen, a message is
\* accepted by, or undecided at, the provider at most once.
THEOREM AtMostOnce == Spec => []SendOnce
<1>1. Inv => SendOnce
  BY DEF Inv, Core, CoreOf, SendOnce, Sends
<1> QED BY <1>1, Invariance, PTL

\* The status of a send's row never misleads about what the provider has.
THEOREM Honesty == Spec => []HonestOutcome
<1>1. Inv => HonestOutcome
  BY DEF Inv, Core, CoreOf, HonestOutcome, Sends
<1> QED BY <1>1, Invariance, PTL

\* The attempts handed back by deferral, recovery and cancellation never let a
\* job exceed the configured number of provider requests.
THEOREM WithinBudget == Spec => []RetryBudget
<1>1. Inv => RetryBudget
  <2> SUFFICES ASSUME Inv, NEW j \in Jobs PROVE posts[j] <= MaxAttempts
    BY DEF RetryBudget
  <2>1. posts[j] \in Nat /\ row[j].attempts \in Nat
    BY DEF Inv, TypeOK, JobRow
  <2> QED BY <2>1, MaxAttemptsAssumption DEF Inv, Core, CoreOf, Budget
<1> QED BY <1>1, Invariance, PTL

\* A job marked projected is one whose present outcome the business committed.
THEOREM Faithfulness == Spec => []ProjectionFaithful
<1>1. Inv => ProjectionFaithful
  BY DEF Inv
<1> QED BY <1>1, Invariance, PTL

\* Message bodies survive exactly while the job can still be sent.
THEOREM Erasure == Spec => []PayloadErased
<1>1. Inv => PayloadErased
  BY DEF Inv
<1> QED BY <1>1, Invariance, PTL

-----------------------------------------------------------------------------
(* What a step may do to a row, and the action properties that follow.     *)

\* The owner of the claim writes its row.
OwnerWrites(j) ==
    /\ row[j].status = "dispatching"
    /\ row'[j].status \in {"dispatching", "queued", "skipped", "failed", "uncertain", "accepted"}
    /\ j \in Sends => (row'[j].accepted <=> row'[j].status = "accepted")

ReceiptWrites(j) ==
    /\ row[j].status \in {"accepted", "failed"} /\ row'[j].status \in {"delivered", "failed"}
    /\ row[j].accepted /\ row'[j].accepted

LEMMA RowSteps ==
    ASSUME Inv, [Next]_vars, NEW j \in Jobs
    PROVE  \/ RowKept(j)
           \/ \E w \in Workers : ClaimJob(w, j)
           \/ OwnerWrites(j)
           \/ ReceiptWrites(j)
<1>1. row[j] \in JobRow
  BY DEF Inv, TypeOK
<1>2. CASE row'[j] = row[j]
  BY <1>2 DEF RowKept, Kept
<1>3. ASSUME NEW w \in Workers, NEW k \in Jobs, ClaimJob(w, k), k # j PROVE RowKept(j)
  BY <1>3, RecoveredFacts, RecoveredKept DEF ClaimJob, Inv
<1>4. ASSUME NEW w \in Workers, ClaimNone(w) PROVE RowKept(j)
  BY <1>4, RecoveredKept DEF ClaimNone
<1>5. ASSUME NEW w \in Workers, Admit(w) \/ AdmitUnacknowledged(w)
      PROVE  row'[j] = row[j] \/ OwnerWrites(j)
  <2>1. \/ row'[j] = row[j]
        \/ row'[j] = Started(row[j]) /\ row[j].status = "dispatching"
    BY <1>5 DEF Admit, AdmitUnacknowledged, Admissible, ClaimLive, Owns, Inv, TypeOK
  <2>2. row[j].status = "dispatching" => ~row[j].accepted
    BY DEF Inv, Core, CoreOf, Claim
  <2> QED BY <1>1, <2>1, <2>2, StartedFacts DEF OwnerWrites
<1>6. ASSUME NEW w \in Workers, Finish(w)
      PROVE  \/ row'[j] = row[j]
             \/ OwnerWrites(j)
             \/ ReceiptWrites(j)
  <2>1. \/ /\ row'[j] = Finished(j, row[j], verdict[w]) /\ row[j].status = "dispatching"
           /\ verdict[w] \in Verdicts \ {"none"}
        \/ /\ \E s \in {"delivered", "failed"} : row'[j] = Receipted(row[j], s)
           /\ row[j].accepted /\ row[j].status # "delivered" /\ j \in Sends
        \/ row'[j] = row[j]
    BY <1>6 DEF Finish, Owns, Inv, TypeOK, Steps, Receivable
  <2>2. ASSUME row'[j] = Finished(j, row[j], verdict[w]), verdict[w] \in Verdicts \ {"none"},
               row[j].status = "dispatching"
        PROVE  OwnerWrites(j)
    <3>1. ~row[j].accepted
      BY <2>2 DEF Inv, Core, CoreOf, Claim
    <3> QED BY <1>1, <2>2, <3>1, FinishedFacts DEF Verdicts, Declined, OwnerWrites, Sends
  <2>3. ASSUME NEW s \in {"delivered", "failed"}, row'[j] = Receipted(row[j], s), row[j].accepted,
               row[j].status # "delivered"
        PROVE  ReceiptWrites(j)
    BY <1>1, <2>3, ReceiptedFacts DEF ReceiptWrites, Inv, Core, CoreOf, Claim
  <2> QED BY <2>1, <2>2, <2>3
<1>7. ASSUME NEW w \in Workers, Work(w) PROVE
        \/ RowKept(j)
        \/ \E v \in Workers : ClaimJob(v, j)
        \/ OwnerWrites(j)
        \/ ReceiptWrites(j)
  BY <1>2, <1>3, <1>4, <1>5, <1>6, <1>7 DEF Work, ScanNone, Eligibility, Refuse, FinishLost, Scan, Answer
<1>8. CASE \/ UNCHANGED vars \/ (\E k \in Jobs : LateDecision(k))
           \/ \E w \in Workers : Provider(w) \/ Crash(w)
  BY <1>2, <1>8 DEF LateDecision, Provider, ProviderAccepts, ProviderRejects, Crash, vars
<1> QED BY <1>7, <1>8, ClockRows, ProducerRows, ProjectRows DEF Next, RowKept

\* A terminal outcome is never withdrawn and a delivery is final, whatever
\* stale worker, recovery, cancellation or receipt comes.
THEOREM Finality == Spec => TerminalIsFinal
<1>1. ASSUME Inv, [Next]_vars, NEW j \in Jobs
      PROVE  /\ row[j].status \in Terminal => row'[j].status \in Terminal
             /\ row[j].status = "delivered" => row'[j].status = "delivered"
  <2>1. ASSUME NEW w \in Workers, ClaimJob(w, j) PROVE row[j].status = "queued"
    BY <1>1, <2>1, SelectedFacts
  <2> QED BY <1>1, <2>1, RowSteps DEF RowKept, Kept, Withdrawn, Created, OwnerWrites, ReceiptWrites, Terminal
<1>2. Inv /\ [Next]_vars =>
        [\A j \in Jobs : /\ row[j].status \in Terminal => row'[j].status \in Terminal
                         /\ row[j].status = "delivered" => row'[j].status = "delivered"]_vars
  BY <1>1
<1> QED BY <1>2, Invariance, PTL DEF TerminalIsFinal, Spec

\* A retry waits for the callback of its previous outcome, and no callback
\* commits for a job while a worker holds a claim on it.
THEOREM CallbackOrder == Spec => CallbacksInOrder
<1>1. ASSUME Inv, [Next]_vars, NEW j \in Jobs, row[j].status = "queued", row[j].err,
             row'[j].status = "dispatching"
      PROVE  view[j] = "queued"
  <2>1. PICK w \in Workers : ClaimJob(w, j)
    BY <1>1, RowSteps DEF RowKept, Kept, Withdrawn, Created, OwnerWrites, ReceiptWrites
  <2>2. row[j].projected
    BY <1>1, <2>1, SelectedFacts DEF Unprojected, HasOutcome
  <2> QED BY <1>1, <2>2 DEF Inv, ProjectionFaithful
<1>2. ASSUME Inv, [Next]_vars, NEW j \in Jobs, view'[j] # view[j]
      PROVE  row[j].status # "dispatching"
  <2>1. ASSUME ~\E w \in Workers : ProjectCallback(w) PROVE view' = view
    BY <1>2, <2>1
    DEF Next, Work, Project, Time, Enqueue, CancelUnsent, LateDecision, ClaimJob, ClaimNone, Scan,
        ScanNone, ProjectSkip, ProjectRead, ProjectMark, ProjectRaise, ProjectEnd, Eligibility, Refuse,
        Admit, AdmitUnacknowledged, Provider, ProviderAccepts, ProviderRejects, Answer, Finish,
        FinishLost, Crash, LeaseEnds, BecomesDue, Expires, BackoffEnds, GateOpens, projection, vars
  <2>2. PICK w \in Workers : ProjectCallback(w)
    BY <1>2, <2>1
  <2>3. seen[w].job = j
    BY <1>2, <2>2 DEF ProjectCallback, Inv, TypeOK
  <2>4. Unprojected(row[j])
    BY <1>2, <2>3, HolderFacts, NullAssumption
  <2> QED BY <2>4 DEF Unprojected, HasOutcome, Terminal
<1>3. Inv /\ [Next]_vars =>
        [\A j \in Jobs :
           /\ view'[j] # view[j] => row[j].status # "dispatching"
           /\ row[j].status = "queued" /\ row[j].err /\ row'[j].status = "dispatching"
                => view[j] = "queued"]_vars
  BY <1>1, <1>2
<1> QED BY <1>3, Invariance, PTL DEF CallbacksInOrder, Spec

\* Claims in flight never exceed sms_queue_concurrency: a claim is counted
\* under the account lock after the stale ones were recovered.
THEOREM Bounded == Spec => []ClaimsBounded
<1>1. IsFiniteSet(Dispatching(row)) /\ IsFiniteSet(Dispatching(row')) /\ IsFiniteSet(Dispatching(RecoveredRows))
  BY FiniteAssumption, FS_Subset DEF Dispatching
<1>2. Init => ClaimsBounded
  <2>1. Init => Dispatching(row) = {}
    BY DEF Init, Dispatching, AbsentRow
  <2> QED BY <2>1, FS_EmptySet, ConcurrencyAssumption DEF ClaimsBounded
<1>3. ASSUME Inv, ClaimsBounded, [Next]_vars PROVE ClaimsBounded'
  <2>1. CASE \E w \in Workers, k \in Jobs : ClaimJob(w, k)
    <3>1. PICK w \in Workers, k \in Jobs : ClaimJob(w, k)
      BY <2>1
    <3>2. row'[k].status = "dispatching" /\ row' = [RecoveredRows EXCEPT ![k] = row'[k]]
      BY <1>3, <3>1, SelectedFacts, ClaimedFacts, RecoveredFacts DEF ClaimJob, Inv
    <3>3. Dispatching(row') = Dispatching(RecoveredRows) \cup {k}
      BY <1>3, <3>2, RecoveredFacts DEF Dispatching, Inv
    <3>4. Cardinality(Dispatching(RecoveredRows)) < Concurrency
      BY <3>1 DEF ClaimJob, Selected
    <3>5. /\ Cardinality(Dispatching(RecoveredRows)) \in Nat
          /\ \/ Cardinality(Dispatching(row')) = Cardinality(Dispatching(RecoveredRows))
             \/ Cardinality(Dispatching(row')) = Cardinality(Dispatching(RecoveredRows)) + 1
      BY <1>1, <3>3, FS_CardinalityType, FS_AddElement
    <3> QED BY <3>4, <3>5, ConcurrencyAssumption DEF ClaimsBounded
  <2>2. CASE ~\E w \in Workers, k \in Jobs : ClaimJob(w, k)
    <3>1. Dispatching(row') \subseteq Dispatching(row)
      BY <1>3, <2>2, RowSteps DEF Dispatching, RowKept, Kept, Withdrawn, Created, OwnerWrites, ReceiptWrites
    <3>2. Cardinality(Dispatching(row')) <= Cardinality(Dispatching(row))
      BY <1>1, <3>1, FS_Subset
    <3>3. Cardinality(Dispatching(row')) \in Nat /\ Cardinality(Dispatching(row)) \in Nat
      BY <1>1, FS_CardinalityType
    <3> QED BY <1>3, <3>2, <3>3, ConcurrencyAssumption DEF ClaimsBounded
  <2> QED BY <2>1, <2>2
<1> QED BY <1>2, <1>3, Invariance, PTL DEF Spec
-----------------------------------------------------------------------------
(***************************************************************************)
(* SmsQueue implements SmsDelivery, for every set of jobs and workers: in  *)
(* each step the provider's side moves, or the row does, never both.       *)
(***************************************************************************)

\* One step of the queue as SmsDelivery sees it.
Moves(j, f, g, p, q) ==
    \/ f = "idle" /\ p = "open" /\ g = "flying" /\ q = "open"
    \/ f = "flying" /\ g \in {"taken", "idle"} /\ q = p
    \/ /\ p = "open" /\ g = f
       /\ \/ q = "accepted" /\ f = "taken"
          \/ q = "notsent" /\ f = "idle"
          \/ q = "uncertain"
    \/ p \in {"accepted", "undelivered"} /\ g = f /\ q \in {"delivered", "undelivered"}
    \/ f = g /\ p = q

\* The provider's side of a step: only an admission makes a request fly, and
\* its end changes no row.
LEMMA FateSteps ==
    ASSUME Inv, Inv', [Next]_vars, NEW j \in Sends
    PROVE  \/ Fate(j)' = Fate(j)
           \/ /\ Fate(j) = "idle" /\ Fate(j)' = "flying"
              /\ row[j].status = "dispatching" /\ row'[j].status = "dispatching"
           \/ /\ Fate(j) = "flying" /\ Fate(j)' \in {"taken", "idle"} /\ row' = row
<1>1. /\ j \in Jobs /\ taken[j] \in Nat /\ late[j] \in Nat /\ taken'[j] \in Nat /\ late'[j] \in Nat
      /\ SentOnce(j) /\ SentOnce(j)'
  BY DEF Inv, TypeOK, Core, CoreOf, Sends
<1>2. ASSUME taken'[j] = taken[j], late'[j] = late[j], \A w \in Workers : InCall(w, j)' <=> InCall(w, j)
      PROVE  Fate(j)' = Fate(j)
  BY <1>2 DEF Fate, Exposed
<1>3. ASSUME NEW w \in Workers, Admit(w)
      PROVE  \/ Fate(j)' = Fate(j)
             \/ /\ Fate(j) = "idle" /\ Fate(j)' = "flying"
                /\ row[j].status = "dispatching" /\ row'[j].status = "dispatching"
  <2>1. /\ \A v \in Workers : v # w => (InCall(v, j)' <=> InCall(v, j))
        /\ call[w] = "none" /\ call'[w] = "open" /\ UNCHANGED <<job, taken, late>>
    BY <1>3 DEF Admit, Admissible, At, InCall, Inv, TypeOK, Steps
  <2>2. CASE job[w] # j
    BY <1>2, <2>1, <2>2 DEF InCall
  <2>3. CASE job[w] = j
    <3>1. row[j].token = w /\ pc[w] = "admission" /\ row'[j] = Started(row[j]) /\ row[j] \in JobRow
      BY <1>1, <1>3, <2>3 DEF Admit, Admissible, ClaimLive, Owns, At, Inv, TypeOK
    <3>2. ~Exposed(j) /\ row[j].status = "dispatching"
      BY <2>3, <3>1, UnstartedFacts
    <3>3. Fate(j) = "idle" /\ Fate(j)' = "flying"
      BY <1>1, <2>1, <2>3, <3>2 DEF Fate, Exposed, InCall
    <3> QED BY <3>1, <3>2, <3>3, StartedFacts
  <2> QED BY <2>2, <2>3
<1>4. ASSUME NEW w \in Workers, Provider(w)
      PROVE  \/ Fate(j)' = Fate(j)
             \/ Fate(j) = "flying" /\ Fate(j)' \in {"taken", "idle"} /\ row' = row
  <2>1. CASE job[w] # j
    <3>1. taken'[j] = taken[j] /\ late'[j] = late[j]
      BY <1>1, <1>4, <2>1 DEF Provider, ProviderAccepts, ProviderRejects, Inv, TypeOK, provider
    <3>2. \A v \in Workers : InCall(v, j)' <=> InCall(v, j)
      BY <1>4, <2>1 DEF Provider, ProviderAccepts, ProviderRejects, InCall, Inv, TypeOK
    <3> QED BY <1>2, <3>1, <3>2
  <2>2. CASE job[w] = j
    <3>1. InCall(w, j) /\ row' = row
      BY <1>4, <2>2 DEF Provider, ProviderAccepts, ProviderRejects, InCall
    <3>2. Fate(j) = "flying"
      BY <1>1, <3>1 DEF SentOnce, Fate, Exposed
    <3>3. \A v \in Workers : ~InCall(v, j)'
      BY <1>1, <1>4, <3>1 DEF SentOnce, Provider, ProviderAccepts, ProviderRejects, InCall, Inv, TypeOK
    <3>4. late'[j] = 0
      BY <1>1, <1>4, <3>1 DEF SentOnce, Provider, ProviderAccepts, ProviderRejects, provider
    <3> QED BY <3>1, <3>2, <3>3, <3>4 DEF Fate, Exposed
  <2> QED BY <2>1, <2>2
<1>5. ASSUME NEW k \in Jobs, LateDecision(k)
      PROVE  \/ Fate(j)' = Fate(j)
             \/ Fate(j) = "flying" /\ Fate(j)' \in {"taken", "idle"} /\ row' = row
  <2>1. UNCHANGED <<row, job, call>>
    BY <1>5 DEF LateDecision, worker
  <2>2. CASE k # j
    <3>1. taken'[j] = taken[j] /\ late'[j] = late[j]
      BY <1>1, <1>5, <2>2 DEF LateDecision, Inv, TypeOK
    <3> QED BY <1>2, <2>1, <3>1 DEF InCall
  <2>3. CASE k = j
    <3>1. late[j] > 0 /\ late'[j] = late[j] - 1 /\ taken'[j] \in {taken[j], taken[j] + 1}
      BY <1>1, <1>5, <2>3 DEF LateDecision, Inv, TypeOK
    <3>2. late[j] = 1 /\ taken[j] = 0
      BY <1>1, <3>1 DEF SentOnce
    <3>3. \A v \in Workers : ~InCall(v, j) /\ ~InCall(v, j)'
      BY <1>1, <2>1, <3>2 DEF SentOnce, InCall
    <3> QED BY <2>1, <3>1, <3>2, <3>3 DEF Fate, Exposed
  <2> QED BY <2>2, <2>3
\* A worker that stops waiting leaves its request flying.
<1>6. ASSUME NEW w \in Workers, UNCHANGED taken, call'[w] = "none", Abandon(w),
             \A v \in Workers \ {w} : job'[v] = job[v] /\ call'[v] = call[v]
      PROVE  Fate(j)' = Fate(j)
  <2>1. CASE ~InCall(w, j)
    BY <1>1, <1>2, <1>6, <2>1 DEF Abandon, InCall, Inv, TypeOK
  <2>2. CASE InCall(w, j)
    <3>1. taken[j] = 0 /\ late'[j] = late[j] + 1
      BY <1>1, <1>6, <2>2 DEF Abandon, SentOnce, InCall, Inv, TypeOK
    <3> QED BY <1>1, <1>6, <2>2, <3>1 DEF Fate, Exposed
  <2> QED BY <2>1, <2>2
<1>7. ASSUME NEW w \in Workers, Crash(w) PROVE Fate(j)' = Fate(j)
  BY <1>6, <1>7 DEF Crash, Return, Inv, TypeOK
<1>8. ASSUME NEW w \in Workers, NEW r \in {"ok", "retry", "fail", "uncertain"}, Answer(w, r)
      PROVE  Fate(j)' = Fate(j)
  BY <1>6, <1>8 DEF Answer, Inv, TypeOK
\* Elsewhere no request begins or ends: a worker that claims or returns has none.
<1>9. ASSUME NEW w \in Workers, call[w] = "none", UNCHANGED provider, call' = call,
             \A v \in Workers \ {w} : job'[v] = job[v]
      PROVE  Fate(j)' = Fate(j)
  BY <1>2, <1>9 DEF InCall, provider
<1>10. ASSUME NEW w \in Workers, Return(w), call[w] = "none", UNCHANGED provider PROVE Fate(j)' = Fate(j)
  BY <1>9, <1>10 DEF Return, Inv, TypeOK
<1>11. ASSUME NEW w \in Workers, Work(w)
       PROVE  \/ Fate(j)' = Fate(j)
              \/ /\ Fate(j) = "idle" /\ Fate(j)' = "flying"
                 /\ row[j].status = "dispatching" /\ row'[j].status = "dispatching"
  <2>1. pc[w] # "transport" => call[w] = "none"
    BY DEF Inv, Steps
  <2>2. CASE ScanNone(w) \/ Finish(w) \/ FinishLost(w) \/ \E k \in Jobs : Scan(w, k)
    BY <1>10, <2>1, <2>2 DEF ScanNone, Finish, FinishLost, Scan, At
  <2>3. CASE \/ ClaimNone(w) \/ Eligibility(w) \/ Refuse(w) \/ AdmitUnacknowledged(w)
             \/ \E k \in Jobs : ClaimJob(w, k)
    BY <1>9, <2>1, <2>3 DEF ClaimNone, Eligibility, Refuse, AdmitUnacknowledged, Admissible, ClaimJob,
                           At, Inv, TypeOK
  <2> QED BY <1>3, <1>8, <1>11, <2>2, <2>3 DEF Work
<1>12. ASSUME UNCHANGED <<job, call, provider>> PROVE Fate(j)' = Fate(j)
  BY <1>2, <1>12 DEF InCall, provider
<1>13. ASSUME NEW w \in Workers, Project(w) \/ ProjectRaise(w) PROVE Fate(j)' = Fate(j)
  BY <1>12, <1>13 DEF Project, ProjectSkip, ProjectRead, ProjectCallback, ProjectMark, ProjectRaise,
                     ProjectEnd, worker
<1>14. CASE CancelUnsent \/ Time \/ UNCHANGED vars \/ \E k \in Jobs : Enqueue(k)
  BY <1>12, <1>14 DEF CancelUnsent, Time, Enqueue, LeaseEnds, BecomesDue, Expires, BackoffEnds,
                     GateOpens, vars, worker
<1> QED BY <1>4, <1>5, <1>7, <1>11, <1>13, <1>14 DEF Next

LEMMA MoveSteps ==
    ASSUME Inv, Inv', [Next]_vars, NEW j \in Sends
    PROVE  Moves(j, Fate(j), Fate(j)', Reported(row[j]), Reported(row'[j]))
<1>1. j \in Jobs /\ Honest(j)' /\ Claim(j) /\ Claim(j)' /\ taken'[j] \in Nat
  BY DEF Inv, TypeOK, Core, CoreOf, Sends
<1>2. row[j].status = "dispatching" => Reported(row[j]) = "open"
  BY DEF Reported
<1>3. row'[j].status = "dispatching" => Reported(row'[j]) = "open"
  BY DEF Reported
<1>4. CASE Fate(j)' # Fate(j)
  BY <1>2, <1>3, <1>4, FateSteps DEF Moves
<1>5. CASE Fate(j)' = Fate(j)
  <2>1. ~Exposed(j)' => Fate(j) = "idle"
    BY <1>1, <1>5 DEF Fate, Exposed
  <2>2. row'[j].accepted => Fate(j) = "taken"
    BY <1>1, <1>5 DEF Honest, Fate
  <2>3. CASE Kept(j)
    BY <1>5, <2>3 DEF Kept, Reported, Moves
  <2>4. CASE Withdrawn(j)
    <3>1. Reported(row[j]) = "open" /\ ~row[j].accepted /\ ~row'[j].accepted
      BY <1>1, <2>4 DEF Withdrawn, Reported, Claim
    <3>2. CASE row'[j].status \in {"uncertain", "queued"}
      BY <1>5, <3>1, <3>2 DEF Reported, Moves
    <3>3. CASE row'[j].status \in {"cancelled", "failed"}
      <4>1. ~Exposed(j)'
        BY <1>1, <3>1, <3>3 DEF Honest
      <4> QED BY <1>5, <2>1, <3>1, <3>3, <4>1 DEF Reported, Moves
    <3> QED BY <2>4, <3>2, <3>3 DEF Withdrawn
  <2>5. CASE Created(j)
    BY <1>5, <2>5 DEF Created, Reported, Moves
  <2>6. ASSUME NEW w \in Workers, ClaimJob(w, j)
        PROVE  Moves(j, Fate(j), Fate(j)', Reported(row[j]), Reported(row'[j]))
    <3>1. row[j].status = "queued" /\ row'[j].status = "dispatching"
      BY <1>1, <2>6, SelectedFacts, ClaimedFacts
    <3> QED BY <1>3, <1>5, <3>1 DEF Reported, Moves
  <2>7. CASE OwnerWrites(j)
    <3>1. Reported(row[j]) = "open"
      BY <1>2, <2>7 DEF OwnerWrites
    <3>2. CASE row'[j].status \in {"dispatching", "queued", "uncertain"}
      BY <1>5, <3>1, <3>2 DEF Reported, Moves
    <3>3. CASE row'[j].status = "accepted"
      BY <1>5, <2>2, <2>7, <3>1, <3>3 DEF OwnerWrites, Reported, Moves
    <3>4. CASE row'[j].status \in {"skipped", "failed"}
      <4>1. ~row'[j].accepted
        BY <2>7, <3>4 DEF OwnerWrites
      <4>2. ~Exposed(j)'
        BY <1>1, <3>4, <4>1 DEF Honest
      <4> QED BY <1>5, <2>1, <3>1, <3>4, <4>1, <4>2 DEF Reported, Moves
    <3> QED BY <2>7, <3>2, <3>3, <3>4 DEF OwnerWrites
  <2>8. CASE ReceiptWrites(j)
    BY <1>5, <2>8 DEF ReceiptWrites, Reported, Moves
  <2> QED BY <1>1, <2>3, <2>4, <2>5, <2>6, <2>7, <2>8, RowSteps DEF RowKept
<1> QED BY <1>4, <1>5

\* The queue implements what its producers rely on: a message is sent at most
\* once and reported truthfully, whatever its workers, crashes and late answers.
THEOREM Implementation == Spec => Delivers
<1>1. Init => Delivery!Init
  <2> SUFFICES ASSUME Init, NEW j \in Sends PROVE Fate(j) = "idle" /\ Reported(row[j]) = "open"
    BY DEF Delivery!Init
  <2>1. j \in Jobs /\ row[j] = AbsentRow /\ taken[j] = 0 /\ late[j] = 0 /\ \A w \in Workers : ~InCall(w, j)
    BY DEF Init, InCall, Sends
  <2> QED BY <2>1, AbsentType DEF Fate, Exposed, Reported
<1>2. Inv /\ Inv' /\ [Next]_vars => [Delivery!Next]_<<[j \in Sends |-> Fate(j)], [j \in Sends |-> Reported(row[j])]>>
  <2> SUFFICES ASSUME Inv, Inv', [Next]_vars PROVE Delivery!Next
    OBVIOUS
  <2>1. ASSUME NEW j \in Sends
        PROVE  Delivery!Fly(j) \/ Delivery!Decide(j) \/ Delivery!Close(j) \/ Delivery!Receipt(j) \/ Delivery!Same(j)
    <3>1. Moves(j, Fate(j), Fate(j)', Reported(row[j]), Reported(row'[j]))
      BY <2>1, MoveSteps
    <3> HIDE DEF Fate, Reported
    <3> QED BY <3>1 DEF Moves, Delivery!Fly, Delivery!Decide, Delivery!Close, Delivery!Receipt, Delivery!Same
  <2> QED BY <2>1 DEF Delivery!Next
<1> QED BY <1>1, <1>2, Invariance, PTL DEF Spec, Delivers, Delivery!Spec
=============================================================================
