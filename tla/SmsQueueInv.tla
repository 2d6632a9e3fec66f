---------------------------- MODULE SmsQueueInv ----------------------------
(***************************************************************************)
(* The inductive invariant behind the safety properties of SmsQueue, and   *)
(* the mapping by which SmsQueue implements SmsDelivery.                   *)
(***************************************************************************)
EXTENDS SmsQueue

Busy == {"eligibility", "admission", "transport", "finish"}
Refused == Declined \cup {"retry", "fail"}

\* A worker past its claim has a job, and only one in transport has a request.
Steps == \A w \in Workers :
            /\ pc[w] \in Busy => job[w] \in Jobs
            /\ call[w] # "none" => pc[w] = "transport"
            /\ pc[w] = "finish" => verdict[w] # "none"
            /\ verdict[w] # "none" => pc[w] = "finish"

\* The lease token lives and dies with the claim; a claim starts at eligibility
\* and its transport is marked started no earlier than its admission.
Claim(j) ==
    /\ row[j].token # NoWorker => row[j].status = "dispatching"
    /\ row[j].accepted => row[j].status \in {"accepted", "delivered", "failed"}
    /\ \A w \in Workers : row[j].token = w /\ row[j].started /\ job[w] = j
                            => pc[w] \notin {"eligibility", "admission"}

\* A worker in transport owns its started claim, unless recovery took it away,
\* which for a send leaves the job uncertain.
InTransport(w, j) == pc[w] = "transport" /\ job[w] = j
Transport(j) ==
    \A w \in Workers : InTransport(w, j) =>
        /\ \/ row[j].status = "dispatching" /\ row[j].token = w /\ row[j].started
           \/ row[j].status = "uncertain"
        /\ \A v \in Workers : InTransport(v, j) => v = w
        /\ late[j] = 0
        /\ call[w] \in {"open", "rejected"} => taken[j] = 0
        /\ call[w] = "taken" => taken[j] = 1

\* What the owner of a claim is about to report agrees with the provider.
Report(j) ==
    \A w \in Workers :
        pc[w] = "finish" /\ job[w] = j =>
          /\ verdict[w] = "ok" => taken[j] = 1
          /\ row[j].token = w /\ verdict[w] \in Refused => ~Exposed(j)

\* Attempts count provider requests, one more while a claim has not made its.
Budget(j) ==
    /\ row[j].attempts <= MaxAttempts
    /\ row[j].status = "absent" => row[j].attempts = 0
    /\ row[j].status = "queued" => row[j].attempts < MaxAttempts
    /\ row[j].status = "dispatching" => row[j].attempts > 0
    /\ posts[j] <= row[j].attempts
    /\ row[j].status = "dispatching" /\ ~row[j].started => posts[j] < row[j].attempts
    /\ \A w \in Workers :
         row[j].token = w /\ pc[w] = "finish" /\ job[w] = j /\ verdict[w] \in Declined
           => posts[j] < row[j].attempts

CoreOf(j) == /\ Claim(j) /\ Budget(j)
             /\ j \in Sends => Transport(j) /\ Report(j) /\ SentOnce(j) /\ Honest(j)
Core == \A j \in Jobs : CoreOf(j)

\* The advisory lock of j has one holder, who is projecting an outcome of j
\* that nobody else can mark, and nobody can claim j meanwhile.
Projections ==
    /\ \A w \in Workers : seen[w].job # NoJob => lock[seen[w].job] = w
    /\ \A j \in Jobs : lock[j] # NoWorker =>
         LET s == seen[lock[j]] IN
         /\ s.job = j
         /\ Unprojected(row[j])
         /\ s.done => view[j] = s.status

Inv == TypeOK /\ Steps /\ Core /\ Projections /\ ProjectionFaithful /\ PayloadErased

-----------------------------------------------------------------------------

Fate(j) == IF taken[j] > 0 THEN "taken" ELSE IF Exposed(j) THEN "flying" ELSE "idle"
Reported(r) ==
    CASE r.status \in {"accepted", "delivered", "uncertain"} -> r.status
      [] r.status \in {"failed", "skipped", "cancelled"} -> IF r.accepted THEN "undelivered" ELSE "notsent"
      [] OTHER -> "open"

Delivery == INSTANCE SmsDelivery WITH
              Messages <- Sends,
              fate <- [j \in Sends |-> Fate(j)],
              report <- [j \in Sends |-> Reported(row[j])]

\* The queue is an implementation of what its producers rely on: a message is
\* sent at most once and its final report is true, over every interleaving of
\* workers, recovery, cancellation and late provider decisions.
Delivers == Delivery!Spec
=============================================================================
