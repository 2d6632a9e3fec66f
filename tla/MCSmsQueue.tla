---------------------------- MODULE MCSmsQueue ----------------------------
(* Instances of SmsQueue for TLC.                                          *)
EXTENDS SmsQueueInv, TLC

CONSTANTS j1, j2, j3, w1, w2

\* Two sends of different urgency.
TwoSends == [j \in Jobs |-> "send"]

\* A send and the status poll that fetches its receipt.
SendAndPoll == [j \in Jobs |-> IF j = j1 THEN "send" ELSE "status"]

Urgency == [j \in Jobs |-> IF j = j1 THEN 0 ELSE 1]
Campaign == {j1}

\* The columns no transaction reads any more in a row's present status.
LiveRow(r) ==
    IF r.status \in Terminal THEN [r EXCEPT !.due = FALSE, !.expired = FALSE, !.started = FALSE]
    ELSE IF r.status = "queued" THEN [r EXCEPT !.started = FALSE] ELSE r
LiveView == <<[j \in Jobs |-> LiveRow(row[j])], gate, worker, projection, provider>>

Symmetry == Permutations(Workers)

\* The polls j2 and j3 differ in name only; bound: they do not expire.
PollSymmetry == Permutations({j2, j3})
PollsInTime == \A j \in {j2, j3} : ~row[j].expired
=============================================================================
