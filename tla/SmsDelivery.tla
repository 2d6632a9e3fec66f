---------------------------- MODULE SmsDelivery ----------------------------
(***************************************************************************)
(* What the SMS queue promises the business code that enqueues messages,   *)
(* with no word of leases, attempts, workers or crashes.                   *)
(*                                                                         *)
(* fate[m] is where the message really is: nobody asked for it ("idle"),   *)
(* a request for it is undecided ("flying"), the provider took it          *)
(* ("taken").  report[m] is what the queue tells about it: nothing final   *)
(* ("open"), "accepted", "notsent", "uncertain" (may or may not have been  *)
(* sent; nobody will repeat it), or a receipt, "delivered" or              *)
(* "undelivered".                                                          *)
(***************************************************************************)
CONSTANT Messages
VARIABLES fate, report

Init == /\ fate = [m \in Messages |-> "idle"]
        /\ report = [m \in Messages |-> "open"]

\* A request leaves only while the report is open and nothing is on its way,
\* so a message is never sent twice, nor after it was reported as not sent.
Fly(m) == /\ fate[m] = "idle" /\ report[m] = "open"
          /\ fate'[m] = "flying" /\ report'[m] = "open"

\* The provider takes the request or it comes to nothing.
Decide(m) == /\ fate[m] = "flying"
             /\ fate'[m] \in {"taken", "idle"} /\ report'[m] = report[m]

\* The report is closed once, truthfully.
Close(m) == /\ report[m] = "open"
            /\ fate'[m] = fate[m]
            /\ \/ report'[m] = "accepted" /\ fate[m] = "taken"
               \/ report'[m] = "notsent" /\ fate[m] = "idle"
               \/ report'[m] = "uncertain"

\* Receipts come only for accepted messages and a delivery is final.
Receipt(m) == /\ report[m] \in {"accepted", "undelivered"}
              /\ fate'[m] = fate[m]
              /\ report'[m] \in {"delivered", "undelivered"}

Same(m) == fate'[m] = fate[m] /\ report'[m] = report[m]

\* One transaction of the queue may move several messages at once.
Next == /\ \A m \in Messages : Fly(m) \/ Decide(m) \/ Close(m) \/ Receipt(m) \/ Same(m)
        /\ DOMAIN fate' = Messages /\ DOMAIN report' = Messages

Spec == Init /\ [][Next]_<<fate, report>>
=============================================================================
