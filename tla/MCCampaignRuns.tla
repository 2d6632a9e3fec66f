---------------------------- MODULE MCCampaignRuns ----------------------------
EXTENDS CampaignRuns, TLC

CONSTANTS r1, r2, x1, x2, c1

\* Two runs reach the same customer, one by Telegram with SMS to fall back on.
RunOfRecipients == r1 :> x1 @@ r2 :> x2
OneCustomer == [r \in {r1, r2} |-> c1]
=============================================================================
