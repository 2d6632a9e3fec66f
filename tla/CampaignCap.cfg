CONSTANTS
    r1 = r1
    r2 = r2
    x1 = x1
    x2 = x2
    c1 = c1
    Runs = {x1, x2}
    Customers = {c1}
    Recipients = {r1, r2}
    RunOf <- RunOfRecipients
    CustomerOf <- OneCustomer
    OnTelegram = {r2}
    StatusChanges = {"active", "paused", "archived"}
    MaxStale = 1
SPECIFICATION FairSpec
INVARIANTS FrequencyCap ReportsHonest 
PROPERTIES AcceptedIsReported SkippedStays 
