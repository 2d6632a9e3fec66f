\* Two checkout tabs, a member of staff and the poll; the wrong invoice may be
\* bound first and corrected later.
CONSTANTS
    a1 = a1  x1 = x1
    NoInvoice = NoInvoice
    Invoices = {a1, x1}
    Ours = {a1}
    Tabs = {t1, t2}
    Desks = {d1}
    Poller = poller
SPECIFICATION Spec
INVARIANTS OnePost EvidenceStands LateMoneyHeard NoReceiptAfterReturn
PROPERTIES BindingsStay MoneyRecorded ReceiptImported
