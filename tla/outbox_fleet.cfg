SPECIFICATION FairSpec
CONSTANTS
    e1 = e1
    e2 = e2
    i1 = i1
    Emails = {e1, e2}
    Invoices = {i1}
    KindOf <- SendAndRemind
    InvoiceOf <- OneInvoice
    Ticks = {t1, t2}
    MaxRetries = 2
    BatchSize = 2
    MaxEarly = 1
    MaxFaults = 1
    NoInvoice = NoInvoice
    NoClaim = NoClaim
INVARIANTS DuplicatesExplained
PROPERTIES VoidedStaysUnsent Settles
