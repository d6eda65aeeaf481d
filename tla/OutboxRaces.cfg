SPECIFICATION FairSpec
CONSTANTS
    Deliveries = {d1}
    Handlers = {h1, h2}
    NoDelivery = NoDelivery
    MaxMails = 2
    WarnMails = 2
    MailConfigured = TRUE
    MaxFaults = 3
INVARIANTS TypeOK OneDraft CreditedIsSent ReadyHasDraft
PROPERTIES KeepsPromise EveryDecisionSettles
CHECK_DEADLOCK FALSE
