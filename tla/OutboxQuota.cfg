SPECIFICATION Spec
CONSTANTS
    Deliveries = {d1, d2, d3}
    Handlers = {h1}
    NoDelivery = NoDelivery
    MaxMails = 1
    WarnMails = 1
    MailConfigured = TRUE
    MaxFaults = 1
INVARIANT WithinQuota
CHECK_DEADLOCK FALSE
