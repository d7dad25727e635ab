SPECIFICATION LeaseFairSpec
CONSTANTS
    Controllers = {c1, c2, c3}
    Payloads = {p1, p2}
    NoPayload = NoPayload
INVARIANTS NoLostNotification LeaseSafe
PROPERTIES GrantsSound ImplementsLease WaitersResolved
CHECK_DEADLOCK FALSE
