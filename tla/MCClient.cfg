SPECIFICATION FairClientSpec
CONSTANTS
    ann = ann
    bob = bob
    NoName = NoName
    Names = {ann, bob}
    Failures = {"connect", "link", "send", "garbled"}
    MaxRequests = 3
INVARIANT ClientTypeOK
INVARIANT MessagesAfterLogin
INVARIANT OneReader
INVARIANT NamedAsLoggedIn
INVARIANT PartnerShown
PROPERTY LoginLeadsToMenu
PROPERTY LossNoticed
PROPERTY LeavingEnds
CHECK_DEADLOCK FALSE
