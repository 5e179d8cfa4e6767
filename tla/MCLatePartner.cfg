SPECIFICATION ClientSpec
CONSTANTS
    ann = ann
    bob = bob
    NoName = NoName
    Names = {ann, bob}
    Failures = {}
    MaxRequests = 3
INVARIANT HeaderNamesPartner
CHECK_DEADLOCK FALSE
