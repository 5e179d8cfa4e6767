SPECIFICATION ClientSpec
CONSTANTS
    ann = ann
    bob = bob
    NoName = NoName
    Names = {ann, bob}
    Failures = {}
    MaxRequests = 2
INVARIANT ExitLeavesChat
CHECK_DEADLOCK FALSE
