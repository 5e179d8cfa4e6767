SPECIFICATION Spec
CONSTANTS
    alice = alice
    bob = bob
    carol = carol
    bobNul = bobNul
    emailA = emailA
    emailB = emailB
    emailC = emailC
    hashA = hashA
    hashB = hashB
    secretA = secretA
    secretB = secretB
    Names = {alice, bob}
    Emails = {emailA, emailB}
    Hashes = {hashA, hashB}
    Passwords = {secretA, secretB}
    ColumnText <- MCColumnText
    HashOf <- MCHashOf
    InitialUsers <- TwoUsers
    NoRow = NoRow
    NoSession = NoSession
    NoName = NoName
    Sessions = {s1, s2}
    MaxUsers = 2
    MaxMessages = 2
    MaxOut = 2
    MaxIn = 1
    Observed = {"message"}
    Faults = {"stop", "store", "insert", "select"}
SYMMETRY Symmetry
INVARIANTS
    NothingWaitsForOnlineUser
    HandedAtMostOnce
    StreamsReachAddressees
    StoredMessagesAccounted
    HandedInOrder
    StreamInOrder
PROPERTY
    ImplementsMailbox
