SPECIFICATION Spec
CONSTANTS
    alice = alice
    bob = bob
    carol = carol
    bobNul = bobNul
    emailA = emailA
    emailB = emailB
    emailC = emailC
    hashA = hashA
    hashB = hashB
    secretA = secretA
    secretB = secretB
    Names = {alice, bobNul, bob}
    Emails = {emailA, emailB}
    Hashes = {hashA, hashB}
    Passwords = {secretA}
    ColumnText <- MCColumnText
    HashOf <- MCHashOf
    InitialUsers <- NoUsers
    NoRow = NoRow
    NoSession = NoSession
    NoName = NoName
    Sessions = {s1, s2}
    MaxUsers = 2
    MaxMessages = 1
    MaxOut = 1
    MaxIn = 1
    Observed = {"response"}
    Faults = {"insert", "select", "stop"}
SYMMETRY Symmetry
INVARIANTS
    TypeOK
    RowsReferToUsers
    RegistryAgrees
    TypingFollowsMessages
