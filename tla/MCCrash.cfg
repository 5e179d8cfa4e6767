SPECIFICATION FairSpec
CONSTANTS
    alice = alice
    bob = bob
    carol = carol
    bobNul = bobNul
    emailA = emailA
    emailB = emailB
    emailC = emailC
    hashA = hashA
    hashB = hashA
    secretA = secretA
    secretB = secretB
    Names = {alice, bob, carol}
    Emails = {emailA, emailB, emailC}
    Hashes = {hashA}
    Passwords = {secretA}
    ColumnText <- MCColumnText
    HashOf <- MCHashOf
    InitialUsers <- ThreeUsers
    NoRow = NoRow
    NoSession = NoSession
    NoName = NoName
    Sessions = {s1}
    MaxUsers = 3
    MaxMessages = 2
    MaxOut = 2
    MaxIn = 2
    Observed = {}
    Faults = {"stop", "midstop", "delete", "clock"}
PROPERTY
    OfflineAtLeastOnce
PROPERTY
    LostSessionsClose
