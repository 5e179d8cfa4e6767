---------------------------- MODULE UserManager ----------------------------
(***************************************************************************)
(* server/user_manager.cpp: accounts, and the registry of active sessions. *)
(* The two std::map members are total functions on the user ids; NoSession *)
(* and NoName stand for an absent key.                                      *)
(***************************************************************************)
EXTENDS Database

CONSTANTS
    Sessions,              \* identities of Session objects
    NoSession, NoName,
    Passwords,
    HashOf                 \* hashPassword, a function on passwords

ASSUME UserManagerAssumption ==
    /\ NoSession \notin Sessions
    /\ NoName \notin Names
    /\ HashOf \in [Passwords -> Hashes]

VARIABLES activeSessions, userIdToUsername

registryVars == <<activeSessions, userIdToUsername>>

EmptyRegistry == [u \in UserIds |-> NoSession]
NoUsernames   == [u \in UserIds |-> NoName]

UserManagerInit ==
    /\ activeSessions = EmptyRegistry
    /\ userIdToUsername = NoUsernames

\* Slip: the password is stored instead of its hash.
RegisterUserSlip(name, email, password) == AddUser(name, email, password)

\* registerUser returns true exactly when AddUser succeeds: the getUser it
\* calls first can only find what UNIQUE would reject anyway.
RegisterUser(name, email, password) == AddUser(name, email, HashOf[password])

RegistrationFails(name, email) ==
    Conflicts(name, email) \/ "insert" \in Faults

\* authenticateUser: the ids for which it returns true.
Authenticated(name, password) ==
    {i \in GetUser(name) : users[i].password_hash = HashOf[password]}

IsSessionActive(user) == user \in UserIds /\ activeSessions[user] # NoSession

\* removeSession, followed by one insertion in each map.
AddSession(user, name, s) ==
    /\ activeSessions' = [activeSessions EXCEPT ![user] = s]
    /\ userIdToUsername' = [userIdToUsername EXCEPT ![user] = name]

\* Slip: the entry of user_id_to_username_ is not erased.
RemoveSessionSlip(user) ==
    /\ activeSessions' = [activeSessions EXCEPT ![user] = NoSession]
    /\ UNCHANGED userIdToUsername

RemoveSession(user) ==
    IF IsSessionActive(user)
    THEN /\ activeSessions' = [activeSessions EXCEPT ![user] = NoSession]
         /\ userIdToUsername' = [userIdToUsername EXCEPT ![user] = NoName]
    ELSE UNCHANGED registryVars

\* getSessionByUsername: the session found through user_id_to_username_, as a
\* set with no element when the function returns nullptr.
SessionByUsername(name) ==
    {activeSessions[u] : u \in {v \in UserIds : userIdToUsername[v] = name}}
        \ {NoSession}
=============================================================================
