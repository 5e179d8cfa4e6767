------------------------------ MODULE Database ------------------------------
(***************************************************************************)
(* The SQLite tables of server/database.cpp, as the rest of the server uses *)
(* them.  The tables are the only state that survives the server process.   *)
(*                                                                         *)
(*   users[i]     the row of table users with AUTOINCREMENT id i           *)
(*   messages[m]  the row of table messages with id m, NoRow if there is    *)
(*                none (never inserted, or deleted)                        *)
(*   lastMessageId  the AUTOINCREMENT counter of messages: ids of deleted  *)
(*                rows are never given out again                           *)
(*                                                                         *)
(* The text of a message is abstracted to the id of its row.  No caller    *)
(* passes is_file or file_path, so they keep their defaults and are left   *)
(* out.  Database::getMessages has no caller.                              *)
(*                                                                         *)
(* Here and in the other modules, a definition whose name ends in Slip is a *)
(* plausible mistake in the definition that follows; no action uses it.    *)
(***************************************************************************)
EXTENDS Integers, Sequences, FiniteSets

CONSTANTS
    Names, Emails, Hashes,   \* strings of requests, TEXT values of users
    ColumnText,              \* the TEXT that binding a name gives
    NoRow,                   \* "no row has this id"
    InitialUsers,            \* rows of the messenger.db the server opens
    MaxUsers, MaxMessages,   \* bounds on the two id counters
    Faults                   \* what may fail, a subset of FaultKinds

\* addUser, storeMessage or deleteOfflineMessages returns false ("insert",
\* "store", "delete"); a SELECT returns no row or stops early ("select",
\* "scan"); the process ends between two handlers or in one ("stop", "midstop");
\* the clock that sent_at is taken from is set back ("clock").
FaultKinds == {"insert", "store", "delete", "select", "scan", "stop", "midstop", "clock"}

UserIds    == 1 .. MaxUsers
MessageIds == 1 .. MaxMessages

UserRow    == [username : Names, email : Emails, password_hash : Hashes]
MessageRow == [sender : UserIds, receiver : UserIds, is_delivered : BOOLEAN]

\* sqlite3_bind_text(..., -1, ...) reads a c_str() up to its first NUL, which
\* JSON can put into a string: ColumnText cuts a name there.  Emails and hashes
\* are only ever bound, so they are taken as cut already.
ASSUME DatabaseAssumption ==
    /\ ColumnText \in [Names -> Names]
    /\ \A name \in Names : ColumnText[ColumnText[name]] = ColumnText[name]
    /\ MaxUsers \in Nat
    /\ MaxMessages \in Nat
    /\ NoRow \notin MessageRow
    /\ Faults \subseteq FaultKinds
    /\ InitialUsers \in Seq(UserRow)
    /\ Len(InitialUsers) <= MaxUsers
    /\ \A i \in 1 .. Len(InitialUsers) :
          ColumnText[InitialUsers[i].username] = InitialUsers[i].username
    /\ \A i, j \in 1 .. Len(InitialUsers) :
          \/ InitialUsers[i].username = InitialUsers[j].username
          \/ InitialUsers[i].email = InitialUsers[j].email
          => i = j

VARIABLES users, messages, lastMessageId

dbVars == <<users, messages, lastMessageId>>

DatabaseInit ==
    /\ users = InitialUsers
    /\ messages = [m \in MessageIds |-> NoRow]
    /\ lastMessageId = 0

\* getUser: the ids of the rows with this username (at most one, by UNIQUE).
GetUser(name) == {i \in 1 .. Len(users) : users[i].username = ColumnText[name]}

\* The INSERT violates UNIQUE on username or email.
Conflicts(name, email) ==
    GetUser(name) # {} \/ \E i \in 1 .. Len(users) : users[i].email = email

AddUser(name, email, hash) ==
    /\ Len(users) < MaxUsers
    /\ ~Conflicts(name, email)
    /\ users' = Append(users, [username |-> ColumnText[name], email |-> email,
                               password_hash |-> hash])
    /\ UNCHANGED <<messages, lastMessageId>>

NextMessageId == lastMessageId + 1

StoreMessage(sender, receiver, is_delivered) ==
    /\ lastMessageId < MaxMessages
    /\ lastMessageId' = NextMessageId
    /\ messages' = [messages EXCEPT ![NextMessageId] =
                      [sender |-> sender, receiver |-> receiver,
                       is_delivered |-> is_delivered]]
    /\ UNCHANGED users

\* The ids selected by WHERE receiver_id = user AND is_delivered = 0.
OfflineMessages(user) ==
    {m \in MessageIds : /\ messages[m] # NoRow
                        /\ messages[m].receiver = user
                        /\ ~messages[m].is_delivered}

\* ORDER BY sent_at ASC.  sent_at is the second of the INSERT, and SQLite returns
\* equal keys in rowid order: the order of the ids, unless the clock was set back.
Before(m, n) == m < n \/ "clock" \in Faults

\* The rows that are read before an end in the middle.
OfflinePrefixes(user) ==
    {scan \in SUBSET OfflineMessages(user) :
        "clock" \in Faults \/ \A n \in scan, m \in OfflineMessages(user) : m < n => m \in scan}

\* What the SELECT of getOfflineMessages may return: every row, and when
\* sqlite3_step ends the loop with an error, the rows read before it.
OfflineScans(user) ==
    {OfflineMessages(user)} \cup
    IF "scan" \in Faults THEN OfflinePrefixes(user) ELSE {}

\* Slip: ORDER BY sent_at DESC.
ListingsSlip(ids) ==
    {q \in [1 .. Cardinality(ids) -> ids] :
        /\ \A i, j \in 1 .. Cardinality(ids) : i < j => q[i] > q[j]
        /\ \A m \in ids : \E i \in 1 .. Cardinality(ids) : q[i] = m}

\* A set of rows in the order of the SELECT.
Listings(ids) ==
    {q \in [1 .. Cardinality(ids) -> ids] :
        /\ \A i, j \in 1 .. Cardinality(ids) : i < j => Before(q[i], q[j])
        /\ \A m \in ids : \E i \in 1 .. Cardinality(ids) : q[i] = m}

\* Slip: the DELETE lacks receiver_id = ?.
DeleteForEveryoneSlip(user) ==
    /\ messages' = [m \in MessageIds |->
                      IF \E u \in UserIds : m \in OfflineMessages(u)
                      THEN NoRow ELSE messages[m]]
    /\ UNCHANGED <<users, lastMessageId>>

\* Slip: the DELETE says is_delivered = 1.
DeleteDeliveredSlip(user) ==
    /\ messages' = [m \in MessageIds |->
                      IF messages[m] # NoRow /\ m \notin OfflineMessages(user)
                      THEN NoRow ELSE messages[m]]
    /\ UNCHANGED <<users, lastMessageId>>

DeleteOfflineMessages(user) ==
    /\ messages' = [m \in MessageIds |->
                      IF m \in OfflineMessages(user) THEN NoRow ELSE messages[m]]
    /\ UNCHANGED <<users, lastMessageId>>
=============================================================================
