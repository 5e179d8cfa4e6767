------------------------------- MODULE Mailbox -------------------------------
(***************************************************************************)
(* What the server promises about chat messages, without sessions, sockets *)
(* or tables: each user has a mailbox.  A message for a present user is     *)
(* handed over at once, a message for an absent user waits, and everything *)
(* that waits is handed over when the user arrives, exactly once.           *)
(***************************************************************************)
EXTENDS Integers

CONSTANTS Users, Messages

VARIABLES
    present,     \* the users that are online
    waiting,     \* the messages in each user's mailbox
    handovers,   \* how often each message was handed over
    posted       \* number of messages accepted; their ids are 1 .. posted

mailboxVars == <<present, waiting, handovers, posted>>

MailboxInit ==
    /\ present = {}
    /\ waiting = [u \in Users |-> {}]
    /\ handovers = [m \in Messages |-> 0]
    /\ posted = 0

HandOver(ids) ==
    handovers' = [m \in Messages |-> IF m \in ids THEN handovers[m] + 1 ELSE handovers[m]]

PostToPresent(u) ==
    /\ u \in present
    /\ posted + 1 \in Messages
    /\ posted' = posted + 1
    /\ HandOver({posted + 1})
    /\ UNCHANGED <<present, waiting>>

PostToAbsent(u) ==
    /\ u \notin present
    /\ posted + 1 \in Messages
    /\ posted' = posted + 1
    /\ waiting' = [waiting EXCEPT ![u] = @ \cup {posted + 1}]
    /\ UNCHANGED <<present, handovers>>

\* Again when the user is present already: a second login.
Arrive(u) ==
    /\ present' = present \cup {u}
    /\ HandOver(waiting[u])
    /\ waiting' = [waiting EXCEPT ![u] = {}]
    /\ UNCHANGED posted

\* A connection ends, or the server does.
Depart(leaving) ==
    /\ present' = present \ leaving
    /\ UNCHANGED <<waiting, handovers, posted>>

MailboxNext ==
    \/ \E u \in Users : PostToPresent(u) \/ PostToAbsent(u) \/ Arrive(u)
    \/ \E leaving \in SUBSET Users : Depart(leaving)

MailboxSpec == MailboxInit /\ [][MailboxNext]_mailboxVars
=============================================================================
