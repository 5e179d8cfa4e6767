# Asynchronous messenger: models, checks and proofs

TLA+ models of the messenger in `server/` and `client/`: a C++ server on Boost.Asio with
a SQLite database, and a terminal client with several threads. TLC checks the modules on
small instances (the `.cfg` files); TLAPS proves theorems about the server for every
number of users, sessions and messages (`ServerProofs.tla`, `StreamProofs.tla`), about
the client for every number of names and requests (`ClientProofs.tla`), about the streams
between them for lines, transfers and chunks of every size (`WireProofs.tla`, which uses
`Recursion.tla` and `WireLemmas.tla`), and about the typing notices (`TypingProofs.tla`).
`PROJECT.json` maps every definition to the lines that it models, and lists the runs, the
mutants that show that each property can fail, the hazards, the findings and the theorems.

There are no unit tests in the repository, and no design document. What the program is
meant to do is taken from comments, from the texts it shows and from the shape of its
code; where the code does something else, the run that shows it is listed under
*Findings*.

## 1. The system

A client opens one TCP connection and writes JSON objects, one a line: `register`,
`login`, `message`, `typing`. The server answers with `..._response` lines and writes
`message` and `typing` lines to whom they are for.

```
   client                                              server (one thread)
 ClientUI ── ClientStateMachine ── ClientConnection ~~~ Session ── JsonParser ── UserManager ── Database
    │               │                    │                  │            └────── Router ──────────┘
    └────── MessageReceiver ─────────────┘                  └── registry of UserManager
```

| Part (source) | State it keeps | Operations | What makes it hard |
|---|---|---|---|
| `Database` (`server/database.cpp`) | tables `users`, `messages` | insert and look up a user; insert a message; list and delete the undelivered messages of a user | any statement may fail; a SELECT that stops early looks like a shorter one; the tables outlive the process; text is cut at a NUL |
| `UserManager` (`server/user_manager.cpp`) | `active_sessions_`, `user_id_to_username_` | `registerUser`, `authenticateUser`, `addSession`, `removeSession`, look-ups | two maps changed from the handlers of many sessions, keyed by user and not by session |
| `Session` (`server/session.cpp`) | `user_id_`, `username_`, `is_authenticated_`, `closing_`, the socket | `start`, `do_read`, `send`, `close` | loss is noticed late, by a read or by a write; queued requests are handled after the loss and even after `close()`; several logins on one session |
| `Router` (`server/router.cpp`) | none | `routeMessage`, `deliverMessage`, `sendStoredMessages`, `sendTypingStatus` | table or stream, decided by the registry; rows are deleted before they are known to have arrived |
| `JsonParser` (`server/json_parser.cpp`) | none | one handler per request type | what is answered when a callee gives up |
| process (`server/server.cpp`) | `io_context`, acceptor | accept a connection, run the handlers, end | an exception ends it; it may end inside a handler |
| `ClientConnection` (`client/client_connection.cpp`) | `connected_`, `receiving_`, the socket | connect, send, read, disconnect | used by four threads |
| `ClientStateMachine` (`client/client_state_machine.cpp`) | `current_state_`, `current_username_`, `chat_target_` | transitions | guards checked on one thread while another sets the state |
| `MessageReceiver` (`client/message_receiver.cpp`) | `listening_`, callbacks | handle a line, handle an error | runs on the io thread |
| `ClientUI` (`client/client_ui.cpp`, `client/client.cpp`) | `in_chat_mode_`, `chat_thread_running_`, `current_chat_target_`, `current_typing_status_`, `current_typing_user_`, per line `is_typing` | menus, chat mode, typing notices and their display, the end of the program | main, chat, io, cleanup and timer threads; sleeps in place of waits; joins; detached timers; strings shared without a lock |
| the stream between `Session` and `ClientConnection` | what is written and not read, `message_buffer_` on each side | `send`, `do_read`, on both sides | a write may be cut short and go on later; two may be under way; the server's buffer is gone by then; chunks end anywhere |

What makes each part correct, in a sentence: the registry's two maps agree and refer to
live sessions that logged in as the user they are registered for; a stored message is
never lost, duplicated or overtaken on its way to a session of its addressee; nothing
waits in the table for a user who is online; connections that are lost are closed; the
client sends messages only once it is logged in, to the partner that it shows, with one
thread at a time reading the terminal, and it ends when it is asked to; a stream
carries whole lines, once each and in order; and the partner's screen says "typing"
only while it is so.

The hazards, each at its line and with the properties that would catch it, are in
`PROJECT.json`.

## 2. The modules

Each line `EXTENDS` the one above it within its block.

**Server**

| Module | Models | State and actions |
|---|---|---|
| `Database` | `database.cpp` | `users` is the sequence of rows, so that an id is an index; `messages` maps an id to its row or `NoRow`; `lastMessageId` is AUTOINCREMENT's counter. `AddUser`, `StoreMessage`, `OfflineMessages`, `DeleteOfflineMessages` are the statements. `ColumnText` is what `sqlite3_bind_text` with `c_str()` keeps of a name |
| `UserManager` | `user_manager.cpp` | the two maps as functions on user ids, with `NoSession` and `NoName` for an absent key. `AddSession` and `RemoveSession` are the two operations that change them |
| `Session` | `session.cpp` | `phase` (constructed, closed, destroyed), the login fields, and the connection: `link`, `unread` requests, `writeFailed`, and `out`, the lines that the peer has not read |
| `Router` | `router.cpp` | `DeliverOnline`, `StoreOffline`, `Dropped`, `SendStoredMessages`, `SendTypingStatus`: one operator per path through the code. Three history variables are added: `addressee` (whom a stored message is for), `handed` (how often it was passed to `send`), `loggedInAs` (the users a connection has logged in as) |
| `MessengerServer` | `json_parser.cpp`, `server.cpp` | one action per handler and outcome, `Restart`, `StopInPost`, `StopInReplay`; `Spec`, `FairSpec` |
| `ServerProperties` | | type invariant, invariants, action and liveness properties, the refinement mapping to `Mailbox` |
| `ServerClaims` | | what comments say and the code does not do |
| `MCServer` | | instances for TLC |
| `ServerProofs` | | theorems and proofs (extends `ServerProperties` and TLAPS) |
| `StreamProofs` | | theorems about the lines written to the streams (extends `ServerProofs`) |

`Mailbox` stands alone. It is the abstract specification of the server: every user has
a mailbox; a message posted for a user who is present is handed over at once, in the
same step; otherwise it waits, and all that waits is handed over, in one step, when the
user arrives; users come and go. `ServerProperties` maps *present* to "has an active session", *waiting*
to the undelivered rows and *handovers* to `handed`.

**Client**

| Module | Models | State and actions |
|---|---|---|
| `ClientConnection` | `client_connection.cpp`, and the server at the other end | the two flags, the receiver's callbacks, the two directions of the stream (`requests`, `lines`), the complete lines that the read handler still has (`buffered`), `serverUser` (whom the server has logged in); `ServerAnswers` is `json_parser.cpp` as far as a client can tell: one answer to each request, of any outcome that some state of the server allows; `MessengerServer` has it in full |
| `ClientStateMachine` | `client_state_machine.cpp`, `message_receiver.cpp` | the three fields; the io thread as `io`, with a step between the two transitions that a login answer makes |
| `ClientUI` | `client_ui.cpp`, `client.cpp` | the position of the main thread (`main`), of the chat thread (`chat`) and of the cleanup thread, and the fields they share; `sendMessage` is two steps, its check of the state (`SubmitLine`) and the writing (`WriteMessage`); `ClientSpec`, `FairClientSpec` |
| `ClientProperties`, `ClientClaims`, `MCClient`, `ClientProofs` | | as for the server |

**The stream between them**

| Module | Models | State and actions |
|---|---|---|
| `Wire` | `session.cpp` (`send`, `do_read`), `client_connection.cpp` (`send`, `do_read`), and Boost.Asio and the kernel as far as these rely on them | one direction, chosen in the initial state (`writer`). A line is a sequence of *cells*, runs of bytes that stay together, the last of which ends in the separator. `SessionSend`, `Writable`, `WriteGoesOn`, `WriteHandled`: an `async_write` tries at once, waits in the reactor's queue (`queued`), and goes on from a completion in the `io_context`'s queue (`posted`). `ConnectionSend`, `ThreadWrites`: the threads of a client, one turn of the loop in `boost::asio::write` a step. `ReadSome`, `ReadError`: the reader, the same code on both sides |
| `WireProperties`, `MCWire` | | as for the server; the refinement mapping to `LineStream`: *put* are the lines written to the end, *queue* the lines that the reader will cut out of `message_buffer_` and what is under way, *received* those it has handled |
| `Recursion` | | induction over numbers and sequences, and functions defined by recursion along a sequence: lemmas only, about no part of the system |
| `WireLemmas` | | what `Cut`, `Joined` and `Parts` do to sequences of any length (extends `WireProperties` and `Recursion`) |
| `WireProofs` | | theorems and proofs (extends `WireLemmas`) |

`LineStream` stands alone. It is the abstract specification of one direction of a
connection: a queue of whole lines, until the stream is *torn*, by bytes from freed
memory or from the middle of another line; from then on nothing is promised.
`Session` and `ClientConnection` take a line for one unit, and so does every property about
them: they speak of streams that are not torn, and `ImplementsLineStream` says that for those
they are right.

**Typing notices**

| Module | Models | State and actions |
|---|---|---|
| `Typing` | the parts of `client_ui.cpp` that write, show and clear the status "typing" | a sender (chat thread, the timer of the line, a detached timer of an earlier one), the notices on their way, and a receiver (io thread, cleanup thread). Each read or write of a shared field that something can come after is a step: the flags are tested before the wait for a key (`TestFlags`) and before the sleep of a timer (`TimerEnds`), so that a key or a reset may follow when they are cleared |
| `TypingProperties`, `MCTyping`, `TypingProofs` | | as for the server |

### How steps were chosen

*Server.* One thread calls `io_context.run()`, so a handler is not interrupted by
another: a handler is one action, with everything that it calls. What can come between
two handlers (a peer's write, a lost connection, the end of the process) is an action.
The process can end at any point, so two more actions cut a handler off at the points
where the table and the streams differ: after the INSERT and before the write, and
after some of the writes of a replay and before the DELETE. A read handler takes all
complete lines out of its buffer in one go; the model handles one line per step, which
allows every order that batches allow, and more.

*Client.* Every read and write of a field that two threads share is a step of its own
where the program does something between them: the check of the state and the action
that relies on it (`SubmitLine` and `WriteMessage`), the send and the storing of the name, setting `is_typing` and
writing the notice, clearing the status and clearing its user. Several of these fields are neither atomic nor locked; the model
gives such races the outcomes of interleaved single reads and writes.

### Abstractions

- Texts, timestamps and error messages are left out. Names, e-mail addresses, passwords
  and hashes are members of small sets; `HashOf` may map two passwords to one hash, as
  `std::hash` may.
- A request is chosen when it is handled: the peer may have sent any line.
- In `Session` and `ClientConnection` lines arrive whole and in order; `Wire` has the
  bytes (above). What a reader finds in freed memory is, cell by cell, what was there,
  other bytes without a separator, or other bytes with one.
- `sent_at` is not stored: a replay is in the order of the ids (within one second it is
  SQLite's, by row), and in any order with the fault `"clock"`.
- Time is an order of events: "a second has passed since the last key" and "three seconds
  since the last notice" become true at some point after the key or the notice.
- In `Typing` the sender stays in its chat until `ChatEnds`, and the receiver shows the
  chat with this sender; `sendTypingStatus`'s check of the state and the receiver's of the
  partner's name then always succeed. One detached timer stands for all: it may do
  at any time whatever any of them may do.
- The server's model of a typing notice is a line (kept where `Observed` says so).
- Of the display only the typing status is modelled.

### Conventions

A definition named `...Slip` is a definition with a plausible mistake in it. It stands
before the one it is a variant of, no specification uses it, and `PROJECT.json` names it as the mutant that a
property catches.

`Faults` (server) and `Failures` (client) are the sets of things that may go wrong in
an instance; a property that depends on something not going wrong is checked, and
proved, for the sets without it:

| In `Faults` | Meaning |
|---|---|
| `"insert"` / `"select"` | the INSERT of a user / a SELECT on users fails |
| `"store"` / `"scan"` / `"delete"` | the INSERT of a message fails / the SELECT of stored messages ends early / the DELETE after a replay fails |
| `"clock"` | the wall clock is set back between two INSERTs of messages |
| `"stop"` / `"midstop"` | the process ends between handlers / inside one; it is started again |
| **In `Failures`** | |
| `"connect"` / `"link"` / `"send"` / `"garbled"` | no connection / it is lost / a write throws / a line does not parse |

## 3. Model checking

Server runs check for deadlock, which cannot occur while the process may be restarted
or connections may be made. The other runs do not: a client ends, a stream is
written and read to its end, a chat is left.

### Runs that pass

| Run | Config | Checks | Instance |
|---|---|---|---|
| `delivery` | `MCDelivery` | `NothingWaitsForOnlineUser`, `StoredMessagesAccounted`, `HandedAtMostOnce`, `HandedInOrder`, `StreamInOrder`, `StreamsReachAddressees`, `ImplementsMailbox` | 2 users, 2 sessions, 2 messages; restarts, failing INSERTs and SELECTs on users |
| `crash` | `MCCrash` | `OfflineAtLeastOnce`, `LostSessionsClose` | 3 users, 1 session with up to 2 queued requests, 2 messages; the process ends anywhere, failing DELETEs, the clock set back; fair |
| `registry` | `MCRegistry` | `TypeOK`, `RegistryAgrees`, `TypingFollowsMessages`, `RowsReferToUsers` | an empty table, 2 users, 3 names (one with a NUL), 2 sessions, 1 message; restarts, failing statements on users |
| `client` | `MCClient` | `ClientTypeOK`, `MessagesAfterLogin`, `OneReader`, `NamedAsLoggedIn`, `PartnerShown`, `LoginLeadsToMenu`, `LossNoticed`, `LeavingEnds` | answers at any time, every failure, 2 names, 3 requests; fair |
| `wire` | `MCWire` | `WireTypeOK`, `OwnBytesInOrder`, `ImplementsLineStream`, `LinesArrive`, `WritesEnd` | either direction, 3 lines of 2, 3 and 2 cells; transfers of up to 2, room for 3, chunks of up to 3 cells; loss; fair |
| `typing` | `MCTypingNotices` | `TypingTypeOK`, `NoStatusBetweenLines`, `StatusGoesAway` | any number of keys and lines, 2 notices on their way; loss; fair |

What they show beyond the statement of each property:

- `delivery`: what is written to a stream and what is deleted from the table fit
  together through reconnects, several logins on one session, two sessions of one
  user, and restarts. Two sessions are needed for a sender and an addressee who are both
  online and for a user with an old and a new connection; two messages are the fewest
  that can be out of order, and they can be a stored and a live one, two of a replay, or
  two for different users in one stream.
- `crash`: the end of the process inside a handler, a failing DELETE, and a replay in
  another order cost no stored message; they may duplicate one, so `HandedAtMostOnce` is not
  claimed there. With three users, one of them can have messages waiting while another's
  are replayed and deleted (with two, whoever posts is online, and nothing waits for that
  user). A lost session with queued requests first handles them (and may be registered
  anew by them), and is then closed.
- `registry`: two sessions replace each other, log in as each other's users and close in
  any order. The foreign keys that SQLite does not enforce hold nevertheless.
- `client`: what holds of the wire, the types, the connection and the end of the program
  holds for answers at any time. Four properties say `\/ late`: they hold as long as no
  answer was still under way when the two seconds of a login were over, and
  `late_partner` below shows one of them without it.
- `wire`: neither transfers that are cut short nor chunks that end anywhere change the
  lines, as long as the sockets take every line of the server at once. `LinesArrive`
  catches a reader that leaves a complete line in its buffer, `WritesEnd` a write that waits for ever
  (also of a torn stream). What is torn in the direction from a client is only the lines' borders:
  `OwnBytesInOrder` holds of mixed lines, too.
- `typing`: the model has the two races, and names them in history variables. `outrun`
  is set when a timer clears `is_typing` between a key and its notice, and reset by a notice that takes
  back every earlier one; `raced` is set when the io thread and the cleanup thread are
  between two steps at once, and reset by the next notice that finds the cleanup thread
  asleep. So the properties say both that nothing else goes wrong, and for how long
  these two do.

### Bounds

`MaxUsers`, `MaxMessages`: rows that may be inserted. `MaxIn`: requests on their way
to one session; one is enough for safety, since a request's content is chosen when it
is handled, and two for liveness (a handler runs while another request is queued).
`MaxOut`: a peer writes only while no stream is longer; the stream itself may be
longer, by what one handler writes. `Observed`: kinds of lines kept in `out`; the others
are taken as read at once, which is a behaviour the peer may show. `Sessions` are
reused after they are destroyed, so there is no bound on the connections made one after the
other. `MaxRequests`: requests that a client sends; three are two logins and a message,
which is where the interesting races happen. `Sizes`, `MaxTransfer`, `Room`, `MaxRead`:
a line of three cells needs two transfers of two, room for three is less than two
lines, and a chunk of three cells can hold two separators; three lines are the fewest of which one can wait
behind two. `MaxNotices`: with two, a notice can overtake none but follow one that is
being handled; a writer that finds no room waits, as with a full socket. Session symmetry is used in the server's
safety runs, and not in the runs with liveness.

### Fairness

Server (`FairSpec`): weak fairness of handling a request, of the read handler with an
error and of the destruction of a session. `io_context.run()` takes handlers from a
queue in order, and the kernel completes a pending read when the connection is
gone. Nothing is assumed of peers, of the network, of logins or of write errors.

Client (`FairClientSpec`): weak fairness of each of the four threads, which the
scheduler of the operating system gives. The steps of the user are not fair, nor those
of the server and the timers: `LoginLeadsToMenu` starts when the server *has*
accepted the login, and `LeavingEnds` when the user *has* chosen to leave. The second
needs that the chat thread polls the keyboard and sees the cleared flag; it does not
need the user to press a key.

Stream (`FairWireSpec`): weak fairness of the writer (the event loop of the server, the
threads of a client) and of the reader's event loop. No line has to be begun and the
connection may be lost at any time.

Typing (`FairTypingSpec`): weak fairness of each thread, and of the passing of time. The
users may stop pressing keys, and need not enter or leave a chat. `StatusGoesAway` starts
when no notice comes any more.

### Findings

Each is a run that must end in a violation of the one property it checks.

| Run | Property | What the code does |
|---|---|---|
| `closing_own` | `ClosingRemovesOwnSession` | `close()` removes whatever session its user has, also a newer one: after a reconnect the user is offline for the registry |
| `deleted_delivered` | `DeletedMessagesWereDelivered` | stored messages are deleted once `send` was called, also on a lost connection |
| `exit_chat` | `ExitLeavesChat` | `/exit` makes the chat thread join itself: the client is terminated |
| `late_partner` | `HeaderNamesPartner` | a late login answer brings the menu up during a chat; what is typed under the old header goes to another user |
| `torn_lines` | `LinesArriveWhole` | a write that the socket takes in part goes on from the freed `serialized`, or behind the beginning of another line: the peer handles lines that nobody sent |
| `stuck_status` | `OldStatusCleared` | the cleanup thread clears the status, the io thread stores a new one with its user, the cleanup thread clears the user: a status without a user is left, which line 545 never clears |

`StoredMessagesAccounted` says "passed to a session" and not "received" because of
`deleted_delivered`; the delivery properties are about what the server hands over,
which is as far as its responsibility goes without acknowledgements.

More behaviours that the models have, and that no run states:

- a second login on a session overwrites `user_id_`, and `close()` then removes only that
  user: the first stays registered with a closed session, and messages for that user are
  stored as delivered (`RegistryAgrees` says that a registered session is not destroyed, not that it is
  open);
- the first key after a pause of a second sets `is_typing` before it sets `last_keypress`
  (`client_ui.cpp:348`, `354`): the timer may clear the flag and write "not typing" before the
  key's "typing" is written, and then nothing takes that back before the partner's cleanup
  thread does (`outrun`);
- "Завершаем таймер" (we end the timer, `client_ui.cpp:365`) is a `detach`: the timer runs
  on until the chat ends, one sleep of 100 ms longer, and refers to the locals of a call that has returned;
- a session that a newer login replaced still passes `isSessionAuthenticated`
  (`json_parser.cpp:157` asks for *some* session of the user), so it goes on posting;
- "Message sent" is answered for an unknown receiver and for a failed INSERT
  (`json_parser.cpp:123`), which is why `PostDropped` sends `MessageSent`;
- a second login entered before a late answer to the first overwrites
  `current_username_` (`client_state_machine.cpp:87`): `NamedAsLoggedIn` holds only with
  answers in time;
- after a read error the client stays in its menu or chat, since `handleConnectionLost`
  has no caller: `ConnectionFails` leaves `state` alone;
- the lines that a read handler has in its buffer are handled even after `disconnect()`
  (`client_connection.cpp:116`): `LinesRead` and `TakeLine` are steps of their own.

## 4. Proofs

`tlapm` proves every theorem of the seven proof modules from the assumptions on the
constants that the modules state (null values are not members of the sets they complete,
the initial table is well formed; a line has two cells or more, its text and the
separator, and the bounds of the sockets and buffers are positive), and from one
assumption on `Faults` where the table has one. Nothing is assumed of `Failures`. With
these theorems, every invariant that a run checks, its one action property and both
refinements are proved.

| Theorem | States | Assumes |
|---|---|---|
| `TypeCorrect` | `[]TypeOK` | |
| `RegistryConsistent` | `[]RegistryAgrees` | |
| `TypingRouted` | `[]TypingFollowsMessages` | |
| `ReferencesHold` | `[]RowsReferToUsers` | |
| `NothingLost` | `[]StoredMessagesAccounted` | `ScansComplete`: no `"scan"`, no `"midstop"` |
| `NothingOvertaken` | `[]HandedInOrder` | `ScansComplete` |
| `OnlineMailboxesEmpty` | `[]NothingWaitsForOnlineUser` | `ReplaysDelete`: no `"scan"`, no `"delete"` |
| `StoredAtLeastOnce` | `OfflineAtLeastOnce` | no `"scan"` |
| `HandedOnce` | `[]HandedAtMostOnce` | `RowsDeleted`: no `"delete"`, no `"midstop"` |
| `MailboxImplemented` | `ImplementsMailbox` | `RowsDeleted`, `ReplaysDelete` |
| `OnlyAddresseesReceive` | `[]StreamsReachAddressees` | |
| `StreamsKeepOrder` | `[]StreamInOrder` | `InOrder`: `ReplaysDelete`, no `"midstop"`, no `"clock"` |
| `ClientTypeCorrect` | `[]ClientTypeOK` | |
| `MessagesOnlyAfterLogin` | `[]MessagesAfterLogin` | |
| `OneReaderOfTheTerminal` | `[]OneReader` | |
| `StoredNameIsLoggedIn` | `[]NamedAsLoggedIn` | |
| `ShownPartnerIsTarget` | `[]PartnerShown` | |
| `CutChunks` | cutting a stream chunk by chunk finds the lines of the whole | |
| `WireTypeCorrect` | `[]WireTypeOK` | |
| `OwnBytesArriveInOrder` | `[]OwnBytesInOrder` | |
| `LineStreamImplemented` | `ImplementsLineStream` | |
| `TypingTypeCorrect` | `[]TypingTypeOK` | |
| `StatusEndsWithLine` | `[]NoStatusBetweenLines` | |

(`ClientInvariant`, `[]ClientInv`, joins the five of the client.)

The argument for the server, in the order of `ServerProofs` and `StreamProofs`:

1. **Types.** One lemma per operation, then one step per action (`TypeStep`).
2. **Cases.** `StepCases` reduces the many actions to what they do to sessions and
   users, so that later proofs need not open every action again.
3. **The registry.** `RegistryAgrees` is not inductive alone. That `getUser` finds a
   registered user under the registered name needs unique names (`UsernamesUnique`);
   that a registration refers to a live session needs that a request is only handled
   on one (`FreeSessionsIdle`); that a row's sender exists needs `LoggedInUsersExist`.
   `RegistryInv` is the conjunction with `TypeOK`, `RegistryAgrees` and `RowsReferToUsers`;
   `RegistryConsistent` and `ReferencesHold` project it, `TypingRouted` follows from it.
4. **Messages.** `MessageEffects` shows once that every step stores a message for an
   online user and hands it over (`StoresOnline`), stores one for an offline user
   (`StoresOffline`), replays a mailbox (`Replays`), stops in the middle of a post or of a
   replay (`StopsAfterStore`, `StopsAfterReplay`), or leaves the messages alone while
   sessions may leave the registry (`MessagesKept`). All later proofs have one step for
   each of these cases.
5. **Ids.** `IdsInv`: ids above `lastMessageId` are unused, ids up to it have an
   addressee, and a row's receiver is its addressee. It is what makes a new message
   the youngest and a replay a replay of its addressee's messages.
6. **Nothing lost, nothing overtaken.** `AccountInv` joins `StoredMessagesAccounted` and
   `HandedInOrder` with `OnlineUsersServed`: what is still in the table for an online user
   (after a failed DELETE) was handed over. Without it, a live message could
   overtake a waiting one.
7. **Online mailboxes are empty.** `MailboxInv`, with `ReplayEmpties`: a replay leaves nothing of
   its user's and all of the others' messages.
8. **At least once, exactly once.** `StoredAtLeastOnce` is an action property and needs
   the types only. `OnceInv` adds `WaitingNotHanded` (what waits was not handed over):
   live messages have a new id, replayed ones wait, so each is handed over for the
   first time.
9. **Refinement.** `MailStep` maps every case of `MessageEffects` to a step of `Mailbox`
   or to a stutter. The count that `handed` caps at 2 is the abstract count because
   of `OnceInv`.

10. **Streams.** `StreamSteps` reduces every step to what it does to one stream: it
   keeps it, reads its first line, drops it with the connection, writes plain lines, or
   writes messages between plain lines (`StreamExtended`). `AddressInv` adds that a
   stream with unread lines belongs to an open session on a live link
   (`StreamsOpen`): a session that is constructed anew starts with an empty stream, so
   that lines of the old connection are not taken for the new one's.
11. **Order in a stream.** `OrderInv` says in addition that what is in a stream was handed
   over (`StreamsHanded`) and that what waits is younger than what was handed over
   to the same user (`WaitingNewer`). So a replay goes behind what is in the
   stream already, and a live message is younger than both. A failed DELETE breaks
   it (a message would be replayed behind a younger one), as does the clock.

The argument for the client, in `ClientProofs`:

1. **Types**, in three parts, for the connection, the state machine and the interface; `StreamSteps`
   says what a step does to the requests and lines under way.
2. **Logins.** `LoginInv`: every trace of an accepted login (an answer that is written, read
   or being handled, the states from `LoggedIn` on, the chat thread about to write a
   message, the main thread about to enter the menu or a chat) implies that the server has
   accepted one. `MessagesAfterLogin` is not inductive without the answers under way, since
   the io thread sets the state from them and the main thread writes when it sees the state.
3. **Names.** `NameInv`, as long as no answer is late: outside a login, the stored name is the
   server's and no login or answer to one is under way; during one, every request and
   accepted answer under way is of a login with the name that is entered, which is stored
   before the main thread looks for the answer.
4. **Chats.** `ChatInv`: while a chat is open, the main thread is in the chat's loop or on
   the way out of it, so that it reads no menu and changes no partner.

The argument for the streams, in `Recursion`, `WireLemmas` and `WireProofs`:

1. **Induction.** `Cut` (the loop of the read handlers), `Joined` and `Parts` are recursive
   along a sequence. The library's induction theorems take a predicate as a parameter, which
   the provers cannot instantiate; `Recursion` states induction about *sets* instead (a set of
   sequences that has the empty one and is closed under `Append` has all of them), and a
   recursion as the fold of a step that is a function.
2. **Chunks.** `CutChunks`: what is cut out of `p \o q` is what is cut out of `p`, and then out
   of the rest of `p` together with `q`. `CutFurther`: if the rest of a stream is the start of a
   line, the next cells of this line complete it or prolong the rest.
3. **Types**, one lemma per action. That no separator stays in `message_buffer_` is part of
   them.
4. **Own bytes.** `OwnInv` adds `AllWritten`: as long as the connection is up, what has been
   handled, what is in the buffer and what is on its way hold together, of each line, exactly
   the cells that were written. `PartsCut` (cutting loses no cell of a line and moves none)
   and `PartsConcat` carry it through a read, `PartsLine` through a write; a loss takes
   cells from the end only.
5. **Refinement.** `StreamInv`, while the stream is not torn: at most one line is unfinished
   (`OneUnfinished`), every text that was handled or is coming is a whole line
   (`AllWhole`), and with the connection up the rest that the reader will be left with is the
   written start of the unfinished line (`RestIsStart`). `FailedAfterLoss`, that a
   write is posted as failed only when the connection is lost, is needed for a session that
   is closed by a write: without it closing would be a loss that the abstract stream does
   not see. Then a transfer is a `Put` when it writes the last cell, a `Tear` when it
   tears the stream and a stutter otherwise; a read is a `Take` of the lines that its chunk
   completes, a loss a `Lose` of the lines behind those that arrived, and every other step
   a stutter (`StreamNextStep`).

The argument for the typing notices, in `TypingProofs`: `NoStatusBetweenLines` speaks of the
screen when everything is at rest; the invariant follows a status back to its key. A notice
"typing" that is the youngest on its way, or a status that the youngest left on the screen,
will be taken back, because the timer or a detached one is about to write, or `is_typing`
is still set and the chat thread is inside the line (`TakenBack`, in `NoticesTakenBack` and
`StatusTakenBack`). A key that has not written its notice has left `is_typing` set, unless it
was outrun (`KeyNotOutrun`). That the receiver's status is what the youngest notice left
needs its two threads to agree on status and user between their steps, unless they met
(`ThreadsInStep`).

Each invariant was checked with TLC before it was proved. Only model-checked are the
liveness properties (`LostSessionsClose`, `LoginLeadsToMenu`, `LossNoticed`, `LeavingEnds`,
`LinesArrive`, `WritesEnd`, `StatusGoesAway`): fairness and `ENABLED` are out of TLAPS's reach
here. The claims that do not hold are refuted by their runs.

## 5. What is not modelled

- `getMessages` (`database.cpp`), `routeFileTransfer` (`router.cpp`) and
  `handleConnectionLost`: no caller.
- `local_history_store.cpp`: every method is a stub, and nothing constructs it.
- `message_formatter.cpp`, prompts and the display but for the typing status: texts
  without state. What the terminal does with keys while two threads read it
  (`client_ui.cpp:317`) is the kernel's; `OneReader` says when it does not come to that.
- The Windows variant of `handleChatInput` and `getPassword` (`client_ui.cpp:280-311`): it has the
  same steps.
- `simple_test_client.cpp`, `debug_test.cpp`: scripts that print what a server answers.

## 6. Plan

Order of work so far: the server's operations, its properties, the mailboxes and the
proofs; the client with its threads; the bytes of the streams and the typing notices;
the proofs about the server's streams and about the client; those about the bytes of the
streams and the typing notices. Left: a composition of
several clients with the server, in which the server stub of `ClientConnection` is
replaced by `MessengerServer`, for what a user sees end to end.
