-------------------------------- MODULE Wire --------------------------------
(***************************************************************************)
(* One direction of a connection, byte by byte: server/session.cpp (send,   *)
(* do_read) and client/client_connection.cpp (send, do_read).               *)
(*                                                                         *)
(* In the direction from the server, Session::send starts an async_write:   *)
(* Boost.Asio tries to write at once, and puts the operation into a queue   *)
(* if it cannot; an operation that has written a part goes on from the      *)
(* io_context's queue.  Its buffer is the local string `serialized`, which  *)
(* is gone as soon as send() returns.                                      *)
(*                                                                         *)
(* In the direction from a client, the main thread, the chat thread and the *)
(* timers each write their own line, synchronously and without a lock.      *)
(*                                                                         *)
(* A cell stands for a run of bytes that stay together; the last cell of a  *)
(* line, part 0, is the one that ends in the separator.                     *)
(***************************************************************************)
EXTENDS Integers, Sequences

CONSTANTS
    Sizes,         \* Sizes[n]: the cells of the nth line
    MaxTransfer,   \* cells of one write_some (64 KiB)
    Room,          \* cells that the buffers of the connection hold
    MaxRead,       \* cells of read_buffer_ (8 KiB)
    Writers        \* who writes: a subset of {"server", "client"}

ASSUME WireAssumption ==
    /\ Sizes \in Seq(Nat \ {0, 1})
    /\ {MaxTransfer, Room, MaxRead} \subseteq Nat \ {0}
    /\ Writers \subseteq {"server", "client"}

Lines == DOMAIN Sizes

VARIABLES
    writer,        \* who writes in this behaviour
    begun, ended,  \* lines whose write has begun (the first ones) and ended
    written,       \* cells of each line that were written
    queued,        \* lines that wait for room: the reactor's queue
    posted,        \* results of writes, in the queue of the io_context
    speculative,   \* the reactor tries a write at once
    link,          \* the connection: up, lost, or closed by the writer
    transit,       \* cells written and not read
    buffer,        \* message_buffer_
    handled,       \* the lines passed to handle_message
    reading,       \* the reader has a read pending
    torn           \* history: see Transfer

writeVars == <<begun, ended, written, queued, posted, speculative>>
readVars == <<buffer, handled, reading>>
wireVars == <<writer, writeVars, link, transit, readVars, torn>>

WireInit ==
    /\ writer \in Writers
    /\ begun = 0 /\ ended = {}
    /\ written = [n \in Lines |-> 0]
    /\ queued = << >> /\ posted = << >> /\ speculative = TRUE
    /\ link = "up"
    /\ transit = << >> /\ buffer = << >>
    /\ handled = << >>
    /\ reading = TRUE
    /\ torn = FALSE

-----------------------------------------------------------------------------
(* Cells.                                                                   *)

Least(a, b) == IF a < b THEN a ELSE b

LineCells(n) == [k \in 1..Sizes[n] |-> [line |-> n, part |-> IF k = Sizes[n] THEN 0 ELSE k]]

\* Other bytes than the line's, without and with a separator among them.
Junk(p) == [line |-> 0, part |-> p]

\* The next k cells of line n, as the buffer holds them: where it was freed,
\* each may have been overwritten.
Bytes(n, k, alive) ==
    LET cells == SubSeq(LineCells(n), written[n] + 1, written[n] + k) IN
    IF alive THEN {cells}
    ELSE {[i \in 1..k |-> IF hit[i] = 2 THEN cells[i] ELSE Junk(hit[i])] : hit \in [1..k -> 0..2]}

\* Slip: one line is cut out of the buffer for each read.
AddCellSlip(cut, cell) ==
    IF cell.part # 0 \/ cut.lines # << >>
    THEN [cut EXCEPT !.rest = Append(@, cell)]
    ELSE [lines |-> IF cut.rest = << >> THEN cut.lines ELSE Append(cut.lines, cut.rest),
          rest |-> << >>]

\* A separator completes a line; an empty one is left out.
AddCell(cut, cell) ==
    IF cell.part # 0
    THEN [cut EXCEPT !.rest = Append(@, cell)]
    ELSE [lines |-> IF cut.rest = << >> THEN cut.lines ELSE Append(cut.lines, cut.rest),
          rest |-> << >>]

\* The complete lines in a sequence of cells, and the rest.
Cut(cells) ==
    LET cut[k \in 0..Len(cells)] ==
            IF k = 0 THEN [lines |-> << >>, rest |-> << >>] ELSE AddCell(cut[k - 1], cells[k])
    IN  cut[Len(cells)]

-----------------------------------------------------------------------------
(* One write_some.                                                          *)

Offered(n) == Least(MaxTransfer, Sizes[n] - written[n])
Vacant == Room - Len(transit)
Unfinished == {n \in Lines : written[n] \in 1..(Sizes[n] - 1)}

\* Slip: a write that was cut short starts from the beginning.
TransferSlip(n, alive) ==
    LET k == IF link = "up" THEN Least(Offered(n), Vacant) ELSE Offered(n) IN
    /\ link \in {"up", "lost"} /\ k > 0
    /\ \E cells \in Bytes(n, k, alive) :
          transit' = IF link = "up" THEN transit \o cells ELSE transit
    /\ written' = [written EXCEPT ![n] = IF k = Offered(n) THEN @ + k ELSE 0]
    /\ speculative' = (k = Offered(n))
    /\ torn' = (torn \/ ~alive \/ Unfinished \ {n} # {})

\* The kernel takes what it has room for.  After the loss of the connection a
\* write may still succeed; its bytes are gone.  The stream is torn by bytes
\* from freed memory, and by bytes in the middle of another line.
Transfer(n, alive) ==
    LET k == IF link = "up" THEN Least(Offered(n), Vacant) ELSE Offered(n) IN
    /\ link \in {"up", "lost"} /\ k > 0
    /\ \E cells \in Bytes(n, k, alive) :
          transit' = IF link = "up" THEN transit \o cells ELSE transit
    /\ written' = [written EXCEPT ![n] = @ + k]
    /\ speculative' = (k = Offered(n))
    /\ torn' = (torn \/ ~alive \/ Unfinished \ {n} # {})

-----------------------------------------------------------------------------
(* The server: one thread, whose handlers call send() and go on with the    *)
(* writes that have a result.                                              *)

\* The reactor performs a write; its result is put behind the other results.
Perform(n, alive, results) ==
    /\ \/ Transfer(n, alive) /\ posted' = Append(results, [line |-> n, ok |-> TRUE])
       \/ /\ link # "up"
          /\ posted' = Append(results, [line |-> n, ok |-> FALSE])
          /\ UNCHANGED <<written, speculative, transit, torn>>
    /\ UNCHANGED link

\* Slip: without room the operation is dropped.
AsyncWriteSomeSlip(n, alive, results) ==
    IF link = "up" /\ (queued # << >> \/ ~speculative \/ Vacant = 0)
    THEN /\ posted' = results
         /\ UNCHANGED <<queued, written, speculative, link, transit, torn>>
    ELSE /\ Perform(n, alive, results)
         /\ UNCHANGED queued

\* async_write_some: performed at once, unless it has to wait.
AsyncWriteSome(n, alive, results) ==
    IF link = "up" /\ (queued # << >> \/ ~speculative \/ Vacant = 0)
    THEN /\ queued' = Append(queued, n)
         /\ posted' = results
         /\ UNCHANGED <<written, speculative, link, transit, torn>>
    ELSE /\ Perform(n, alive, results)
         /\ UNCHANGED queued

\* Session::send; `serialized` is alive only during this step.
SessionSend ==
    /\ writer = "server" /\ begun < Len(Sizes)
    /\ begun' = begun + 1
    /\ AsyncWriteSome(begun + 1, TRUE, posted)
    /\ UNCHANGED <<writer, ended, readVars>>

\* The socket can be written to again, or has failed.
Writable ==
    /\ queued # << >>
    /\ link # "up" \/ Vacant > 0
    /\ queued' = Tail(queued)
    /\ Perform(Head(queued), FALSE, posted)
    /\ UNCHANGED <<writer, begun, ended, readVars>>

Result == Head(posted)

\* An operation that has written a part writes the next.
WriteGoesOn ==
    /\ posted # << >> /\ Result.ok /\ written[Result.line] < Sizes[Result.line]
    /\ AsyncWriteSome(Result.line, FALSE, Tail(posted))
    /\ UNCHANGED <<writer, begun, ended, readVars>>

\* The handler that send() gave to async_write: an error closes the session.
WriteHandled ==
    /\ posted # << >>
    /\ Result.ok => written[Result.line] = Sizes[Result.line]
    /\ posted' = Tail(posted)
    /\ ended' = ended \cup {Result.line}
    /\ link' = IF Result.ok THEN link ELSE "closed"
    /\ UNCHANGED <<writer, begun, written, queued, speculative, transit, readVars, torn>>

-----------------------------------------------------------------------------
(* A client: every line has a thread that writes it to its end.             *)

ConnectionSend ==
    /\ writer = "client" /\ begun < Len(Sizes)
    /\ begun' = begun + 1
    /\ UNCHANGED <<writer, ended, written, queued, posted, speculative, link, transit, readVars,
                   torn>>

\* One turn of the loop in boost::asio::write; without room the thread waits.
ThreadWrites(n) ==
    /\ writer = "client" /\ n \in (1..begun) \ ended
    /\ \/ /\ Transfer(n, TRUE)
          /\ ended' = IF written'[n] = Sizes[n] THEN ended \cup {n} ELSE ended
       \/ /\ link # "up"
          /\ ended' = ended \cup {n}
          /\ UNCHANGED <<written, speculative, transit, torn>>
    /\ UNCHANGED <<writer, begun, queued, posted, link, readVars>>

-----------------------------------------------------------------------------
(* The reader, the same on both sides.                                      *)

\* Slip: a chunk replaces what is in the buffer.
ReadSomeSlip(k) ==
    /\ reading /\ k <= Len(transit)
    /\ transit' = SubSeq(transit, k + 1, Len(transit))
    /\ LET cut == Cut(SubSeq(transit, 1, k)) IN
       /\ handled' = handled \o cut.lines
       /\ buffer' = cut.rest
    /\ UNCHANGED <<writer, writeVars, link, reading, torn>>

\* The read handler: any part of what is on its way, up to the buffer's size.
ReadSome(k) ==
    /\ reading /\ k <= Len(transit)
    /\ transit' = SubSeq(transit, k + 1, Len(transit))
    /\ LET cut == Cut(buffer \o SubSeq(transit, 1, k)) IN
       /\ handled' = handled \o cut.lines
       /\ buffer' = cut.rest
    /\ UNCHANGED <<writer, writeVars, link, reading, torn>>

\* Nothing is read after an error; what is left in the buffer stays there.
ReadError ==
    /\ reading /\ link # "up" /\ transit = << >>
    /\ reading' = FALSE
    /\ UNCHANGED <<writer, writeVars, link, transit, buffer, handled, torn>>

\* The connection is lost, with or without what has arrived.
LinkLost ==
    /\ link = "up"
    /\ link' = "lost"
    /\ \E k \in 0..Len(transit) : transit' = SubSeq(transit, 1, k)
    /\ UNCHANGED <<writer, writeVars, readVars, torn>>

-----------------------------------------------------------------------------
Write ==
    \/ Writable \/ WriteGoesOn \/ WriteHandled
    \/ \E n \in Lines : ThreadWrites(n)

Read == ReadError \/ \E k \in 1..MaxRead : ReadSome(k)

WireNext == SessionSend \/ ConnectionSend \/ Write \/ Read \/ LinkLost

WireSpec == WireInit /\ [][WireNext]_wireVars

\* The event loop of each side, and the threads of a client, run on.
FairWireSpec == WireSpec /\ WF_wireVars(Write) /\ WF_wireVars(Read)
=============================================================================
