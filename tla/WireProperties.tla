--------------------------- MODULE WireProperties ---------------------------
(***************************************************************************)
(* What the reader of a stream can rely on, and the refinement of           *)
(* LineStream: Session and ClientConnection, which take a line for one unit,*)
(* are right about a stream as long as it is not torn.                     *)
(***************************************************************************)
EXTENDS Wire

Cells == {Junk(0), Junk(1)} \cup UNION {{LineCells(n)[k] : k \in 1..Sizes[n]} : n \in Lines}

\* Every variable has its type; a session writes a line only after its call of
\* send(), and the reader's buffer holds no separator between two handlers.
WireTypeOK ==
    /\ writer \in Writers
    /\ begun \in 0..Len(Sizes) /\ ended \subseteq 1..begun
    /\ written \in [Lines -> Nat]
    /\ \A n \in Lines : written[n] <= Sizes[n] /\ (n > begun => written[n] = 0)
    /\ queued \in Seq(1..begun)
    /\ posted \in Seq([line : 1..begun, ok : BOOLEAN])
    /\ {speculative, reading, torn} \subseteq BOOLEAN
    /\ link \in {"up", "lost", "closed"}
    /\ transit \in Seq(Cells) /\ Len(transit) <= Room
    /\ buffer \in Seq({c \in Cells : c.part # 0})
    /\ handled \in Seq(Seq({c \in Cells : c.part # 0}))

-----------------------------------------------------------------------------
\* What the reader gets of line n if nothing happens to it.
Text(n) == SubSeq(LineCells(n), 1, Sizes[n] - 1)
IsWhole(text) == \E n \in Lines : text = Text(n)

LineOf(text) == IF IsWhole(text) THEN text[1].line ELSE 0
LinesOf(texts) == [i \in DOMAIN texts |-> LineOf(texts[i])]

\* The complete lines that the reader has yet to find.
Coming == Cut(buffer \o transit).lines

Finished == IF torn THEN {} ELSE {n \in Lines : written[n] = Sizes[n]}
OnTheWay == IF torn THEN << >> ELSE LinesOf(Coming)
Received == IF torn THEN << >> ELSE LinesOf(handled)

\* A stream that is not torn has lost nothing but a tail.
Stream == INSTANCE LineStream WITH put <- Finished, queue <- OnTheWay, received <- Received,
                                   up <- (link = "up")

\* However the transfers are cut by the sockets and the chunks by the reader,
\* whole lines arrive, once each and in the order in which they were written,
\* unless a line was written from freed memory or into another line
\* (session.cpp:72-81, client_connection.cpp:114-125).
ImplementsLineStream == Stream!StreamSpec

Joined(texts) ==
    LET joined[k \in 0..Len(texts)] == IF k = 0 THEN << >> ELSE joined[k - 1] \o texts[k]
    IN  joined[Len(texts)]

AddPart(n, parts, cell) ==
    IF cell.line = n /\ cell.part # 0 THEN Append(parts, cell) ELSE parts

\* The cells of line n in a sequence of cells, without its separator.
Parts(n, cells) ==
    LET parts[k \in 0..Len(cells)] ==
            IF k = 0 THEN << >> ELSE AddPart(n, parts[k - 1], cells[k])
    IN  parts[Len(cells)]

\* The parts of line n that were written, in the order of the stream.
Arrived(n) == Parts(n, Joined(handled) \o buffer \o transit)

\* Threads that write at once may mix their lines, but each one's own bytes
\* arrive in order, none twice and none left out (client_connection.cpp:67).
OwnBytesInOrder ==
    \A n \in Lines :
        writer = "client" => Arrived(n) = SubSeq(Text(n), 1, Len(Arrived(n)))

-----------------------------------------------------------------------------
\* A line that was begun reaches the reader, unless the connection is lost or
\* the stream is torn: no complete line stays in message_buffer_, and no write
\* waits for ever (session.cpp:74, client_connection.cpp:116).
LinesArrive ==
    \A n \in Lines :
        n <= begun ~> (\E i \in DOMAIN handled : handled[i] = Text(n)) \/ link # "up" \/ torn

\* Every write comes to an end, whatever happens to the stream.
WritesEnd == \A n \in Lines : n <= begun ~> n \in ended

-----------------------------------------------------------------------------
(* A claim of the code that does not hold.                                  *)

\* Session::send writes the line that it was given and a separator
\* (session.cpp:21): what the reader handles was sent.
LinesArriveWhole == \A i \in DOMAIN handled : IsWhole(handled[i])
=============================================================================
