----------------------------- MODULE LineStream -----------------------------
(***************************************************************************)
(* What one direction of a connection promises: a queue of whole lines,     *)
(* each received once and in the order of the queue, until the connection   *)
(* is lost, and only until the stream is torn: from then on it promises     *)
(* nothing, and its variables hold nothing.                                 *)
(***************************************************************************)
EXTENDS Integers, Sequences

CONSTANT Lines

VARIABLES
    put,        \* the lines that the writer has finished
    queue,      \* the lines on their way
    received,   \* the lines that the reader has handled
    up, torn

streamVars == <<put, queue, received, up, torn>>

StreamInit ==
    /\ put = {} /\ queue = << >> /\ received = << >>
    /\ up = TRUE /\ torn = FALSE

Put(n) ==
    /\ ~torn /\ n \notin put
    /\ put' = put \cup {n}
    /\ queue' = IF up THEN Append(queue, n) ELSE queue
    /\ UNCHANGED <<received, up, torn>>

Take(k) ==
    /\ ~torn
    /\ received' = received \o SubSeq(queue, 1, k)
    /\ queue' = SubSeq(queue, k + 1, Len(queue))
    /\ UNCHANGED <<put, up, torn>>

\* The connection is lost, and with it what is behind the first k lines.
Lose(k) ==
    /\ ~torn /\ up
    /\ up' = FALSE
    /\ queue' = SubSeq(queue, 1, k)
    /\ UNCHANGED <<put, received, torn>>

Tear ==
    /\ ~torn /\ torn' = TRUE
    /\ put' = {} /\ queue' = << >> /\ received' = << >>
    /\ UNCHANGED up

LoseTorn ==
    /\ torn /\ up /\ up' = FALSE
    /\ UNCHANGED <<put, queue, received, torn>>

StreamNext ==
    \/ \E n \in Lines : Put(n)
    \/ \E k \in 0..Len(queue) : Take(k) \/ Lose(k)
    \/ Tear \/ LoseTorn

StreamSpec == StreamInit /\ [][StreamNext]_streamVars
=============================================================================
