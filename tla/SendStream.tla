------------------------------ MODULE SendStream ------------------------------
(***************************************************************************)
(* What the send side of a stream promises, without the buffer and the     *)
(* tables behind it.  A byte is named by its position in the stream.       *)
(*                                                                         *)
(*  - To the writer: at most Limit bytes are held back for it, and what    *)
(*    the transport has no more use for is released at once.               *)
(*  - To the transport: every byte that it may have to send again is kept  *)
(*    until it is acknowledged.                                            *)
(*  - To the peer: the bytes come in the order in which they were written, *)
(*    the FIN comes after the last one, and nothing comes after the FIN or *)
(*    after the end of the stream.                                         *)
(***************************************************************************)
EXTENDS Integers

CONSTANT Limit

VARIABLES
    written,   \* bytes taken from the writer
    sent,      \* of these, the bytes the transport has been given
    released,  \* of these, the bytes the stream no longer keeps
    pending,   \* the bytes that the transport may have to send again
    exact,     \* no acknowledgement was forgotten
    status     \* "open"; "final": no byte will be added; "finished": the FIN
               \* has been sent; "over": reset or closed

vars == <<written, sent, released, pending, exact, status>>

Init == /\ written = 0 /\ sent = 0 /\ released = 0
        /\ pending = {} /\ exact = TRUE /\ status = "open"

\* Bytes are taken from the writer; they may be the last ones.
Accept == /\ status = "open"
          /\ written' >= written /\ written' - released <= Limit
          /\ status' \in {"open", "final"}
          /\ UNCHANGED <<sent, released, pending, exact>>

\* The next bytes are given to the transport.
Send == /\ status \in {"open", "final"}
        /\ sent' \in sent .. written
        /\ pending' = pending \cup (sent .. sent' - 1)
        /\ UNCHANGED <<written, released, exact, status>>

\* The FIN follows the last byte.
Finish == /\ status = "final" /\ sent = written
          /\ status' = "finished"
          /\ UNCHANGED <<written, sent, released, pending, exact>>

\* Some of the bytes are acknowledged.  What was sent is released when nothing of it is
\* pending any more, and then at once unless acknowledgements were forgotten.
Acknowledge == /\ status # "over"
               /\ pending' \subseteq pending /\ pending' # pending
               /\ exact' \in {exact, FALSE}
               /\ \/ pending' = {} /\ released' = sent
                  \/ (exact' => pending' # {}) /\ released' = released
               /\ UNCHANGED <<written, sent, status>>

\* The stream is reset or closed: nothing is sent any more.
End == /\ status # "over" /\ status' = "over"
       /\ released' = sent /\ pending' = {}
       /\ UNCHANGED <<written, sent, exact>>

Next == Accept \/ Send \/ Finish \/ Acknowledge \/ End

Spec == Init /\ [][Next]_vars
=============================================================================
