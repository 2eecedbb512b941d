---------------------------- MODULE ReliableStream ----------------------------
(***************************************************************************)
(* What one direction of a TCP connection promises its reader: it reads a  *)
(* prefix of what was written, in order and without repetition, and is     *)
(* told of the end only when it has read everything and no more will come. *)
(***************************************************************************)
EXTENDS Integers, Sequences

CONSTANT Unit

VARIABLES written,   \* what the writer has put into the stream
          closed,    \* the writer has finished
          read,      \* what the reader has been given
          ended      \* the reader has been told of the end

vars == <<written, closed, read, ended>>

Init == /\ written = << >>
        /\ closed = FALSE
        /\ read = << >>
        /\ ended = FALSE

Write == /\ ~closed
         /\ \E u \in Unit : written' = Append(written, u)
         /\ UNCHANGED <<closed, read, ended>>

Close == /\ ~closed
         /\ closed' = TRUE
         /\ UNCHANGED <<written, read, ended>>

Read == /\ \E n \in Len(read) + 1 .. Len(written) : read' = SubSeq(written, 1, n)
        /\ ~ended
        /\ UNCHANGED <<written, closed, ended>>

End == /\ closed
       /\ read = written
       /\ ended' = TRUE
       /\ UNCHANGED <<written, closed, read>>

Next == Write \/ Close \/ Read \/ End

Spec == Init /\ [][Next]_vars
=============================================================================
