----------------------------- MODULE BoundedFifo -----------------------------
(***************************************************************************)
(* What a bounded packet queue promises: packets come out in the order     *)
(* they went in, each one once, and at most Capacity of them wait.         *)
(***************************************************************************)
EXTENDS Integers, Sequences

CONSTANTS Packet,     \* what is queued
          Capacity    \* how many may wait

VARIABLES waiting,    \* the packets in the queue, oldest first
          taken       \* what the last successful take returned

Init == waiting = << >>

Put(p) == /\ Len(waiting) < Capacity
          /\ waiting' = Append(waiting, p)
          /\ UNCHANGED taken

Take == /\ waiting # << >>
        /\ taken' = Head(waiting)
        /\ waiting' = Tail(waiting)

Next == Take \/ \E p \in Packet : Put(p)

Spec == Init /\ [][Next]_<<waiting, taken>>
=============================================================================
