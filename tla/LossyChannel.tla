---------------------------- MODULE LossyChannel ----------------------------
(***************************************************************************)
(* What the receive path promises its caller: packets may be lost, but     *)
(* only when more than Capacity of them wait, and only behind the first    *)
(* Capacity; what is taken is in order of arrival and never repeated.      *)
(***************************************************************************)
EXTENDS Integers, Sequences, SequencesExt

CONSTANTS Packet, Capacity

VARIABLES waiting, taken

Init == waiting = << >>

(* A packet is an individual: the one waiting does not arrive again. *)
Arrive(p) == /\ ~Contains(waiting, p)
             /\ waiting' = Append(waiting, p)
             /\ UNCHANGED taken

Lose == \E i \in Capacity + 1 .. Len(waiting) :
            /\ waiting' = RemoveAt(waiting, i)
            /\ UNCHANGED taken

Take == /\ waiting # << >>
        /\ taken' = Head(waiting)
        /\ waiting' = Tail(waiting)

Next == Take \/ Lose \/ \E p \in Packet : Arrive(p)

Spec == Init /\ [][Next]_<<waiting, taken>>
=============================================================================
