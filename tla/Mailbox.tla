------------------------------- MODULE Mailbox -------------------------------
(***************************************************************************)
(* What a shared queue of datagrams promises at least: a datagram taken is *)
(* one that was put, addressed to the port that takes it, and is taken     *)
(* once.  A put may be ignored, or may displace one datagram.              *)
(***************************************************************************)
CONSTANTS Datagram, DestinationPort

VARIABLES boxed,      \* the datagrams waiting
          taken       \* port of the last successful take, and what it got

Init == boxed = {}

Put(d) == /\ d \notin boxed
          /\ \/ boxed' = boxed \cup {d}
             \/ \E old \in boxed : boxed' = (boxed \ {old}) \cup {d}
          /\ UNCHANGED taken

Take(d) == /\ d \in boxed
           /\ boxed' = boxed \ {d}
           /\ taken' = [port |-> DestinationPort[d], got |-> d]

Next == \E d \in Datagram : Put(d) \/ Take(d)

Spec == Init /\ [][Next]_<<boxed, taken>>
=============================================================================
