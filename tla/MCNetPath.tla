------------------------------ MODULE MCNetPath ------------------------------
(* Three packets, so that one can be lost while two fill the ring; one ARP *)
(* request, one frame that is ignored when received and also sent, one     *)
(* errored frame.                                                          *)
EXTENDS NetPath

CONSTANTS p1, p2, p3, a1, o1, b1

MCPacket == {p1, p2, p3}
MCFrame == {p1, p2, p3, a1, o1, b1}
MCKind == [f \in MCFrame |-> CASE f \in MCPacket -> "ipv4"
                               [] f = a1 -> "arp"
                               [] f = o1 -> "other"
                               [] f = b1 -> "bad"]
=============================================================================
