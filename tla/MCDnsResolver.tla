---------------------------- MODULE MCDnsResolver ----------------------------
(* Three lookups over a ring of four: an answer each, a late or false      *)
(* one for the first, and two broadcasts, so that holes form, the tail     *)
(* catches up with the head and the ring fills with what nobody polls.     *)
EXTENDS DnsResolver

CONSTANTS a1, a2, a3, late, b1, b2

MCDatagram == {a1, a2, a3, late, b1, b2}
MCGenuine == {a1, a2, a3}
MCDestinationPort ==
    [d \in MCDatagram |-> CASE d \in {a1, late} -> 1 [] d = a2 -> 2 [] d = a3 -> 3
                            [] d \in {b1, b2} -> 0]
=============================================================================
