----------------------------- MODULE DnsResolver -----------------------------
(***************************************************************************)
(* The only consumer of the UDP queue once the host has an address:        *)
(* net_dns_resolve_a (kernel/transport.c), which draws a new port for      *)
(* each lookup, waits up to five seconds and never polls that port again.  *)
(* Datagrams come from anywhere: answers, late answers to a lookup that    *)
(* gave up, and broadcasts to ports nobody polls.                          *)
(***************************************************************************)
EXTENDS UdpQueue, FiniteSets

CONSTANTS LookupCount,  \* bound on the lookups: the port has not wrapped yet
          Genuine,      \* datagrams that carry the answer of their port's lookup
          RingSize      \* NET_IPV4_QUEUE_SIZE: packets one service can handle

ASSUME BoundAssumption == LookupCount \in Nat /\ RingSize \in Nat

VARIABLES pc,           \* "idle", or inside net_dns_resolve_a
          nextPort,     \* next_ephemeral_port; the running lookup has the one before
          served,       \* packets handled by the running service
          resolved      \* datagram the last lookup took its answer from

threadVars == <<pc, nextPort, served, resolved>>
vars == <<queueVars, threadVars>>

Port == 1 .. LookupCount
LocalPort == nextPort - 1

TypeOK == /\ QueueTypeOK
          /\ Cardinality({i \in Index : valid[i]}) <= count
          /\ pc \in {"idle", "wait", "poll"}
          /\ nextPort \in 1 .. LookupCount + 1
          /\ served \in 0 .. RingSize
          /\ resolved \in Genuine \cup {NoDatagram}

Init == /\ QueueInit
        /\ pc = "idle"
        /\ nextPort = 1
        /\ served = 0
        /\ resolved = NoDatagram
-----------------------------------------------------------------------------
(* The query goes out, or the lookup fails at once. *)
net_dns_resolve_a ==
    /\ pc = "idle" /\ nextPort \in Port
    /\ nextPort' = nextPort + 1
    /\ pc' \in {"idle", "wait"}
    /\ served' = 0
    /\ resolved' = NoDatagram
    /\ UNCHANGED queueVars

(* A datagram that is not in the queue comes in; nobody answers a lookup   *)
(* that has not been made.                                                 *)
Comes(d) == /\ d \notin Stored
            /\ Address(d) < nextPort
            /\ transport_handle_udp_packet(d)

IdleService == /\ pc = "idle"
               /\ \/ \E d \in Datagram : Comes(d)
                  \/ UNCHANGED queueVars
               /\ UNCHANGED threadVars

WaitServes == /\ pc = "wait" /\ served < RingSize
              /\ \E d \in Datagram : Comes(d)
              /\ served' = served + 1
              /\ UNCHANGED <<pc, nextPort, resolved>>

WaitPolls == /\ pc = "wait"
             /\ pc' = "poll"
             /\ served' = 0
             /\ UNCHANGED <<queueVars, nextPort, resolved>>

(* A datagram that does not carry the answer is dropped. *)
PollTakes == /\ pc = "poll"
             /\ net_udp_poll(LocalPort)
             /\ IF taken'.got \in Genuine THEN pc' = "idle" /\ resolved' = taken'.got
                ELSE UNCHANGED <<pc, resolved>>
             /\ UNCHANGED <<nextPort, served>>

(* Nothing for the port: wait on, or give up after five seconds. *)
PollMisses == /\ pc = "poll"
              /\ Found(LocalPort) = {}
              /\ pc' \in {"wait", "idle"}
              /\ UNCHANGED <<queueVars, nextPort, served, resolved>>

Next == net_dns_resolve_a \/ IdleService \/ WaitServes \/ WaitPolls
          \/ PollTakes \/ PollMisses

Spec == Init /\ [][Next]_vars
-----------------------------------------------------------------------------
Box == INSTANCE Mailbox WITH boxed <- Stored, taken <- taken

(* Even with its holes and overwrites the ring hands out no datagram       *)
(* twice and none that was not received; whoever polls a port gets one     *)
(* addressed to that port; at most one is displaced at a time              *)
(* (transport.c:625-635, 761-772). The mailbox knows the address of each   *)
(* datagram, the ring the port that was polled.                            *)
QueueIsMailbox == Box!Spec

(* The ports somebody may still poll. *)
Live == {p \in Port : p >= nextPort} \cup (IF pc = "idle" THEN {} ELSE {LocalPort})

Deaf == QueueFull /\ \A i \in Index : valid[i] => Address(packet[i]) \notin Live

(* Nothing but a poll makes room: once the counted datagrams are all for   *)
(* ports nobody will poll again - broadcasts, late answers, or ones that   *)
(* have been overwritten and are still counted - the queue accepts nothing *)
(* any more, and every later lookup fails (transport.c:610, 759-776).      *)
DeafForever == [][Deaf => Deaf']_vars
=============================================================================
