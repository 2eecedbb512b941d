------------------------------ MODULE Ipv4Queue ------------------------------
(***************************************************************************)
(* The ring of received IPv4 packets between the network layer, which      *)
(* fills it from net_service, and the transport layer, which drains it     *)
(* from net_transport_service (kernel/net.c).                              *)
(***************************************************************************)
EXTENDS Integers, Sequences

CONSTANTS Packet,       \* packets, told apart only by identity
          NoPacket,     \* content of a slot never written
          QueueSize     \* NET_IPV4_QUEUE_SIZE

ASSUME QueueSizeAssumption == QueueSize \in Nat \ {0}
ASSUME NoPacketAssumption  == NoPacket \notin Packet

VARIABLES slot,         \* g_net.ipv4_queue
          head,         \* g_net.ipv4_queue_head
          tail,         \* g_net.ipv4_queue_tail
          count,        \* g_net.ipv4_queue_count
          polled        \* the packet net_poll_ipv4_packet copied out last

ringVars == <<slot, head, tail, count, polled>>

Index == 0 .. QueueSize - 1

RingTypeOK == /\ slot \in [Index -> Packet \cup {NoPacket}]
              /\ head \in Index
              /\ tail \in Index
              /\ count \in 0 .. QueueSize
              /\ polled \in Packet \cup {NoPacket}

RingInit == /\ slot = [i \in Index |-> NoPacket]
            /\ head = 0
            /\ tail = 0
            /\ count = 0
            /\ polled = NoPacket

-----------------------------------------------------------------------------
(* Plausible slips in the two operations, for the mutation checks. *)
RingFull_off_by_one == count > QueueSize

net_poll_ipv4_packet_newest ==
    /\ count # 0
    /\ polled' = slot[(tail + QueueSize - 1) % QueueSize]
    /\ head' = (head + 1) % QueueSize
    /\ count' = count - 1
    /\ UNCHANGED <<slot, tail>>
-----------------------------------------------------------------------------
RingFull == count >= QueueSize

(* A packet is stored at the tail; the caller drops it when RingFull. *)
net_queue_ipv4_packet(p) ==
    /\ ~RingFull
    /\ slot' = [slot EXCEPT ![tail] = p]
    /\ tail' = (tail + 1) % QueueSize
    /\ count' = count + 1
    /\ UNCHANGED <<head, polled>>

(* The slot at the head is copied out and not cleared. *)
net_poll_ipv4_packet ==
    /\ count # 0
    /\ polled' = slot[head]
    /\ head' = (head + 1) % QueueSize
    /\ count' = count - 1
    /\ UNCHANGED <<slot, tail>>

RingNext == net_poll_ipv4_packet \/ \E p \in Packet : net_queue_ipv4_packet(p)

RingSpec == RingInit /\ [][RingNext]_ringVars
-----------------------------------------------------------------------------
(* The tail is redundant: it is always count slots after the head. *)
RingShape == /\ tail = (head + count) % QueueSize
             /\ \A i \in 1 .. count : slot[(head + i - 1) % QueueSize] \in Packet

RingSeq == [i \in 1 .. count |-> slot[(head + i - 1) % QueueSize]]

Fifo == INSTANCE BoundedFifo
            WITH Capacity <- QueueSize, waiting <- RingSeq, taken <- polled

(* The ring is a bounded FIFO: what net_poll_ipv4_packet returns is what   *)
(* net_queue_ipv4_packet stored, in order, once, through every wrap of the *)
(* two indices (net.c:271-287, 534-542).                                   *)
RingIsFifo == Fifo!Spec
=============================================================================
