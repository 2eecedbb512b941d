------------------------------- MODULE UdpQueue -------------------------------
(***************************************************************************)
(* The queue of received UDP datagrams (kernel/transport.c), one ring for  *)
(* all ports.  transport_handle_udp_packet stores every datagram that      *)
(* reaches the host, whether or not anyone will ever poll its port.        *)
(* net_udp_poll takes the first one for a port out of the middle of the    *)
(* ring, which leaves a hole behind.                                       *)
(***************************************************************************)
EXTENDS Integers

CONSTANTS Datagram,         \* datagrams, told apart by identity
          DestinationPort,  \* DestinationPort[d]
          NoDatagram,       \* content of a slot never written
          QueueSize         \* NET_UDP_QUEUE_SIZE

ASSUME SizeAssumption == QueueSize \in Nat \ {0}
ASSUME NoDatagramAssumption == NoDatagram \notin Datagram

VARIABLES packet,       \* udp_queue[i].packet
          valid,        \* udp_queue[i].valid
          head,         \* udp_head
          tail,         \* udp_tail
          count,        \* udp_count
          taken,        \* the last port that polled with success, and what it got
          bypassed      \* some poll has taken a datagram that was not at the head

queueVars == <<packet, valid, head, tail, count, taken, bypassed>>

Index == 0 .. QueueSize - 1
Ahead(k) == (head + k) % QueueSize
Address(d) == DestinationPort[d]

QueueTypeOK ==
    /\ packet \in [Index -> Datagram \cup {NoDatagram}]
    /\ valid \in [Index -> BOOLEAN]
    /\ head \in Index
    /\ tail \in Index
    /\ count \in 0 .. QueueSize
    /\ bypassed \in BOOLEAN
    /\ \A i \in Index : valid[i] => packet[i] \in Datagram

QueueInit == /\ packet = [i \in Index |-> NoDatagram]
             /\ valid = [i \in Index |-> FALSE]
             /\ head = 0
             /\ tail = 0
             /\ count = 0
             /\ taken = [port |-> NoDatagram, got |-> NoDatagram]
             /\ bypassed = FALSE

Stored == {packet[i] : i \in {j \in Index : valid[j]}}
-----------------------------------------------------------------------------
(* Slips, for the mutation checks: one datagram too many, one stored over  *)
(* another in a full ring, a head that does not stop at the next datagram, *)
(* a poll that takes whatever is there, whoever it is for.                 *)
QueueFull_off_by_one == count > QueueSize

transport_handle_udp_packet_overwrites(d) ==
    /\ packet' = [packet EXCEPT ![tail] = d]
    /\ valid' = [valid EXCEPT ![tail] = TRUE]
    /\ tail' = (tail + 1) % QueueSize
    /\ count' = IF count < QueueSize THEN count + 1 ELSE count
    /\ UNCHANGED <<head, taken, bypassed>>

StopsAt_tail_only(k) == count <= 1 \/ (head + k) % QueueSize = tail

Addressed_anything(k, port) == valid[Ahead(k)]
-----------------------------------------------------------------------------
QueueFull == count >= QueueSize

(* The slot at the tail is overwritten without a look at its valid flag.   *)
transport_handle_udp_packet(d) ==
    IF QueueFull THEN UNCHANGED queueVars
    ELSE /\ packet' = [packet EXCEPT ![tail] = d]
         /\ valid' = [valid EXCEPT ![tail] = TRUE]
         /\ tail' = (tail + 1) % QueueSize
         /\ count' = count + 1
         /\ UNCHANGED <<head, taken, bypassed>>

(* Only the first udp_count slots from the head are examined, holes        *)
(* included.                                                               *)
Addressed(k, port) == valid[Ahead(k)] /\ Address(packet[Ahead(k)]) = port

Found(port) == {k \in 0 .. count - 1 : /\ Addressed(k, port)
                                       /\ \A j \in 0 .. k - 1 : ~Addressed(j, port)}

(* The head moves on by at least one slot, then over holes up to the tail; *)
(* over none when this was the last datagram counted.                      *)
StopsAt(k) == count <= 1 \/ (k < QueueSize /\ valid[Ahead(k)]) \/ Ahead(k) = tail

NextHead == {k \in 1 .. QueueSize : StopsAt(k) /\ \A j \in 1 .. k - 1 : ~StopsAt(j)}

(* The caller gets the datagram and is the one who polls this port.        *)
TakeAt(k, port) ==
    /\ taken' = [port |-> port, got |-> packet[Ahead(k)]]
    /\ valid' = [valid EXCEPT ![Ahead(k)] = FALSE]
    /\ count' = count - 1
    /\ IF k = 0 THEN \E n \in NextHead : head' = Ahead(n)
       ELSE UNCHANGED head
    /\ bypassed' = (bypassed \/ k # 0)
    /\ UNCHANGED <<packet, tail>>

net_udp_poll(port) == \E k \in Found(port) : TakeAt(k, port)

QueueNext(Port) == \/ \E d \in Datagram : transport_handle_udp_packet(d)
                   \/ \E port \in Port : net_udp_poll(port)
-----------------------------------------------------------------------------
(* As long as every poll found its datagram at the head, the ring is in    *)
(* order: the datagrams are the count slots from the head, and no others.  *)
(* After the first bypass that is lost, and the next properties are all    *)
(* that is left (transport.c:610-636, 759-776).                            *)
InOrderUntilBypass ==
    ~bypassed => /\ tail = Ahead(count)
                 /\ \A k \in Index : valid[Ahead(k)] <=> k < count
=============================================================================
