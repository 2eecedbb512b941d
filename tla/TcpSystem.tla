------------------------------ MODULE TcpSystem ------------------------------
(***************************************************************************)
(* The TCP client against a server and a network.  The server (external)   *)
(* follows the protocol: it answers SYNs, writes into the advertised       *)
(* window (one byte when it is closed, as a persist timer does), repeats   *)
(* what is not acknowledged, may finish, and may reset the connection.     *)
(* The network loses, repeats, delays and reorders segments.               *)
(***************************************************************************)
EXTENDS TcpClient

CONSTANTS Unit,         \* the bytes of a server's answer: 1 .. n
          PeerIss,      \* the server's initial sequence number
          SegmentMax    \* bytes in one segment of the server

(* An answer, its SYN and its FIN do not use up the sequence numbers. *)
ASSUME ServerAssumption ==
    /\ \E n \in 0 .. SeqSpace - 3 : Unit = 1 .. n
    /\ PeerIss \in 0 .. SeqSpace - 1
    /\ SegmentMax \in Nat

VARIABLE peer           \* the server's end of each connection

vars == <<clientVars, wires, peer>>

(* took: bytes of the request received; una, edge: bytes of the answer     *)
(* acknowledged, and the right edge of the client's window; closed: the    *)
(* answer is complete; finned: the client's FIN has been received.         *)
NoPeer == [state |-> "none", took |-> 0, written |-> 0, una |-> 0, edge |-> 0,
           closed |-> FALSE, finned |-> FALSE]

TypeOK ==
    /\ slot \in [Slot -> [state : {"FREE", "SYN_SENT", "ESTABLISHED", "FIN_WAIT_1",
                                   "FIN_WAIT_2", "CLOSE_WAIT", "LAST_ACK"},
                          port : Port \cup {NoPort}, iss : {0, Iss},
                          una : 0 .. Iss + RequestSize + 2,
                          next : 0 .. Iss + RequestSize + 2,
                          rcv : 0 .. SeqSpace - 1, wnd : 0 .. BufferSize,
                          buf : Seq(Unit)]]
    /\ \A i \in Slot : Len(slot[i].buf) <= BufferSize
    /\ \A i, j \in Slot : Used(i) /\ Used(j) /\ slot[i].port = slot[j].port => i = j
    /\ nextPort \in 1 .. PortCount + 1
    /\ pc \in {"idle", "syn", "open", "chunk", "sent", "ready", "done", "check", "serve"}
    /\ call.slot = NoSlot <=> pc = "idle"
    /\ retry \in 0 .. MaxRetries
    /\ served \in 0 .. RingSize

Init == /\ ClientInit
        /\ peer = [p \in Port |-> NoPeer]
-----------------------------------------------------------------------------
Seqn(k) == (PeerIss + 1 + k) % SeqSpace           \* number of the byte after k bytes
PeerAck(p) == Iss + 1 + peer[p].took + (IF peer[p].finned THEN 1 ELSE 0)
PeerSegment(p, flags, k, data) ==
    [port |-> p, flags |-> flags, seq |-> Seqn(k), ack |-> PeerAck(p), wnd |-> 0, data |-> data]

PeerEmits(m) == /\ Cardinality(toClient \cup {m}) <= WireIn
                /\ toClient' = toClient \cup {m}
                /\ UNCHANGED <<clientVars, toPeer>>

(* What the server makes of a segment's acknowledgement: how many bytes of *)
(* the answer it covers (the FIN counts as one).                           *)
Covered(m) == (m.ack - PeerIss - 1) % SeqSpace
Sensible(p, m) == Covered(m) <= peer[p].written + (IF peer[p].closed THEN 1 ELSE 0)
Larger(a, b) == IF a > b THEN a ELSE b

PeerTakes(m) ==
    LET p == m.port
        q == peer[p]
        inOrder == m.seq = PeerAck(p)
    IN  /\ m \in toPeer
        /\ toPeer' \in {toPeer, toPeer \ {m}}
        /\ \/ /\ p \in Port /\ q.state = "none" /\ "SYN" \in m.flags
              /\ \E to \in {"up", "gone"} :
                    peer' = [peer EXCEPT ![p] = [NoPeer EXCEPT !.state = to, !.edge = m.wnd]]
           \/ /\ p \in Port /\ q.state = "up" /\ "ACK" \in m.flags /\ Sensible(p, m)
              /\ peer' = [peer EXCEPT ![p] =
                     [q EXCEPT !.una = Larger(q.una, Covered(m)),
                               !.edge = Larger(q.edge, Covered(m) + m.wnd),
                               !.took = IF inOrder THEN q.took + Len(m.data) ELSE q.took,
                               !.finned = q.finned \/ (inOrder /\ "FIN" \in m.flags)]]
           \/ /\ p = NoPort \/ "SYN" \in m.flags
              /\ UNCHANGED peer
        /\ UNCHANGED <<clientVars, toClient>>

PeerOpens(p) == /\ peer[p].state = "up" /\ peer[p].took = 0
                /\ PeerEmits([PeerSegment(p, {"SYN", "ACK"}, 0, << >>)
                                 EXCEPT !.seq = PeerIss])
                /\ UNCHANGED peer

(* The answer begins when the request is there. *)
PeerWrites(p) == /\ peer[p].state = "up" /\ ~peer[p].closed
                 /\ peer[p].took = RequestSize
                 /\ peer[p].written + 1 \in Unit
                 /\ peer' = [peer EXCEPT ![p].written = @ + 1]
                 /\ UNCHANGED <<clientVars, wires>>

PeerCloses(p) == /\ peer[p].state = "up" /\ ~peer[p].closed
                 /\ peer' = [peer EXCEPT ![p].closed = TRUE]
                 /\ UNCHANGED <<clientVars, wires>>

(* A segment from byte from + 1 on, new or repeated, with the FIN when it  *)
(* reaches the end; with no byte and no FIN it is a pure acknowledgement.  *)
PeerSends(p, from, to) ==
    LET q == peer[p] IN
    /\ q.state = "up"
    /\ from \in q.una .. to /\ to <= q.written
    /\ to - from <= SegmentMax
    /\ to <= Larger(q.edge, q.una + 1)
    /\ \E fin \in {FALSE, q.closed /\ to = q.written} :
          PeerEmits(PeerSegment(p, {"ACK"} \cup (IF fin THEN {"FIN"} ELSE {}), from,
                                [k \in 1 .. to - from |-> from + k]))
    /\ UNCHANGED peer

(* Refusing a SYN, aborting, or answering a segment of a connection gone. *)
PeerResets(p) == /\ peer[p].state # "none"
                 /\ peer' = [peer EXCEPT ![p].state = "gone"]
                 /\ PeerEmits(PeerSegment(p, {"RST"}, 0, << >>))

Lost == \/ \E m \in toPeer : toPeer' = toPeer \ {m} /\ UNCHANGED toClient
        \/ \E m \in toClient : toClient' = toClient \ {m} /\ UNCHANGED toPeer

NetworkLoses == Lost /\ UNCHANGED <<clientVars, peer>>

PeerStep == \/ \E m \in toPeer : PeerTakes(m)
            \/ \E p \in Port : \/ PeerOpens(p) \/ PeerWrites(p) \/ PeerCloses(p)
                               \/ PeerResets(p)
                               \/ \E from, to \in {0} \cup Unit : PeerSends(p, from, to)

Next == (ClientStep /\ UNCHANGED peer) \/ PeerStep \/ NetworkLoses

(* A wait loop reads the clock on every turn, so a wait whose condition    *)
(* never comes true ends after five seconds (strong fairness of the        *)
(* time-out); the thread does not stop between two steps of a call.        *)
(* Nothing is assumed of the server and the network.                       *)
Spec == Init /\ [][Next]_vars
          /\ WF_vars(ThreadStep /\ UNCHANGED peer)
          /\ SF_vars(WaitTimesOut /\ UNCHANGED peer)
-----------------------------------------------------------------------------
Stream(p) == INSTANCE ReliableStream
                 WITH written <- [k \in 1 .. peer[p].written |-> k],
                      closed <- peer[p].closed,
                      read <- read[p],
                      ended <- ended[p]

(* What net_tcp_receive returns over a connection is a prefix of what the  *)
(* server wrote, and it returns 0 after a successful wait only when the    *)
(* server has finished and everything has been read - whatever the network *)
(* loses, repeats or reorders (transport.c:672-710, 1090-1122).            *)
StreamIsReliable ==
    /\ \A p \in Port : Stream(p)!Init
    /\ [][\A p \in Port : [Stream(p)!Next]_(Stream(p)!vars)]_vars

(* net_tcp_send returns true only when the server has the whole request    *)
(* (transport.c:588-602, 1064-1079).                                       *)
SendTrueMeansReceived ==
    [][result' # result /\ result'.op = "send" /\ result'.ok
           => peer[result'.port].took = RequestSize]_vars

(* net_tcp_connect returns a slot only for the connection it is making,    *)
(* one the server has taken up, which may be gone again by then - also     *)
(* when a reset has zeroed the slot during one of its attempts and the     *)
(* loop goes on with it: such a slot has another port                      *)
(* (transport.c:667-684, 1021-1037).                                       *)
ConnectTrueMeansAccepted ==
    [][result' # result /\ result'.op = "connect" /\ result'.ok
           => /\ result'.port = nextPort - 1
              /\ peer[result'.port].state # "none"]_vars

(* The window the server was given is backed by free buffer: data inside   *)
(* it is never dropped for want of space (transport.c:215-221, 686-698).   *)
WindowIsBacked ==
    \A i \in Slot :
        slot[i].state \in {"ESTABLISHED", "FIN_WAIT_1", "FIN_WAIT_2"} =>
            peer[slot[i].port].edge <=
                ((slot[i].rcv - PeerIss - 1) % SeqSpace) + BufferSize - Len(slot[i].buf)

(* A connection rests in FIN_WAIT_2 only when the server has the FIN.  Not *)
(* so when a send of the connection returned false and its frame went out  *)
(* after all: the acknowledgement of the bytes then passes for one of the  *)
(* FIN, which was numbered as if they had not been sent                    *)
(* (transport.c:580-583, 712-713; pcnet.c:383-386).                        *)
FinWait2MeansFinReceived ==
    \A i \in Slot : slot[i].state = "FIN_WAIT_2" /\ slot[i].port \notin doubt
                        => peer[slot[i].port].finned

(* Between two requests a slot is in use only because this host has closed *)
(* the connection, what it sent last was acknowledged and the server has   *)
(* neither finished nor reset: such a slot waits for good, and no other    *)
(* path leaks one (transport.c:1021-1037, 1124-1149).                      *)
LeftoversAwaitServer ==
    pc = "idle" => \A i \in Slot : Used(i) => slot[i].state = "FIN_WAIT_2"

(* Every request ends, whatever the server and the network do              *)
(* (transport.c:588-602, 1021-1037, 1082-1101, 1124-1149).                 *)
RequestEnds == (pc # "idle") ~> (pc = "idle")
=============================================================================
