------------------------------ MODULE TcpClient ------------------------------
(***************************************************************************)
(* The TCP client of kernel/transport.c: the table of connections, the     *)
(* handler of received segments, and the blocking calls connect, send,     *)
(* wait_for_data, receive and close, made in the order net_http_get makes  *)
(* them.  There is one kernel thread; it handles segments only while it    *)
(* waits inside a call, or in the main loop between two requests.          *)
(*                                                                         *)
(* A connection is named by its ephemeral port: a new one is drawn for     *)
(* each connect, and the bound on connects keeps the port from wrapping.   *)
(***************************************************************************)
EXTENDS Integers, Sequences, FiniteSets

CONSTANTS SlotCount,    \* NET_TCP_CONNECTION_MAX
          PortCount,    \* bound on the number of connects
          BufferSize,   \* NET_TCP_RECEIVE_BUFFER_SIZE
          MaxPayload,   \* NET_TCP_PAYLOAD_MAX
          RequestSize,  \* length of the request net_http_get sends
          ChunkSize,    \* capacity of the buffer given to net_tcp_receive
          MaxRetries,   \* NET_TCP_MAX_RETRIES
          RingSize,     \* NET_IPV4_QUEUE_SIZE: segments one service handles
          SeqSpace,       \* 2^32: the peer's numbers may wrap
          Iss,          \* initial_sequence; from the clock, it stays below 2^29
          WireOut,      \* segments the network holds towards the server,
          WireIn        \* and towards this host

(* The client's own numbers begin below 2^29 and do not wrap; the sizes    *)
(* are those of net.h, and net_http_get sends a request that is not empty. *)
ASSUME ClientAssumption ==
    /\ {SlotCount, PortCount, MaxRetries, RingSize, WireOut, WireIn} \subseteq Nat
    /\ {BufferSize, MaxPayload, RequestSize, ChunkSize, SeqSpace} \subseteq Nat \ {0}
    /\ Iss \in Nat /\ Iss + RequestSize + 2 < SeqSpace

Slot == 1 .. SlotCount
Port == 1 .. PortCount
NoPort == 0             \* local_port of a zeroed slot
NoSlot == 0

VARIABLES slot,         \* g_transport.tcp_connections
          nextPort,     \* g_transport.next_ephemeral_port
          pc,           \* where the thread is
          call,         \* the running call: operation, slot, target_ack, bytes left
          retry,        \* net_tcp_connect's loop counter
          served,       \* segments handled since the wait loop last looked
          toPeer,       \* segments on their way to the server
          toClient,     \* segments on their way to this host
          read,         \* what net_tcp_receive has returned, per connection
          ended,        \* whether it has returned 0 after a successful wait
          result,       \* the call that returned last, and what it returned
          doubt         \* connections with a send that returned false

clientVars == <<slot, nextPort, pc, call, retry, served, read, ended, result, doubt>>
wires == <<toPeer, toClient>>

(* "used" is not modelled apart: it is set with TCP_STATE_SYN_SENT and     *)
(* cleared with the state, by the same memset.                             *)
Free == [state |-> "FREE", port |-> NoPort, iss |-> 0, una |-> 0, next |-> 0,
         rcv |-> 0, wnd |-> 0, buf |-> << >>]
Used(i) == slot[i].state # "FREE"
Readable == {"ESTABLISHED", "CLOSE_WAIT"}
NoCall == [op |-> "none", slot |-> NoSlot, target |-> 0, left |-> 0]

ClientInit == /\ slot = [i \in Slot |-> Free]
              /\ nextPort = 1
              /\ pc = "idle"
              /\ call = NoCall
              /\ retry = 0
              /\ served = 0
              /\ toPeer = {}
              /\ toClient = {}
              /\ read = [p \in Port |-> << >>]
              /\ ended = [p \in Port |-> FALSE]
              /\ result = [op |-> "none", ok |-> FALSE, port |-> NoPort]
              /\ doubt = {}
-----------------------------------------------------------------------------
(* Segments.  A frame handed to the card may be lost, and may go out even  *)
(* though the send returned false (pcnet_send's time-out): what a send     *)
(* returns and what reaches the wire are independent.                      *)
Segment(s, flags, data) ==
    [port |-> s.port, flags |-> flags, seq |-> s.next, ack |-> s.rcv,
     wnd |-> s.wnd, data |-> data]

Emit(segments) ==
    \E some \in SUBSET segments :
        /\ Cardinality(toPeer \cup some) <= WireOut
        /\ toPeer' = toPeer \cup some

Window_full(s) == [s EXCEPT !.wnd = BufferSize]     \* a slip, for the mutation checks

(* transport_tcp_refresh_receive_window *)
Window(s) == [s EXCEPT !.wnd = BufferSize - Len(s.buf)]

Smaller(m, n) == IF m < n THEN m ELSE n
-----------------------------------------------------------------------------
(* Slips, for the mutation checks. *)
AfterAck_everything(s, m) == IF "ACK" \in m.flags THEN [s EXCEPT !.una = s.next] ELSE s

AfterData_unbounded(s, m) ==
    IF m.data # << >> /\ m.seq = s.rcv
    THEN [s EXCEPT !.rcv = (s.rcv + Len(m.data)) % SeqSpace, !.buf = s.buf \o m.data]
    ELSE s

AfterData_skips_dropped(s, m) ==
    LET copied == Smaller(Len(m.data), BufferSize - Len(s.buf))
    IN  IF m.data # << >> /\ m.seq = s.rcv
        THEN Window([s EXCEPT !.rcv = (s.rcv + Len(m.data)) % SeqSpace,
                              !.buf = s.buf \o SubSeq(m.data, 1, copied)])
        ELSE s

AfterClosing_fin_uncounted(s) ==
    IF s.state = "FIN_WAIT_1" /\ s.una >= s.next - 1 THEN [s EXCEPT !.state = "FIN_WAIT_2"]
    ELSE IF s.state = "LAST_ACK" /\ s.una >= s.next THEN Free
    ELSE s

Matches_any_port(m) == {i \in Slot : Used(i)}

NextTry_uncounted == UNCHANGED retry

Zeroed_not(i) == UNCHANGED slot
-----------------------------------------------------------------------------
(* transport_handle_tcp_packet on the connection s, in the code's order.   *)
AfterAck(s, m) ==
    IF "ACK" \in m.flags /\ m.ack > s.una THEN [s EXCEPT !.una = m.ack] ELSE s

Opens(s, m) == /\ s.state = "SYN_SENT"
               /\ {"SYN", "ACK"} \subseteq m.flags
               /\ m.ack = s.iss + 1

Opened(s, m) == [s EXCEPT !.rcv = (m.seq + 1) % SeqSpace, !.una = m.ack,
                          !.state = "ESTABLISHED"]

(* In-order data: what does not fit is dropped and not acknowledged. *)
AfterData(s, m) ==
    LET copied == Smaller(Len(m.data), BufferSize - Len(s.buf))
    IN  IF m.data # << >> /\ m.seq = s.rcv
        THEN Window([s EXCEPT !.rcv = (s.rcv + copied) % SeqSpace,
                              !.buf = s.buf \o SubSeq(m.data, 1, copied)])
        ELSE s

FinInOrder(s, m) == "FIN" \in m.flags /\ (m.seq + Len(m.data)) % SeqSpace = s.rcv

AfterFin(s, m) ==
    IF ~FinInOrder(s, m) THEN s
    ELSE IF s.state \in {"FIN_WAIT_1", "FIN_WAIT_2"} THEN Free
    ELSE [s EXCEPT !.rcv = (s.rcv + 1) % SeqSpace, !.state = "CLOSE_WAIT"]

AfterClosing(s) ==
    IF s.state = "FIN_WAIT_1" /\ s.una >= s.next THEN [s EXCEPT !.state = "FIN_WAIT_2"]
    ELSE IF s.state = "LAST_ACK" /\ s.una >= s.next THEN Free
    ELSE s

Handled(s, m) ==
    IF "RST" \in m.flags THEN Free
    ELSE IF Opens(s, m) THEN Opened(AfterAck(s, m), m)
    ELSE AfterClosing(AfterFin(AfterData(AfterAck(s, m), m), m))

(* The pure acknowledgements the handler sends. *)
Answers(s, m) ==
    LET d == AfterData(s, m)
    IN  IF "RST" \in m.flags THEN {}
        ELSE IF Opens(s, m) THEN {Segment(Opened(s, m), {"ACK"}, << >>)}
        ELSE (IF m.data # << >> /\ m.seq = s.rcv
              THEN {Segment(d, {"ACK"}, << >>)} ELSE {})
             \cup (IF FinInOrder(d, m)
                   THEN {Segment([d EXCEPT !.rcv = (d.rcv + 1) % SeqSpace], {"ACK"}, << >>)}
                   ELSE {})

(* transport_find_connection: the first used slot with that port. *)
Matches(m) == {i \in Slot : Used(i) /\ slot[i].port = m.port}

HandleSegment(m) ==
    \/ /\ Matches(m) = {}
       /\ UNCHANGED <<slot, toPeer>>
    \/ \E i \in Matches(m) :
          /\ \A j \in Matches(m) : i <= j
          /\ slot' = [slot EXCEPT ![i] = Handled(slot[i], m)]
          /\ Emit(Answers(slot[i], m))

(* The network may deliver a segment again later. *)
Arrives(m) == /\ m \in toClient
              /\ toClient' \in {toClient, toClient \ {m}}
              /\ HandleSegment(m)
-----------------------------------------------------------------------------
(* The memset that frees a connection, and the next turn of the retry loop. *)
Zeroed(i) == slot' = [slot EXCEPT ![i] = Free]
NextTry == retry' = retry + 1

(* The thread.  A call returns its result and goes on at "to".             *)
Return(ok, to) ==
    /\ result' = [op |-> call.op, ok |-> ok, port |-> slot[call.slot].port]
    /\ pc' = to
    /\ call' = [NoCall EXCEPT !.slot = IF to = "idle" THEN NoSlot ELSE call.slot]

Wait(target) == /\ call' = [call EXCEPT !.target = target]
                /\ pc' = "check"

Begin(op, i, left, at) == /\ call' = [op |-> op, slot |-> i, target |-> 0, left |-> left]
                          /\ pc' = at

(* The main loop's service, between two requests; it may find nothing. *)
IdleService == /\ pc = "idle"
               /\ \/ \E m \in toClient : Arrives(m)
                  \/ UNCHANGED <<slot, wires>>
               /\ UNCHANGED <<nextPort, pc, call, retry, served, read, ended, result, doubt>>

(* net_tcp_connect takes the first free slot, or returns -1. *)
net_tcp_connect ==
    /\ pc = "idle" /\ nextPort \in Port
    /\ \E i \in Slot :
          /\ ~Used(i) /\ \A j \in 1 .. i - 1 : Used(j)
          /\ slot' = [slot EXCEPT ![i] =
                         Window([Free EXCEPT !.state = "SYN_SENT", !.port = nextPort,
                                             !.iss = Iss, !.una = Iss, !.next = Iss])]
          /\ Begin("connect", i, 0, "syn")
    /\ nextPort' = nextPort + 1
    /\ retry' = 0
    /\ UNCHANGED <<wires, served, read, ended, result, doubt>>

NoSlotFree ==
    /\ pc = "idle" /\ nextPort \in Port
    /\ \A i \in Slot : Used(i)
    /\ result' = [op |-> "connect", ok |-> FALSE, port |-> NoPort]
    /\ UNCHANGED <<slot, nextPort, pc, call, retry, served, wires, read, ended, doubt>>

(* One turn of the retry loop.  It writes to the slot even when a reset    *)
(* has zeroed it during the last wait.                                     *)
SendSyn(ok) ==
    LET i == call.slot
        s == [slot[i] EXCEPT !.una = slot[i].iss, !.next = slot[i].iss]
    IN  /\ pc = "syn" /\ retry < MaxRetries
        /\ Emit({Segment(s, {"SYN"}, << >>)})
        /\ slot' = [slot EXCEPT ![i] = IF ok THEN [s EXCEPT !.next = s.iss + 1] ELSE s]
        /\ IF ~ok THEN NextTry /\ UNCHANGED <<pc, call, result>>
           ELSE /\ UNCHANGED retry
                /\ IF s.state = "ESTABLISHED" THEN Return(TRUE, "open")
                   ELSE Wait(s.iss + 1) /\ UNCHANGED result
        /\ UNCHANGED <<nextPort, served, toClient, read, ended, doubt>>

ConnectFails ==
    /\ pc = "syn" /\ retry >= MaxRetries
    /\ Zeroed(call.slot)
    /\ Return(FALSE, "idle")
    /\ UNCHANGED <<nextPort, retry, served, wires, read, ended, doubt>>

net_tcp_send ==
    /\ pc = "open"
    /\ IF slot[call.slot].state \in Readable
       THEN Begin("send", call.slot, RequestSize, "chunk") /\ UNCHANGED result
       ELSE /\ result' = [op |-> "send", ok |-> FALSE, port |-> slot[call.slot].port]
            /\ pc' = "done"
            /\ UNCHANGED call
    /\ UNCHANGED <<slot, nextPort, retry, served, wires, read, ended, doubt>>

(* The loop does not look at the state again before the next chunk. *)
SendChunk(ok) ==
    LET i == call.slot
        n == Smaller(call.left, MaxPayload)
    IN  /\ pc = "chunk"
        /\ Emit({Segment(slot[i], {"ACK", "PSH"}, [k \in 1 .. n |-> k])})
        /\ IF ok THEN /\ slot' = [slot EXCEPT ![i].next = @ + n]
                      /\ call' = [call EXCEPT !.target = slot[i].next + n,
                                              !.left = call.left - n]
                      /\ pc' = "check"
                      /\ UNCHANGED <<result, doubt>>
           ELSE /\ Return(FALSE, "done")
                /\ doubt' = doubt \cup {slot[i].port}
                /\ UNCHANGED slot
        /\ UNCHANGED <<nextPort, retry, served, toClient, read, ended>>

net_tcp_wait_for_data ==
    /\ pc = "sent"
    /\ IF Used(call.slot) THEN Begin("wait", call.slot, 0, "check") /\ UNCHANGED result
       ELSE /\ result' = [op |-> "wait", ok |-> FALSE, port |-> slot[call.slot].port]
            /\ pc' = "done"
            /\ UNCHANGED call
    /\ UNCHANGED <<slot, nextPort, retry, served, wires, read, ended, doubt>>

(* net_http_get goes on to wait for more, or closes when it got nothing or *)
(* has what the header announced.                                          *)
net_tcp_receive ==
    LET s == slot[call.slot]
        n == Smaller(Len(s.buf), ChunkSize)
    IN  /\ pc = "ready"
        /\ read' = [read EXCEPT ![s.port] = @ \o SubSeq(s.buf, 1, n)]
        /\ ended' = [ended EXCEPT ![s.port] = n = 0]
        /\ slot' = [slot EXCEPT ![call.slot] =
                       Window([s EXCEPT !.buf = SubSeq(s.buf, n + 1, Len(s.buf))])]
        /\ pc' \in IF n = 0 THEN {"done"} ELSE {"sent", "done"}
        /\ UNCHANGED <<nextPort, call, retry, served, wires, result, doubt>>

(* net_tcp_close in any other state, a reset one included, frees the slot. *)
CloseDrops ==
    /\ pc = "done" /\ slot[call.slot].state \notin Readable
    /\ Zeroed(call.slot)
    /\ pc' = "idle"
    /\ call' = NoCall
    /\ UNCHANGED <<nextPort, retry, served, wires, read, ended, result, doubt>>

CloseSendsFin(ok) ==
    LET i == call.slot
        s == slot[i]
        to == IF s.state = "ESTABLISHED" THEN "FIN_WAIT_1" ELSE "LAST_ACK"
    IN  /\ pc = "done" /\ s.state \in Readable
        /\ Emit({Segment(s, {"FIN", "ACK"}, << >>)})
        /\ IF ok THEN /\ slot' = [slot EXCEPT ![i].next = @ + 1, ![i].state = to]
                      /\ call' = [op |-> "close", slot |-> i, target |-> s.next + 1, left |-> 0]
                      /\ pc' = "check"
           ELSE /\ Zeroed(i)
                /\ pc' = "idle"
                /\ call' = NoCall
        /\ UNCHANGED <<nextPort, retry, served, toClient, read, ended, result, doubt>>
-----------------------------------------------------------------------------
(* The wait loops (transport_tcp_wait_for_ack, net_tcp_wait_for_data):     *)
(* look, serve the network, look at the clock.                             *)
Satisfied ==
    LET s == slot[call.slot]
    IN  IF call.op = "wait" THEN s.buf # << >> \/ s.state = "CLOSE_WAIT"
        ELSE s.una >= call.target

(* What the caller does when its wait is over. *)
WaitOver(ok) ==
    LET i == call.slot IN
    /\ CASE call.op = "connect" ->
              IF ok /\ slot[i].state = "ESTABLISHED"
              THEN Return(TRUE, "open") /\ UNCHANGED <<slot, retry>>
              ELSE /\ NextTry
                   /\ pc' = "syn"
                   /\ UNCHANGED <<slot, call, result>>
         [] call.op = "send" ->
              IF ok /\ call.left # 0
              THEN pc' = "chunk" /\ UNCHANGED <<slot, call, retry, result>>
              ELSE Return(ok, IF ok THEN "sent" ELSE "done") /\ UNCHANGED <<slot, retry>>
         [] call.op = "wait" ->
              Return(ok, IF ok THEN "ready" ELSE "done") /\ UNCHANGED <<slot, retry>>
         [] call.op = "close" ->
              /\ Return(ok, "idle")
              /\ IF ok THEN UNCHANGED slot ELSE Zeroed(i)
              /\ UNCHANGED retry
    /\ UNCHANGED <<nextPort, wires, read, ended, doubt>>

WaitLooks ==
    /\ pc = "check"
    /\ served' = 0
    /\ IF Used(call.slot) /\ ~Satisfied
       THEN pc' = "serve" /\ UNCHANGED <<slot, nextPort, call, retry, wires, read,
                                         ended, result, doubt>>
       ELSE WaitOver(Used(call.slot))

WaitServes ==
    /\ pc = "serve" /\ served < RingSize
    /\ \E m \in toClient : Arrives(m)
    /\ served' = served + 1
    /\ UNCHANGED <<nextPort, pc, call, retry, read, ended, result, doubt>>

WaitGoesOn ==
    /\ pc = "serve"
    /\ pc' = "check"
    /\ served' = 0
    /\ UNCHANGED <<slot, nextPort, call, retry, wires, read, ended, result, doubt>>

(* Five seconds have passed; what was served just now is not looked at. *)
WaitTimesOut ==
    /\ pc = "serve"
    /\ served' = 0
    /\ WaitOver(FALSE)

ThreadStep ==
    \/ \E ok \in BOOLEAN : SendSyn(ok) \/ SendChunk(ok) \/ CloseSendsFin(ok)
    \/ ConnectFails \/ net_tcp_send \/ net_tcp_wait_for_data \/ net_tcp_receive
    \/ CloseDrops \/ WaitLooks \/ WaitServes \/ WaitGoesOn

ClientStep == IdleService \/ net_tcp_connect \/ NoSlotFree \/ WaitTimesOut \/ ThreadStep
=============================================================================
