------------------------------ MODULE TcpProofs ------------------------------
(***************************************************************************)
(* For every size of the buffer, the request and the answer, every number  *)
(* of slots and of connects, and every network: what the blocking calls of *)
(* transport.c return is true of the server, the bytes they return are a   *)
(* prefix of its answer, and no connection is left behind but one that     *)
(* waits for the server's FIN.                                             *)
(*                                                                         *)
(* What holds of one connection is said of its values: s is the slot, q    *)
(* the server's end, r the bytes read, D the connections in doubt.         *)
(***************************************************************************)
EXTENDS TcpSystem, SequenceTheorems, TLAPS

(* Modulo on the only range the indices reach, two laps of the ring. *)
LEMMA ModOnce ==
    ASSUME NEW n \in Nat \ {0}, NEW x \in 0 .. 2 * n - 1
    PROVE  /\ x % n = IF x < n THEN x ELSE x - n
           /\ x % n \in 0 .. n - 1
OBVIOUS

Before == {"SYN_SENT", "ESTABLISHED", "CLOSE_WAIT"}        \* no FIN sent yet
After == {"FIN_WAIT_1", "FIN_WAIT_2", "LAST_ACK"}
Open == {"ESTABLISHED", "FIN_WAIT_1", "FIN_WAIT_2"}        \* more may come
Finished == {"CLOSE_WAIT", "LAST_ACK"}                     \* FIN received

Flags == {"SYN", "ACK", "FIN", "PSH", "RST"}
Connection == [state : {"FREE"} \cup Before \cup After, port : Port \cup {NoPort},
               iss : {0, Iss}, una : Nat, next : Nat, rcv : 0 .. SeqSpace - 1,
               wnd : 0 .. BufferSize, buf : Seq(Nat)]
Outgoing == [port : Port \cup {NoPort}, flags : SUBSET Flags, seq : Nat,
             ack : 0 .. SeqSpace - 1, wnd : 0 .. BufferSize, data : Seq(Nat)]
Incoming == [port : Port, flags : SUBSET Flags, seq : 0 .. SeqSpace - 1, ack : Nat,
             wnd : {0}, data : Seq(Nat)]
Server == [state : {"none", "up", "gone"}, took : 0 .. RequestSize,
           written : 0 .. SeqSpace - 3, una : Nat, edge : Nat, closed : BOOLEAN,
           finned : BOOLEAN]
Calls == [op : {"none", "connect", "send", "wait", "close"}, slot : Slot \cup {NoSlot},
          target : Nat, left : 0 .. RequestSize]
At == {"idle", "syn", "open", "chunk", "sent", "ready", "done", "check", "serve"}

Types ==
    /\ slot \in [Slot -> Connection] /\ nextPort \in 1 .. PortCount + 1
    /\ pc \in At /\ call \in Calls /\ retry \in 0 .. MaxRetries /\ served \in 0 .. RingSize
    /\ toPeer \subseteq Outgoing /\ toClient \subseteq Incoming
    /\ read \in [Port -> Seq(Nat)] /\ ended \in [Port -> BOOLEAN] /\ peer \in [Port -> Server]
    /\ doubt \in SUBSET Port
-----------------------------------------------------------------------------
(* A free slot, which connect may still number; and one in use.            *)
Blank(s) == /\ s.port = NoPort /\ s.buf = << >> /\ s.iss = 0
            /\ s.una <= Iss + 1 /\ s.next <= Iss + 1
Kept(s) == s.iss = Iss /\ s.wnd = BufferSize - Len(s.buf)

(* The receive half: what was read and what is buffered is the beginning   *)
(* of the answer, rcv counts it, and the FIN once everything is there.     *)
Received(s, q, r) ==
    /\ s.state = "SYN_SENT" => s.rcv = 0 /\ s.buf = << >> /\ r = << >>
    /\ s.state # "SYN_SENT" =>
          /\ q.state # "none"
          /\ Len(r) + Len(s.buf) <= q.written
          /\ \A k \in 1 .. Len(s.buf) : s.buf[k] = Len(r) + k
    /\ s.state \in Open => s.rcv = Seqn(Len(r) + Len(s.buf))
    /\ s.state \in Finished => /\ q.closed /\ Len(r) + Len(s.buf) = q.written
                               /\ s.rcv = Seqn(q.written + 1)

(* A step that touches neither buffer nor rcv keeps the receive half.      *)
LEMMA SameReceived ==
    ASSUME NEW s, NEW t, NEW q, NEW r, Received(s, q, r), t.buf = s.buf, t.rcv = s.rcv,
           t.state = "SYN_SENT" <=> s.state = "SYN_SENT",
           t.state \in Open => s.state \in Open,
           t.state \in Finished => s.state \in Finished
    PROVE  Received(t, q, r)
BY DEF Received

(* The server may not write beyond what has been read and the buffer.      *)
Granted(s, q, r) == s.state \notin Finished => q.edge <= Len(r) + BufferSize

(* The send half.  What the server acknowledges, the number after the last *)
(* byte sent, and what the numbers of a connection without doubt mean.     *)
AckOf(q) == Iss + 1 + q.took + (IF q.finned THEN 1 ELSE 0)
EndOf(s) == IF s.state \in After THEN s.next - 1 ELSE s.next

Sent(s, q, D) ==
    /\ s.una <= AckOf(q)
    /\ s.state \in Before => ~q.finned /\ s.next <= Iss + 1 + RequestSize
    /\ s.state \in After => s.next \in Iss + 2 .. Iss + 2 + RequestSize
    /\ s.state = "SYN_SENT" => q.took = 0
    /\ s.port \notin D => /\ q.took = 0 \/ Iss + 1 + q.took <= EndOf(s)
                          /\ s.state = "FIN_WAIT_2" => q.finned

(* The acknowledgement of the FIN is acted on at once. *)
Pending(s) == s.state \in {"FIN_WAIT_1", "LAST_ACK"} => s.una < s.next

Good(s, q, r, D) == Kept(s) /\ Received(s, q, r) /\ Granted(s, q, r) /\ Sent(s, q, D)

(* A segment of this connection on its way to the server: it acknowledges  *)
(* what was received and grants no more than there is room for.            *)
Grants(m, s, r) ==
    \E c \in 0 .. Len(r) + Len(s.buf) : m.ack = Seqn(c) /\ c + m.wnd <= Len(r) + BufferSize

OnWire(m, s, r, D) ==
    /\ "ACK" \in m.flags /\ s.state \notin Finished => Grants(m, s, r)
    /\ s.state \in Before => "FIN" \notin m.flags
    /\ s.state = "SYN_SENT" => m.data = << >>
    /\ s.port \notin D /\ m.data # << >> => m.seq > Iss /\ m.seq + Len(m.data) <= EndOf(s)

(* A segment on its way to this host. *)
Carries(m, q) ==
    \E from \in 0 .. q.written :
        /\ m.seq = Seqn(from)
        /\ \A k \in 1 .. Len(m.data) : m.data[k] = from + k
        /\ from + Len(m.data) <= q.written
        /\ "FIN" \in m.flags => q.closed /\ from + Len(m.data) = q.written

Comes(m, q) == /\ q.state # "none"
               /\ m.ack \in Iss + 1 .. AckOf(q)
               /\ m.data # << >> \/ "FIN" \in m.flags => Carries(m, q)
               /\ "SYN" \in m.flags => m.seq = PeerIss

Serves(q, r) == /\ q.state = "none" => q = NoPeer
                /\ q.written > 0 => q.took = RequestSize
                /\ 1 .. q.written \subseteq Unit
                /\ Len(r) <= q.written /\ \A k \in 1 .. Len(r) : r[k] = k
-----------------------------------------------------------------------------
Fresh(p) == p \notin doubt /\ ~ended[p]

SlotsOk ==
    /\ \A i \in Slot : Used(i) => slot[i].port \in 1 .. nextPort - 1
    /\ \A i \in Slot : ~Used(i) => Blank(slot[i])
    /\ \A i, j \in Slot : Used(i) /\ Used(j) /\ slot[i].port = slot[j].port => i = j

ConnectionsOk ==
    \A i \in Slot : Used(i) =>
        LET p == slot[i].port
        IN  Good(slot[i], peer[p], read[p], doubt) /\ Pending(slot[i])

WireOk ==
    /\ \A m \in toPeer :
          /\ m.port < nextPort
          /\ m.data = << >> \/ m.seq + Len(m.data) <= Iss + 1 + RequestSize
    /\ \A m \in toClient : Comes(m, peer[m.port])
    /\ \A i \in Slot, m \in toPeer : Used(i) /\ m.port = slot[i].port =>
          OnWire(m, slot[i], read[m.port], doubt)

ServersOk ==
    \A p \in Port : /\ Serves(peer[p], read[p])
                    /\ p >= nextPort => peer[p] = NoPeer /\ read[p] = << >> /\ Fresh(p)

(* Where the thread is tells what state the slot of its call may be in.    *)
Waits == {"check", "serve"}
Connecting(at, c) == at = "syn" \/ (at \in Waits /\ c.op = "connect")
Sending(at, c) == at = "chunk" \/ (at \in Waits /\ c.op = "send")
Closing(at, c) == at \in Waits /\ c.op = "close"
Receiving(at, c) == at \in {"open", "sent", "ready", "done"} \/ (at \in Waits /\ c.op = "wait")

Phase(at, c, s) ==
    /\ at = "syn" => c.op = "connect"
    /\ at = "chunk" => c.op = "send"
    /\ at \in Waits => c.op # "none"
    /\ at \in {"open", "chunk", "ready"} => s.state # "FREE"
    /\ s.state # "FREE" =>
          /\ Connecting(at, c) => s.state \in Before /\ s.next \in {Iss, Iss + 1}
          /\ Connecting(at, c) /\ at # "syn" => s.next = Iss + 1
          /\ Sending(at, c) => s.state \in Readable /\ s.next = Iss + 1 + RequestSize - c.left
          /\ Receiving(at, c) => s.state \in Readable /\ s.next >= Iss + 1 /\ s.una <= s.next
          /\ Closing(at, c) => s.state \in After
          /\ at \in Waits /\ c.op \in {"send", "close"} => c.target = s.next
          /\ at = "open" => s.next = Iss + 1
          /\ at = "ready" => s.buf # << >> \/ s.state = "CLOSE_WAIT"

CallOk ==
    /\ call.slot = NoSlot <=> pc = "idle"
    /\ \A i \in Slot : Used(i) /\ i # call.slot => slot[i].state = "FIN_WAIT_2"
    /\ pc # "idle" =>
          /\ Phase(pc, call, slot[call.slot])
          /\ Used(call.slot) => slot[call.slot].port = nextPort - 1
          /\ Used(call.slot) /\ pc # "done" /\ ~Closing(pc, call) => Fresh(nextPort - 1)
          /\ Connecting(pc, call) /\ pc # "syn" => retry < MaxRetries

IInv == Types /\ SlotsOk /\ ConnectionsOk /\ WireOk /\ ServersOk /\ CallOk
-----------------------------------------------------------------------------
LEMMA Sizes ==
    /\ SlotCount \in Nat /\ PortCount \in Nat /\ MaxRetries \in Nat /\ RingSize \in Nat
    /\ BufferSize \in Nat /\ BufferSize > 0 /\ MaxPayload \in Nat /\ MaxPayload > 0
    /\ RequestSize \in Nat /\ RequestSize > 0 /\ ChunkSize \in Nat /\ ChunkSize > 0
    /\ SeqSpace \in Nat /\ SeqSpace > 0 /\ Iss \in Nat
    /\ PeerIss \in Nat /\ PeerIss < SeqSpace /\ SegmentMax \in Nat
<1>1. /\ SlotCount \in Nat /\ PortCount \in Nat /\ MaxRetries \in Nat /\ RingSize \in Nat
      /\ Iss \in Nat
  BY ClientAssumption
<1>2. \A n \in {BufferSize, MaxPayload, RequestSize, ChunkSize, SeqSpace} :
          n \in Nat \ {0}
  BY ClientAssumption
<1>3. /\ BufferSize \in Nat \ {0} /\ MaxPayload \in Nat \ {0} /\ RequestSize \in Nat \ {0}
      /\ ChunkSize \in Nat \ {0} /\ SeqSpace \in Nat \ {0}
  BY <1>2
<1>4. PeerIss \in 0 .. SeqSpace - 1 /\ SegmentMax \in Nat
  BY ServerAssumption
<1>5. QED
  BY <1>1, <1>3, <1>4

(* Sequence numbers of the server, on the range an answer uses.            *)
LEMMA SeqnStep ==
    ASSUME NEW k \in Nat, NEW n \in Nat, k + n < SeqSpace
    PROVE  Seqn(k) \in 0 .. SeqSpace - 1 /\ (Seqn(k) + n) % SeqSpace = Seqn(k + n)
<1> USE Sizes
<1> DEFINE x == PeerIss + 1 + k
<1>1. x \in 0 .. 2 * SeqSpace - 1 /\ x + n \in 0 .. 2 * SeqSpace - 1
  OBVIOUS
<1>2. /\ Seqn(k) = IF x < SeqSpace THEN x ELSE x - SeqSpace
      /\ Seqn(k) \in 0 .. SeqSpace - 1
  BY <1>1, ModOnce DEF Seqn
<1>3. Seqn(k + n) = (x + n) % SeqSpace
  BY DEF Seqn
<1>4. CASE x < SeqSpace
  BY <1>2, <1>3, <1>4
<1>5. CASE x >= SeqSpace
  <2>1. x + n - SeqSpace \in 0 .. 2 * SeqSpace - 1 /\ x + n - SeqSpace < SeqSpace
    BY <1>5
  <2>2. (x + n - SeqSpace) % SeqSpace = x + n - SeqSpace
    BY <2>1, ModOnce
  <2>3. (x + n) % SeqSpace = x + n - SeqSpace
    BY <1>1, <1>5, ModOnce
  <2>4. QED
    BY <2>2, <2>3, <1>2, <1>3, <1>5
<1>6. QED
  BY <1>1, <1>2, <1>4, <1>5

LEMMA SeqnSame ==
    ASSUME NEW j \in 0 .. SeqSpace - 1, NEW k \in 0 .. SeqSpace - 1, Seqn(j) = Seqn(k)
    PROVE  j = k
<1> USE Sizes
<1>1. /\ PeerIss + 1 + j \in 0 .. 2 * SeqSpace - 1
      /\ PeerIss + 1 + k \in 0 .. 2 * SeqSpace - 1
  OBVIOUS
<1>2. Seqn(j) = IF PeerIss + 1 + j < SeqSpace THEN PeerIss + 1 + j
                ELSE PeerIss + 1 + j - SeqSpace
  BY <1>1, ModOnce DEF Seqn
<1>3. Seqn(k) = IF PeerIss + 1 + k < SeqSpace THEN PeerIss + 1 + k
                ELSE PeerIss + 1 + k - SeqSpace
  BY <1>1, ModOnce DEF Seqn
<1>4. j # k => (IF PeerIss + 1 + j < SeqSpace THEN PeerIss + 1 + j
                ELSE PeerIss + 1 + j - SeqSpace)
               # (IF PeerIss + 1 + k < SeqSpace THEN PeerIss + 1 + k
                  ELSE PeerIss + 1 + k - SeqSpace)
  OBVIOUS
<1>5. QED
  BY <1>2, <1>3, <1>4, Zenon

LEMMA SeqnBack ==
    ASSUME NEW k \in 0 .. SeqSpace - 1
    PROVE  (Seqn(k) - PeerIss - 1) % SeqSpace = k
<1> USE Sizes
<1>1. PeerIss + 1 + k \in 0 .. 2 * SeqSpace - 1
  OBVIOUS
<1>2. Seqn(k) = IF PeerIss + 1 + k < SeqSpace THEN PeerIss + 1 + k
                ELSE PeerIss + 1 + k - SeqSpace
  BY <1>1, ModOnce DEF Seqn
<1>3. Seqn(k) - PeerIss - 1 = k \/ Seqn(k) - PeerIss - 1 = k - SeqSpace
  BY <1>2
<1>4. k % SeqSpace = k /\ (k - SeqSpace) % SeqSpace = k
  OBVIOUS
<1>5. QED
  BY <1>3, <1>4

(* The handler of one segment on one connection, in the code's steps.      *)
LEMMA AckKeeps ==
    ASSUME NEW s \in Connection, NEW q \in Server, NEW r \in Seq(Nat), NEW D \in SUBSET Port,
           NEW m \in Incoming, Comes(m, q), Good(s, q, r, D)
    PROVE  /\ AfterAck(s, m) \in Connection /\ Good(AfterAck(s, m), q, r, D)
           /\ \E a \in Nat : AfterAck(s, m) = [s EXCEPT !.una = a]
<1> DEFINE t == AfterAck(s, m)
<1>1. m.ack \in Nat /\ m.ack <= AckOf(q)
  BY Sizes DEF Comes, AckOf, Incoming, Server
<1>2. PICK a \in Nat : t = [s EXCEPT !.una = a] /\ a <= AckOf(q)
  BY <1>1 DEF AfterAck, Connection, Good, Sent
<1>3. t \in Connection
  BY <1>2 DEF Connection
<1>4. /\ t.una = a /\ t.state = s.state /\ t.next = s.next /\ t.buf = s.buf /\ t.rcv = s.rcv
      /\ t.wnd = s.wnd /\ t.iss = s.iss
  BY <1>2 DEF Connection
<1>5. Kept(t) /\ Received(t, q, r) /\ Granted(t, q, r)
  BY <1>4 DEF Good, Kept, Received, Granted
<1>6. Sent(t, q, D)
  BY <1>4, <1>2 DEF Good, Sent, EndOf
<1>7. QED
  BY <1>2, <1>3, <1>5, <1>6 DEF Good

LEMMA OpensKeeps ==
    ASSUME NEW s \in Connection, NEW q \in Server, NEW r \in Seq(Nat), NEW D \in SUBSET Port,
           NEW m \in Incoming, Comes(m, q), Good(s, q, r, D), Opens(s, m)
    PROVE  /\ Opened(s, m) \in Connection /\ Good(Opened(s, m), q, r, D)
           /\ Opened(s, m).state = "ESTABLISHED" /\ Opened(s, m).port = s.port
           /\ Opened(s, m).next = s.next /\ Opened(s, m).buf = s.buf
           /\ Opened(s, m).rcv = Seqn(0)
<1> DEFINE t == Opened(s, m)
<1> USE Sizes
<1>1. m.seq = PeerIss /\ m.ack \in Nat /\ m.ack <= AckOf(q) /\ q.state # "none"
  BY DEF Comes, AckOf, Incoming, Server, Opens
<1>2. (m.seq + 1) % SeqSpace = Seqn(0)
  BY <1>1 DEF Seqn
<1>3. Seqn(0) \in 0 .. SeqSpace - 1
  BY SeqnStep
<1>4. t = [s EXCEPT !.rcv = Seqn(0), !.una = m.ack, !.state = "ESTABLISHED"]
  BY <1>2 DEF Opened
<1>5. t \in Connection
  BY <1>1, <1>3, <1>4 DEF Connection, Before, After
<1>6. /\ t.una = m.ack /\ t.state = "ESTABLISHED" /\ t.next = s.next /\ t.buf = s.buf
      /\ t.rcv = Seqn(0) /\ t.wnd = s.wnd /\ t.iss = s.iss /\ t.port = s.port
      /\ s.state = "SYN_SENT"
  BY <1>4 DEF Connection, Opens
<1>7. Kept(t) /\ Granted(t, q, r)
  BY <1>6 DEF Good, Kept, Granted, Finished
<1>8. s.buf = << >> /\ r = << >>
  BY <1>6 DEF Good, Received
<1>9. Received(t, q, r)
  BY <1>6, <1>1, <1>8 DEF Received, Finished, Server
<1>10. Sent(t, q, D)
  BY <1>6, <1>1 DEF Good, Sent, EndOf, Before, After
<1>11. QED
  BY <1>5, <1>6, <1>7, <1>9, <1>10 DEF Good

(* Data in order comes right behind what is there, and only while more may *)
(* come.                                                                   *)
LEMMA DataIsNext ==
    ASSUME NEW s \in Connection, NEW q \in Server, NEW r \in Seq(Nat), NEW D \in SUBSET Port,
           NEW m \in Incoming, Comes(m, q), Good(s, q, r, D), Serves(q, r),
           s.state # "FREE", m.data # << >>, m.seq = s.rcv
    PROVE  /\ s.state \in Open
           /\ \A k \in 1 .. Len(m.data) : m.data[k] = Len(r) + Len(s.buf) + k
           /\ Len(r) + Len(s.buf) + Len(m.data) <= q.written
<1> USE Sizes
<1>1. PICK from \in 0 .. q.written :
          /\ m.seq = Seqn(from)
          /\ \A k \in 1 .. Len(m.data) : m.data[k] = from + k
          /\ from + Len(m.data) <= q.written
  BY DEF Comes, Carries
<1>2. q.written \in 0 .. SeqSpace - 3 /\ Len(m.data) \in Nat /\ Len(m.data) > 0
  BY DEF Server, Incoming
<1>3. s.state # "SYN_SENT"
  BY <1>1, <1>2 DEF Good, Sent, Serves
<1>4. s.state \notin Finished
  <2>1. SUFFICES ASSUME s.state \in Finished
                 PROVE  FALSE
    OBVIOUS
  <2>2. Seqn(from) = Seqn(q.written + 1)
    BY <1>1, <2>1 DEF Good, Received
  <2>3. from \in 0 .. SeqSpace - 1 /\ q.written + 1 \in 0 .. SeqSpace - 1
    BY <1>2
  <2>4. from = q.written + 1
    BY <2>2, <2>3, SeqnSame
  <2>5. QED
    BY <2>4, <1>2
<1>5. s.state \in Open
  BY <1>3, <1>4 DEF Connection, Before, After, Open, Finished
<1>6. /\ s.rcv = Seqn(Len(r) + Len(s.buf)) /\ Len(r) + Len(s.buf) <= q.written
      /\ Len(r) + Len(s.buf) \in Nat
  BY <1>3, <1>5 DEF Good, Received, Connection
<1>7. from = Len(r) + Len(s.buf)
  <2>1. from \in 0 .. SeqSpace - 1 /\ Len(r) + Len(s.buf) \in 0 .. SeqSpace - 1
    BY <1>2, <1>6
  <2>2. QED
    BY <2>1, <1>1, <1>6, SeqnSame
<1>8. QED
  BY <1>5, <1>7, <1>1

LEMMA SmallerIs ==
    ASSUME NEW m \in Nat, NEW n \in Nat
    PROVE  Smaller(m, n) \in 0 .. m /\ Smaller(m, n) <= n
BY DEF Smaller

(* The beginning of e behind b. *)
LEMMA Joined ==
    ASSUME NEW b \in Seq(Nat), NEW e \in Seq(Nat), NEW n \in 0 .. Len(e)
    PROVE  /\ b \o SubSeq(e, 1, n) \in Seq(Nat)
           /\ Len(b \o SubSeq(e, 1, n)) = Len(b) + n
           /\ \A k \in 1 .. Len(b) : (b \o SubSeq(e, 1, n))[k] = b[k]
           /\ \A k \in 1 .. n : (b \o SubSeq(e, 1, n))[Len(b) + k] = e[k]
<1>1. /\ SubSeq(e, 1, n) \in Seq(Nat) /\ Len(SubSeq(e, 1, n)) = n
      /\ \A k \in 1 .. n : SubSeq(e, 1, n)[k] = e[k]
  OBVIOUS
<1>2. QED
  BY <1>1

(* What is copied into the buffer goes on counting from what was read.     *)
LEMMA Copied ==
    ASSUME NEW r \in Seq(Nat), NEW b \in Seq(Nat), NEW e \in Seq(Nat),
           NEW w \in 0 .. SeqSpace - 3, NEW n \in 0 .. Len(e),
           Len(r) + Len(b) + Len(e) <= w, n <= BufferSize - Len(b),
           \A k \in 1 .. Len(b) : b[k] = Len(r) + k,
           \A k \in 1 .. Len(e) : e[k] = Len(r) + Len(b) + k
    PROVE  LET c == b \o SubSeq(e, 1, n)
           IN  /\ c \in Seq(Nat) /\ Len(c) >= Len(b) /\ Len(r) + Len(c) <= w
               /\ BufferSize - Len(c) \in 0 .. BufferSize
               /\ \A k \in 1 .. Len(c) : c[k] = Len(r) + k
               /\ (Seqn(Len(r) + Len(b)) + n) % SeqSpace = Seqn(Len(r) + Len(c))
               /\ Seqn(Len(r) + Len(c)) \in 0 .. SeqSpace - 1
<1> DEFINE c == b \o SubSeq(e, 1, n)
<1> USE Sizes
<1>1. /\ c \in Seq(Nat) /\ Len(c) = Len(b) + n
      /\ \A k \in 1 .. Len(b) : c[k] = b[k]
      /\ \A k \in 1 .. n : c[Len(b) + k] = e[k]
  BY Joined
<1> HIDE DEF c
<1>2. Len(c) >= Len(b) /\ Len(r) + Len(c) <= w /\ BufferSize - Len(c) \in 0 .. BufferSize
  BY <1>1
<1>3. ASSUME NEW k \in 1 .. Len(c)
      PROVE  c[k] = Len(r) + k
  <2>1. CASE k <= Len(b)
    BY <2>1, <1>1
  <2>2. CASE k > Len(b)
    <3>1. k - Len(b) \in 1 .. n /\ k = Len(b) + (k - Len(b)) /\ k - Len(b) \in 1 .. Len(e)
      BY <2>2, <1>1
    <3>2. c[k] = e[k - Len(b)]
      BY <3>1, <1>1
    <3>3. e[k - Len(b)] = Len(r) + Len(b) + (k - Len(b))
      BY <3>1
    <3>4. QED
      BY <3>2, <3>3
  <2>3. QED
    BY <2>1, <2>2
<1>4. (Seqn(Len(r) + Len(b)) + n) % SeqSpace = Seqn(Len(r) + Len(c))
  <2>1. Len(r) + Len(b) \in Nat /\ n \in Nat /\ Len(r) + Len(b) + n < SeqSpace
        /\ Len(r) + Len(b) + n = Len(r) + Len(c)
    BY <1>1
  <2>2. QED
    BY <2>1, SeqnStep
<1>5. Seqn(Len(r) + Len(c)) \in 0 .. SeqSpace - 1
  <2>1. Len(r) + Len(c) \in Nat /\ Len(r) + Len(c) + 0 < SeqSpace
    BY <1>1
  <2>2. QED
    BY <2>1, SeqnStep
<1>6. QED
  BY <1>1, <1>2, <1>3, <1>4, <1>5 DEF c

LEMMA DataKeeps ==
    ASSUME NEW s \in Connection, NEW q \in Server, NEW r \in Seq(Nat), NEW D \in SUBSET Port,
           NEW m \in Incoming, Comes(m, q), Good(s, q, r, D), Serves(q, r), s.state # "FREE"
    PROVE  /\ AfterData(s, m) \in Connection /\ Good(AfterData(s, m), q, r, D)
           /\ AfterData(s, m).state = s.state /\ AfterData(s, m).port = s.port
           /\ AfterData(s, m).next = s.next /\ Len(AfterData(s, m).buf) >= Len(s.buf)
<1> DEFINE t == AfterData(s, m)
<1> USE Sizes
<1>1. CASE m.data # << >> /\ m.seq = s.rcv
  <2> DEFINE n == Smaller(Len(m.data), BufferSize - Len(s.buf))
             b == s.buf \o SubSeq(m.data, 1, n)
  <2>1. /\ s.state \in Open
        /\ \A k \in 1 .. Len(m.data) : m.data[k] = Len(r) + Len(s.buf) + k
        /\ Len(r) + Len(s.buf) + Len(m.data) <= q.written
    BY <1>1, DataIsNext
  <2>2. s.wnd \in 0 .. BufferSize /\ s.buf \in Seq(Nat)
    BY DEF Connection
  <2>3. m.data \in Seq(Nat) /\ q.written \in 0 .. SeqSpace - 3
    BY DEF Incoming, Server
  <2>4. Len(m.data) \in Nat /\ BufferSize - Len(s.buf) \in Nat
    BY <2>2, <2>3 DEF Good, Kept
  <2>5. n \in 0 .. Len(m.data) /\ n <= BufferSize - Len(s.buf)
    BY <2>4, SmallerIs
  <2> HIDE DEF n
  <2>6. s.rcv = Seqn(Len(r) + Len(s.buf)) /\ \A k \in 1 .. Len(s.buf) : s.buf[k] = Len(r) + k
    BY <2>1 DEF Good, Received, Open
  <2>7. /\ b \in Seq(Nat) /\ Len(b) >= Len(s.buf) /\ Len(r) + Len(b) <= q.written
        /\ BufferSize - Len(b) \in 0 .. BufferSize
        /\ \A k \in 1 .. Len(b) : b[k] = Len(r) + k
        /\ (Seqn(Len(r) + Len(s.buf)) + n) % SeqSpace = Seqn(Len(r) + Len(b))
        /\ Seqn(Len(r) + Len(b)) \in 0 .. SeqSpace - 1
    BY <2>1, <2>2, <2>3, <2>5, <2>6, Copied
  <2>8. t = [s EXCEPT !.rcv = Seqn(Len(r) + Len(b)), !.wnd = BufferSize - Len(b), !.buf = b]
    BY <1>1, <2>6, <2>7 DEF AfterData, Window, n, Connection
  <2> HIDE DEF b
  <2>9. t \in Connection
    BY <2>7, <2>8 DEF Connection
  <2>10. /\ t.state = s.state /\ t.una = s.una /\ t.next = s.next /\ t.iss = s.iss /\ t.buf = b
         /\ t.wnd = BufferSize - Len(b) /\ t.rcv = Seqn(Len(r) + Len(b)) /\ t.port = s.port
    BY <2>8 DEF Connection
  <2>11. Kept(t) /\ Granted(t, q, r) /\ Sent(t, q, D)
    BY <2>10 DEF Good, Kept, Granted, Sent, EndOf
  <2>12. q.state # "none" /\ s.state # "SYN_SENT"
    BY <2>1 DEF Good, Received, Open
  <2>13. Received(t, q, r)
    BY <2>12, <2>1, <2>10, <2>7 DEF Received, Open, Finished
  <2>14. Good(t, q, r, D)
    BY <2>11, <2>13 DEF Good
  <2>15. QED
    BY <2>7, <2>9, <2>10, <2>14
<1>2. CASE ~(m.data # << >> /\ m.seq = s.rcv)
  <2>1. t = s
    BY <1>2 DEF AfterData
  <2>2. Len(s.buf) >= Len(s.buf)
    BY DEF Connection
  <2>3. QED
    BY <2>1, <2>2
<1>3. QED
  BY <1>1, <1>2

(* A FIN in order is the first one, and everything before it is there.     *)
LEMMA FinIsLast ==
    ASSUME NEW s \in Connection, NEW q \in Server, NEW r \in Seq(Nat), NEW D \in SUBSET Port,
           NEW m \in Incoming, Comes(m, q), Good(s, q, r, D), Serves(q, r),
           s.state # "FREE", FinInOrder(s, m)
    PROVE  /\ s.state \notin Finished /\ q.closed /\ Len(r) + Len(s.buf) = q.written
           /\ (s.rcv + 1) % SeqSpace = Seqn(q.written + 1)
           /\ Seqn(q.written + 1) \in 0 .. SeqSpace - 1
<1> USE Sizes
<1>1. PICK from \in 0 .. q.written :
          /\ m.seq = Seqn(from) /\ from + Len(m.data) = q.written /\ q.closed
  BY DEF Comes, Carries, FinInOrder
<1>2. q.written \in 0 .. SeqSpace - 3 /\ m.data \in Seq(Nat)
  BY DEF Server, Incoming
<1>3. s.rcv = Seqn(q.written)
  <2>1. from \in Nat /\ Len(m.data) \in Nat /\ from + Len(m.data) < SeqSpace
    BY <1>1, <1>2
  <2>2. (Seqn(from) + Len(m.data)) % SeqSpace = Seqn(from + Len(m.data))
    BY <2>1, SeqnStep
  <2>3. QED
    BY <2>2, <1>1 DEF FinInOrder
<1>4. q.written \in 0 .. SeqSpace - 1 /\ q.written + 1 \in 0 .. SeqSpace - 1
      /\ q.written # q.written + 1
  BY <1>2
<1>5. s.state \notin Finished
  <2>1. Seqn(q.written) # Seqn(q.written + 1)
    BY <1>4, SeqnSame
  <2>2. QED
    BY <2>1, <1>3 DEF Good, Received
<1>6. Len(r) + Len(s.buf) = q.written
  <2>1. CASE s.state = "SYN_SENT"
    <3>1. q.written = 0
      BY <2>1, <1>2 DEF Good, Sent, Serves
    <3>2. s.buf = << >> /\ r = << >>
      BY <2>1 DEF Good, Received
    <3>3. QED
      BY <3>1, <3>2
  <2>2. CASE s.state # "SYN_SENT"
    <3>1. s.state \in Open
      BY <2>2, <1>5 DEF Connection, Before, After, Open, Finished
    <3>2. s.buf \in Seq(Nat)
      BY DEF Connection
    <3>3. /\ s.rcv = Seqn(Len(r) + Len(s.buf)) /\ Len(r) + Len(s.buf) <= q.written
          /\ Len(r) + Len(s.buf) \in Nat
      BY <3>1, <2>2, <3>2 DEF Good, Received
    <3>4. Len(r) + Len(s.buf) \in 0 .. SeqSpace - 1
      BY <3>3, <1>2
    <3>5. QED
      BY <3>3, <3>4, <1>3, <1>4, SeqnSame
  <2>3. QED
    BY <2>1, <2>2
<1>7. (s.rcv + 1) % SeqSpace = Seqn(q.written + 1)
  BY <1>2, <1>3, SeqnStep
<1>8. Seqn(q.written + 1) \in 0 .. SeqSpace - 1
  <2>1. q.written + 1 \in Nat /\ q.written + 1 + 0 < SeqSpace
    BY <1>2
  <2>2. QED
    BY <2>1, SeqnStep
<1>9. QED
  BY <1>1, <1>5, <1>6, <1>7, <1>8

LEMMA FinKeeps ==
    ASSUME NEW s \in Connection, NEW q \in Server, NEW r \in Seq(Nat), NEW D \in SUBSET Port,
           NEW m \in Incoming, Comes(m, q), Good(s, q, r, D), Serves(q, r), s.state # "FREE"
    PROVE  \/ AfterFin(s, m) = Free
           \/ /\ AfterFin(s, m) \in Connection /\ Good(AfterFin(s, m), q, r, D)
              /\ AfterFin(s, m).port = s.port /\ AfterFin(s, m).next = s.next
              /\ AfterFin(s, m).buf = s.buf
              /\ FinInOrder(s, m) => AfterFin(s, m).state = "CLOSE_WAIT"
              /\ AfterFin(s, m).state # s.state =>
                    /\ s.state \in {"SYN_SENT", "ESTABLISHED"}
                    /\ AfterFin(s, m).state = "CLOSE_WAIT"
<1> DEFINE t == AfterFin(s, m)
<1>1. CASE ~FinInOrder(s, m)
  <2>1. t = s
    BY <1>1 DEF AfterFin
  <2>2. QED
    BY <2>1, <1>1
<1>2. CASE FinInOrder(s, m) /\ s.state \in {"FIN_WAIT_1", "FIN_WAIT_2"}
  BY <1>2 DEF AfterFin
<1>3. CASE FinInOrder(s, m) /\ s.state \notin {"FIN_WAIT_1", "FIN_WAIT_2"}
  <2> DEFINE n == Seqn(q.written + 1)
  <2>1. /\ s.state \notin Finished /\ q.closed /\ Len(r) + Len(s.buf) = q.written
        /\ (s.rcv + 1) % SeqSpace = n /\ n \in 0 .. SeqSpace - 1
    BY <1>3, FinIsLast
  <2>2. s.state \in {"SYN_SENT", "ESTABLISHED"}
    BY <2>1, <1>3 DEF Connection, Before, After, Finished
  <2>3. t = [s EXCEPT !.rcv = n, !.state = "CLOSE_WAIT"]
    BY <1>3, <2>1 DEF AfterFin
  <2> HIDE DEF n
  <2>4. t \in Connection
    BY <2>1, <2>3 DEF Connection, Before
  <2>5. /\ t.state = "CLOSE_WAIT" /\ t.una = s.una /\ t.next = s.next /\ t.iss = s.iss
        /\ t.wnd = s.wnd /\ t.buf = s.buf /\ t.rcv = n /\ t.port = s.port
    BY <2>3 DEF Connection
  <2>6. Kept(t) /\ Granted(t, q, r) /\ Sent(t, q, D)
    BY <2>2, <2>5 DEF Good, Kept, Granted, Finished, Sent, EndOf, Before, After
  <2>7. q.state # "none"
    BY DEF Comes
  <2>8. Len(r) + Len(s.buf) <= q.written /\ \A k \in 1 .. Len(s.buf) : s.buf[k] = Len(r) + k
    <3>1. CASE s.state = "SYN_SENT"
      <4>1. s.buf = << >>
        BY <3>1 DEF Good, Received
      <4>2. q.written \in Nat
        BY Sizes DEF Server
      <4>3. QED
        BY <4>1, <4>2, <2>1
    <3>2. CASE s.state = "ESTABLISHED"
      BY <3>2 DEF Good, Received
    <3>3. QED
      BY <2>2, <3>1, <3>2
  <2>9. Received(t, q, r)
    BY <2>1, <2>5, <2>7, <2>8 DEF Received, Open, Finished, n
  <2>10. QED
    BY <2>2, <2>4, <2>5, <2>6, <2>9 DEF Good
<1>4. QED
  BY <1>1, <1>2, <1>3

LEMMA ClosingKeeps ==
    ASSUME NEW s \in Connection, NEW q \in Server, NEW r \in Seq(Nat), NEW D \in SUBSET Port,
           Good(s, q, r, D), s.state # "FREE"
    PROVE  \/ AfterClosing(s) = Free
           \/ /\ AfterClosing(s) \in Connection /\ Good(AfterClosing(s), q, r, D)
              /\ Pending(AfterClosing(s))
              /\ AfterClosing(s).port = s.port /\ AfterClosing(s).next = s.next
              /\ AfterClosing(s).buf = s.buf
              /\ AfterClosing(s).state # s.state =>
                    s.state = "FIN_WAIT_1" /\ AfterClosing(s).state = "FIN_WAIT_2"
<1> DEFINE t == AfterClosing(s)
<1> USE Sizes
<1>1. s.una \in Nat /\ s.next \in Nat
  BY DEF Connection
<1>2. CASE s.state = "FIN_WAIT_1" /\ s.una >= s.next
  <2>1. t = [s EXCEPT !.state = "FIN_WAIT_2"]
    BY <1>2 DEF AfterClosing
  <2>2. t \in Connection
    BY <2>1 DEF Connection, After
  <2>3. /\ t.state = "FIN_WAIT_2" /\ t.una = s.una /\ t.next = s.next /\ t.iss = s.iss
        /\ t.wnd = s.wnd /\ t.buf = s.buf /\ t.rcv = s.rcv /\ t.port = s.port
    BY <2>1 DEF Connection
  <2>4. Kept(t) /\ Granted(t, q, r) /\ Received(t, q, r) /\ Pending(t)
    BY <1>2, <2>3 DEF Good, Kept, Granted, Received, Finished, Open, Pending
  <2>5. /\ s.una <= AckOf(q) /\ s.next \in Iss + 2 .. Iss + 2 + RequestSize
    BY <1>2 DEF Good, Sent, After
  <2>6. s.port \notin D => q.took = 0 \/ Iss + 1 + q.took <= s.next - 1
    <3>1. EndOf(s) = s.next - 1
      BY <1>2 DEF EndOf, After
    <3>2. QED
      BY <3>1 DEF Good, Sent
  <2>7. s.port \notin D => q.finned
    BY <2>5, <2>6, <1>1, <1>2, SMTT(30) DEF AckOf, Server
  <2>8. Sent(t, q, D)
    BY <2>3, <2>5, <2>6, <2>7 DEF Sent, EndOf, After, Before
  <2>9. QED
    BY <1>2, <2>2, <2>3, <2>4, <2>8 DEF Good
<1>3. CASE s.state = "LAST_ACK" /\ s.una >= s.next
  BY <1>3 DEF AfterClosing
<1>4. CASE s.state \notin {"FIN_WAIT_1", "LAST_ACK"} \/ ~(s.una >= s.next)
  <2>1. t = s
    BY <1>4 DEF AfterClosing
  <2>2. Pending(s)
    BY <1>1, <1>4 DEF Pending
  <2>3. QED
    BY <2>1, <2>2
<1>5. QED
  BY <1>2, <1>3, <1>4

(* What one segment may make of the state of a connection.                 *)
Move(a, b) == \/ b = a
              \/ a \in {"SYN_SENT", "ESTABLISHED"} /\ b = "CLOSE_WAIT"
              \/ a = "SYN_SENT" /\ b = "ESTABLISHED"
              \/ a = "FIN_WAIT_1" /\ b = "FIN_WAIT_2"

Follows(t, s) == /\ Move(s.state, t.state) /\ t.port = s.port /\ t.next = s.next
                 /\ Len(t.buf) >= Len(s.buf)

(* The answer to data is given before the acknowledgement counts.          *)
LEMMA DataAfterAck ==
    ASSUME NEW s \in Connection, NEW q \in Server, NEW r \in Seq(Nat), NEW D \in SUBSET Port,
           NEW m \in Incoming, Comes(m, q), Good(s, q, r, D), Serves(q, r), s.state # "FREE"
    PROVE  \E f \in Connection :
              /\ AfterData(AfterAck(s, m), m) = f /\ Good(f, q, r, D)
              /\ f.state = s.state /\ f.port = s.port /\ f.next = s.next
              /\ Len(f.buf) >= Len(s.buf)
              /\ f.rcv = AfterData(s, m).rcv /\ f.buf = AfterData(s, m).buf
<1>1. PICK a \in Nat : AfterAck(s, m) = [s EXCEPT !.una = a]
  BY AckKeeps
<1> DEFINE e == AfterAck(s, m)
           f == AfterData(e, m)
<1>2. e \in Connection /\ Good(e, q, r, D)
  BY AckKeeps
<1>3. /\ e.state = s.state /\ e.port = s.port /\ e.next = s.next /\ e.buf = s.buf
      /\ e.rcv = s.rcv /\ e.wnd = s.wnd
  BY <1>1 DEF Connection
<1>4. f.rcv = AfterData(s, m).rcv /\ f.buf = AfterData(s, m).buf
  <2> DEFINE n == Smaller(Len(m.data), BufferSize - Len(s.buf))
             b == s.buf \o SubSeq(m.data, 1, n)
             k == (s.rcv + n) % SeqSpace
  <2> HIDE DEF n, b, k
  <2>1. CASE m.data # << >> /\ m.seq = s.rcv
    <3>1. f = [e EXCEPT !.rcv = k, !.buf = b, !.wnd = BufferSize - Len(b)]
      BY <1>1, <1>3, <2>1 DEF AfterData, Window, n, b, k, Connection
    <3>2. AfterData(s, m) = [s EXCEPT !.rcv = k, !.buf = b, !.wnd = BufferSize - Len(b)]
      BY <2>1 DEF AfterData, Window, n, b, k, Connection
    <3>3. f.rcv = k /\ f.buf = b
      BY <3>1, <1>2 DEF Connection
    <3>4. AfterData(s, m).rcv = k /\ AfterData(s, m).buf = b
      BY <3>2 DEF Connection
    <3>5. QED
      BY <3>3, <3>4
  <2>2. CASE ~(m.data # << >> /\ m.seq = s.rcv)
    <3>1. f = e /\ AfterData(s, m) = s
      BY <1>3, <2>2 DEF AfterData
    <3>2. QED
      BY <3>1, <1>3
  <2>3. QED
    BY <2>1, <2>2
<1> HIDE DEF e, f
<1>5. /\ f \in Connection /\ Good(f, q, r, D) /\ f.state = e.state /\ f.port = e.port
      /\ f.next = e.next /\ Len(f.buf) >= Len(e.buf)
  BY <1>2, <1>3, DataKeeps DEF f
<1>6. QED
  BY <1>3, <1>4, <1>5 DEF e, f

LEMMA HandledKeeps ==
    ASSUME NEW s \in Connection, NEW q \in Server, NEW r \in Seq(Nat), NEW D \in SUBSET Port,
           NEW m \in Incoming, Comes(m, q), Good(s, q, r, D), Serves(q, r), Pending(s),
           s.state # "FREE"
    PROVE  \/ Handled(s, m) = Free
           \/ /\ Handled(s, m) \in Connection /\ Good(Handled(s, m), q, r, D)
              /\ Pending(Handled(s, m)) /\ Follows(Handled(s, m), s)
              /\ "RST" \notin m.flags
              /\ ~Opens(s, m) => /\ Handled(s, m).buf = AfterData(s, m).buf
                                 /\ FinInOrder(AfterData(s, m), m) =>
                                       Handled(s, m).state = "CLOSE_WAIT"
<1> DEFINE t == Handled(s, m)
<1>1. CASE "RST" \in m.flags
  BY <1>1 DEF Handled
<1>2. CASE "RST" \notin m.flags /\ Opens(s, m)
  <2> DEFINE e == AfterAck(s, m)
  <2>1. PICK a \in Nat : e = [s EXCEPT !.una = a]
    BY AckKeeps
  <2>2. e \in Connection /\ Good(e, q, r, D)
    BY AckKeeps
  <2>3. /\ e.state = "SYN_SENT" /\ e.port = s.port /\ e.next = s.next /\ e.buf = s.buf
        /\ Opens(e, m)
    BY <1>2, <2>1 DEF Connection, Opens
  <2> HIDE DEF e
  <2>4. /\ Opened(e, m) \in Connection /\ Good(Opened(e, m), q, r, D)
        /\ Opened(e, m).state = "ESTABLISHED" /\ Opened(e, m).port = e.port
        /\ Opened(e, m).next = e.next /\ Opened(e, m).buf = e.buf
    BY <2>2, <2>3, OpensKeeps
  <2>5. t = Opened(e, m)
    BY <1>2 DEF Handled, e
  <2>6. t.state = "ESTABLISHED" /\ t.port = s.port /\ t.next = s.next /\ t.buf = s.buf
    BY <2>3, <2>4, <2>5
  <2>7. Len(s.buf) >= Len(s.buf)
    BY DEF Connection
  <2>8. Follows(t, s) /\ Pending(t)
    BY <1>2, <2>6, <2>7 DEF Follows, Move, Pending, Opens
  <2>9. QED
    BY <1>2, <2>4, <2>5, <2>8
<1>3. CASE "RST" \notin m.flags /\ ~Opens(s, m)
  <2>1. PICK f \in Connection :
            /\ AfterData(AfterAck(s, m), m) = f /\ Good(f, q, r, D)
            /\ f.state = s.state /\ f.port = s.port /\ f.next = s.next
            /\ Len(f.buf) >= Len(s.buf)
            /\ f.rcv = AfterData(s, m).rcv /\ f.buf = AfterData(s, m).buf
    BY DataAfterAck
  <2> DEFINE g == AfterFin(f, m)
  <2>2. t = AfterClosing(g)
    BY <1>3, <2>1 DEF Handled
  <2>3. CASE g = Free
    BY <2>2, <2>3 DEF AfterClosing, Free
  <2>4. CASE g # Free
    <3>1. /\ g \in Connection /\ Good(g, q, r, D) /\ g.port = f.port /\ g.next = f.next
          /\ g.buf = f.buf
          /\ g.state # f.state =>
                f.state \in {"SYN_SENT", "ESTABLISHED"} /\ g.state = "CLOSE_WAIT"
          /\ FinInOrder(f, m) => g.state = "CLOSE_WAIT"
      BY <2>1, <2>4, FinKeeps
    <3> HIDE DEF g
    <3>2. g.state # "FREE"
      BY <3>1, <2>1
    <3>3. \/ t = Free
          \/ /\ t \in Connection /\ Good(t, q, r, D) /\ Pending(t)
             /\ t.port = g.port /\ t.next = g.next /\ t.buf = g.buf
             /\ t.state # g.state => g.state = "FIN_WAIT_1" /\ t.state = "FIN_WAIT_2"
      BY <2>2, <3>1, <3>2, ClosingKeeps
    <3>4. CASE t # Free
      <4>1. Follows(t, s)
        BY <3>4, <3>3, <3>1, <2>1 DEF Follows, Move
      <4>2. FinInOrder(AfterData(s, m), m) => t.state = "CLOSE_WAIT"
        BY <3>4, <3>3, <3>1, <2>1 DEF FinInOrder
      <4>3. t.buf = AfterData(s, m).buf
        BY <3>4, <3>3, <3>1, <2>1
      <4>4. QED
        BY <4>1, <4>2, <4>3, <3>3, <3>4, <1>3
    <3>5. QED
      BY <3>4
  <2>5. QED
    BY <2>3, <2>4
<1>4. QED
  BY <1>1, <1>2, <1>3

(* Nothing on the wire is made wrong by a segment that was handled, nor is *)
(* the answer to it.                                                       *)
LEMMA WireKeeps ==
    ASSUME NEW s \in Connection, NEW t \in Connection, NEW r \in Seq(Nat), NEW D \in SUBSET Port,
           NEW a \in Outgoing, OnWire(a, s, r, D), Follows(t, s), s.state # "FREE"
    PROVE  OnWire(a, t, r, D)
<1>1. /\ t.state \notin Finished => s.state \notin Finished
      /\ t.state \in Before => s.state \in Before
      /\ t.state = "SYN_SENT" => s.state = "SYN_SENT"
      /\ t.state \in After <=> s.state \in After
  BY DEF Follows, Move, Finished, Before, After, Connection
<1>2. EndOf(t) = EndOf(s)
  BY <1>1 DEF EndOf, Follows
<1>3. Grants(a, s, r) => Grants(a, t, r)
  <2>1. SUFFICES ASSUME Grants(a, s, r)
                 PROVE  Grants(a, t, r)
    OBVIOUS
  <2>2. PICK c \in 0 .. Len(r) + Len(s.buf) :
            a.ack = Seqn(c) /\ c + a.wnd <= Len(r) + BufferSize
    BY <2>1 DEF Grants
  <2>3. s.buf \in Seq(Nat) /\ t.buf \in Seq(Nat)
    BY DEF Connection
  <2>4. Len(s.buf) \in Nat /\ Len(t.buf) \in Nat /\ Len(r) \in Nat /\ Len(t.buf) >= Len(s.buf)
    BY <2>3 DEF Follows
  <2>5. c \in 0 .. Len(r) + Len(t.buf)
    BY <2>4
  <2>6. QED
    BY <2>2, <2>5 DEF Grants
<1>4. t.port = s.port
  BY DEF Follows
<1>5. QED
  BY <1>1, <1>2, <1>3, <1>4 DEF OnWire

LEMMA AnswerKinds ==
    ASSUME NEW s \in Connection, NEW m \in Incoming, NEW a \in Answers(s, m)
    PROVE  /\ a.port = s.port /\ a.flags = {"ACK"} /\ a.data = << >>
           /\ "RST" \notin m.flags
           /\ \/ /\ Opens(s, m) /\ a = Segment(Opened(s, m), {"ACK"}, << >>)
              \/ /\ ~Opens(s, m) /\ m.data # << >> /\ m.seq = s.rcv
                 /\ a = Segment(AfterData(s, m), {"ACK"}, << >>)
              \/ /\ ~Opens(s, m) /\ FinInOrder(AfterData(s, m), m)
                 /\ a = Segment([AfterData(s, m) EXCEPT
                                    !.rcv = (AfterData(s, m).rcv + 1) % SeqSpace],
                                {"ACK"}, << >>)
<1> DEFINE u == AfterData(s, m)
           v == [u EXCEPT !.rcv = (u.rcv + 1) % SeqSpace]
<1>1. u.port = s.port /\ v.port = u.port /\ Opened(s, m).port = s.port
  BY DEF AfterData, Window, Opened, Connection
<1>2. \A x : /\ Segment(x, {"ACK"}, << >>).port = x.port
             /\ Segment(x, {"ACK"}, << >>).flags = {"ACK"}
             /\ Segment(x, {"ACK"}, << >>).data = << >>
  BY DEF Segment
<1> HIDE DEF u
<1>3. "RST" \notin m.flags
  BY DEF Answers
<1>4. CASE Opens(s, m)
  <2>1. a = Segment(Opened(s, m), {"ACK"}, << >>)
    BY <1>3, <1>4 DEF Answers
  <2>2. QED
    BY <1>1, <1>2, <1>3, <1>4, <2>1
<1>5. CASE ~Opens(s, m)
  <2> HIDE DEF v
  <2>1. \/ m.data # << >> /\ m.seq = s.rcv /\ a = Segment(u, {"ACK"}, << >>)
        \/ FinInOrder(u, m) /\ a = Segment(v, {"ACK"}, << >>)
    BY <1>3, <1>5 DEF Answers, u, v
  <2>2. a.port = s.port /\ a.flags = {"ACK"} /\ a.data = << >>
    BY <2>1, <1>1, <1>2
  <2>3. QED
    BY <2>1, <2>2, <1>3, <1>5 DEF u, v
<1>6. QED
  BY <1>4, <1>5

LEMMA SegmentType ==
    ASSUME NEW s \in Connection, NEW f \in SUBSET Flags, NEW e \in Seq(Nat)
    PROVE  Segment(s, f, e) \in Outgoing
<1>1. /\ s.port \in Port \cup {NoPort} /\ s.next \in Nat /\ s.rcv \in 0 .. SeqSpace - 1
      /\ s.wnd \in 0 .. BufferSize
  BY DEF Connection
<1>2. QED
  BY <1>1 DEF Segment, Outgoing

LEMMA RoomLeft ==
    ASSUME NEW r \in Seq(Nat), NEW b \in Seq(Nat)
    PROVE  /\ Len(r) + Len(b) \in 0 .. Len(r) + Len(b)
           /\ Len(r) + Len(b) + (BufferSize - Len(b)) <= Len(r) + BufferSize
BY Sizes

LEMMA AnswerKeeps ==
    ASSUME NEW s \in Connection, NEW q \in Server, NEW r \in Seq(Nat), NEW D \in SUBSET Port,
           NEW m \in Incoming, Comes(m, q), Good(s, q, r, D), Serves(q, r), Pending(s),
           s.state # "FREE", NEW a \in Answers(s, m)
    PROVE  /\ a \in Outgoing /\ a.port = s.port /\ a.data = << >>
           /\ Handled(s, m) = Free \/ OnWire(a, Handled(s, m), r, D)
<1> DEFINE t == Handled(s, m)
           u == AfterData(s, m)
           v == [u EXCEPT !.rcv = (u.rcv + 1) % SeqSpace]
<1> USE Sizes
<1>0. {"ACK"} \in SUBSET Flags /\ << >> \in Seq(Nat)
  BY DEF Flags
<1>1. /\ a.port = s.port /\ a.flags = {"ACK"} /\ a.data = << >> /\ "RST" \notin m.flags
      /\ \/ Opens(s, m) /\ a = Segment(Opened(s, m), {"ACK"}, << >>)
         \/ /\ ~Opens(s, m) /\ m.data # << >> /\ m.seq = s.rcv
            /\ a = Segment(u, {"ACK"}, << >>)
         \/ /\ ~Opens(s, m) /\ FinInOrder(u, m) /\ a = Segment(v, {"ACK"}, << >>)
  BY AnswerKinds
<1>2. /\ u \in Connection /\ Good(u, q, r, D) /\ u.state = s.state
  BY DataKeeps
<1>3. \/ t = Free
      \/ /\ t \in Connection /\ Follows(t, s)
         /\ ~Opens(s, m) => /\ t.buf = u.buf
                            /\ FinInOrder(u, m) => t.state = "CLOSE_WAIT"
  BY HandledKeeps
<1> HIDE DEF t, u
<1>4. t # Free /\ (t.state \notin Finished => Grants(a, t, r)) => OnWire(a, t, r, D)
  BY <1>1 DEF OnWire
<1>5. CASE Opens(s, m)
  <2>1. a = Segment(Opened(s, m), {"ACK"}, << >>)
    BY <1>1, <1>5
  <2>2. Opened(s, m) \in Connection /\ Opened(s, m).rcv = Seqn(0)
    BY <1>5, OpensKeeps
  <2>3. a \in Outgoing
    BY <2>1, <2>2, <1>0, SegmentType
  <2>4. a.ack = Seqn(0) /\ a.wnd \in 0 .. BufferSize
    BY <2>1, <2>2, <2>3 DEF Segment, Outgoing
  <2>5. t # Free => Grants(a, t, r)
    <3>1. SUFFICES ASSUME t # Free
                   PROVE  Grants(a, t, r)
      OBVIOUS
    <3>2. t.buf \in Seq(Nat)
      BY <3>1, <1>3 DEF Connection
    <3>3. 0 \in 0 .. Len(r) + Len(t.buf)
      BY <3>2
    <3>4. 0 + a.wnd <= Len(r) + BufferSize
      BY <2>4
    <3>5. QED
      BY <2>4, <3>3, <3>4 DEF Grants
  <2>6. QED
    BY <1>1, <1>4, <2>3, <2>5 DEF t
<1>6. CASE ~Opens(s, m) /\ m.data # << >> /\ m.seq = s.rcv /\ a = Segment(u, {"ACK"}, << >>)
  <2>1. a \in Outgoing
    BY <1>6, <1>2, <1>0, SegmentType
  <2>2. s.state \in Open
    BY <1>6, DataIsNext
  <2>3. u.rcv = Seqn(Len(r) + Len(u.buf)) /\ u.wnd = BufferSize - Len(u.buf)
    BY <1>2, <2>2 DEF Good, Received, Kept
  <2>4. a.ack = Seqn(Len(r) + Len(u.buf)) /\ a.wnd = BufferSize - Len(u.buf)
    BY <1>6, <2>3 DEF Segment
  <2>5. t # Free => Grants(a, t, r)
    <3>1. SUFFICES ASSUME t # Free
                   PROVE  Grants(a, t, r)
      OBVIOUS
    <3>2. t.buf = u.buf
      BY <1>3, <1>6, <3>1
    <3>3. u.buf \in Seq(Nat)
      BY <1>2 DEF Connection
    <3>4. /\ Len(r) + Len(u.buf) \in 0 .. Len(r) + Len(t.buf)
          /\ Len(r) + Len(u.buf) + a.wnd <= Len(r) + BufferSize
      BY <3>2, <3>3, <2>4, RoomLeft
    <3>5. QED
      BY <2>4, <3>4 DEF Grants
  <2>6. QED
    BY <1>1, <1>4, <2>1, <2>5 DEF t
<1>7. CASE ~Opens(s, m) /\ FinInOrder(u, m) /\ a = Segment(v, {"ACK"}, << >>)
  <2>1. u.rcv \in 0 .. SeqSpace - 1
    BY <1>2 DEF Connection
  <2>2. (u.rcv + 1) % SeqSpace \in 0 .. SeqSpace - 1
    <3>1. u.rcv + 1 \in 0 .. 2 * SeqSpace - 1
      BY <2>1
    <3>2. PICK x \in 0 .. 2 * SeqSpace - 1 : x = u.rcv + 1
      BY <3>1
    <3>3. x % SeqSpace \in 0 .. SeqSpace - 1
      BY ModOnce
    <3>4. QED
      BY <3>2, <3>3
  <2>3. v \in Connection
    BY <1>2, <2>2 DEF Connection
  <2>4. a \in Outgoing
    BY <1>7, <2>3, <1>0, SegmentType
  <2>5. t # Free => t.state \in Finished
    BY <1>3, <1>7 DEF Finished
  <2>6. QED
    BY <1>1, <1>4, <2>4, <2>5 DEF t
<1>8. QED
  BY <1>1, <1>5, <1>6, <1>7

-----------------------------------------------------------------------------
LEMMA TcpInit == Init => IInv
<1> SUFFICES ASSUME Init
             PROVE  IInv
  OBVIOUS
<1> USE Sizes DEF Init, ClientInit
<1>1. Free \in Connection /\ Blank(Free) /\ Free.state = "FREE"
  BY DEF Free, Connection, Blank
<1>2. NoPeer \in Server /\ AckOf(NoPeer) = Iss + 1 /\ NoPeer.state = "none"
  BY ServerAssumption DEF NoPeer, Server, AckOf
<1>3. Types
  BY <1>1, <1>2 DEF Types, At, Calls, NoCall, NoSlot
<1>4. \A i \in Slot : ~Used(i) /\ slot[i] = Free
  BY <1>1 DEF Used
<1>5. SlotsOk /\ ConnectionsOk /\ WireOk
  BY <1>1, <1>4 DEF SlotsOk, ConnectionsOk, WireOk
<1>6. ServersOk
  <2>1. SUFFICES ASSUME NEW p \in Port
                 PROVE  Serves(NoPeer, << >>) /\ Fresh(p) /\ peer[p] = NoPeer /\ read[p] = << >>
    BY DEF ServersOk
  <2>2. Serves(NoPeer, << >>)
    BY DEF Serves, NoPeer
  <2>3. QED
    BY <2>2 DEF Fresh
<1>7. CallOk
  BY <1>4 DEF CallOk, NoCall
<1>8. QED
  BY <1>3, <1>5, <1>6, <1>7 DEF IInv

(* A step of the thread changes one slot and what belongs to its port, and *)
(* puts segments of that port on the wire.                                 *)
Alone(p) ==
    \A x \in Port : x # p => /\ read'[x] = read[x] /\ ended'[x] = ended[x]
                             /\ (x \in doubt') <=> (x \in doubt)

Sends(p) ==
    \A m \in toPeer' :
        m \in toPeer \/ /\ m \in Outgoing /\ m.port = p
                        /\ m.data = << >> \/ m.seq + Len(m.data) <= Iss + 1 + RequestSize

LEMMA SlotChanges ==
    ASSUME Types, SlotsOk, ConnectionsOk, WireOk, ServersOk,
           NEW i \in Slot, NEW t \in Connection, NEW p, p = slot[i].port,
           slot' = [slot EXCEPT ![i] = t], nextPort' = nextPort, peer' = peer,
           toClient' \subseteq toClient, Alone(p), Sends(p),
           p \in Port => Serves(peer[p], read'[p]),
           t.state = "FREE" => Blank(t),
           t.state # "FREE" =>
               /\ Used(i) /\ t.port = p
               /\ Good(t, peer[p], read'[p], doubt') /\ Pending(t)
               /\ \A m \in toPeer' : m.port = p => OnWire(m, t, read'[p], doubt')
    PROVE  SlotsOk' /\ ConnectionsOk' /\ WireOk' /\ ServersOk'
<1>1. /\ slot'[i] = t /\ \A j \in Slot : j # i => slot'[j] = slot[j]
      /\ nextPort \in 1 .. PortCount + 1 /\ PortCount \in Nat
  BY Sizes DEF Types
<1>2. \A j \in Slot : Used(j)' => /\ Used(j) /\ slot'[j].port = slot[j].port
                                  /\ slot[j].port \in 1 .. nextPort - 1 /\ slot[j].port \in Port
  BY <1>1 DEF Used, SlotsOk, Port
<1>3. SlotsOk'
  <2>1. \A j \in Slot : ~Used(j)' => Blank(slot'[j])
    BY <1>1 DEF Used, SlotsOk
  <2>2. QED
    BY <1>1, <1>2, <2>1 DEF SlotsOk
<1>4. p \notin Port => p = NoPort
  <2>1. ~Used(i) => p = NoPort
    BY DEF SlotsOk, Blank
  <2>2. Used(i) => p \in Port
    BY <1>1 DEF SlotsOk, Port
  <2>3. QED
    BY <2>1, <2>2
<1>5. \A j \in Slot : Used(j)' /\ j # i => slot[j].port # p
  <2>1. CASE Used(i)
    BY <1>2, <2>1 DEF SlotsOk
  <2>2. CASE ~Used(i)
    <3>1. p = 0
      BY <2>2 DEF SlotsOk, Blank, NoPort
    <3>2. QED
      BY <1>2, <1>1, <3>1
  <2>3. QED
    BY <2>1, <2>2
<1>6. ConnectionsOk'
  <2>1. SUFFICES ASSUME NEW j \in Slot, Used(j)'
                 PROVE  LET x == slot'[j].port
                        IN  /\ Good(slot'[j], peer'[x], read'[x], doubt')
                            /\ Pending(slot'[j])
    BY DEF ConnectionsOk
  <2>2. CASE j = i
    BY <1>1, <2>1, <2>2 DEF Used
  <2>3. CASE j # i
    <3>1. slot'[j] = slot[j] /\ Used(j) /\ slot[j].port \in Port /\ slot[j].port # p
      BY <1>1, <1>2, <1>5, <2>1, <2>3
    <3>2. /\ Good(slot[j], peer[slot[j].port], read[slot[j].port], doubt)
          /\ Pending(slot[j])
      BY <3>1 DEF ConnectionsOk
    <3>3. Good(slot[j], peer[slot[j].port], read[slot[j].port], doubt')
      BY <3>1, <3>2 DEF Good, Sent, Alone
    <3>4. QED
      BY <3>1, <3>2, <3>3 DEF Alone
  <2>4. QED
    BY <2>2, <2>3
<1>7. WireOk'
  <2>1. p < nextPort
    BY <1>1, <1>4 DEF SlotsOk, NoPort, Blank
  <2>2. \A m \in toPeer' :
            /\ m.port < nextPort
            /\ m.data = << >> \/ m.seq + Len(m.data) <= Iss + 1 + RequestSize
    BY <2>1 DEF WireOk, Sends
  <2>3. \A m \in toClient' : Comes(m, peer[m.port])
    BY DEF WireOk
  <2>4. ASSUME NEW j \in Slot, NEW m \in toPeer', Used(j)', m.port = slot'[j].port
        PROVE  OnWire(m, slot'[j], read'[m.port], doubt')
    <3>1. CASE j = i
      BY <1>1, <2>4, <3>1 DEF Used
    <3>2. CASE j # i
      <4>1. slot'[j] = slot[j] /\ Used(j) /\ m.port \in Port /\ m.port # p
        BY <1>1, <1>2, <1>5, <2>4, <3>2
      <4>2. m \in toPeer
        BY <4>1 DEF Sends
      <4>3. OnWire(m, slot[j], read[m.port], doubt)
        BY <4>1, <4>2, <2>4 DEF WireOk
      <4>4. QED
        BY <4>1, <4>3, <2>4 DEF Alone, OnWire
    <3>3. QED
      BY <3>1, <3>2
  <2>5. QED
    BY <2>2, <2>3, <2>4 DEF WireOk
<1>8. ServersOk'
  <2>1. ASSUME NEW x \in Port
        PROVE  Serves(peer[x], read'[x])
    BY DEF ServersOk, Alone
  <2>2. ASSUME NEW x \in Port, x >= nextPort
        PROVE  peer[x] = NoPeer /\ read'[x] = << >> /\ Fresh(x)'
    <3>1. x # p
      BY <1>1, <1>4, <2>2 DEF SlotsOk, NoPort, Blank
    <3>2. QED
      BY <3>1, <2>2 DEF ServersOk, Alone, Fresh
  <2>3. QED
    BY <2>1, <2>2 DEF ServersOk
<1>9. QED
  BY <1>3, <1>6, <1>7, <1>8

LEMMA Untouched ==
    ASSUME IInv, UNCHANGED <<slot, nextPort, toPeer, read, ended, doubt, peer>>,
           toClient' \subseteq toClient
    PROVE  SlotsOk' /\ ConnectionsOk' /\ WireOk' /\ ServersOk'
<1> USE DEF IInv
<1>1. SlotsOk' /\ ConnectionsOk'
  BY DEF SlotsOk, ConnectionsOk, Used
<1>2. WireOk'
  BY DEF WireOk, Used
<1>3. ServersOk'
  BY DEF ServersOk, Fresh
<1>4. QED
  BY <1>1, <1>2, <1>3

(* What is known of a connection in use, and of a segment that arrives.    *)
LEMMA InUse ==
    ASSUME IInv, NEW i \in Slot, Used(i)
    PROVE  LET p == slot[i].port
           IN  /\ p \in Port /\ p \in 1 .. nextPort - 1
               /\ slot[i] \in Connection /\ slot[i].state # "FREE"
               /\ peer[p] \in Server /\ read[p] \in Seq(Nat) /\ doubt \in SUBSET Port
               /\ Good(slot[i], peer[p], read[p], doubt) /\ Pending(slot[i])
               /\ Serves(peer[p], read[p])
               /\ \A m \in toPeer : m \in Outgoing
               /\ \A m \in toPeer : m.port = p => OnWire(m, slot[i], read[p], doubt)
<1> DEFINE p == slot[i].port
<1> USE DEF IInv
<1>1. p \in Port /\ p \in 1 .. nextPort - 1
  BY Sizes DEF Types, SlotsOk, Port
<1>2. slot[i] \in Connection /\ slot[i].state # "FREE" /\ peer[p] \in Server
      /\ read[p] \in Seq(Nat) /\ doubt \in SUBSET Port
      /\ \A m \in toPeer : m \in Outgoing
  BY <1>1 DEF Types, Used
<1>3. Good(slot[i], peer[p], read[p], doubt) /\ Pending(slot[i])
  BY DEF ConnectionsOk
<1>4. Serves(peer[p], read[p])
  BY <1>1 DEF ServersOk
<1>5. \A m \in toPeer : m.port = p => OnWire(m, slot[i], read[p], doubt)
  BY DEF WireOk
<1>6. QED
  BY <1>1, <1>2, <1>3, <1>4, <1>5

LEMMA FreeIs == Free \in Connection /\ Blank(Free) /\ Free.state = "FREE"
BY Sizes DEF Free, Connection, Blank

LEMMA HandleKeeps ==
    ASSUME IInv, NEW m \in toClient, NEW i \in Matches(m),
           slot' = [slot EXCEPT ![i] = Handled(slot[i], m)], Emit(Answers(slot[i], m)),
           toClient' \subseteq toClient,
           UNCHANGED <<nextPort, read, ended, doubt, peer>>
    PROVE  /\ SlotsOk' /\ ConnectionsOk' /\ WireOk' /\ ServersOk'
           /\ toPeer' \subseteq Outgoing /\ slot' \in [Slot -> Connection]
           /\ \A j \in Slot \ {i} : slot'[j] = slot[j]
           /\ slot'[i] = Free \/ /\ Follows(slot'[i], slot[i]) /\ slot'[i] \in Connection
                                 /\ Good(slot'[i], peer[m.port], read[m.port], doubt)
<1> DEFINE s == slot[i]
           t == Handled(s, m)
           p == m.port
           q == peer[p]
           r == read[p]
<1>1. i \in Slot /\ Used(i) /\ slot[i].port = p
  BY DEF Matches
<1>2. m \in Incoming /\ Comes(m, q)
  BY DEF IInv, Types, WireOk
<1>3. /\ p \in Port /\ s \in Connection /\ s.state # "FREE"
      /\ q \in Server /\ r \in Seq(Nat) /\ doubt \in SUBSET Port
      /\ Good(s, q, r, doubt) /\ Pending(s) /\ Serves(q, r)
      /\ \A a \in toPeer : a \in Outgoing
      /\ \A a \in toPeer : a.port = p => OnWire(a, s, r, doubt)
  BY <1>1, InUse
<1>4. \/ t = Free
      \/ t \in Connection /\ Good(t, q, r, doubt) /\ Pending(t) /\ Follows(t, s)
  BY <1>2, <1>3, HandledKeeps
<1>5. \A a \in Answers(s, m) :
          /\ a \in Outgoing /\ a.port = p /\ a.data = << >>
          /\ t = Free \/ OnWire(a, t, r, doubt)
  BY <1>1, <1>2, <1>3, AnswerKeeps
<1> HIDE DEF t
<1>6. toPeer' \subseteq toPeer \cup Answers(s, m)
  BY DEF Emit
<1>7. \/ t = Free
      \/ t \in Connection /\ t.state # "FREE" /\ t.port = p
  BY <1>1, <1>3, <1>4, FreeIs DEF Follows, Move
<1>8. t.state # "FREE" => \A a \in toPeer' : a.port = p => OnWire(a, t, r, doubt)
  <2>1. SUFFICES ASSUME t.state # "FREE", NEW a \in toPeer', a.port = p
                 PROVE  OnWire(a, t, r, doubt)
    OBVIOUS
  <2>2. CASE a \in toPeer
    BY <2>1, <2>2, <1>3, <1>4, WireKeeps, FreeIs
  <2>3. CASE a \in Answers(s, m)
    BY <2>1, <2>3, <1>5, FreeIs
  <2>4. QED
    BY <2>2, <2>3, <1>6
<1>9. Sends(p) /\ Alone(p)
  BY <1>5, <1>6 DEF Sends, Alone
<1>10. slot' = [slot EXCEPT ![i] = t] /\ slot \in [Slot -> Connection]
  BY DEF t, IInv, Types
<1>11. SlotsOk' /\ ConnectionsOk' /\ WireOk' /\ ServersOk'
  BY <1>1, <1>3, <1>4, <1>7, <1>8, <1>9, <1>10, FreeIs, SlotChanges DEF IInv
<1>12. QED
  BY <1>1, <1>3, <1>4, <1>5, <1>6, <1>7, <1>10, <1>11, FreeIs

(* The slot of the running call. *)
LEMMA Running ==
    ASSUME IInv, pc # "idle"
    PROVE  /\ call.slot \in Slot /\ slot[call.slot] \in Connection
           /\ Phase(pc, call, slot[call.slot])
           /\ \A j \in Slot : Used(j) /\ j # call.slot => slot[j].state = "FIN_WAIT_2"
           /\ Used(call.slot) => slot[call.slot].port = nextPort - 1
           /\ Used(call.slot) /\ pc # "done" /\ ~Closing(pc, call) => Fresh(nextPort - 1)
           /\ Connecting(pc, call) /\ pc # "syn" => retry < MaxRetries
<1>1. call \in Calls /\ slot \in [Slot -> Connection]
  BY DEF IInv, Types
<1>2. call.slot \in Slot
  BY <1>1 DEF IInv, CallOk, Calls
<1>3. QED
  BY <1>1, <1>2 DEF IInv, CallOk

(* Bytes not sent are not acknowledged, unless a send is in doubt. *)
LEMMA AcksSent ==
    ASSUME NEW s \in Connection, NEW q \in Server, NEW D \in SUBSET Port, Sent(s, q, D),
           s.state \in Readable, s.port \notin D, s.next >= Iss + 1
    PROVE  s.una <= s.next
<1> USE Sizes
<1>1. s.una \in Nat /\ s.next \in Nat /\ q.took \in Nat
  BY DEF Connection, Server
<1>2. ~q.finned /\ EndOf(s) = s.next
  BY DEF Sent, Readable, Before, After, EndOf
<1>3. s.una <= Iss + 1 + q.took
  BY <1>1, <1>2 DEF Sent, AckOf
<1>4. q.took = 0 \/ Iss + 1 + q.took <= s.next
  BY <1>2 DEF Sent
<1>5. QED
  BY <1>1, <1>3, <1>4

LEMMA PhaseKeeps ==
    ASSUME NEW s \in Connection, NEW t \in Connection, NEW c \in Calls, NEW at \in {"serve"},
           Phase(at, c, s), Follows(t, s), s.state # "FREE",
           Receiving(at, c) /\ t.state \in Readable /\ t.next >= Iss + 1 => t.una <= t.next
    PROVE  Phase(at, c, t)
<1>1. t.next = s.next
  BY DEF Follows
<1>2. /\ s.state \in Before => t.state \in Before
      /\ s.state \in Readable => t.state \in Readable
      /\ s.state \in After => t.state \in After
  BY DEF Follows, Move, Before, After, Readable
<1>3. QED
  BY <1>1, <1>2 DEF Phase

LEMMA ArrivesKeeps ==
    ASSUME IInv, NEW m \in toClient, Arrives(m), pc \in {"idle", "serve"},
           UNCHANGED <<nextPort, pc, call, retry, read, ended, doubt, peer>>,
           served' \in 0 .. RingSize
    PROVE  IInv'
<1>1. toClient' \subseteq toClient
  BY DEF Arrives
<1>2. CASE Matches(m) = {} /\ UNCHANGED <<slot, toPeer>>
  <2>1. SlotsOk' /\ ConnectionsOk' /\ WireOk' /\ ServersOk'
    BY <1>1, <1>2, Untouched
  <2>2. Types'
    BY <1>1, <1>2 DEF IInv, Types
  <2>3. CallOk'
    BY <1>2 DEF IInv, CallOk, Used, Fresh
  <2>4. QED
    BY <2>1, <2>2, <2>3 DEF IInv
<1>3. CASE \E i \in Matches(m) : /\ slot' = [slot EXCEPT ![i] = Handled(slot[i], m)]
                                 /\ Emit(Answers(slot[i], m))
  <2>1. PICK i \in Matches(m) : /\ slot' = [slot EXCEPT ![i] = Handled(slot[i], m)]
                                /\ Emit(Answers(slot[i], m))
    BY <1>3
  <2>2. /\ SlotsOk' /\ ConnectionsOk' /\ WireOk' /\ ServersOk'
        /\ toPeer' \subseteq Outgoing /\ slot' \in [Slot -> Connection]
        /\ \A j \in Slot \ {i} : slot'[j] = slot[j]
        /\ slot'[i] = Free \/ /\ Follows(slot'[i], slot[i]) /\ slot'[i] \in Connection
                              /\ Good(slot'[i], peer[m.port], read[m.port], doubt)
    BY <1>1, <2>1, HandleKeeps
  <2>3. Types'
    BY <1>1, <2>2 DEF IInv, Types
  <2>4. /\ i \in Slot /\ Used(i) /\ slot[i].port = m.port /\ m.port \in Port
        /\ slot[i] \in Connection /\ peer[m.port] \in Server /\ doubt \in SUBSET Port
        /\ slot[i].state # "FREE"
    BY InUse DEF Matches
  <2>5. \A j \in Slot : Used(j)' => /\ Used(j) /\ slot'[j].port = slot[j].port
                                    /\ slot[j].state = "FIN_WAIT_2" =>
                                          slot'[j].state = "FIN_WAIT_2"
    BY <2>2, <2>4, FreeIs DEF Used, Follows, Move
  <2>6. \A j \in Slot : Used(j)' /\ j # call.slot => slot'[j].state = "FIN_WAIT_2"
    BY <2>5 DEF IInv, CallOk
  <2>7. ASSUME pc # "idle"
        PROVE  Phase(pc, call, slot'[call.slot])
    <3>1. /\ call.slot \in Slot /\ Phase(pc, call, slot[call.slot])
          /\ Used(call.slot) => slot[call.slot].port = nextPort - 1
          /\ Used(call.slot) /\ pc # "done" /\ ~Closing(pc, call) => Fresh(nextPort - 1)
      BY <2>7, Running
    <3>2. pc \in {"serve"} /\ call \in Calls
      BY <2>7 DEF IInv, Types
    <3>3. CASE slot'[call.slot] = slot[call.slot]
      BY <3>1, <3>3
    <3>4. CASE slot'[call.slot] = Free
      BY <3>1, <3>2, <3>4, FreeIs DEF Phase
    <3>5. CASE call.slot = i /\ slot'[i] # Free
      <4>1. /\ Follows(slot'[i], slot[i]) /\ slot'[i] \in Connection
            /\ Sent(slot'[i], peer[m.port], doubt)
        BY <3>5, <2>2 DEF Good
      <4>2. Receiving(pc, call) => slot'[i].port \notin doubt
        BY <3>1, <3>2, <3>5, <2>4, <4>1 DEF Follows, Receiving, Closing, Fresh
      <4>3. Receiving(pc, call) /\ slot'[i].state \in Readable /\ slot'[i].next >= Iss + 1
                  => slot'[i].una <= slot'[i].next
        BY <4>1, <4>2, <2>4, AcksSent
      <4>4. QED
        BY <3>1, <3>2, <3>5, <4>1, <4>3, <2>4, PhaseKeeps
    <3>6. QED
      BY <3>1, <3>3, <3>4, <3>5, <2>2
  <2>8. CallOk'
    <3>1. call.slot = NoSlot <=> pc = "idle"
      BY DEF IInv, CallOk
    <3>2. ASSUME pc # "idle"
          PROVE  /\ Used(call.slot)' => slot'[call.slot].port = nextPort - 1
                 /\ Used(call.slot)' /\ pc # "done" /\ ~Closing(pc, call) => Fresh(nextPort - 1)
                 /\ Connecting(pc, call) /\ pc # "syn" => retry < MaxRetries
      BY <3>2, <2>5, Running
    <3>3. \A p : Fresh(p)' <=> Fresh(p)
      BY DEF Fresh
    <3>4. QED
      BY <2>6, <2>7, <3>1, <3>2, <3>3 DEF CallOk, Used
  <2>9. QED
    BY <2>2, <2>3, <2>8 DEF IInv
<1>4. QED
  BY <1>2, <1>3 DEF Arrives, HandleSegment

(* The calls of the thread, one after the other.  What they have in common *)
(* first: the slot of another connection stays, and a call goes on or ends.*)
LEMMA CallMoves ==
    ASSUME IInv, pc # "idle", pc' # "idle", call'.slot = call.slot, nextPort' = nextPort,
           \A j \in Slot : j # call.slot => slot'[j] = slot[j],
           slot'[call.slot].state # "FREE" =>
               Used(call.slot) /\ slot'[call.slot].port = slot[call.slot].port,
           Phase(pc', call', slot'[call.slot]),
           Used(call.slot) /\ pc' # "done" /\ ~Closing(pc', call') => Fresh(nextPort - 1)',
           Connecting(pc', call') /\ pc' # "syn" => retry' < MaxRetries
    PROVE  CallOk'
<1>1. /\ call.slot \in Slot
      /\ \A j \in Slot : Used(j) /\ j # call.slot => slot[j].state = "FIN_WAIT_2"
      /\ Used(call.slot) => slot[call.slot].port = nextPort - 1
  BY Running
<1>2. call.slot # NoSlot
  BY <1>1, Sizes DEF Slot, NoSlot
<1>3. \A j \in Slot : Used(j)' /\ j # call'.slot => slot'[j].state = "FIN_WAIT_2"
  BY <1>1 DEF Used
<1>4. Used(call.slot)' => Used(call.slot) /\ slot'[call.slot].port = nextPort - 1
  BY <1>1 DEF Used
<1>5. QED
  BY <1>2, <1>3, <1>4 DEF CallOk, Used

LEMMA CallEnds ==
    ASSUME IInv, pc # "idle", pc' = "idle", call'.slot = NoSlot,
           \A j \in Slot : j # call.slot => slot'[j] = slot[j],
           slot'[call.slot].state \in {"FREE", "FIN_WAIT_2"}
    PROVE  CallOk'
<1>1. /\ call.slot \in Slot
      /\ \A j \in Slot : Used(j) /\ j # call.slot => slot[j].state = "FIN_WAIT_2"
  BY Running
<1>2. \A j \in Slot : Used(j)' => slot'[j].state = "FIN_WAIT_2"
  BY <1>1 DEF Used
<1>3. QED
  BY <1>2 DEF CallOk

LEMMA ZeroKeeps ==
    ASSUME IInv, NEW i \in Slot, Zeroed(i), toClient' \subseteq toClient, Sends(slot[i].port),
           UNCHANGED <<nextPort, read, ended, doubt, peer>>
    PROVE  /\ SlotsOk' /\ ConnectionsOk' /\ WireOk' /\ ServersOk'
           /\ slot' \in [Slot -> Connection] /\ slot'[i].state = "FREE"
           /\ \A j \in Slot : j # i => slot'[j] = slot[j]
<1>1. slot \in [Slot -> Connection]
  BY DEF IInv, Types
<1>2. Alone(slot[i].port)
  BY DEF Alone
<1>3. slot[i].port \in Port => Serves(peer[slot[i].port], read'[slot[i].port])
  BY DEF IInv, ServersOk
<1>4. slot' = [slot EXCEPT ![i] = Free]
  BY DEF Zeroed
<1>5. SlotsOk' /\ ConnectionsOk' /\ WireOk' /\ ServersOk'
  BY <1>2, <1>3, <1>4, FreeIs, SlotChanges DEF IInv
<1>6. QED
  BY <1>1, <1>4, <1>5, FreeIs

LEMMA ConnectFailsKeeps ==
    ASSUME IInv, ConnectFails, UNCHANGED peer
    PROVE  IInv'
<1> USE DEF ConnectFails, Return
<1>1. call.slot \in Slot /\ pc # "idle"
  BY Running
<1>2. Sends(slot[call.slot].port) /\ toClient' \subseteq toClient
  BY DEF wires, Sends
<1>3. /\ SlotsOk' /\ ConnectionsOk' /\ WireOk' /\ ServersOk'
      /\ slot' \in [Slot -> Connection] /\ slot'[call.slot].state = "FREE"
      /\ \A j \in Slot : j # call.slot => slot'[j] = slot[j]
  BY <1>1, <1>2, ZeroKeeps
<1>4. call' = NoCall /\ pc' = "idle"
  BY DEF NoCall
<1>5. CallOk'
  BY <1>1, <1>3, <1>4, CallEnds DEF NoCall
<1>6. Types'
  <2>1. call' \in Calls /\ pc' \in At
    BY <1>4, Sizes DEF NoCall, Calls, NoSlot, At
  <2>2. UNCHANGED <<nextPort, retry, served, toPeer, toClient, read, ended, doubt, peer>>
    BY DEF wires
  <2>3. QED
    BY <1>3, <2>1, <2>2 DEF IInv, Types
<1>7. QED
  BY <1>3, <1>5, <1>6 DEF IInv

LEMMA CloseDropsKeeps ==
    ASSUME IInv, CloseDrops, UNCHANGED peer
    PROVE  IInv'
<1> USE DEF CloseDrops
<1>1. call.slot \in Slot /\ pc # "idle"
  BY Running
<1>2. Sends(slot[call.slot].port) /\ toClient' \subseteq toClient
  BY DEF wires, Sends
<1>3. /\ SlotsOk' /\ ConnectionsOk' /\ WireOk' /\ ServersOk'
      /\ slot' \in [Slot -> Connection] /\ slot'[call.slot].state = "FREE"
      /\ \A j \in Slot : j # call.slot => slot'[j] = slot[j]
  BY <1>1, <1>2, ZeroKeeps
<1>4. CallOk'
  BY <1>1, <1>3, CallEnds DEF NoCall
<1>5. Types'
  BY <1>3, Sizes DEF IInv, Types, wires, NoCall, Calls, At, NoSlot
<1>6. QED
  BY <1>3, <1>4, <1>5 DEF IInv

LEMMA SendBeginsKeeps ==
    ASSUME IInv, net_tcp_send, UNCHANGED peer
    PROVE  IInv'
<1> USE DEF net_tcp_send, Begin
<1>1. /\ call.slot \in Slot /\ slot[call.slot] \in Connection
      /\ Phase(pc, call, slot[call.slot])
      /\ Used(call.slot) => Fresh(nextPort - 1)
  BY Running DEF Closing, Waits
<1>2. slot[call.slot].state \in Readable /\ slot[call.slot].next = Iss + 1
  BY <1>1 DEF Phase, Receiving
<1>3. /\ call' = [op |-> "send", slot |-> call.slot, target |-> 0, left |-> RequestSize]
      /\ pc' = "chunk" /\ UNCHANGED <<slot, nextPort, retry, served, wires, read, ended, doubt>>
  BY <1>2
<1>4. SlotsOk' /\ ConnectionsOk' /\ WireOk' /\ ServersOk'
  BY <1>3, Untouched DEF wires
<1>5. Types'
  BY <1>1, <1>3, Sizes DEF IInv, Types, wires, Calls, At
<1>6. Phase(pc', call', slot'[call.slot])
  BY <1>2, <1>3, Sizes DEF Phase, Readable, Connecting, Sending, Receiving, Closing, Waits
<1>7. CallOk'
  BY <1>1, <1>3, <1>6, CallMoves DEF Used, Fresh, Connecting, Waits
<1>8. QED
  BY <1>4, <1>5, <1>7 DEF IInv

LEMMA WaitBeginsKeeps ==
    ASSUME IInv, net_tcp_wait_for_data, UNCHANGED peer
    PROVE  IInv'
<1> USE DEF net_tcp_wait_for_data, Begin
<1>1. /\ call.slot \in Slot /\ slot[call.slot] \in Connection
      /\ Phase(pc, call, slot[call.slot])
      /\ Used(call.slot) => Fresh(nextPort - 1)
  BY Running DEF Closing, Waits
<1>2. /\ pc' \in {"check", "done"} /\ call'.slot = call.slot /\ call' \in Calls
      /\ pc' = "check" => call'.op = "wait"
      /\ UNCHANGED <<slot, nextPort, retry, served, wires, read, ended, doubt>>
  BY <1>1, Sizes DEF IInv, Types, Calls
<1>3. SlotsOk' /\ ConnectionsOk' /\ WireOk' /\ ServersOk'
  BY <1>2, Untouched DEF wires
<1>4. Types'
  BY <1>2 DEF IInv, Types, wires, At
<1>5. Phase(pc', call', slot'[call.slot])
  BY <1>1, <1>2 DEF Phase, Connecting, Sending, Receiving, Closing, Waits
<1>6. CallOk'
  BY <1>1, <1>2, <1>5, CallMoves DEF Used, Fresh, Connecting, Waits
<1>7. QED
  BY <1>3, <1>4, <1>6 DEF IInv

LEMMA WaitOverKeeps ==
    ASSUME IInv, NEW ok \in BOOLEAN, WaitOver(ok), pc \in Waits, UNCHANGED peer,
           served' \in 0 .. RingSize, ok => Used(call.slot) /\ Satisfied
    PROVE  IInv'
<1> DEFINE i == call.slot
           s == slot[i]
<1> USE DEF Waits
<1>1. /\ i \in Slot /\ s \in Connection /\ Phase(pc, call, s) /\ pc # "idle"
      /\ Used(i) /\ ~Closing(pc, call) => Fresh(nextPort - 1)
      /\ Connecting(pc, call) => retry < MaxRetries
      /\ Used(i) => s.port = nextPort - 1
  BY Running
<1>2. call \in Calls /\ retry \in 0 .. MaxRetries
  BY DEF IInv, Types
<1>3. UNCHANGED <<nextPort, toPeer, toClient, read, ended, doubt, peer>>
  BY DEF WaitOver, wires
<1>4. UNCHANGED slot => SlotsOk' /\ ConnectionsOk' /\ WireOk' /\ ServersOk'
  BY <1>3, Untouched
<1>5. /\ s.next \in Nat /\ s.una \in Nat
      /\ Used(i) => Sent(s, peer[s.port], doubt) /\ s.port \in Port /\ Pending(s)
  BY <1>1, InUse DEF Good, Connection
<1>6. Used(i) /\ ~Closing(pc, call) /\ s.state \in Readable /\ s.next >= Iss + 1
          => s.una <= s.next
  BY <1>1, <1>5, AcksSent DEF IInv, Types, Fresh
<1>7. slot' \in [Slot -> Connection] /\ call' \in Calls /\ retry' \in 0 .. MaxRetries
          /\ pc' \in At => Types'
  BY <1>3 DEF IInv, Types
<1>8. slot \in [Slot -> Connection]
  BY DEF IInv, Types
<1>9. CASE call.op = "connect"
  <2>1. /\ UNCHANGED slot /\ call'.slot = i /\ call' \in Calls
        /\ \/ /\ pc' = "open" /\ s.state = "ESTABLISHED" /\ call'.op = "none" /\ UNCHANGED retry
           \/ pc' = "syn" /\ call' = call /\ retry' = retry + 1
    <3>1. CASE ok /\ slot[i].state = "ESTABLISHED"
      BY <1>1, <1>9, <3>1, Sizes DEF WaitOver, Return, NoCall, Calls
    <3>2. CASE ~(ok /\ slot[i].state = "ESTABLISHED")
      BY <1>2, <1>9, <3>2 DEF WaitOver, NextTry
    <3>3. QED
      BY <3>1, <3>2
  <2>2. Connecting(pc, call) /\ ~Receiving(pc, call) /\ ~Closing(pc, call)
    BY <1>9 DEF Connecting, Receiving, Closing
  <2>3. Phase(pc', call', s)
    <3>1. CASE pc' = "syn"
      BY <1>1, <1>9, <2>1, <2>2, <3>1
         DEF Phase, Connecting, Sending, Receiving, Closing
    <3>2. CASE pc' = "open"
      <4>1. s.next = Iss + 1 /\ s.state \in Readable /\ s.una <= s.next
        BY <1>1, <1>6, <2>1, <2>2, <3>2, Sizes DEF Phase, Readable, Used
      <4>2. QED
        BY <2>1, <3>2, <4>1, Sizes DEF Phase, Connecting, Sending, Receiving, Closing, Readable
    <3>3. QED
      BY <2>1, <3>1, <3>2
  <2>4. retry' \in 0 .. MaxRetries
    BY <1>1, <1>2, <2>1, <2>2, Sizes
  <2>5. CallOk'
    BY <1>1, <1>3, <2>1, <2>2, <2>3, CallMoves DEF Used, Fresh, Connecting
  <2>6. QED
    BY <1>4, <1>7, <1>8, <2>1, <2>4, <2>5 DEF IInv, At
<1>10. CASE call.op \in {"send", "wait"}
  <2>1. /\ UNCHANGED <<slot, retry>> /\ call'.slot = i /\ call' \in Calls
        /\ \/ /\ pc' = "chunk" /\ ok /\ call' = call /\ call.op = "send"
           \/ /\ pc' \in {"sent", "done"} /\ call'.op = "none"
           \/ /\ pc' = "ready" /\ ok /\ call'.op = "none" /\ call.op = "wait"
    <3>1. CASE call.op = "send" /\ ok /\ call.left # 0
      BY <1>2, <3>1 DEF WaitOver
    <3>2. CASE call.op = "send" /\ ~(ok /\ call.left # 0)
      BY <1>1, <3>2, Sizes DEF WaitOver, Return, NoCall, Calls
    <3>3. CASE call.op = "wait"
      BY <1>1, <3>3, Sizes DEF WaitOver, Return, NoCall, Calls
    <3>4. QED
      BY <1>10, <3>1, <3>2, <3>3
  <2>2. /\ ~Closing(pc, call) /\ ~Connecting(pc, call)
        /\ call.op = "send" => Sending(pc, call)
        /\ call.op = "wait" => Receiving(pc, call)
    BY <1>10 DEF Connecting, Receiving, Sending, Closing
  <2>3. s.state # "FREE" => s.state \in Readable /\ s.next >= Iss + 1 /\ s.una <= s.next
    <3>1. s.state # "FREE" => s.state \in Readable /\ s.next >= Iss + 1
      BY <1>1, <1>2, <1>5, <1>10, <2>2, Sizes DEF Phase, Calls
    <3>2. QED
      BY <3>1, <1>6, <2>2 DEF Used
  <2>4. pc' = "ready" => s.state # "FREE" /\ (s.buf # << >> \/ s.state = "CLOSE_WAIT")
    BY <1>10, <2>1 DEF Satisfied, Used
  <2>5. pc' = "chunk" => s.state # "FREE" /\ s.next = Iss + 1 + RequestSize - call.left
    BY <1>1, <2>1, <2>2 DEF Phase, Used
  <2>6. Phase(pc', call', s)
    BY <2>1, <2>3, <2>4, <2>5 DEF Phase, Connecting, Sending, Receiving, Closing
  <2>7. CallOk'
    BY <1>1, <1>3, <2>1, <2>2, <2>6, CallMoves DEF Used, Fresh, Connecting
  <2>8. QED
    BY <1>2, <1>4, <1>7, <1>8, <2>1, <2>7 DEF IInv, At
<1>11. CASE call.op = "close"
  <2>1. /\ pc' = "idle" /\ call' = NoCall /\ UNCHANGED retry
        /\ IF ok THEN UNCHANGED slot ELSE Zeroed(i)
    BY <1>11 DEF WaitOver, Return, NoCall
  <2>2. NoCall \in Calls /\ NoCall.slot = NoSlot
    BY Sizes DEF NoCall, Calls
  <2>3. CASE ok
    <3>1. Closing(pc, call) /\ s.state # "FREE" /\ s.una >= call.target
      BY <1>11, <2>3 DEF Closing, Used, Satisfied
    <3>2. s.state \in After /\ call.target = s.next
      BY <1>1, <1>11, <3>1 DEF Phase
    <3>3. s.state = "FIN_WAIT_2"
      BY <1>5, <3>1, <3>2 DEF Pending, After, Used
    <3>4. CallOk'
      BY <1>1, <2>1, <2>2, <2>3, <3>3, CallEnds
    <3>5. QED
      BY <1>2, <1>4, <1>7, <1>8, <2>1, <2>2, <2>3, <3>4 DEF IInv, At
  <2>4. CASE ~ok
    <3>1. Sends(s.port) /\ toClient' \subseteq toClient
      BY <1>3 DEF Sends
    <3>2. /\ SlotsOk' /\ ConnectionsOk' /\ WireOk' /\ ServersOk'
          /\ slot' \in [Slot -> Connection] /\ slot'[i].state = "FREE"
          /\ \A j \in Slot : j # i => slot'[j] = slot[j]
      BY <1>1, <1>3, <2>1, <2>4, <3>1, ZeroKeeps
    <3>3. CallOk'
      BY <1>1, <2>1, <2>2, <3>2, CallEnds
    <3>4. QED
      BY <1>2, <1>7, <2>1, <2>2, <3>2, <3>3 DEF IInv, At
  <2>5. QED
    BY <2>3, <2>4
<1>12. QED
  BY <1>1, <1>2, <1>9, <1>10, <1>11 DEF Phase, Calls

LEMMA WaitLooksKeeps ==
    ASSUME IInv, WaitLooks, UNCHANGED peer
    PROVE  IInv'
<1>1. pc = "check" /\ served' = 0 /\ 0 \in 0 .. RingSize
  BY Sizes DEF WaitLooks
<1>2. CASE Used(call.slot) /\ ~Satisfied
  <2>1. pc' = "serve" /\ UNCHANGED <<slot, nextPort, call, retry, wires, read, ended, doubt>>
    BY <1>2 DEF WaitLooks
  <2>2. SlotsOk' /\ ConnectionsOk' /\ WireOk' /\ ServersOk'
    BY <2>1, Untouched DEF wires
  <2>3. Types'
    BY <1>1, <2>1 DEF IInv, Types, wires, At
  <2>4. /\ Phase(pc, call, slot[call.slot]) /\ pc # "idle"
        /\ Used(call.slot) /\ ~Closing(pc, call) => Fresh(nextPort - 1)
        /\ Connecting(pc, call) => retry < MaxRetries
    BY <1>1, Running
  <2>5. /\ Connecting(pc', call') <=> Connecting(pc, call)
        /\ Sending(pc', call') <=> Sending(pc, call)
        /\ Receiving(pc', call') <=> Receiving(pc, call)
        /\ Closing(pc', call') <=> Closing(pc, call)
    BY <1>1, <2>1 DEF Connecting, Sending, Receiving, Closing, Waits
  <2>6. Phase(pc', call', slot'[call.slot])
    BY <1>1, <2>1, <2>4, <2>5 DEF Phase, Waits
  <2>7. CallOk'
    BY <1>1, <2>1, <2>4, <2>5, <2>6, CallMoves DEF Used, Fresh
  <2>8. QED
    BY <2>2, <2>3, <2>7 DEF IInv
<1>3. CASE ~(Used(call.slot) /\ ~Satisfied)
  <2>1. WaitOver(Used(call.slot)) /\ Used(call.slot) \in BOOLEAN
    BY <1>3 DEF WaitLooks, Used
  <2>2. QED
    BY <1>1, <1>3, <2>1, WaitOverKeeps DEF Waits
<1>4. QED
  BY <1>2, <1>3

LEMMA WaitGoesOnKeeps ==
    ASSUME IInv, WaitGoesOn, UNCHANGED peer
    PROVE  IInv'
<1>1. /\ pc = "serve" /\ pc' = "check" /\ served' = 0
      /\ UNCHANGED <<slot, nextPort, call, retry, wires, read, ended, doubt>>
  BY DEF WaitGoesOn
<1>2. SlotsOk' /\ ConnectionsOk' /\ WireOk' /\ ServersOk'
  BY <1>1, Untouched DEF wires
<1>3. Types'
  BY <1>1, Sizes DEF IInv, Types, wires, At
<1>4. /\ Phase(pc, call, slot[call.slot])
      /\ Used(call.slot) /\ ~Closing(pc, call) => Fresh(nextPort - 1)
      /\ Connecting(pc, call) => retry < MaxRetries
  BY <1>1, Running
<1>5. /\ Connecting(pc', call') <=> Connecting(pc, call)
      /\ Sending(pc', call') <=> Sending(pc, call)
      /\ Receiving(pc', call') <=> Receiving(pc, call)
      /\ Closing(pc', call') <=> Closing(pc, call)
  BY <1>1 DEF Connecting, Sending, Receiving, Closing, Waits
<1>6. Phase(pc', call', slot'[call.slot])
  BY <1>1, <1>4, <1>5 DEF Phase, Waits
<1>7. CallOk'
  BY <1>1, <1>4, <1>5, <1>6, CallMoves DEF Used, Fresh
<1>8. QED
  BY <1>2, <1>3, <1>7 DEF IInv

LEMMA WaitTimesOutKeeps ==
    ASSUME IInv, WaitTimesOut, UNCHANGED peer
    PROVE  IInv'
<1>1. pc \in Waits /\ served' = 0 /\ WaitOver(FALSE)
  BY DEF WaitTimesOut, Waits
<1>2. served' \in 0 .. RingSize
  BY <1>1, Sizes
<1>3. QED
  BY <1>1, <1>2, WaitOverKeeps

LEMMA WaitServesKeeps ==
    ASSUME IInv, WaitServes, UNCHANGED peer
    PROVE  IInv'
<1>1. PICK m \in toClient : Arrives(m)
  BY DEF WaitServes
<1>2. pc \in {"idle", "serve"} /\ served' \in 0 .. RingSize
  BY Sizes DEF WaitServes, IInv, Types
<1>3. QED
  BY <1>1, <1>2, ArrivesKeeps DEF WaitServes

LEMMA IdleKeeps ==
    ASSUME IInv, IdleService \/ NoSlotFree, UNCHANGED peer
    PROVE  IInv'
<1>1. CASE \E m \in toClient : IdleService /\ Arrives(m)
  <2>1. PICK m \in toClient : Arrives(m)
    BY <1>1
  <2>2. pc \in {"idle", "serve"} /\ served' \in 0 .. RingSize
    BY <1>1 DEF IdleService, IInv, Types
  <2>3. QED
    BY <1>1, <2>1, <2>2, ArrivesKeeps DEF IdleService
<1>2. CASE UNCHANGED <<slot, nextPort, pc, call, retry, served, wires, read, ended, doubt>>
  <2>1. SlotsOk' /\ ConnectionsOk' /\ WireOk' /\ ServersOk'
    BY <1>2, Untouched DEF wires
  <2>2. Types' /\ CallOk'
    BY <1>2 DEF IInv, Types, wires, CallOk, Used, Fresh
  <2>3. QED
    BY <2>1, <2>2 DEF IInv
<1>3. QED
  BY <1>1, <1>2 DEF IdleService, NoSlotFree

(* A segment put on the wire. *)
LEMMA EmitKeeps ==
    ASSUME IInv, NEW a \in Outgoing, Emit({a}),
           a.data = << >> \/ a.seq + Len(a.data) <= Iss + 1 + RequestSize
    PROVE  /\ toPeer' \subseteq Outgoing /\ Sends(a.port)
           /\ \A m \in toPeer' : m \in toPeer \/ m = a
<1>1. toPeer' \subseteq toPeer \cup {a} /\ toPeer \subseteq Outgoing
  BY DEF Emit, IInv, Types
<1>2. QED
  BY <1>1 DEF Sends

LEMMA SendSynKeeps ==
    ASSUME IInv, NEW ok \in BOOLEAN, SendSyn(ok), UNCHANGED peer
    PROVE  IInv'
<1> DEFINE i == call.slot
           s == slot[i]
           u == [s EXCEPT !.una = s.iss, !.next = s.iss]
           t == IF ok THEN [u EXCEPT !.next = u.iss + 1] ELSE u
           p == s.port
           q == peer[p]
           r == read[p]
<1> USE Sizes
<1>1. pc = "syn" /\ pc # "idle" /\ retry \in 0 .. MaxRetries /\ retry < MaxRetries
      /\ UNCHANGED <<nextPort, served, toClient, read, ended, doubt>>
      /\ slot' = [slot EXCEPT ![i] = t] /\ Emit({Segment(u, {"SYN"}, << >>)})
  BY DEF SendSyn, IInv, Types
<1>2. /\ i \in Slot /\ s \in Connection /\ Phase(pc, call, s)
      /\ Used(i) /\ pc # "done" /\ ~Closing(pc, call) => Fresh(nextPort - 1)
      /\ Used(i) => s.port = nextPort - 1
  BY <1>1, Running
<1>3. slot \in [Slot -> Connection] /\ call \in Calls
  BY DEF IInv, Types
<1>4. u \in Connection /\ t \in Connection
  <2>1. s.iss \in {0, Iss} /\ s.iss \in Nat /\ s.iss + 1 \in Nat
    BY <1>2, SMTT(30) DEF Connection
  <2>2. u \in Connection /\ u.iss = s.iss
    BY <1>2, <2>1 DEF Connection
  <2>3. [u EXCEPT !.next = u.iss + 1] \in Connection
    BY <2>1, <2>2 DEF Connection
  <2>4. QED
    BY <2>2, <2>3
<1>5. /\ t.port = p /\ t.state = s.state /\ t.iss = s.iss /\ t.una = s.iss /\ t.buf = s.buf
      /\ t.rcv = s.rcv /\ t.wnd = s.wnd /\ t.next \in {s.iss, s.iss + 1}
      /\ ok => t.next = s.iss + 1
      /\ u.port = p /\ u.state = s.state /\ u.iss = s.iss
  BY <1>2 DEF Connection
<1> HIDE DEF t, u
<1>6. /\ toPeer' \subseteq Outgoing /\ Sends(p)
      /\ \A m \in toPeer' : m \in toPeer \/ /\ m.port = p /\ m.flags = {"SYN"}
                                            /\ m.data = << >>
  <2>1. {"SYN"} \in SUBSET Flags /\ << >> \in Seq(Nat)
    BY DEF Flags
  <2>2. PICK a \in Outgoing : a = Segment(u, {"SYN"}, << >>)
    BY <1>4, <2>1, SegmentType
  <2>3. Emit({a}) /\ a.port = p /\ a.flags = {"SYN"} /\ a.data = << >>
    BY <1>1, <1>5, <2>2 DEF Segment
  <2>4. QED
    BY <2>3, EmitKeeps
<1>7. t.state = "FREE" => Blank(t)
  <2>1. s.state = "FREE" => Blank(s)
    BY <1>2 DEF IInv, SlotsOk, Used
  <2>2. s.state = "FREE" => s.iss = 0 /\ s.buf = << >> /\ s.port = NoPort
    BY <2>1, SMTT(30) DEF Blank
  <2>3. QED
    BY <1>5, <2>2, Sizes DEF Blank
<1>8. ASSUME t.state # "FREE"
      PROVE  /\ Used(i) /\ s.state \in Before /\ s.iss = Iss
             /\ Good(t, q, r, doubt) /\ Pending(t)
             /\ \A m \in toPeer' : m.port = p => OnWire(m, t, r, doubt)
  <2>1. Used(i) /\ s.state \in Before /\ s.next \in {Iss, Iss + 1}
    BY <1>1, <1>2, <1>5, <1>8 DEF Used, Phase, Connecting
  <2>2. /\ p \in Port /\ q \in Server /\ Good(s, q, r, doubt)
        /\ \A m \in toPeer : m.port = p => OnWire(m, s, r, doubt)
        /\ \A m \in toPeer : m \in Outgoing
    BY <1>2, <2>1, InUse
  <2>3. s.iss = Iss
    BY <2>2 DEF Good, Kept
  <2>4. p \notin doubt
    BY <1>1, <1>2, <2>1 DEF Fresh, Closing, Waits
  <2>5. EndOf(s) = s.next /\ EndOf(t) = t.next
    BY <1>5, <2>1 DEF EndOf, Before, After
  <2>6. q.took = 0 /\ ~q.finned
    BY <2>1, <2>2, <2>4, <2>5 DEF Good, Sent, Server
  <2>7. Kept(t) /\ Received(t, q, r) /\ Granted(t, q, r)
    <3>1. Kept(s) /\ Received(s, q, r) /\ Granted(s, q, r)
      BY <2>2 DEF Good
    <3>2. Kept(t) /\ Granted(t, q, r)
      BY <1>5, <3>1 DEF Kept, Granted
    <3>3. Received(t, q, r)
      BY <1>5, <3>1, SameReceived
    <3>4. QED
      BY <3>2, <3>3
  <2>8. Sent(t, q, doubt)
    BY <1>5, <2>1, <2>3, <2>6 DEF Sent, AckOf, Before, After
  <2>9. Pending(t)
    BY <1>5, <2>1 DEF Pending, Before
  <2>10. ASSUME NEW m \in toPeer', m.port = p
         PROVE  OnWire(m, t, r, doubt)
    <3>1. CASE m \in toPeer
      <4>1. OnWire(m, s, r, doubt) /\ m \in Outgoing
        BY <2>2, <2>10, <3>1
      <4>2. m.data = << >>
        <5>1. m.seq \in Nat /\ m.data \in Seq(Nat)
          BY <4>1 DEF Outgoing
        <5>2. m.data # << >> => Len(m.data) > 0
          BY <5>1
        <5>3. m.data # << >> => m.seq > Iss /\ m.seq + Len(m.data) <= s.next
          BY <4>1, <2>4, <2>5 DEF OnWire
        <5>4. s.next <= Iss + 1 /\ s.next \in Nat
          BY <2>1
        <5>5. QED
          BY <5>1, <5>2, <5>3, <5>4
      <4>3. Grants(m, s, r) => Grants(m, t, r)
        BY <1>5 DEF Grants
      <4>4. QED
        BY <1>5, <4>1, <4>2, <4>3 DEF OnWire
    <3>2. CASE m.flags = {"SYN"} /\ m.data = << >>
      BY <3>2 DEF OnWire
    <3>3. QED
      BY <1>6, <2>10, <3>1, <3>2
  <2>11. QED
    BY <2>1, <2>3, <2>2, <2>7, <2>8, <2>9, <2>10 DEF Good
<1>9. Alone(p) /\ (p \in Port => Serves(q, read'[p])) /\ toClient' \subseteq toClient
  BY <1>1 DEF Alone, IInv, ServersOk
<1>10. SlotsOk' /\ ConnectionsOk' /\ WireOk' /\ ServersOk'
  BY <1>1, <1>2, <1>4, <1>5, <1>6, <1>7, <1>8, <1>9, SlotChanges DEF IInv
<1>11. slot' \in [Slot -> Connection] /\ slot'[i] = t
       /\ \A j \in Slot : j # i => slot'[j] = slot[j]
  BY <1>1, <1>2, <1>3, <1>4
<1>12. /\ call'.slot = i /\ call' \in Calls /\ retry' \in 0 .. MaxRetries
       /\ \/ pc' = "syn" /\ call' = call
          \/ pc' = "open" /\ ok /\ s.state = "ESTABLISHED" /\ call'.op = "none"
          \/ /\ pc' = "check" /\ ok /\ call'.op = call.op /\ call'.target = s.iss + 1
             /\ retry' = retry
  <2>1. IF ~ok THEN NextTry /\ UNCHANGED <<pc, call, result>>
        ELSE /\ UNCHANGED retry
             /\ IF u.state = "ESTABLISHED" THEN Return(TRUE, "open")
                ELSE Wait(u.iss + 1) /\ UNCHANGED result
    BY DEF SendSyn, u
  <2>2. CASE ~ok
    BY <1>1, <1>3, <2>1, <2>2 DEF NextTry
  <2>3. CASE ok /\ s.state = "ESTABLISHED"
    <3>1. Return(TRUE, "open") /\ retry' = retry
      BY <1>5, <2>1, <2>3
    <3>2. pc' = "open" /\ call' = [NoCall EXCEPT !.slot = i]
      BY <3>1 DEF Return
    <3>3. call' \in Calls /\ call'.slot = i /\ call'.op = "none"
      BY <1>2, <3>2 DEF NoCall, Calls
    <3>4. QED
      BY <1>1, <2>3, <3>1, <3>2, <3>3
  <2>4. CASE ok /\ s.state # "ESTABLISHED"
    <3>1. call' = [call EXCEPT !.target = s.iss + 1] /\ pc' = "check" /\ retry' = retry
      BY <1>5, <2>1, <2>4 DEF Wait
    <3>2. s.iss + 1 \in Nat
      BY <1>2 DEF Connection
    <3>3. QED
      BY <1>1, <1>3, <2>4, <3>1, <3>2 DEF Calls
  <2>5. QED
    BY <2>2, <2>3, <2>4
<1>13. call.op = "connect"
  BY <1>1, <1>2 DEF Phase
<1>14. Phase(pc', call', t)
  BY <1>5, <1>8, <1>12, <1>13
     DEF Phase, Connecting, Sending, Receiving, Closing, Waits, Readable
<1>15. Types'
  BY <1>1, <1>6, <1>11, <1>12 DEF IInv, Types, At
<1>16. CallOk'
  BY <1>1, <1>2, <1>5, <1>8, <1>11, <1>12, <1>14, CallMoves
     DEF Used, Fresh, Connecting, Closing, Waits
<1>17. QED
  BY <1>10, <1>15, <1>16 DEF IInv

(* A segment with an acknowledgement grants no more than there is room for.*)
LEMMA Acknowledges ==
    ASSUME NEW s \in Connection, NEW q \in Server, NEW r \in Seq(Nat), NEW D \in SUBSET Port,
           Good(s, q, r, D), s.state \in Readable, NEW m \in Outgoing,
           m.ack = s.rcv, m.wnd = s.wnd
    PROVE  s.state \notin Finished => Grants(m, s, r)
<1>1. SUFFICES ASSUME s.state \notin Finished
               PROVE  Grants(m, s, r)
  OBVIOUS
<1>2. s.state \in Open
  BY <1>1 DEF Readable, Finished, Open
<1>3. s.rcv = Seqn(Len(r) + Len(s.buf)) /\ s.wnd = BufferSize - Len(s.buf)
  BY <1>2 DEF Good, Received, Kept
<1>4. s.buf \in Seq(Nat)
  BY DEF Connection
<1>5. /\ Len(r) + Len(s.buf) \in 0 .. Len(r) + Len(s.buf)
      /\ Len(r) + Len(s.buf) + m.wnd <= Len(r) + BufferSize
  BY <1>3, <1>4, RoomLeft
<1>6. QED
  BY <1>3, <1>5 DEF Grants

LEMMA SendChunkKeeps ==
    ASSUME IInv, NEW ok \in BOOLEAN, SendChunk(ok), UNCHANGED peer
    PROVE  IInv'
<1> DEFINE i == call.slot
           s == slot[i]
           p == s.port
           q == peer[p]
           r == read[p]
           n == Smaller(call.left, MaxPayload)
           e == [k \in 1 .. n |-> k]
           f == {"ACK", "PSH"}
           t == IF ok THEN [s EXCEPT !.next = @ + n] ELSE s
<1> USE Sizes
<1>1. /\ pc = "chunk" /\ pc # "idle" /\ Emit({Segment(s, f, e)})
      /\ UNCHANGED <<nextPort, retry, served, toClient, read, ended>>
      /\ slot \in [Slot -> Connection] /\ call \in Calls
  BY DEF SendChunk, IInv, Types
<1>2. /\ i \in Slot /\ s \in Connection /\ Phase(pc, call, s)
      /\ s.state # "FREE" => Fresh(nextPort - 1) /\ p = nextPort - 1
  BY <1>1, Running DEF Closing, Waits, Used
<1>3. /\ call.op = "send" /\ s.state \in Readable /\ Used(i)
      /\ s.next = Iss + 1 + RequestSize - call.left
  BY <1>1, <1>2 DEF Phase, Sending, Used
<1>4. /\ p \in Port /\ q \in Server /\ r \in Seq(Nat) /\ doubt \in SUBSET Port
      /\ Good(s, q, r, doubt) /\ Serves(q, r)
      /\ \A m \in toPeer : m \in Outgoing
      /\ \A m \in toPeer : m.port = p => OnWire(m, s, r, doubt)
  BY <1>2, <1>3, InUse
<1>5. call.left \in 0 .. RequestSize /\ n \in 0 .. call.left
  BY <1>1 DEF Calls, Smaller
<1>6. s.next \in Nat /\ s.next >= Iss + 1 /\ s.next + n <= Iss + 1 + RequestSize
      /\ s.next + n \in Nat
  <2>1. s.next \in Nat
    BY <1>2 DEF Connection
  <2>2. QED
    BY <1>3, <1>5, <2>1
<1> HIDE DEF n
<1>7. e \in Seq(Nat) /\ Len(e) = n /\ f \in SUBSET Flags
  BY <1>5 DEF Flags
<1> HIDE DEF e
<1>8. /\ toPeer' \subseteq Outgoing /\ Sends(p)
      /\ \A m \in toPeer' :
            \/ m \in toPeer
            \/ /\ m.flags = f /\ m.seq = s.next /\ m.ack = s.rcv /\ m.wnd = s.wnd /\ m.data = e
  <2>1. PICK a \in Outgoing : a = Segment(s, f, e)
    BY <1>2, <1>7, SegmentType
  <2>2. /\ Emit({a}) /\ a.port = p /\ a.flags = f /\ a.seq = s.next /\ a.ack = s.rcv
        /\ a.wnd = s.wnd /\ a.data = e
    BY <1>1, <2>1 DEF Segment
  <2>3. a.seq + Len(a.data) <= Iss + 1 + RequestSize
    BY <1>6, <1>7, <2>2
  <2>4. QED
    BY <2>2, <2>3, EmitKeeps
<1>9. t \in Connection
  BY <1>2, <1>6 DEF Connection
<1>10. /\ t.port = p /\ t.state = s.state /\ t.iss = s.iss /\ t.una = s.una /\ t.buf = s.buf
       /\ t.rcv = s.rcv /\ t.wnd = s.wnd
       /\ ok => t.next = s.next + n
       /\ ~ok => t = s
  BY <1>2 DEF Connection
<1>11. t.next <= Iss + 1 + RequestSize /\ t.next \in Nat /\ t.next >= s.next
  <2>1. n \in Nat /\ s.next <= s.next + n
    BY <1>5, <1>6
  <2>2. QED
    BY <1>6, <1>10, <2>1
<1> HIDE DEF t
<1>12. /\ slot' = [slot EXCEPT ![i] = t] /\ doubt' = IF ok THEN doubt ELSE doubt \cup {p}
  <2>1. CASE ok
    BY <2>1 DEF SendChunk, t, n
  <2>2. CASE ~ok
    <3>1. slot' = slot /\ doubt' = doubt \cup {p}
      BY <2>2 DEF SendChunk
    <3>2. [slot EXCEPT ![i] = s] = slot
      BY <1>1, <1>2
    <3>3. QED
      BY <2>2, <3>1, <3>2, <1>10
  <2>3. QED
    BY <2>1, <2>2
<1>13. doubt' \in SUBSET Port /\ (p \notin doubt' => p \notin doubt /\ ok)
       /\ Alone(p)
  BY <1>1, <1>4, <1>12 DEF Alone
<1>14. EndOf(s) = s.next /\ EndOf(t) = t.next
  BY <1>3, <1>10 DEF EndOf, Readable, After
<1>15. Good(t, q, r, doubt')
  <2>1. Kept(s) /\ Received(s, q, r) /\ Granted(s, q, r) /\ Sent(s, q, doubt)
    BY <1>4 DEF Good
  <2>2. Kept(t) /\ Granted(t, q, r)
    BY <1>10, <2>1 DEF Kept, Granted
  <2>3. Received(t, q, r)
    BY <1>10, <2>1, SameReceived
  <2>4. q.took \in Nat
    BY <1>4, SMTT(30) DEF Server
  <2>5. Sent(t, q, doubt')
    BY <1>3, <1>6, <1>10, <1>11, <1>13, <1>14, <2>1, <2>4 DEF Sent, Readable, After
  <2>6. QED
    BY <2>2, <2>3, <2>5 DEF Good
<1>16. ASSUME NEW m \in toPeer', m.port = p
       PROVE  OnWire(m, t, r, doubt')
  <2>1. CASE m \in toPeer
    <3>1. OnWire(m, s, r, doubt) /\ m \in Outgoing
      BY <1>4, <1>16, <2>1
    <3>2. Grants(m, s, r) => Grants(m, t, r)
      BY <1>10 DEF Grants
    <3>3. m.seq + Len(m.data) \in Nat
      BY <3>1 DEF Outgoing
    <3>4. QED
      BY <1>6, <1>10, <1>11, <1>13, <1>14, <3>1, <3>2, <3>3 DEF OnWire
  <2>2. CASE m \notin toPeer
    <3>1. /\ m.flags = f /\ m.seq = s.next /\ m.ack = s.rcv /\ m.wnd = s.wnd /\ m.data = e
          /\ m \in Outgoing
      BY <1>8, <1>16, <2>2
    <3>2. s.state \notin Finished => Grants(m, s, r)
      BY <1>2, <1>3, <1>4, <3>1, Acknowledges
    <3>3. Grants(m, s, r) => Grants(m, t, r)
      BY <1>10 DEF Grants
    <3>4. t.state # "SYN_SENT" /\ "FIN" \notin m.flags
      BY <1>3, <1>10, <3>1 DEF Readable
    <3>5. p \notin doubt' => m.seq > Iss /\ m.seq + Len(m.data) <= EndOf(t)
      BY <1>6, <1>7, <1>10, <1>13, <1>14, <3>1
    <3>6. QED
      BY <1>10, <3>2, <3>3, <3>4, <3>5 DEF OnWire
  <2>3. QED
    BY <2>1, <2>2
<1>17. Pending(t) /\ t.state # "FREE"
  BY <1>3, <1>10 DEF Pending, Readable
<1>18. toClient' \subseteq toClient /\ (p \in Port => Serves(q, read'[p]))
  BY <1>1, <1>4, SMTT(30)
<1>19. SlotsOk' /\ ConnectionsOk' /\ WireOk' /\ ServersOk'
  <2>1. Good(t, q, read'[p], doubt')
        /\ \A m \in toPeer' : m.port = p => OnWire(m, t, read'[p], doubt')
    BY <1>1, <1>15, <1>16
  <2>2. QED
    BY <1>1, <1>2, <1>3, <1>8, <1>9, <1>10, <1>12, <1>13, <1>17, <1>18, <2>1, SlotChanges DEF IInv
<1>20. slot' \in [Slot -> Connection] /\ slot'[i] = t
       /\ \A j \in Slot : j # i => slot'[j] = slot[j]
  BY <1>1, <1>2, <1>9, <1>12
<1>21. /\ call'.slot = i /\ call' \in Calls
       /\ \/ /\ ok /\ pc' = "check" /\ call'.op = "send" /\ call'.target = t.next
             /\ call'.left = call.left - n
          \/ ~ok /\ pc' = "done" /\ call'.op = "none"
  <2>1. CASE ok
    <3>1. pc' = "check" /\ call' = [call EXCEPT !.target = s.next + n, !.left = call.left - n]
      BY <2>1 DEF SendChunk, n
    <3>2. call.left - n \in 0 .. RequestSize
      BY <1>5
    <3>3. QED
      BY <1>1, <1>3, <1>6, <1>10, <2>1, <3>1, <3>2 DEF Calls
  <2>2. CASE ~ok
    <3>1. pc' = "done" /\ call' = [NoCall EXCEPT !.slot = i]
      BY <2>2 DEF SendChunk, Return
    <3>2. QED
      BY <1>2, <2>2, <3>1 DEF NoCall, Calls
  <2>3. QED
    BY <2>1, <2>2
<1>22. Phase(pc', call', t)
  <2>1. CASE ok
    <3>1. t.next = Iss + 1 + RequestSize - call'.left
      BY <1>3, <1>5, <1>10, <1>21, <2>1
    <3>2. QED
      BY <1>3, <1>10, <1>21, <2>1, <3>1 DEF Phase, Connecting, Sending, Receiving, Closing, Waits
  <2>2. CASE ~ok
    <3>1. s.una <= s.next
      BY <1>2, <1>3, <1>4, <1>6, AcksSent DEF Good, Fresh, Readable
    <3>2. QED
      BY <1>3, <1>6, <1>10, <1>21, <2>2, <3>1
         DEF Phase, Connecting, Sending, Receiving, Closing, Waits
  <2>3. QED
    BY <2>1, <2>2
<1>23. Types'
  BY <1>1, <1>8, <1>13, <1>20, <1>21 DEF IInv, Types, At
<1>24. Fresh(nextPort - 1)' \/ pc' = "done"
  BY <1>1, <1>2, <1>3, <1>12, <1>21 DEF Fresh, Readable
<1>25. CallOk'
  BY <1>1, <1>2, <1>3, <1>10, <1>20, <1>21, <1>22, <1>24, CallMoves DEF Connecting, Waits
<1>26. QED
  BY <1>19, <1>23, <1>25 DEF IInv

(* What is returned to the caller moves from the buffer behind what was    *)
(* read, and the sum of the two stays.                                     *)
LEMMA Consumed ==
    ASSUME NEW r \in Seq(Nat), NEW b \in Seq(Nat), NEW n \in 0 .. Len(b),
           Len(b) <= BufferSize,
           \A k \in 1 .. Len(b) : b[k] = Len(r) + k, \A k \in 1 .. Len(r) : r[k] = k
    PROVE  LET x == r \o SubSeq(b, 1, n)
               y == SubSeq(b, n + 1, Len(b))
           IN  /\ x \in Seq(Nat) /\ y \in Seq(Nat)
               /\ Len(x) = Len(r) + n /\ Len(y) = Len(b) - n /\ Len(x) + Len(y) = Len(r) + Len(b)
               /\ BufferSize - Len(y) \in 0 .. BufferSize
               /\ \A k \in 1 .. Len(y) : y[k] = Len(x) + k
               /\ \A k \in 1 .. Len(x) : x[k] = k
<1> DEFINE x == r \o SubSeq(b, 1, n)
           y == SubSeq(b, n + 1, Len(b))
<1> USE Sizes
<1>1. /\ x \in Seq(Nat) /\ Len(x) = Len(r) + n
      /\ \A k \in 1 .. Len(r) : x[k] = r[k]
      /\ \A k \in 1 .. n : x[Len(r) + k] = b[k]
  BY Joined
<1>2. /\ y \in Seq(Nat) /\ Len(y) = Len(b) - n
      /\ \A k \in 1 .. Len(b) - n : y[k] = b[n + k]
  OBVIOUS
<1> HIDE DEF x, y
<1>3. ASSUME NEW k \in 1 .. Len(x)
      PROVE  x[k] = k
  <2>1. CASE k <= Len(r)
    <3>1. k \in 1 .. Len(r)
      BY <2>1, <1>1
    <3>2. QED
      BY <3>1, <1>1
  <2>2. CASE k > Len(r)
    <3>1. k - Len(r) \in 1 .. n /\ k = Len(r) + (k - Len(r)) /\ k - Len(r) \in 1 .. Len(b)
      BY <2>2, <1>1
    <3>2. x[k] = b[k - Len(r)]
      BY <3>1, <1>1
    <3>3. b[k - Len(r)] = Len(r) + (k - Len(r))
      BY <3>1
    <3>4. QED
      BY <3>1, <3>2, <3>3
  <2>3. QED
    BY <2>1, <2>2
<1>4. ASSUME NEW k \in 1 .. Len(y)
      PROVE  y[k] = Len(x) + k
  <2>1. k \in 1 .. Len(b) - n /\ n + k \in 1 .. Len(b)
    BY <1>2
  <2>2. y[k] = b[n + k] /\ b[n + k] = Len(r) + (n + k)
    BY <2>1, <1>2
  <2>3. QED
    BY <2>1, <2>2, <1>1
<1>5. Len(x) + Len(y) = Len(r) + Len(b) /\ BufferSize - Len(y) \in 0 .. BufferSize
  BY <1>1, <1>2
<1>6. QED
  BY <1>1, <1>2, <1>3, <1>4, <1>5 DEF x, y

(* The receive half of a connection through net_tcp_receive. *)
LEMMA ReadKeeps ==
    ASSUME NEW s \in Connection, NEW q \in Server, NEW r \in Seq(Nat), NEW D \in SUBSET Port,
           Good(s, q, r, D), Serves(q, r), s.state \in Readable, NEW n \in 0 .. Len(s.buf)
    PROVE  LET x == r \o SubSeq(s.buf, 1, n)
               y == SubSeq(s.buf, n + 1, Len(s.buf))
               t == [s EXCEPT !.buf = y, !.wnd = BufferSize - Len(y)]
           IN  /\ x \in Seq(Nat) /\ Serves(q, x) /\ Len(x) = Len(r) + n
               /\ t \in Connection /\ Good(t, q, x, D)
               /\ \A m \in Outgoing : OnWire(m, s, r, D) => OnWire(m, t, x, D)
<1> DEFINE x == r \o SubSeq(s.buf, 1, n)
           y == SubSeq(s.buf, n + 1, Len(s.buf))
           t == [s EXCEPT !.buf = y, !.wnd = BufferSize - Len(y)]
<1> USE Sizes
<1>1. s.buf \in Seq(Nat) /\ s.wnd \in 0 .. BufferSize
  BY DEF Connection
<1>2. Kept(s) /\ Received(s, q, r) /\ Granted(s, q, r) /\ Sent(s, q, D)
  BY DEF Good
<1>3. s.state # "SYN_SENT" /\ Len(s.buf) <= BufferSize
  BY <1>1, <1>2 DEF Kept, Readable
<1>4. /\ \A k \in 1 .. Len(s.buf) : s.buf[k] = Len(r) + k
      /\ \A k \in 1 .. Len(r) : r[k] = k
      /\ q.state # "none" /\ Len(r) + Len(s.buf) <= q.written
  BY <1>2, <1>3 DEF Received, Serves
<1>5. /\ x \in Seq(Nat) /\ y \in Seq(Nat)
      /\ Len(x) = Len(r) + n /\ Len(y) = Len(s.buf) - n /\ Len(x) + Len(y) = Len(r) + Len(s.buf)
      /\ BufferSize - Len(y) \in 0 .. BufferSize
      /\ \A k \in 1 .. Len(y) : y[k] = Len(x) + k
      /\ \A k \in 1 .. Len(x) : x[k] = k
  BY <1>1, <1>3, <1>4, Consumed
<1> HIDE DEF x, y
<1>6. t \in Connection
  BY <1>5 DEF Connection
<1>7. /\ t.buf = y /\ t.wnd = BufferSize - Len(y) /\ t.state = s.state /\ t.port = s.port
      /\ t.iss = s.iss /\ t.una = s.una /\ t.next = s.next /\ t.rcv = s.rcv
  BY DEF Connection
<1> HIDE DEF t
<1>8. Len(x) \in Nat /\ Len(y) \in Nat /\ Len(r) \in Nat /\ Len(s.buf) \in Nat /\ n \in Nat
      /\ Len(r) <= Len(x) /\ q.written \in Nat /\ q.edge \in Nat
  <2>1. Len(x) \in Nat /\ Len(y) \in Nat /\ Len(r) \in Nat /\ Len(s.buf) \in Nat
    BY <1>1, <1>5, LenProperties
  <2>2. n \in Nat /\ Len(r) <= Len(x)
    BY <1>5, <2>1
  <2>3. q.written \in Nat /\ q.edge \in Nat
    BY Sizes DEF Server
  <2>4. QED
    BY <2>1, <2>2, <2>3
<1>9. Kept(t) /\ Sent(t, q, D)
  BY <1>2, <1>7 DEF Kept, Sent, EndOf
<1>10. Received(t, q, x)
  BY <1>2, <1>3, <1>4, <1>5, <1>7 DEF Received
<1>11. Granted(t, q, x)
  BY <1>2, <1>7, <1>8 DEF Granted
<1>12. Serves(q, x)
  <2>1. Len(x) <= q.written
    BY <1>4, <1>5, <1>8, SMTT(30)
  <2>2. QED
    BY <1>5, <2>1 DEF Serves
<1>13. ASSUME NEW m \in Outgoing, OnWire(m, s, r, D)
       PROVE  OnWire(m, t, x, D)
  <2>1. Grants(m, s, r) => Grants(m, t, x)
    <3>1. SUFFICES ASSUME Grants(m, s, r)
                   PROVE  Grants(m, t, x)
      OBVIOUS
    <3>2. PICK c \in 0 .. Len(r) + Len(s.buf) :
              m.ack = Seqn(c) /\ c + m.wnd <= Len(r) + BufferSize
      BY <3>1 DEF Grants
    <3>3. m.wnd \in Nat
      BY DEF Outgoing
    <3>4. Len(x) + Len(t.buf) = Len(r) + Len(s.buf)
      BY <1>5, <1>7
    <3>5. c + m.wnd <= Len(x) + BufferSize
      BY <1>8, <3>2, <3>3
    <3>6. QED
      BY <3>2, <3>4, <3>5 DEF Grants
  <2>2. EndOf(t) = EndOf(s)
    BY <1>7 DEF EndOf
  <2>3. QED
    BY <1>7, <1>13, <2>1, <2>2 DEF OnWire
<1>14. QED
  BY <1>5, <1>6, <1>9, <1>10, <1>11, <1>12, <1>13 DEF Good, t, x, y

LEMMA ReceiveKeeps ==
    ASSUME IInv, net_tcp_receive, UNCHANGED peer
    PROVE  IInv'
<1> DEFINE i == call.slot
           s == slot[i]
           p == s.port
           q == peer[p]
           r == read[p]
           n == Smaller(Len(s.buf), ChunkSize)
           x == r \o SubSeq(s.buf, 1, n)
           y == SubSeq(s.buf, n + 1, Len(s.buf))
           t == [s EXCEPT !.buf = y, !.wnd = BufferSize - Len(y)]
<1> USE Sizes
<1>1. /\ pc = "ready" /\ pc # "idle" /\ pc' \in {"sent", "done"}
      /\ n = 0 => pc' = "done"
      /\ UNCHANGED <<nextPort, call, retry, served, toPeer, toClient, doubt>>
      /\ read' = [read EXCEPT ![p] = x] /\ ended' = [ended EXCEPT ![p] = n = 0]
      /\ slot' = [slot EXCEPT ![i] = Window([s EXCEPT !.buf = y])]
  BY DEF net_tcp_receive, wires
<1>2. /\ slot \in [Slot -> Connection] /\ read \in [Port -> Seq(Nat)]
      /\ ended \in [Port -> BOOLEAN] /\ call \in Calls
  BY DEF IInv, Types
<1>3. /\ i \in Slot /\ s \in Connection /\ Phase(pc, call, s)
      /\ Used(i) => Fresh(nextPort - 1) /\ p = nextPort - 1
  BY <1>1, Running DEF Closing, Waits
<1>4. s.state # "FREE" /\ s.state \in Readable /\ s.next >= Iss + 1 /\ s.una <= s.next /\ Used(i)
  BY <1>1, <1>3 DEF Phase, Receiving, Used
<1>5. /\ p \in Port /\ q \in Server /\ r \in Seq(Nat) /\ doubt \in SUBSET Port
      /\ Good(s, q, r, doubt) /\ Serves(q, r)
      /\ \A m \in toPeer : m \in Outgoing
      /\ \A m \in toPeer : m.port = p => OnWire(m, s, r, doubt)
  BY <1>3, <1>4, InUse
<1>6. n \in 0 .. Len(s.buf)
  <2>1. Len(s.buf) \in Nat
    BY <1>3 DEF Connection
  <2>2. QED
    BY <2>1, SmallerIs
<1> HIDE DEF n
<1>7. /\ x \in Seq(Nat) /\ Serves(q, x)
      /\ t \in Connection /\ Good(t, q, x, doubt)
      /\ \A m \in Outgoing : OnWire(m, s, r, doubt) => OnWire(m, t, x, doubt)
  BY <1>3, <1>4, <1>5, <1>6, ReadKeeps, ZenonT(60)
<1> HIDE DEF x, y
<1>8. Window([s EXCEPT !.buf = y]) = t
  BY <1>3 DEF Window, Connection
<1>9. t.port = p /\ t.state = s.state /\ t.next = s.next /\ t.una = s.una
  BY <1>3 DEF Connection
<1> HIDE DEF t
<1>10. slot' = [slot EXCEPT ![i] = t]
  BY <1>1, <1>8
<1>11. read'[p] = x /\ read' \in [Port -> Seq(Nat)] /\ ended' \in [Port -> BOOLEAN] /\ Alone(p)
       /\ ended'[p] = (n = 0)
  BY <1>1, <1>2, <1>5, <1>7 DEF Alone
<1>12. Sends(p) /\ toClient' \subseteq toClient /\ Pending(t) /\ t.state # "FREE"
  BY <1>1, <1>4, <1>9 DEF Sends, Pending, Readable
<1>13. \A m \in toPeer' : m.port = p => OnWire(m, t, x, doubt)
  BY <1>1, <1>5, <1>7
<1>14. SlotsOk' /\ ConnectionsOk' /\ WireOk' /\ ServersOk'
  BY <1>1, <1>3, <1>4, <1>5, <1>7, <1>9, <1>10, <1>11, <1>12, <1>13, SlotChanges,
     ZenonT(60) DEF IInv
<1>15. slot' \in [Slot -> Connection] /\ slot'[i] = t
       /\ \A j \in Slot : j # i => slot'[j] = slot[j]
  BY <1>2, <1>3, <1>7, <1>10
<1>16. Types'
  BY <1>1, <1>11, <1>15 DEF IInv, Types, At
<1>17. Phase(pc', call', t)
  BY <1>1, <1>4, <1>9 DEF Phase, Connecting, Sending, Receiving, Closing, Waits
<1>18. Fresh(nextPort - 1)' \/ pc' = "done"
  BY <1>1, <1>3, <1>4, <1>11 DEF Fresh
<1>19. CallOk'
  BY <1>1, <1>3, <1>4, <1>9, <1>15, <1>17, <1>18, CallMoves DEF Connecting, Waits
<1>20. QED
  BY <1>14, <1>16, <1>19 DEF IInv

LEMMA CloseSendsFinKeeps ==
    ASSUME IInv, NEW ok \in BOOLEAN, CloseSendsFin(ok), UNCHANGED peer
    PROVE  IInv'
<1> DEFINE i == call.slot
           s == slot[i]
           p == s.port
           q == peer[p]
           r == read[p]
           f == {"FIN", "ACK"}
           to == IF s.state = "ESTABLISHED" THEN "FIN_WAIT_1" ELSE "LAST_ACK"
           t == [s EXCEPT !.next = @ + 1, !.state = to]
<1> USE Sizes
<1>1. /\ pc = "done" /\ pc # "idle" /\ s.state \in Readable /\ Emit({Segment(s, f, << >>)})
      /\ UNCHANGED <<nextPort, retry, served, toClient, read, ended, doubt>>
      /\ slot \in [Slot -> Connection] /\ call \in Calls
  BY DEF CloseSendsFin, IInv, Types
<1>2. /\ i \in Slot /\ s \in Connection /\ Phase(pc, call, s)
      /\ Used(i) => p = nextPort - 1
  BY <1>1, Running
<1>3. Used(i) /\ s.next >= Iss + 1 /\ s.una <= s.next /\ s.next \in Nat /\ s.una \in Nat
  BY <1>1, <1>2 DEF Phase, Receiving, Used, Readable, Connection
<1>4. /\ p \in Port /\ q \in Server /\ r \in Seq(Nat) /\ doubt \in SUBSET Port
      /\ Good(s, q, r, doubt) /\ Serves(q, r)
      /\ \A m \in toPeer : m \in Outgoing
      /\ \A m \in toPeer : m.port = p => OnWire(m, s, r, doubt)
  BY <1>2, <1>3, InUse
<1>5. f \in SUBSET Flags /\ << >> \in Seq(Nat)
  BY DEF Flags
<1>6. /\ toPeer' \subseteq Outgoing /\ Sends(p)
      /\ \A m \in toPeer' :
            \/ m \in toPeer
            \/ m.ack = s.rcv /\ m.wnd = s.wnd /\ m.data = << >>
  <2>1. PICK a \in Outgoing : a = Segment(s, f, << >>)
    BY <1>2, <1>5, SegmentType
  <2>2. /\ Emit({a}) /\ a.port = p /\ a.ack = s.rcv /\ a.wnd = s.wnd /\ a.data = << >>
    BY <1>1, <2>1 DEF Segment
  <2>3. QED
    BY <2>2, EmitKeeps
<1>7. t \in Connection
  <2>1. to \in {"FREE"} \cup Before \cup After /\ s.next + 1 \in Nat
    BY <1>3 DEF After
  <2>2. QED
    BY <1>2, <2>1 DEF Connection
<1>8. /\ t.port = p /\ t.state = to /\ t.iss = s.iss /\ t.una = s.una /\ t.buf = s.buf
      /\ t.rcv = s.rcv /\ t.wnd = s.wnd /\ t.next = s.next + 1
  BY <1>2 DEF Connection
<1> HIDE DEF t
<1>9. /\ t.state \in {"FIN_WAIT_1", "LAST_ACK"} /\ t.state # "FREE" /\ t.state \in After
      /\ t.state \in Open => s.state \in Open
      /\ t.state \in Finished <=> s.state \in Finished
      /\ s.state # "SYN_SENT" /\ s.state \in Before
  BY <1>1, <1>8 DEF Open, Finished, Readable, After, Before
<1>10. EndOf(s) = s.next /\ EndOf(t) = s.next
  BY <1>3, <1>8, <1>9 DEF EndOf, Before, After
<1>11. Good(t, q, r, doubt)
  <2>1. Kept(s) /\ Received(s, q, r) /\ Granted(s, q, r) /\ Sent(s, q, doubt)
    BY <1>4 DEF Good
  <2>2. Kept(t) /\ Granted(t, q, r)
    BY <1>8, <1>9, <2>1 DEF Kept, Granted
  <2>3. Received(t, q, r)
    BY <1>8, <1>9, <2>1, SameReceived
  <2>4. s.next \in Iss + 1 .. Iss + 1 + RequestSize
    BY <1>3, <1>9, <2>1 DEF Sent
  <2>5. t.next \in Iss + 2 .. Iss + 2 + RequestSize
    BY <1>8, <2>4
  <2>6. Sent(t, q, doubt)
    BY <1>8, <1>9, <1>10, <2>1, <2>5 DEF Sent, Before, After
  <2>7. QED
    BY <2>2, <2>3, <2>6 DEF Good
<1>12. Pending(t)
  BY <1>3, <1>8 DEF Pending
<1>13. ASSUME NEW m \in toPeer', m.port = p
       PROVE  OnWire(m, t, r, doubt)
  <2>1. Grants(m, s, r) => Grants(m, t, r)
    BY <1>8 DEF Grants
  <2>2. t.state \notin Before /\ t.state # "SYN_SENT"
    BY <1>9 DEF After, Before
  <2>3. CASE m \in toPeer
    <3>1. OnWire(m, s, r, doubt)
      BY <1>4, <1>13, <2>3
    <3>2. QED
      BY <1>8, <1>9, <1>10, <2>1, <2>2, <3>1 DEF OnWire
  <2>4. CASE m \notin toPeer
    <3>1. m.ack = s.rcv /\ m.wnd = s.wnd /\ m.data = << >> /\ m \in Outgoing
      BY <1>6, <1>13, <2>4
    <3>2. s.state \notin Finished => Grants(m, s, r)
      BY <1>1, <1>2, <1>4, <3>1, Acknowledges
    <3>3. QED
      BY <1>8, <1>9, <2>1, <2>2, <3>1, <3>2 DEF OnWire
  <2>5. QED
    BY <2>3, <2>4
<1>14. Alone(p) /\ toClient' \subseteq toClient /\ (p \in Port => Serves(q, read'[p]))
  BY <1>1, <1>4 DEF Alone
<1>15. CASE ok
  <2>1. /\ slot' = [slot EXCEPT ![i] = t] /\ pc' = "check"
        /\ call' = [op |-> "close", slot |-> i, target |-> s.next + 1, left |-> 0]
    BY <1>2, <1>15 DEF CloseSendsFin, t
  <2>2. SlotsOk' /\ ConnectionsOk' /\ WireOk' /\ ServersOk'
    <3>1. Good(t, q, read'[p], doubt')
          /\ \A m \in toPeer' : m.port = p => OnWire(m, t, read'[p], doubt')
      BY <1>1, <1>11, <1>13
    <3>2. QED
      BY <1>1, <1>2, <1>3, <1>6, <1>7, <1>8, <1>9, <1>12, <1>14, <2>1, <3>1, SlotChanges
         DEF IInv
  <2>3. slot' \in [Slot -> Connection] /\ slot'[i] = t
        /\ \A j \in Slot : j # i => slot'[j] = slot[j]
    BY <1>1, <1>2, <1>7, <2>1
  <2>4. call' \in Calls /\ call'.slot = i /\ call'.op = "close" /\ call'.target = t.next
    BY <1>2, <1>3, <1>8, <2>1 DEF Calls
  <2>5. Types'
    BY <1>1, <1>6, <2>1, <2>3, <2>4 DEF IInv, Types, At
  <2>6. Phase(pc', call', t)
    BY <1>9, <2>1, <2>4 DEF Phase, Connecting, Sending, Receiving, Closing, Waits
  <2>7. CallOk'
    BY <1>1, <1>2, <1>3, <1>8, <2>1, <2>3, <2>4, <2>6, CallMoves
       DEF Connecting, Closing, Waits
  <2>8. QED
    BY <2>2, <2>5, <2>7 DEF IInv
<1>16. CASE ~ok
  <2>1. Zeroed(i) /\ pc' = "idle" /\ call' = NoCall
    BY <1>16 DEF CloseSendsFin
  <2>2. /\ SlotsOk' /\ ConnectionsOk' /\ WireOk' /\ ServersOk'
        /\ slot' \in [Slot -> Connection] /\ slot'[i].state = "FREE"
        /\ \A j \in Slot : j # i => slot'[j] = slot[j]
    BY <1>1, <1>2, <1>6, <1>14, <2>1, ZeroKeeps
  <2>3. NoCall \in Calls /\ NoCall.slot = NoSlot
    BY DEF NoCall, Calls
  <2>4. CallOk'
    BY <1>1, <2>1, <2>2, <2>3, CallEnds
  <2>5. Types'
    BY <1>1, <1>6, <2>1, <2>2, <2>3 DEF IInv, Types, At
  <2>6. QED
    BY <2>2, <2>4, <2>5 DEF IInv
<1>17. QED
  BY <1>15, <1>16

(* A new connection has a port of its own: nothing with it is on the wire, *)
(* and its server has seen nothing.                                        *)
LEMMA ConnectKeeps ==
    ASSUME IInv, net_tcp_connect, UNCHANGED peer
    PROVE  IInv'
<1> DEFINE p == nextPort
           x == [Free EXCEPT !.state = "SYN_SENT", !.port = nextPort,
                             !.iss = Iss, !.una = Iss, !.next = Iss]
           t == Window(x)
<1> USE Sizes
<1>1. /\ pc = "idle" /\ p \in Port /\ p' = p + 1 /\ retry' = 0
      /\ UNCHANGED <<toPeer, toClient, served, read, ended, doubt>>
  BY DEF net_tcp_connect, wires
<1>2. PICK i \in Slot : /\ ~Used(i) /\ slot' = [slot EXCEPT ![i] = t]
                        /\ Begin("connect", i, 0, "syn")
  BY DEF net_tcp_connect
<1>3. slot \in [Slot -> Connection] /\ nextPort \in Nat /\ nextPort >= 1 /\ nextPort <= PortCount
  BY <1>1 DEF IInv, Types, Port
<1>4. /\ t.state = "SYN_SENT" /\ t.port = p /\ t.iss = Iss /\ t.una = Iss /\ t.next = Iss
      /\ t.rcv = 0 /\ t.buf = << >> /\ t.wnd = BufferSize - Len(t.buf)
  BY DEF Window, Free
<1>5. t \in Connection
  <2>1. x \in Connection /\ x.buf = << >>
    BY <1>1, FreeIs DEF Free, Connection, Before
  <2>2. BufferSize - Len(x.buf) \in 0 .. BufferSize
    BY <2>1
  <2>3. t = [x EXCEPT !.wnd = BufferSize - Len(x.buf)]
    BY DEF Window
  <2>4. QED
    BY <2>1, <2>2, <2>3 DEF Connection
<1> HIDE DEF t
<1>6. slot'[i] = t /\ slot' \in [Slot -> Connection]
      /\ \A j \in Slot : j # i => slot'[j] = slot[j]
  BY <1>2, <1>3, <1>5
<1>7. /\ call' \in Calls /\ call'.slot = i /\ call'.op = "connect" /\ pc' = "syn"
      /\ call'.slot # NoSlot
  BY <1>2 DEF Begin, Calls, Slot, NoSlot
<1>8. /\ peer[p] = NoPeer /\ read[p] = << >> /\ Fresh(p) /\ NoPeer \in Server
      /\ NoPeer.state = "none" /\ NoPeer.took = 0 /\ NoPeer.edge = 0 /\ ~NoPeer.finned
  <2>1. p >= nextPort
    BY <1>3
  <2>2. peer[p] = NoPeer /\ read[p] = << >> /\ Fresh(p)
    BY <1>1, <2>1 DEF IInv, ServersOk
  <2>3. peer[p] \in Server
    BY <1>1 DEF IInv, Types
  <2>4. QED
    BY <2>2, <2>3 DEF NoPeer
<1>9. Good(t, NoPeer, << >>, doubt) /\ Pending(t)
  BY <1>4, <1>8 DEF Good, Kept, Received, Granted, Sent, AckOf, EndOf, Pending, Open, Finished,
                    After, Before, Fresh
<1>10. \A j \in Slot : Used(j) => slot[j].port \in 1 .. nextPort - 1
  BY DEF IInv, SlotsOk
<1>11. \A j \in Slot : Used(j)' /\ j # i => Used(j) /\ slot'[j] = slot[j]
  BY <1>6 DEF Used
<1>12. \A j \in Slot : ~Used(j)' => j # i /\ ~Used(j) /\ slot'[j] = slot[j]
  BY <1>4, <1>6 DEF Used
<1>13. SlotsOk'
  <2>1. \A j \in Slot : Used(j)' => slot'[j].port \in 1 .. nextPort' - 1
    <3>1. SUFFICES ASSUME NEW j \in Slot, Used(j)'
                   PROVE  slot'[j].port \in 1 .. p
      BY <1>1, <1>3
    <3>2. CASE j = i
      BY <3>2, <1>3, <1>4, <1>6
    <3>3. CASE j # i
      <4>1. slot'[j].port \in 1 .. nextPort - 1
        BY <3>1, <3>3, <1>10, <1>11
      <4>2. QED
        BY <4>1, <1>3
    <3>4. QED
      BY <3>2, <3>3
  <2>2. \A j \in Slot : ~Used(j)' => Blank(slot'[j])
    BY <1>12 DEF IInv, SlotsOk
  <2>3. ASSUME NEW j \in Slot, NEW k \in Slot, Used(j)', Used(k)', slot'[j].port = slot'[k].port
        PROVE  j = k
    <3>1. \A l \in Slot : l # i /\ Used(l)' => slot'[l].port # slot'[i].port
      BY <1>3, <1>4, <1>6, <1>10, <1>11
    <3>2. CASE j # i /\ k # i
      BY <2>3, <3>2, <1>11 DEF IInv, SlotsOk
    <3>3. QED
      BY <2>3, <3>1, <3>2
  <2>4. QED
    BY <2>1, <2>2, <2>3 DEF SlotsOk
<1>14. ConnectionsOk'
  <2>1. SUFFICES ASSUME NEW j \in Slot, Used(j)'
                 PROVE  LET z == slot'[j].port
                        IN  Good(slot'[j], peer[z], read[z], doubt) /\ Pending(slot'[j])
    BY <1>1 DEF ConnectionsOk
  <2>2. CASE j = i
    BY <2>2, <1>4, <1>6, <1>8, <1>9
  <2>3. CASE j # i
    BY <2>1, <2>3, <1>11 DEF IInv, ConnectionsOk
  <2>4. QED
    BY <2>2, <2>3
<1>15. WireOk'
  <2>1. \A m \in toPeer :
            /\ m.port < nextPort' /\ m.port # p
            /\ m.data = << >> \/ m.seq + Len(m.data) <= Iss + 1 + RequestSize
    <3>1. SUFFICES ASSUME NEW m \in toPeer
                   PROVE  m.port < p + 1 /\ m.port # p
      BY <1>1 DEF IInv, WireOk
    <3>2. m.port < p /\ m \in Outgoing
      BY DEF IInv, WireOk, Types
    <3>3. m.port \in Nat
      BY <3>2 DEF Outgoing, Port, NoPort
    <3>4. QED
      BY <3>2, <3>3, <1>3
  <2>2. \A m \in toClient : Comes(m, peer[m.port])
    BY DEF IInv, WireOk
  <2>3. ASSUME NEW j \in Slot, NEW m \in toPeer, Used(j)', m.port = slot'[j].port
        PROVE  OnWire(m, slot'[j], read[m.port], doubt)
    <3>1. j # i
      BY <2>1, <2>3, <1>4, <1>6
    <3>2. QED
      BY <2>3, <3>1, <1>11 DEF IInv, WireOk
  <2>4. QED
    BY <1>1, <2>1, <2>2, <2>3 DEF WireOk
<1>16. ServersOk'
  <2>1. \A z \in Port : z >= nextPort' => z >= nextPort
    BY <1>1, <1>3 DEF Port
  <2>2. QED
    BY <1>1, <2>1 DEF IInv, ServersOk, Fresh
<1>17. Types'
  BY <1>1, <1>3, <1>6, <1>7 DEF IInv, Types, At
<1>18. CallOk'
  <2>1. \A j \in Slot : Used(j) => slot[j].state = "FIN_WAIT_2"
    BY <1>1 DEF IInv, CallOk, Slot, NoSlot
  <2>2. \A j \in Slot : Used(j)' /\ j # call'.slot => slot'[j].state = "FIN_WAIT_2"
    BY <1>7, <1>11, <2>1
  <2>3. Phase(pc', call', slot'[call'.slot])
    BY <1>4, <1>6, <1>7
       DEF Phase, Connecting, Sending, Receiving, Closing, Waits, Before
  <2>4. nextPort' - 1 = p
    BY <1>1, <1>3
  <2>5. slot'[call'.slot].port = nextPort' - 1
    BY <1>4, <1>6, <1>7, <2>4
  <2>6. (nextPort' - 1) \notin doubt' /\ ~ended'[nextPort' - 1]
    BY <1>1, <1>8, <2>4 DEF Fresh
  <2>7. QED
    BY <1>7, <2>2, <2>3, <2>5, <2>6 DEF CallOk, Fresh
<1>19. QED
  BY <1>13, <1>14, <1>15, <1>16, <1>17, <1>18 DEF IInv

LEMMA ClientKeeps ==
    ASSUME IInv, ClientStep, UNCHANGED peer
    PROVE  IInv'
BY IdleKeeps, ConnectKeeps, WaitTimesOutKeeps, SendSynKeeps, SendChunkKeeps, CloseSendsFinKeeps,
   ConnectFailsKeeps, SendBeginsKeeps, WaitBeginsKeeps, ReceiveKeeps, CloseDropsKeeps,
   WaitLooksKeeps, WaitServesKeeps, WaitGoesOnKeeps DEF ClientStep, ThreadStep

-----------------------------------------------------------------------------
(* A step of the server changes its end of one connection, may put a       *)
(* segment on the wire, and takes or leaves those it has read.             *)
LEMMA ServerChanges ==
    ASSUME IInv, NEW p \in Port, p < nextPort, NEW q \in Server,
           peer' = [peer EXCEPT ![p] = q], UNCHANGED clientVars, toPeer' \subseteq toPeer,
           Serves(q, read[p]),
           \A m \in toClient' : m \in toClient \/ (m \in Incoming /\ m.port = p),
           \A m \in toClient' : m.port = p => Comes(m, q),
           \A i \in Slot : Used(i) /\ slot[i].port = p => Good(slot[i], q, read[p], doubt)
    PROVE  IInv'
<1> USE DEF IInv
<1>1. UNCHANGED <<slot, nextPort, pc, call, retry, served, read, ended, doubt>>
  BY DEF clientVars
<1>2. peer \in [Port -> Server] /\ peer'[p] = q /\ \A x \in Port : x # p => peer'[x] = peer[x]
  BY DEF Types
<1>3. toClient' \subseteq Incoming
  BY DEF Types
<1>4. Types'
  BY <1>1, <1>2, <1>3 DEF Types
<1>5. SlotsOk' /\ CallOk'
  BY <1>1 DEF SlotsOk, CallOk, Used, Fresh
<1>6. ConnectionsOk'
  <2>1. SUFFICES ASSUME NEW i \in Slot, Used(i)
                 PROVE  /\ Good(slot[i], peer'[slot[i].port], read[slot[i].port], doubt)
                        /\ Pending(slot[i])
    BY <1>1 DEF ConnectionsOk, Used
  <2>2. slot[i].port \in Port /\ Pending(slot[i])
        /\ Good(slot[i], peer[slot[i].port], read[slot[i].port], doubt)
    BY <2>1, InUse
  <2>3. QED
    BY <1>2, <2>1, <2>2
<1>7. WireOk'
  <2>1. \A m \in toClient' : Comes(m, peer'[m.port])
    <3>1. SUFFICES ASSUME NEW m \in toClient'
                   PROVE  Comes(m, peer'[m.port])
      OBVIOUS
    <3>2. m.port \in Port
      BY <1>3 DEF Incoming
    <3>3. m.port # p => m \in toClient
      OBVIOUS
    <3>4. QED
      BY <1>2, <3>2, <3>3 DEF WireOk
  <2>2. QED
    BY <1>1, <2>1 DEF WireOk, Used
<1>8. ServersOk'
  <2>1. \A x \in Port : x >= nextPort => x # p
    BY DEF Types, Port
  <2>2. QED
    BY <1>1, <1>2, <2>1 DEF ServersOk, Fresh
<1>9. QED
  BY <1>4, <1>5, <1>6, <1>7, <1>8

LEMMA ServerIs ==
    ASSUME IInv, NEW p \in Port
    PROVE  /\ peer[p] \in Server /\ read[p] \in Seq(Nat) /\ doubt \in SUBSET Port
           /\ Serves(peer[p], read[p])
           /\ peer[p].state # "none" => p < nextPort
           /\ \A m \in toClient : m \in Incoming /\ (m.port = p => Comes(m, peer[p]))
<1>1. peer[p] \in Server /\ read[p] \in Seq(Nat) /\ doubt \in SUBSET Port
      /\ nextPort \in 1 .. PortCount + 1
  BY DEF IInv, Types
<1>2. peer[p].state # "none" => ~(p >= nextPort)
  BY DEF IInv, ServersOk, NoPeer
<1>3. p \in Nat /\ nextPort \in Nat
  BY <1>1, Sizes DEF Port
<1>4. \A m \in toClient : m \in Incoming /\ (m.port = p => Comes(m, peer[p]))
  BY DEF IInv, Types, WireOk
<1>5. QED
  BY <1>1, <1>2, <1>3, <1>4 DEF IInv, ServersOk

(* The server may acknowledge more and write more, and finish. *)
LEMMA ComesKeeps ==
    ASSUME NEW q \in Server, NEW u \in Server, NEW m \in Incoming, Comes(m, q),
           u.state # "none", AckOf(q) <= AckOf(u), q.written <= u.written,
           q.closed => u.closed /\ q.written = u.written
    PROVE  Comes(m, u)
<1> USE Sizes
<1>1. q.written \in Nat /\ u.written \in Nat /\ AckOf(q) \in Nat /\ AckOf(u) \in Nat
      /\ m.ack \in Nat /\ m.data \in Seq(Nat)
  BY SMTT(30) DEF Server, AckOf, Incoming
<1>2. Carries(m, q) => Carries(m, u)
  <2>1. SUFFICES ASSUME Carries(m, q)
                 PROVE  Carries(m, u)
    OBVIOUS
  <2>2. PICK from \in 0 .. q.written :
            /\ m.seq = Seqn(from)
            /\ \A k \in 1 .. Len(m.data) : m.data[k] = from + k
            /\ from + Len(m.data) <= q.written
            /\ "FIN" \in m.flags => q.closed /\ from + Len(m.data) = q.written
    BY <2>1 DEF Carries
  <2>3. from \in 0 .. u.written /\ from + Len(m.data) <= u.written
    BY <1>1, <2>2
  <2>4. "FIN" \in m.flags => u.closed /\ from + Len(m.data) = u.written
    BY <2>2
  <2>5. QED
    BY <2>2, <2>3, <2>4 DEF Carries
<1>3. m.ack \in Iss + 1 .. AckOf(u)
  BY <1>1 DEF Comes
<1>4. QED
  BY <1>2, <1>3 DEF Comes

LEMMA PeerWritesKeeps ==
    ASSUME IInv, NEW p \in Port, PeerWrites(p)
    PROVE  IInv'
<1> DEFINE q == peer[p]
           u == [q EXCEPT !.written = @ + 1]
           r == read[p]
<1> USE Sizes
<1>1. /\ q.state = "up" /\ ~q.closed /\ q.took = RequestSize /\ q.written + 1 \in Unit
      /\ peer' = [peer EXCEPT ![p].written = @ + 1] /\ UNCHANGED clientVars
      /\ toClient' = toClient /\ toPeer' = toPeer
  BY DEF PeerWrites, wires
<1>2. /\ q \in Server /\ r \in Seq(Nat) /\ Serves(q, r) /\ p < nextPort
      /\ \A m \in toClient : m \in Incoming /\ (m.port = p => Comes(m, q))
  BY <1>1, ServerIs
<1>3. PICK n \in 0 .. SeqSpace - 3 : Unit = 1 .. n
  BY ServerAssumption
<1>4. q.written \in Nat /\ q.written + 1 \in 0 .. SeqSpace - 3
      /\ 1 .. q.written + 1 \subseteq Unit
  <2>1. q.written \in Nat
    BY <1>2 DEF Server
  <2>2. q.written + 1 \in 1 .. n
    BY <1>1, <1>3
  <2>3. q.written + 1 \in 0 .. SeqSpace - 3 /\ 1 .. q.written + 1 \subseteq 1 .. n
    BY <2>1, <2>2
  <2>4. QED
    BY <1>3, <2>1, <2>3
<1>5. u \in Server
  BY <1>2, <1>4 DEF Server
<1>6. /\ u.state = q.state /\ u.took = q.took /\ u.written = q.written + 1 /\ u.una = q.una
      /\ u.edge = q.edge /\ u.closed = q.closed /\ u.finned = q.finned
  BY <1>2 DEF Server
<1>7. peer' = [peer EXCEPT ![p] = u]
  BY <1>1
<1> HIDE DEF u
<1>8. AckOf(u) = AckOf(q) /\ q.took \in Nat
  BY <1>2, <1>6 DEF AckOf, Server
<1>9. Serves(u, r)
  <2>1. Len(r) <= u.written
    BY <1>2, <1>4, <1>6 DEF Serves
  <2>2. QED
    BY <1>1, <1>2, <1>4, <1>6, <2>1 DEF Serves
<1>10. \A m \in toClient : m.port = p => Comes(m, u)
  <2>1. q.written <= u.written /\ AckOf(q) <= AckOf(u)
    BY <1>2, <1>4, <1>6, <1>8 DEF AckOf
  <2>2. QED
    BY <1>1, <1>2, <1>5, <1>6, <2>1, ComesKeeps
<1>11. ASSUME NEW i \in Slot, Used(i), slot[i].port = p
       PROVE  Good(slot[i], u, r, doubt)
  <2>1. Good(slot[i], q, r, doubt) /\ slot[i] \in Connection
    BY <1>11, InUse
  <2>2. Received(slot[i], u, r)
    <3>1. Received(slot[i], q, r) /\ slot[i].state \notin Finished
      BY <1>1, <2>1 DEF Good, Received
    <3>2. slot[i].buf \in Seq(Nat)
      BY <2>1 DEF Connection
    <3>3. Len(r) + Len(slot[i].buf) \in Nat
      <4>1. PICK b \in Seq(Nat) : b = slot[i].buf
        BY <3>2
      <4>2. Len(r) + Len(b) \in Nat
        BY <1>2
      <4>3. QED
        BY <4>1, <4>2
    <3>4. \A k \in Nat : k <= q.written => k <= u.written
      BY <1>4, <1>6
    <3>5. QED
      BY <1>6, <3>1, <3>3, <3>4 DEF Received
  <2>3. Granted(slot[i], u, r) /\ Sent(slot[i], u, doubt)
    BY <1>6, <1>8, <2>1 DEF Good, Granted, Sent
  <2>4. QED
    BY <2>1, <2>2, <2>3 DEF Good
<1>12. QED
  BY <1>1, <1>2, <1>5, <1>7, <1>9, <1>10, <1>11, ServerChanges

LEMMA PeerClosesKeeps ==
    ASSUME IInv, NEW p \in Port, PeerCloses(p)
    PROVE  IInv'
<1> DEFINE q == peer[p]
           u == [q EXCEPT !.closed = TRUE]
           r == read[p]
<1> USE Sizes
<1>1. /\ q.state = "up" /\ ~q.closed
      /\ peer' = [peer EXCEPT ![p].closed = TRUE] /\ UNCHANGED clientVars
      /\ toClient' = toClient /\ toPeer' = toPeer
  BY DEF PeerCloses, wires
<1>2. /\ q \in Server /\ r \in Seq(Nat) /\ Serves(q, r) /\ p < nextPort
      /\ \A m \in toClient : m \in Incoming /\ (m.port = p => Comes(m, q))
  BY <1>1, ServerIs
<1>3. u \in Server
  BY <1>2 DEF Server
<1>4. /\ u.state = q.state /\ u.took = q.took /\ u.written = q.written /\ u.una = q.una
      /\ u.edge = q.edge /\ u.closed = TRUE /\ u.finned = q.finned
  BY <1>2 DEF Server
<1>5. peer' = [peer EXCEPT ![p] = u]
  BY <1>1
<1> HIDE DEF u
<1>6. AckOf(u) = AckOf(q) /\ AckOf(q) \in Nat /\ q.written \in Nat
  BY <1>2, <1>4 DEF AckOf, Server
<1>7. Serves(u, r)
  BY <1>1, <1>2, <1>4 DEF Serves
<1>8. \A m \in toClient : m.port = p => Comes(m, u)
  <2>1. q.written <= u.written /\ AckOf(q) <= AckOf(u)
    BY <1>4, <1>6
  <2>2. QED
    BY <1>1, <1>2, <1>3, <1>4, <2>1, ComesKeeps
<1>9. ASSUME NEW i \in Slot, Used(i), slot[i].port = p
      PROVE  Good(slot[i], u, r, doubt)
  <2>1. Good(slot[i], q, r, doubt)
    BY <1>9, InUse
  <2>2. QED
    BY <1>1, <1>4, <1>6, <2>1 DEF Good, Received, Granted, Sent
<1>10. QED
  BY <1>1, <1>2, <1>3, <1>5, <1>7, <1>8, <1>9, ServerChanges

(* What the server says, beginning with its acknowledgement. *)
LEMMA PeerSaysKeeps ==
    ASSUME IInv, NEW p \in Port, NEW q \in Server,
           peer' = [peer EXCEPT ![p] = q], peer[p].state # "none", q.state # "none",
           q \in {peer[p], [peer[p] EXCEPT !.state = "gone"]},
           NEW a \in Incoming, a.port = p, PeerEmits(a), Comes(a, q)
    PROVE  IInv'
<1> USE Sizes
<1>1. /\ peer[p] \in Server /\ read[p] \in Seq(Nat) /\ Serves(peer[p], read[p]) /\ p < nextPort
      /\ \A m \in toClient : m \in Incoming /\ (m.port = p => Comes(m, peer[p]))
  BY ServerIs
<1>2. UNCHANGED clientVars /\ toPeer' = toPeer /\ toClient' = toClient \cup {a}
  BY DEF PeerEmits
<1>3. /\ q.took = peer[p].took /\ q.written = peer[p].written
      /\ q.edge = peer[p].edge /\ q.closed = peer[p].closed /\ q.finned = peer[p].finned
  BY <1>1 DEF Server
<1>4. AckOf(q) = AckOf(peer[p])
  BY <1>3 DEF AckOf
<1>5. Serves(q, read[p])
  BY <1>1, <1>3 DEF Serves
<1>6. \A m \in toClient' : m.port = p => Comes(m, q)
  <2>1. /\ AckOf(peer[p]) <= AckOf(q) /\ peer[p].written <= q.written
        /\ peer[p].closed => q.closed /\ peer[p].written = q.written
    <3>1. PICK z \in Server : z = peer[p]
      BY <1>1
    <3>2. z.written \in Nat /\ AckOf(z) \in Nat
      BY DEF Server, AckOf
    <3>3. QED
      BY <1>3, <1>4, <3>1, <3>2
  <2>2. \A m \in toClient : m.port = p => Comes(m, q)
    BY <1>1, <2>1, ComesKeeps
  <2>3. QED
    BY <1>2, <2>2
<1>7. ASSUME NEW i \in Slot, Used(i), slot[i].port = p
      PROVE  Good(slot[i], q, read[p], doubt)
  <2>1. Good(slot[i], peer[p], read[p], doubt)
    BY <1>7, InUse
  <2>2. QED
    BY <1>3, <1>4, <2>1 DEF Good, Received, Granted, Sent
<1>8. \A m \in toClient' : m \in toClient \/ (m \in Incoming /\ m.port = p)
  BY <1>2
<1>9. QED
  BY <1>1, <1>2, <1>5, <1>6, <1>7, <1>8, ServerChanges

LEMMA FlagSets ==
    /\ {"SYN", "ACK"} \in SUBSET Flags /\ {"RST"} \in SUBSET Flags /\ {"ACK"} \in SUBSET Flags
    /\ {"ACK", "FIN"} \in SUBSET Flags /\ << >> \in Seq(Nat)
BY DEF Flags

LEMMA PeerNumbers ==
    ASSUME IInv, NEW p \in Port, NEW k \in 0 .. SeqSpace - 3
    PROVE  /\ Seqn(k) \in 0 .. SeqSpace - 1
           /\ PeerAck(p) \in Nat /\ PeerAck(p) \in Iss + 1 .. AckOf(peer[p])
<1> USE Sizes
<1>1. Seqn(k) \in 0 .. SeqSpace - 1
  <2>1. k \in Nat /\ k + 0 < SeqSpace
    OBVIOUS
  <2>2. QED
    BY <2>1, SeqnStep
<1>2. PeerAck(p) = AckOf(peer[p])
  BY DEF PeerAck, AckOf
<1>3. AckOf(peer[p]) \in Nat /\ AckOf(peer[p]) >= Iss + 1
  BY ServerIs DEF AckOf, Server
<1>4. QED
  BY <1>1, <1>2, <1>3

LEMMA PeerOpensKeeps ==
    ASSUME IInv, NEW p \in Port, PeerOpens(p)
    PROVE  IInv'
<1> DEFINE b == PeerSegment(p, {"SYN", "ACK"}, 0, << >>)
           a == [b EXCEPT !.seq = PeerIss]
<1> USE Sizes
<1>1. /\ peer[p].state # "none" /\ PeerEmits(a) /\ peer' = peer
      /\ peer \in [Port -> Server] /\ peer[p] \in Server
  BY DEF PeerOpens, IInv, Types
<1>2. 0 \in 0 .. SeqSpace - 3
  BY ServerAssumption
<1>3. /\ b \in Incoming /\ b.port = p /\ b.flags = {"SYN", "ACK"} /\ b.data = << >>
      /\ b.ack \in Iss + 1 .. AckOf(peer[p])
  BY <1>2, FlagSets, PeerNumbers DEF PeerSegment, Incoming
<1> HIDE DEF b
<1>4. /\ a \in Incoming /\ a.port = p /\ a.flags = {"SYN", "ACK"} /\ a.data = << >>
      /\ a.ack \in Iss + 1 .. AckOf(peer[p]) /\ a.seq = PeerIss
  <2>1. PeerIss \in 0 .. SeqSpace - 1
    OBVIOUS
  <2>2. a \in Incoming
    BY <1>3, <2>1 DEF Incoming
  <2>3. /\ a.port = b.port /\ a.flags = b.flags /\ a.data = b.data /\ a.ack = b.ack
        /\ a.seq = PeerIss
    BY <1>3 DEF Incoming
  <2>4. QED
    BY <1>3, <2>2, <2>3
<1> HIDE DEF a
<1>5. Comes(a, peer[p])
  BY <1>1, <1>4 DEF Comes
<1>6. peer' = [peer EXCEPT ![p] = peer[p]]
  BY <1>1
<1>7. QED
  BY <1>1, <1>4, <1>5, <1>6, PeerSaysKeeps

LEMMA PeerResetsKeeps ==
    ASSUME IInv, NEW p \in Port, PeerResets(p)
    PROVE  IInv'
<1> DEFINE a == PeerSegment(p, {"RST"}, 0, << >>)
           q == [peer[p] EXCEPT !.state = "gone"]
<1> USE Sizes
<1>1. /\ peer[p].state # "none" /\ PeerEmits(a)
      /\ peer' = [peer EXCEPT ![p].state = "gone"] /\ peer[p] \in Server
  BY DEF PeerResets, IInv, Types
<1>2. 0 \in 0 .. SeqSpace - 3
  BY ServerAssumption
<1>3. /\ a \in Incoming /\ a.port = p /\ a.flags = {"RST"} /\ a.data = << >>
      /\ a.ack \in Iss + 1 .. AckOf(peer[p])
  BY <1>2, FlagSets, PeerNumbers DEF PeerSegment, Incoming
<1> HIDE DEF a
<1>4. q \in Server /\ q.state = "gone" /\ AckOf(q) = AckOf(peer[p])
  BY <1>1 DEF Server, AckOf
<1>5. Comes(a, q)
  BY <1>3, <1>4 DEF Comes
<1>6. peer' = [peer EXCEPT ![p] = q]
  BY <1>1
<1>7. QED
  BY <1>1, <1>3, <1>4, <1>5, <1>6, PeerSaysKeeps

LEMMA PeerSendsKeeps ==
    ASSUME IInv, NEW p \in Port, NEW from \in {0} \cup Unit, NEW to \in {0} \cup Unit,
           PeerSends(p, from, to)
    PROVE  IInv'
<1> DEFINE q == peer[p]
           e == [k \in 1 .. to - from |-> from + k]
<1> USE Sizes
<1>1. PICK fin \in {FALSE, q.closed /\ to = q.written} :
          PeerEmits(PeerSegment(p, {"ACK"} \cup (IF fin THEN {"FIN"} ELSE {}), from, e))
  BY DEF PeerSends
<1>2. q.state = "up" /\ from \in q.una .. to /\ to <= q.written /\ peer' = peer
  BY DEF PeerSends
<1>3. q \in Server /\ peer \in [Port -> Server]
  BY DEF IInv, Types
<1>4. q.una \in Nat /\ q.written \in 0 .. SeqSpace - 3 /\ q.written \in Nat
  BY <1>3 DEF Server
<1>5. to \in Int
  <2>1. PICK n \in 0 .. SeqSpace - 3 : Unit = 1 .. n
    BY ServerAssumption
  <2>2. QED
    BY <2>1
<1>6. /\ from \in Nat /\ to \in Nat /\ from \in 0 .. q.written /\ from \in 0 .. SeqSpace - 3
      /\ to - from \in Nat /\ from + (to - from) = to
  BY <1>2, <1>4, <1>5
<1>7. e \in Seq(Nat) /\ Len(e) = to - from /\ \A k \in 1 .. Len(e) : e[k] = from + k
  BY <1>6
<1> HIDE DEF e
<1>8. PICK f \in SUBSET Flags :
          /\ f = {"ACK"} \cup (IF fin THEN {"FIN"} ELSE {})
          /\ "SYN" \notin f
          /\ "FIN" \in f => q.closed /\ to = q.written
  <2>1. {"ACK"} \cup (IF fin THEN {"FIN"} ELSE {}) \in SUBSET Flags
    BY DEF Flags
  <2>2. QED
    BY <2>1
<1> DEFINE a == PeerSegment(p, f, from, e)
<1>9. Seqn(from) \in 0 .. SeqSpace - 1 /\ PeerAck(p) \in Nat /\ PeerAck(p) \in Iss + 1 .. AckOf(q)
  BY <1>6, PeerNumbers
<1>10. /\ a \in Incoming /\ a.port = p /\ a.flags = f /\ a.seq = Seqn(from) /\ a.data = e
       /\ a.ack \in Iss + 1 .. AckOf(q) /\ PeerEmits(a)
  BY <1>1, <1>7, <1>8, <1>9 DEF PeerSegment, Incoming
<1> HIDE DEF a
<1>11. Carries(a, q)
  BY <1>2, <1>6, <1>7, <1>8, <1>10 DEF Carries
<1>12. Comes(a, q)
  BY <1>2, <1>8, <1>10, <1>11 DEF Comes
<1>13. peer' = [peer EXCEPT ![p] = q]
  BY <1>2, <1>3
<1>14. QED
  BY <1>2, <1>3, <1>10, <1>12, <1>13, PeerSaysKeeps

LEMMA LossKeeps ==
    ASSUME IInv, UNCHANGED <<clientVars, peer>>, toPeer' \subseteq toPeer,
           toClient' \subseteq toClient
    PROVE  IInv'
<1> USE DEF IInv, clientVars
<1>1. Types' /\ SlotsOk' /\ CallOk'
  BY DEF Types, SlotsOk, CallOk, Used, Fresh
<1>2. ConnectionsOk' /\ WireOk' /\ ServersOk'
  BY DEF ConnectionsOk, WireOk, ServersOk, Used, Fresh
<1>3. QED
  BY <1>1, <1>2

LEMMA CoveredIs ==
    ASSUME NEW m \in Outgoing
    PROVE  Covered(m) \in Nat
<1> USE Sizes
<1> DEFINE x == m.ack - PeerIss - 1
<1>1. x \in Int /\ -SeqSpace <= x /\ x < SeqSpace
  BY DEF Outgoing
<1>2. CASE x >= 0
  BY <1>1, <1>2 DEF Covered
<1>3. CASE x < 0
  <2>1. x % SeqSpace = x + SeqSpace
    BY <1>1, <1>3
  <2>2. QED
    BY <1>1, <2>1 DEF Covered
<1>4. QED
  BY <1>1, <1>2, <1>3

LEMMA ServerNumbers ==
    ASSUME NEW q \in Server
    PROVE  q.took \in Nat /\ q.written \in Nat /\ AckOf(q) \in Nat /\ AckOf(q) >= Iss + 1 + q.took
BY Sizes DEF Server, AckOf

(* The server takes a segment of a connection it has accepted. *)
LEMMA TakesKeeps ==
    ASSUME NEW s \in Connection, NEW q \in Server, NEW u \in Server, NEW r \in Seq(Nat),
           NEW D \in SUBSET Port, NEW m \in Outgoing,
           Good(s, q, r, D), OnWire(m, s, r, D), "ACK" \in m.flags, Len(r) <= q.written,
           u.state = q.state, u.written = q.written, u.closed = q.closed,
           u.edge = Larger(q.edge, Covered(m) + m.wnd),
           u.took = q.took \/ /\ m.data # << >> /\ m.seq = AckOf(q)
                              /\ u.took = q.took + Len(m.data),
           u.took >= q.took, AckOf(u) >= AckOf(q), q.finned => u.finned,
           u.finned => q.finned \/ "FIN" \in m.flags
    PROVE  Good(s, u, r, D)
<1> USE Sizes
<1>1. Kept(s) /\ Received(s, q, r) /\ Granted(s, q, r) /\ Sent(s, q, D)
  BY DEF Good
<1>2. Received(s, u, r)
  BY <1>1 DEF Received
<1>3. Granted(s, u, r)
  <2>1. SUFFICES ASSUME s.state \notin Finished
                 PROVE  u.edge <= Len(r) + BufferSize
    BY DEF Granted
  <2>2. PICK c \in 0 .. Len(r) + Len(s.buf) :
            m.ack = Seqn(c) /\ c + m.wnd <= Len(r) + BufferSize
    BY <2>1 DEF OnWire, Grants
  <2>3. PICK b \in Seq(Nat) : b = s.buf
    BY DEF Connection
  <2>4. q.written \in 0 .. SeqSpace - 3
    BY DEF Server
  <2>5. Len(r) + Len(b) <= q.written
    <3>1. s.state = "SYN_SENT" => b = << >>
      BY <1>1, <2>3 DEF Received
    <3>2. s.state # "SYN_SENT" => Len(r) + Len(b) <= q.written
      BY <1>1, <2>3 DEF Received
    <3>3. Len(r) \in Nat /\ (b = << >> => Len(b) = 0)
      OBVIOUS
    <3>4. b = << >> => Len(r) + Len(b) <= q.written
      BY <3>3
    <3>5. QED
      BY <3>1, <3>2, <3>4
  <2>6. c \in 0 .. SeqSpace - 1
    <3>1. c \in 0 .. Len(r) + Len(b)
      BY <2>2, <2>3
    <3>2. QED
      BY <2>4, <2>5, <3>1
  <2>7. Covered(m) = c
    BY <2>2, <2>6, SeqnBack DEF Covered
  <2>8. q.edge <= Len(r) + BufferSize
    BY <1>1, <2>1 DEF Granted
  <2>9. QED
    BY <2>2, <2>7, <2>8 DEF Larger
<1>4. Sent(s, u, D)
  <2>1. /\ s.una \in Nat /\ s.next \in Nat /\ q.took \in Nat /\ u.took \in Nat /\ m.seq \in Nat
        /\ EndOf(s) \in Int /\ AckOf(q) \in Nat /\ AckOf(u) \in Nat
    <3>1. s.una \in Nat /\ s.next \in Nat /\ EndOf(s) \in Int
      BY DEF Connection, EndOf
    <3>2. m.seq \in Nat
      BY DEF Outgoing
    <3>3. QED
      BY <3>1, <3>2, ServerNumbers
  <2>2. Len(m.data) \in Nat
    BY DEF Outgoing
  <2>3. s.una <= AckOf(u)
    BY <1>1, <2>1 DEF Sent
  <2>4. s.state \in Before => ~u.finned
    BY <1>1 DEF Sent, OnWire
  <2>5. s.state = "SYN_SENT" => u.took = 0
    BY <1>1 DEF Sent, OnWire
  <2>6. s.port \notin D => u.took = 0 \/ Iss + 1 + u.took <= EndOf(s)
    <3>1. CASE u.took = q.took
      BY <1>1, <3>1 DEF Sent
    <3>2. CASE m.data # << >> /\ m.seq = AckOf(q) /\ u.took = q.took + Len(m.data)
      <4>1. AckOf(q) >= Iss + 1 + q.took
        BY ServerNumbers
      <4>2. s.port \notin D => m.seq + Len(m.data) <= EndOf(s)
        BY <3>2 DEF OnWire
      <4>3. QED
        BY <2>1, <2>2, <3>2, <4>1, <4>2
    <3>3. QED
      BY <3>1, <3>2
  <2>7. s.state = "FIN_WAIT_2" /\ s.port \notin D => u.finned
    BY <1>1 DEF Sent
  <2>8. QED
    BY <1>1, <2>3, <2>4, <2>5, <2>6, <2>7 DEF Sent
<1>5. QED
  BY <1>1, <1>2, <1>3, <1>4 DEF Good

LEMMA PeerTakesKeeps ==
    ASSUME IInv, NEW m \in toPeer, PeerTakes(m)
    PROVE  IInv'
<1> DEFINE p == m.port
           q == peer[p]
           r == read[p]
<1> USE Sizes
<1>1. /\ toPeer' \subseteq toPeer /\ UNCHANGED clientVars /\ toClient' = toClient
  BY DEF PeerTakes
<1>2. /\ m \in Outgoing /\ p < nextPort /\ peer \in [Port -> Server]
      /\ m.data = << >> \/ m.seq + Len(m.data) <= Iss + 1 + RequestSize
  BY DEF IInv, Types, WireOk
<1>3. CASE UNCHANGED peer
  BY <1>1, <1>3, LossKeeps
<1>4. ASSUME p \in Port
      PROVE  /\ q \in Server /\ r \in Seq(Nat) /\ doubt \in SUBSET Port /\ Serves(q, r)
             /\ \A a \in toClient : a \in Incoming /\ (a.port = p => Comes(a, q))
             /\ \A i \in Slot : Used(i) /\ slot[i].port = p =>
                   /\ slot[i] \in Connection /\ Good(slot[i], q, r, doubt)
                   /\ OnWire(m, slot[i], r, doubt)
  BY <1>4, ServerIs, InUse
<1>5. ASSUME p \in Port, q.state = "none", NEW to \in {"up", "gone"},
             peer' = [peer EXCEPT ![p] = [NoPeer EXCEPT !.state = to, !.edge = m.wnd]]
      PROVE  IInv'
  <2> DEFINE u == [NoPeer EXCEPT !.state = to, !.edge = m.wnd]
  <2>1. q = NoPeer /\ q \in Server
    BY <1>4, <1>5 DEF Serves
  <2>2. m.wnd \in 0 .. BufferSize /\ m.wnd \in Nat
    BY <1>2 DEF Outgoing
  <2>3. u \in Server
    <3>1. NoPeer \in Server /\ to \in {"none", "up", "gone"}
      BY <2>1
    <3>2. QED
      BY <2>2, <3>1 DEF Server
  <2>4. /\ u.state = to /\ u.edge = m.wnd /\ u.took = 0 /\ u.written = 0 /\ ~u.finned
        /\ NoPeer.state = "none" /\ NoPeer.took = 0 /\ NoPeer.written = 0 /\ ~NoPeer.finned
    BY DEF NoPeer
  <2>5. peer' = [peer EXCEPT ![p] = u]
    BY <1>5
  <2> HIDE DEF u
  <2>6. Serves(u, r)
    BY <1>4, <1>5, <2>1, <2>4 DEF Serves
  <2>7. \A a \in toClient' : a \in toClient /\ a.port # p
    BY <1>1, <1>4, <1>5 DEF Comes
  <2>8. ASSUME NEW i \in Slot, Used(i), slot[i].port = p
        PROVE  Good(slot[i], u, r, doubt)
    <3>1. slot[i] \in Connection /\ Good(slot[i], NoPeer, r, doubt)
      BY <1>4, <1>5, <2>1, <2>8
    <3>2. slot[i].state = "SYN_SENT"
      BY <2>4, <3>1 DEF Good, Received
    <3>3. Received(slot[i], u, r)
      BY <3>1, <3>2 DEF Good, Received, Open, Finished
    <3>4. Len(r) \in Nat
      BY <1>4, <1>5
    <3>5. Granted(slot[i], u, r)
      BY <2>2, <2>4, <3>4 DEF Granted
    <3>6. Sent(slot[i], u, doubt)
      BY <2>4, <3>1, <3>2 DEF Good, Sent, AckOf
    <3>7. QED
      BY <3>1, <3>3, <3>5, <3>6 DEF Good
  <2>9. QED
    BY <1>1, <1>2, <1>5, <2>3, <2>5, <2>6, <2>7, <2>8, ServerChanges
<1>6. ASSUME p \in Port, q.state = "up", "ACK" \in m.flags,
             peer' = [peer EXCEPT ![p] =
                 [q EXCEPT !.una = Larger(q.una, Covered(m)),
                           !.edge = Larger(q.edge, Covered(m) + m.wnd),
                           !.took = IF m.seq = PeerAck(p) THEN q.took + Len(m.data) ELSE q.took,
                           !.finned = q.finned \/ (m.seq = PeerAck(p) /\ "FIN" \in m.flags)]]
      PROVE  IInv'
  <2> DEFINE una == Larger(q.una, Covered(m))
             edge == Larger(q.edge, Covered(m) + m.wnd)
             took == IF m.seq = PeerAck(p) THEN q.took + Len(m.data) ELSE q.took
             finned == q.finned \/ (m.seq = PeerAck(p) /\ "FIN" \in m.flags)
             u == [q EXCEPT !.una = una, !.edge = edge, !.took = took, !.finned = finned]
  <2>1. q \in Server /\ Covered(m) \in Nat /\ m.wnd \in Nat /\ m.seq \in Nat /\ Len(m.data) \in Nat
    BY <1>2, <1>4, <1>6, CoveredIs, SMTT(30) DEF Outgoing
  <2>2. q.una \in Nat /\ q.edge \in Nat /\ q.took \in 0 .. RequestSize /\ q.finned \in BOOLEAN
    BY <2>1 DEF Server
  <2>3. una \in Nat /\ edge \in Nat /\ finned \in BOOLEAN
    BY <2>1, <2>2 DEF Larger
  <2>4. PeerAck(p) = AckOf(q) /\ AckOf(q) \in Nat /\ AckOf(q) >= Iss + 1 + q.took
    BY <2>2 DEF PeerAck, AckOf
  <2>5. took \in q.took .. RequestSize
    <3>1. CASE m.seq = AckOf(q) /\ m.data # << >>
      <4>1. took = q.took + Len(m.data)
        BY <2>4, <3>1
      <4>2. q.took + Len(m.data) <= RequestSize
        BY <1>2, <2>1, <2>2, <2>4, <3>1
      <4>3. QED
        BY <2>1, <2>2, <4>1, <4>2
    <3>2. CASE m.seq = AckOf(q) /\ m.data = << >>
      <4>1. took = q.took
        BY <2>2, <2>4, <3>2
      <4>2. QED
        BY <2>2, <4>1
    <3>3. CASE m.seq # AckOf(q)
      <4>1. took = q.took
        BY <2>4, <3>3
      <4>2. QED
        BY <2>2, <4>1
    <3>4. QED
      BY <3>1, <3>2, <3>3
  <2>6. took = q.took \/ /\ m.data # << >> /\ m.seq = AckOf(q)
                         /\ took = q.took + Len(m.data)
    BY <2>2, <2>4
  <2> HIDE DEF una, edge, took, finned
  <2>7. u \in Server
    <3>1. took \in 0 .. RequestSize
      BY <2>2, <2>5
    <3>2. QED
      BY <2>1, <2>3, <3>1 DEF Server
  <2>8. /\ u.state = q.state /\ u.written = q.written /\ u.closed = q.closed /\ u.edge = edge
        /\ u.took = took /\ u.finned = finned
    BY <2>1 DEF Server
  <2>9. peer' = [peer EXCEPT ![p] = u]
    BY <1>6 DEF una, edge, took, finned
  <2> HIDE DEF u
  <2>10. took >= q.took /\ (took # q.took => q.took # RequestSize)
    BY <2>2, <2>5
  <2>11. (q.finned => u.finned) /\ (u.finned => q.finned \/ "FIN" \in m.flags)
    BY <2>8 DEF finned
  <2>12. AckOf(u) >= AckOf(q)
    BY <2>2, <2>5, <2>8, <2>10, <2>11 DEF AckOf
  <2>13. Serves(u, r)
    <3>1. Serves(q, r)
      BY <1>4, <1>6
    <3>2. u.written > 0 => u.took = RequestSize
      BY <2>8, <2>10, <3>1 DEF Serves
    <3>3. QED
      BY <1>6, <2>8, <3>1, <3>2 DEF Serves
  <2>14. \A a \in toClient' : a \in toClient /\ (a.port = p => Comes(a, u))
    <3>1. q.written \in Nat /\ AckOf(q) \in Nat /\ AckOf(u) \in Nat
      BY <2>1, <2>7, ServerNumbers
    <3>2. AckOf(q) <= AckOf(u) /\ q.written <= u.written /\ u.state # "none"
      BY <1>6, <2>8, <2>12, <3>1
    <3>3. QED
      BY <1>1, <1>4, <1>6, <2>1, <2>7, <2>8, <3>2, ComesKeeps
  <2>15. ASSUME NEW i \in Slot, Used(i), slot[i].port = p
         PROVE  Good(slot[i], u, r, doubt)
    <3>1. /\ slot[i] \in Connection /\ Good(slot[i], q, r, doubt) /\ Len(r) <= q.written
          /\ OnWire(m, slot[i], r, doubt) /\ r \in Seq(Nat) /\ doubt \in SUBSET Port
      BY <1>4, <1>6, <2>15 DEF Serves
    <3>2. u.edge = Larger(q.edge, Covered(m) + m.wnd)
      BY <2>8 DEF edge
    <3>3. /\ u.took >= q.took
          /\ u.took = q.took \/ /\ m.data # << >> /\ m.seq = AckOf(q)
                                /\ u.took = q.took + Len(m.data)
      BY <2>6, <2>8, <2>10
    <3>4. QED
      BY <1>2, <1>6, <2>1, <2>7, <2>8, <2>11, <2>12, <3>1, <3>2, <3>3, TakesKeeps
  <2>16. QED
    BY <1>1, <1>2, <1>6, <2>7, <2>9, <2>13, <2>14, <2>15, ServerChanges
<1>7. QED
  BY <1>3, <1>5, <1>6 DEF PeerTakes

LEMMA StepKeeps == IInv /\ [Next]_vars => IInv'
<1> SUFFICES ASSUME IInv, [Next]_vars
             PROVE  IInv'
  OBVIOUS
<1>1. CASE UNCHANGED vars
  BY <1>1, LossKeeps DEF vars, wires
<1>2. CASE PeerStep
  BY <1>2, PeerTakesKeeps, PeerOpensKeeps, PeerWritesKeeps, PeerClosesKeeps, PeerResetsKeeps,
     PeerSendsKeeps DEF PeerStep
<1>3. CASE NetworkLoses
  BY <1>3, LossKeeps DEF NetworkLoses, Lost
<1>4. QED
  BY <1>1, <1>2, <1>3, ClientKeeps DEF Next

-----------------------------------------------------------------------------
(* The invariant holds along every behaviour of client, server and network *)
(* (transport_handle_tcp_packet, net_tcp_connect to net_tcp_close).        *)
THEOREM TcpInvariant == Spec => []IInv
<1>1. Init => IInv
  BY TcpInit
<1>2. IInv /\ [Next]_vars => IInv'
  BY StepKeeps
<1>3. QED
  BY <1>1, <1>2, PTL DEF Spec

(* The connections, the call and the counters keep their types: no buffer  *)
(* overflows, and the client's numbers stay below the request's end        *)
(* (transport_handle_tcp_packet, net_tcp_send).                            *)
THEOREM TcpTypes == Spec => []TypeOK
<1> DEFINE Top == Iss + RequestSize + 2
           Conn == [state : {"FREE", "SYN_SENT", "ESTABLISHED", "FIN_WAIT_1",
                             "FIN_WAIT_2", "CLOSE_WAIT", "LAST_ACK"},
                    port : Port \cup {NoPort}, iss : {0, Iss},
                    una : 0 .. Top, next : 0 .. Top,
                    rcv : 0 .. SeqSpace - 1, wnd : 0 .. BufferSize, buf : Seq(Unit)]
<1>1. ASSUME IInv, NEW i \in Slot
      PROVE  slot[i] \in Conn /\ Len(slot[i].buf) <= BufferSize
  <2> DEFINE s == slot[i]
  <2> USE Sizes
  <2>1. s \in Connection /\ s.una \in Nat /\ s.next \in Nat /\ s.wnd \in 0 .. BufferSize
        /\ s.buf \in Seq(Nat)
    BY <1>1 DEF IInv, Types, Connection
  <2>2. CASE ~Used(i)
    <3>1. s.una <= Iss + 1 /\ s.next <= Iss + 1 /\ s.buf = << >>
      BY <1>1, <2>2 DEF IInv, SlotsOk, Blank
    <3>2. s.una \in 0 .. Top /\ s.next \in 0 .. Top /\ s.buf \in Seq(Unit) /\ Len(s.buf) = 0
      BY <2>1, <3>1
    <3>3. QED
      BY <2>1, <3>2 DEF Connection, Before, After
  <2>3. CASE Used(i)
    <3> DEFINE q == peer[s.port]
               r == read[s.port]
    <3>1. /\ q \in Server /\ r \in Seq(Nat) /\ Kept(s) /\ Received(s, q, r)
          /\ Sent(s, q, doubt) /\ Serves(q, r) /\ s.state # "FREE"
      BY <1>1, <2>3, InUse DEF Good
    <3>2. s.next \in 0 .. Top
      <4>1. s.state \in Before \/ s.state \in After
        BY <2>1, <3>1 DEF Connection
      <4>2. s.next <= Iss + 1 + RequestSize \/ s.next \in Iss + 2 .. Iss + 2 + RequestSize
        BY <3>1, <4>1 DEF Sent
      <4>3. QED
        BY <2>1, <4>2
    <3>3. s.una \in 0 .. Top
      <4>1. s.una <= AckOf(q) /\ q.took \in 0 .. RequestSize
        BY <3>1 DEF Sent, Server
      <4>2. AckOf(q) <= Top /\ AckOf(q) \in Nat
        BY <4>1 DEF AckOf
      <4>3. QED
        BY <2>1, <4>1, <4>2
    <3>4. Len(s.buf) <= BufferSize
      BY <2>1, <3>1 DEF Kept
    <3>5. s.buf \in Seq(Unit)
      <4>1. CASE s.state = "SYN_SENT"
        BY <3>1, <4>1 DEF Received
      <4>2. CASE s.state # "SYN_SENT"
        <5>1. PICK b \in Seq(Nat) : b = s.buf
          BY <2>1
        <5>2. /\ Len(r) + Len(b) <= q.written /\ \A k \in 1 .. Len(b) : b[k] = Len(r) + k
              /\ 1 .. q.written \subseteq Unit
          BY <3>1, <4>2, <5>1 DEF Received, Serves
        <5>3. q.written \in Nat /\ Len(r) \in Nat
          BY <3>1, ServerNumbers
        <5>4. ASSUME NEW k \in 1 .. Len(b)
              PROVE  b[k] \in 1 .. q.written
          <6>1. PICK n \in Nat, m \in Nat : n = Len(r) /\ m = Len(b)
            BY <5>3
          <6>2. b[k] = n + k /\ n + m <= q.written /\ k \in 1 .. m
            BY <5>2, <6>1
          <6>3. n + k <= q.written /\ n + k >= 1
            BY <5>3, <6>2
          <6>4. QED
            BY <5>3, <6>2, <6>3
        <5>5. b \in Seq(Unit)
          BY <5>2, <5>4
        <5>6. QED
          BY <5>1, <5>5
      <4>3. QED
        BY <4>1, <4>2
    <3>6. QED
      BY <2>1, <3>2, <3>3, <3>4, <3>5 DEF Connection, Before, After
  <2>4. QED
    BY <2>2, <2>3
<1>2. ASSUME IInv
      PROVE  TypeOK
  <2>1. slot \in [Slot -> Conn] /\ \A i \in Slot : Len(slot[i].buf) <= BufferSize
    BY <1>1, <1>2 DEF IInv, Types
  <2> HIDE DEF Conn
  <2>2. \A i, j \in Slot : Used(i) /\ Used(j) /\ slot[i].port = slot[j].port => i = j
    BY <1>2 DEF IInv, SlotsOk
  <2>3. /\ nextPort \in 1 .. PortCount + 1 /\ pc \in At /\ (call.slot = NoSlot <=> pc = "idle")
        /\ retry \in 0 .. MaxRetries /\ served \in 0 .. RingSize
    BY <1>2 DEF IInv, Types, CallOk
  <2>4. QED
    BY <2>1, <2>2, <2>3 DEF TypeOK, At, Conn
<1>3. QED
  BY <1>2, TcpInvariant, PTL

(* Data inside the window the server was given is never dropped for want   *)
(* of space (transport_tcp_refresh_receive_window, the copy of             *)
(* transport_handle_tcp_packet).                                           *)
THEOREM WindowBacked == Spec => []WindowIsBacked
<1>1. ASSUME IInv, NEW i \in Slot, slot[i].state \in Open
      PROVE  peer[slot[i].port].edge <=
                 ((slot[i].rcv - PeerIss - 1) % SeqSpace) + BufferSize - Len(slot[i].buf)
  <2> DEFINE s == slot[i]
             q == peer[s.port]
             r == read[s.port]
  <2> USE Sizes
  <2>1. Used(i) /\ s.state \notin Finished /\ s.state # "SYN_SENT"
    BY <1>1 DEF Used, Open, Finished
  <2>2. /\ q \in Server /\ r \in Seq(Nat) /\ s \in Connection
        /\ Received(s, q, r) /\ Granted(s, q, r)
    BY <1>1, <2>1, InUse DEF Good
  <2>3. PICK b \in Seq(Nat) : b = s.buf
    BY <2>2 DEF Connection
  <2>4. q.written \in 0 .. SeqSpace - 3 /\ q.edge \in Nat /\ Len(r) \in Nat /\ Len(b) \in Nat
    BY <2>2 DEF Server
  <2>5. /\ s.rcv = Seqn(Len(r) + Len(b)) /\ Len(r) + Len(b) <= q.written
        /\ q.edge <= Len(r) + BufferSize
    BY <1>1, <2>1, <2>2, <2>3 DEF Received, Granted
  <2>6. Len(r) + Len(b) \in 0 .. SeqSpace - 1
    <3>1. PICK n \in Nat, k \in Nat : n = Len(r) /\ k = Len(b)
      BY <2>4
    <3>2. n + k <= q.written
      BY <2>5, <3>1
    <3>3. n + k \in 0 .. SeqSpace - 1
      BY <2>4, <3>2, Sizes
    <3>4. QED
      BY <3>1, <3>3
  <2>7. (s.rcv - PeerIss - 1) % SeqSpace = Len(r) + Len(b)
    BY <2>5, <2>6, SeqnBack
  <2>8. q.edge <= Len(r) + Len(b) + BufferSize - Len(b)
    BY <2>4, <2>5
  <2>9. QED
    BY <2>3, <2>7, <2>8
<1>2. IInv => WindowIsBacked
  BY <1>1 DEF WindowIsBacked, Open
<1>3. QED
  BY <1>2, TcpInvariant, PTL

(* Without a send in doubt, FIN_WAIT_2 says that the server has the FIN    *)
(* (transport_handle_tcp_packet's last test).                              *)
THEOREM FinAcknowledged == Spec => []FinWait2MeansFinReceived
<1>1. ASSUME IInv, NEW i \in Slot, slot[i].state = "FIN_WAIT_2", slot[i].port \notin doubt
      PROVE  peer[slot[i].port].finned
  <2>1. Used(i)
    BY <1>1 DEF Used
  <2>2. Sent(slot[i], peer[slot[i].port], doubt)
    BY <1>1, <2>1, InUse DEF Good
  <2>3. QED
    BY <1>1, <2>2 DEF Sent
<1>2. IInv => FinWait2MeansFinReceived
  BY <1>1 DEF FinWait2MeansFinReceived
<1>3. QED
  BY <1>2, TcpInvariant, PTL

(* Between two requests nothing is left behind but a connection that waits *)
(* for the server's FIN (net_tcp_connect, net_tcp_close).                  *)
THEOREM NothingElseLeaks == Spec => []LeftoversAwaitServer
<1>1. ASSUME IInv, pc = "idle", NEW i \in Slot, Used(i)
      PROVE  slot[i].state = "FIN_WAIT_2"
  <2>1. call.slot = NoSlot /\ i # NoSlot
    BY <1>1, Sizes DEF IInv, CallOk, Slot, NoSlot
  <2>2. QED
    BY <1>1, <2>1 DEF IInv, CallOk
<1>2. IInv => LeftoversAwaitServer
  BY <1>1 DEF LeftoversAwaitServer
<1>3. QED
  BY <1>2, TcpInvariant, PTL
-----------------------------------------------------------------------------
(* The server has no way into the client's state but the wire. *)
LEMMA PeerKeepsClient ==
    ASSUME PeerStep
    PROVE  UNCHANGED clientVars
<1> USE DEF PeerEmits
<1>1. ASSUME NEW m \in toPeer, PeerTakes(m) PROVE UNCHANGED clientVars
  BY <1>1 DEF PeerTakes
<1>2. ASSUME NEW p \in Port, PeerOpens(p) \/ PeerWrites(p) \/ PeerCloses(p) \/ PeerResets(p)
      PROVE  UNCHANGED clientVars
  BY <1>2 DEF PeerOpens, PeerWrites, PeerCloses, PeerResets
<1>3. ASSUME NEW p \in Port, NEW from \in {0} \cup Unit, NEW to \in {0} \cup Unit,
             PeerSends(p, from, to)
      PROVE  UNCHANGED clientVars
  BY <1>3 DEF PeerSends
<1>4. QED
  BY <1>1, <1>2, <1>3 DEF PeerStep

(* Which step returns true from connect and from send. *)
LEMMA TrueReturns ==
    ASSUME IInv, [Next]_vars, result' # result, result'.op \in {"connect", "send"}, result'.ok
    PROVE  /\ result'.port = slot[call.slot].port /\ call.slot \in Slot /\ Used(call.slot)
           /\ slot[call.slot].port = nextPort - 1
           /\ result'.op = "connect" => slot[call.slot].state = "ESTABLISHED"
           /\ result'.op = "send" => /\ Sending(pc, call) /\ Satisfied /\ call.left = 0
                                     /\ pc \in Waits
                                     /\ slot[call.slot].port \notin doubt
<1>1. PICK ok \in BOOLEAN :
          \/ SendSyn(ok) /\ ok /\ slot[call.slot].state = "ESTABLISHED"
          \/ /\ pc \in Waits /\ WaitOver(ok) /\ (ok => Used(call.slot) /\ Satisfied)
  <2>1. ClientStep
    <3>1. ~UNCHANGED clientVars
      BY DEF clientVars
    <3>2. QED
      BY <3>1, PeerKeepsClient DEF Next, vars, NetworkLoses
  <2>2. CASE \E ok \in BOOLEAN : SendSyn(ok)
    <3>1. PICK ok \in BOOLEAN : SendSyn(ok)
      BY <2>2
    <3>2. ok /\ slot[call.slot].state = "ESTABLISHED"
      <4>1. call.slot \in Slot /\ slot[call.slot] \in Connection
        BY <3>1, Running DEF SendSyn
      <4>2. ok
        BY <3>1 DEF SendSyn
      <4>3. [slot[call.slot] EXCEPT !.una = slot[call.slot].iss,
                                    !.next = slot[call.slot].iss].state = "ESTABLISHED"
        BY <3>1, <4>2 DEF SendSyn
      <4>4. QED
        BY <4>1, <4>2, <4>3 DEF Connection
    <3>3. QED
      BY <3>1, <3>2
  <2>3. CASE WaitLooks
    <3>1. WaitOver(Used(call.slot)) /\ pc \in Waits /\ (Used(call.slot) => Satisfied)
      BY <2>3 DEF WaitLooks, Waits
    <3>2. Used(call.slot) \in BOOLEAN
      BY DEF Used
    <3>3. QED
      BY <3>1, <3>2
  <2>4. CASE WaitTimesOut
    BY <2>4 DEF WaitTimesOut, Waits
  <2>5. ~ConnectFails
    BY DEF ConnectFails, Return
  <2>6. ASSUME NEW ok \in BOOLEAN
        PROVE  ~SendChunk(ok) /\ ~CloseSendsFin(ok)
    <3>1. SendChunk(ok) => UNCHANGED result \/ Return(FALSE, "done")
      BY DEF SendChunk
    <3>2. ~Return(FALSE, "done")
      BY DEF Return
    <3>3. QED
      BY <3>1, <3>2 DEF CloseSendsFin
  <2>7. ~NoSlotFree
    BY DEF NoSlotFree
  <2>8. ~net_tcp_send
    BY DEF net_tcp_send
  <2>9. ~net_tcp_wait_for_data
    BY DEF net_tcp_wait_for_data
  <2>10. ~IdleService /\ ~net_tcp_connect /\ ~net_tcp_receive /\ ~CloseDrops /\ ~WaitServes
         /\ ~WaitGoesOn
    BY DEF IdleService, net_tcp_connect, net_tcp_receive, CloseDrops, WaitServes, WaitGoesOn
  <2>11. QED
    BY <2>1, <2>2, <2>3, <2>4, <2>5, <2>6, <2>7, <2>8, <2>9, <2>10 DEF ClientStep, ThreadStep
<1>2. pc \in Waits \cup {"syn"} /\ pc # "idle"
  BY <1>1 DEF SendSyn, Waits
<1>3. /\ call.slot \in Slot /\ slot[call.slot] \in Connection
      /\ Phase(pc, call, slot[call.slot]) /\ call \in Calls
      /\ Used(call.slot) => slot[call.slot].port = nextPort - 1
      /\ Used(call.slot) /\ ~Closing(pc, call) => Fresh(nextPort - 1)
  BY <1>2, Running DEF IInv, Types, Waits
<1>4. CASE SendSyn(ok) /\ ok /\ slot[call.slot].state = "ESTABLISHED"
  <2>1. call.op = "connect" /\ Used(call.slot)
    BY <1>3, <1>4 DEF SendSyn, Phase, Used
  <2>2. result'.port = slot[call.slot].port /\ result'.op = "connect"
    BY <1>3, <1>4, <2>1 DEF SendSyn, Return, Connection
  <2>3. QED
    BY <1>3, <1>4, <2>1, <2>2
<1>5. CASE pc \in Waits /\ WaitOver(ok) /\ (ok => Used(call.slot) /\ Satisfied)
  <2>1. result'.port = slot[call.slot].port /\ result'.op = call.op /\ ok
    <3>1. call.op \in {"connect", "send", "wait", "close"}
      BY <1>3, <1>5 DEF Phase, Calls
    <3>2. ASSUME NEW b \in BOOLEAN, NEW to, Return(b, to)
          PROVE  result'.port = slot[call.slot].port /\ result'.op = call.op /\ b
      BY <3>2 DEF Return
    <3>3. CASE call.op = "connect"
      BY <1>5, <3>2, <3>3 DEF WaitOver
    <3>4. CASE call.op = "send"
      BY <1>5, <3>2, <3>4 DEF WaitOver
    <3>5. CASE call.op \in {"wait", "close"}
      <4>1. Return(ok, "idle") \/ Return(ok, "ready") \/ Return(ok, "done")
        BY <1>5, <3>5 DEF WaitOver
      <4>2. QED
        BY <3>2, <4>1
    <3>6. QED
      BY <3>1, <3>3, <3>4, <3>5
  <2>2. call.op = "connect" => slot[call.slot].state = "ESTABLISHED"
    BY <1>5 DEF WaitOver
  <2>3. call.op = "send" => call.left = 0
    BY <1>5, <2>1 DEF WaitOver
  <2>4. call.op = "send" => Sending(pc, call) /\ ~Closing(pc, call)
    BY <1>5 DEF Sending, Closing
  <2>5. QED
    BY <1>3, <1>5, <2>1, <2>2, <2>3, <2>4 DEF Fresh
<1>6. QED
  BY <1>1, <1>4, <1>5

(* net_tcp_connect returns a slot only for a connection the server has     *)
(* accepted, whatever was reset, lost or repeated on the way               *)
(* (net_tcp_connect, transport_handle_tcp_packet).                         *)
THEOREM ConnectTrue == Spec => ConnectTrueMeansAccepted
<1>1. ASSUME IInv, [Next]_vars, result' # result, result'.op = "connect", result'.ok
      PROVE  result'.port = nextPort - 1 /\ peer[result'.port].state # "none"
  <2>1. /\ result'.port = slot[call.slot].port /\ call.slot \in Slot /\ Used(call.slot)
        /\ slot[call.slot].port = nextPort - 1 /\ slot[call.slot].state = "ESTABLISHED"
    BY <1>1, TrueReturns
  <2>2. Received(slot[call.slot], peer[slot[call.slot].port], read[slot[call.slot].port])
    BY <1>1, <2>1, InUse DEF Good
  <2>3. QED
    BY <2>1, <2>2 DEF Received
<1>2. QED
  BY <1>1, TcpInvariant, PTL DEF Spec, ConnectTrueMeansAccepted

(* net_tcp_send returns true only when the server has the whole request    *)
(* (net_tcp_send, transport_tcp_wait_for_ack).                             *)
THEOREM SendTrue == Spec => SendTrueMeansReceived
<1>1. ASSUME IInv, [Next]_vars, result' # result, result'.op = "send", result'.ok
      PROVE  peer[result'.port].took = RequestSize
  <2> DEFINE s == slot[call.slot]
             q == peer[s.port]
  <2> USE Sizes
  <2>1. /\ result'.port = s.port /\ call.slot \in Slot /\ Used(call.slot) /\ pc \in Waits
        /\ Sending(pc, call) /\ Satisfied /\ call.left = 0 /\ s.port \notin doubt
    BY <1>1, TrueReturns
  <2>2. call.op = "send" /\ s.una >= call.target
    BY <2>1 DEF Sending, Satisfied, Waits
  <2>3. Phase(pc, call, s) /\ s \in Connection /\ s.state # "FREE"
    BY <1>1, <2>1, Running DEF Waits, Used
  <2>4. s.state \in Readable /\ s.next = Iss + 1 + RequestSize /\ call.target = s.next
    BY <2>1, <2>2, <2>3 DEF Phase
  <2>5. q \in Server /\ Sent(s, q, doubt)
    BY <1>1, <2>1, InUse DEF Good
  <2>6. s.una \in Nat /\ q.took \in 0 .. RequestSize
    BY <2>3, <2>5 DEF Connection, Server
  <2>7. s.una <= Iss + 1 + q.took
    <3>1. ~q.finned /\ s.una <= AckOf(q)
      BY <2>4, <2>5 DEF Sent, Readable, Before
    <3>2. AckOf(q) = Iss + 1 + q.took
      BY <2>6, <3>1 DEF AckOf
    <3>3. QED
      BY <3>1, <3>2
  <2>8. QED
    BY <2>1, <2>2, <2>4, <2>6, <2>7
<1>2. QED
  BY <1>1, TcpInvariant, PTL DEF Spec, SendTrueMeansReceived

-----------------------------------------------------------------------------
(* The bytes that were read are the beginning of the answer. *)
LEMMA Prefix ==
    ASSUME NEW w \in Nat, NEW x \in Seq(Nat), Len(x) <= w, \A k \in 1 .. Len(x) : x[k] = k
    PROVE  x = SubSeq([k \in 1 .. w |-> k], 1, Len(x))
<1> DEFINE y == [k \in 1 .. w |-> k]
<1>1. y \in Seq(Nat) /\ Len(y) = w
  OBVIOUS
<1>2. /\ SubSeq(y, 1, Len(x)) \in Seq(Nat) /\ Len(SubSeq(y, 1, Len(x))) = Len(x)
      /\ \A k \in 1 .. Len(x) : SubSeq(y, 1, Len(x))[k] = y[k]
  BY <1>1
<1>3. \A k \in 1 .. Len(x) : y[k] = k
  OBVIOUS
<1> HIDE DEF y
<1>4. QED
  BY <1>2, <1>3 DEF y

LEMMA OneMore ==
    ASSUME NEW w \in Nat
    PROVE  [k \in 1 .. w + 1 |-> k] = Append([k \in 1 .. w |-> k], w + 1)
<1> DEFINE x == [k \in 1 .. w |-> k]
           y == [k \in 1 .. w + 1 |-> k]
           z == Append(x, w + 1)
<1>1. x \in Seq(Nat) /\ Len(x) = w /\ y \in Seq(Nat) /\ Len(y) = w + 1
  OBVIOUS
<1>2. z \in Seq(Nat) /\ Len(z) = w + 1
      /\ z[w + 1] = w + 1 /\ \A k \in 1 .. w : z[k] = x[k]
  BY <1>1
<1>3. \A k \in 1 .. w + 1 : y[k] = z[k]
  BY <1>2
<1> HIDE DEF x, y, z
<1>4. y = z
  BY <1>1, <1>2, <1>3
<1>5. QED
  BY <1>4 DEF x, y, z

(* What net_tcp_receive returns is the next part of the answer, or the end *)
(* of an answer that was read completely.                                  *)
LEMMA ReceiveReads ==
    ASSUME IInv, net_tcp_receive, UNCHANGED peer, NEW p \in Port
    PROVE  [Stream(p)!Next]_(Stream(p)!vars)
<1> DEFINE s == slot[call.slot]
           q == peer[p]
           r == read[p]
           n == Smaller(Len(s.buf), ChunkSize)
           x == r \o SubSeq(s.buf, 1, n)
           w == [k \in 1 .. q.written |-> k]
<1> USE Sizes
<1>1. /\ pc = "ready" /\ pc # "idle" /\ peer' = peer
      /\ read' = [read EXCEPT ![s.port] = @ \o SubSeq(s.buf, 1, n)]
      /\ ended' = [ended EXCEPT ![s.port] = n = 0]
      /\ read \in [Port -> Seq(Nat)] /\ ended \in [Port -> BOOLEAN]
  BY DEF net_tcp_receive, IInv, Types
<1>2. CASE s.port # p
  <2>1. read'[p] = read[p] /\ ended'[p] = ended[p]
    BY <1>1, <1>2
  <2>2. QED
    BY <1>1, <2>1 DEF Stream!Next, Stream!vars
<1>3. CASE s.port = p
  <2>1. /\ call.slot \in Slot /\ s \in Connection /\ Phase(pc, call, s)
        /\ Used(call.slot) => Fresh(nextPort - 1) /\ s.port = nextPort - 1
    BY <1>1, Running DEF Closing, Waits
  <2>2. /\ s.state # "FREE" /\ s.state \in Readable /\ Used(call.slot)
        /\ s.buf # << >> \/ s.state = "CLOSE_WAIT"
    BY <1>1, <2>1 DEF Phase, Receiving, Used
  <2>3. ~ended[p]
    BY <1>3, <2>1, <2>2 DEF Fresh
  <2>4. /\ q \in Server /\ r \in Seq(Nat) /\ doubt \in SUBSET Port
        /\ Good(s, q, r, doubt) /\ Serves(q, r)
    BY <1>3, <2>1, <2>2, InUse
  <2>5. s.buf \in Seq(Nat) /\ Len(s.buf) \in Nat /\ q.written \in Nat
    <3>1. s.buf \in Seq(Nat)
      BY <2>1 DEF Connection
    <3>2. q.written \in Nat
      BY <2>4, ServerNumbers
    <3>3. QED
      BY <3>1, <3>2
  <2>6. n \in 0 .. Len(s.buf)
    BY <2>5, SmallerIs
  <2>7. read'[p] = x /\ ended'[p] = (n = 0)
    BY <1>1, <1>3
  <2>8. n = 0 => s.buf = << >>
    BY <2>5 DEF Smaller
  <2> HIDE DEF n
  <2>9. x \in Seq(Nat) /\ Serves(q, x) /\ Len(x) = Len(r) + n
    BY <2>1, <2>2, <2>4, <2>6, ReadKeeps, ZenonT(60)
  <2> HIDE DEF x
  <2>10. x = SubSeq(w, 1, Len(x)) /\ Len(x) <= q.written /\ Len(w) = q.written
    BY <2>5, <2>9, Prefix DEF Serves
  <2>11. CASE n # 0
    <3>1. Len(x) \in Len(r) + 1 .. Len(w)
      <4>1. Len(r) \in Nat /\ n \in Nat /\ n >= 1
        BY <2>4, <2>5, <2>6, <2>11
      <4> HIDE DEF w, r
      <4>2. QED
        BY <2>5, <2>9, <2>10, <4>1
    <3>2. ended'[p] = FALSE /\ ended[p] = FALSE
      BY <1>1, <2>3, <2>7, <2>11
    <3>3. QED
      BY <1>1, <2>7, <2>10, <3>1, <3>2 DEF Stream!Next, Stream!Read
  <2>12. CASE n = 0
    <3>1. s.buf = << >> /\ s.state = "CLOSE_WAIT"
      BY <2>2, <2>8, <2>12
    <3>2. q.closed /\ Len(r) + Len(s.buf) = q.written
      BY <2>4, <3>1 DEF Good, Received, Finished
    <3>3. Len(r) = q.written
      BY <2>4, <2>5, <3>1, <3>2
    <3>4. r = SubSeq(w, 1, Len(r)) /\ x = SubSeq(w, 1, Len(r))
      BY <2>4, <2>5, <2>9, <2>10, <2>12, Prefix DEF Serves
    <3>5. w \in Seq(Nat) /\ Len(w) = q.written
      BY <2>5
    <3> HIDE DEF w
    <3>6. SubSeq(w, 1, Len(w)) = w
      BY <3>5
    <3>7. r = w /\ x = r
      BY <3>3, <3>4, <3>5, <3>6
    <3>8. QED
      BY <1>1, <2>7, <2>12, <3>2, <3>7 DEF Stream!Next, Stream!End, w
  <2>13. QED
    BY <2>11, <2>12
<1>4. QED
  BY <1>2, <1>3

(* The server's own steps write and finish. *)
LEMMA ServerWrites ==
    ASSUME IInv, PeerStep, NEW p \in Port
    PROVE  [Stream(p)!Next]_(Stream(p)!vars)
<1> USE Sizes
<1>1. UNCHANGED <<read, ended>> /\ peer \in [Port -> Server] /\ peer[p] \in Server
  BY PeerKeepsClient DEF clientVars, IInv, Types
<1>2. CASE peer'[p].written = peer[p].written /\ peer'[p].closed = peer[p].closed
  BY <1>1, <1>2 DEF Stream!Next, Stream!vars
<1>3. CASE PeerWrites(p)
  <2>1. /\ peer' = [peer EXCEPT ![p].written = @ + 1] /\ ~peer[p].closed
        /\ peer[p].written + 1 \in Unit
    BY <1>3 DEF PeerWrites
  <2>2. peer'[p].written = peer[p].written + 1 /\ peer'[p].closed = peer[p].closed
    BY <1>1, <2>1 DEF Server
  <2>3. peer[p].written \in Nat
    BY <1>1, ServerNumbers
  <2>4. [k \in 1 .. peer[p].written + 1 |-> k]
            = Append([k \in 1 .. peer[p].written |-> k], peer[p].written + 1)
    BY <2>3, OneMore
  <2>5. [k \in 1 .. peer'[p].written |-> k]
            = Append([k \in 1 .. peer[p].written |-> k], peer[p].written + 1)
    BY <2>2, <2>4
  <2>6. QED
    BY <1>1, <2>1, <2>2, <2>5 DEF Stream!Next, Stream!Write
<1>4. CASE PeerCloses(p)
  <2>1. ~peer[p].closed /\ peer'[p].closed = TRUE /\ peer'[p].written = peer[p].written
    BY <1>1, <1>4 DEF PeerCloses, Server
  <2>2. QED
    BY <1>1, <2>1 DEF Stream!Next, Stream!Close
<1>5. ASSUME NEW x \in Port, x # p, PeerWrites(x) \/ PeerCloses(x)
      PROVE  peer'[p] = peer[p]
  BY <1>1, <1>5 DEF PeerWrites, PeerCloses
<1>6. ASSUME NEW m \in toPeer, PeerTakes(m)
      PROVE  peer'[p].written = peer[p].written /\ peer'[p].closed = peer[p].closed
  <2>1. CASE m.port # p \/ UNCHANGED peer
    BY <1>1, <1>6, <2>1 DEF PeerTakes
  <2>2. CASE m.port = p /\ peer[p].state = "none" /\ ~UNCHANGED peer
    <3>1. peer[p] = NoPeer
      BY <1>1, <2>2, ServerIs DEF Serves
    <3>2. PICK to \in {"up", "gone"} :
              peer' = [peer EXCEPT ![p] = [NoPeer EXCEPT !.state = to, !.edge = m.wnd]]
      BY <1>6, <2>2 DEF PeerTakes
    <3>3. QED
      BY <1>1, <3>1, <3>2 DEF Server
  <2>3. CASE m.port = p /\ peer[p].state # "none" /\ ~UNCHANGED peer
    <3> DEFINE q == peer[p]
    <3>1. peer' = [peer EXCEPT ![p] =
                     [q EXCEPT !.una = Larger(q.una, Covered(m)),
                               !.edge = Larger(q.edge, Covered(m) + m.wnd),
                               !.took = IF m.seq = PeerAck(p) THEN q.took + Len(m.data) ELSE q.took,
                               !.finned = q.finned \/ (m.seq = PeerAck(p) /\ "FIN" \in m.flags)]]
      BY <1>6, <2>3 DEF PeerTakes
    <3>2. QED
      BY <1>1, <3>1 DEF Server
  <2>4. QED
    BY <2>1, <2>2, <2>3
<1>7. ASSUME NEW x \in Port, PeerResets(x)
      PROVE  peer'[p].written = peer[p].written /\ peer'[p].closed = peer[p].closed
  BY <1>1, <1>7 DEF PeerResets, Server
<1>8. ASSUME NEW x \in Port, PeerOpens(x) \/ \E from, to \in {0} \cup Unit : PeerSends(x, from, to)
      PROVE  peer' = peer
  BY <1>8 DEF PeerOpens, PeerSends
<1>9. QED
  BY <1>2, <1>3, <1>4, <1>5, <1>6, <1>7, <1>8 DEF PeerStep

(* What net_tcp_receive returns over a connection is a prefix of what the  *)
(* server wrote, and it returns 0 only at the end of an answer that was    *)
(* read completely: every step of client, server and network is a step of  *)
(* the reliable stream or leaves it as it is (net_tcp_receive,             *)
(* transport_handle_tcp_packet).                                           *)
THEOREM StreamReliable == Spec => StreamIsReliable
<1>1. Init => \A p \in Port : Stream(p)!Init
  <2>1. SUFFICES ASSUME Init, NEW p \in Port
                 PROVE  Stream(p)!Init
    OBVIOUS
  <2>2. peer[p] = NoPeer /\ read[p] = << >> /\ ended[p] = FALSE
    BY <2>1 DEF Init, ClientInit
  <2>3. peer[p].written = 0 /\ peer[p].closed = FALSE
    BY <2>2 DEF NoPeer
  <2>4. [k \in 1 .. peer[p].written |-> k] = << >>
    BY <2>3
  <2>5. QED
    BY <2>2, <2>3, <2>4 DEF Stream!Init
<1>2. ASSUME IInv, [Next]_vars, NEW p \in Port
      PROVE  [Stream(p)!Next]_(Stream(p)!vars)
  <2>1. CASE UNCHANGED <<peer, read, ended>>
    BY <2>1 DEF Stream!vars
  <2>2. CASE ClientStep /\ UNCHANGED peer
    <3>1. CASE net_tcp_receive
      BY <1>2, <2>2, <3>1, ReceiveReads
    <3>2. CASE ~net_tcp_receive
      <4>1. UNCHANGED <<read, ended>>
        BY <2>2, <3>2 DEF ClientStep, ThreadStep, IdleService, net_tcp_connect, NoSlotFree,
              WaitTimesOut, WaitOver, SendSyn, SendChunk, CloseSendsFin, ConnectFails, net_tcp_send,
              net_tcp_wait_for_data, CloseDrops, WaitLooks, WaitServes, WaitGoesOn
      <4>2. QED
        BY <2>1, <2>2, <4>1
    <3>3. QED
      BY <3>1, <3>2
  <2>3. CASE PeerStep
    BY <1>2, <2>3, ServerWrites
  <2>4. CASE NetworkLoses \/ UNCHANGED vars
    BY <2>1, <2>4 DEF NetworkLoses, clientVars, vars
  <2>5. QED
    BY <1>2, <2>2, <2>3, <2>4 DEF Next
<1>3. IInv /\ [Next]_vars => \A p \in Port : [Stream(p)!Next]_(Stream(p)!vars)
  BY <1>2
<1>4. QED
  BY <1>1, <1>3, TcpInvariant, PTL DEF Spec, StreamIsReliable
=============================================================================
