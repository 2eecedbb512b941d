-------------------------- MODULE DnsResolverProofs --------------------------
(***************************************************************************)
(* For every size of the UDP ring and every set of datagrams: the ring is  *)
(* in order, and hides no datagram from the port it is addressed to, until *)
(* some poll takes a datagram from behind another one.  After that it is   *)
(* still a mailbox, and deaf for good once nobody polls what it holds.     *)
(***************************************************************************)
EXTENDS DnsResolver, FiniteSetTheorems, WellFoundedInduction, TLAPS

(* Modulo on the only range the indices reach, two laps of the ring. *)
LEMMA ModOnce ==
    ASSUME NEW n \in Nat \ {0}, NEW x \in 0 .. 2 * n - 1
    PROVE  /\ x % n = IF x < n THEN x ELSE x - n
           /\ x % n \in 0 .. n - 1
OBVIOUS

(* Stepping an index and then counting on from it is counting one more. *)
LEMMA ModStep ==
    ASSUME NEW n \in Nat \ {0}, NEW h \in 0 .. n - 1, NEW c \in 0 .. n - 1
    PROVE  /\ (((h + c) % n) + 1) % n = (h + (c + 1)) % n
           /\ (((h + 1) % n) + c) % n = (h + (c + 1)) % n
<1> DEFINE Wrap(x) == IF x < n THEN x ELSE x - n
<1>1. \A x \in 0 .. 2 * n - 1 : x % n = Wrap(x)
  BY ModOnce
<1>2. /\ h + c \in 0 .. 2 * n - 1 /\ h + 1 \in 0 .. 2 * n - 1 /\ h + (c + 1) \in 0 .. 2 * n - 1
      /\ Wrap(h + c) + 1 \in 0 .. 2 * n - 1 /\ Wrap(h + 1) + c \in 0 .. 2 * n - 1
      /\ Wrap(Wrap(h + c) + 1) = Wrap(h + (c + 1)) /\ Wrap(Wrap(h + 1) + c) = Wrap(h + (c + 1))
  OBVIOUS
<1> HIDE DEF Wrap
<1>3. QED
  BY <1>1, <1>2, Zenon

(* Positions less than a lap apart are different slots. *)
LEMMA ModDistinct ==
    ASSUME NEW n \in Nat \ {0}, NEW h \in 0 .. n - 1, NEW i \in 0 .. n - 1,
           NEW j \in 0 .. n - 1, i # j
    PROVE  (h + i) % n # (h + j) % n
<1> DEFINE Wrap(x) == IF x < n THEN x ELSE x - n
<1>1. \A x \in 0 .. 2 * n - 1 : x % n = Wrap(x)
  BY ModOnce
<1>2. h + i \in 0 .. 2 * n - 1 /\ h + j \in 0 .. 2 * n - 1 /\ Wrap(h + i) # Wrap(h + j)
  OBVIOUS
<1> HIDE DEF Wrap
<1>3. QED
  BY <1>1, <1>2, Zenon

(* A set of naturals that is not empty has a smallest member. *)
LEMMA LeastOfNaturals ==
    ASSUME NEW S, S \subseteq Nat, S # {}
    PROVE  \E k \in S : \A j \in S : k <= j
<1> DEFINE Less == {ss \in Nat \X Nat : ss[1] < ss[2]}
<1>1. IsWellFoundedOn(Less, Nat)
  BY NatLessThanWellFounded DEF OpToRel
<1>2. PICK k \in S : \A j \in S : <<j, k>> \notin Less
  BY <1>1, WFMin
<1>3. \A j \in S : ~(j < k)
  BY <1>2
<1>4. QED
  BY <1>3

(* A datagram in the ring is found by a poll of its port. *)
NothingHidden == \A i \in Index : valid[i] => Found(Address(packet[i])) # {}

QueueInv == QueueTypeOK /\ InOrderUntilBypass

LEMMA AheadFacts ==
    ASSUME QueueTypeOK
    PROVE  /\ \A k \in Index : Ahead(k) \in Index
           /\ \A k \in Index : \A j \in Index : k # j => Ahead(k) # Ahead(j)
           /\ QueueSize \in Nat \ {0}
<1>1. QueueSize \in Nat \ {0} /\ head \in 0 .. QueueSize - 1
  BY SizeAssumption DEF QueueTypeOK, Index
<1>2. \A k \in Index : Ahead(k) \in Index
  <2>1. SUFFICES ASSUME NEW k \in Index PROVE Ahead(k) \in Index
    OBVIOUS
  <2>2. head + k \in 0 .. 2 * QueueSize - 1
    BY <1>1 DEF Index
  <2>3. QED
    BY <1>1, <2>2, ModOnce DEF Ahead, Index
<1>3. \A k \in Index : \A j \in Index : k # j => Ahead(k) # Ahead(j)
  BY <1>1, ModDistinct DEF Ahead, Index
<1>4. QED
  BY <1>1, <1>2, <1>3

(* A datagram received keeps the ring in order. *)
LEMMA ReceiveStep ==
    ASSUME QueueInv, NEW d \in Datagram, transport_handle_udp_packet(d)
    PROVE  QueueInv'
<1> USE SizeAssumption DEF QueueInv, QueueTypeOK, QueueFull
<1>1. CASE UNCHANGED queueVars
  BY <1>1 DEF queueVars, InOrderUntilBypass, Ahead
<1>2. CASE ~QueueFull
  <2>1. /\ packet' = [packet EXCEPT ![tail] = d]
        /\ valid' = [valid EXCEPT ![tail] = TRUE]
        /\ tail' = (tail + 1) % QueueSize
        /\ count' = count + 1
        /\ head' = head /\ bypassed' = bypassed /\ taken' = taken
    BY <1>2 DEF transport_handle_udp_packet
  <2>2. count \in 0 .. QueueSize - 1 /\ tail \in 0 .. QueueSize - 1
    BY <1>2 DEF Index
  <2>3. tail' \in Index
    <3>1. tail + 1 \in 0 .. 2 * QueueSize - 1
      BY <2>2
    <3>2. QED
      BY <2>1, <3>1, ModOnce DEF Index
  <2>4. QueueTypeOK'
    BY <2>1, <2>2, <2>3 DEF Index
  <2>5. ASSUME ~bypassed'
        PROVE  /\ tail' = Ahead(count)'
               /\ \A k \in Index : valid'[Ahead(k)'] <=> k < count'
    <3>1. tail = Ahead(count) /\ \A k \in Index : valid[Ahead(k)] <=> k < count
      BY <2>1, <2>5 DEF InOrderUntilBypass
    <3>2. tail' = Ahead(count)'
      <4>1. head \in 0 .. QueueSize - 1
        BY DEF Index
      <4>2. QED
        BY <2>1, <2>2, <3>1, <4>1, ModStep DEF Ahead
    <3>3. ASSUME NEW k \in Index
          PROVE  valid'[Ahead(k)'] <=> k < count'
      <4>1. Ahead(k)' = Ahead(k) /\ Ahead(k) \in Index
        BY <2>1, AheadFacts DEF Ahead
      <4>2. CASE k = count
        BY <4>1, <4>2, <2>1, <2>2, <3>1
      <4>3. CASE k # count
        <5>1. Ahead(k) # tail
          BY <4>3, <3>1, <2>2, AheadFacts DEF Index
        <5>2. valid'[Ahead(k)] = valid[Ahead(k)]
          BY <5>1, <4>1, <2>1
        <5>3. k < count <=> k < count'
          BY <4>3, <2>1, <2>2 DEF Index
        <5>4. QED
          BY <5>2, <5>3, <4>1, <3>1, Zenon
      <4>4. QED
        BY <4>2, <4>3
    <3>4. QED
      BY <3>2, <3>3
  <2>6. QED
    BY <2>4, <2>5 DEF InOrderUntilBypass
<1>3. QED
  BY <1>1, <1>2 DEF transport_handle_udp_packet

(* A poll that finds its datagram at the head keeps the ring in order; any *)
(* other one is the bypass.                                                *)
LEMMA PollStep ==
    ASSUME QueueInv, NEW port, net_udp_poll(port)
    PROVE  QueueInv'
<1> USE SizeAssumption DEF QueueInv, QueueTypeOK
<1>1. PICK k \in Found(port) : TakeAt(k, port)
  BY DEF net_udp_poll
<1>2. /\ k \in 0 .. count - 1 /\ k \in Index /\ count >= 1
      /\ valid' = [valid EXCEPT ![Ahead(k)] = FALSE]
      /\ count' = count - 1
      /\ bypassed' = (bypassed \/ k # 0)
      /\ packet' = packet /\ tail' = tail
  BY <1>1 DEF TakeAt, Found, Index
<1>3. Ahead(k) \in Index
  BY <1>2, AheadFacts
<1>4. ASSUME k = 0
      PROVE  \E n \in NextHead : head' = Ahead(n)
  BY <1>1, <1>4 DEF TakeAt
<1>5. head' \in Index
  <2>1. CASE k = 0
    <3>1. PICK n \in NextHead : head' = Ahead(n)
      BY <1>4, <2>1
    <3>2. n \in 1 .. QueueSize /\ head + n \in 0 .. 2 * QueueSize - 1
      BY <3>1 DEF NextHead, Index
    <3>3. QED
      BY <3>1, <3>2, ModOnce DEF Ahead, Index
  <2>2. CASE k # 0
    BY <1>1, <2>2 DEF TakeAt
  <2>3. QED
    BY <2>1, <2>2
<1>6. QueueTypeOK'
  BY <1>2, <1>3, <1>5 DEF Index
<1>7. ASSUME ~bypassed'
      PROVE  /\ tail' = Ahead(count)'
             /\ \A j \in Index : valid'[Ahead(j)'] <=> j < count'
  <2>1. k = 0 /\ ~bypassed
    BY <1>2, <1>7
  <2>2. tail = Ahead(count) /\ \A j \in Index : valid[Ahead(j)] <=> j < count
    BY <2>1 DEF InOrderUntilBypass
  <2>3. head' = Ahead(1)
    <3>1. PICK n \in NextHead : head' = Ahead(n)
      BY <1>4, <2>1
    <3>2. StopsAt(1)
      <4>1. CASE count <= 1
        BY <4>1 DEF StopsAt
      <4>2. CASE count > 1
        <5>1. 1 \in Index /\ 1 < QueueSize /\ valid[Ahead(1)]
          BY <4>2, <2>2, <1>2 DEF Index
        <5>2. QED
          BY <5>1 DEF StopsAt
      <4>3. QED
        BY <4>1, <4>2, <1>2
    <3>3. n = 1
      BY <3>1, <3>2 DEF NextHead
    <3>4. QED
      BY <3>1, <3>3
  <2>4. ASSUME NEW j \in 0 .. QueueSize - 1
        PROVE  Ahead(j)' = (head + (j + 1)) % QueueSize
    <3>1. head \in 0 .. QueueSize - 1
      BY DEF Index
    <3>2. QED
      BY <2>3, <3>1, ModStep DEF Ahead
  <2>5. tail' = Ahead(count)'
    <3>1. count - 1 \in 0 .. QueueSize - 1 /\ (count - 1) + 1 = count
      BY <1>2
    <3>2. (head' + (count - 1)) % QueueSize = (head + count) % QueueSize
      BY <3>1, <2>4 DEF Ahead
    <3>3. QED
      BY <3>2, <1>2, <2>2 DEF Ahead
  <2>6. ASSUME NEW j \in Index
        PROVE  valid'[Ahead(j)'] <=> j < count'
    <3>1. j \in 0 .. QueueSize - 1 /\ Ahead(j)' = (head + (j + 1)) % QueueSize
      BY <2>4 DEF Index
    <3>2. CASE j + 1 < QueueSize
      <4>1. j + 1 \in Index /\ 0 \in Index /\ j + 1 # 0 /\ Ahead(j)' = Ahead(j + 1)
        BY <3>1, <3>2 DEF Index, Ahead
      <4>2. Ahead(j + 1) # Ahead(k) /\ Ahead(j + 1) \in Index
        BY <4>1, <2>1, AheadFacts
      <4>3. valid'[Ahead(j)'] <=> j + 1 < count
        BY <4>1, <4>2, <1>2, <2>2
      <4>4. j + 1 < count <=> j < count'
        BY <1>2, <3>1
      <4>5. QED
        BY <4>3, <4>4, Zenon
    <3>3. CASE j + 1 = QueueSize
      <4>1. Ahead(j)' = Ahead(k)
        <5>1. head + QueueSize \in 0 .. 2 * QueueSize - 1 /\ head + 0 \in 0 .. 2 * QueueSize - 1
          BY DEF Index
        <5>2. \A x \in 0 .. 2 * QueueSize - 1 :
                  x % QueueSize = IF x < QueueSize THEN x ELSE x - QueueSize
          BY ModOnce, SizeAssumption
        <5>3. (head + QueueSize) % QueueSize = head /\ (head + 0) % QueueSize = head
          <6>1. head \in 0 .. QueueSize - 1
            BY DEF Index
          <6>2. QED
            BY <5>1, <5>2, <6>1
        <5>4. QED
          BY <5>3, <3>1, <3>3, <2>1 DEF Ahead
      <4>2. ~valid'[Ahead(j)']
        BY <4>1, <1>2, <1>3
      <4>3. ~(j < count')
        BY <3>3, <1>2
      <4>4. QED
        BY <4>2, <4>3
    <3>4. QED
      BY <3>1, <3>2, <3>3
  <2>7. QED
    BY <2>5, <2>6
<1>8. QED
  BY <1>6, <1>7 DEF InOrderUntilBypass

LEMMA ServiceStep ==
    ASSUME QueueInv, NEW d \in Datagram, Comes(d)
    PROVE  QueueInv'
BY ReceiveStep DEF Comes

LEMMA SameQueue ==
    ASSUME QueueInv, UNCHANGED queueVars
    PROVE  QueueInv'
BY DEF QueueInv, QueueTypeOK, queueVars, InOrderUntilBypass, Ahead

(* The ring stays well-typed, and in order until the first bypass.         *)
THEOREM QueueInOrder == Spec => [](QueueTypeOK /\ InOrderUntilBypass)
<1>1. Init => QueueInv
  <2>1. SUFFICES ASSUME Init PROVE QueueInv
    OBVIOUS
  <2>2. QueueTypeOK /\ count = 0 /\ head = 0 /\ tail = 0
    <3>1. 0 \in Index /\ 0 \in 0 .. QueueSize
      BY SizeAssumption DEF Index
    <3>2. QED
      BY <2>1, <3>1 DEF Init, QueueInit, QueueTypeOK
  <2>3. Ahead(count) = 0
    BY <2>2, ModOnce, SizeAssumption DEF Ahead
  <2>4. ASSUME NEW k \in Index
        PROVE  ~valid[Ahead(k)] /\ ~(k < count)
    BY <2>1, <2>2, AheadFacts DEF Init, QueueInit, Index
  <2>5. QED
    BY <2>2, <2>3, <2>4 DEF QueueInv, InOrderUntilBypass
<1>2. QueueInv /\ [Next]_vars => QueueInv'
  <2>1. SUFFICES ASSUME QueueInv, [Next]_vars PROVE QueueInv'
    OBVIOUS
  <2>2. CASE net_dns_resolve_a
    BY <2>1, <2>2, SameQueue DEF net_dns_resolve_a
  <2>3. CASE IdleService
    BY <2>1, <2>3, SameQueue, ServiceStep DEF IdleService
  <2>4. CASE WaitServes
    BY <2>1, <2>4, ServiceStep DEF WaitServes
  <2>5. CASE WaitPolls
    BY <2>1, <2>5, SameQueue DEF WaitPolls
  <2>6. CASE PollTakes
    BY <2>1, <2>6, PollStep DEF PollTakes
  <2>7. CASE PollMisses
    BY <2>1, <2>7, SameQueue DEF PollMisses
  <2>8. CASE UNCHANGED vars
    BY <2>1, <2>8, SameQueue DEF vars
  <2>9. QED
    BY <2>1, <2>2, <2>3, <2>4, <2>5, <2>6, <2>7, <2>8 DEF Next
<1>3. QED
  BY <1>1, <1>2, PTL DEF Spec, QueueInv

(* In that order a poll never misses a datagram that waits for its port.   *)
THEOREM NothingHiddenUntilBypass == Spec => [](~bypassed => NothingHidden)
<1>1. QueueInv => (~bypassed => NothingHidden)
  <2>1. SUFFICES ASSUME QueueInv, ~bypassed, NEW i \in Index, valid[i]
                 PROVE  Found(Address(packet[i])) # {}
    BY DEF NothingHidden
  <2> DEFINE port == Address(packet[i])
             At == {k \in Index : Addressed(k, port)}
  <2>2. /\ \A k \in Index : valid[Ahead(k)] <=> k < count
        /\ head \in Index /\ count \in 0 .. QueueSize /\ QueueSize \in Nat \ {0}
    BY <2>1, SizeAssumption DEF QueueInv, QueueTypeOK, InOrderUntilBypass
  <2>3. PICK e \in Index : Ahead(e) = i
    <3>1. CASE i >= head
      <4>1. i - head \in Index /\ head + (i - head) = i /\ i \in 0 .. 2 * QueueSize - 1
        BY <3>1, <2>2 DEF Index
      <4>2. i % QueueSize = i
        BY <4>1, <2>2, ModOnce DEF Index
      <4>3. QED
        BY <4>1, <4>2 DEF Ahead
    <3>2. CASE i < head
      <4>1. /\ i - head + QueueSize \in Index
            /\ head + (i - head + QueueSize) = i + QueueSize
            /\ i + QueueSize \in 0 .. 2 * QueueSize - 1
        BY <3>2, <2>2 DEF Index
      <4>2. (i + QueueSize) % QueueSize = i
        BY <4>1, <2>2, ModOnce DEF Index
      <4>3. QED
        BY <4>1, <4>2 DEF Ahead
    <3>3. QED
      BY <3>1, <3>2, <2>2 DEF Index
  <2>4. e \in At
    BY <2>1, <2>3 DEF Addressed
  <2>5. PICK k \in At : \A j \in At : k <= j
    <3>1. At \subseteq Nat /\ At # {}
      BY <2>4, <2>2 DEF Index
    <3>2. QED
      BY <3>1, LeastOfNaturals
  <2>6. k \in 0 .. count - 1
    BY <2>2, <2>5 DEF Addressed, Index
  <2>7. \A j \in 0 .. k - 1 : ~Addressed(j, port)
    BY <2>2, <2>5, <2>6 DEF Index
  <2>8. k \in Found(port)
    BY <2>5, <2>6, <2>7 DEF Found
  <2>9. QED
    BY <2>8
<1>2. QED
  BY <1>1, QueueInOrder, PTL DEF QueueInv

-----------------------------------------------------------------------------
(* With or without holes: no datagram is stored twice, and there are no    *)
(* more of them than udp_count says.                                       *)
InRing == {i \in Index : valid[i]}

NoTwins == \A i, j \in InRing : packet[i] = packet[j] => i = j

ThreadTypes == /\ pc \in {"idle", "wait", "poll"}
               /\ nextPort \in 1 .. LookupCount + 1
               /\ served \in 0 .. RingSize
               /\ resolved \in Genuine \cup {NoDatagram}

DnsInv == /\ QueueTypeOK
          /\ NoTwins
          /\ IsFiniteSet(InRing) /\ Cardinality(InRing) <= count
          /\ ThreadTypes

LEMMA IndexFinite == IsFiniteSet(Index)
BY FS_Interval, SizeAssumption DEF Index

LEMMA CountNat == QueueTypeOK => count \in Nat /\ count <= QueueSize /\ QueueSize \in Nat \ {0}
BY SizeAssumption DEF QueueTypeOK

LEMMA StoredIs == Stored = {packet[i] : i \in InRing}
BY DEF Stored, InRing

(* What a datagram does that comes in while there is room.                 *)
LEMMA ComesIn ==
    ASSUME DnsInv, NEW d \in Datagram, Comes(d), ~QueueFull
    PROVE  /\ NoTwins'
           /\ IsFiniteSet(InRing') /\ Cardinality(InRing') <= count'
           /\ Box!Put(d)
<1>1. /\ packet' = [packet EXCEPT ![tail] = d]
      /\ valid' = [valid EXCEPT ![tail] = TRUE]
      /\ count' = count + 1 /\ taken' = taken
      /\ d \notin Stored
  BY DEF Comes, transport_handle_udp_packet
<1>2. /\ tail \in Index /\ QueueTypeOK /\ count \in Nat
      /\ packet \in [Index -> Datagram \cup {NoDatagram}] /\ valid \in [Index -> BOOLEAN]
  BY CountNat DEF DnsInv, QueueTypeOK
<1>3. InRing' = InRing \cup {tail}
  BY <1>1, <1>2 DEF InRing
<1>4. \A i \in InRing : packet[i] # d
  BY <1>1, StoredIs
<1>5. /\ \A i \in InRing' : packet'[i] = IF i = tail THEN d ELSE packet[i]
      /\ InRing \subseteq Index
  BY <1>1, <1>2, <1>3 DEF InRing
<1>6. NoTwins'
  <2>1. SUFFICES ASSUME NEW i \in InRing', NEW j \in InRing', packet'[i] = packet'[j]
                 PROVE  i = j
    BY DEF NoTwins
  <2>2. i = tail \/ i \in InRing
    BY <1>3
  <2>3. j = tail \/ j \in InRing
    BY <1>3
  <2>4. QED
    BY <1>4, <1>5, <2>1, <2>2, <2>3 DEF DnsInv, NoTwins
<1>7. IsFiniteSet(InRing') /\ Cardinality(InRing') <= count'
  <2>1. /\ IsFiniteSet(InRing) /\ Cardinality(InRing) <= count /\ Cardinality(InRing) \in Nat
    BY FS_CardinalityType DEF DnsInv
  <2>2. /\ IsFiniteSet(InRing \cup {tail})
        /\ Cardinality(InRing \cup {tail}) = Cardinality(InRing)
           \/ Cardinality(InRing \cup {tail}) = Cardinality(InRing) + 1
    BY <2>1, FS_AddElement
  <2>3. QED
    BY <1>1, <1>2, <1>3, <2>1, <2>2
<1>8. Stored' = {packet'[i] : i \in InRing'}
  BY DEF Stored, InRing
<1>9. CASE tail \in InRing
  <2>1. InRing' = InRing /\ packet[tail] \in Stored
    BY <1>3, <1>9, StoredIs
  <2>2. \A i \in InRing : i # tail => packet[i] # packet[tail]
    BY <1>9 DEF DnsInv, NoTwins
  <2>3. Stored' = (Stored \ {packet[tail]}) \cup {d}
    BY <1>5, <1>8, <1>9, <2>1, <2>2, StoredIs
  <2>4. QED
    BY <1>1, <1>6, <1>7, <2>1, <2>3 DEF Box!Put
<1>10. CASE tail \notin InRing
  <2>1. Stored' = Stored \cup {d}
    BY <1>3, <1>5, <1>8, <1>10, StoredIs
  <2>2. QED
    BY <1>1, <1>6, <1>7, <2>1 DEF Box!Put
<1>11. QED
  BY <1>9, <1>10

(* What a poll does that finds a datagram: the one it finds is addressed   *)
(* to the port that was polled.                                            *)
LEMMA TakesOut ==
    ASSUME DnsInv, NEW port, net_udp_poll(port)
    PROVE  /\ NoTwins'
           /\ IsFiniteSet(InRing') /\ Cardinality(InRing') <= count'
           /\ \E d \in Datagram : Box!Take(d)
<1>1. PICK k \in Found(port) : TakeAt(k, port)
  BY DEF net_udp_poll
<1> DEFINE at == Ahead(k)
           d == packet[at]
<1>2. /\ k \in Index /\ valid[at] /\ count \in Nat /\ count >= 1
      /\ valid' = [valid EXCEPT ![at] = FALSE]
      /\ packet' = packet /\ count' = count - 1
      /\ taken' = [port |-> port, got |-> d] /\ DestinationPort[d] = port
  BY <1>1, CountNat DEF DnsInv, TakeAt, Found, Addressed, Address, Index
<1>3. /\ at \in Index /\ valid \in [Index -> BOOLEAN] /\ d \in Datagram
  BY <1>2, AheadFacts DEF DnsInv, QueueTypeOK
<1> HIDE DEF at
<1>4. InRing' = InRing \ {at} /\ at \in InRing
  BY <1>2, <1>3 DEF InRing
<1>5. NoTwins'
  BY <1>2, <1>4 DEF DnsInv, NoTwins
<1>6. IsFiniteSet(InRing') /\ Cardinality(InRing') <= count'
  <2>1. /\ IsFiniteSet(InRing) /\ Cardinality(InRing) <= count /\ Cardinality(InRing) \in Nat
    BY FS_CardinalityType DEF DnsInv
  <2>2. /\ IsFiniteSet(InRing \ {at})
        /\ Cardinality(InRing \ {at}) = Cardinality(InRing) - 1
    BY <1>4, <2>1, FS_RemoveElement
  <2>3. QED
    BY <1>2, <1>4, <2>1, <2>2
<1>7. Stored' = Stored \ {d}
  <2>1. Stored' = {packet[i] : i \in InRing \ {at}}
    BY <1>2, <1>4 DEF Stored, InRing
  <2>2. \A i \in InRing : i # at => packet[i] # d
    BY <1>4 DEF DnsInv, NoTwins
  <2>3. QED
    BY <2>1, <2>2, StoredIs
<1>8. d \in Stored
  BY <1>4, StoredIs
<1>9. Box!Take(d)
  BY <1>2, <1>7, <1>8 DEF Box!Take
<1>10. QED
  BY <1>3, <1>5, <1>6, <1>9

LEMMA QueueTypesKept == DnsInv /\ [Next]_vars => QueueTypeOK'
<1>1. SUFFICES ASSUME DnsInv, [Next]_vars PROVE QueueTypeOK'
  OBVIOUS
<1>2. CASE UNCHANGED queueVars
  BY <1>1, <1>2 DEF DnsInv, QueueTypeOK, queueVars
<1>3. ASSUME NEW d \in Datagram, Comes(d)
      PROVE  QueueTypeOK'
  <2>1. CASE QueueFull
    BY <1>2, <1>3, <2>1 DEF Comes, transport_handle_udp_packet
  <2>2. CASE ~QueueFull
    <3>1. /\ packet' = [packet EXCEPT ![tail] = d] /\ valid' = [valid EXCEPT ![tail] = TRUE]
          /\ tail' = (tail + 1) % QueueSize /\ count' = count + 1
          /\ head' = head /\ bypassed' = bypassed
      BY <1>3, <2>2 DEF Comes, transport_handle_udp_packet
    <3>2. tail' \in Index /\ count' \in 0 .. QueueSize
      <4>1. tail + 1 \in 0 .. 2 * QueueSize - 1 /\ tail \in 0 .. QueueSize - 1
        BY <1>1, SizeAssumption DEF DnsInv, QueueTypeOK, Index
      <4>2. tail' \in Index
        BY <3>1, <4>1, ModOnce, SizeAssumption DEF Index
      <4>3. QED
        BY <1>1, <2>2, <3>1, <4>2, CountNat DEF DnsInv, QueueTypeOK, QueueFull
    <3>3. QED
      BY <1>1, <3>1, <3>2 DEF DnsInv, QueueTypeOK
  <2>3. QED
    BY <2>1, <2>2
<1>4. CASE PollTakes
  <2>1. PICK k \in Found(LocalPort) : TakeAt(k, LocalPort)
    BY <1>4 DEF PollTakes, net_udp_poll
  <2>2. /\ k \in 0 .. count - 1 /\ k \in Index
        /\ valid' = [valid EXCEPT ![Ahead(k)] = FALSE] /\ count' = count - 1
        /\ bypassed' = (bypassed \/ k # 0) /\ packet' = packet /\ tail' = tail
    BY <1>1, <2>1, CountNat DEF DnsInv, TakeAt, Found, Index
  <2>3. Ahead(k) \in Index
    BY <1>1, <2>2, AheadFacts DEF DnsInv
  <2>4. head' \in Index
    <3>1. CASE k = 0
      <4>1. PICK n \in NextHead : head' = Ahead(n)
        BY <2>1, <3>1 DEF TakeAt
      <4>2. n \in 1 .. QueueSize /\ head + n \in 0 .. 2 * QueueSize - 1
        BY <1>1, <4>1, SizeAssumption DEF DnsInv, QueueTypeOK, NextHead, Index
      <4>3. QED
        BY <4>1, <4>2, ModOnce, SizeAssumption DEF Ahead, Index
    <3>2. CASE k # 0
      BY <1>1, <2>1, <3>2 DEF TakeAt, DnsInv, QueueTypeOK
    <3>3. QED
      BY <3>1, <3>2
  <2>5. count' \in 0 .. QueueSize
    BY <1>1, <2>2, CountNat DEF DnsInv
  <2>6. QED
    BY <1>1, <2>2, <2>3, <2>4, <2>5 DEF DnsInv, QueueTypeOK
<1>5. QED
  BY <1>1, <1>2, <1>3, <1>4 DEF Next, net_dns_resolve_a, IdleService, WaitServes, WaitPolls,
       PollMisses, vars

LEMMA ThreadTypesKept ==
    ASSUME ThreadTypes, [Next]_vars
    PROVE  ThreadTypes'
<1> USE BoundAssumption DEF ThreadTypes
<1>1. CASE net_dns_resolve_a
  BY <1>1 DEF net_dns_resolve_a, Port
<1>2. CASE IdleService
  BY <1>2 DEF IdleService, threadVars
<1>3. CASE WaitServes
  BY <1>3 DEF WaitServes
<1>4. CASE WaitPolls
  BY <1>4 DEF WaitPolls
<1>5. CASE PollTakes
  BY <1>5 DEF PollTakes
<1>6. CASE PollMisses
  BY <1>6 DEF PollMisses
<1>7. CASE UNCHANGED vars
  BY <1>7 DEF vars, threadVars
<1>8. QED
  BY <1>1, <1>2, <1>3, <1>4, <1>5, <1>6, <1>7 DEF Next

LEMMA DnsInit == Init => DnsInv /\ Box!Init
<1>1. SUFFICES ASSUME Init PROVE DnsInv /\ Box!Init
  OBVIOUS
<1>2. InRing = {} /\ Stored = {} /\ count = 0
  BY <1>1 DEF Init, QueueInit, InRing, Stored
<1>3. IsFiniteSet(InRing) /\ Cardinality(InRing) = 0
  BY <1>2, FS_EmptySet
<1>4. QueueTypeOK
  <2>1. 0 \in Index /\ 0 \in 0 .. QueueSize
    BY SizeAssumption DEF Index
  <2>2. QED
    BY <1>1, <2>1 DEF Init, QueueInit, QueueTypeOK
<1>5. ThreadTypes
  BY <1>1, BoundAssumption DEF Init, ThreadTypes
<1>6. QED
  BY <1>2, <1>3, <1>4, <1>5 DEF DnsInv, NoTwins, Box!Init

(* Every step keeps the invariant and is a step of the mailbox.            *)
LEMMA DnsStep ==
    ASSUME DnsInv, [Next]_vars
    PROVE  DnsInv' /\ [Box!Next]_<<Stored, taken>>
<1>1. QueueTypeOK' /\ ThreadTypes'
  BY QueueTypesKept, ThreadTypesKept DEF DnsInv
<1> DEFINE Rest == /\ NoTwins'
                   /\ IsFiniteSet(InRing') /\ Cardinality(InRing') <= count'
                   /\ [Box!Next]_<<Stored, taken>>
<1>2. CASE UNCHANGED queueVars
  <2>1. InRing' = InRing /\ Stored' = Stored /\ UNCHANGED <<packet, count, taken>>
    BY <1>2 DEF queueVars, InRing, Stored
  <2>2. QED
    BY <1>1, <2>1 DEF DnsInv, NoTwins
<1>3. ASSUME NEW d \in Datagram, Comes(d)
      PROVE  DnsInv' /\ [Box!Next]_<<Stored, taken>>
  <2>1. CASE QueueFull
    BY <1>2, <1>3, <2>1 DEF Comes, transport_handle_udp_packet
  <2>2. CASE ~QueueFull
    BY <1>1, <1>3, <2>2, ComesIn DEF DnsInv, Box!Next
  <2>3. QED
    BY <2>1, <2>2
<1>4. CASE PollTakes
  BY <1>1, <1>4, TakesOut DEF PollTakes, DnsInv, Box!Next
<1>5. QED
  BY <1>2, <1>3, <1>4 DEF Next, net_dns_resolve_a, IdleService, WaitServes, WaitPolls,
       PollMisses, vars

LEMMA DnsInvariant == Spec => []DnsInv
<1>1. Init => DnsInv
  BY DnsInit
<1>2. DnsInv /\ [Next]_vars => DnsInv'
  BY DnsStep
<1>3. QED
  BY <1>1, <1>2, PTL DEF Spec

(* Every variable of queue and thread keeps its type, and udp_count is     *)
(* never below the number of datagrams in the ring (transport.c:604-637,   *)
(* 743-776).                                                               *)
THEOREM DnsTypes == Spec => []TypeOK
<1>1. DnsInv => TypeOK
  BY DEF DnsInv, TypeOK, ThreadTypes, InRing
<1>2. QED
  BY <1>1, DnsInvariant, PTL

(* The ring with its holes and overwrites implements the mailbox, for      *)
(* every size and every traffic: no poll gets a datagram twice or one of   *)
(* another port (transport.c:625-635, 761-772).                            *)
THEOREM QueueImplementsMailbox == Spec => QueueIsMailbox
<1>1. Init => Box!Init
  BY DnsInit
<1>2. DnsInv /\ [Next]_vars => [Box!Next]_<<Stored, taken>>
  BY DnsStep
<1>3. QED
  BY <1>1, <1>2, DnsInvariant, PTL DEF Spec, QueueIsMailbox, Box!Spec

(* Once every counted datagram is for a port nobody will poll again, the   *)
(* queue accepts nothing any more (transport.c:610, 759-776).              *)
THEOREM DeafStaysDeaf == Spec => DeafForever
<1>1. ASSUME DnsInv, [Next]_vars, Deaf
      PROVE  Deaf'
  <2>1. QueueFull /\ \A i \in Index : valid[i] => Address(packet[i]) \notin Live
    BY <1>1 DEF Deaf
  <2>2. ~PollTakes
    <3>1. SUFFICES ASSUME PollTakes PROVE FALSE
      OBVIOUS
    <3>2. PICK k \in Found(LocalPort) : TakeAt(k, LocalPort)
      BY <3>1 DEF PollTakes, net_udp_poll
    <3>3. k \in Index /\ valid[Ahead(k)] /\ Address(packet[Ahead(k)]) = LocalPort
      BY <1>1, <3>2, CountNat DEF DnsInv, Found, Addressed, Index
    <3>4. Ahead(k) \in Index
      BY <1>1, <3>3, AheadFacts DEF DnsInv
    <3>5. LocalPort \in Live
      BY <3>1 DEF PollTakes, Live
    <3>6. QED
      BY <2>1, <3>3, <3>4, <3>5
  <2>3. UNCHANGED queueVars
    BY <1>1, <2>1, <2>2 DEF Next, net_dns_resolve_a, IdleService, WaitServes, WaitPolls,
         PollMisses, vars, Comes, transport_handle_udp_packet
  <2>4. Live' \subseteq Live
    <3>1. nextPort \in Nat
      BY <1>1, BoundAssumption DEF DnsInv, ThreadTypes
    <3>2. CASE net_dns_resolve_a
      <4>1. nextPort' = nextPort + 1 /\ nextPort \in Port /\ LocalPort' = nextPort
        BY <3>1, <3>2 DEF net_dns_resolve_a, LocalPort
      <4>2. ASSUME NEW p \in Port, p >= nextPort'
            PROVE  p >= nextPort
        BY <3>1, <4>1, <4>2, BoundAssumption DEF Port
      <4>3. Live' \subseteq {p \in Port : p >= nextPort'} \cup {LocalPort'}
        BY DEF Live, Port
      <4>4. nextPort \in {p \in Port : p >= nextPort}
        BY <3>1, <4>1
      <4>5. {p \in Port : p >= nextPort} \subseteq Live
        BY DEF Live
      <4>6. QED
        BY <4>1, <4>2, <4>3, <4>4, <4>5
    <3>3. CASE pc' = "idle" /\ nextPort' = nextPort
      BY <3>3 DEF Live, LocalPort
    <3>4. CASE pc # "idle" /\ nextPort' = nextPort
      BY <3>4 DEF Live, LocalPort
    <3>5. CASE UNCHANGED <<pc, nextPort>>
      BY <3>5 DEF Live, LocalPort
    <3>6. QED
      BY <1>1, <3>2, <3>3, <3>4, <3>5 DEF Next, IdleService, WaitServes, WaitPolls, PollTakes,
           PollMisses, vars, threadVars
  <2>5. QED
    BY <2>1, <2>3, <2>4 DEF Deaf, QueueFull, queueVars
<1>2. DnsInv /\ [Next]_vars => [Deaf => Deaf']_vars
  BY <1>1
<1>3. QED
  BY <1>2, DnsInvariant, PTL DEF Spec, DeafForever
=============================================================================
