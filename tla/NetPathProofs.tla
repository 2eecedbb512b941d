---------------------------- MODULE NetPathProofs ----------------------------
(***************************************************************************)
(* For every set of frames, every queue size and every budget: the ring of *)
(* Ipv4Queue keeps its shape and implements BoundedFifo; the types of      *)
(* NetPath hold, pcnet_send's result means what it says, and the whole     *)
(* path, from the wire to net_handle_ipv4, implements LossyChannel.        *)
(***************************************************************************)
EXTENDS NetPath, SequenceTheorems, TLAPS

(* The arithmetic of the ring: modulo on two laps of it, *)
LEMMA WrapOnce ==
    ASSUME NEW x \in 0 .. 2 * QueueSize - 1
    PROVE  /\ x % QueueSize = IF x < QueueSize THEN x ELSE x - QueueSize
           /\ x % QueueSize \in Index
BY QueueSizeAssumption DEF Index

(* stepping an index and then counting on from it, which is counting one   *)
(* more,                                                                   *)
LEMMA StepThenCount ==
    ASSUME NEW h \in Index, NEW c \in 0 .. QueueSize - 1
    PROVE  /\ (((h + c) % QueueSize) + 1) % QueueSize = (h + (c + 1)) % QueueSize
           /\ (((h + 1) % QueueSize) + c) % QueueSize = (h + (c + 1)) % QueueSize
<1> DEFINE Wrap(x) == IF x < QueueSize THEN x ELSE x - QueueSize
           Laps == 0 .. 2 * QueueSize - 1
<1>1. \A x \in Laps : x % QueueSize = Wrap(x)
  BY WrapOnce
<1>2. /\ h + c \in Laps /\ h + 1 \in Laps /\ h + (c + 1) \in Laps
      /\ Wrap(h + c) + 1 \in Laps /\ Wrap(h + 1) + c \in Laps
      /\ Wrap(Wrap(h + c) + 1) = Wrap(h + (c + 1)) /\ Wrap(Wrap(h + 1) + c) = Wrap(h + (c + 1))
  BY QueueSizeAssumption DEF Index
<1> HIDE DEF Wrap, Laps
<1>3. QED
  BY <1>1, <1>2, Zenon

(* and positions less than a lap apart, which are different slots.         *)
LEMMA SlotsDistinct ==
    ASSUME NEW h \in Index, NEW i \in 0 .. QueueSize - 1,
           NEW j \in 0 .. QueueSize - 1, i # j
    PROVE  (h + i) % QueueSize # (h + j) % QueueSize
<1> DEFINE Wrap(x) == IF x < QueueSize THEN x ELSE x - QueueSize
<1>1. \A x \in 0 .. 2 * QueueSize - 1 : x % QueueSize = Wrap(x)
  BY WrapOnce
<1>2. /\ h + i \in 0 .. 2 * QueueSize - 1 /\ h + j \in 0 .. 2 * QueueSize - 1
      /\ Wrap(h + i) # Wrap(h + j)
  BY QueueSizeAssumption DEF Index
<1> HIDE DEF Wrap
<1>3. QED
  BY <1>1, <1>2, Zenon

-----------------------------------------------------------------------------
RingInv == RingTypeOK /\ RingShape

LEMMA RingSeqFacts ==
    ASSUME RingInv
    PROVE  /\ count \in Nat /\ RingSeq \in Seq(Packet) /\ Len(RingSeq) = count
           /\ \A i \in 1 .. count : RingSeq[i] = slot[(head + i - 1) % QueueSize]
BY DEF RingInv, RingTypeOK, RingShape, RingSeq

(* What one enqueue does to the index arithmetic and to the queued packets. *)
LEMMA EnqueueStep ==
    ASSUME RingInv, NEW p \in Packet, net_queue_ipv4_packet(p)
    PROVE  /\ RingInv'
           /\ \A i \in 1 .. count :
                  slot'[(head + i - 1) % QueueSize] = slot[(head + i - 1) % QueueSize]
           /\ slot'[(head + (count + 1) - 1) % QueueSize] = p
<1> USE QueueSizeAssumption DEF RingInv, RingTypeOK, RingShape, net_queue_ipv4_packet,
        RingFull
<1>1. count \in 0 .. QueueSize - 1 /\ count' = count + 1 /\ head' = head
  BY DEF Index
<1>2. tail' = (head' + count') % QueueSize
  BY <1>1, StepThenCount
<1>3. tail' \in Index
  <2>1. tail + 1 \in 0 .. 2 * QueueSize - 1
    BY DEF Index
  <2>2. QED
    BY <2>1, WrapOnce
<1>4. ASSUME NEW i \in 1 .. count
      PROVE  /\ (head + i - 1) % QueueSize \in Index
             /\ slot'[(head + i - 1) % QueueSize] = slot[(head + i - 1) % QueueSize]
  <2>1. i - 1 \in 0 .. QueueSize - 1 /\ i - 1 # count /\ head + (i - 1) = head + i - 1
    BY <1>1 DEF Index
  <2>2. (head + i - 1) % QueueSize # tail
    BY <2>1, <1>1, SlotsDistinct
  <2>3. head + i - 1 \in 0 .. 2 * QueueSize - 1
    BY <1>1 DEF Index
  <2>4. (head + i - 1) % QueueSize \in Index
    BY <2>3, WrapOnce
  <2>5. QED
    BY <2>2, <2>4
<1>5. slot'[(head + (count + 1) - 1) % QueueSize] = p
  <2>1. head + (count + 1) - 1 = head + count
    BY <1>1 DEF Index
  <2>2. QED
    BY <2>1
<1>6. ASSUME NEW i \in 1 .. count'
      PROVE  slot'[(head' + i - 1) % QueueSize] \in Packet
  <2>1. CASE i \in 1 .. count
    BY <2>1, <1>1, <1>4
  <2>2. CASE i = count + 1
    BY <2>2, <1>1, <1>5
  <2>3. QED
    BY <1>1, <2>1, <2>2
<1>7. RingTypeOK'
  BY <1>1, <1>3 DEF Index
<1>8. QED
  BY <1>2, <1>4, <1>5, <1>6, <1>7

(* What one poll does. *)
LEMMA PollStep ==
    ASSUME RingInv, net_poll_ipv4_packet
    PROVE  /\ RingInv'
           /\ count > 0
           /\ polled' = slot[(head + 1 - 1) % QueueSize]
           /\ \A i \in 1 .. count - 1 :
                  slot'[(head' + i - 1) % QueueSize] = slot[(head + (i + 1) - 1) % QueueSize]
<1> USE QueueSizeAssumption DEF RingInv, RingTypeOK, RingShape, net_poll_ipv4_packet
<1>1. /\ count \in 1 .. QueueSize /\ count' = count - 1 /\ count' \in 0 .. QueueSize - 1
      /\ head' = (head + 1) % QueueSize /\ slot' = slot /\ tail' = tail
  BY DEF Index
<1>2. head' \in Index
  <2>1. head + 1 \in 0 .. 2 * QueueSize - 1
    BY DEF Index
  <2>2. QED
    BY <2>1, <1>1, WrapOnce
<1>3. tail' = (head' + count') % QueueSize
  <2>1. (head' + count') % QueueSize = (head + (count' + 1)) % QueueSize
    BY <1>1, StepThenCount
  <2>2. QED
    BY <2>1, <1>1 DEF Index
<1>4. ASSUME NEW i \in 1 .. count - 1
      PROVE  (head' + i - 1) % QueueSize = (head + (i + 1) - 1) % QueueSize
  <2>1. /\ i - 1 \in 0 .. QueueSize - 1
        /\ head' + (i - 1) = head' + i - 1
        /\ head + ((i - 1) + 1) = head + (i + 1) - 1
    BY <1>1, <1>2 DEF Index
  <2>2. (((head + 1) % QueueSize) + (i - 1)) % QueueSize = (head + ((i - 1) + 1)) % QueueSize
    BY <2>1, StepThenCount
  <2>3. QED
    BY <2>1, <2>2, <1>1
<1>5. polled' = slot[(head + 1 - 1) % QueueSize] /\ polled' \in Packet
  <2>1. head + 1 - 1 = head /\ head \in 0 .. 2 * QueueSize - 1 /\ head < QueueSize
    BY DEF Index
  <2>2. head % QueueSize = head
    BY <2>1, WrapOnce
  <2>3. 1 \in 1 .. count
    BY <1>1
  <2>4. QED
    BY <2>1, <2>2, <2>3
<1>6. ASSUME NEW i \in 1 .. count'
      PROVE  slot'[(head' + i - 1) % QueueSize] \in Packet
  <2>1. i \in 1 .. count - 1 /\ i + 1 \in 1 .. count
    BY <1>1
  <2>2. QED
    BY <2>1, <1>1, <1>4
<1>7. QED
  BY <1>1, <1>2, <1>3, <1>4, <1>5, <1>6

(* The ring's indices stay in range, its tail stays count slots after its  *)
(* head, and its live slots hold packets: no packet is overwritten before  *)
(* it is polled (net.c:271, 285, 539).                                     *)
THEOREM RingInvariant == RingSpec => [](RingTypeOK /\ RingShape)
<1>1. RingInit => RingInv
  BY QueueSizeAssumption DEF RingInit, RingInv, RingTypeOK, RingShape, Index
<1>2. RingInv /\ [RingNext]_ringVars => RingInv'
  <2> SUFFICES ASSUME RingInv, [RingNext]_ringVars PROVE RingInv'
    OBVIOUS
  <2>1. CASE net_poll_ipv4_packet
    BY <2>1, PollStep
  <2>2. ASSUME NEW p \in Packet, net_queue_ipv4_packet(p) PROVE RingInv'
    BY <2>2, EnqueueStep
  <2>3. CASE UNCHANGED ringVars
    BY <2>3 DEF RingInv, RingTypeOK, RingShape, ringVars, Index
  <2>4. QED
    BY <2>1, <2>2, <2>3 DEF RingNext
<1>3. RingInv => RingTypeOK /\ RingShape
  BY DEF RingInv
<1>4. QED
  BY <1>1, <1>2, <1>3, PTL DEF RingSpec

(* The queued packets, as a sequence, lose the first or gain a last.       *)
LEMMA PollTakes ==
    ASSUME RingInv, net_poll_ipv4_packet
    PROVE  /\ RingSeq \in Seq(Packet) /\ RingSeq # << >>
           /\ RingSeq' = Tail(RingSeq) /\ polled' = Head(RingSeq)
<1>0. /\ count \in Nat /\ RingSeq \in Seq(Packet) /\ Len(RingSeq) = count
      /\ \A i \in 1 .. count : RingSeq[i] = slot[(head + i - 1) % QueueSize]
  BY RingSeqFacts
<1>1. /\ count > 0 /\ polled' = RingSeq[1]
      /\ \A i \in 1 .. count - 1 : RingSeq'[i] = RingSeq[i + 1]
  BY <1>0, PollStep DEF RingSeq, net_poll_ipv4_packet
<1>2. RingSeq # << >>
  BY <1>0, <1>1
<1>3. RingSeq' \in Seq(Packet) /\ Len(RingSeq') = count - 1
  BY <1>0, PollStep
     DEF net_poll_ipv4_packet, RingInv, RingTypeOK, RingShape, RingSeq
<1>4. /\ Tail(RingSeq) \in Seq(Packet) /\ Len(Tail(RingSeq)) = count - 1
      /\ \A i \in 1 .. count - 1 : Tail(RingSeq)[i] = RingSeq[i + 1]
  BY <1>0, <1>2, HeadTailProperties
<1>5. RingSeq' = Tail(RingSeq)
  BY <1>1, <1>3, <1>4, SeqEqual
<1>6. polled' = Head(RingSeq)
  BY <1>0, <1>1, <1>2
<1>7. QED
  BY <1>0, <1>1, <1>2, <1>5, <1>6

LEMMA EnqueuePuts ==
    ASSUME RingInv, NEW p \in Packet, net_queue_ipv4_packet(p)
    PROVE  /\ RingSeq \in Seq(Packet) /\ Len(RingSeq) = count /\ count < QueueSize
           /\ RingSeq' = Append(RingSeq, p) /\ polled' = polled
<1>0. /\ count \in Nat /\ RingSeq \in Seq(Packet) /\ Len(RingSeq) = count
      /\ \A i \in 1 .. count : RingSeq[i] = slot[(head + i - 1) % QueueSize]
  BY RingSeqFacts
<1>1. count < QueueSize /\ count' = count + 1 /\ polled' = polled /\ head' = head
  BY <1>0, QueueSizeAssumption
     DEF net_queue_ipv4_packet, RingFull, RingInv, RingTypeOK
<1>2. RingSeq' \in Seq(Packet) /\ Len(RingSeq') = count + 1
  <2>1. RingInv'
    BY EnqueueStep
  <2>2. \A i \in 1 .. count + 1 : slot'[(head' + i - 1) % QueueSize] \in Packet
    BY <1>1, <2>1 DEF RingInv, RingShape
  <2>3. RingSeq' = [i \in 1 .. count + 1 |-> slot'[(head' + i - 1) % QueueSize]]
    BY <1>1 DEF RingSeq
  <2>4. QED
    BY <1>0, <2>2, <2>3
<1>3. \A i \in 1 .. count + 1 :
          RingSeq'[i] = IF i <= count THEN RingSeq[i] ELSE p
  <2>1. \A i \in 1 .. count + 1 : RingSeq'[i] = slot'[(head + i - 1) % QueueSize]
    BY <1>1 DEF RingSeq
  <2>2. \A i \in 1 .. count + 1 : i <= count \/ i = count + 1
    BY <1>0
  <2>3. \A i \in 1 .. count : slot'[(head + i - 1) % QueueSize] = RingSeq[i]
    BY <1>0, EnqueueStep
  <2>4. slot'[(head + (count + 1) - 1) % QueueSize] = p
    BY EnqueueStep
  <2>5. QED
    BY <1>0, <2>1, <2>2, <2>3, <2>4
<1>4. /\ Append(RingSeq, p) \in Seq(Packet) /\ Len(Append(RingSeq, p)) = count + 1
      /\ \A i \in 1 .. count + 1 :
             Append(RingSeq, p)[i] = IF i <= count THEN RingSeq[i] ELSE p
  BY <1>0, AppendProperties
<1>5. RingSeq' = Append(RingSeq, p)
  BY <1>2, <1>3, <1>4, SeqEqual
<1>6. QED
  BY <1>0, <1>1, <1>5

LEMMA RingFifoStep == RingInv /\ [RingNext]_ringVars => [Fifo!Next]_<<RingSeq, polled>>
<1> SUFFICES ASSUME RingInv, [RingNext]_ringVars
             PROVE  [Fifo!Next]_<<RingSeq, polled>>
  OBVIOUS
<1>1. CASE net_poll_ipv4_packet
  BY <1>1, PollTakes DEF Fifo!Next, Fifo!Take
<1>2. ASSUME NEW p \in Packet, net_queue_ipv4_packet(p)
      PROVE  [Fifo!Next]_<<RingSeq, polled>>
  BY <1>2, EnqueuePuts DEF Fifo!Next, Fifo!Put
<1>3. CASE UNCHANGED ringVars
  BY <1>3 DEF ringVars, RingSeq
<1>4. QED
  BY <1>1, <1>2, <1>3 DEF RingNext

(* The ring implements the bounded FIFO of BoundedFifo, for every size and *)
(* every set of packets (net.c:271-287, 534-542).                          *)
THEOREM RingImplementsFifo == RingSpec => RingIsFifo
<1>1. RingInit => Fifo!Init
  BY DEF RingInit, Fifo!Init, RingSeq
<1>2. QED
  BY <1>1, RingFifoStep, RingInvariant, PTL DEF RingSpec, RingIsFifo, Fifo!Spec, RingInv
-----------------------------------------------------------------------------

(* The buffers the driver is about to use hold a frame. *)
Filled == /\ rxd.own = "host" => rxd.frame \in Frame
          /\ pc \in {"rearm", "process"} => budget < RxBudget
          /\ pc = "process" => frame \in Frame
          /\ pc \in {"send", "wait"} => sending.frame \in Frame
          /\ txd.own = "card" => txd.frame \in Frame

(* What the card puts on the wire is the frame it was handed last, and it  *)
(* has aired that frame, and no other, once it gave the descriptor back.   *)
HandedOver ==
    /\ fetched # NoFrame => txd.own = "card" /\ fetched = txd.frame
    /\ pc = "wait" =>
          /\ txd.frame = sending.frame
          /\ aired = IF txd.own = "host" /\ ~txd.error THEN {sending.frame} ELSE {}

PathInv == TypeOK /\ Filled /\ HandedOver
-----------------------------------------------------------------------------
LEMMA PathInit == Init => PathInv
<1> SUFFICES ASSUME Init PROVE PathInv
  OBVIOUS
<1>1. RingTypeOK /\ RingShape
  BY QueueSizeAssumption DEF Init, RingInit, RingTypeOK, RingShape, Index
<1>2. TypeOK
  BY <1>1, BudgetAssumption DEF Init, TypeOK, Owner, NoSend
<1>3. Filled /\ HandedOver
  BY DEF Init, Filled, HandedOver
<1>4. QED
  BY <1>2, <1>3 DEF PathInv

(* The ring is disturbed by its two operations only. *)
LEMMA RingKept ==
    ASSUME RingTypeOK, RingShape, UNCHANGED ringVars
    PROVE  RingTypeOK' /\ RingShape'
BY DEF ringVars, RingTypeOK, RingShape

LEMMA RingStored ==
    ASSUME RingTypeOK, RingShape, NEW p \in Packet, net_queue_ipv4_packet(p)
    PROVE  RingTypeOK' /\ RingShape'
BY EnqueueStep DEF RingInv

LEMMA RingPolled ==
    ASSUME RingTypeOK, RingShape, net_poll_ipv4_packet
    PROVE  RingTypeOK' /\ RingShape'
BY PollStep DEF RingInv

(* The card.  A receive never touches the transmit side and conversely.    *)
LEMMA CardStep ==
    ASSUME PathInv, Card
    PROVE  PathInv'
<1> USE DEF PathInv, TypeOK, Filled, HandedOver, Owner
<1>1. RingTypeOK' /\ RingShape'
  BY RingKept DEF Card, CardFetches, CardSends, CardReceives
<1>2. CASE CardFetches
  BY <1>1, <1>2, NoFrameAssumption DEF CardFetches, threadVars
<1>3. ASSUME NEW error \in BOOLEAN, CardSends(error)
      PROVE  PathInv'
  <2>1. /\ txd' = [own |-> "host", frame |-> txd.frame, error |-> error]
        /\ fetched = txd.frame /\ fetched' = NoFrame
        /\ UNCHANGED <<rxd, pc, frame, budget, sending, sent>>
    BY <1>3 DEF CardSends, threadVars
  <2>2. aired' = IF error THEN aired ELSE aired \cup {fetched}
    BY <1>3 DEF CardSends
  <2>3. TypeOK' /\ Filled'
    <3>1. aired' \subseteq Frame
      BY <1>3, <2>2 DEF CardSends
    <3>2. txd' \in [own : Owner, frame : Frame \cup {NoFrame}, error : BOOLEAN]
      BY <2>1
    <3>3. QED
      BY <1>1, <2>1, <3>1, <3>2
  <2>4. HandedOver'
    BY <1>3, <2>1, <2>2 DEF CardSends
  <2>5. QED
    BY <2>3, <2>4
<1>4. ASSUME NEW f \in Frame, CardReceives(f)
      PROVE  PathInv'
  BY <1>1, <1>4 DEF CardReceives, threadVars
<1>5. QED
  BY <1>2, <1>3, <1>4 DEF Card

(* net_service up to the point where a frame is processed. *)
LEMMA ServiceStepKeeps ==
    ASSUME PathInv, net_service \/ ServiceStep
    PROVE  PathInv'
<1> USE BudgetAssumption DEF PathInv, TypeOK, Filled, HandedOver, Owner, cardVars
<1>1. CASE net_service
  BY <1>1, RingKept DEF net_service
<1>2. CASE ServiceEnds
  BY <1>2, RingKept DEF ServiceEnds
<1>3. CASE CopyFrame
  BY <1>3, RingKept DEF CopyFrame
<1>4. CASE Rearm
  BY <1>4, RingKept DEF Rearm
<1>5. CASE ProcessIpv4
  <2>1. frame \in Packet
    BY <1>5, PacketAssumption DEF ProcessIpv4
  <2>2. RingTypeOK' /\ RingShape'
    BY <1>5, <2>1, RingKept, RingStored DEF ProcessIpv4
  <2>3. QED
    BY <1>5, <2>2 DEF ProcessIpv4, NextFrame
<1>6. CASE ProcessArp
  BY <1>6, RingKept DEF ProcessArp, NextFrame
<1>7. CASE ProcessOther
  BY <1>7, RingKept DEF ProcessOther, NextFrame
<1>8. QED
  BY <1>1, <1>2, <1>3, <1>4, <1>5, <1>6, <1>7 DEF ServiceStep

(* pcnet_send.  It hands a frame over only when the card has nothing left. *)
LEMMA SendStepKeeps ==
    ASSUME PathInv, SendStep \/ \E f \in Frame : SendCall(f)
    PROVE  PathInv'
<1> USE DEF PathInv, TypeOK, Filled, HandedOver, Owner, cardVars
<1>1. ASSUME NEW f \in Frame, SendCall(f)
      PROVE  PathInv'
  BY <1>1, RingKept DEF SendCall
<1>2. CASE SendHandsOver
  BY <1>2, RingKept DEF SendHandsOver
<1>3. CASE SendRefused
  BY <1>3, RingKept DEF SendRefused, Return, NoSend
<1>4. CASE SendCompletes
  BY <1>4, RingKept DEF SendCompletes, Return, NoSend
<1>5. CASE SendTimesOut
  BY <1>5, RingKept DEF SendTimesOut, Return, NoSend
<1>6. QED
  BY <1>1, <1>2, <1>3, <1>4, <1>5 DEF SendStep

LEMMA PathStep == PathInv /\ [Next]_vars => PathInv'
<1> SUFFICES ASSUME PathInv, [Next]_vars PROVE PathInv'
  OBVIOUS
<1>1. CASE TransportPolls
  BY <1>1, RingPolled
     DEF TransportPolls, cardVars, threadVars, PathInv, TypeOK, Filled, HandedOver
<1>2. CASE UNCHANGED vars
  BY <1>2, RingKept DEF vars, cardVars, threadVars, PathInv, TypeOK, Filled, HandedOver
<1>3. QED
  BY <1>1, <1>2, CardStep, ServiceStepKeeps, SendStepKeeps DEF Next

(* Every variable of the path keeps its type, and the ring its shape, with *)
(* the card stepping between any two accesses of the driver (net.c:265-288, *)
(* 439-458, 533-543; pcnet.c:353-428).                                     *)
THEOREM PathTypes == Spec => []TypeOK
<1>1. PathInv => TypeOK
  BY DEF PathInv
<1>2. QED
  BY PathInit, PathStep, <1>1, PTL DEF Spec

(* pcnet_send's true is never a false report: whatever earlier calls timed *)
(* out and left with the card, the frame of this call, and only this one,  *)
(* went out during it (pcnet.c:367-386).                                   *)
THEOREM TrueIsAired == Spec => TrueMeansAired
<1> DEFINE Told == (SendRefused \/ SendCompletes \/ SendTimesOut) /\ sent'.ok
                       => aired = {sent'.frame}
<1>1. PathInv /\ [Next]_vars => [Told]_vars
  <2>1. SUFFICES ASSUME PathInv, SendRefused \/ SendCompletes \/ SendTimesOut, sent'.ok
                 PROVE  aired = {sent'.frame}
    OBVIOUS
  <2>2. SendCompletes
    BY <2>1 DEF SendRefused, SendTimesOut, Return
  <2>3. sent' = [frame |-> sending.frame, ok |-> ~txd.error]
    BY <2>2 DEF SendCompletes, Return
  <2>4. QED
    BY <2>1, <2>2, <2>3 DEF SendCompletes, PathInv, HandedOver
<1>2. QED
  BY PathInit, PathStep, <1>1, PTL DEF Spec, TrueMeansAired

-----------------------------------------------------------------------------
(* Whatever else the path does, it touches the ring by its two operations  *)
(* only, so the ring is a bounded FIFO inside it as well (net.c:271-287,   *)
(* 534-542).                                                               *)
LEMMA PathUsesRing == PathInv /\ [Next]_vars => [RingNext]_ringVars
<1> SUFFICES ASSUME PathInv, [Next]_vars PROVE [RingNext]_ringVars
  OBVIOUS
<1>1. CASE Card
  BY <1>1 DEF Card, CardFetches, CardSends, CardReceives
<1>2. CASE net_service \/ ServiceEnds \/ CopyFrame \/ Rearm \/ ProcessArp \/ ProcessOther
  BY <1>2 DEF net_service, ServiceEnds, CopyFrame, Rearm, ProcessArp, ProcessOther
<1>3. CASE ProcessIpv4
  <2>1. frame \in Packet
    BY <1>3, PacketAssumption DEF ProcessIpv4, PathInv, Filled
  <2>2. QED
    BY <1>3, <2>1 DEF ProcessIpv4, RingNext
<1>4. CASE SendStep \/ (\E f \in Frame : SendCall(f))
  BY <1>4 DEF SendStep, SendRefused, SendHandsOver, SendCompletes, SendTimesOut, SendCall, Return
<1>5. CASE TransportPolls
  BY <1>5 DEF TransportPolls, RingNext
<1>6. CASE UNCHANGED vars
  BY <1>6 DEF vars
<1>7. QED
  BY <1>1, <1>2, <1>3, <1>4, <1>5, <1>6 DEF Next, ServiceStep

THEOREM RingInsidePath == Spec => RingIsFifo
<1>1. Init => Fifo!Init
  BY DEF Init, RingInit, Fifo!Init, RingSeq
<1>2. PathInv => RingInv
  BY DEF PathInv, TypeOK, RingInv
<1>3. QED
  BY <1>1, <1>2, PathInit, PathStep, PathUsesRing, RingFifoStep, PTL
     DEF Spec, RingIsFifo, Fifo!Spec

-----------------------------------------------------------------------------
(* net_service's copy is there only while it is handled, and is what the   *)
(* buffer holds until the buffer is given back.                            *)
CopyHeld ==
    /\ frame # NoFrame => pc \in {"rearm", "process"}
    /\ pc = "rearm" => /\ rxd.own = "host"
                       /\ frame = IF Kind[rxd.frame] = "bad" THEN NoFrame ELSE rxd.frame

LEMMA CopyStep == PathInv /\ CopyHeld /\ [Next]_vars => CopyHeld'
<1> SUFFICES ASSUME PathInv, CopyHeld, [Next]_vars PROVE CopyHeld'
  OBVIOUS
<1> USE DEF CopyHeld, threadVars, cardVars
<1>1. CASE CardFetches \/ \E error \in BOOLEAN : CardSends(error)
  BY <1>1 DEF CardFetches, CardSends
<1>2. ASSUME NEW f \in Frame, CardReceives(f)
      PROVE  CopyHeld'
  BY <1>2 DEF CardReceives
<1>3. CASE net_service \/ ServiceEnds \/ Rearm
  BY <1>3 DEF net_service, ServiceEnds, Rearm
<1>4. CASE CopyFrame
  BY <1>4 DEF CopyFrame
<1>5. CASE ProcessIpv4 \/ ProcessArp \/ ProcessOther
  BY <1>5 DEF ProcessIpv4, ProcessArp, ProcessOther, NextFrame
<1>6. CASE SendStep \/ \E f \in Frame : SendCall(f)
  BY <1>6 DEF SendStep, SendRefused, SendHandsOver, SendCompletes, SendTimesOut, SendCall, Return,
              PathInv, TypeOK
<1>7. CASE TransportPolls \/ UNCHANGED vars
  BY <1>7 DEF TransportPolls, vars
<1>8. QED
  BY <1>1, <1>2, <1>3, <1>4, <1>5, <1>6, <1>7 DEF Next, Card, ServiceStep

(* A packet on its way from the buffer to the ring, if there is one.       *)
Landed == IF rxd.own = "host" /\ pc # "rearm" THEN One(rxd.frame) ELSE << >>

LEMMA OneIs ==
    ASSUME NEW f \in Frame \cup {NoFrame}
    PROVE  /\ One(f) \in Seq(Packet)
           /\ f \in Packet => One(f) = <<f>>
           /\ f \notin Packet => One(f) = << >>
BY PacketAssumption, NoFrameAssumption DEF One

LEMMA TransitIs ==
    ASSUME PathInv
    PROVE  /\ RingSeq \in Seq(Packet) /\ One(frame) \in Seq(Packet) /\ Landed \in Seq(Packet)
           /\ InTransit = (RingSeq \o One(frame)) \o Landed
           /\ InTransit \in Seq(Packet)
<1>1. RingSeq \in Seq(Packet)
  BY RingSeqFacts DEF PathInv, TypeOK, RingInv
<1>2. frame \in Frame \cup {NoFrame} /\ rxd.frame \in Frame \cup {NoFrame}
  BY DEF PathInv, TypeOK
<1>3. One(frame) \in Seq(Packet) /\ Landed \in Seq(Packet)
  BY <1>2, OneIs, EmptySeq DEF Landed
<1>4. InTransit = (RingSeq \o One(frame)) \o Landed
  BY DEF InTransit, Landed
<1>5. QED
  BY <1>1, <1>3, <1>4, ConcatProperties

(* A packet comes in behind those that wait.                               *)
LEMMA ReceiveArrives ==
    ASSUME PathInv, CopyHeld, NEW f \in Frame, CardReceives(f)
    PROVE  [Channel!Next]_<<InTransit, polled>>
<1> DEFINE before == RingSeq \o One(frame)
<1>1. /\ rxd.own = "card" /\ rxd'.own = "host" /\ rxd'.frame = f
      /\ f \notin Receiving /\ pc # "rearm"
      /\ UNCHANGED <<ringVars, pc, frame>>
  BY DEF CardReceives, threadVars, CopyHeld
<1>2. Landed = << >> /\ before \in Seq(Packet) /\ InTransit = before
  BY <1>1, TransitIs, ConcatProperties, ConcatEmptySeq DEF Landed
<1>3. RingSeq' = RingSeq /\ One(frame)' = One(frame) /\ polled' = polled
  BY <1>1 DEF RingSeq, ringVars, One
<1>4. InTransit' = before \o One(f)
  BY <1>1, <1>3 DEF InTransit
<1>5. CASE f \notin Packet
  <2>1. InTransit' = InTransit
    BY <1>2, <1>4, <1>5, OneIs, ConcatEmptySeq
  <2>2. QED
    BY <1>3, <2>1
<1>6. CASE f \in Packet
  <2>1. One(f) = <<f>>
    BY <1>6, OneIs
  <2>2. InTransit' = Append(before, f)
    BY <1>2, <1>4, <1>6, <2>1, AppendIsConcat
  <2>3. ~Contains(before, f)
    <3>1. SUFFICES ASSUME NEW i \in 1 .. Len(before), before[i] = f
                   PROVE  FALSE
      BY DEF Contains
    <3>2. /\ RingSeq \in Seq(Packet) /\ One(frame) \in Seq(Packet)
          /\ Len(RingSeq) = count /\ count \in Nat
          /\ frame \in Frame \cup {NoFrame}
      BY TransitIs, RingSeqFacts DEF PathInv, TypeOK, RingInv
    <3>3. /\ Len(before) = count + Len(One(frame))
          /\ before[i] = IF i <= count THEN RingSeq[i] ELSE One(frame)[i - count]
      BY <3>2, ConcatProperties
    <3>4. CASE i <= count
      <4>1. RingSeq[i] \in Receiving
        BY <3>2, <3>4 DEF Receiving
      <4>2. QED
        BY <1>1, <3>1, <3>3, <3>4, <4>1
    <3>5. CASE i > count
      <4>1. CASE frame \in Packet
        <5>1. One(frame) = <<frame>> /\ Len(One(frame)) = 1
          BY <3>2, <4>1, OneIs
        <5>2. i = count + 1
          BY <3>2, <3>3, <3>5, <5>1
        <5>3. before[i] = frame
          BY <3>2, <3>3, <5>1, <5>2
        <5>4. QED
          BY <1>1, <3>1, <5>3 DEF Receiving
      <4>2. CASE frame \notin Packet
        BY <3>2, <3>3, <3>5, <4>2, OneIs
      <4>3. QED
        BY <4>1, <4>2
    <3>6. QED
      BY <3>2, <3>4, <3>5
  <2>4. QED
    BY <1>2, <1>3, <1>6, <2>2, <2>3 DEF Channel!Next, Channel!Arrive, Channel!Contains, Contains
<1>7. QED
  BY <1>5, <1>6

(* What is polled is the packet that waits longest.                        *)
LEMMA PollTakesFirst ==
    ASSUME PathInv, TransportPolls
    PROVE  Channel!Take
<1> DEFINE rest == One(frame) \o Landed
<1>1. /\ RingSeq \in Seq(Packet) /\ RingSeq # << >>
      /\ RingSeq' = Tail(RingSeq) /\ polled' = Head(RingSeq)
  BY PollTakes DEF PathInv, TypeOK, RingInv, TransportPolls
<1>2. One(frame) \in Seq(Packet) /\ Landed \in Seq(Packet) /\ rest \in Seq(Packet)
  BY TransitIs, ConcatProperties
<1>3. InTransit = RingSeq \o rest
  <2>1. (RingSeq \o One(frame)) \o Landed = RingSeq \o (One(frame) \o Landed)
    BY <1>1, <1>2, ConcatAssociative
  <2>2. QED
    BY <2>1, TransitIs
<1>4. One(frame)' = One(frame) /\ Landed' = Landed
  BY DEF TransportPolls, cardVars, threadVars, One, Landed
<1>5. Tail(RingSeq) \in Seq(Packet)
  BY <1>1, HeadTailProperties
<1>6. InTransit' = Tail(RingSeq) \o rest
  <2>1. InTransit' = (RingSeq' \o One(frame)) \o Landed
    BY <1>4 DEF InTransit, Landed
  <2>2. InTransit' = (Tail(RingSeq) \o One(frame)) \o Landed
    BY <1>1, <2>1
  <2>3. (Tail(RingSeq) \o One(frame)) \o Landed = Tail(RingSeq) \o (One(frame) \o Landed)
    BY <1>2, <1>5, ConcatAssociative
  <2>4. QED
    BY <2>2, <2>3
<1> HIDE DEF rest
<1>7. /\ RingSeq \o rest # << >>
      /\ Head(RingSeq \o rest) = Head(RingSeq)
      /\ Tail(RingSeq \o rest) = Tail(RingSeq) \o rest
  <2>1. PICK n \in Nat : n = Len(RingSeq)
    BY <1>1, LenProperties
  <2>2. PICK m \in Nat : m = Len(rest)
    BY <1>2, LenProperties
  <2>3. n > 0
    BY <1>1, <2>1, EmptySeq
  <2>4. /\ RingSeq \o rest \in Seq(Packet) /\ Len(RingSeq \o rest) = n + m
        /\ \A i \in 1 .. n + m : (RingSeq \o rest)[i] = IF i <= n THEN RingSeq[i] ELSE rest[i - n]
    BY <1>1, <1>2, <2>1, <2>2, ConcatProperties
  <2>5. RingSeq \o rest # << >>
    BY <2>3, <2>4
  <2>6. /\ Tail(RingSeq \o rest) \in Seq(Packet) /\ Len(Tail(RingSeq \o rest)) = n + m - 1
        /\ \A i \in 1 .. n + m - 1 : Tail(RingSeq \o rest)[i] = (RingSeq \o rest)[i + 1]
    BY <2>4, <2>5, HeadTailProperties
  <2>7. /\ Len(Tail(RingSeq)) = n - 1
        /\ \A i \in 1 .. n - 1 : Tail(RingSeq)[i] = RingSeq[i + 1]
    BY <1>1, <2>1, HeadTailProperties
  <2> DEFINE other == Tail(RingSeq) \o rest
  <2>8. /\ other \in Seq(Packet) /\ Len(other) = n - 1 + m
        /\ \A i \in 1 .. n - 1 + m :
               other[i] = IF i <= n - 1 THEN Tail(RingSeq)[i] ELSE rest[i - (n - 1)]
    <3> DEFINE front == Tail(RingSeq)
    <3>1. front \in Seq(Packet) /\ Len(front) = n - 1
      BY <1>5, <2>7
    <3> HIDE DEF front
    <3>2. /\ front \o rest \in Seq(Packet)
          /\ Len(front \o rest) = Len(front) + Len(rest)
          /\ \A i \in 1 .. Len(front) + Len(rest) :
                 (front \o rest)[i] = IF i <= Len(front) THEN front[i] ELSE rest[i - Len(front)]
      BY <1>2, <3>1, ConcatProperties
    <3>3. other = front \o rest
      BY DEF front
    <3>4. QED
      BY <2>2, <3>1, <3>2, <3>3 DEF front
  <2> HIDE DEF other
  <2>9. ASSUME NEW i \in 1 .. n + m - 1
        PROVE  Tail(RingSeq \o rest)[i] = other[i]
    <3>1. i + 1 \in 1 .. n + m /\ i \in 1 .. n - 1 + m
      BY <2>3
    <3>2. Tail(RingSeq \o rest)[i] = IF i + 1 <= n THEN RingSeq[i + 1] ELSE rest[i + 1 - n]
      BY <2>4, <2>6, <3>1
    <3>3. CASE i + 1 <= n
      <4>1. i <= n - 1 /\ i \in 1 .. n - 1
        BY <3>3
      <4>2. QED
        BY <2>7, <2>8, <3>1, <3>2, <3>3, <4>1
    <3>4. CASE ~(i + 1 <= n)
      <4>1. ~(i <= n - 1) /\ i + 1 - n = i - (n - 1)
        BY <3>4
      <4>2. QED
        BY <2>8, <3>1, <3>2, <3>4, <4>1
    <3>5. QED
      BY <3>3, <3>4
  <2>10. Tail(RingSeq \o rest) = other
    <3>1. n + m - 1 = n - 1 + m
      OBVIOUS
    <3>2. QED
      BY <2>6, <2>8, <2>9, <3>1, SeqEqual
  <2>11. Head(RingSeq \o rest) = Head(RingSeq)
    <3>1. 1 \in 1 .. n + m /\ 1 <= n
      BY <2>3
    <3>2. (RingSeq \o rest)[1] = RingSeq[1]
      BY <2>4, <3>1
    <3>3. QED
      BY <1>1, <2>4, <2>5, <3>2
  <2>12. QED
    BY <2>5, <2>10, <2>11 DEF other
<1>8. QED
  BY <1>1, <1>3, <1>6, <1>7 DEF Channel!Take

(* A packet that the ring has no room for is behind as many as it holds.   *)
LEMMA FullLoses ==
    ASSUME PathInv, CopyHeld, ProcessIpv4, RingFull
    PROVE  Channel!Lose
<1> DEFINE n == Len(RingSeq)
<1>1. /\ RingSeq \in Seq(Packet) /\ One(frame) \in Seq(Packet) /\ Landed \in Seq(Packet)
      /\ InTransit = (RingSeq \o One(frame)) \o Landed
  BY TransitIs
<1>2. n \in Nat /\ n = QueueSize
  BY RingSeqFacts, QueueSizeAssumption DEF PathInv, TypeOK, RingInv, RingTypeOK, RingFull
<1>3. frame \in Packet /\ One(frame) = <<frame>>
  BY PacketAssumption, OneIs DEF ProcessIpv4, PathInv, Filled
<1>4. /\ InTransit' = RingSeq \o Landed /\ polled' = polled
  <2>1. /\ UNCHANGED <<ringVars, rxd>> /\ frame' = NoFrame /\ pc = "process" /\ pc' = "poll"
    BY DEF ProcessIpv4, NextFrame, cardVars
  <2>2. RingSeq' = RingSeq /\ One(NoFrame) = << >> /\ polled' = polled
    BY <2>1 DEF RingSeq, ringVars, One
  <2>3. InTransit' = (RingSeq \o << >>) \o Landed
    BY <2>1, <2>2 DEF InTransit, Landed
  <2>4. QED
    BY <1>1, <2>2, <2>3, ConcatEmptySeq
<1> DEFINE held == RingSeq \o <<frame>>
           some == <<frame>> \o Landed
           m == Len(Landed)
<1>5. <<frame>> \in Seq(Packet) /\ Len(<<frame>>) = 1 /\ m \in Nat
  BY <1>1, <1>3, LenProperties
<1>6. held \in Seq(Packet) /\ Len(held) = n + 1 /\ some \in Seq(Packet)
  BY <1>1, <1>5, ConcatProperties
<1>7. InTransit = held \o Landed /\ InTransit = RingSeq \o some
  BY <1>1, <1>3, <1>5, ConcatAssociative
<1> HIDE DEF held, some, n, m
<1>8. InTransit \in Seq(Packet) /\ Len(InTransit) = n + 1 + m
  <2>1. held \o Landed \in Seq(Packet) /\ Len(held \o Landed) = Len(held) + Len(Landed)
    BY <1>1, <1>6, ConcatProperties
  <2>2. QED
    BY <1>6, <1>7, <2>1 DEF m
<1>9. SubSeq(InTransit, 1, n) = RingSeq
  <2>1. 1 \in 1 .. n /\ n \in 1 .. n
    BY <1>2, QueueSizeAssumption
  <2>2. SubSeq(RingSeq \o some, 1, n) = SubSeq(RingSeq, 1, n)
    BY <1>1, <1>6, <2>1, SubSeqOfConcat1 DEF n
  <2>3. SubSeq(RingSeq, 1, n) = RingSeq
    BY <1>1, SubSeqFull DEF n
  <2>4. QED
    BY <1>7, <2>2, <2>3
<1>10. SubSeq(InTransit, n + 2, n + 1 + m) = Landed
  <2>1. CASE m = 0
    <3>1. n + 2 \in Int /\ n + 1 + m \in Int /\ n + 1 + m < n + 2
      BY <1>2, <2>1
    <3>2. SubSeq(InTransit, n + 2, n + 1 + m) = << >>
      BY <3>1, SubSeqEmpty
    <3>3. Landed = << >>
      BY <1>1, <2>1, EmptySeq DEF m
    <3>4. QED
      BY <3>2, <3>3
  <2>2. CASE m # 0
    <3>1. /\ n + 2 \in n + 1 + 1 .. n + 1 + m /\ n + 1 + m \in n + 1 + 1 .. n + 1 + m
          /\ n + 2 - (n + 1) = 1 /\ n + 1 + m - (n + 1) = m
      BY <1>2, <1>5, <2>2
    <3>2. SubSeq(held \o Landed, n + 2, n + 1 + m) = SubSeq(Landed, 1, m)
      <4> DEFINE from == n + 2
                 to == n + 1 + m
      <4>1. from \in Len(held) + 1 .. Len(held) + Len(Landed) /\ to \in Len(held) + 1 .. Len(held) + Len(Landed)
        BY <1>6, <3>1 DEF m
      <4>2. from - Len(held) = 1 /\ to - Len(held) = m
        BY <1>2, <1>5, <1>6, <3>1
      <4> HIDE DEF from, to
      <4>3. SubSeq(held \o Landed, from, to) = SubSeq(Landed, from - Len(held), to - Len(held))
        BY <1>1, <1>6, <4>1, SubSeqOfConcat2
      <4>4. QED
        BY <4>2, <4>3 DEF from, to
    <3>3. SubSeq(Landed, 1, m) = Landed
      BY <1>1, SubSeqFull DEF m
    <3>4. QED
      BY <1>7, <3>2, <3>3
  <2>3. QED
    BY <2>1, <2>2
<1>11. Channel!RemoveAt(InTransit, n + 1) = RingSeq \o Landed
  <2>1. (n + 1) - 1 = n /\ (n + 1) + 1 = n + 2
    BY <1>2
  <2>2. QED
    BY <1>8, <1>9, <1>10, <2>1 DEF Channel!RemoveAt
<1>12. n + 1 \in QueueSize + 1 .. Len(InTransit)
  BY <1>2, <1>5, <1>8
<1>13. QED
  BY <1>4, <1>11, <1>12 DEF Channel!Lose

(* A step of the driver that only moves a packet from the buffer to the    *)
(* copy and from there to the ring is none of the channel.                 *)
LEMMA CopyMoves ==
    ASSUME PathInv, CopyHeld, CopyFrame \/ Rearm
    PROVE  InTransit' = InTransit /\ polled' = polled
<1>1. RingSeq' = RingSeq /\ polled' = polled
  BY DEF CopyFrame, Rearm, RingSeq, ringVars
<1>2. /\ RingSeq \in Seq(Packet) /\ One(frame) \in Seq(Packet)
      /\ InTransit = (RingSeq \o One(frame)) \o Landed
  BY TransitIs
<1>3. CASE CopyFrame
  <2>1. /\ pc = "poll" /\ rxd.own = "host" /\ rxd' = rxd /\ pc' = "rearm"
        /\ frame = NoFrame /\ rxd.frame \in Frame
        /\ frame' = IF Kind[rxd.frame] = "bad" THEN NoFrame ELSE rxd.frame
    BY <1>3 DEF CopyFrame, CopyHeld, cardVars, PathInv, Filled
  <2>2. One(frame) = << >> /\ Landed = One(rxd.frame)
    BY <2>1 DEF One, Landed
  <2>3. One(frame)' = One(rxd.frame) /\ One(rxd.frame) \in Seq(Packet)
    <3>1. One(frame)' = One(frame')
      BY DEF One
    <3>2. CASE Kind[rxd.frame] = "bad"
      BY <2>1, <3>1, <3>2, EmptySeq DEF One
    <3>3. CASE Kind[rxd.frame] # "bad"
      BY <2>1, <3>1, <3>3, OneIs
    <3>4. QED
      BY <3>2, <3>3
  <2>4. InTransit' = (RingSeq \o One(rxd.frame)) \o << >>
    BY <1>1, <2>1, <2>3 DEF InTransit
  <2>5. QED
    BY <1>1, <1>2, <2>2, <2>3, <2>4, ConcatEmptySeq, ConcatProperties
<1>4. CASE Rearm
  <2>1. /\ pc = "rearm" /\ pc' # "rearm" /\ frame' = frame /\ rxd'.own = "card"
    BY <1>4 DEF Rearm
  <2>2. Landed = << >> /\ One(frame)' = One(frame)
    BY <2>1 DEF Landed, One
  <2>3. InTransit' = (RingSeq \o One(frame)) \o << >>
    BY <1>1, <2>1, <2>2 DEF InTransit
  <2>4. QED
    BY <1>1, <1>2, <2>2, <2>3
<1>5. QED
  BY <1>3, <1>4

LEMMA ProcessMoves ==
    ASSUME PathInv, CopyHeld, ProcessArp \/ ProcessOther \/ (ProcessIpv4 /\ ~RingFull)
    PROVE  InTransit' = InTransit /\ polled' = polled
<1>1. /\ RingSeq \in Seq(Packet) /\ One(frame) \in Seq(Packet)
      /\ InTransit = (RingSeq \o One(frame)) \o Landed
  BY TransitIs
<1>2. /\ pc = "process" /\ pc' # "rearm" /\ rxd' = rxd /\ frame' = NoFrame
  BY DEF ProcessArp, ProcessOther, ProcessIpv4, NextFrame, cardVars
<1>3. Landed' = Landed /\ One(frame)' = << >>
  BY <1>2 DEF Landed, One
<1>4. InTransit' = (RingSeq' \o << >>) \o Landed
  BY <1>2, <1>3 DEF InTransit, Landed
<1>5. CASE ProcessArp \/ ProcessOther
  <2>1. RingSeq' = RingSeq /\ polled' = polled
    BY <1>5 DEF ProcessArp, ProcessOther, RingSeq, ringVars
  <2>2. One(frame) = << >>
    BY <1>5 DEF ProcessArp, ProcessOther, One
  <2>3. QED
    BY <1>1, <1>4, <2>1, <2>2
<1>6. CASE ProcessIpv4 /\ ~RingFull
  <2>1. frame \in Packet /\ net_queue_ipv4_packet(frame)
    BY <1>6, PacketAssumption DEF ProcessIpv4, PathInv, Filled
  <2>2. RingSeq' = Append(RingSeq, frame) /\ polled' = polled
    BY <2>1, EnqueuePuts DEF PathInv, TypeOK, RingInv
  <2>3. One(frame) = <<frame>> /\ Append(RingSeq, frame) = RingSeq \o One(frame)
    BY <1>1, <2>1, OneIs, PacketAssumption, AppendIsConcat
  <2>4. RingSeq \o One(frame) \in Seq(Packet)
    BY <1>1, ConcatProperties
  <2>5. QED
    BY <1>1, <1>4, <2>2, <2>3, <2>4, ConcatEmptySeq
<1>7. QED
  BY <1>5, <1>6

LEMMA TransitKept ==
    ASSUME UNCHANGED <<ringVars, rxd, frame>>, pc # "rearm", pc' # "rearm"
    PROVE  InTransit' = InTransit /\ polled' = polled
BY DEF InTransit, RingSeq, ringVars, One

LEMMA PathFollowsChannel ==
    PathInv /\ CopyHeld /\ [Next]_vars => [Channel!Next]_<<InTransit, polled>>
<1> SUFFICES ASSUME PathInv, CopyHeld, [Next]_vars
             PROVE  [Channel!Next]_<<InTransit, polled>>
  BY Zenon
<1>1. CASE CardFetches \/ \E error \in BOOLEAN : CardSends(error)
  BY <1>1 DEF CardFetches, CardSends, threadVars, InTransit, RingSeq, ringVars, One
<1>2. ASSUME NEW f \in Frame, CardReceives(f)
      PROVE  [Channel!Next]_<<InTransit, polled>>
  BY <1>2, ReceiveArrives
<1>3. CASE net_service \/ ServiceEnds
  BY <1>3, TransitKept DEF net_service, ServiceEnds, cardVars
<1>4. CASE CopyFrame \/ Rearm
  BY <1>4, CopyMoves
<1>5. CASE ProcessArp \/ ProcessOther \/ (ProcessIpv4 /\ ~RingFull)
  BY <1>5, ProcessMoves
<1>6. CASE ProcessIpv4 /\ RingFull
  BY <1>6, FullLoses DEF Channel!Next
<1>7. CASE SendStep \/ \E f \in Frame : SendCall(f)
  <2>1. pc # "rearm" /\ pc' # "rearm" /\ UNCHANGED <<ringVars, rxd, frame>>
    BY <1>7 DEF SendStep, SendRefused, SendHandsOver, SendCompletes, SendTimesOut, SendCall, Return,
                cardVars, PathInv, TypeOK
  <2>2. QED
    BY <2>1, TransitKept
<1>8. CASE TransportPolls
  BY <1>8, PollTakesFirst DEF Channel!Next
<1>9. CASE UNCHANGED vars
  BY <1>9 DEF vars, cardVars, threadVars, InTransit, RingSeq, ringVars, One
<1>10. QED
  BY <1>1, <1>2, <1>3, <1>4, <1>5, <1>6, <1>7, <1>8, <1>9 DEF Next, Card, ServiceStep

(* From the wire to the caller no packet is repeated or overtaken, and one *)
(* that the card has accepted is lost only behind a full ring, whatever    *)
(* the card does between two accesses of the driver (pcnet.c:398-427,      *)
(* net.c:271-287, 448-455, 534-542).                                       *)
THEOREM PathImplementsChannel == Spec => PathIsLossyChannel
<1>1. Init => CopyHeld
  BY DEF Init, CopyHeld
<1>2. Init => Channel!Init
  <2>1. SUFFICES ASSUME Init PROVE InTransit = << >>
    BY DEF Channel!Init
  <2>2. RingSeq = << >> /\ One(frame) = << >>
    BY <2>1 DEF Init, RingInit, RingSeq, One
  <2>3. InTransit = (<< >> \o << >>) \o << >>
    BY <2>1, <2>2 DEF Init, InTransit
  <2>4. QED
    BY <2>3, EmptySeq, ConcatEmptySeq
<1>3. QED
  BY <1>1, <1>2, PathInit, PathStep, CopyStep, PathFollowsChannel, PTL
     DEF Spec, PathIsLossyChannel, Channel!Spec
=============================================================================
