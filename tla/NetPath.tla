------------------------------- MODULE NetPath -------------------------------
(***************************************************************************)
(* The path of a received frame: the PCnet card with its single receive    *)
(* and single transmit descriptor (kernel/pcnet.c), net_service with its   *)
(* frame budget (kernel/net.c), the IPv4 ring, and the transport layer     *)
(* that polls it.  The card runs beside the one kernel thread: it takes a  *)
(* step between any two descriptor accesses of the driver.                 *)
(*                                                                         *)
(* The state starts after net_configure_ipv4_static has returned.          *)
(***************************************************************************)
EXTENDS Ipv4Queue, SequencesExt

CONSTANTS Frame,        \* frames on the wire and frames to be sent
          NoFrame,      \* empty buffer
          Kind,         \* Kind[f]: what net_process_frame makes of frame f
          RxBudget      \* NET_RX_BUDGET

(* "ipv4": an IPv4 packet for this host; "arp": an ARP request for this    *)
(* host's address; "other": anything net_process_frame ignores; "bad": a   *)
(* frame the descriptor reports as errored, empty or too long.             *)
ASSUME KindAssumption == Kind \in [Frame -> {"ipv4", "arp", "other", "bad"}]
ASSUME PacketAssumption == Packet = {f \in Frame : Kind[f] = "ipv4"}
ASSUME BudgetAssumption == RxBudget \in Nat \ {0}
ASSUME NoFrameAssumption == NoFrame \notin Frame

VARIABLES rxd,      \* receive descriptor: owner, and the frame in its buffer
          txd,      \* transmit descriptor: owner, frame, error flag
          fetched,  \* the frame the card is putting on the wire
          aired,    \* the frames sent without error during the current pcnet_send
          pc,       \* where the kernel thread is
          frame,    \* net_service's local copy of the received frame
          budget,   \* net_service's loop counter
          sending,  \* pcnet_send's argument, and where the call returns to
          sent      \* outcome of the last pcnet_send

cardVars == <<rxd, txd, fetched, aired>>
threadVars == <<pc, frame, budget, sending, sent>>
vars == <<ringVars, cardVars, threadVars>>

Owner == {"card", "host"}
NoSend == [frame |-> NoFrame, back |-> "idle"]

TypeOK ==
    /\ RingTypeOK
    /\ RingShape
    /\ rxd \in [own : Owner, frame : Frame \cup {NoFrame}]
    /\ txd \in [own : Owner, frame : Frame \cup {NoFrame}, error : BOOLEAN]
    /\ fetched \in Frame \cup {NoFrame}
    /\ aired \subseteq Frame
    /\ pc \in {"idle", "poll", "rearm", "process", "send", "wait"}
    /\ frame \in Frame \cup {NoFrame}
    /\ budget \in 0 .. RxBudget
    /\ sending \in [frame : Frame \cup {NoFrame}, back : {"idle", "poll"}]
    /\ sent \in [frame : Frame \cup {NoFrame}, ok : BOOLEAN]

Init ==
    /\ RingInit
    /\ rxd = [own |-> "card", frame |-> NoFrame]
    /\ txd = [own |-> "host", frame |-> NoFrame, error |-> FALSE]
    /\ fetched = NoFrame
    /\ aired = {}
    /\ pc = "idle"
    /\ frame = NoFrame
    /\ budget = 0
    /\ sending = NoSend
    /\ sent = [frame |-> NoFrame, ok |-> FALSE]
-----------------------------------------------------------------------------
(* The card.  It writes a receive buffer only while it owns the            *)
(* descriptor, and misses the frame otherwise.                             *)
Receiving == {rxd.frame, frame} \cup {RingSeq[i] : i \in 1 .. count}

CardReceives(f) ==
    /\ rxd.own = "card"
    /\ f \notin Receiving
    /\ rxd' = [own |-> "host", frame |-> f]
    /\ UNCHANGED <<ringVars, txd, fetched, aired, threadVars>>

CardFetches ==
    /\ txd.own = "card"
    /\ fetched = NoFrame
    /\ fetched' = txd.frame
    /\ UNCHANGED <<ringVars, rxd, txd, aired, threadVars>>

CardSends(error) ==
    /\ fetched # NoFrame
    /\ txd' = [txd EXCEPT !.own = "host", !.error = error]
    /\ aired' = IF error THEN aired ELSE aired \cup {fetched}
    /\ fetched' = NoFrame
    /\ UNCHANGED <<ringVars, rxd, threadVars>>

Card == CardFetches \/ (\E error \in BOOLEAN : CardSends(error))
            \/ \E f \in Frame : CardReceives(f)
-----------------------------------------------------------------------------
(* net_service: start the loop, poll, copy the frame, give the descriptor  *)
(* back to the card, process.                                              *)
net_service ==
    /\ pc = "idle"
    /\ budget' = 0
    /\ pc' = "poll"
    /\ UNCHANGED <<ringVars, cardVars, frame, sending, sent>>

(* The loop ends when the budget is spent or the card owns the descriptor. *)
ServiceEnds ==
    /\ pc = "poll"
    /\ budget >= RxBudget \/ rxd.own = "card"
    /\ pc' = "idle"
    /\ UNCHANGED <<ringVars, cardVars, frame, budget, sending, sent>>

(* pcnet_poll_receive reads the buffer, and only then gives it back. *)
CopyFrame ==
    /\ pc = "poll" /\ budget < RxBudget /\ rxd.own = "host"
    /\ frame' = IF Kind[rxd.frame] = "bad" THEN NoFrame ELSE rxd.frame
    /\ pc' = "rearm"
    /\ UNCHANGED <<ringVars, cardVars, budget, sending, sent>>

(* Slips: the descriptor is not given back, or not after an errored frame. *)
Rearm_forgotten ==
    /\ pc = "rearm"
    /\ pc' = IF frame = NoFrame THEN "idle" ELSE "process"
    /\ UNCHANGED <<ringVars, cardVars, frame, budget, sending, sent>>

Rearm_good_only ==
    /\ pc = "rearm"
    /\ rxd' = IF frame = NoFrame THEN rxd ELSE [own |-> "card", frame |-> NoFrame]
    /\ pc' = IF frame = NoFrame THEN "idle" ELSE "process"
    /\ UNCHANGED <<ringVars, txd, fetched, aired, frame, budget, sending, sent>>

(* An errored frame makes the poll return false, which ends the loop. *)
Rearm ==
    /\ pc = "rearm"
    /\ rxd' = [own |-> "card", frame |-> NoFrame]
    /\ pc' = IF frame = NoFrame THEN "idle" ELSE "process"
    /\ UNCHANGED <<ringVars, txd, fetched, aired, frame, budget, sending, sent>>

(* Slip: the loop counter is not advanced. *)
NextFrame_no_budget == /\ frame' = NoFrame
                       /\ UNCHANGED budget

NextFrame == /\ frame' = NoFrame
             /\ budget' = budget + 1

ProcessIpv4 ==
    /\ pc = "process" /\ Kind[frame] = "ipv4"
    /\ IF RingFull THEN UNCHANGED ringVars ELSE net_queue_ipv4_packet(frame)
    /\ NextFrame
    /\ pc' = "poll"
    /\ UNCHANGED <<cardVars, sending, sent>>

(* net_handle_arp answers through pcnet_send before the loop goes on. *)
ProcessArp ==
    /\ pc = "process" /\ Kind[frame] = "arp"
    /\ sending' = [frame |-> frame, back |-> "poll"]
    /\ NextFrame
    /\ pc' = "send"
    /\ UNCHANGED <<ringVars, cardVars, sent>>

ProcessOther ==
    /\ pc = "process" /\ Kind[frame] = "other"
    /\ NextFrame
    /\ pc' = "poll"
    /\ UNCHANGED <<ringVars, cardVars, sending, sent>>
-----------------------------------------------------------------------------
(* pcnet_send: refuse while the card owns the descriptor, else hand the    *)
(* frame over and wait for the card a bounded number of polls.             *)
SendCall(f) ==
    /\ pc = "idle"
    /\ Kind[f] = "other"
    /\ sending' = [frame |-> f, back |-> "idle"]
    /\ pc' = "send"
    /\ UNCHANGED <<ringVars, cardVars, frame, budget, sent>>

Return(ok) == /\ sent' = [frame |-> sending.frame, ok |-> ok]
              /\ pc' = sending.back
              /\ sending' = NoSend
              /\ UNCHANGED <<ringVars, rxd, txd, fetched, frame, budget>>

SendRefused ==
    /\ pc = "send" /\ txd.own = "card"
    /\ Return(FALSE)
    /\ UNCHANGED aired

(* Slip: the owner bit is not looked at. *)
SendHandsOver_unguarded ==
    /\ pc = "send"
    /\ txd' = [own |-> "card", frame |-> sending.frame, error |-> FALSE]
    /\ aired' = {}
    /\ pc' = "wait"
    /\ UNCHANGED <<ringVars, rxd, fetched, frame, budget, sending, sent>>

SendHandsOver ==
    /\ pc = "send" /\ txd.own = "host"
    /\ txd' = [own |-> "card", frame |-> sending.frame, error |-> FALSE]
    /\ aired' = {}
    /\ pc' = "wait"
    /\ UNCHANGED <<ringVars, rxd, fetched, frame, budget, sending, sent>>

SendCompletes ==
    /\ pc = "wait" /\ txd.own = "host"
    /\ Return(~txd.error)
    /\ UNCHANGED aired

(* The poll limit runs out while the card still owns the descriptor: the   *)
(* caller is told false and the frame may still go out later.              *)
SendTimesOut ==
    /\ pc = "wait" /\ txd.own = "card"
    /\ Return(FALSE)
    /\ UNCHANGED aired
-----------------------------------------------------------------------------
TransportPolls ==
    /\ pc = "idle"
    /\ net_poll_ipv4_packet
    /\ UNCHANGED <<cardVars, threadVars>>

ServiceStep == ServiceEnds \/ CopyFrame \/ Rearm
                 \/ ProcessIpv4 \/ ProcessArp \/ ProcessOther
SendStep == SendRefused \/ SendHandsOver \/ SendCompletes \/ SendTimesOut

Next == Card \/ net_service \/ ServiceStep \/ SendStep \/ TransportPolls
          \/ \E f \in Frame : SendCall(f)

(* The kernel thread never stops between two steps of a call (weak         *)
(* fairness), and gui_run_desktop calls net_service on every pass, whatever *)
(* else the pass does between two idle points (strong fairness).  Nothing  *)
(* is assumed of the card.                                                 *)
Spec == Init /\ [][Next]_vars
          /\ WF_vars(ServiceStep) /\ WF_vars(SendStep)
          /\ SF_vars(net_service)
-----------------------------------------------------------------------------
One(f) == IF f # NoFrame /\ Kind[f] = "ipv4" THEN <<f>> ELSE << >>

(* The packets between the wire and the caller, in order of arrival: the   *)
(* ring, then net_service's copy, then the frame in the receive buffer.    *)
(* While pc is "rearm" the copy and the buffer hold the same frame.        *)
InTransit ==
    RingSeq \o One(frame)
            \o (IF rxd.own = "host" /\ pc # "rearm" THEN One(rxd.frame) ELSE << >>)

Channel == INSTANCE LossyChannel
               WITH Capacity <- QueueSize, waiting <- InTransit, taken <- polled

(* From the wire to net_poll_ipv4_packet no packet is duplicated or        *)
(* reordered, and once the card has accepted one it is lost only when the  *)
(* ring is full, whatever the card does between two accesses of the driver *)
(* (pcnet.c:398-427, net.c:271-287, 448-455, 534-542).                     *)
PathIsLossyChannel == Channel!Spec

(* pcnet_send returns true only for a frame the card has put on the wire   *)
(* in that call, even after an earlier call timed out and left its frame   *)
(* with the card (pcnet.c:367-386).                                        *)
TrueMeansAired ==
    [][(SendRefused \/ SendCompletes \/ SendTimesOut) /\ sent'.ok
           => aired = {sent'.frame}]_vars

(* However fast frames arrive, net_service returns to the main loop: the   *)
(* budget bounds it (net.c:448).                                           *)
ServiceReturns == (pc = "poll") ~> (pc = "idle")

(* A descriptor the card has filled goes back to it, errored frames        *)
(* included, so reception never stops (pcnet.c:421-424).                   *)
DescriptorReturns == (rxd.own = "host") ~> (rxd.own = "card")
=============================================================================
