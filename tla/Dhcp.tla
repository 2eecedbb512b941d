-------------------------------- MODULE Dhcp --------------------------------
(***************************************************************************)
(* The network at boot: net_dhcp_negotiate asks for an address, waits five *)
(* seconds for an offer and again for its confirmation, and kernel_main    *)
(* falls back to a static address. A message that is not for this host, of *)
(* another transaction or without good options is a stray one. The server  *)
(* and the network may be silent, late and out of order.                   *)
(***************************************************************************)
EXTENDS UdpQueue

CONSTANTS Offer, Ack,     \* the answers to DISCOVER and to REQUEST
          ClientPort      \* NET_DHCP_CLIENT_PORT

(* The datagrams here are all for one port; DnsResolver has several.       *)
AllToClient == [d \in Datagram |-> ClientPort]

VARIABLES pc,          \* where kernel_main and net_dhcp_negotiate are
          wire,        \* frames on their way to this host
          configured,  \* g_net.ipv4_configured
          heard        \* history: frames the driver took while they were waited for

dhcpVars == <<pc, wire, configured, heard>>
vars == <<queueVars, dhcpVars>>

Awaited == IF pc = "offer" THEN Offer ELSE Ack

Init ==
    /\ QueueInit
    /\ pc = "discover" /\ wire = {} /\ configured = FALSE /\ heard = {}

(* transport_send_dhcp_message, which needs no address; what the server    *)
(* makes of it is on the wire sooner or later.                             *)
Sends(message, next) ==
    /\ pc = message
    /\ pc' \in {next, "fallback"}
    /\ UNCHANGED <<queueVars, wire, configured, heard>>

ServerAnswers ==
    /\ \/ pc = "offer" /\ wire' = wire \cup {Offer}
       \/ pc = "ack" /\ wire' = wire \cup {Ack}
    /\ UNCHANGED <<queueVars, pc, configured, heard>>

StrayComes(d) ==
    /\ d \in Datagram \ {Offer, Ack}
    /\ wire' = wire \cup {d}
    /\ UNCHANGED <<queueVars, pc, configured, heard>>

(* net_handle_ipv4 and net_transport_service: without an address every     *)
(* packet is dropped, whatever it carries.                                 *)
Handles(d) == IF configured THEN transport_handle_udp_packet(d) ELSE UNCHANGED queueVars

Waiting == pc \in {"offer", "ack"}

(* transport_wait_iteration during a wait, or the desktop loop after it.   *)
Serve ==
    \E d \in wire :
        /\ Handles(d)
        /\ wire' = wire \ {d}
        /\ heard' = IF Waiting THEN heard \cup {d} ELSE heard
        /\ UNCHANGED <<pc, configured>>

(* The rest of transport_wait_for_dhcp_message: a datagram for the port is *)
(* taken, and it is the awaited one or dropped;                            *)
PollTakes ==
    /\ Waiting
    /\ net_udp_poll(ClientPort)
    /\ pc' = CASE taken'.got = Awaited /\ pc = "offer" -> "request"
               [] taken'.got = Awaited /\ pc = "ack" -> "lease"
               [] OTHER -> pc
    /\ UNCHANGED <<wire, configured, heard>>

(* once there is none the clock is looked at.                              *)
TimesOut ==
    /\ Waiting /\ Found(ClientPort) = {}
    /\ pc' = IF pc = "offer" THEN "offerTimedOut" ELSE "ackTimedOut"
    /\ UNCHANGED <<queueVars, wire, configured, heard>>

(* net_configure_ipv4_static with the leased or with the default address.  *)
Configure ==
    /\ pc \in {"lease", "fallback", "offerTimedOut", "ackTimedOut"} /\ ~configured
    /\ configured' = TRUE
    /\ UNCHANGED <<queueVars, pc, wire, heard>>

Next ==
    \/ Sends("discover", "offer") \/ Sends("request", "ack")
    \/ ServerAnswers \/ (\E d \in Datagram : StrayComes(d)) \/ Serve
    \/ PollTakes \/ TimesOut \/ Configure

Spec == Init /\ [][Next]_vars

-----------------------------------------------------------------------------
(* "[net] dhcp offer timed out" (transport.c:805), "[net] dhcp ack timed   *)
(* out" (transport.c:823): a wait that ends so has not been answered.      *)
TimedOutMeansUnanswered ==
    /\ pc = "offerTimedOut" => Offer \notin heard
    /\ pc = "ackTimedOut" => Ack \notin heard
=============================================================================
