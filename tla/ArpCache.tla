------------------------------ MODULE ArpCache ------------------------------
(***************************************************************************)
(* Address resolution (kernel/net.c): the table that net_store_arp_entry   *)
(* fills from every ARP packet and every accepted IPv4 packet, and         *)
(* net_arp_resolve, which asks for the next hop and serves the network     *)
(* until the answer is in the table.                                       *)
(***************************************************************************)
EXTENDS Integers, FiniteSets, Sequences

CONSTANTS IP, MAC,
          NoIP, NoMac,      \* the all-zero addresses of an entry never used
          OwnIP, OwnMac,    \* what net_configure_ipv4_static stores first
          Gateway,          \* g_net.gateway
          OnSubnet,         \* the addresses net_ipv4_same_subnet accepts
          CacheSize,        \* NET_ARP_CACHE_SIZE
          RxBudget,         \* frames one net_service call handles at most
          MaxSpins,         \* NET_ARP_WAIT_SPINS
          MaxAge            \* bound on arp_age_counter; it has not wrapped yet

ASSUME SizeAssumption == CacheSize \in Nat \ {0}
ASSUME BoundAssumption == RxBudget \in Nat /\ MaxSpins \in Nat \ {0} /\ MaxAge \in Nat
ASSUME AddressAssumption == /\ NoIP \notin IP /\ NoMac \notin MAC
                            /\ OwnIP \in IP /\ OwnMac \in MAC
                            /\ Gateway \in IP /\ OnSubnet \subseteq IP

VARIABLES cache,        \* g_net.arp_cache
          age,          \* g_net.arp_age_counter
          answer,       \* out_mac of the last lookup, NoMac when it missed
          pc,           \* "boot" until configured, "idle", or inside net_arp_resolve
          hop,          \* next_hop of the running resolve
          served,       \* frames handled by the running net_service call
          spin,         \* turns of the wait loop so far
          after         \* addresses stored since the hop was, in this wait

vars == <<cache, age, answer, pc, hop, served, spin, after>>

Slot == 1 .. CacheSize
Entry == [valid : BOOLEAN, ip : IP \cup {NoIP}, mac : MAC \cup {NoMac}, age : 0 .. MaxAge]
NotYet == {NoIP}        \* value of after while the hop has not been heard

Valid == {i \in Slot : cache[i].valid}
Holding(ip) == {i \in Valid : cache[i].ip = ip}

TypeOK == /\ cache \in [Slot -> Entry]
          /\ \A i \in Valid : cache[i].ip \in IP /\ cache[i].mac \in MAC
          /\ age \in 0 .. MaxAge
          /\ \A i \in Slot : cache[i].age <= age
          /\ answer \in MAC \cup {NoMac}
          /\ pc \in {"boot", "idle", "serve", "look"}
          /\ hop \in IP \cup {NoIP}
          /\ served \in 0 .. RxBudget
          /\ spin \in 0 .. MaxSpins
          /\ after \in (SUBSET IP) \cup {NotYet}

Empty == [valid |-> FALSE, ip |-> NoIP, mac |-> NoMac, age |-> 0]

Init == /\ cache = [i \in Slot |-> Empty]
        /\ age = 0
        /\ answer = NoMac
        /\ pc = "boot"
        /\ hop = NoIP
        /\ served = 0
        /\ spin = 0
        /\ after = NotYet
-----------------------------------------------------------------------------
(* Slips in the choice of the slot, for the mutation checks: the first     *)
(* free slot wins over the entry that already holds the address, or the    *)
(* victim is the youngest entry.                                           *)
Place_free_first(ip) ==
    IF Valid # Slot THEN {i \in Slot \ Valid : \A j \in Slot \ Valid : i <= j}
    ELSE IF Holding(ip) # {} THEN Holding(ip)
    ELSE {i \in Slot : \A j \in Slot : cache[i].age <= cache[j].age}

Place_youngest(ip) ==
    IF Holding(ip) # {} THEN Holding(ip)
    ELSE IF Valid # Slot THEN {i \in Slot \ Valid : \A j \in Slot \ Valid : i <= j}
    ELSE {i \in Slot : \A j \in Slot : cache[i].age >= cache[j].age}

(* Slips: a lookup does not count as use, or does not advance the counter. *)
Touch_not(i) == UNCHANGED <<cache, age>>

Touch_counter_stuck(i) == /\ age < MaxAge
                          /\ cache' = [cache EXCEPT ![i].age = age + 1]
                          /\ UNCHANGED age
-----------------------------------------------------------------------------
(* Where net_store_arp_entry writes: the entry of that address, else the   *)
(* first free slot, else the entry with the smallest stamp.                *)
Place(ip) ==
    IF Holding(ip) # {} THEN Holding(ip)
    ELSE IF Valid # Slot THEN {i \in Slot \ Valid : \A j \in Slot \ Valid : i <= j}
    ELSE {i \in Slot : \A j \in Slot : cache[i].age <= cache[j].age}

net_store_arp_entry(ip, mac) ==
    /\ age < MaxAge
    /\ age' = age + 1
    /\ \E i \in Place(ip) :
           cache' = [cache EXCEPT ![i] = [valid |-> TRUE, ip |-> ip,
                                          mac |-> mac, age |-> age + 1]]

Touch(i) == /\ age < MaxAge
            /\ age' = age + 1
            /\ cache' = [cache EXCEPT ![i].age = age + 1]

Hit(ip) == \E i \in Holding(ip) : Touch(i) /\ answer' = cache[i].mac

Miss(ip) == /\ Holding(ip) = {}
            /\ answer' = NoMac
            /\ UNCHANGED <<cache, age>>

(* An address off the subnet is reached through the gateway. *)
NextHop(dst) == IF dst \in OnSubnet THEN dst ELSE Gateway

EndResolve == /\ pc' = "idle"
              /\ hop' = NoIP
              /\ spin' = 0
              /\ after' = NotYet
-----------------------------------------------------------------------------
net_configure_ipv4_static ==
    /\ pc = "boot"
    /\ net_store_arp_entry(OwnIP, OwnMac)
    /\ pc' = "idle"
    /\ UNCHANGED <<answer, hop, served, spin, after>>

(* A frame handled outside net_arp_resolve.  ARP packets are stored even   *)
(* before the host has an address.                                         *)
Hear(ip, mac) ==
    /\ pc \in {"boot", "idle"}
    /\ net_store_arp_entry(ip, mac)
    /\ UNCHANGED <<answer, pc, hop, served, spin, after>>

ResolveHit(dst) ==
    /\ pc = "idle"
    /\ Hit(NextHop(dst))
    /\ UNCHANGED <<pc, hop, served, spin, after>>

(* The request could not be sent: pcnet_send returned false. *)
ResolveUnsent(dst) ==
    /\ pc = "idle"
    /\ Miss(NextHop(dst))
    /\ UNCHANGED <<pc, hop, served, spin, after>>

ResolveAsks(dst) ==
    /\ pc = "idle"
    /\ Miss(NextHop(dst))
    /\ pc' = "serve"
    /\ hop' = NextHop(dst)
    /\ served' = 0
    /\ UNCHANGED <<spin, after>>

(* net_service inside the wait loop handles a frame of any host. *)
Serve(ip, mac) ==
    /\ pc = "serve" /\ served < RxBudget
    /\ net_store_arp_entry(ip, mac)
    /\ served' = served + 1
    /\ after' = IF ip = hop THEN {}
                ELSE IF after = NotYet THEN NotYet ELSE after \cup {ip}
    /\ UNCHANGED <<answer, pc, hop, spin>>

ServeEnds ==
    /\ pc = "serve"
    /\ pc' = "look"
    /\ UNCHANGED <<cache, age, answer, hop, served, spin, after>>

LookHit == /\ pc = "look"
           /\ Hit(hop)
           /\ EndResolve
           /\ served' = 0

LookAgain == /\ pc = "look" /\ spin + 1 < MaxSpins
             /\ Miss(hop)
             /\ spin' = spin + 1
             /\ pc' = "serve"
             /\ served' = 0
             /\ UNCHANGED <<hop, after>>

GiveUp == /\ pc = "look" /\ spin + 1 >= MaxSpins
          /\ Miss(hop)
          /\ EndResolve
          /\ served' = 0

Next == \/ \E dst \in IP : ResolveHit(dst) \/ ResolveUnsent(dst) \/ ResolveAsks(dst)
        \/ \E ip \in IP, mac \in MAC : Hear(ip, mac) \/ Serve(ip, mac)
        \/ net_configure_ipv4_static \/ ServeEnds \/ LookHit \/ LookAgain \/ GiveUp

Spec == Init /\ [][Next]_vars
-----------------------------------------------------------------------------
(* No address has two entries, so an update never leaves a stale twin that *)
(* a later lookup could find first; and the stamps order the entries       *)
(* totally, so the victim is determined (net.c:152-173).                   *)
OneEntryPerAddress ==
    \A i, j \in Valid : i # j => /\ cache[i].ip # cache[j].ip
                                 /\ cache[i].age # cache[j].age

(* The entry with n - 1 entries used longer ago. *)
UsedNth(n) == CHOOSE i \in Valid :
                  Cardinality({j \in Valid : cache[j].age < cache[i].age}) = n - 1

InOrderOfUse == [n \in 1 .. Cardinality(Valid) |->
                    [ip |-> cache[UsedNth(n)].ip, mac |-> cache[UsedNth(n)].mac]]

Lru == INSTANCE LruCache
           WITH Key <- IP, Value <- MAC, Capacity <- CacheSize, None <- NoMac,
                entries <- InOrderOfUse, answer <- answer

(* The table with its stamps is a least-recently-used cache holding for    *)
(* each address the binding heard last (net.c:152-191).                    *)
TableIsLru == Lru!Spec

(* A resolve that heard its next hop while waiting still misses it only    *)
(* when at least CacheSize other addresses were stored after it before the *)
(* lookup came; RxBudget frames may be handled in between                  *)
(* (net.c:485-491, 448).                                                   *)
MissMeansDisplaced ==
    [][LookAgain \/ GiveUp => \/ after = NotYet
                              \/ Cardinality(after) >= CacheSize]_vars
=============================================================================
