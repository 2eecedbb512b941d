--------------------------- MODULE ArpCacheProofs ---------------------------
(***************************************************************************)
(* For any table size, any addresses and any bounds: the resolution table  *)
(* never holds an address twice and its stamps are distinct, a resolve     *)
(* misses an answer it has heard only when that many others displaced it,  *)
(* and with its stamps the table is a least-recently-used cache.           *)
(***************************************************************************)
EXTENDS ArpCache, FiniteSetTheorems, SequenceTheorems, TLAPS

TableOK == /\ cache \in [Slot -> Entry]
           /\ \A i \in Valid : cache[i].ip \in IP /\ cache[i].mac \in MAC
           /\ age \in 0 .. MaxAge
           /\ \A i \in Slot : cache[i].age <= age

ResolveOK == /\ answer \in MAC \cup {NoMac}
             /\ pc \in {"boot", "idle", "serve", "look"}
             /\ hop \in IP \cup {NoIP}
             /\ served \in 0 .. RxBudget
             /\ spin \in 0 .. MaxSpins
             /\ after \in (SUBSET IP) \cup {NotYet}

(* The entry is written where the address already is, or nowhere else is   *)
(* it: the one fact that keeps the addresses distinct.                     *)
LEMMA PlaceKeepsDistinct ==
    ASSUME NEW ip, NEW i \in Place(ip), OneEntryPerAddress
    PROVE  i \in Slot /\ \A j \in Valid \ {i} : cache[j].ip # ip
<1>1. CASE Holding(ip) # {}
  BY <1>1 DEF Place, Holding, Valid, OneEntryPerAddress
<1>2. CASE Holding(ip) = {}
  BY <1>2 DEF Place, Holding, Valid
<1>3. QED
  BY <1>1, <1>2

LEMMA StoreStep ==
    ASSUME TableOK, OneEntryPerAddress, NEW ip \in IP, NEW mac \in MAC,
           net_store_arp_entry(ip, mac)
    PROVE  TableOK' /\ OneEntryPerAddress'
<1>1. PICK i \in Place(ip) :
          cache' = [cache EXCEPT ![i] = [valid |-> TRUE, ip |-> ip,
                                         mac |-> mac, age |-> age + 1]]
  BY DEF net_store_arp_entry
<1>2. i \in Slot /\ \A j \in Valid \ {i} : cache[j].ip # ip
  BY PlaceKeepsDistinct
<1>3. age < MaxAge /\ age' = age + 1 /\ age' \in 0 .. MaxAge
  BY BoundAssumption DEF net_store_arp_entry, TableOK
<1>4. /\ cache'[i] = [valid |-> TRUE, ip |-> ip, mac |-> mac, age |-> age + 1]
      /\ \A j \in Slot \ {i} : cache'[j] = cache[j]
      /\ Valid' = Valid \cup {i}
  BY <1>1, <1>2 DEF TableOK, Valid
<1>5. TableOK'
  <2>1. cache' \in [Slot -> Entry]
    BY <1>1, <1>2, <1>3 DEF TableOK, Entry
  <2>2. \A j \in Valid' : cache'[j].ip \in IP /\ cache'[j].mac \in MAC
    BY <1>4 DEF TableOK, Valid
  <2>3. \A j \in Slot : cache'[j].age <= age'
    <3>1. \A j \in Slot : cache[j].age \in 0 .. MaxAge
      BY DEF TableOK, Entry
    <3>2. QED
      BY <1>3, <1>4, <3>1 DEF TableOK
  <2>4. QED
    BY <1>3, <2>1, <2>2, <2>3 DEF TableOK
<1>6. OneEntryPerAddress'
  <2>1. \A j \in Valid \ {i} : cache[j].age # age + 1
    <3>1. \A j \in Slot : cache[j].age \in Int /\ cache[j].age <= age
      BY DEF TableOK, Entry
    <3>2. QED
      BY <3>1 DEF TableOK, Valid
  <2>2. QED
    BY <1>2, <1>4, <2>1 DEF OneEntryPerAddress, Valid
<1>7. QED
  BY <1>5, <1>6

LEMMA TouchStep ==
    ASSUME TableOK, OneEntryPerAddress, NEW i \in Valid, Touch(i)
    PROVE  TableOK' /\ OneEntryPerAddress'
<1>1. /\ age < MaxAge /\ age' = age + 1 /\ age' \in 0 .. MaxAge
      /\ cache' = [cache EXCEPT ![i].age = age + 1]
      /\ i \in Slot
  BY BoundAssumption DEF Touch, TableOK, Valid
<1>2. /\ cache'[i] = [cache[i] EXCEPT !.age = age + 1]
      /\ \A j \in Slot \ {i} : cache'[j] = cache[j]
  BY <1>1 DEF TableOK
<1>3. /\ cache[i] \in Entry
      /\ \A j \in Slot : cache[j].age \in Int /\ cache[j].age <= age
  BY <1>1 DEF TableOK, Entry
<1>4. /\ cache'[i] \in Entry /\ cache'[i].age = age + 1
      /\ cache'[i].ip = cache[i].ip /\ cache'[i].mac = cache[i].mac
      /\ cache'[i].valid = cache[i].valid
  BY <1>1, <1>2, <1>3 DEF Entry
<1>5. Valid' = Valid
  BY <1>2, <1>4 DEF Valid
<1>6. TableOK'
  <2>1. cache' \in [Slot -> Entry]
    BY <1>1, <1>2, <1>4 DEF TableOK
  <2>2. \A j \in Valid' : cache'[j].ip \in IP /\ cache'[j].mac \in MAC
    BY <1>2, <1>4, <1>5 DEF TableOK, Valid
  <2>3. \A j \in Slot : cache'[j].age <= age'
    BY <1>1, <1>2, <1>3, <1>4 DEF TableOK
  <2>4. QED
    BY <1>1, <2>1, <2>2, <2>3 DEF TableOK
<1>7. OneEntryPerAddress'
  <2>1. \A j \in Valid \ {i} : cache[j].age # age + 1
    BY <1>3 DEF TableOK, Valid
  <2>2. \A j \in Valid : /\ cache'[j].ip = cache[j].ip
                          /\ cache'[j].age = IF j = i THEN age + 1 ELSE cache[j].age
    BY <1>2, <1>4 DEF Valid
  <2>3. QED
    BY <1>5, <2>1, <2>2 DEF OneEntryPerAddress
<1>8. QED
  BY <1>6, <1>7

LEMMA HitStep ==
    ASSUME TableOK, OneEntryPerAddress, NEW ip, Hit(ip)
    PROVE  TableOK' /\ OneEntryPerAddress' /\ answer' \in MAC
<1>1. PICK i \in Holding(ip) : Touch(i) /\ answer' = cache[i].mac
  BY DEF Hit
<1>2. i \in Valid
  BY DEF Holding
<1>3. QED
  BY <1>1, <1>2, TouchStep DEF TableOK

LEMMA TableUnchanged ==
    ASSUME TableOK, OneEntryPerAddress, UNCHANGED <<cache, age>>
    PROVE  TableOK' /\ OneEntryPerAddress'
BY DEF TableOK, OneEntryPerAddress, Valid, Slot, Entry

-----------------------------------------------------------------------------
(* Every entry, stamp and cursor keeps its type, and no address has two    *)
(* entries, so that an update always reaches the entry a lookup will find  *)
(* (net.c:152-173, 181-188).                                               *)
THEOREM ArpTableCorrect == Spec => [](TypeOK /\ OneEntryPerAddress)
<1> DEFINE Inv == TypeOK /\ OneEntryPerAddress
<1>0. TypeOK <=> TableOK /\ ResolveOK
  BY DEF TypeOK, TableOK, ResolveOK
<1>1. Init => Inv
  <2> SUFFICES ASSUME Init PROVE Inv
    OBVIOUS
  <2>1. Valid = {}
    BY DEF Init, Valid, Empty
  <2>2. cache \in [Slot -> Entry] /\ age \in 0 .. MaxAge
    BY BoundAssumption DEF Init, Entry, Empty
  <2>3. \A i \in Slot : cache[i].age <= age
    BY DEF Init, Empty
  <2>4. ResolveOK
    BY BoundAssumption DEF Init, ResolveOK
  <2>5. QED
    BY <1>0, <2>1, <2>2, <2>3, <2>4 DEF TableOK, OneEntryPerAddress
<1>2. Inv /\ [Next]_vars => Inv'
  <2> SUFFICES ASSUME TableOK, ResolveOK, OneEntryPerAddress, [Next]_vars
               PROVE  TableOK' /\ ResolveOK' /\ OneEntryPerAddress'
    BY <1>0 DEF TypeOK, TableOK, ResolveOK
  <2>1. CASE net_configure_ipv4_static
    BY <2>1, StoreStep, AddressAssumption DEF net_configure_ipv4_static, ResolveOK
  <2>2. ASSUME NEW ip \in IP, NEW mac \in MAC, Hear(ip, mac)
        PROVE  TableOK' /\ ResolveOK' /\ OneEntryPerAddress'
    BY <2>2, StoreStep DEF Hear, ResolveOK
  <2>3. ASSUME NEW ip \in IP, NEW mac \in MAC, Serve(ip, mac)
        PROVE  TableOK' /\ ResolveOK' /\ OneEntryPerAddress'
    <3>1. TableOK' /\ OneEntryPerAddress'
      BY <2>3, StoreStep DEF Serve
    <3>2. served' \in 0 .. RxBudget
      BY <2>3, BoundAssumption DEF Serve, ResolveOK
    <3>3. after' \in (SUBSET IP) \cup {NotYet}
      BY <2>3 DEF Serve, ResolveOK
    <3>4. QED
      BY <2>3, <3>1, <3>2, <3>3 DEF Serve, ResolveOK
  <2>4. ASSUME NEW dst \in IP, ResolveHit(dst)
        PROVE  TableOK' /\ ResolveOK' /\ OneEntryPerAddress'
    BY <2>4, HitStep DEF ResolveHit, ResolveOK
  <2>5. ASSUME NEW dst \in IP, ResolveUnsent(dst)
        PROVE  TableOK' /\ ResolveOK' /\ OneEntryPerAddress'
    BY <2>5, TableUnchanged DEF ResolveUnsent, Miss, ResolveOK
  <2>6. ASSUME NEW dst \in IP, ResolveAsks(dst)
        PROVE  TableOK' /\ ResolveOK' /\ OneEntryPerAddress'
    <3>1. NextHop(dst) \in IP
      BY AddressAssumption DEF NextHop
    <3>2. QED
      BY <2>6, <3>1, TableUnchanged, BoundAssumption DEF ResolveAsks, Miss, ResolveOK
  <2>7. CASE ServeEnds
    BY <2>7, TableUnchanged DEF ServeEnds, ResolveOK
  <2>8. CASE LookHit
    BY <2>8, HitStep, BoundAssumption DEF LookHit, EndResolve, ResolveOK
  <2>9. CASE LookAgain
    BY <2>9, TableUnchanged, BoundAssumption DEF LookAgain, Miss, ResolveOK
  <2>10. CASE GiveUp
    BY <2>10, TableUnchanged, BoundAssumption DEF GiveUp, Miss, EndResolve, ResolveOK
  <2>11. CASE UNCHANGED vars
    BY <2>11, TableUnchanged DEF vars, ResolveOK
  <2>12. QED
    BY <2>1, <2>2, <2>3, <2>4, <2>5, <2>6, <2>7, <2>8, <2>9, <2>10, <2>11 DEF Next
<1>3. QED
  BY <1>1, <1>2, PTL DEF Spec

-----------------------------------------------------------------------------
(* The next hop, once heard, is in the table and whatever was used after   *)
(* it was stored after it; or it is gone, and enough was.                  *)
HopInv ==
    /\ after # NotYet => /\ pc \in {"serve", "look"}
                         /\ after \subseteq IP /\ IsFiniteSet(after)
    /\ after # NotYet => \A i \in Holding(hop) : \A j \in Valid :
                             cache[j].age > cache[i].age => cache[j].ip \in after
    /\ after # NotYet /\ Holding(hop) = {} => Cardinality(after) >= CacheSize

LEMMA Displaced ==
    ASSUME NEW f \in Injection(Slot, IP), NEW S, S \subseteq IP, IsFiniteSet(S),
           \A i \in Slot : f[i] \in S
    PROVE  Cardinality(S) >= CacheSize
<1>1. f \in Injection(Slot, S)
  BY DEF Injection, IsInjective
<1>2. IsFiniteSet(Slot) /\ Cardinality(Slot) = CacheSize
  BY FS_Interval, SizeAssumption DEF Slot
<1>3. Cardinality(Slot) <= Cardinality(S) /\ Cardinality(S) \in Nat
  BY <1>1, FS_Injection, FS_CardinalityType
<1>4. QED
  BY <1>2, <1>3, SizeAssumption

(* A frame stored in the wait loop.                                        *)
LEMMA ServeKeepsHop ==
    ASSUME TableOK, OneEntryPerAddress, HopInv, hop \in IP \cup {NoIP},
           NEW ip \in IP, NEW mac \in MAC, Serve(ip, mac)
    PROVE  HopInv'
<1>1. PICK i \in Place(ip) :
          cache' = [cache EXCEPT ![i] = [valid |-> TRUE, ip |-> ip,
                                         mac |-> mac, age |-> age + 1]]
  BY DEF Serve, net_store_arp_entry
<1>2. /\ i \in Slot /\ \A j \in Valid \ {i} : cache[j].ip # ip
      /\ pc = "serve" /\ pc' = pc /\ hop' = hop
      /\ after' = IF ip = hop THEN {}
                  ELSE IF after = NotYet THEN NotYet ELSE after \cup {ip}
  BY PlaceKeepsDistinct DEF Serve
<1>3. /\ cache'[i].valid /\ cache'[i].ip = ip /\ cache'[i].age = age + 1
      /\ \A j \in Slot \ {i} : cache'[j] = cache[j]
      /\ Valid' = Valid \cup {i}
  BY <1>1, <1>2 DEF TableOK, Valid
<1>4. \A j \in Slot : cache[j].age \in Int /\ cache[j].age <= age
  BY DEF TableOK, Entry
<1>5. age \in Int /\ Valid \subseteq Slot
  BY DEF TableOK, Valid
<1>6. \A a : Holding(a)' = {j \in Valid' : cache'[j].ip = a}
  BY DEF Holding, Valid
<1>7. CASE ip = hop
  <2>1. after' = {} /\ after' # NotYet
    BY <1>2, <1>7 DEF NotYet
  <2>2. Holding(hop)' = {i}
    BY <1>2, <1>3, <1>5, <1>6, <1>7
  <2>3. \A j \in Valid' : ~(cache'[j].age > cache'[i].age)
    BY <1>3, <1>4, <1>5
  <2>4. QED
    BY <1>2, <2>1, <2>2, <2>3, FS_EmptySet DEF HopInv
<1>8. CASE ip # hop /\ after = NotYet
  BY <1>2, <1>8 DEF HopInv
<1>9. CASE ip # hop /\ after # NotYet
  <2>1. after' = after \cup {ip} /\ after' \subseteq IP /\ IsFiniteSet(after')
        /\ Cardinality(after') >= Cardinality(after) /\ after' # NotYet
    <3>1. after' = after \cup {ip} /\ IsFiniteSet(after) /\ after \subseteq IP
      BY <1>2, <1>9 DEF HopInv
    <3>2. /\ IsFiniteSet(after \cup {ip})
          /\ Cardinality(after \cup {ip}) \in {Cardinality(after), Cardinality(after) + 1}
          /\ Cardinality(after) \in Nat
      BY <3>1, FS_AddElement, FS_CardinalityType
    <3>3. QED
      BY <3>1, <3>2, AddressAssumption DEF NotYet
  <2>2. CASE Holding(hop) = {}
    <3>1. Holding(hop)' = {}
      BY <1>2, <1>3, <1>5, <1>6, <1>9, <2>2 DEF Holding
    <3>2. Cardinality(after') >= CacheSize
      <4>1. Cardinality(after) >= CacheSize /\ IsFiniteSet(after)
        BY <1>9, <2>2 DEF HopInv
      <4>2. Cardinality(after) \in Nat /\ Cardinality(after') \in Nat
        BY <2>1, <4>1, FS_CardinalityType
      <4>3. QED
        BY <2>1, <4>1, <4>2, SizeAssumption
    <3>3. QED
      BY <1>2, <2>1, <3>1, <3>2 DEF HopInv
  <2>3. CASE Holding(hop) # {}
    <3>1. PICK h \in Holding(hop) : TRUE
      BY <2>3
    <3>2. h \in Valid /\ cache[h].ip = hop /\ h \in Slot
      BY <3>1 DEF Holding, Valid
    <3>3. \A j \in Valid : cache[j].age > cache[h].age => cache[j].ip \in after
      BY <1>9, <3>1 DEF HopInv
    <3>4. CASE i # h
      <4>1. Holding(hop)' = {h}
        BY <1>2, <1>3, <1>5, <1>6, <1>9, <3>2, <3>4 DEF OneEntryPerAddress
      <4>2. ASSUME NEW j \in Valid', cache'[j].age > cache'[h].age
            PROVE  cache'[j].ip \in after'
        <5>1. CASE j = i
          BY <1>3, <2>1, <5>1
        <5>2. CASE j # i
          BY <1>3, <1>5, <2>1, <3>2, <3>3, <3>4, <4>2, <5>2
        <5>3. QED
          BY <5>1, <5>2
      <4>3. QED
        BY <1>2, <2>1, <4>1, <4>2 DEF HopInv
    <3>5. CASE i = h
      <4>1. /\ Holding(ip) = {} /\ Valid = Slot
            /\ \A j \in Slot : cache[h].age <= cache[j].age
        BY <1>2, <1>9, <3>2, <3>5 DEF Place, Holding
      <4>2. \A j \in Slot \ {h} : cache[j].ip \in after
        <5>1. \A j \in Slot \ {h} : cache[j].age # cache[h].age
          BY <3>2, <4>1 DEF OneEntryPerAddress
        <5>2. QED
          BY <1>4, <3>2, <3>3, <4>1, <5>1
      <4> DEFINE f == [j \in Slot |-> IF j = h THEN ip ELSE cache[j].ip]
      <4>3. \A j \in Slot : f[j] \in after'
        BY <2>1, <4>2
      <4>4. f \in Injection(Slot, IP)
        <5>1. f \in [Slot -> IP]
          BY <4>1 DEF TableOK
        <5>2. \A j, k \in Slot : f[j] = f[k] => j = k
          BY <1>2, <3>5, <4>1 DEF OneEntryPerAddress
        <5>3. QED
          BY <5>1, <5>2 DEF Injection, IsInjective
      <4>5. Cardinality(after') >= CacheSize
        BY <2>1, <4>3, <4>4, Displaced
      <4>6. Holding(hop)' = {}
        BY <1>2, <1>3, <1>6, <1>9, <3>2, <3>5, <4>1 DEF OneEntryPerAddress
      <4>7. QED
        BY <1>2, <2>1, <4>5, <4>6 DEF HopInv
    <3>6. QED
      BY <3>4, <3>5
  <2>4. QED
    BY <2>2, <2>3
<1>10. QED
  BY <1>7, <1>8, <1>9

LEMMA HopStep ==
    ASSUME TableOK, OneEntryPerAddress, ResolveOK, HopInv, [Next]_vars
    PROVE  HopInv'
<1>1. ASSUME NEW ip \in IP, NEW mac \in MAC, Serve(ip, mac)
      PROVE  HopInv'
  BY <1>1, ServeKeepsHop DEF ResolveOK
<1>2. ASSUME UNCHANGED <<cache, hop, after>>, pc \in {"serve", "look"} => pc' \in {"serve", "look"}
      PROVE  HopInv'
  BY <1>2 DEF HopInv, Holding, Valid
<1>3. ASSUME after' = NotYet
      PROVE  HopInv'
  BY <1>3 DEF HopInv
<1>4. pc \in {"boot", "idle"} => after = NotYet
  BY DEF HopInv
<1>5. CASE net_configure_ipv4_static \/ \E ip \in IP, mac \in MAC : Hear(ip, mac)
  BY <1>3, <1>4, <1>5 DEF net_configure_ipv4_static, Hear
<1>6. CASE \E dst \in IP : ResolveHit(dst) \/ ResolveUnsent(dst) \/ ResolveAsks(dst)
  BY <1>3, <1>4, <1>6 DEF ResolveHit, ResolveUnsent, ResolveAsks
<1>7. CASE LookHit \/ GiveUp
  BY <1>3, <1>7 DEF LookHit, GiveUp, EndResolve
<1>8. CASE ServeEnds \/ LookAgain \/ UNCHANGED vars
  BY <1>2, <1>8 DEF ServeEnds, LookAgain, Miss, vars
<1>9. QED
  BY <1>1, <1>5, <1>6, <1>7, <1>8 DEF Next

(* Whatever else is stored in the same wait, an answer that was heard is   *)
(* missed only after CacheSize other addresses (net.c:448, 485-491).       *)
THEOREM MissIsDisplacement == Spec => MissMeansDisplaced
<1> DEFINE Missed == LookAgain \/ GiveUp => \/ after = NotYet
                                            \/ Cardinality(after) >= CacheSize
<1>1. Init => HopInv
  BY DEF Init, HopInv
<1>2. TypeOK /\ OneEntryPerAddress /\ HopInv /\ [Next]_vars => HopInv'
  BY HopStep DEF TypeOK, TableOK, ResolveOK
<1>3. HopInv /\ [Next]_vars => [Missed]_vars
  BY DEF HopInv, LookAgain, GiveUp, Miss
<1>4. QED
  BY <1>1, <1>2, <1>3, ArpTableCorrect, PTL DEF Spec, MissMeansDisplaced

-----------------------------------------------------------------------------
(* The order of use, for any table c: the rank of an entry is one more     *)
(* than the number of entries with a smaller stamp.                        *)
ValidIn(c) == {i \in Slot : c[i].valid}
Older(c, i) == {j \in ValidIn(c) : c[j].age < c[i].age}
Rank(c, i) == Cardinality(Older(c, i)) + 1
Row(c, i) == [ip |-> c[i].ip, mac |-> c[i].mac]
Rows == [ip : IP, mac : MAC]
ByUse(c) == [n \in 1 .. Cardinality(ValidIn(c)) |->
                Row(c, CHOOSE i \in ValidIn(c) : Cardinality(Older(c, i)) = n - 1)]

GoodTable(c) == /\ c \in [Slot -> Entry]
                /\ \A i \in ValidIn(c) : Row(c, i) \in Rows
                /\ \A i, j \in ValidIn(c) : i # j => /\ c[i].ip # c[j].ip
                                                     /\ c[i].age # c[j].age

LEMMA ValidFinite ==
    ASSUME NEW c
    PROVE  /\ IsFiniteSet(ValidIn(c)) /\ Cardinality(ValidIn(c)) \in Nat
           /\ Cardinality(ValidIn(c)) <= CacheSize
           /\ Cardinality(ValidIn(c)) = CacheSize => ValidIn(c) = Slot
           /\ ValidIn(c) = Slot => Cardinality(ValidIn(c)) = CacheSize
<1>1. IsFiniteSet(Slot) /\ Cardinality(Slot) = CacheSize
  BY FS_Interval, SizeAssumption DEF Slot
<1>2. ValidIn(c) \in SUBSET Slot
  BY DEF ValidIn
<1>3. QED
  BY <1>1, <1>2, FS_Subset, FS_CardinalityType

(* Distinct stamps number the entries 1, 2, ... in the order of the stamps. *)
LEMMA RankCounts ==
    ASSUME NEW c, GoodTable(c)
    PROVE  /\ \A i \in ValidIn(c) : Rank(c, i) \in 1 .. Cardinality(ValidIn(c))
           /\ \A i, j \in ValidIn(c) : c[i].age < c[j].age => Rank(c, i) < Rank(c, j)
<1> DEFINE V == ValidIn(c)
<1>1. \A i \in V : c[i].age \in Int
  BY DEF GoodTable, ValidIn, Entry
<1>2. IsFiniteSet(V) /\ Cardinality(V) \in Nat
  BY ValidFinite
<1>3. ASSUME NEW i \in V
      PROVE  IsFiniteSet(Older(c, i)) /\ Cardinality(Older(c, i)) \in Nat
  BY <1>2, FS_Subset, FS_CardinalityType DEF Older
<1>4. ASSUME NEW i \in V
      PROVE  /\ IsFiniteSet(Older(c, i) \cup {i})
             /\ Cardinality(Older(c, i) \cup {i}) = Rank(c, i)
  <2>1. i \notin Older(c, i)
    BY <1>1 DEF Older
  <2>2. QED
    BY <1>3, <2>1, FS_AddElement DEF Rank
<1>5. ASSUME NEW i \in V
      PROVE  Rank(c, i) \in 1 .. Cardinality(V)
  <2>1. Older(c, i) \cup {i} \in SUBSET V
    BY DEF Older
  <2>2. Cardinality(Older(c, i) \cup {i}) <= Cardinality(V)
    BY <1>2, <2>1, FS_Subset
  <2>3. Rank(c, i) <= Cardinality(V)
    BY <1>4, <2>2
  <2>4. QED
    BY <1>2, <1>3, <2>3 DEF Rank
<1>6. ASSUME NEW i \in V, NEW j \in V, c[i].age < c[j].age
      PROVE  Rank(c, i) < Rank(c, j)
  <2>1. Older(c, i) \cup {i} \in SUBSET Older(c, j)
    BY <1>1, <1>6 DEF Older
  <2>2. Cardinality(Older(c, i) \cup {i}) <= Cardinality(Older(c, j))
    BY <1>3, <2>1, FS_Subset
  <2>3. Rank(c, i) <= Cardinality(Older(c, j))
    BY <1>4, <2>2
  <2>4. QED
    BY <1>3, <2>3 DEF Rank
<1>7. QED
  BY <1>5, <1>6

LEMMA RankDecides ==
    ASSUME NEW c, GoodTable(c), NEW i \in ValidIn(c), NEW j \in ValidIn(c)
    PROVE  /\ Rank(c, i) < Rank(c, j) => c[i].age < c[j].age
           /\ Rank(c, i) = Rank(c, j) => i = j
<1>1. c[i].age \in Int /\ c[j].age \in Int
  BY DEF GoodTable, ValidIn, Entry
<1>2. Rank(c, i) \in Int /\ Rank(c, j) \in Int
  <2>1. Cardinality(ValidIn(c)) \in Nat
    BY ValidFinite
  <2>2. QED
    BY <2>1, RankCounts
<1>3. /\ c[i].age < c[j].age => Rank(c, i) < Rank(c, j)
      /\ c[j].age < c[i].age => Rank(c, j) < Rank(c, i)
  BY RankCounts
<1>4. i # j => c[i].age # c[j].age
  BY DEF GoodTable
<1>5. QED
  BY <1>1, <1>2, <1>3, <1>4

LEMMA EveryRankTaken ==
    ASSUME NEW c, GoodTable(c), NEW n \in 1 .. Cardinality(ValidIn(c))
    PROVE  \E i \in ValidIn(c) : Rank(c, i) = n
<1> DEFINE V == ValidIn(c)
           f == [i \in V |-> Rank(c, i)]
<1>1. Cardinality(V) \in Nat
  BY ValidFinite
<1>2. IsFiniteSet(1 .. Cardinality(V)) /\ Cardinality(1 .. Cardinality(V)) = Cardinality(V)
  BY <1>1, FS_Interval
<1>3. f \in [V -> 1 .. Cardinality(V)]
  BY RankCounts
<1>4. \A i, j \in V : f[i] = f[j] => i = j
  BY RankDecides
<1>5. f \in Injection(V, 1 .. Cardinality(V))
  BY <1>3, <1>4 DEF Injection, IsInjective
<1>6. f \in Surjection(V, 1 .. Cardinality(V))
  BY <1>2, <1>5, FS_Injection
<1>7. PICK i \in V : f[i] = n
  BY <1>6 DEF Surjection
<1>8. QED
  BY <1>7

LEMMA ByUseIs ==
    ASSUME NEW c, GoodTable(c)
    PROVE  /\ ByUse(c) \in Seq(Rows)
           /\ Len(ByUse(c)) = Cardinality(ValidIn(c))
           /\ \A i \in ValidIn(c) : ByUse(c)[Rank(c, i)] = Row(c, i)
<1> DEFINE size == Cardinality(ValidIn(c))
           first(n) == CHOOSE i \in ValidIn(c) : Cardinality(Older(c, i)) = n - 1
<1>1. size \in Nat
  BY ValidFinite
<1>2. ASSUME NEW n \in 1 .. size
      PROVE  first(n) \in ValidIn(c) /\ Rank(c, first(n)) = n
  <2>1. PICK i \in ValidIn(c) : Rank(c, i) = n
    BY EveryRankTaken
  <2>2. Cardinality(Older(c, i)) = n - 1
    <3>1. IsFiniteSet(Older(c, i))
      BY ValidFinite, FS_Subset DEF Older
    <3>2. Cardinality(Older(c, i)) \in Nat
      BY <3>1, FS_CardinalityType
    <3>3. QED
      BY <2>1, <3>2 DEF Rank
  <2>3. first(n) \in ValidIn(c) /\ Cardinality(Older(c, first(n))) = n - 1
    BY <2>2
  <2>4. n \in Int
    BY <1>1
  <2> HIDE DEF first
  <2>5. QED
    BY <2>3, <2>4 DEF Rank
<1>3. ByUse(c) = [n \in 1 .. size |-> Row(c, first(n))]
  BY DEF ByUse
<1> HIDE DEF first
<1>4. \A n \in 1 .. size : Row(c, first(n)) \in Rows
  BY <1>2 DEF GoodTable
<1>5. ByUse(c) \in Seq(Rows) /\ Len(ByUse(c)) = size
  BY <1>1, <1>3, <1>4
<1>6. ASSUME NEW i \in ValidIn(c)
      PROVE  ByUse(c)[Rank(c, i)] = Row(c, i)
  <2>1. Rank(c, i) \in 1 .. size
    BY RankCounts
  <2>2. first(Rank(c, i)) = i
    BY <1>2, <2>1, RankDecides
  <2>3. QED
    BY <1>3, <2>1, <2>2
<1>7. QED
  BY <1>5, <1>6

LEMMA RemoveAtIs ==
    ASSUME NEW S, NEW s \in Seq(S), NEW p \in 1 .. Len(s)
    PROVE  /\ Lru!RemoveAt(s, p) \in Seq(S)
           /\ Len(Lru!RemoveAt(s, p)) = Len(s) - 1
           /\ \A n \in 1 .. Len(s) - 1 :
                  Lru!RemoveAt(s, p)[n] = IF n < p THEN s[n] ELSE s[n + 1]
<1> DEFINE a == SubSeq(s, 1, p - 1)
           b == SubSeq(s, p + 1, Len(s))
<1>1. Len(s) \in Nat /\ p \in Int /\ 1 <= p /\ p <= Len(s)
  OBVIOUS
<1>2. \A n \in 1 .. Len(s) : s[n] \in S
  OBVIOUS
<1>3. a \in Seq(S) /\ Len(a) = p - 1 /\ \A n \in 1 .. p - 1 : a[n] = s[n]
  <2>1. \A n \in 1 .. p - 1 : s[n] \in S
    BY <1>1, <1>2
  <2>2. /\ a \in Seq(S)
        /\ Len(a) = IF 1 <= p - 1 THEN (p - 1) - 1 + 1 ELSE 0
        /\ \A n \in 1 .. (p - 1) - 1 + 1 : a[n] = s[1 + n - 1]
    BY <1>1, <2>1, SubSeqProperties
  <2>3. QED
    BY <1>1, <2>2
<1>4. b \in Seq(S) /\ Len(b) = Len(s) - p /\ \A n \in 1 .. Len(s) - p : b[n] = s[p + n]
  <2>1. \A n \in p + 1 .. Len(s) : s[n] \in S
    BY <1>1, <1>2
  <2>2. /\ b \in Seq(S)
        /\ Len(b) = IF p + 1 <= Len(s) THEN Len(s) - (p + 1) + 1 ELSE 0
        /\ \A n \in 1 .. Len(s) - (p + 1) + 1 : b[n] = s[(p + 1) + n - 1]
    BY <1>1, <2>1, SubSeqProperties
  <2>3. QED
    BY <1>1, <2>2
<1>5. Lru!RemoveAt(s, p) = a \o b
  BY DEF Lru!RemoveAt
<1> HIDE DEF a, b
<1>6. /\ a \o b \in Seq(S) /\ Len(a \o b) = Len(s) - 1
      /\ \A n \in 1 .. Len(s) - 1 :
             (a \o b)[n] = IF n <= p - 1 THEN a[n] ELSE b[n - (p - 1)]
  <2>1. /\ a \o b \in Seq(S) /\ Len(a \o b) = Len(a) + Len(b)
        /\ \A n \in 1 .. Len(a) + Len(b) :
               (a \o b)[n] = IF n <= Len(a) THEN a[n] ELSE b[n - Len(a)]
    BY <1>3, <1>4, ConcatProperties
  <2>2. Len(a) + Len(b) = Len(s) - 1 /\ Len(a) = p - 1
    BY <1>1, <1>3, <1>4
  <2>3. QED
    BY <2>1, <2>2
<1>7. ASSUME NEW n \in 1 .. Len(s) - 1
      PROVE  (a \o b)[n] = IF n < p THEN s[n] ELSE s[n + 1]
  <2>1. CASE n < p
    BY <1>1, <1>3, <1>6, <2>1
  <2>2. CASE ~(n < p)
    <3>1. n - (p - 1) \in 1 .. Len(s) - p /\ p + (n - (p - 1)) = n + 1 /\ ~(n <= p - 1)
      BY <1>1, <2>2
    <3>2. QED
      BY <1>4, <1>6, <2>2, <3>1
  <2>3. QED
    BY <2>1, <2>2
<1>8. QED
  BY <1>5, <1>6, <1>7

(* Table d is table c with entry x written or used: every other entry is   *)
(* as it was, and x has the newest stamp.                                  *)
Stamped(c, d, x) == /\ x \in Slot /\ d[x].valid
                    /\ \A j \in Slot \ {x} : d[j] = c[j]
                    /\ \A j \in ValidIn(c) \ {x} : c[j].age < d[x].age

LEMMA StampedRanks ==
    ASSUME NEW c, NEW d, NEW x, GoodTable(c), GoodTable(d), Stamped(c, d, x)
    PROVE  /\ ValidIn(d) = ValidIn(c) \cup {x}
           /\ Rank(d, x) = Cardinality(ValidIn(d))
           /\ \A j \in ValidIn(c) \ {x} :
                  Rank(d, j) = IF x \in ValidIn(c) /\ Rank(c, x) < Rank(c, j)
                               THEN Rank(c, j) - 1 ELSE Rank(c, j)
<1> DEFINE V == ValidIn(c)
<1>1. ValidIn(d) = V \cup {x}
  BY DEF Stamped, ValidIn
<1>2. IsFiniteSet(V) /\ Cardinality(V) \in Nat
  BY ValidFinite
<1>3. \A j \in ValidIn(d) : d[j].age \in Int
  BY DEF GoodTable, ValidIn, Entry
<1>4. \A j \in V \ {x} : d[j].age = c[j].age
  BY DEF Stamped, ValidIn
<1>5. Rank(d, x) = Cardinality(ValidIn(d))
  <2>1. Older(d, x) = V \ {x}
    BY <1>1, <1>3, <1>4 DEF Older, Stamped
  <2>2. IsFiniteSet(V \ {x})
    BY <1>2, FS_RemoveElement
  <2>3. Cardinality((V \ {x}) \cup {x}) = Cardinality(V \ {x}) + 1
    BY <2>2, FS_AddElement
  <2>4. (V \ {x}) \cup {x} = ValidIn(d)
    BY <1>1
  <2>5. QED
    BY <2>1, <2>3, <2>4 DEF Rank
<1>6. ASSUME NEW j \in V \ {x}
      PROVE  Rank(d, j) = IF x \in V /\ Rank(c, x) < Rank(c, j)
                          THEN Rank(c, j) - 1 ELSE Rank(c, j)
  <2>1. Older(d, j) = Older(c, j) \ {x}
    <3>1. ~(d[x].age < d[j].age)
      <4>1. c[j].age < d[x].age /\ x \in ValidIn(d) /\ j \in ValidIn(d)
        BY <1>1 DEF Stamped
      <4>2. QED
        BY <1>3, <1>4, <4>1
    <3>2. QED
      BY <1>1, <1>4, <3>1 DEF Older
  <2>2. IsFiniteSet(Older(c, j)) /\ Cardinality(Older(c, j)) \in Nat
    BY <1>2, FS_Subset, FS_CardinalityType DEF Older
  <2>3. Cardinality(Older(d, j)) = IF x \in Older(c, j) THEN Cardinality(Older(c, j)) - 1
                                   ELSE Cardinality(Older(c, j))
    BY <2>1, <2>2, FS_RemoveElement
  <2>4. x \in Older(c, j) <=> x \in V /\ Rank(c, x) < Rank(c, j)
    <3>1. x \in V => (c[x].age < c[j].age <=> Rank(c, x) < Rank(c, j))
      BY RankCounts, RankDecides
    <3>2. QED
      BY <3>1 DEF Older
  <2>5. QED
    BY <2>2, <2>3, <2>4 DEF Rank
<1>7. QED
  BY <1>1, <1>5, <1>6

(* Stamping an entry moves it, or brings it, to the end of the order.      *)
LEMMA StampedOrder ==
    ASSUME NEW c, NEW d, NEW x, GoodTable(c), GoodTable(d), Stamped(c, d, x)
    PROVE  ByUse(d) = Append(IF x \in ValidIn(c) THEN Lru!RemoveAt(ByUse(c), Rank(c, x))
                             ELSE ByUse(c), Row(d, x))
<1> DEFINE V == ValidIn(c)
           before == ByUse(c)
           kept == IF x \in V THEN Lru!RemoveAt(before, Rank(c, x)) ELSE before
           new == Append(kept, Row(d, x))
<1>1. /\ before \in Seq(Rows) /\ Len(before) = Cardinality(V) /\ Cardinality(V) \in Nat
      /\ IsFiniteSet(V) /\ \A i \in V : before[Rank(c, i)] = Row(c, i)
  BY ByUseIs, ValidFinite
<1>2. /\ ByUse(d) \in Seq(Rows) /\ Len(ByUse(d)) = Cardinality(ValidIn(d))
      /\ \A i \in ValidIn(d) : ByUse(d)[Rank(d, i)] = Row(d, i)
  BY ByUseIs
<1>3. /\ ValidIn(d) = V \cup {x}
      /\ Rank(d, x) = Cardinality(ValidIn(d))
      /\ \A j \in V \ {x} : Rank(d, j) = IF x \in V /\ Rank(c, x) < Rank(c, j)
                                         THEN Rank(c, j) - 1 ELSE Rank(c, j)
  BY StampedRanks
<1>4. \A i \in V : Rank(c, i) \in 1 .. Len(before)
  BY <1>1, RankCounts
<1>5. /\ kept \in Seq(Rows) /\ Len(kept) + 1 = Cardinality(ValidIn(d))
      /\ \A j \in V \ {x} : Rank(d, j) \in 1 .. Len(kept) /\ kept[Rank(d, j)] = Row(c, j)
  <2>1. CASE x \in V
    <3>1. Rank(c, x) \in 1 .. Len(before)
      BY <1>4, <2>1
    <3>2. /\ kept \in Seq(Rows) /\ Len(kept) = Len(before) - 1
          /\ \A n \in 1 .. Len(before) - 1 :
                 kept[n] = IF n < Rank(c, x) THEN before[n] ELSE before[n + 1]
      BY <1>1, <2>1, <3>1, RemoveAtIs
    <3>3. ValidIn(d) = V
      BY <1>3, <2>1
    <3>4. ASSUME NEW j \in V \ {x}
          PROVE  Rank(d, j) \in 1 .. Len(kept) /\ kept[Rank(d, j)] = Row(c, j)
      <4>1. Rank(c, j) \in 1 .. Len(before) /\ before[Rank(c, j)] = Row(c, j)
        BY <1>1, <1>4
      <4>2. Rank(c, j) # Rank(c, x)
        BY <2>1, RankDecides
      <4>3. CASE Rank(c, x) < Rank(c, j)
        <5>1. Rank(d, j) = Rank(c, j) - 1
          BY <1>3, <2>1, <4>3
        <5>2. /\ Rank(d, j) \in 1 .. Len(before) - 1 /\ ~(Rank(d, j) < Rank(c, x))
              /\ Rank(d, j) + 1 = Rank(c, j)
          BY <1>1, <3>1, <4>1, <4>3, <5>1
        <5> HIDE DEF kept, before
        <5>3. QED
          BY <3>2, <4>1, <5>2
      <4>4. CASE ~(Rank(c, x) < Rank(c, j))
        <5>1. Rank(d, j) = Rank(c, j)
          BY <1>3, <4>4
        <5>2. Rank(d, j) \in 1 .. Len(before) - 1 /\ Rank(d, j) < Rank(c, x)
          BY <1>1, <3>1, <4>1, <4>2, <4>4, <5>1
        <5> HIDE DEF kept, before
        <5>3. QED
          BY <3>2, <4>1, <5>1, <5>2
      <4>5. QED
        BY <4>3, <4>4
    <3>5. Len(kept) + 1 = Cardinality(ValidIn(d))
      BY <1>1, <3>2, <3>3
    <3>6. QED
      BY <3>2, <3>4, <3>5
  <2>2. CASE x \notin V
    <3>1. Cardinality(ValidIn(d)) = Cardinality(V) + 1
      BY <1>1, <1>3, <2>2, FS_AddElement
    <3>2. \A j \in V \ {x} : Rank(d, j) = Rank(c, j)
      BY <1>3, <2>2
    <3>3. kept = before
      BY <2>2
    <3> HIDE DEF kept, before
    <3>4. QED
      BY <1>1, <1>4, <3>1, <3>2, <3>3
  <2>3. QED
    BY <2>1, <2>2
<1>6. Row(d, x) \in Rows
  BY <1>3 DEF GoodTable
<1> HIDE DEF kept
<1>7. /\ new \in Seq(Rows) /\ Len(new) = Len(kept) + 1
      /\ \A n \in 1 .. Len(kept) : new[n] = kept[n]
      /\ new[Len(kept) + 1] = Row(d, x)
  BY <1>5, <1>6, AppendProperties
<1> HIDE DEF new
<1>8. ASSUME NEW n \in 1 .. Len(ByUse(d))
      PROVE  ByUse(d)[n] = new[n]
  <2>1. PICK i \in ValidIn(d) : Rank(d, i) = n
    BY <1>2, EveryRankTaken
  <2>2. ByUse(d)[n] = Row(d, i)
    BY <1>2, <2>1
  <2>3. CASE i = x
    BY <1>3, <1>5, <1>7, <2>1, <2>2, <2>3
  <2>4. CASE i # x
    <3>1. i \in V \ {x}
      BY <1>3, <2>4
    <3>2. Row(d, i) = Row(c, i)
      BY <3>1 DEF Stamped, Row, ValidIn
    <3>3. QED
      BY <1>5, <1>7, <2>1, <2>2, <3>1, <3>2
  <2>5. QED
    BY <2>3, <2>4
<1>9. Len(ByUse(d)) = Len(new)
  BY <1>2, <1>5, <1>7
<1>10. ByUse(d) = new
  BY <1>2, <1>7, <1>8, <1>9, SeqEqual
<1>11. QED
  BY <1>10 DEF new, kept

LEMMA OrderIsByUse ==
    /\ InOrderOfUse = ByUse(cache) /\ Valid = ValidIn(cache)
    /\ InOrderOfUse' = ByUse(cache') /\ Valid' = ValidIn(cache')
BY DEF InOrderOfUse, UsedNth, ByUse, Row, Older, Valid, ValidIn

LEMMA TableIsGood ==
    ASSUME TableOK, OneEntryPerAddress
    PROVE  GoodTable(cache)
BY OrderIsByUse DEF TableOK, OneEntryPerAddress, GoodTable, Row, Rows

LEMMA NextTableIsGood ==
    ASSUME TableOK', OneEntryPerAddress'
    PROVE  GoodTable(cache')
BY OrderIsByUse DEF TableOK, OneEntryPerAddress, GoodTable, Row, Rows

(* The abstract cache knows the addresses the table holds, and takes one   *)
(* out by taking out its row.                                              *)
LEMMA KnownIsHeld ==
    ASSUME TableOK, OneEntryPerAddress, NEW k
    PROVE  /\ Lru!Known(k) <=> Holding(k) # {}
           /\ \A i \in Holding(k) :
                  /\ i \in Valid
                  /\ Row(cache, i) \in Lru!ToSet(ByUse(cache))
                  /\ Lru!Without(k) = Lru!RemoveAt(ByUse(cache), Rank(cache, i))
           /\ Holding(k) = {} => Lru!Without(k) = ByUse(cache)
<1>1. GoodTable(cache)
  BY TableIsGood
<1>2. InOrderOfUse = ByUse(cache) /\ Valid = ValidIn(cache)
  BY OrderIsByUse
<1>3. /\ DOMAIN ByUse(cache) = 1 .. Cardinality(Valid)
      /\ \A i \in Valid : /\ Rank(cache, i) \in DOMAIN ByUse(cache)
                          /\ ByUse(cache)[Rank(cache, i)] = Row(cache, i)
  <2>1. DOMAIN ByUse(cache) = 1 .. Cardinality(Valid)
    BY <1>2 DEF ByUse
  <2>2. QED
    BY <1>1, <1>2, <2>1, ByUseIs, RankCounts
<1>4. ASSUME NEW n \in DOMAIN ByUse(cache)
      PROVE  \E i \in Valid : Rank(cache, i) = n /\ ByUse(cache)[n].ip = cache[i].ip
  <2>1. PICK i \in Valid : Rank(cache, i) = n
    BY <1>1, <1>2, <1>3, EveryRankTaken
  <2>2. ByUse(cache)[n] = Row(cache, i)
    BY <1>3, <2>1
  <2>3. Row(cache, i).ip = cache[i].ip
    BY DEF Row
  <2>4. QED
    BY <2>1, <2>2, <2>3
<1>5. Lru!Known(k) <=> Holding(k) # {}
  <2>1. ASSUME NEW i \in Holding(k)
        PROVE  Lru!Known(k)
    <3>1. Row(cache, i).ip = k
      BY DEF Holding, Row
    <3>2. PICK n \in 1 .. Cardinality(Valid) : ByUse(cache)[n] = Row(cache, i)
      BY <1>2, <1>3 DEF Holding
    <3>3. QED
      BY <1>2, <1>3, <3>1, <3>2 DEF Lru!Known, Lru!ToSet
  <2>2. ASSUME Lru!Known(k)
        PROVE  Holding(k) # {}
    <3>1. PICK n \in DOMAIN ByUse(cache) : ByUse(cache)[n].ip = k
      BY <1>2, <2>2 DEF Lru!Known, Lru!ToSet
    <3>2. QED
      BY <1>4, <3>1 DEF Holding
  <2>3. QED
    BY <2>1, <2>2
<1>6. ASSUME NEW i \in Holding(k)
      PROVE  /\ i \in Valid /\ Row(cache, i) \in Lru!ToSet(ByUse(cache))
             /\ Lru!Without(k) = Lru!RemoveAt(ByUse(cache), Rank(cache, i))
  <2>1. i \in Valid /\ cache[i].ip = k
    BY DEF Holding
  <2>2. ASSUME NEW n \in DOMAIN ByUse(cache)
        PROVE  ByUse(cache)[n].ip = k <=> n = Rank(cache, i)
    <3>1. PICK j \in Valid : Rank(cache, j) = n /\ ByUse(cache)[n].ip = cache[j].ip
      BY <1>4
    <3>2. cache[j].ip = k <=> j = i
      BY <2>1 DEF OneEntryPerAddress
    <3>3. j = i <=> n = Rank(cache, i)
      BY <1>1, <1>2, <2>1, <3>1, RankDecides
    <3>4. QED
      BY <3>1, <3>2, <3>3
  <2>3. (CHOOSE n \in DOMAIN ByUse(cache) : ByUse(cache)[n].ip = k) = Rank(cache, i)
    BY <1>3, <2>1, <2>2
  <2>4. QED
    BY <1>2, <1>3, <1>5, <2>1, <2>3 DEF Lru!Without, Lru!ToSet
<1>7. Holding(k) = {} => Lru!Without(k) = ByUse(cache)
  BY <1>2, <1>5 DEF Lru!Without
<1>8. QED
  BY <1>5, <1>6, <1>7

LEMMA StoreIsLru ==
    ASSUME TableOK, OneEntryPerAddress, NEW ip \in IP, NEW mac \in MAC,
           net_store_arp_entry(ip, mac)
    PROVE  InOrderOfUse' = Append(Lru!Room(ip), [ip |-> ip, mac |-> mac])
<1>1. PICK x \in Place(ip) :
          cache' = [cache EXCEPT ![x] = [valid |-> TRUE, ip |-> ip,
                                         mac |-> mac, age |-> age + 1]]
  BY DEF net_store_arp_entry
<1>2. GoodTable(cache) /\ GoodTable(cache')
  BY StoreStep, TableIsGood, NextTableIsGood
<1>3. x \in Slot
  BY PlaceKeepsDistinct
<1>4. /\ cache'[x].valid /\ cache'[x].age = age + 1
      /\ Row(cache', x) = [ip |-> ip, mac |-> mac]
      /\ \A j \in Slot \ {x} : cache'[j] = cache[j]
  BY <1>1, <1>3 DEF TableOK, Row
<1>5. \A j \in Slot : cache[j].age \in Int /\ cache[j].age < age + 1
  BY DEF TableOK, Entry
<1>6. Stamped(cache, cache', x)
  BY <1>3, <1>4, <1>5 DEF Stamped, ValidIn
<1>7. InOrderOfUse' = Append(IF x \in Valid THEN Lru!RemoveAt(ByUse(cache), Rank(cache, x))
                             ELSE ByUse(cache), [ip |-> ip, mac |-> mac])
  BY <1>2, <1>4, <1>6, StampedOrder, OrderIsByUse
<1>8. /\ Len(ByUse(cache)) = Cardinality(Valid) /\ ByUse(cache) \in Seq(Rows)
      /\ InOrderOfUse = ByUse(cache)
  BY <1>2, ByUseIs, OrderIsByUse
<1>9. CASE Holding(ip) # {}
  <2>1. x \in Holding(ip)
    BY <1>9 DEF Place
  <2>2. QED
    BY <1>7, <1>9, <2>1, KnownIsHeld DEF Lru!Room
<1>10. CASE Holding(ip) = {} /\ Valid # Slot
  <2>1. x \notin Valid
    BY <1>10 DEF Place
  <2>2. Cardinality(Valid) \in Nat /\ Cardinality(Valid) < CacheSize
    BY <1>10, ValidFinite, OrderIsByUse, SizeAssumption
  <2>3. Lru!Room(ip) = ByUse(cache)
    BY <1>8, <1>10, <2>2, KnownIsHeld DEF Lru!Room
  <2>4. QED
    BY <1>7, <2>1, <2>3
<1>11. CASE Holding(ip) = {} /\ Valid = Slot
  <2>1. x \in Valid /\ \A j \in Slot : cache[x].age <= cache[j].age
    BY <1>11 DEF Place
  <2>2. Rank(cache, x) = 1
    <3>1. \A j \in Slot : ~(cache[j].age < cache[x].age)
      BY <1>3, <1>5, <2>1
    <3>2. Older(cache, x) = {}
      BY <3>1 DEF Older, ValidIn
    <3>3. QED
      BY <3>2, FS_EmptySet DEF Rank
  <2>3. Cardinality(Valid) = CacheSize /\ CacheSize \in Nat \ {0}
    BY <1>11, ValidFinite, OrderIsByUse, SizeAssumption
  <2>4. ~Lru!Known(ip) /\ ~(Len(InOrderOfUse) < CacheSize)
    BY <1>8, <1>11, <2>3, KnownIsHeld
  <2>5. Lru!Room(ip) = Tail(ByUse(cache))
    BY <1>8, <2>4 DEF Lru!Room
  <2>6. Lru!RemoveAt(ByUse(cache), 1) = Tail(ByUse(cache))
    <3> DEFINE s == ByUse(cache)
    <3>1. s \in Seq(Rows) /\ Len(s) \in Nat \ {0} /\ s # << >>
      BY <1>8, <2>3
    <3>2. /\ Lru!RemoveAt(s, 1) \in Seq(Rows) /\ Len(Lru!RemoveAt(s, 1)) = Len(s) - 1
          /\ \A n \in 1 .. Len(s) - 1 :
                 Lru!RemoveAt(s, 1)[n] = IF n < 1 THEN s[n] ELSE s[n + 1]
      BY <3>1, RemoveAtIs
    <3>3. /\ Tail(s) \in Seq(Rows) /\ Len(Tail(s)) = Len(s) - 1
          /\ \A n \in 1 .. Len(Tail(s)) : Tail(s)[n] = s[n + 1]
      BY <3>1, HeadTailProperties
    <3> HIDE DEF s
    <3>4. \A n \in 1 .. Len(s) - 1 : Lru!RemoveAt(s, 1)[n] = Tail(s)[n]
      BY <3>1, <3>2, <3>3
    <3>5. Lru!RemoveAt(s, 1) = Tail(s)
      BY <3>2, <3>3, <3>4, SeqEqual
    <3>6. QED
      BY <3>5 DEF s
  <2>7. QED
    BY <1>7, <2>1, <2>2, <2>5, <2>6
<1>12. QED
  BY <1>9, <1>10, <1>11

LEMMA HitIsLru ==
    ASSUME TableOK, OneEntryPerAddress, NEW ip, Hit(ip)
    PROVE  ip \in IP /\ Lru!Hit(ip)
<1>1. PICK x \in Holding(ip) : Touch(x) /\ answer' = cache[x].mac
  BY DEF Hit
<1>2. x \in Valid /\ x \in Slot /\ cache[x].ip = ip /\ cache[x].valid
  BY DEF Holding, Valid
<1>3. GoodTable(cache) /\ GoodTable(cache')
  BY HitStep, TableIsGood, NextTableIsGood
<1>4. cache[x] \in Entry /\ cache' = [cache EXCEPT ![x].age = age + 1]
  BY <1>1, <1>2 DEF TableOK, Touch
<1>5. /\ cache'[x].valid /\ cache'[x].age = age + 1
      /\ Row(cache', x) = Row(cache, x)
      /\ \A j \in Slot \ {x} : cache'[j] = cache[j]
  BY <1>2, <1>4 DEF TableOK, Row, Entry
<1>6. \A j \in Slot : cache[j].age < age + 1
  <2>1. \A j \in Slot : cache[j].age \in Int /\ cache[j].age <= age /\ age \in Int
    BY DEF TableOK, Entry
  <2>2. QED
    BY <2>1
<1>7. Stamped(cache, cache', x)
  BY <1>2, <1>5, <1>6 DEF Stamped, ValidIn
<1>8. InOrderOfUse' = Append(Lru!RemoveAt(ByUse(cache), Rank(cache, x)), Row(cache, x))
  BY <1>2, <1>3, <1>5, <1>7, StampedOrder, OrderIsByUse
<1>9. /\ Row(cache, x) \in Lru!ToSet(InOrderOfUse)
      /\ Lru!Without(ip) = Lru!RemoveAt(ByUse(cache), Rank(cache, x))
  BY KnownIsHeld, OrderIsByUse
<1>10. Row(cache, x).ip = ip /\ Row(cache, x).mac = cache[x].mac
  BY <1>2 DEF Row
<1>11. ip \in IP
  BY <1>2 DEF TableOK
<1>12. QED
  BY <1>1, <1>8, <1>9, <1>10, <1>11 DEF Lru!Hit

LEMMA MissIsLru ==
    ASSUME TableOK, OneEntryPerAddress, NEW ip, Miss(ip)
    PROVE  Lru!Miss(ip)
<1>1. Holding(ip) = {} /\ answer' = NoMac /\ cache' = cache
  BY DEF Miss
<1>2. InOrderOfUse' = InOrderOfUse
  BY <1>1, OrderIsByUse
<1>3. QED
  BY <1>1, <1>2, KnownIsHeld DEF Lru!Miss

(* A resolve that waits, waits for an address of the network.              *)
HopKnown == pc \in {"serve", "look"} => hop \in IP

LEMMA LruStutters ==
    ASSUME UNCHANGED <<cache, answer>>
    PROVE  UNCHANGED <<InOrderOfUse, answer>>
BY OrderIsByUse

LEMMA LruStep ==
    ASSUME TableOK, OneEntryPerAddress, ResolveOK, HopKnown, [Next]_vars
    PROVE  Lru!Next \/ UNCHANGED <<InOrderOfUse, answer>>
<1> DEFINE Done == Lru!Next \/ UNCHANGED <<InOrderOfUse, answer>>
<1> SUFFICES Done
  OBVIOUS
<1>1. ASSUME NEW ip \in IP, NEW mac \in MAC, net_store_arp_entry(ip, mac), answer' = answer
      PROVE  Done
  BY <1>1, StoreIsLru DEF Lru!Next, Lru!Store
<1>2. ASSUME NEW ip, Hit(ip)
      PROVE  Done
  BY <1>2, HitIsLru DEF Lru!Next
<1>3. ASSUME NEW ip \in IP, Miss(ip)
      PROVE  Done
  BY <1>3, MissIsLru DEF Lru!Next
<1>4. ASSUME UNCHANGED <<cache, answer>>
      PROVE  Done
  BY <1>4, LruStutters
<1> HIDE DEF Done
<1>5. CASE net_configure_ipv4_static
  BY <1>1, <1>5, AddressAssumption DEF net_configure_ipv4_static
<1>6. ASSUME NEW ip \in IP, NEW mac \in MAC, Hear(ip, mac) \/ Serve(ip, mac)
      PROVE  Done
  BY <1>1, <1>6 DEF Hear, Serve
<1>7. ASSUME NEW dst \in IP, ResolveHit(dst) \/ ResolveUnsent(dst) \/ ResolveAsks(dst)
      PROVE  Done
  <2>1. NextHop(dst) \in IP
    BY AddressAssumption DEF NextHop
  <2>2. QED
    BY <1>2, <1>3, <1>7, <2>1 DEF ResolveHit, ResolveUnsent, ResolveAsks
<1>8. CASE ServeEnds
  BY <1>4, <1>8 DEF ServeEnds
<1>9. CASE LookHit
  BY <1>2, <1>9 DEF LookHit
<1>10. CASE LookAgain \/ GiveUp
  BY <1>3, <1>10 DEF LookAgain, GiveUp, HopKnown
<1>11. CASE UNCHANGED vars
  BY <1>4, <1>11 DEF vars
<1>12. QED
  BY <1>5, <1>6, <1>7, <1>8, <1>9, <1>10, <1>11 DEF Next

(* The table with its stamps behaves as a least-recently-used cache: a     *)
(* store or a hit moves its address to the end of the order, a store that  *)
(* finds no room forgets the first, and a lookup answers the binding heard *)
(* last (net.c:152-191).                                                   *)
THEOREM TableImplementsLru == Spec => TableIsLru
<1> DEFINE Inv == TypeOK /\ OneEntryPerAddress /\ HopKnown
<1>1. Init => Lru!Init /\ HopKnown
  <2> SUFFICES ASSUME Init PROVE Lru!Init /\ HopKnown
    OBVIOUS
  <2>1. ValidIn(cache) = {}
    BY DEF Init, ValidIn, Empty
  <2>2. ByUse(cache) = << >>
    BY <2>1, FS_EmptySet DEF ByUse
  <2>3. QED
    BY <2>2, OrderIsByUse DEF Lru!Init, Init, HopKnown
<1>2. TypeOK /\ HopKnown /\ [Next]_vars => HopKnown'
  <2> SUFFICES ASSUME TypeOK, HopKnown, [Next]_vars PROVE HopKnown'
    OBVIOUS
  <2>1. ASSUME NEW dst \in IP, ResolveHit(dst) \/ ResolveUnsent(dst) \/ ResolveAsks(dst)
        PROVE  HopKnown'
    BY <2>1, AddressAssumption
       DEF ResolveHit, ResolveUnsent, ResolveAsks, NextHop, HopKnown
  <2>2. ASSUME NEW ip \in IP, NEW mac \in MAC, Hear(ip, mac) \/ Serve(ip, mac)
        PROVE  HopKnown'
    BY <2>2 DEF Hear, Serve, HopKnown
  <2>3. CASE net_configure_ipv4_static \/ ServeEnds \/ LookHit \/ LookAgain \/ GiveUp
    BY <2>3 DEF net_configure_ipv4_static, ServeEnds, LookHit, LookAgain, GiveUp,
                EndResolve, HopKnown
  <2>4. CASE UNCHANGED vars
    BY <2>4 DEF vars, HopKnown
  <2>5. QED
    BY <2>1, <2>2, <2>3, <2>4 DEF Next
<1>3. Inv /\ [Next]_vars => [Lru!Next]_<<InOrderOfUse, answer>>
  BY LruStep DEF TypeOK, TableOK, ResolveOK
<1>4. QED
  BY <1>1, <1>2, <1>3, ArpTableCorrect, PTL DEF Spec, TableIsLru, Lru!Spec
=============================================================================
