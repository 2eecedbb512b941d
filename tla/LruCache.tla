------------------------------ MODULE LruCache ------------------------------
(***************************************************************************)
(* A bounded cache that forgets the entry used longest ago: storing and    *)
(* looking up both count as use.                                           *)
(***************************************************************************)
EXTENDS Integers, Sequences, SequencesExt

CONSTANTS Key, Value, Capacity,
          None          \* answer to a lookup that misses

VARIABLES entries,      \* sequence of [ip, mac], used longest ago first
          answer        \* what the last lookup returned

Init == entries = << >>

Known(k) == \E e \in ToSet(entries) : e.ip = k

Without(k) ==
    IF Known(k) THEN RemoveAt(entries, CHOOSE n \in DOMAIN entries : entries[n].ip = k)
    ELSE entries

Room(k) == IF Known(k) \/ Len(entries) < Capacity THEN Without(k) ELSE Tail(entries)

Store(k, v) == /\ entries' = Append(Room(k), [ip |-> k, mac |-> v])
               /\ UNCHANGED answer

Hit(k) == \E e \in ToSet(entries) : /\ e.ip = k
                                    /\ entries' = Append(Without(k), e)
                                    /\ answer' = e.mac

Miss(k) == /\ ~Known(k)
           /\ answer' = None
           /\ UNCHANGED entries

Next == \E k \in Key : Hit(k) \/ Miss(k) \/ \E v \in Value : Store(k, v)

Spec == Init /\ [][Next]_<<entries, answer>>
=============================================================================
