------------------------------ MODULE MCDesktop ------------------------------
(***************************************************************************)
(* Three cells, a launcher of one, a Settings window and a plain window of *)
(* two each.                                                               *)
(***************************************************************************)
EXTENDS Desktop

Count(b) == IF b THEN 1 ELSE 0

MCStart == [w \in Window |->
              CASE w = "SEARCH" -> [at |-> 2, wide |-> 1]
                [] w = "SETTINGS" -> [at |-> 2, wide |-> 2]
                [] OTHER -> [at |-> 1, wide |-> 2]]

(* What differs from the desktop as it came up: one thing at a time, on    *)
(* top of what is open, raised and dragged. Without memory for the cache   *)
(* everything is always drawn, so that is followed from the first state    *)
(* only.                                                                   *)
Departures ==
    Cardinality({w \in Window : wm.win[w].place # Start[w]})
    + Cardinality({w \in Window : wm.win[w].mini})
    + Count(wm.style = "TENUI") + Count(wm.menu) + Count(prompt) + Count(cache # NoCache /\ ~cache.current)
OneDeparture ==
    /\ Departures <= 1
    /\ cache = NoCache => wm = WindowsInit(wm.order, Plain)

(* Once something was missed the screen is followed no further. *)
NothingMissed == missed = {}
=============================================================================
