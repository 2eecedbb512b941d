-------------------------------- MODULE MCTcp --------------------------------
(* One connection: an answer of two bytes into a buffer of one, so that    *)
(* the window closes, with numbers that wrap inside the answer.            *)
(* Two connections over one slot: the second may find it taken, or meet    *)
(* segments of the first; the answers are empty.                           *)
EXTENDS TcpSystem

MCUnit == 1 .. 2
MCNoUnit == {}
=============================================================================
