------------------------------ MODULE MCUpdate ------------------------------
(***************************************************************************)
(* A drive of nine sectors: table or header, one partition of five, two    *)
(* staged sectors and the package header.                                  *)
(***************************************************************************)
EXTENDS UpdateSystem

MCPartitions == <<[start |-> 1, count |-> 5]>>
=============================================================================
