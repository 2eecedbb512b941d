----------------------------- MODULE MCSurfaces -----------------------------
(* Nine pages of four bytes.  One available region begins and ends inside  *)
(* a page; the framebuffer splits the memory; the kernel ends inside a     *)
(* page.                                                                   *)
EXTENDS Surfaces

MCAvailable == {[base |-> 0, size |-> 4], [base |-> 6, size |-> 27]}
MCProtected == {[base |-> 0, size |-> 4], [base |-> 8, size |-> 2],
                [base |-> 24, size |-> 3]}
=============================================================================
