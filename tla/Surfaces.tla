------------------------------ MODULE Surfaces ------------------------------
(***************************************************************************)
(* Buffers of several contiguous pages, built from single frames           *)
(* (allocate_surface_buffer and free_surface_buffer in kernel/gui.cpp; the *)
(* back buffer of kernel/vga.c and the DMA page of kernel/pcnet.c are      *)
(* taken the same way).  The frames are asked for one by one, and the      *)
(* request fails when they do not come out in a row.                       *)
(***************************************************************************)
EXTENDS Pmm

CONSTANT MaxPages       \* pages of the largest buffer

ASSUME PagesAssumption == MaxPages \in Nat \ {0}

VARIABLES pc,           \* "idle", or inside allocate_surface_buffer
          want,         \* pages asked for
          first,        \* first_frame
          got,          \* the frames taken so far
          before,       \* history: the bitmap when the request began
          surfaces      \* the buffers handed out and not yet freed

vars == <<pmmVars, pc, want, first, got, before, surfaces>>

Span(s) == s.first .. s.first + s.pages - 1

TypeOK == /\ used \subseteq Frame
          /\ free_bytes = PageSize * Cardinality(Free)
          /\ next_hint \in 0 .. FrameLimit
          /\ pc \in {"idle", "take", "release"}
          /\ want \in 0 .. MaxPages
          /\ first \in Frame \cup {0}
          /\ got \subseteq Frame
          /\ before \subseteq Frame
          /\ surfaces \subseteq [first : Frame, pages : 1 .. MaxPages]

Init == /\ pmm_initialize
        /\ pc = "idle"
        /\ want = 0
        /\ first = 0
        /\ got = {}
        /\ before = Fixed
        /\ surfaces = {}
-----------------------------------------------------------------------------
(* Slip: the frame that broke the row is not given back. *)
Release_keeps_last ==
    /\ pc = "release"
    /\ FreeFrames(got \cap first .. first + Cardinality(got) - 2)
    /\ got' = {}
    /\ pc' = "idle"
    /\ UNCHANGED <<want, first, before, surfaces>>
-----------------------------------------------------------------------------
allocate_surface_buffer(n) ==
    /\ pc = "idle"
    /\ want' = n
    /\ got' = {}
    /\ before' = used
    /\ pc' = "take"
    /\ UNCHANGED <<pmmVars, first, surfaces>>

(* The next frame comes in a row, and may be the last one asked for. *)
Takes(f) ==
    /\ pc = "take"
    /\ f \in Candidate
    /\ got = {} \/ f = first + Cardinality(got)
    /\ TakeFrame(f)
    /\ first' = IF got = {} THEN f ELSE first
    /\ IF Cardinality(got) + 1 = want
       THEN /\ surfaces' = surfaces \cup {[first |-> first', pages |-> want]}
            /\ got' = {}
            /\ pc' = "idle"
       ELSE /\ got' = got \cup {f}
            /\ UNCHANGED <<pc, surfaces>>
    /\ UNCHANGED <<want, before>>

(* It does not: everything taken, this frame included, is given back. *)
TakesOutOfRow(f) ==
    /\ pc = "take"
    /\ f \in Candidate
    /\ got # {} /\ f # first + Cardinality(got)
    /\ TakeFrame(f)
    /\ got' = got \cup {f}
    /\ pc' = "release"
    /\ UNCHANGED <<want, first, before, surfaces>>

(* pmm_alloc_frame returned 0. *)
NoFrameLeft ==
    /\ pc = "take"
    /\ Candidate = {}
    /\ pc' = "release"
    /\ UNCHANGED <<pmmVars, want, first, got, before, surfaces>>

Release ==
    /\ pc = "release"
    /\ FreeFrames(got)
    /\ got' = {}
    /\ pc' = "idle"
    /\ UNCHANGED <<want, first, before, surfaces>>

free_surface_buffer(s) ==
    /\ pc = "idle"
    /\ s \in surfaces
    /\ FreeFrames(Span(s))
    /\ surfaces' = surfaces \ {s}
    /\ UNCHANGED <<pc, want, first, got, before>>

Next == \/ \E n \in 1 .. MaxPages : allocate_surface_buffer(n)
        \/ \E f \in Frame : Takes(f) \/ TakesOutOfRow(f)
        \/ NoFrameLeft \/ Release
        \/ \E s \in surfaces : free_surface_buffer(s)

Spec == Init /\ [][Next]_vars
-----------------------------------------------------------------------------
(* No free frame lies below the hint.  The search therefore always returns *)
(* the lowest free frame, and its second loop never finds one              *)
(* (pmm.c:95-111, 116-121).                                                *)
NothingFreeBelowHint == Below = {}

(* A buffer is backed by a range of frames that are marked used, that no   *)
(* other buffer and no running request holds, and that contain no byte of  *)
(* the kernel, the initrd, the boot information or the framebuffer         *)
(* (pmm.c:81-91, gui.cpp:624-655).                                         *)
BuffersAreSeparate ==
    /\ \A s, t \in surfaces : s # t => Span(s) \cap Span(t) = {}
    /\ \A s \in surfaces : /\ Span(s) \subseteq used
                           /\ Span(s) \cap got = {}
                           /\ \A r \in Protected, f \in Span(s) :
                                 \/ (f + 1) * PageSize <= r.base
                                 \/ r.base + r.size <= f * PageSize

(* A request that fails leaves the bitmap as it was, and fails only        *)
(* because the run of free frames that begins at the lowest one is too     *)
(* short: a longer run further up does not help, and asking again cannot   *)
(* succeed before something is freed or that run is used up                *)
(* (gui.cpp:636-651).                                                      *)
FailureIsClean ==
    [][pc = "release" /\ pc' = "idle" =>
          /\ used' = before
          /\ \A f \in Free' : (\A g \in Free' : f <= g)
                  => ~(f .. f + want - 1 \subseteq Free')]_vars
=============================================================================
