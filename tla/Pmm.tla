--------------------------------- MODULE Pmm ---------------------------------
(***************************************************************************)
(* The allocator of physical page frames (kernel/pmm.c): a bitmap, a count *)
(* of free bytes and a hint where the next search begins.  The state       *)
(* starts after pmm_initialize, which the kernel calls once.               *)
(***************************************************************************)
EXTENDS Integers, FiniteSets

CONSTANTS FrameLimit,   \* PMM_MAX_FRAMES
          PageSize,     \* PAGE_SIZE, in bytes
          Available,    \* regions the memory map calls available, already clipped
          Protected     \* low memory, kernel, boot information, initrd, framebuffer

Region == [base : Nat, size : Nat]
ASSUME FrameAssumption == FrameLimit \in Nat /\ PageSize \in Nat \ {0}
ASSUME RegionAssumption == Available \subseteq Region /\ Protected \subseteq Region
ASSUME LowMemoryAssumption == \E r \in Protected : r.base = 0 /\ r.size >= PageSize

VARIABLES used,         \* frame_bitmap: the frames whose bit is set
          free_bytes,
          next_hint

pmmVars == <<used, free_bytes, next_hint>>

Frame == 0 .. FrameLimit - 1
Free == Frame \ used
-----------------------------------------------------------------------------
(* Slips, for the mutation checks: a region that ends inside a page does   *)
(* not cover that page; a frame is not accounted for; the hint stays.      *)
FramesOf_truncated(r) ==
    {f \in Frame : f >= r.base \div PageSize /\ f < (r.base + r.size) \div PageSize}

TakeFrame_uncounted(f) == /\ used' = used \cup {f}
                          /\ next_hint' = f + 1
                          /\ UNCHANGED free_bytes

HintAfter_kept(frames) == next_hint
-----------------------------------------------------------------------------
(* mark_region covers every page the region touches, whether it marks the  *)
(* region free or used.                                                    *)
FramesOf(r) == {f \in Frame : /\ f >= r.base \div PageSize
                              /\ f * PageSize < r.base + r.size}

FramesIn(regions) == UNION {FramesOf(r) : r \in regions}

Fixed == (Frame \ FramesIn(Available)) \cup FramesIn(Protected)

pmm_initialize == /\ used = Fixed
                  /\ free_bytes = PageSize * Cardinality(Frame \ Fixed)
                  /\ next_hint = 0

(* pmm_alloc_frame searches from the hint up, then below the hint. *)
Above == {f \in Free : f >= next_hint}
Below == {f \in Free : f < next_hint}
FirstOf(S) == {f \in S : \A g \in S : f <= g}
Candidate == IF Above # {} THEN FirstOf(Above) ELSE FirstOf(Below)

TakeFrame(f) == /\ used' = used \cup {f}
                /\ free_bytes' = free_bytes - PageSize
                /\ next_hint' = f + 1

(* pmm_free_frame on each of the frames.  One that is free already is left *)
(* alone by bitmap_mark.                                                   *)
HintAfter(frames) == CHOOSE h \in frames \cup {next_hint} :
                         \A g \in frames \cup {next_hint} : h <= g

FreeFrames(frames) ==
    /\ used' = used \ frames
    /\ free_bytes' = free_bytes + PageSize * Cardinality(frames \cap used)
    /\ next_hint' = HintAfter(frames)
=============================================================================
