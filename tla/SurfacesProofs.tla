--------------------------- MODULE SurfacesProofs ---------------------------
(***************************************************************************)
(* For every memory map and every size of buffer: the allocator's account  *)
(* is right, no free frame lies below the hint, buffers are separate from  *)
(* each other and from what the boot protected, and a request that fails   *)
(* leaves nothing behind.                                                  *)
(***************************************************************************)
EXTENDS Surfaces, FiniteSetTheorems, WellFoundedInduction, TLAPS

(* A set of naturals that is not empty has a smallest member. *)
LEMMA LeastOfNaturals ==
    ASSUME NEW S, S \subseteq Nat, S # {}
    PROVE  \E k \in S : \A j \in S : k <= j
<1> DEFINE Less == {ss \in Nat \X Nat : ss[1] < ss[2]}
<1>1. IsWellFoundedOn(Less, Nat)
  BY NatLessThanWellFounded DEF OpToRel
<1>2. PICK k \in S : \A j \in S : <<j, k>> \notin Less
  BY <1>1, WFMin
<1>3. \A j \in S : ~(j < k)
  BY <1>2
<1>4. QED
  BY <1>3

(* The page of p bytes that address b lies in. *)
LEMMA PageOf ==
    ASSUME NEW p \in Nat \ {0}, NEW b \in Nat
    PROVE  /\ b \div p \in Nat
           /\ p * (b \div p) <= b
           /\ b < p * (b \div p) + p
OBVIOUS

(* Pages below another end before it begins. *)
LEMMA PagesInOrder ==
    ASSUME NEW p \in Nat, NEW i \in Nat, NEW j \in Nat, i <= j
    PROVE  p * i <= p * j
OBVIOUS

PmmOK == /\ used \subseteq Frame
         /\ free_bytes = PageSize * Cardinality(Free)
         /\ next_hint \in 0 .. FrameLimit
         /\ NothingFreeBelowHint

(* What is taken, by the boot, by a buffer or by the running request, is   *)
(* marked used and taken once.                                             *)
TakenOnce == /\ Fixed \subseteq used
             /\ got \subseteq used
             /\ got \cap Fixed = {}
             /\ \A s \in surfaces : /\ Span(s) \subseteq used
                                    /\ Span(s) \cap got = {}
                                    /\ Span(s) \cap Fixed = {}
             /\ \A s, t \in surfaces : s # t => Span(s) \cap Span(t) = {}

(* The frames of a running request are a row that ends at the hint. *)
InRow == pc = "take" => /\ got = first .. first + Cardinality(got) - 1
                        /\ Cardinality(got) < want
                        /\ got # {} => next_hint = first + Cardinality(got)

(* Only the request has changed the bitmap since it began. *)
OnlyGotChanged == /\ pc = "idle" => got = {}
                  /\ pc # "idle" => used = before \cup got /\ before \cap got = {}

(* A request gives up when the row that begins at the lowest frame that    *)
(* was free to it is shorter than the buffer.                              *)
TooShort ==
    pc = "release" =>
        \/ got = {} /\ Free = {}
        \/ \E k \in 1 .. want - 1 :
              /\ first + k \notin got \cup Free
              /\ \A f \in got \cup Free : f >= first
              /\ first \in got

IInv == TypeOK /\ NothingFreeBelowHint /\ TakenOnce /\ InRow
               /\ OnlyGotChanged /\ TooShort
-----------------------------------------------------------------------------
LEMMA FrameFacts ==
    /\ FrameLimit \in Nat /\ PageSize \in Nat \ {0}
    /\ \A S \in SUBSET Frame : IsFiniteSet(S) /\ Cardinality(S) \in Nat
    /\ Fixed \subseteq Frame
<1>1. FrameLimit \in Nat /\ PageSize \in Nat \ {0}
  BY FrameAssumption
<1>2. IsFiniteSet(Frame)
  BY <1>1, FS_Interval DEF Frame
<1>3. \A S \in SUBSET Frame : IsFiniteSet(S) /\ Cardinality(S) \in Nat
  BY <1>2, FS_Subset, FS_CardinalityType
<1>4. Fixed \subseteq Frame
  BY DEF Fixed, FramesIn, FramesOf
<1>5. QED
  BY <1>1, <1>3, <1>4

(* pmm_alloc_frame returns the lowest free frame. *)
LEMMA TakeFrameStep ==
    ASSUME PmmOK, NEW f \in Candidate, TakeFrame(f)
    PROVE  /\ f \in Free
           /\ \A g \in Free : f <= g
           /\ PmmOK'
<1> USE FrameFacts DEF PmmOK, NothingFreeBelowHint
<1>1. f \in Free /\ \A g \in Free : f <= g
  BY DEF Candidate, FirstOf, Above, Below, Free, Frame
<1>2. used' = used \cup {f} /\ next_hint' = f + 1 /\ free_bytes' = free_bytes - PageSize
  BY DEF TakeFrame
<1>3. used' \subseteq Frame /\ next_hint' \in 0 .. FrameLimit
  BY <1>1, <1>2 DEF Free, Frame
<1>4. Free' = Free \ {f}
  BY <1>2 DEF Free, Frame
<1>5. free_bytes' = PageSize * Cardinality(Free')
  <2>1. IsFiniteSet(Free) /\ Cardinality(Free) \in Nat
    BY DEF Free
  <2>2. Cardinality(Free') = Cardinality(Free) - 1
    BY <2>1, <1>1, <1>4, FS_RemoveElement
  <2>3. QED
    BY <2>1, <2>2, <1>2
<1>6. Below' = {}
  BY <1>1, <1>2, <1>4 DEF Below, Free, Frame
<1>7. QED
  BY <1>1, <1>2, <1>3, <1>5, <1>6

(* Frames given back are counted once, and the hint moves below them. *)
LEMMA FreeFramesStep ==
    ASSUME PmmOK, NEW frames, frames \subseteq Frame, FreeFrames(frames)
    PROVE  PmmOK'
<1> USE FrameFacts DEF PmmOK, NothingFreeBelowHint
<1>1. /\ used' = used \ frames
      /\ free_bytes' = free_bytes + PageSize * Cardinality(frames \cap used)
      /\ next_hint' = HintAfter(frames)
  BY DEF FreeFrames
<1>2. Free' = Free \cup (frames \cap used)
  BY <1>1 DEF Free
<1>3. free_bytes' = PageSize * Cardinality(Free')
  <2>1. /\ IsFiniteSet(Free) /\ Cardinality(Free) \in Nat
        /\ IsFiniteSet(frames \cap used) /\ Cardinality(frames \cap used) \in Nat
    BY DEF Free
  <2>2. Free \cap (frames \cap used) = {}
    BY DEF Free
  <2>3. Cardinality(Free') = Cardinality(Free) + Cardinality(frames \cap used)
    <3>1. Cardinality(Free \cup (frames \cap used))
             = Cardinality(Free) + Cardinality(frames \cap used)
                 - Cardinality(Free \cap (frames \cap used))
      BY <2>1, FS_Union
    <3>2. Cardinality(Free \cap (frames \cap used)) = 0
      BY <2>2, FS_EmptySet
    <3>3. QED
      BY <2>1, <3>1, <3>2, <1>2
  <2>4. QED
    BY <2>1, <2>3, <1>1
<1>4. /\ next_hint' \in frames \cup {next_hint}
      /\ \A g \in frames \cup {next_hint} : next_hint' <= g
  <2>1. frames \cup {next_hint} \subseteq Nat
    BY DEF Frame
  <2>2. \E h \in frames \cup {next_hint} : \A g \in frames \cup {next_hint} : h <= g
    BY <2>1, LeastOfNaturals
  <2>3. QED
    BY <2>2, <1>1 DEF HintAfter
<1>5. next_hint' \in 0 .. FrameLimit
  BY <1>4 DEF Frame
<1>6. Below' = {}
  BY <1>2, <1>4, <1>5 DEF Below, Free, Frame
<1>7. QED
  BY <1>1, <1>3, <1>5, <1>6
-----------------------------------------------------------------------------
(* A frame that no protected region touches lies below it or above it. *)
LEMMA OutsideFixed ==
    ASSUME NEW f \in Frame \ Fixed, NEW r \in Protected
    PROVE  \/ (f + 1) * PageSize <= r.base
           \/ r.base + r.size <= f * PageSize
<1> DEFINE q == r.base \div PageSize
<1>1. /\ f \in Nat /\ r.base \in Nat /\ r.size \in Nat /\ PageSize \in Nat \ {0}
  BY RegionAssumption, FrameFacts DEF Region, Frame
<1>2. q \in Nat /\ PageSize * q <= r.base
  BY <1>1, PageOf
<1>3. ~(f >= q /\ f * PageSize < r.base + r.size)
  BY DEF Fixed, FramesIn, FramesOf
<1>4. CASE f < q
  <2>1. PageSize * (f + 1) <= PageSize * q
    BY <1>1, <1>2, <1>4, PagesInOrder
  <2>2. QED
    BY <1>1, <1>2, <2>1
<1>5. CASE ~(f * PageSize < r.base + r.size)
  BY <1>1, <1>5
<1>6. QED
  BY <1>1, <1>2, <1>3, <1>4, <1>5

LEMMA TakenOnceSeparates ==
    ASSUME TypeOK, TakenOnce
    PROVE  BuffersAreSeparate
<1>1. \A s \in surfaces : \A r \in Protected, f \in Span(s) :
         \/ (f + 1) * PageSize <= r.base
         \/ r.base + r.size <= f * PageSize
  <2>1. SUFFICES ASSUME NEW s \in surfaces, NEW r \in Protected, NEW f \in Span(s)
                 PROVE  \/ (f + 1) * PageSize <= r.base
                        \/ r.base + r.size <= f * PageSize
    OBVIOUS
  <2>2. f \in Frame \ Fixed
    BY DEF TakenOnce, TypeOK
  <2>3. QED
    BY <2>2, OutsideFixed
<1>2. QED
  BY <1>1 DEF BuffersAreSeparate, TakenOnce

LEMMA InitInv == Init => IInv
<1> SUFFICES ASSUME Init PROVE IInv
  OBVIOUS
<1> USE FrameFacts DEF Init, pmm_initialize
<1>1. TypeOK
  BY PagesAssumption DEF TypeOK, Free
<1>2. NothingFreeBelowHint
  BY DEF NothingFreeBelowHint, Below, Free, Frame
<1>3. TakenOnce /\ InRow /\ OnlyGotChanged /\ TooShort
  BY DEF TakenOnce, InRow, OnlyGotChanged, TooShort
<1>4. QED
  BY <1>1, <1>2, <1>3 DEF IInv
-----------------------------------------------------------------------------
(* A request begins. *)
LEMMA AllocateStep ==
    ASSUME IInv, NEW n \in 1 .. MaxPages, allocate_surface_buffer(n)
    PROVE  IInv'
<1> USE PagesAssumption DEF IInv, allocate_surface_buffer, pmmVars
<1>1. TypeOK'
  BY DEF TypeOK, Free, Span
<1>2. NothingFreeBelowHint'
  BY DEF NothingFreeBelowHint, Below, Free
<1>3. TakenOnce'
  BY DEF TakenOnce, Span
<1>4. InRow'
  <2>1. Cardinality(got') = 0
    BY FS_EmptySet
  <2>2. first \in Int
    BY FrameFacts DEF TypeOK, Frame
  <2>3. QED
    BY <2>1, <2>2 DEF InRow
<1>5. OnlyGotChanged' /\ TooShort'
  BY DEF OnlyGotChanged, TooShort
<1>6. QED
  BY <1>1, <1>2, <1>3, <1>4, <1>5

(* The next frame comes in a row. *)
LEMMA TakesStep ==
    ASSUME IInv, NEW f \in Frame, Takes(f)
    PROVE  IInv'
<1> USE PagesAssumption, FrameFacts DEF IInv
<1> DEFINE c == Cardinality(got)
<1>1. PmmOK /\ f \in Candidate /\ TakeFrame(f) /\ pc = "take"
  BY DEF PmmOK, TypeOK, Takes
<1>2. f \in Free /\ (\A g \in Free : f <= g) /\ PmmOK'
  BY <1>1, TakeFrameStep
<1>3. used' = used \cup {f} /\ next_hint' = f + 1
  BY <1>1 DEF TakeFrame
<1>4. /\ c \in Nat /\ c < want /\ IsFiniteSet(got)
      /\ got = first .. first + c - 1
      /\ first \in Nat /\ f \in Nat /\ want \in 1 .. MaxPages
  BY <1>1 DEF TypeOK, InRow, Frame
<1>5. c = 0 <=> got = {}
  BY <1>4, FS_EmptySet
<1>6. first' = IF got = {} THEN f ELSE first
  BY DEF Takes
<1>7. f = first' + c /\ first' \in Nat
  <2>1. got = {} \/ f = first + c
    BY DEF Takes
  <2>2. QED
    BY <2>1, <1>4, <1>5, <1>6
<1>8. got \cup {f} = first' .. first' + c
  <2>1. CASE got = {}
    <3>1. c = 0 /\ first' = f
      BY <2>1, <1>5, <1>6
    <3>2. {f} = f .. f + 0
      BY <1>4
    <3>3. QED
      BY <2>1, <3>1, <3>2
  <2>2. CASE got # {}
    <3>1. first' = first /\ f = first + c
      BY <2>2, <1>6, <1>7
    <3>2. (first .. first + c - 1) \cup {first + c} = first .. first + c
      BY <1>4
    <3>3. QED
      BY <3>1, <3>2, <1>4
  <2>3. QED
    BY <2>1, <2>2
<1>9. Cardinality(got \cup {f}) = c + 1
  BY <1>4, <1>2, FS_AddElement DEF TakenOnce, Free
<1>10. first' \in Frame
  BY <1>6, <1>7, <1>8, <1>4 DEF TypeOK
<1>11. f \notin Fixed /\ f \notin got /\ \A s \in surfaces : f \notin Span(s)
  BY <1>2 DEF TakenOnce, Free
<1>12. UNCHANGED <<want, before>>
  BY DEF Takes
<1>13. CASE c + 1 = want
  <2> DEFINE new == [first |-> first', pages |-> want]
  <2>1. surfaces' = surfaces \cup {new} /\ got' = {} /\ pc' = "idle"
    BY <1>13 DEF Takes
  <2>2. Span(new) = got \cup {f}
    BY <1>8, <1>13, <1>4, <1>7 DEF Span
  <2>3. TypeOK'
    BY <1>2, <1>4, <1>10, <1>12, <2>1 DEF TypeOK, PmmOK
  <2>4. TakenOnce'
    <3>1. /\ Span(new) \subseteq used' /\ Span(new) \cap Fixed = {}
          /\ \A s \in surfaces : Span(s) \cap Span(new) = {}
      BY <2>2, <1>3, <1>11 DEF TakenOnce
    <3>2. QED
      BY <3>1, <1>3, <2>1 DEF TakenOnce, Span
  <2>5. InRow' /\ OnlyGotChanged' /\ TooShort'
    BY <2>1 DEF InRow, OnlyGotChanged, TooShort
  <2>6. QED
    BY <2>3, <2>4, <2>5, <1>2 DEF PmmOK
<1>14. CASE c + 1 # want
  <2>1. got' = got \cup {f} /\ UNCHANGED <<pc, surfaces>>
    BY <1>14 DEF Takes
  <2>2. TypeOK'
    BY <1>2, <1>4, <1>10, <1>12, <2>1 DEF TypeOK, PmmOK
  <2>3. TakenOnce'
    BY <2>1, <1>3, <1>11 DEF TakenOnce, Span
  <2>4. InRow'
    <3>1. got' = first' .. first' + c /\ Cardinality(got') = c + 1
      BY <1>8, <1>9, <2>1
    <3>2. first' + (c + 1) - 1 = first' + c /\ c + 1 < want'
      BY <1>4, <1>7, <1>12, <1>14
    <3>3. got' = first' .. first' + Cardinality(got') - 1 /\ Cardinality(got') < want'
      BY <3>1, <3>2
    <3>4. next_hint' = first' + Cardinality(got')
      BY <1>3, <1>4, <1>7, <3>1
    <3>5. QED
      BY <3>3, <3>4 DEF InRow
  <2>5. OnlyGotChanged'
    BY <1>1, <1>2, <1>3, <1>12, <2>1 DEF OnlyGotChanged, Free
  <2>6. TooShort'
    BY <1>1, <2>1 DEF TooShort
  <2>7. QED
    BY <2>2, <2>3, <2>4, <2>5, <2>6, <1>2 DEF PmmOK
<1>15. QED
  BY <1>13, <1>14
(* It does not: the row is too short, since what is free lies behind it. *)
LEMMA OutOfRowStep ==
    ASSUME IInv, NEW f \in Frame, TakesOutOfRow(f)
    PROVE  IInv'
<1> USE PagesAssumption, FrameFacts DEF IInv
<1> DEFINE c == Cardinality(got)
<1>1. /\ PmmOK /\ f \in Candidate /\ TakeFrame(f) /\ pc = "take"
      /\ got # {} /\ f # first + c
      /\ got' = got \cup {f} /\ pc' = "release"
      /\ UNCHANGED <<want, first, before, surfaces>>
  BY DEF PmmOK, TypeOK, TakesOutOfRow
<1>2. f \in Free /\ (\A g \in Free : f <= g) /\ PmmOK'
  BY <1>1, TakeFrameStep
<1>3. used' = used \cup {f}
  BY <1>1 DEF TakeFrame
<1>4. /\ c \in Nat /\ c < want /\ IsFiniteSet(got)
      /\ got = first .. first + c - 1
      /\ next_hint = first + c
      /\ first \in Nat /\ f \in Nat /\ want \in 1 .. MaxPages
  BY <1>1 DEF TypeOK, InRow, Frame
<1>5. c \in 1 .. want - 1 /\ first \in got
  BY <1>1, <1>4, FS_EmptySet
<1>6. f > first + c /\ \A g \in Free : g > first + c
  <2>1. f >= next_hint
    BY <1>2, <1>4 DEF NothingFreeBelowHint, Below, Free, Frame, TypeOK
  <2>2. f > first + c
    BY <2>1, <1>1, <1>4
  <2>3. \A g \in Free : g \in Nat
    BY DEF Free, Frame
  <2>4. QED
    BY <2>2, <2>3, <1>2, <1>4
<1>7. Free' \subseteq Free
  BY <1>3 DEF Free
<1>8. TypeOK'
  BY <1>1, <1>2 DEF TypeOK, PmmOK
<1>9. TakenOnce'
  <2>1. f \notin Fixed /\ f \notin got /\ \A s \in surfaces : f \notin Span(s)
    BY <1>2 DEF TakenOnce, Free
  <2>2. QED
    BY <2>1, <1>1, <1>3 DEF TakenOnce, Span
<1>10. OnlyGotChanged'
  BY <1>1, <1>2, <1>3 DEF OnlyGotChanged, Free
<1>11. TooShort'
  <2>1. first' + c \notin got' \cup Free'
    BY <1>1, <1>4, <1>6, <1>7 DEF TypeOK, Frame
  <2>2. \A g \in got' \cup Free' : g >= first'
    BY <1>1, <1>4, <1>6, <1>7 DEF Free, Frame
  <2>3. c \in 1 .. want' - 1 /\ first' \in got'
    BY <1>1, <1>5
  <2>4. QED
    BY <2>1, <2>2, <2>3 DEF TooShort
<1>12. QED
  BY <1>1, <1>2, <1>8, <1>9, <1>10, <1>11 DEF InRow, PmmOK

(* No frame is left. *)
LEMMA NoFrameStep ==
    ASSUME IInv, NoFrameLeft
    PROVE  IInv'
<1> USE PagesAssumption, FrameFacts DEF IInv
<1> DEFINE c == Cardinality(got)
<1>1. /\ pc = "take" /\ pc' = "release" /\ Candidate = {}
      /\ UNCHANGED <<used, free_bytes, next_hint, want, first, got, before, surfaces>>
  BY DEF NoFrameLeft, pmmVars
<1>2. Free = {}
  <2>1. SUFFICES ASSUME Free # {} PROVE FALSE
    OBVIOUS
  <2>2. Free \subseteq Nat /\ Above = Free
    BY DEF NothingFreeBelowHint, Above, Below, Free, Frame, TypeOK
  <2>3. \E k \in Free : \A j \in Free : k <= j
    BY <2>1, <2>2, LeastOfNaturals
  <2>4. QED
    BY <2>1, <2>2, <2>3, <1>1 DEF Candidate, FirstOf
<1>3. /\ c \in Nat /\ c < want /\ IsFiniteSet(got)
      /\ got = first .. first + c - 1
      /\ first \in Nat /\ want \in 1 .. MaxPages
  BY <1>1 DEF TypeOK, InRow, Frame
<1>4. TooShort'
  <2>1. CASE got = {}
    BY <2>1, <1>1, <1>2 DEF TooShort, Free
  <2>2. CASE got # {}
    <3>1. c \in 1 .. want - 1 /\ first \in got
      BY <2>2, <1>3, FS_EmptySet
    <3>2. first + c \notin got /\ \A g \in got : g >= first
      BY <1>3
    <3>3. Free' = {}
      BY <1>1, <1>2 DEF Free
    <3>4. QED
      BY <3>1, <3>2, <3>3, <1>1 DEF TooShort
  <2>3. QED
    BY <2>1, <2>2
<1>5. TypeOK' /\ NothingFreeBelowHint'
  BY <1>1 DEF TypeOK, NothingFreeBelowHint, Below, Free
<1>6. TakenOnce' /\ InRow' /\ OnlyGotChanged'
  BY <1>1 DEF TakenOnce, InRow, OnlyGotChanged, Span
<1>7. QED
  BY <1>4, <1>5, <1>6

(* Everything taken is given back. *)
LEMMA ReleaseStep ==
    ASSUME IInv, Release
    PROVE  IInv'
<1> USE PagesAssumption, FrameFacts DEF IInv
<1>1. /\ PmmOK /\ FreeFrames(got) /\ got \subseteq Frame
      /\ got' = {} /\ pc' = "idle"
      /\ UNCHANGED <<want, first, before, surfaces>>
  BY DEF PmmOK, TypeOK, Release
<1>2. PmmOK'
  BY <1>1, FreeFramesStep
<1>3. used' = used \ got
  BY <1>1 DEF FreeFrames
<1>4. TypeOK'
  BY <1>1, <1>2 DEF TypeOK, PmmOK
<1>5. TakenOnce'
  BY <1>1, <1>3 DEF TakenOnce, Span
<1>6. QED
  BY <1>1, <1>2, <1>4, <1>5 DEF PmmOK, InRow, OnlyGotChanged, TooShort

(* A buffer is given back. *)
LEMMA FreeStep ==
    ASSUME IInv, NEW s \in surfaces, free_surface_buffer(s)
    PROVE  IInv'
<1> USE PagesAssumption, FrameFacts DEF IInv
<1>1. /\ PmmOK /\ FreeFrames(Span(s)) /\ Span(s) \subseteq Frame
      /\ pc = "idle" /\ surfaces' = surfaces \ {s}
      /\ UNCHANGED <<pc, want, first, got, before>>
  BY DEF PmmOK, TypeOK, TakenOnce, free_surface_buffer
<1>2. PmmOK'
  BY <1>1, FreeFramesStep
<1>3. used' = used \ Span(s)
  BY <1>1 DEF FreeFrames
<1>4. TypeOK'
  BY <1>1, <1>2 DEF TypeOK, PmmOK
<1>5. TakenOnce'
  BY <1>1, <1>3 DEF TakenOnce, Span
<1>6. QED
  BY <1>1, <1>2, <1>4, <1>5 DEF PmmOK, InRow, OnlyGotChanged, TooShort

(* A stuttering step. *)
LEMMA StutterStep == IInv /\ UNCHANGED vars => IInv'
BY DEF IInv, vars, pmmVars, TypeOK, NothingFreeBelowHint, Below, Free, TakenOnce,
       InRow, OnlyGotChanged, TooShort, Span

LEMMA StepInv == IInv /\ [Next]_vars => IInv'
BY AllocateStep, TakesStep, OutOfRowStep, NoFrameStep, ReleaseStep, FreeStep,
   StutterStep DEF Next

(* Every variable keeps its type, the account of free memory among them,   *)
(* whatever the memory map, the protected regions and the sizes asked for  *)
(* (pmm.c:81-121).                                                         *)
THEOREM SurfaceTypes == Spec => []TypeOK
<1>1. IInv => TypeOK
  BY DEF IInv
<1>2. QED
  BY InitInv, StepInv, <1>1, PTL DEF Spec

(* The search may begin at the hint: no request that failed and no buffer  *)
(* given back has left a free frame below it (pmm.c:95-111, 116-121).      *)
THEOREM HintIsLowest == Spec => []NothingFreeBelowHint
<1>1. IInv => NothingFreeBelowHint
  BY DEF IInv
<1>2. QED
  BY InitInv, StepInv, <1>1, PTL DEF Spec

(* No frame is in two buffers, in a buffer and in a request that is under  *)
(* way, or in a buffer and in what was there before the allocator          *)
(* (pmm.c:81-91, gui.cpp:624-668).                                         *)
THEOREM AllocatorCorrect == Spec => []BuffersAreSeparate
<1>1. IInv => BuffersAreSeparate
  BY TakenOnceSeparates DEF IInv
<1>2. QED
  BY InitInv, StepInv, <1>1, PTL DEF Spec
-----------------------------------------------------------------------------
(* A request that fails (gui.cpp:636-651) restores the bitmap, and fails   *)
(* only because the row of free frames at the lowest one is too short.     *)
THEOREM FailuresAreClean == Spec => FailureIsClean
<1> DEFINE Clean ==
      pc = "release" /\ pc' = "idle" =>
          /\ used' = before
          /\ \A f \in Free' : (\A g \in Free' : f <= g)
                  => ~(f .. f + want - 1 \subseteq Free')
<1>1. IInv /\ [Next]_vars => [Clean]_vars
  <2>1. SUFFICES ASSUME IInv, Next, pc = "release", pc' = "idle"
                 PROVE  Clean
    OBVIOUS
  <2>2. FreeFrames(got)
    BY <2>1 DEF Next, allocate_surface_buffer, Takes, TakesOutOfRow, NoFrameLeft,
                Release, free_surface_buffer
  <2>3. used = before \cup got /\ before \cap got = {} /\ used' = used \ got
    BY <2>1, <2>2 DEF IInv, OnlyGotChanged, FreeFrames
  <2>4. Free' = Free \cup got
    BY <2>1, <2>2 DEF FreeFrames, Free, IInv, TypeOK, TakenOnce
  <2>5. ASSUME NEW f \in Free', \A g \in Free' : f <= g
        PROVE  ~(f .. f + want - 1 \subseteq Free')
    <3>1. PICK k \in 1 .. want - 1 : /\ first + k \notin Free'
                                     /\ \A g \in Free' : g >= first
                                     /\ first \in Free'
      BY <2>1, <2>4, <2>5 DEF IInv, TooShort
    <3>2. f = first /\ first \in Nat /\ want \in Nat
      <4>1. first \in Nat /\ want \in Nat
        BY <2>1, FrameFacts, PagesAssumption DEF Frame, IInv, TypeOK
      <4>2. f \in Int
        BY <2>5, FrameFacts DEF Free, Frame
      <4>3. f <= first /\ f >= first
        BY <3>1, <2>5
      <4>4. QED
        BY <4>1, <4>2, <4>3
    <3>3. first + k \in f .. f + want - 1
      BY <3>1, <3>2
    <3>4. QED
      BY <3>1, <3>3
  <2>6. QED
    BY <2>3, <2>5
<1>2. QED
  BY InitInv, StepInv, <1>1, PTL DEF Spec, FailureIsClean
=============================================================================
