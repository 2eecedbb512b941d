--------------------------- MODULE DesktopProofs ---------------------------
(***************************************************************************)
(* For any width, any windows and any places to begin with: one cursor is  *)
(* on the screen, and every tile shows what is on top there, whatever      *)
(* mixture of full and partial drawing has led to it.                      *)
(***************************************************************************)
EXTENDS Desktop, FiniteSetTheorems, WellFoundedInduction, TLAPS

(* A set of naturals that is not empty has a smallest member. *)
LEMMA LeastOfNaturals ==
    ASSUME NEW S, S \subseteq Nat, S # {}
    PROVE  \E k \in S : \A j \in S : k <= j
<1> DEFINE Less == {ss \in Nat \X Nat : ss[1] < ss[2]}
<1>1. IsWellFoundedOn(Less, Nat)
  BY NatLessThanWellFounded DEF OpToRel
<1>2. PICK k \in S : \A j \in S : <<j, k>> \notin Less
  BY <1>1, WFMin
<1>3. \A j \in S : ~(j < k)
  BY <1>2
<1>4. QED
  BY <1>3

N == Cardinality(Window)

(* Every window has exactly one slot of the order. *)
Stacked(s) == /\ \A j, k \in 1 .. N : s.order[j] = s.order[k] => j = k
              /\ \A w \in Window : \E k \in 1 .. N : s.order[k] = w

WindowsOk(s) == s \in WindowsState /\ Stacked(s)

LEMMA Counted == IsFiniteSet(Window) /\ N \in Nat /\ N >= 1
<1>1. IsFiniteSet({"SEARCH"}) /\ IsFiniteSet({"SEARCH"} \cup {"SETTINGS"})
  BY FS_Singleton, FS_AddElement
<1>2. IsFiniteSet(Window)
  <2>1. IsFiniteSet({"SEARCH", "SETTINGS"})
    BY <1>1
  <2>2. QED
    BY <2>1, FS_Union, WindowsAssumption DEF Window
<1>3. Window # {}
  BY DEF Window
<1>4. QED
  BY <1>2, <1>3, FS_CardinalityType, FS_EmptySet DEF N

LEMMA SlotIs ==
    ASSUME NEW s \in WindowsState, Stacked(s), NEW w \in Window
    PROVE  SlotOf(s, w) \in 1 .. N /\ s.order[SlotOf(s, w)] = w
<1>1. DOMAIN s.order = 1 .. N
  BY DEF WindowsState, N
<1>2. \E k \in DOMAIN s.order : s.order[k] = w
  BY <1>1 DEF Stacked
<1>3. QED
  BY <1>1, <1>2 DEF SlotOf

LEMMA SlotOnly ==
    ASSUME NEW s \in WindowsState, Stacked(s), NEW k \in 1 .. N
    PROVE  SlotOf(s, s.order[k]) = k
<1>1. s.order[k] \in Window
  BY DEF WindowsState, N
<1>2. SlotOf(s, s.order[k]) \in 1 .. N /\ s.order[SlotOf(s, s.order[k])] = s.order[k]
  BY <1>1, SlotIs
<1>3. QED
  BY <1>2 DEF Stacked

-----------------------------------------------------------------------------
(* The window of some with the last slot. *)
LEMMA TopmostIs ==
    ASSUME NEW s, WindowsOk(s), NEW some \in SUBSET Window, NEW w \in some,
           \A v \in some : SlotOf(s, v) <= SlotOf(s, w)
    PROVE  Topmost(s, some) = w
<1> DEFINE Last(x) == \A v \in some : SlotOf(s, v) <= SlotOf(s, x)
<1>1. PICK x \in some : x = (CHOOSE y \in some : Last(y)) /\ Last(x)
  OBVIOUS
<1>2. SlotOf(s, x) \in 1 .. N /\ SlotOf(s, w) \in 1 .. N /\ x \in Window /\ w \in Window
  BY SlotIs DEF WindowsOk
<1>3. SlotOf(s, x) = SlotOf(s, w)
  <2>1. SlotOf(s, x) <= SlotOf(s, w) /\ SlotOf(s, w) <= SlotOf(s, x)
    BY <1>1
  <2>2. QED
    BY <1>2, <2>1
<1>4. x = w
  BY <1>2, <1>3, SlotIs DEF WindowsOk
<1>5. Topmost(s, some) = x
  BY <1>1 DEF Topmost
<1>6. QED
  BY <1>4, <1>5

LEMMA LastExists ==
    ASSUME NEW s, WindowsOk(s), NEW some \in SUBSET Window, some # {}
    PROVE  \E w \in some : \A v \in some : SlotOf(s, v) <= SlotOf(s, w)
<1> DEFINE Depths == {N - SlotOf(s, w) : w \in some}
<1>1. \A w \in some : SlotOf(s, w) \in 1 .. N
  BY SlotIs DEF WindowsOk
<1>2. N \in Nat
  BY Counted
<1>3. Depths \subseteq Nat /\ Depths # {}
  BY <1>1, <1>2
<1>4. PICK d \in Depths : \A e \in Depths : d <= e
  BY <1>3, LeastOfNaturals
<1>5. PICK w \in some : d = N - SlotOf(s, w)
  BY <1>4
<1>6. ASSUME NEW v \in some
      PROVE  SlotOf(s, v) <= SlotOf(s, w)
  <2>1. N - SlotOf(s, w) <= N - SlotOf(s, v)
    BY <1>4, <1>5
  <2>2. QED
    BY <1>1, <1>2, <2>1
<1>7. QED
  BY <1>6

(* The same windows in the same slots have the same one on top. *)
LEMMA SameTop ==
    ASSUME NEW a, WindowsOk(a), NEW b, WindowsOk(b), NEW some \in SUBSET Window,
           \A w \in some : SlotOf(a, w) = SlotOf(b, w)
    PROVE  Topmost(a, some) = Topmost(b, some)
<1>1. CASE some = {}
  BY <1>1 DEF Topmost
<1>2. CASE some # {}
  <2>1. PICK w \in some : \A v \in some : SlotOf(a, v) <= SlotOf(a, w)
    BY <1>2, LastExists
  <2>2. \A v \in some : SlotOf(b, v) <= SlotOf(b, w)
    BY <2>1
  <2>3. Topmost(a, some) = w
    BY <2>1, TopmostIs
  <2>4. Topmost(b, some) = w
    BY <2>2, TopmostIs
  <2>5. QED
    BY <2>3, <2>4
<1>3. QED
  BY <1>1, <1>2

-----------------------------------------------------------------------------
(* What is seen at a tile does not change when the windows there keep      *)
(* their slots and a drag begins with the window in front or ends with one *)
(* that is not there.                                                      *)
LEMMA NoWindowIs == NoWindow \notin Window /\ Window \cap {"shell", "PROMPT", "POWER"} = {}
BY WindowsAssumption DEF Window, NoWindow

Kept(a, b, t) ==
    /\ Here(a, t) = Here(b, t)
    /\ \A w \in Here(a, t) : SlotOf(a, w) = SlotOf(b, w)
    /\ \/ a.drag = b.drag
       \/ a.drag \notin Here(a, t) /\ b.drag \notin Here(b, t)
       \/ a.drag = NoWindow /\ b.drag = b.order[N]

InFront(s, t) == IF s.drag \in Here(s, t) THEN s.drag ELSE Topmost(s, Here(s, t) \ {s.drag})

LEMMA SameInFront ==
    ASSUME NEW a, WindowsOk(a), NEW b, WindowsOk(b), NEW t, Kept(a, b, t)
    PROVE  InFront(a, t) = InFront(b, t)
<1> DEFINE there == Here(a, t)
<1>1. /\ there \in SUBSET Window /\ there = Here(b, t)
      /\ \A w \in there : SlotOf(a, w) = SlotOf(b, w)
  BY DEF Kept, Here
<1> HIDE DEF there
<1>2. CASE a.drag = b.drag
  <2>1. there \ {a.drag} \in SUBSET Window
    BY <1>1
  <2>2. Topmost(a, there \ {a.drag}) = Topmost(b, there \ {a.drag})
    BY <1>1, <2>1, SameTop
  <2>3. QED
    BY <1>1, <1>2, <2>2 DEF InFront, there
<1>3. CASE a.drag \notin there /\ b.drag \notin there
  <2>1. there \ {a.drag} = there /\ there \ {b.drag} = there
    BY <1>3
  <2>2. Topmost(a, there) = Topmost(b, there)
    BY <1>1, SameTop
  <2>3. QED
    BY <1>1, <1>3, <2>1, <2>2 DEF InFront, there
<1>4. CASE a.drag = NoWindow /\ b.drag = b.order[N] /\ b.drag \in there
  <2>1. a.drag \notin there /\ there \ {a.drag} = there
    BY <1>1, <1>4, NoWindowIs
  <2>2. N \in 1 .. N
    BY Counted
  <2>3. SlotOf(b, b.drag) = N
    BY <1>4, <2>2, SlotOnly DEF WindowsOk
  <2>4. \A v \in there : SlotOf(b, v) \in 1 .. N
    BY <1>1, SlotIs DEF WindowsOk
  <2>5. \A v \in there : SlotOf(b, v) <= SlotOf(b, b.drag)
    BY <2>3, <2>4
  <2>6. Topmost(b, there) = b.drag
    BY <1>1, <1>4, <2>5, TopmostIs
  <2>7. Topmost(a, there) = Topmost(b, there)
    BY <1>1, SameTop
  <2>8. QED
    BY <1>1, <1>4, <2>1, <2>6, <2>7 DEF InFront, there
<1>5. CASE a.drag = NoWindow /\ b.drag \notin there
  BY <1>1, <1>3, <1>5, NoWindowIs
<1>6. QED
  BY <1>1, <1>2, <1>3, <1>4, <1>5 DEF Kept, there

LEMMA TileKinds == PromptTile \in Cells /\ Tiles = Cells \cup {Bar, Dock} /\ Bar \notin Cells /\ Dock \notin Cells /\ Bar # Dock
BY WindowsAssumption DEF PromptTile, Tiles, Cells, Bar, Dock

LEMMA PictureIs ==
    ASSUME NEW s, NEW shown \in BOOLEAN, NEW t
    PROVE  Picture(s, shown, t) =
              IF s.power THEN PowerScreen
              ELSE IF t \in Cells /\ shown /\ t = PromptTile THEN [top |-> "PROMPT", mask |-> <<>>]
              ELSE IF t \in Cells /\ InFront(s, t) # NoWindow
                   THEN [top |-> InFront(s, t), mask |-> <<>>] ELSE Shell(s, t)
BY DEF Picture, InFront, NoWindow

LEMMA SamePicture ==
    ASSUME NEW a, WindowsOk(a), NEW b, WindowsOk(b), ~a.power, ~b.power,
           NEW shown \in BOOLEAN, NEW t \in Tiles,
           t \in Cells => Kept(a, b, t), t = Dock => DockMask(a) = DockMask(b)
    PROVE  Picture(a, shown, t) = Picture(b, shown, t)
<1>1. Shell(a, t) = Shell(b, t)
  BY DEF Shell
<1>2. t \in Cells => InFront(a, t) = InFront(b, t)
  BY SameInFront
<1>3. QED
  BY <1>1, <1>2, PictureIs

-----------------------------------------------------------------------------
(* The operations on windows. *)
LEMMA PlaceNumbers ==
    ASSUME NEW p \in Places
    PROVE  p.at \in Cells /\ p.wide \in Cells /\ p.at \in Nat /\ p.wide \in Nat
           /\ p.at + p.wide <= Width + 1 /\ Width \in Nat
BY WindowsAssumption DEF Places, Cells

LEMMA PlaceMoved ==
    ASSUME NEW p \in Places, NEW at \in Nat, at >= 1, at + p.wide <= Width + 1
    PROVE  [p EXCEPT !.at = at] \in Places
<1>1. at \in Cells
  BY PlaceNumbers DEF Cells
<1>2. QED
  BY <1>1, PlaceNumbers DEF Places

LEMMA Clamped ==
    ASSUME NEW p \in Places, NEW at \in Nat
    PROVE  Clamp(at, p.wide) \in Nat /\ Clamp(at, p.wide) >= 1
           /\ Clamp(at, p.wide) + p.wide <= Width + 1
<1>1. PICK n \in Nat : n = p.wide
  BY PlaceNumbers
<1>2. n >= 1 /\ n <= Width /\ Width \in Nat
  BY <1>1, PlaceNumbers DEF Cells
<1>3. QED
  BY <1>1, <1>2 DEF Clamp

(* An operation that leaves the order alone.                               *)
Quiet(s, u) == u \in WindowsState /\ u.order = s.order

LEMMA QuietOk ==
    ASSUME NEW s, WindowsOk(s), NEW u, Quiet(s, u)
    PROVE  WindowsOk(u)
BY DEF WindowsOk, Quiet, Stacked

LEMMA CloseIs ==
    ASSUME NEW s, WindowsOk(s), NEW w \in Window
    PROVE  /\ Quiet(s, CloseWindow(s, w))
           /\ CloseWindow(s, w).drag \in {s.drag, NoWindow}
<1> DEFINE v == [s.win[w] EXCEPT !.open = FALSE, !.mini = FALSE]
           kept == IF s.drag = w THEN NoWindow ELSE s.drag
<1>1. s \in WindowsState /\ s.win[w] \in WindowState /\ v \in WindowState
  BY DEF WindowsOk, WindowsState, WindowState
<1>2. CloseWindow(s, w) = [s EXCEPT !.win[w] = v, !.drag = kept]
  BY <1>1 DEF CloseWindow, WindowsState, WindowState
<1>3. kept \in {s.drag, NoWindow} /\ kept \in Window \cup {NoWindow}
  BY <1>1 DEF WindowsState
<1> HIDE DEF v, kept
<1> DEFINE u == [s EXCEPT !.win[w] = v, !.drag = kept]
<1>4. /\ u \in WindowsState /\ u.order = s.order
      /\ u.drag = kept
  BY <1>1, <1>3 DEF WindowsState
<1> HIDE DEF u
<1>5. QED
  BY <1>2, <1>3, <1>4 DEF Quiet, u

LEMMA MinimizeIs ==
    ASSUME NEW s, WindowsOk(s), NEW w \in Window
    PROVE  Quiet(s, MinimizeWindow(s, w)) /\ MinimizeWindow(s, w).drag = s.drag
<1> DEFINE v == [s.win[w] EXCEPT !.open = TRUE, !.mini = TRUE]
<1>1. s \in WindowsState /\ s.win[w] \in WindowState /\ v \in WindowState
  BY DEF WindowsOk, WindowsState, WindowState
<1>2. MinimizeWindow(s, w) = [s EXCEPT !.win[w] = v]
  BY <1>1 DEF MinimizeWindow, WindowsState, WindowState
<1> HIDE DEF v
<1>3. QED
  BY <1>1, <1>2 DEF WindowsState, Quiet

LEMMA MenuIs ==
    ASSUME NEW s, WindowsOk(s), NEW b \in BOOLEAN
    PROVE  Quiet(s, [s EXCEPT !.menu = b]) /\ [s EXCEPT !.menu = b].drag = s.drag
BY DEF WindowsOk, WindowsState, Quiet

LEMMA SearchIs ==
    ASSUME NEW s, WindowsOk(s)
    PROVE  Quiet(s, PositionSearch(s)) /\ PositionSearch(s).drag = s.drag
<1> DEFINE p == s.win["SEARCH"].place
           at == IF s.style = "TENUI" THEN 1 ELSE (Width - p.wide) \div 2 + 1
<1>1. "SEARCH" \in Window /\ s.win["SEARCH"] \in WindowState /\ p \in Places
  BY DEF WindowsOk, WindowsState, WindowState, Window
<1>2. at \in Nat /\ at >= 1 /\ at + p.wide <= Width + 1
  <2>1. PICK n \in Nat : n = p.wide
    BY <1>1, PlaceNumbers
  <2>2. n <= Width /\ Width \in Nat
    BY <1>1, <2>1, PlaceNumbers DEF Cells
  <2>3. QED
    BY <2>1, <2>2
<1>3. [p EXCEPT !.at = at] \in Places
  BY <1>1, <1>2, PlaceMoved
<1> DEFINE moved == [p EXCEPT !.at = at]
           v == [s.win["SEARCH"] EXCEPT !.place = moved]
<1>4. PositionSearch(s) = [s EXCEPT !.win["SEARCH"].place.at = at]
  BY DEF PositionSearch
<1> HIDE DEF at
<1>5. PositionSearch(s) = [s EXCEPT !.win["SEARCH"] = v]
  BY <1>1, <1>4 DEF WindowsOk, WindowsState, WindowState
<1> HIDE DEF moved
<1>6. v \in WindowState
  BY <1>1, <1>3 DEF WindowState, moved
<1> HIDE DEF v
<1>7. QED
  BY <1>1, <1>5, <1>6 DEF WindowsOk, WindowsState, Quiet

LEMMA StyleIs ==
    ASSUME NEW s, WindowsOk(s), NEW style \in Styles
    PROVE  Quiet(s, SetStyle(s, style)) /\ SetStyle(s, style).drag = s.drag
<1> DEFINE u == [s EXCEPT !.style = style]
<1>1. Quiet(s, u) /\ u.drag = s.drag
  BY DEF WindowsOk, WindowsState, Quiet
<1>2. WindowsOk(u)
  BY <1>1, QuietOk
<1> HIDE DEF u
<1>3. Quiet(u, PositionSearch(u)) /\ PositionSearch(u).drag = u.drag
  BY <1>2, SearchIs
<1>4. QED
  BY <1>1, <1>3 DEF SetStyle, Quiet, u

LEMMA FullscreenIs ==
    ASSUME NEW s, WindowsOk(s), NEW w \in Window
    PROVE  Quiet(s, ToggleFullscreen(s, w)) /\ ToggleFullscreen(s, w).drag = s.drag
<1> DEFINE v == s.win[w]
           back0 == [v.restore EXCEPT !.at = Clamp(v.restore.at, v.restore.wide)]
           all == [at |-> 1, wide |-> Width]
<1>1. v \in WindowState /\ v.restore \in Places /\ v.place \in Places /\ s \in WindowsState
  BY DEF WindowsOk, WindowsState, WindowState
<1>2. v.restore.at \in Nat
  BY <1>1, PlaceNumbers
<1>3. back0 \in Places
  BY <1>1, <1>2, Clamped, PlaceMoved
<1>4. all \in Places
  BY WindowsAssumption DEF Places, Cells
<1> DEFINE gone == [s EXCEPT !.win[w].place = back0, !.win[w].full = FALSE]
           grown == [s EXCEPT !.win[w].restore = v.place, !.win[w].full = TRUE,
                              !.win[w].place = all]
<1>5. ToggleFullscreen(s, w) \in {s, gone, grown}
  BY DEF ToggleFullscreen
<1> HIDE DEF back0, all
<1>6. Quiet(s, s) /\ Quiet(s, gone) /\ gone.drag = s.drag
  BY <1>1, <1>3 DEF WindowsState, WindowState, Quiet
<1>7. Quiet(s, grown) /\ grown.drag = s.drag
  BY <1>1, <1>4 DEF WindowsState, WindowState, Quiet
<1> HIDE DEF gone, grown
<1>8. QED
  BY <1>5, <1>6, <1>7

LEMMA FrontIs ==
    ASSUME NEW s, WindowsOk(s), NEW w \in Window
    PROVE  /\ WindowsOk(ToFront(s, w))
           /\ ToFront(s, w).drag = s.drag
           /\ ToFront(s, w).win = s.win
           /\ ToFront(s, w).order[N] = w
<1> DEFINE k0 == SlotOf(s, w)
           moved == [k \in 1 .. N |-> IF k < k0 THEN s.order[k]
                                      ELSE IF k < N THEN s.order[k + 1] ELSE w]
<1>1. s \in WindowsState /\ Stacked(s) /\ s.order \in [1 .. N -> Window]
  BY DEF WindowsOk, WindowsState, N
<1>2. N \in Nat /\ N >= 1
  BY Counted
<1>3. k0 \in 1 .. N /\ s.order[k0] = w
  BY <1>1, SlotIs
<1>4. ToFront(s, w) = [s EXCEPT !.order = moved]
  BY <1>1 DEF ToFront, N, WindowsState
<1> HIDE DEF k0
<1>5. moved \in [1 .. N -> Window]
  BY <1>1, <1>2, <1>3
<1>6. moved[N] = w
  BY <1>2, <1>3
<1>7. ASSUME NEW j \in 1 .. N, NEW k \in 1 .. N, moved[j] = moved[k]
      PROVE  j = k
  <2> DEFINE From(i) == IF i < k0 THEN i ELSE IF i < N THEN i + 1 ELSE k0
  <2>1. \A i \in 1 .. N : From(i) \in 1 .. N /\ moved[i] = s.order[From(i)]
    BY <1>2, <1>3
  <2>2. s.order[From(j)] = s.order[From(k)]
    BY <1>7, <2>1
  <2>3. From(j) = From(k)
    BY <1>1, <2>1, <2>2 DEF Stacked
  <2>4. QED
    BY <1>2, <1>3, <2>3
<1>8. ASSUME NEW x \in Window
      PROVE  \E k \in 1 .. N : moved[k] = x
  <2>1. PICK k \in 1 .. N : s.order[k] = x
    BY <1>1 DEF Stacked
  <2>2. CASE k < k0
    BY <2>1, <2>2
  <2>3. CASE k = k0
    BY <1>2, <1>3, <1>6, <2>1, <2>3
  <2>4. CASE k > k0
    <3>1. k - 1 \in 1 .. N /\ ~(k - 1 < k0) /\ k - 1 < N /\ k - 1 + 1 = k
      BY <1>2, <1>3, <2>4
    <3>2. moved[k - 1] = s.order[k]
      BY <3>1
    <3>3. QED
      BY <2>1, <3>1, <3>2
  <2>5. QED
    BY <1>3, <2>2, <2>3, <2>4
<1> HIDE DEF moved
<1>9. [s EXCEPT !.order = moved] \in WindowsState
  BY <1>1, <1>5 DEF WindowsState, N
<1>10. /\ [s EXCEPT !.order = moved].order = moved
       /\ [s EXCEPT !.order = moved].drag = s.drag
       /\ [s EXCEPT !.order = moved].win = s.win
  BY <1>1 DEF WindowsState
<1>11. QED
  BY <1>4, <1>6, <1>7, <1>8, <1>9, <1>10 DEF WindowsOk, Stacked

(* What an operation makes of the windows: windows again, and dragged the  *)
(* one that was or none.                                                   *)
Follows(s, u) == WindowsOk(u) /\ u.drag \in {s.drag, NoWindow}

LEMMA Follow ==
    ASSUME NEW s, NEW u, NEW v, Follows(s, u), Follows(u, v)
    PROVE  Follows(s, v)
BY DEF Follows

LEMMA FollowClose ==
    ASSUME NEW s, WindowsOk(s), NEW w \in Window
    PROVE  Follows(s, CloseWindow(s, w))
BY CloseIs, QuietOk DEF Follows

LEMMA FollowMinimize ==
    ASSUME NEW s, WindowsOk(s), NEW w \in Window
    PROVE  Follows(s, MinimizeWindow(s, w))
BY MinimizeIs, QuietOk DEF Follows

LEMMA FollowMenu ==
    ASSUME NEW s, WindowsOk(s)
    PROVE  /\ Follows(s, WithoutMenu(s))
           /\ Follows(s, [s EXCEPT !.menu = ~@])
<1>1. s.menu \in BOOLEAN /\ [s EXCEPT !.menu = ~@] = [s EXCEPT !.menu = ~s.menu]
  BY DEF WindowsOk, WindowsState
<1>2. QED
  BY <1>1, MenuIs, QuietOk DEF Follows, WithoutMenu

LEMMA FollowFront ==
    ASSUME NEW s, WindowsOk(s), NEW w \in Window
    PROVE  Follows(s, ToFront(s, w))
BY FrontIs DEF Follows

LEMMA FollowOpen ==
    ASSUME NEW s, WindowsOk(s), NEW w \in Window
    PROVE  Follows(s, OpenWindow(s, w))
<1> DEFINE v == [s.win[w] EXCEPT !.open = TRUE, !.mini = FALSE]
           opened == [s EXCEPT !.win[w] = v]
           placed == IF w = "SEARCH" THEN PositionSearch(opened) ELSE opened
<1>1. s \in WindowsState /\ s.win[w] \in WindowState /\ v \in WindowState
  BY DEF WindowsOk, WindowsState, WindowState
<1>2. OpenWindow(s, w) = ToFront(placed, w)
  BY <1>1 DEF OpenWindow, WindowsState, WindowState
<1> HIDE DEF v
<1>3. Quiet(s, opened) /\ opened.drag = s.drag
  BY <1>1 DEF WindowsState, Quiet
<1> HIDE DEF opened
<1>4. WindowsOk(opened)
  BY <1>3, QuietOk
<1>5. Quiet(opened, PositionSearch(opened)) /\ PositionSearch(opened).drag = opened.drag
  BY <1>4, SearchIs
<1>6. WindowsOk(PositionSearch(opened))
  BY <1>4, <1>5, QuietOk
<1>7. Follows(s, placed)
  BY <1>3, <1>4, <1>5, <1>6 DEF Follows
<1> HIDE DEF placed
<1>8. Follows(placed, ToFront(placed, w))
  BY <1>7, FollowFront DEF Follows
<1>9. QED
  BY <1>2, <1>7, <1>8, Follow

LEMMA Named == "SEARCH" \in Window /\ "SETTINGS" \in Window /\ Plain \subseteq Window
               /\ DockApps \subseteq Window /\ LauncherResults \subseteq Window
BY DEF Window, DockApps, LauncherResults

LEMMA FollowToggle ==
    ASSUME NEW s, WindowsOk(s), NEW w \in DockApps
    PROVE  Follows(s, ToggleDock(s, w))
<1> DEFINE u == IF w = "SEARCH" THEN WithoutMenu(s) ELSE s
<1>1. w \in Window /\ Follows(s, s)
  BY Named DEF Follows
<1>2. Follows(s, u) /\ WindowsOk(u)
  BY <1>1, FollowMenu DEF Follows
<1>3. ToggleDock(s, w) \in {OpenWindow(u, w), CloseWindow(u, w), MinimizeWindow(u, w)}
  BY DEF ToggleDock
<1> HIDE DEF u
<1>4. Follows(u, ToggleDock(s, w))
  BY <1>1, <1>2, <1>3, FollowOpen, FollowClose, FollowMinimize
<1>5. QED
  BY <1>2, <1>4, Follow

LEMMA FollowMatch ==
    ASSUME NEW s, WindowsOk(s), NEW w \in Window
    PROVE  Follows(s, OpenMatch(s, w)) /\ Follows(s, Launch(s, w))
<1> DEFINE u == OpenWindow(s, w)
           v == CloseWindow(u, "SEARCH")
<1>1. Follows(s, u) /\ WindowsOk(u)
  BY FollowOpen DEF Follows
<1>2. Follows(u, v) /\ WindowsOk(v)
  BY <1>1, Named, FollowClose DEF Follows
<1>3. Follows(v, WithoutMenu(v))
  BY <1>2, FollowMenu
<1>4. OpenMatch(s, w) = v /\ Launch(s, w) = WithoutMenu(v)
  BY DEF OpenMatch, Launch
<1> HIDE DEF u, v
<1>5. Follows(s, v)
  BY <1>1, <1>2, Follow
<1>6. QED
  BY <1>3, <1>4, <1>5, Follow

LEMMA FollowPower ==
    ASSUME NEW s, WindowsOk(s)
    PROVE  Follows(s, BeginPowerAction(s))
<1> DEFINE u == [s EXCEPT !.power = TRUE]
           v == CloseWindow(u, "SEARCH")
<1>1. Quiet(s, u) /\ u.drag = s.drag
  BY DEF WindowsOk, WindowsState, Quiet
<1>2. Follows(s, u) /\ WindowsOk(u)
  BY <1>1, QuietOk DEF Follows
<1>3. BeginPowerAction(s) = WithoutMenu(v)
  BY DEF BeginPowerAction
<1> HIDE DEF u
<1>4. Follows(u, v) /\ WindowsOk(v)
  BY <1>2, Named, FollowClose DEF Follows
<1> HIDE DEF v
<1>5. Follows(v, WithoutMenu(v))
  BY <1>4, FollowMenu
<1>6. Follows(s, v)
  BY <1>2, <1>4, Follow
<1>7. QED
  BY <1>3, <1>5, <1>6, Follow

LEMMA FollowLauncher ==
    ASSUME NEW s, WindowsOk(s), NEW u \in LauncherClicks(s)
    PROVE  Follows(s, u)
<1>1. \/ u \in {[s EXCEPT !.menu = ~@], WithoutMenu(s), s, BeginPowerAction(s)}
      \/ \E w \in LauncherResults : u = Launch(s, w)
  BY DEF LauncherClicks
<1>2. Follows(s, s)
  BY DEF Follows
<1>3. \A w \in LauncherResults : Follows(s, Launch(s, w))
  BY Named, FollowMatch
<1>4. QED
  BY <1>1, <1>2, <1>3, FollowMenu, FollowPower

LEMMA FollowPress ==
    ASSUME NEW s, WindowsOk(s), NEW w \in Window
    PROVE  /\ Follows(s, PressClose(s, w)) /\ PressClose(s, w).drag = NoWindow
           /\ Follows(s, PressFullscreen(s, w))
<1> DEFINE u == [s EXCEPT !.drag = NoWindow]
<1>1. Quiet(s, u) /\ u.drag = NoWindow
  BY DEF WindowsOk, WindowsState, Quiet
<1>2. Follows(s, u) /\ WindowsOk(u)
  BY <1>1, QuietOk DEF Follows
<1>3. PressClose(s, w) = CloseWindow(u, w) /\ PressFullscreen(s, w) = ToggleFullscreen(u, w)
  BY DEF PressClose, PressFullscreen
<1> HIDE DEF u
<1>4. Follows(u, CloseWindow(u, w)) /\ CloseWindow(u, w).drag \in {u.drag, NoWindow}
  BY <1>2, FollowClose, CloseIs
<1>5. Follows(u, ToggleFullscreen(u, w))
  BY <1>2, FullscreenIs, QuietOk DEF Follows
<1>6. QED
  BY <1>1, <1>2, <1>3, <1>4, <1>5, Follow

(* A window is gripped where it covers the cell. *)
LEMMA GripIs ==
    ASSUME NEW s, WindowsOk(s), NEW w \in Window, NEW c \in Cells, Covers(s.win[w].place, c)
    PROVE  Quiet(s, Grip(s, w, c)) /\ Grip(s, w, c).drag = w
<1>1. s \in WindowsState /\ s.win[w].place \in Places
  BY DEF WindowsOk, WindowsState, WindowState
<1>2. PICK n \in Nat : n = s.win[w].place.at
  BY <1>1, PlaceNumbers
<1>3. n >= 1 /\ n <= c /\ c \in Nat /\ c <= Width /\ Width \in Nat
  BY <1>1, <1>2, PlaceNumbers DEF Covers, Cells
<1>4. c - s.win[w].place.at \in 0 .. Width
  BY <1>2, <1>3
<1>5. QED
  BY <1>1, <1>4 DEF Grip, WindowsState, Quiet

LEMMA DragToIs ==
    ASSUME NEW s, WindowsOk(s), s.drag # NoWindow, NEW c \in Pointable
    PROVE  /\ Quiet(s, DragTo(s, c))
           /\ DragTo(s, c).drag = s.drag /\ DragTo(s, c).power = s.power
<1> DEFINE p == s.win[s.drag].place
           at == IF c < s.grip THEN Width ELSE c - s.grip
           to == IF c = p.at + s.grip THEN p.at ELSE Clamp(at, p.wide)
           moved == [p EXCEPT !.at = to]
           v == [s.win[s.drag] EXCEPT !.place = moved]
<1>1. /\ s \in WindowsState /\ s.drag \in Window
      /\ s.win[s.drag] \in WindowState /\ p \in Places /\ s.grip \in 0 .. Width
  BY DEF WindowsOk, WindowsState, WindowState
<1>2. at \in Nat
  <2>1. c \in Nat /\ Width \in Nat /\ s.grip \in Nat
    BY <1>1, WindowsAssumption DEF Pointable, Cells, Dock
  <2>2. PICK g \in Nat : g = s.grip
    BY <2>1
  <2>3. QED
    BY <2>1, <2>2
<1>3. DragTo(s, c) = [s EXCEPT !.win[s.drag].place.at = to]
  BY DEF DragTo
<1>4. to \in Nat /\ to >= 1 /\ to + p.wide <= Width + 1
  <2>1. /\ Clamp(at, p.wide) \in Nat /\ Clamp(at, p.wide) >= 1
        /\ Clamp(at, p.wide) + p.wide <= Width + 1
    BY <1>1, <1>2, Clamped
  <2>2. p.at \in Nat /\ p.at >= 1 /\ p.at + p.wide <= Width + 1
    BY <1>1, PlaceNumbers DEF Cells
  <2> HIDE DEF at, p
  <2>3. QED
    BY <2>1, <2>2
<1> HIDE DEF to
<1>5. moved \in Places
  BY <1>1, <1>4, PlaceMoved
<1>6. DragTo(s, c) = [s EXCEPT !.win[s.drag] = v]
  BY <1>1, <1>3 DEF WindowsState, WindowState
<1> HIDE DEF moved
<1>7. v \in WindowState
  BY <1>1, <1>5 DEF WindowState
<1> HIDE DEF v
<1>8. QED
  BY <1>1, <1>6, <1>7 DEF WindowsState, Quiet

-----------------------------------------------------------------------------
(* What may be put in during one pass. *)
Input == [at : Pointable, left : BOOLEAN, right : BOOLEAN, key : Keys, tick : BOOLEAN,
          prompt : BOOLEAN]

Types == /\ WindowsOk(wm) /\ prompt \in BOOLEAN
         /\ mouse \in [at : Pointable, left : BOOLEAN]

LEMMA MoreInputs ==
    ASSUME Types, NEW inputs \in SUBSET Input
    PROVE  OneMore(inputs) \in SUBSET Input
<1> SUFFICES ASSUME NEW j \in OneMore(inputs)
             PROVE  j \in Input
  OBVIOUS
<1>1. PICK i \in inputs :
        \/ \E at \in Pointable : j = [i EXCEPT !.at = at]
        \/ \E key \in Keys : j = [i EXCEPT !.key = key]
        \/ j = [i EXCEPT !.left = ~mouse.left] \/ j = [i EXCEPT !.right = TRUE]
        \/ j = [i EXCEPT !.tick = TRUE] \/ j = [i EXCEPT !.prompt = ~prompt]
  BY DEF OneMore
<1>2. i \in Input /\ mouse.left \in BOOLEAN /\ prompt \in BOOLEAN
  BY DEF Types
<1>3. QED
  BY <1>1, <1>2 DEF Input

LEMMA InputsTyped ==
    ASSUME Types, NEW i \in Inputs
    PROVE  i \in Input
<1>1. {Idle} \in SUBSET Input
  BY DEF Types, Idle, Input, Keys
<1>2. OneMore({Idle}) \in SUBSET Input
  BY <1>1, MoreInputs
<1>3. OneMore(OneMore({Idle})) \in SUBSET Input
  BY <1>2, MoreInputs
<1>4. QED
  BY <1>3 DEF Inputs

(* What the handlers of a pass make of the windows they find, s: another   *)
(* window is dragged only when a press has raised it, the prompt is        *)
(* answered only with everything drawn, and without a mark that something  *)
(* is dirty the windows are as they were.                                  *)
Handled(s, i, r) ==
    /\ r \in [wm : WindowsState, prompt : BOOLEAN, dirty : BOOLEAN, full : BOOLEAN]
    /\ WindowsOk(r.wm)
    /\ r.wm.drag \in {s.drag, NoWindow} \/ (Pressed(i) /\ r.wm.drag = r.wm.order[N])
    /\ r.full \/ r.prompt = i.prompt
    /\ r.dirty \/ r.wm = s

LEMMA FollowTyped ==
    ASSUME NEW s, WindowsOk(s), NEW key, NEW u \in Typed(s, key)
    PROVE  Follows(s, u)
<1>1. Follows(s, s)
  BY DEF Follows
<1>2. CASE key = "start" /\ ~Visible(s, "SEARCH")
  BY <1>2, FollowToggle DEF Typed, DockApps
<1>3. CASE key = "start" /\ Visible(s, "SEARCH")
  BY <1>3, FollowMenu DEF Typed
<1>4. CASE key = "escape" /\ Visible(s, "SEARCH")
  BY <1>4, FollowMenu, FollowClose, Named DEF Typed
<1>5. CASE key = "enter" /\ Visible(s, "SEARCH")
  BY <1>5, FollowMatch, Named DEF Typed
<1>6. CASE ~(key = "start") /\ ~((key = "escape" \/ key = "enter") /\ Visible(s, "SEARCH"))
  <2>1. Typed(s, key) = {s}
    BY <1>6 DEF Typed
  <2>2. QED
    BY <1>1, <2>1
<1>7. QED
  BY <1>2, <1>3, <1>4, <1>5, <1>6

LEMMA NoKey ==
    ASSUME NEW s, NEW u \in Typed(s, "none")
    PROVE  u = s
BY DEF Typed

(* The window on top at a cell covers it. *)
LEMMA TopIsHere ==
    ASSUME NEW s, WindowsOk(s), NEW c, TopAt(s, c) # NoWindow
    PROVE  TopAt(s, c) \in Window /\ Covers(s.win[TopAt(s, c)].place, c)
<1>1. Here(s, c) \in SUBSET Window /\ Here(s, c) # {}
  BY DEF Here, TopAt, Topmost
<1>2. PICK w \in Here(s, c) : \A v \in Here(s, c) : SlotOf(s, v) <= SlotOf(s, w)
  BY <1>1, LastExists
<1>3. TopAt(s, c) = w
  BY <1>1, <1>2, TopmostIs DEF TopAt
<1>4. QED
  BY <1>1, <1>2, <1>3 DEF Here

(* A click on a window raises it, and grips it at its title.               *)
LEMMA WindowClickIs ==
    ASSUME NEW s, WindowsOk(s), NEW c \in Cells, TopAt(s, c) # NoWindow,
           NEW u \in WindowClicks(s, TopAt(s, c), c)
    PROVE  WindowsOk(u) /\ (u.drag \in {s.drag, NoWindow} \/ u.drag = u.order[N])
<1> DEFINE w == TopAt(s, c)
           raised == ToFront(s, w)
<1>1. w \in Window /\ Covers(s.win[w].place, c)
  BY TopIsHere
<1> HIDE DEF w
<1>2. /\ WindowsOk(raised) /\ Follows(s, raised)
      /\ raised.win = s.win /\ raised.order[N] = w
  BY <1>1, FrontIs, FollowFront
<1>3. Covers(raised.win[w].place, c)
  BY <1>1, <1>2
<1> DEFINE gripped == Grip(raised, w, c)
<1>4. \/ u = raised
      \/ u \in LauncherClicks(raised)
      \/ u \in {PressClose(raised, w), PressFullscreen(raised, w)}
      \/ \E style \in Styles : u = SetStyle(raised, style)
      \/ u = gripped
  BY DEF WindowClicks, w
<1> HIDE DEF raised
<1>5. Quiet(raised, gripped) /\ gripped.drag = w
  BY <1>1, <1>2, <1>3, GripIs
<1> HIDE DEF gripped
<1>6. CASE u = gripped
  BY <1>2, <1>5, <1>6, QuietOk DEF Quiet
<1>7. CASE u # gripped
  <2>1. \A style \in Styles : Follows(raised, SetStyle(raised, style))
    BY <1>2, StyleIs, QuietOk DEF Follows
  <2>2. Follows(raised, raised)
    BY <1>2 DEF Follows
  <2>3. Follows(raised, u)
    BY <1>1, <1>2, <1>4, <1>7, <2>1, <2>2, FollowLauncher, FollowPress
  <2>4. Follows(s, u)
    BY <1>2, <2>3, Follow
  <2>5. QED
    BY <2>4 DEF Follows
<1>8. QED
  BY <1>6, <1>7

LEMMA HandledNothing ==
    ASSUME NEW s, WindowsOk(s), NEW i \in Input, NEW u, Follows(s, u)
    PROVE  Handled(s, i, Nothing(s, i)) /\ Handled(s, i, Redraws(u, i))
<1>1. i.prompt \in BOOLEAN
  BY DEF Input
<1>2. QED
  BY <1>1 DEF Handled, Nothing, Redraws, Follows, WindowsOk

LEMMA ClickIs ==
    ASSUME Types, ~wm.power, NEW s, WindowsOk(s), NEW i \in Input, NEW r \in Clicks(s, i)
    PROVE  Handled(s, i, r)
<1>1. Follows(s, s)
  BY DEF Follows
<1>2. Handled(s, i, Nothing(s, i))
  BY <1>1, HandledNothing
<1>3. CASE ~Pressed(i)
  BY <1>2, <1>3 DEF Clicks
<1>4. CASE Pressed(i) /\ i.prompt
  <2> DEFINE closed(t) == [wm |-> t, prompt |-> FALSE, dirty |-> TRUE, full |-> TRUE]
  <2>1. \E u : /\ u \in {s, OpenWindow(s, "SETTINGS")}
               /\ r \in {closed(u), [closed(u) EXCEPT !.prompt = TRUE]}
    BY <1>4 DEF Clicks, LeftClicks, PromptClicks
  <2>2. PICK u : /\ u \in {s, OpenWindow(s, "SETTINGS")}
                 /\ r \in {closed(u), [closed(u) EXCEPT !.prompt = TRUE]}
    BY <2>1
  <2>3. Follows(s, u)
    BY <1>1, <2>2, FollowOpen, Named
  <2>4. CASE r = closed(u)
    BY <2>3, <2>4 DEF Handled, Follows, WindowsOk
  <2>5. CASE r = [closed(u) EXCEPT !.prompt = TRUE]
    BY <2>3, <2>5 DEF Handled, Follows, WindowsOk
  <2>6. QED
    BY <2>2, <2>4, <2>5
<1>5. CASE Pressed(i) /\ ~i.prompt /\ i.at = Dock
  <2>1. r = Nothing(s, i) \/ \E w \in DockApps : r = Redraws(ToggleDock(s, w), i)
    BY <1>5, TileKinds DEF Clicks, LeftClicks
  <2>2. QED
    BY <1>2, <2>1, FollowToggle, HandledNothing
<1>6. CASE Pressed(i) /\ ~i.prompt /\ i.at \in Cells /\ TopAt(s, i.at) # NoWindow
  <2>1. i.at # Dock
    BY <1>6, TileKinds
  <2>2. PICK u \in WindowClicks(s, TopAt(s, i.at), i.at) : r = Redraws(u, i)
    BY <1>6, <2>1 DEF Clicks, LeftClicks
  <2>3. WindowsOk(u) /\ (u.drag \in {s.drag, NoWindow} \/ u.drag = u.order[N])
    BY <1>6, WindowClickIs
  <2>4. i.prompt \in BOOLEAN
    BY DEF Input
  <2>5. QED
    BY <1>6, <2>2, <2>3, <2>4 DEF Handled, Redraws, Nothing, WindowsOk
<1>7. CASE Pressed(i) /\ ~i.prompt /\ i.at # Dock /\ ~(i.at \in Cells /\ TopAt(s, i.at) # NoWindow)
  <2>1. \/ r = Nothing(s, i)
        \/ \E w \in Plain : r = Redraws(OpenWindow(s, w), i)
    BY <1>7 DEF Clicks, LeftClicks, ShortcutClicks
  <2>2. QED
    BY <1>2, <2>1, Named, FollowOpen, HandledNothing
<1>8. QED
  BY <1>3, <1>4, <1>5, <1>6, <1>7

LEMMA RightIs ==
    ASSUME NEW s, NEW i \in Input, NEW r, Handled(s, i, r)
    PROVE  Handled(s, i, RightClick(r, i))
<1>1. CASE RightClick(r, i) = r
  BY <1>1
<1>2. CASE RightClick(r, i) # r
  <2> DEFINE w == TopAt(r.wm, i.at)
             u == PressClose(r.wm, w)
  <2>1. i.at \in Cells /\ w # NoWindow
    BY <1>2 DEF RightClick
  <2>2. WindowsOk(r.wm) /\ w \in Window
    BY <2>1, TopIsHere DEF Handled
  <2>3. RightClick(r, i) = [r EXCEPT !.wm = u, !.dirty = TRUE]
    BY <1>2 DEF RightClick
  <2> HIDE DEF w
  <2>4. WindowsOk(u) /\ u.drag = NoWindow
    BY <2>2, FollowPress DEF Follows
  <2> HIDE DEF u
  <2>5. QED
    BY <2>3, <2>4 DEF Handled, WindowsOk
<1>3. QED
  BY <1>1, <1>2

(* A dragged window follows the mouse; it is let go with the button, and   *)
(* then where it lies is drawn.                                            *)
Carried(i, r, d) ==
    \/ /\ d.wm = r.wm /\ d.dirty = r.dirty
       /\ ~(r.wm.drag # NoWindow /\ ~r.wm.power /\ Released(i))
    \/ /\ i.left /\ d.dirty
       /\ d.wm.drag = r.wm.drag /\ d.wm.order = r.wm.order
    \/ /\ Released(i) /\ d.dirty
       /\ r.wm.drag # NoWindow /\ d.wm.drag = NoWindow
       /\ CellsOf(d.wm.win[r.wm.drag].place) \subseteq d.rects

LEMMA DragIs ==
    ASSUME NEW s, NEW i \in Input, NEW r, Handled(s, i, r)
    PROVE  LET d == Drag(r, i)
           IN  /\ WindowsOk(d.wm) /\ d.wm.power = r.wm.power
               /\ d.prompt = r.prompt /\ d.full = r.full
               /\ Carried(i, r, d)
               /\ d.rects # {} => d.dirty
<1> DEFINE a == r.wm
           moved == DragTo(a, i.at)
           touched == CellsOf(a.win[a.drag].place) \cup CellsOf(moved.win[a.drag].place)
           with(t) == [wm |-> t, prompt |-> r.prompt, dirty |-> TRUE, full |-> r.full,
                       rects |-> touched]
           d == Drag(r, i)
<1>1. WindowsOk(a) /\ i.at \in Pointable /\ i.left \in BOOLEAN
  BY DEF Handled, Input
<1>2. ASSUME a.drag # NoWindow
      PROVE  /\ Quiet(a, moved) /\ WindowsOk(moved)
             /\ moved.drag = a.drag /\ moved.power = a.power
  BY <1>1, <1>2, DragToIs, QuietOk
<1> HIDE DEF a, moved
<1>3. CASE a.drag # NoWindow /\ ~a.power /\ Released(i)
  <2> DEFINE u == [moved EXCEPT !.drag = NoWindow]
  <2>1. d = with(u)
    <3>1. ~i.left
      BY <1>3 DEF Released
    <3>2. QED
      BY <1>3, <3>1 DEF Drag, a, moved
  <2>2. Quiet(moved, u) /\ u.drag = NoWindow /\ u.power = a.power /\ u.win = moved.win
    BY <1>2, <1>3 DEF WindowsOk, WindowsState, Quiet
  <2>3. WindowsOk(u)
    BY <1>2, <1>3, <2>2, QuietOk
  <2> HIDE DEF u
  <2>4. CellsOf(u.win[a.drag].place) \subseteq touched
    BY <2>2
  <2> HIDE DEF touched
  <2>5. /\ d.wm = u /\ d.prompt = r.prompt /\ d.dirty = TRUE /\ d.full = r.full
        /\ d.rects = touched
    BY <2>1
  <2> HIDE DEF d
  <2>6. Carried(i, r, d)
    BY <1>3, <2>2, <2>4, <2>5 DEF Carried, a
  <2>7. QED
    BY <2>2, <2>3, <2>5, <2>6 DEF d, a
<1>4. CASE a.drag # NoWindow /\ ~a.power /\ ~Released(i) /\ i.left /\ moved # a
  <2>1. d = with(moved)
    BY <1>4 DEF Drag, a, moved
  <2> HIDE DEF touched
  <2>2. /\ d.wm = moved /\ d.prompt = r.prompt /\ d.dirty = TRUE /\ d.full = r.full
        /\ d.rects = touched
    BY <2>1
  <2> HIDE DEF d
  <2>3. Carried(i, r, d)
    BY <1>2, <1>4, <2>2 DEF Carried, a, Quiet
  <2>4. QED
    BY <1>2, <1>4, <2>2, <2>3 DEF d, a
<1>5. CASE ~(a.drag # NoWindow /\ ~a.power /\ (Released(i) \/ (i.left /\ moved # a)))
  <2>1. d = [wm |-> a, prompt |-> r.prompt, dirty |-> r.dirty, full |-> r.full, rects |-> {}]
    BY <1>5 DEF Drag, a, moved
  <2>2. QED
    BY <1>1, <1>5, <2>1 DEF Carried, a
<1>6. QED
  BY <1>3, <1>4, <1>5

-----------------------------------------------------------------------------
(* What a pass that began with wm hands to the drawing: the drag is what   *)
(* it was, or has just begun with the window in front, or has ended where  *)
(* it is drawn, or was dropped.                                            *)
DragIsKnown(d) ==
    \/ d.wm.drag = wm.drag
    \/ wm.drag = NoWindow /\ d.wm.drag = d.wm.order[N]
    \/ DragDropped(d)
    \/ /\ wm.drag # NoWindow /\ d.wm.drag = NoWindow
       /\ CellsOf(d.wm.win[wm.drag].place) \subseteq d.rects

Outcome(i, d) ==
    /\ WindowsOk(d.wm) /\ d.prompt \in BOOLEAN
    /\ d.full \/ d.prompt = i.prompt
    /\ d.dirty \/ d.wm \in Typed(wm, i.key)
    /\ ~d.wm.power => DragIsKnown(d)
    /\ d.wm.drag # NoWindow /\ ~d.wm.power => i.left

(* The button that holds a window is down. *)
Held == wm.drag # NoWindow /\ ~wm.power => mouse.left

LEMMA PassIs ==
    ASSUME Types, Held, ~wm.power, NEW i \in Input,
           NEW s \in Typed(wm, i.key), NEW r \in Clicks(s, i)
    PROVE  Outcome(i, Drag(RightClick(r, i), i))
<1> DEFINE q == RightClick(r, i)
           d == Drag(q, i)
<1>1. WindowsOk(wm) /\ Follows(wm, s) /\ WindowsOk(s)
  BY FollowTyped DEF Types, Follows
<1>2. Handled(s, i, r)
  BY <1>1, ClickIs
<1>3. Handled(s, i, q)
  BY <1>2, RightIs
<1> HIDE DEF q
<1>4. /\ WindowsOk(d.wm) /\ d.wm.power = q.wm.power
      /\ d.prompt = q.prompt /\ d.full = q.full
      /\ Carried(i, q, d)
      /\ d.rects # {} => d.dirty
  BY <1>3, DragIs
<1> HIDE DEF d
<1>5. q.prompt \in BOOLEAN /\ (q.full \/ q.prompt = i.prompt) /\ (q.dirty \/ q.wm = s)
  BY <1>3 DEF Handled
<1>6. \/ q.wm.drag \in {wm.drag, NoWindow}
      \/ Pressed(i) /\ q.wm.drag = q.wm.order[N]
  BY <1>1, <1>3 DEF Handled, Follows
<1>7. Pressed(i) => wm.drag = NoWindow /\ i.left /\ ~Released(i)
  BY DEF Held, Pressed, Released
<1>8. ASSUME ~d.wm.power
      PROVE  DragIsKnown(d)
  <2>1. CASE Pressed(i) /\ q.wm.drag = q.wm.order[N]
    <3>1. d.wm.drag = q.wm.drag /\ d.wm.order = q.wm.order
      BY <1>4, <1>7, <2>1 DEF Carried
    <3>2. QED
      BY <1>7, <2>1, <3>1 DEF DragIsKnown
  <2>2. CASE q.wm.drag \in {wm.drag, NoWindow} /\ wm.drag = NoWindow
    BY <1>4, <2>2 DEF Carried, DragIsKnown
  <2>3. CASE q.wm.drag \in {wm.drag, NoWindow} /\ wm.drag # NoWindow
    <3>1. d.wm.drag \in {wm.drag, NoWindow}
      BY <1>4, <2>3 DEF Carried
    <3>2. CASE d.wm.drag = NoWindow /\ d.rects # {}
      <4>1. CASE q.wm.drag # NoWindow
        <5>1. q.wm.drag = wm.drag
          BY <2>3, <4>1
        <5>2. CASE CellsOf(d.wm.win[wm.drag].place) \subseteq d.rects
          BY <2>3, <3>2, <5>2 DEF DragIsKnown
        <5>3. CASE ~(CellsOf(d.wm.win[wm.drag].place) \subseteq d.rects)
          <6>1. d.wm.drag = q.wm.drag
            BY <1>4, <5>1, <5>3 DEF Carried
          <6>2. QED
            BY <3>2, <4>1, <6>1
        <5>4. QED
          BY <5>2, <5>3
      <4>2. CASE q.wm.drag = NoWindow
        BY <1>3, <1>4, <3>2, <4>2 DEF Drag, d
      <4>3. QED
        BY <4>1, <4>2
    <3>3. CASE d.wm.drag = NoWindow /\ d.rects = {}
      BY <2>3, <3>3 DEF DragIsKnown, DragDropped
    <3>4. QED
      BY <3>1, <3>2, <3>3 DEF DragIsKnown
  <2>4. QED
    BY <1>6, <2>1, <2>2, <2>3
<1>9. ASSUME d.wm.drag # NoWindow, ~d.wm.power
      PROVE  i.left
  <2>1. CASE wm.drag = NoWindow
    BY <1>4, <1>6, <1>7, <1>9, <2>1 DEF Carried
  <2>2. CASE wm.drag # NoWindow
    <3>1. mouse.left
      BY <2>2 DEF Held
    <3>2. q.wm.drag # NoWindow /\ ~q.wm.power
      BY <1>4, <1>9 DEF Carried
    <3>3. i.left \in BOOLEAN
      BY DEF Input
    <3>4. QED
      BY <1>4, <1>9, <3>1, <3>2, <3>3 DEF Carried, Released
  <2>3. QED
    BY <2>1, <2>2
<1>10. d.dirty \/ d.wm \in Typed(wm, i.key)
  BY <1>4, <1>5 DEF Carried
<1>11. QED
  BY <1>4, <1>5, <1>8, <1>9, <1>10 DEF Outcome, d, q

-----------------------------------------------------------------------------
(* A tile that no rule of the loop finds shows what it showed. *)
LEMMA FoundOrTaken ==
    ASSUME NEW d, NEW i, NEW t, t \notin DirtyTiles(d, i)
    PROVE  /\ t \notin d.rects /\ t \notin SnapshotTiles(d.wm)
           /\ t \notin CursorTiles(i)
BY DEF DirtyTiles

LEMMA Untouched ==
    ASSUME Types, ~wm.power, NEW i \in Input, NEW d, Outcome(i, d), ~d.wm.power,
           ~PlacedBelow(d.wm), ~DragDropped(d),
           NEW shown \in BOOLEAN, NEW t \in Tiles, t \notin DirtyTiles(d, i)
    PROVE  Picture(wm, shown, t) = Picture(d.wm, shown, t)
<1>1. WindowsOk(wm) /\ WindowsOk(d.wm) /\ DragIsKnown(d)
  BY DEF Types, Outcome
<1>2. t \notin d.rects /\ t \notin SnapshotTiles(d.wm)
  BY FoundOrTaken
<1> DEFINE left == UNION {CellsIn(wm, w) \cup CellsIn(d.wm, w) :
                              w \in {v \in Window : Changed(d.wm, v)}}
           mask == IF DockMask(wm) # DockMask(d.wm) THEN {Dock} ELSE {}
<1>3. t \notin left /\ t \notin mask
  BY <1>2, Zenon DEF SnapshotTiles, DirtyList
<1>4. ASSUME NEW w \in Window, Changed(d.wm, w)
      PROVE  t \notin CellsIn(wm, w) /\ t \notin CellsIn(d.wm, w)
  BY <1>3, <1>4
<1> HIDE DEF left
<1>5. t = Dock => DockMask(wm) = DockMask(d.wm)
  BY <1>3
<1>6. ASSUME t \in Cells
      PROVE  Kept(wm, d.wm, t)
  <2>1. \A w \in Window : Changed(d.wm, w) => t \notin CellsIn(wm, w) /\ t \notin CellsIn(d.wm, w)
    BY <1>4
  <2>2. \A w \in Window : ~Changed(d.wm, w) => CellsIn(wm, w) = CellsIn(d.wm, w)
    BY DEF PlacedBelow
  <2>3. \A w \in Window : /\ w \in Here(wm, t) <=> t \in CellsIn(wm, w)
                          /\ w \in Here(d.wm, t) <=> t \in CellsIn(d.wm, w)
    BY <1>6 DEF Here, CellsIn, CellsOf
  <2>4. Here(wm, t) = Here(d.wm, t)
    <3>1. Here(wm, t) \subseteq Window /\ Here(d.wm, t) \subseteq Window
      BY DEF Here
    <3>2. \A w \in Window : w \in Here(wm, t) <=> w \in Here(d.wm, t)
      BY <2>1, <2>2, <2>3
    <3>3. QED
      BY <3>1, <3>2
  <2>5. ASSUME NEW w \in Here(wm, t)
        PROVE  SlotOf(wm, w) = SlotOf(d.wm, w)
    <3>1. w \in Window
      BY DEF Here
    <3>2. ~Changed(d.wm, w)
      BY <2>1, <2>3, <3>1
    <3>3. CASE wm.order # d.wm.order
      BY <3>2, <3>3 DEF Changed
    <3>4. CASE wm.order = d.wm.order
      BY <3>4 DEF SlotOf
    <3>5. QED
      BY <3>3, <3>4
  <2>6. \/ wm.drag = d.wm.drag
        \/ wm.drag \notin Here(wm, t) /\ d.wm.drag \notin Here(d.wm, t)
        \/ wm.drag = NoWindow /\ d.wm.drag = d.wm.order[N]
    <3>1. CASE /\ wm.drag # NoWindow /\ d.wm.drag = NoWindow
               /\ CellsOf(d.wm.win[wm.drag].place) \subseteq d.rects
      <4>1. wm.drag \notin Here(d.wm, t)
        BY <1>2, <1>6, <3>1 DEF Here, CellsOf
      <4>2. d.wm.drag \notin Here(d.wm, t)
        BY <3>1, NoWindowIs DEF Here
      <4>3. QED
        BY <2>4, <4>1, <4>2
    <3>2. QED
      BY <1>1, <3>1 DEF DragIsKnown
  <2>7. QED
    BY <2>4, <2>5, <2>6 DEF Kept
<1>7. QED
  BY <1>1, <1>5, <1>6, SamePicture

-----------------------------------------------------------------------------
(* What is drawn over a shell is the picture. *)
LEMMA InFrontIs ==
    ASSUME NEW s, WindowsOk(s), NEW t
    PROVE  InFront(s, t) \in Window \cup {NoWindow}
<1> DEFINE beside == Here(s, t) \ {s.drag}
<1>1. Here(s, t) \subseteq Window /\ beside \in SUBSET Window
  BY DEF Here
<1> HIDE DEF beside
<1>2. CASE beside = {}
  BY <1>1, <1>2 DEF InFront, Topmost, beside
<1>3. CASE beside # {}
  <2>1. PICK w \in beside : \A v \in beside : SlotOf(s, v) <= SlotOf(s, w)
    BY <1>1, <1>3, LastExists
  <2>2. Topmost(s, beside) = w
    BY <1>1, <2>1, TopmostIs
  <2>3. QED
    BY <1>1, <2>1, <2>2 DEF InFront, beside
<1>4. QED
  BY <1>2, <1>3

LEMMA ShellOrTop ==
    ASSUME NEW s, WindowsOk(s), NEW shown \in BOOLEAN, NEW t,
           Picture(s, shown, t).top = "shell"
    PROVE  Picture(s, shown, t) = Shell(s, t)
<1>1. InFront(s, t) # "shell" \/ InFront(s, t) = NoWindow
  BY InFrontIs, NoWindowIs
<1>2. CASE s.power
  BY <1>2, PictureIs DEF PowerScreen
<1>3. CASE ~s.power /\ t \in Cells /\ shown /\ t = PromptTile
  <2>1. Picture(s, shown, t) = [top |-> "PROMPT", mask |-> <<>>]
    BY <1>3, PictureIs
  <2>2. QED
    BY <2>1
<1>4. CASE ~s.power /\ t \in Cells /\ ~(shown /\ t = PromptTile) /\ InFront(s, t) # NoWindow
  <2>1. Picture(s, shown, t) = [top |-> InFront(s, t), mask |-> <<>>]
    BY <1>4, PictureIs
  <2>2. QED
    BY <1>1, <1>4, <2>1
<1>5. CASE /\ ~s.power
           /\ t \notin Cells \/ (~(shown /\ t = PromptTile) /\ InFront(s, t) = NoWindow)
  BY <1>5, PictureIs
<1>6. QED
  BY <1>2, <1>3, <1>4, <1>5

LEMMA Redrawn ==
    ASSUME NEW d, WindowsOk(d.wm), d.prompt \in BOOLEAN, NEW under,
           NEW tiles \in SUBSET Tiles, NEW t \in Tiles
    PROVE  WithWindows(d, RestoredShell(d.wm, under, tiles), tiles)[t] =
              IF t \in tiles THEN Picture(d.wm, d.prompt, t) ELSE under[t]
<1>1. RestoredShell(d.wm, under, tiles)[t] = IF t \in tiles THEN Shell(d.wm, t) ELSE under[t]
  BY DEF RestoredShell, Copied
<1>2. Picture(d.wm, d.prompt, t).top = "shell" => Picture(d.wm, d.prompt, t) = Shell(d.wm, t)
  BY ShellOrTop
<1>3. QED
  BY <1>1, <1>2 DEF WithWindows

(* The bar and the dock are never behind a window. *)
LEMMA ChromeIs ==
    ASSUME NEW s, ~s.power, NEW shown \in BOOLEAN, NEW t \in {Bar, Dock}
    PROVE  Picture(s, shown, t) = Shell(s, t)
BY TileKinds, PictureIs

-----------------------------------------------------------------------------
(* Every tile of both buffers is the picture, unless something was missed. *)
Shows(s, shown, seen) == \A t \in Tiles : seen[t] = Picture(s, shown, t)

ScreenOk == missed = {} => Shows(wm, prompt, front) /\ Shows(wm, prompt, back)

LEMMA AllDrawn ==
    ASSUME NEW i, NEW d, WindowsOk(d.wm), d.prompt \in BOOLEAN, DrawAll(d, i)
    PROVE  Shows(d.wm, d.prompt, front') /\ Shows(d.wm, d.prompt, back')
<1>1. \A t \in Tiles : back'[t] = Picture(d.wm, d.prompt, t)
  BY Redrawn DEF DrawAll
<1>2. front' = back'
  BY DEF DrawAll, Present
<1>3. QED
  BY <1>1, <1>2 DEF Shows

LEMMA PowerDrawn ==
    ASSUME DrawPower, wm'.power
    PROVE  ScreenOk' /\ OneCursor'
<1>1. \A t \in Tiles : Picture(wm', prompt', t) = PowerScreen
  BY DEF Picture
<1>2. \A t \in Tiles : back'[t] = PowerScreen /\ front'[t] = PowerScreen
  BY DEF DrawPower, Present
<1>3. ScreenOk'
  BY <1>1, <1>2 DEF ScreenOk, Shows
<1>4. OneCursor'
  BY DEF DrawPower, OneCursor
<1>5. QED
  BY <1>3, <1>4

(* Part of the screen is drawn anew and the rest is the picture already.   *)
LEMMA PartDrawn ==
    ASSUME Types, ScreenOk, OneCursor, ~wm.power, NEW i \in Input, NEW d, Outcome(i, d), ~d.wm.power,
           ~d.full, i.prompt = prompt, DirtyTiles(d, i) # {},
           wm' = d.wm, prompt' = d.prompt, mouse' = [at |-> i.at, left |-> i.left],
           RenderPart(d, i, DirtyTiles(d, i))
    PROVE  ScreenOk' /\ OneCursor'
<1> DEFINE tiles == DirtyTiles(d, i)
<1>1. WindowsOk(d.wm) /\ d.prompt \in BOOLEAN /\ d.prompt = prompt
  BY DEF Outcome
<1>2. CASE DrawAll(d, i)
  <2>1. Shows(d.wm, d.prompt, front') /\ Shows(d.wm, d.prompt, back')
    BY <1>1, <1>2, AllDrawn
  <2>2. cursors' = {i.at}
    BY <1>2 DEF DrawAll
  <2>3. QED
    BY <2>1, <2>2 DEF ScreenOk, OneCursor
<1>3. CASE ~DrawAll(d, i)
  <2> DEFINE current == ~i.tick /\ cache = Drawn(d.wm)
             under == IF current THEN back ELSE RestoredShell(d.wm, back, Tiles)
  <2>1. /\ back' = WithWindows(d, RestoredShell(d.wm, under, tiles), tiles)
        /\ front' = Copied(front, back', tiles)
        /\ cursors' = (cursors \ tiles) \cup {i.at}
        /\ missed' = missed \cup (IF current THEN {} ELSE {"shellRedrawn"})
                            \cup (IF PlacedBelow(d.wm) THEN {"placedBelow"} ELSE {})
                            \cup (IF DragDropped(d) THEN {"dragDropped"} ELSE {})
    BY <1>3 DEF RenderPart, PresentRegion
  <2>2. ASSUME missed' = {}
        PROVE  Shows(wm', prompt', front') /\ Shows(wm', prompt', back')
    <3>1. missed = {} /\ current /\ ~PlacedBelow(d.wm) /\ ~DragDropped(d)
      BY <2>1, <2>2
    <3>2. under = back /\ Shows(wm, prompt, front) /\ Shows(wm, prompt, back)
      BY <3>1 DEF ScreenOk
    <3> HIDE DEF tiles, current, under
    <3>3. ASSUME NEW t \in Tiles
          PROVE  back'[t] = Picture(d.wm, d.prompt, t) /\ front'[t] = Picture(d.wm, d.prompt, t)
      <4>1. CASE t \in tiles
        <5>1. RestoredShell(d.wm, under, tiles)[t] = Shell(d.wm, t)
          BY <4>1 DEF RestoredShell, Copied
        <5>2. Picture(d.wm, d.prompt, t).top = "shell" => Picture(d.wm, d.prompt, t) = Shell(d.wm, t)
          BY <1>1, ShellOrTop
        <5>3. back'[t] = Picture(d.wm, d.prompt, t)
          BY <2>1, <4>1, <5>1, <5>2 DEF WithWindows
        <5>4. QED
          BY <2>1, <4>1, <5>3 DEF Copied
      <4>2. CASE t \notin tiles
        <5>1. back'[t] = back[t] /\ front'[t] = front[t]
          BY <2>1, <3>2, <4>2 DEF WithWindows, RestoredShell, Copied
        <5>2. Picture(wm, prompt, t) = Picture(d.wm, d.prompt, t)
          BY <1>1, <3>1, <4>2, Untouched DEF tiles
        <5>3. QED
          BY <3>2, <5>1, <5>2 DEF Shows
      <4>3. QED
        BY <4>1, <4>2
    <3>4. QED
      BY <3>3 DEF Shows
  <2>3. cursors \subseteq tiles \cup {i.at}
    BY DEF OneCursor, DirtyTiles, CursorTiles, Moved
  <2>4. cursors' = {i.at}
    BY <2>1, <2>3
  <2>5. QED
    BY <2>2, <2>4 DEF ScreenOk, OneCursor
<1>4. QED
  BY <1>2, <1>3

(* Nothing is drawn anew but the cursor and, once a second, the chrome.    *)
LEMMA OnlyRefreshed ==
    ASSUME Types, ScreenOk, OneCursor, ~wm.power, NEW i \in Input, NEW d, Outcome(i, d), ~d.wm.power,
           ~d.full, ~d.dirty, i.prompt = prompt,
           wm' = d.wm, prompt' = d.prompt, mouse' = [at |-> i.at, left |-> i.left],
           RefreshOnly(d, i)
    PROVE  ScreenOk' /\ OneCursor'
<1>1. d.prompt = prompt /\ prompt \in BOOLEAN
  BY DEF Outcome, Types
<1>2. ASSUME missed' = {}
      PROVE  Shows(wm', prompt', front') /\ Shows(wm', prompt', back')
  <2>1. missed = {} /\ ~KeyWithMouse(d, i)
    BY <1>2 DEF RefreshOnly
  <2>2. d.wm = wm
    <3>1. CASE i.key = "none"
      BY <3>1, NoKey DEF Outcome
    <3>2. CASE i.key # "none"
      BY <2>1, <3>2 DEF KeyWithMouse
    <3>3. QED
      BY <3>1, <3>2
  <2>3. Shows(wm, prompt, front) /\ Shows(wm, prompt, back)
    BY <2>1 DEF ScreenOk
  <2> DEFINE shown == Restored(front, CursorTiles(i))
  <2>4. \A t \in Tiles : shown[t] = Picture(wm, prompt, t)
    BY <2>3 DEF Restored, Copied, Shows
  <2> HIDE DEF shown
  <2>5. \A t \in {Bar, Dock} : Picture(wm, prompt, t) = Shell(wm, t)
    BY <1>1, ChromeIs
  <2>6. CASE i.tick
    <3>1. front' = WithChrome(wm, shown) /\ back' = WithChrome(wm, back)
      BY <2>2, <2>6 DEF RefreshOnly, shown
    <3>2. QED
      BY <1>1, <2>2, <2>3, <2>4, <2>5, <3>1 DEF Shows, WithChrome
  <2>7. CASE ~i.tick
    <3>1. front' = shown /\ back' = back
      BY <2>7 DEF RefreshOnly, shown
    <3>2. QED
      BY <1>1, <2>2, <2>3, <2>4, <3>1 DEF Shows
  <2>8. QED
    BY <2>6, <2>7
<1>3. cursors' = {i.at}
  <2>1. cursors = {mouse.at}
    BY DEF OneCursor
  <2>2. CASE Moved(i)
    BY <2>1, <2>2 DEF RefreshOnly, CursorTiles
  <2>3. CASE ~Moved(i)
    BY <2>1, <2>3 DEF RefreshOnly, CursorTiles, Moved
  <2>4. QED
    BY <2>2, <2>3
<1>4. QED
  BY <1>2, <1>3 DEF ScreenOk, OneCursor

-----------------------------------------------------------------------------
DesktopInv == Types /\ Held /\ ScreenOk /\ OneCursor

(* In the order the desktop comes up with every window has its one slot.   *)
LEMMA DesktopStarts == DesktopInit => DesktopInv
<1> SUFFICES ASSUME DesktopInit PROVE DesktopInv
  OBVIOUS
<1>1. PICK order \in [1 .. N -> Window] :
        /\ {order[k] : k \in DOMAIN order} = Window
        /\ wm = WindowsInit(order, Plain)
  BY DEF DesktopInit, N
<1>2. /\ wm.order = order /\ wm.drag = NoWindow /\ ~wm.power
      /\ wm \in WindowsState
  <2>1. \A w \in Window :
          [open |-> w \in Plain, mini |-> FALSE, full |-> FALSE,
           place |-> Start[w], restore |-> Start[w]] \in WindowState
    BY WindowsAssumption DEF WindowState
  <2> DEFINE win == [w \in Window |-> [open |-> w \in Plain, mini |-> FALSE, full |-> FALSE,
                                       place |-> Start[w], restore |-> Start[w]]]
  <2>2. win \in [Window -> WindowState]
    BY <2>1
  <2> HIDE DEF win
  <2>3. wm = [order |-> order, win |-> win, drag |-> NoWindow, grip |-> 0,
              style |-> "MACXWIN", menu |-> FALSE, power |-> FALSE]
    BY <1>1 DEF WindowsInit, win
  <2>4. 0 \in 0 .. Width
    BY WindowsAssumption
  <2>5. QED
    BY <2>2, <2>3, <2>4 DEF WindowsState, Styles, N
<1>3. Stacked(wm)
  <2>1. DOMAIN order = 1 .. N
    OBVIOUS
  <2>2. \A w \in Window : \E k \in 1 .. N : order[k] = w
    BY <1>1, <2>1
  <2>3. IsFiniteSet(1 .. N) /\ Cardinality(1 .. N) = N
    BY Counted, FS_Interval
  <2>4. order \in Surjection(1 .. N, Window)
    BY <2>2 DEF Surjection
  <2>5. order \in Injection(1 .. N, Window)
    BY <2>3, <2>4, Counted, FS_SurjSameCardinalityImpliesInj DEF N
  <2>6. QED
    BY <1>2, <2>2, <2>5 DEF Stacked, Injection, IsInjective
<1>4. Types
  BY <1>2, <1>3, TileKinds DEF DesktopInit, Types, WindowsOk, Pointable
<1>5. ScreenOk /\ OneCursor
  <2>1. front = [t \in Tiles |-> Picture(wm, prompt, t)] /\ back = front /\ cursors = {mouse.at}
    BY DEF DesktopInit
  <2>2. QED
    BY <1>2, <2>1 DEF ScreenOk, Shows, OneCursor
<1>6. QED
  BY <1>2, <1>4, <1>5 DEF DesktopInv, Held

LEMMA DesktopSteps == DesktopInv /\ [DesktopNext]_desktopVars => DesktopInv'
<1> SUFFICES ASSUME DesktopInv, [DesktopNext]_desktopVars PROVE DesktopInv'
  OBVIOUS
<1> USE DEF DesktopInv
<1>1. CASE Pass
  <2>1. ~wm.power
    BY <1>1 DEF Pass
  <2>2. PICK i \in Inputs : \E s \in Typed(wm, i.key) : \E r \in Clicks(s, i) :
               LET d == Drag(RightClick(r, i), i)
               IN  /\ wm' = d.wm /\ prompt' = d.prompt
                   /\ mouse' = [at |-> i.at, left |-> i.left]
                   /\ Draw(d, i)
    BY <1>1 DEF Pass
  <2>3. PICK s \in Typed(wm, i.key) : \E r \in Clicks(s, i) :
               LET d == Drag(RightClick(r, i), i)
               IN  /\ wm' = d.wm /\ prompt' = d.prompt
                   /\ mouse' = [at |-> i.at, left |-> i.left]
                   /\ Draw(d, i)
    BY <2>2
  <2>4. PICK r \in Clicks(s, i) :
               LET d == Drag(RightClick(r, i), i)
               IN  /\ wm' = d.wm /\ prompt' = d.prompt
                   /\ mouse' = [at |-> i.at, left |-> i.left]
                   /\ Draw(d, i)
    BY <2>3
  <2> DEFINE d == Drag(RightClick(r, i), i)
  <2>5. /\ wm' = d.wm /\ prompt' = d.prompt
        /\ mouse' = [at |-> i.at, left |-> i.left]
        /\ Draw(d, i)
    BY <2>4
  <2>6. i \in Input
    BY InputsTyped
  <2>7. Outcome(i, d)
    BY <2>1, <2>6, PassIs
  <2> HIDE DEF d
  <2>8. Types' /\ Held'
    <3>1. mouse' \in [at : Pointable, left : BOOLEAN] /\ mouse'.left = i.left
      BY <2>5, <2>6 DEF Input
    <3>2. QED
      BY <2>5, <2>7, <3>1 DEF Types, Held, Outcome
  <2>9. CASE d.wm.power
    <3>1. DrawPower
      BY <2>5, <2>9 DEF Draw
    <3>2. QED
      BY <2>5, <2>8, <2>9, <3>1, PowerDrawn
  <2>10. CASE ~d.wm.power /\ (d.full \/ i.prompt # prompt \/ DirtyTiles(d, i) = {})
             /\ RenderAll(d, i)
    <3>1. WindowsOk(d.wm) /\ d.prompt \in BOOLEAN /\ DrawAll(d, i)
      BY <2>7, <2>10 DEF Outcome, RenderAll
    <3>2. Shows(d.wm, d.prompt, front') /\ Shows(d.wm, d.prompt, back')
      BY <3>1, AllDrawn
    <3>3. cursors' = {i.at}
      BY <3>1 DEF DrawAll
    <3>4. QED
      BY <2>5, <2>8, <2>10, <3>2, <3>3 DEF ScreenOk, OneCursor
  <2>11. CASE ~d.wm.power /\ ~d.full /\ i.prompt = prompt /\ DirtyTiles(d, i) # {}
              /\ RenderPart(d, i, DirtyTiles(d, i))
    BY <2>1, <2>5, <2>6, <2>7, <2>8, <2>11, PartDrawn
  <2>12. CASE ~d.wm.power /\ ~d.full /\ ~d.dirty /\ i.prompt = prompt /\ RefreshOnly(d, i)
    BY <2>1, <2>5, <2>6, <2>7, <2>8, <2>12, OnlyRefreshed
  <2>13. QED
    BY <2>5, <2>9, <2>10, <2>11, <2>12 DEF Draw
<1>2. CASE GoesDown
  <2>1. PICK i \in Inputs : mouse' = [at |-> i.at, left |-> i.left]
    BY <1>2 DEF GoesDown
  <2>2. i \in Input
    BY InputsTyped
  <2>3. wm' = wm /\ prompt' = prompt /\ wm.power /\ DrawPower
    BY <1>2 DEF GoesDown
  <2>4. mouse' \in [at : Pointable, left : BOOLEAN]
    BY <2>1, <2>2 DEF Input
  <2>5. QED
    BY <2>3, <2>4, PowerDrawn DEF Types, Held
<1>3. CASE UNCHANGED desktopVars
  BY <1>3 DEF desktopVars, stateVars, screenVars, Types, Held, ScreenOk, Shows, OneCursor
<1>4. QED
  BY <1>1, <1>2, <1>3 DEF DesktopNext

THEOREM DesktopInvariant == DesktopSpec => []DesktopInv
<1>1. QED
  BY DesktopStarts, DesktopSteps, PTL DEF DesktopSpec

(* After any pass, whatever was drawn of the screen and however, a tile    *)
(* shows the window that is on top there, the prompt, the dock as it is or *)
(* the screen of the power action; only the four changes that no rule of   *)
(* the loop covers leave it otherwise (compute_dirty_rects_from_snapshot,  *)
(* render_desktop_partial, gui_run_desktop).                               *)
THEOREM ScreenIsTrue == DesktopSpec => []NoGhosts
<1>1. DesktopInv => NoGhosts
  BY DEF DesktopInv, ScreenOk, Shows, NoGhosts
<1>2. QED
  BY <1>1, DesktopInvariant, PTL

(* The places of the cursor that a pass restores or redraws hold every one *)
(* that was painted before (refresh_cursor_only, gui_run_desktop).         *)
THEOREM CursorIsOne == DesktopSpec => []OneCursor
<1>1. DesktopInv => OneCursor
  BY DEF DesktopInv
<1>2. QED
  BY <1>1, DesktopInvariant, PTL
=============================================================================
