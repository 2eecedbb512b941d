------------------------------ MODULE Desktop ------------------------------
(***************************************************************************)
(* The desktop loop: a pass takes what was put in, handles clicks and      *)
(* drags, and draws. Drawing goes to the draw buffer; what is copied from  *)
(* there to the front buffer is everything, or the rectangles the pass has *)
(* collected, or the places of the cursor, or the chrome. A buffer is a    *)
(* function from tiles to what is seen there. Rectangles that are merged   *)
(* only grow, so a dirty list is the set of its tiles; DIRTY_RECT_MAX and  *)
(* the padding only add to it. Left out are changes of theme, which always *)
(* draw everything, the Run dialog, and the release of the right button.   *)
(* The desktop is followed until the machine is told to shut down.         *)
(***************************************************************************)
EXTENDS Windows

VARIABLES
    wm,       \* the windows
    prompt,   \* update_prompt_open
    mouse,    \* the cell of the cursor, left_down
    cache,    \* the desktop shell cache: for which shell it was drawn
    back,     \* the draw buffer
    front,    \* the front buffer
    cursors,  \* tiles where a cursor was painted on the front buffer
    missed    \* history: since the last full present, what no rule covers

stateVars == <<wm, prompt, mouse>>
screenVars == <<cache, back, front, cursors>>
desktopVars == <<stateVars, screenVars, missed>>

Bar == 0
Dock == Width + 1
Tiles == Bar .. Dock
Pointable == Cells \cup {Dock}    \* a click on the bar does what one on the wallpaper does
PromptTile == (Width + 1) \div 2
Keys == {"none", "start", "escape", "enter"}
Reasons == {"keyWithMouse", "shellRedrawn", "placedBelow", "dragDropped"}

Shell(s, t) == [top |-> "shell", mask |-> IF t = Dock THEN DockMask(s) ELSE <<>>]
NoCache == [mask |-> <<>>, current |-> FALSE]
Drawn(s) == [mask |-> DockMask(s), current |-> TRUE]

(* render_power_action_screen *)
PowerScreen == [top |-> "POWER", mask |-> <<>>]

(* draw_desktop_windows: from the bottom up, the dragged one last, and the *)
(* prompt over everything.                                                 *)
Picture(s, shown, t) ==
    LET beside == Topmost(s, Here(s, t) \ {s.drag})
        top == IF shown /\ t = PromptTile THEN "PROMPT"
               ELSE IF s.drag \in Here(s, t) THEN s.drag ELSE beside
    IN  IF s.power THEN PowerScreen
        ELSE IF t \in Cells /\ top # NoWindow THEN [top |-> top, mask |-> <<>>] ELSE Shell(s, t)

DesktopTypeOK ==
    /\ wm \in WindowsState /\ prompt \in BOOLEAN
    /\ mouse \in [at : Pointable, left : BOOLEAN]
    /\ \A t \in Tiles : {back[t].top, front[t].top} \subseteq Window \cup {"shell", "PROMPT", "POWER"}
    /\ cursors \subseteq Tiles /\ missed \subseteq Reasons

DesktopInit ==
    /\ \E order \in [1 .. Cardinality(Window) -> Window] :
          /\ {order[i] : i \in DOMAIN order} = Window
          /\ wm = WindowsInit(order, Plain)
    /\ prompt = FALSE /\ mouse = [at |-> PromptTile, left |-> FALSE]
    /\ cache \in {NoCache, Drawn(wm)} /\ missed = {} /\ cursors = {mouse.at}
    /\ front = [t \in Tiles |-> Picture(wm, FALSE, t)] /\ back = front

-----------------------------------------------------------------------------
(* Input: where the mouse is, its buttons, a key with what the launcher    *)
(* finds for it, another second, and what the poll makes of the prompt.    *)

Idle == [at |-> mouse.at, left |-> mouse.left, right |-> FALSE, key |-> "none",
         tick |-> FALSE, prompt |-> prompt]

OneMore(inputs) ==
    UNION {{[i EXCEPT !.at = at] : at \in Pointable}
           \cup {[i EXCEPT !.key = key] : key \in Keys}
           \cup {[i EXCEPT !.left = ~mouse.left], [i EXCEPT !.right = TRUE],
                 [i EXCEPT !.tick = TRUE], [i EXCEPT !.prompt = ~prompt]} : i \in inputs}

(* Bound: at most two things happen during one pass. *)
Inputs == OneMore(OneMore({Idle})) \ {Idle}

(* handle_keyboard_scancode: letters go to the launcher while it is open;  *)
(* Enter there opens the first match, and Escape closes its menu first.    *)
Typed(s, key) ==
    CASE key = "start" /\ ~Visible(s, "SEARCH") -> {ToggleDock(s, "SEARCH")}
      [] key = "start" /\ Visible(s, "SEARCH") -> {WithoutMenu(s)}
      [] key = "escape" /\ Visible(s, "SEARCH") ->
            {IF s.menu THEN WithoutMenu(s) ELSE CloseWindow(s, "SEARCH")}
      [] key = "enter" /\ Visible(s, "SEARCH") -> {OpenMatch(s, w) : w \in LauncherResults}
      [] OTHER -> {s}

Pressed(i) == i.left /\ ~mouse.left
Released(i) == ~i.left /\ mouse.left
Moved(i) == i.at # mouse.at

-----------------------------------------------------------------------------
(* What a click may come to, by where in a window it falls.                *)
Nothing(s, i) == [wm |-> s, prompt |-> i.prompt, dirty |-> FALSE, full |-> FALSE]
Redraws(s, i) == [Nothing(s, i) EXCEPT !.dirty = TRUE]

(* handle_update_prompt_click: a click outside the panel or on one of its  *)
(* buttons closes it, one beside the buttons does not.                     *)
PromptClicks(s, i) ==
    LET closed(t) == [wm |-> t, prompt |-> FALSE, dirty |-> TRUE, full |-> TRUE]
    IN  {closed(s)} \cup
        (IF i.at = PromptTile
         THEN {closed(OpenWindow(s, "SETTINGS")), [closed(s) EXCEPT !.prompt = TRUE]} ELSE {})

(* handle_window_left_click: the buttons of the frame, its title, and what *)
(* the windows themselves do that moves windows.                           *)
WindowClicks(s, w, c) ==
    LET raised == ToFront(s, w)
    IN  {raised}
        \cup (IF w = "SEARCH" THEN LauncherClicks(raised)
              ELSE {PressClose(raised, w), PressFullscreen(raised, w), Grip(raised, w, c)})
        \cup (IF w = "SETTINGS" THEN {SetStyle(raised, style) : style \in Styles} ELSE {})

(* handle_desktop_shortcut_click: the shortcut is on the first cell.       *)
ShortcutClicks(s, c) == IF c = 1 THEN {OpenWindow(s, w) : w \in Plain} ELSE {}

LeftClicks(s, i) ==
    CASE i.prompt -> PromptClicks(s, i)
      [] ~i.prompt /\ i.at = Dock -> {Redraws(ToggleDock(s, w), i) : w \in DockApps} \cup {Nothing(s, i)}
      [] ~i.prompt /\ i.at \in Cells /\ TopAt(s, i.at) # NoWindow ->
            {Redraws(t, i) : t \in WindowClicks(s, TopAt(s, i.at), i.at)}
      [] OTHER -> {Redraws(t, i) : t \in ShortcutClicks(s, i.at)} \cup {Nothing(s, i)}

Clicks(s, i) == IF Pressed(i) THEN LeftClicks(s, i) ELSE {Nothing(s, i)}

(* handle_window_right_click *)
RightClick(r, i) ==
    IF ~r.wm.power /\ i.right /\ i.at \in Cells /\ TopAt(r.wm, i.at) # NoWindow
    THEN [r EXCEPT !.wm = PressClose(@, TopAt(@, i.at)), !.dirty = TRUE] ELSE r

(* update_dragged_window, and the end of the drag with the button.         *)
Drag(r, i) ==
    LET s == r.wm
        moved == DragTo(s, i.at)
        touched == CellsOf(s.win[s.drag].place) \cup CellsOf(moved.win[s.drag].place)
        with(t) == [wm |-> t, prompt |-> r.prompt, dirty |-> TRUE, full |-> r.full, rects |-> touched]
    IN  CASE s.drag # NoWindow /\ ~s.power /\ Released(i) -> with([moved EXCEPT !.drag = NoWindow])
          [] s.drag # NoWindow /\ ~s.power /\ i.left /\ moved # s -> with(moved)
          [] OTHER -> [wm |-> s, prompt |-> r.prompt, dirty |-> r.dirty, full |-> r.full, rects |-> {}]

-----------------------------------------------------------------------------
(* compute_dirty_rects_from_snapshot, between wm and s: with another order *)
(* only windows that changed their slot or their visibility count, without *)
(* it those that changed their place or their visibility. The first form   *)
(* forgets the order.                                                      *)
Changed_byPlace(s, w) ==
    \/ Visible(wm, w) # Visible(s, w)
    \/ Visible(s, w) /\ wm.win[w].place # s.win[w].place

Changed(s, w) ==
    \/ Visible(wm, w) # Visible(s, w)
    \/ IF wm.order # s.order
       THEN SlotOf(wm, w) # SlotOf(s, w)
       ELSE Visible(s, w) /\ wm.win[w].place # s.win[w].place

CellsIn(s, w) == IF Visible(s, w) THEN CellsOf(s.win[w].place) ELSE {}

(* dirty_rect_list_add: rectangles that touch, or do not fit the list, are *)
(* merged into one around both, so a list covers at least what was added.  *)
DirtyList(rects) == UNION rects

SnapshotTiles(s) ==
    DirtyList({CellsIn(wm, w) \cup CellsIn(s, w) : w \in {v \in Window : Changed(s, v)}})
    \cup (IF DockMask(wm) # DockMask(s) THEN {Dock} ELSE {})

FrontWindow(s) == IF TopVisible(s) = NoWindow THEN {} ELSE CellsOf(s.win[TopVisible(s)].place)

(* A key alone redraws the window in front. *)
KeyAlone(i) == i.key # "none" /\ ~Moved(i) /\ ~Pressed(i) /\ ~Released(i) /\ ~i.right

(* Where a cursor was and where it is now; the first form leaves the old   *)
(* one on the screen.                                                      *)
CursorTiles_new(i) == IF Moved(i) THEN {i.at} ELSE {}
CursorTiles(i) == IF Moved(i) THEN {mouse.at, i.at} ELSE {}

(* The rest of the rules of gui_run_desktop; tick has made the cache old.  *)
DirtyTiles(d, i) ==
    LET found == d.rects \cup SnapshotTiles(d.wm) \cup CursorTiles(i)
                 \cup (IF KeyAlone(i) THEN FrontWindow(d.wm) ELSE {})
                 \cup (IF i.tick \/ ~cache.current THEN {Bar} ELSE {})
                 \cup (IF cache.mask # DockMask(d.wm) THEN {Dock} ELSE {})
    IN  IF found = {} THEN FrontWindow(d.wm) ELSE found

(* What no rule covers: a window of the same slot that is elsewhere while  *)
(* the order changed, a dragged window that a button handler lets go and   *)
(* that falls back below others, a key taken together with the mouse.      *)
PlacedBelow(s) ==
    \E w \in Window : ~Changed(s, w) /\ CellsIn(wm, w) # CellsIn(s, w)
DragDropped(d) == wm.drag # NoWindow /\ d.wm.drag # wm.drag /\ d.rects = {}
KeyWithMouse(d, i) == i.key # "none" /\ d.wm # wm

-----------------------------------------------------------------------------
(* prepare_desktop_shell_cache: memory for the cache may not be had.       *)
Prepared(s) == {Drawn(s)} \cup (IF cache = NoCache THEN {NoCache} ELSE {})

(* copy_buffer_region and those that call it with what they copy between.  *)
Copied(to, from, tiles) == [t \in Tiles |-> IF t \in tiles THEN from[t] ELSE to[t]]
Present(drawn) == front' = drawn
PresentRegion(drawn, tiles) == front' = Copied(front, drawn, tiles)
Restored(shown, tiles) == Copied(shown, back, tiles)
RestoredShell(s, under, tiles) == Copied(under, [t \in Tiles |-> Shell(s, t)], tiles)

(* Windows drawn in some tiles over what is there.                         *)
WithWindows(d, under, tiles) ==
    [t \in Tiles |-> IF t \in tiles /\ Picture(d.wm, d.prompt, t).top # "shell"
                     THEN Picture(d.wm, d.prompt, t) ELSE under[t]]

(* render_desktop *)
DrawAll(d, i) ==
    /\ back' = WithWindows(d, RestoredShell(d.wm, back, Tiles), Tiles) /\ Present(back')
    /\ cursors' = {i.at} /\ missed' = {}

RenderAll(d, i) == DrawAll(d, i) /\ cache' \in Prepared(d.wm)

(* render_desktop_partial; without memory it is render_desktop. A cache    *)
(* that is not current is first drawn anew, over the whole draw buffer.    *)
RenderPart(d, i, tiles) ==
    LET current == ~i.tick /\ cache = Drawn(d.wm)
        under == IF current THEN back ELSE RestoredShell(d.wm, back, Tiles)
    IN  /\ cache' \in Prepared(d.wm)
        /\ IF cache' = NoCache THEN DrawAll(d, i)
           ELSE /\ back' = WithWindows(d, RestoredShell(d.wm, under, tiles), tiles)
                /\ PresentRegion(back', tiles)
                /\ cursors' = (cursors \ tiles) \cup {i.at}
                /\ missed' = missed \cup (IF current THEN {} ELSE {"shellRedrawn"})
                                    \cup (IF PlacedBelow(d.wm) THEN {"placedBelow"} ELSE {})
                                    \cup (IF DragDropped(d) THEN {"dragDropped"} ELSE {})

(* refresh_cursor_only and refresh_desktop_chrome *)
WithChrome(s, buffer) == [t \in Tiles |-> IF t \in {Bar, Dock} THEN Shell(s, t) ELSE buffer[t]]

RefreshOnly(d, i) ==
    LET between == CursorTiles(i)
        chrome == IF i.tick THEN {Bar, Dock} ELSE {}
        shown == Restored(front, between)
    IN  /\ front' = IF i.tick THEN WithChrome(d.wm, shown) ELSE shown
        /\ back' = IF i.tick THEN WithChrome(d.wm, back) ELSE back
        /\ cursors' = IF Moved(i) \/ i.tick THEN (cursors \ (between \cup chrome)) \cup {i.at} ELSE cursors
        /\ missed' = missed \cup (IF KeyWithMouse(d, i) THEN {"keyWithMouse"} ELSE {})
        /\ cache' = IF i.tick THEN [cache EXCEPT !.current = FALSE] ELSE cache

(* render_desktop while the machine is going down: no cursor, no cache.    *)
DrawPower ==
    /\ back' = [t \in Tiles |-> PowerScreen] /\ Present(back')
    /\ cursors' = {} /\ missed' = {} /\ UNCHANGED cache

Draw(d, i) ==
    LET full == d.full \/ i.prompt # prompt
        tiles == DirtyTiles(d, i)
    IN  IF d.wm.power THEN DrawPower
        ELSE IF ~(d.dirty \/ full \/ KeyAlone(i)) THEN RefreshOnly(d, i)
        ELSE IF full \/ tiles = {} THEN RenderAll(d, i)
        ELSE RenderPart(d, i, tiles)

(* One pass of gui_run_desktop, *)
Pass ==
    /\ ~wm.power
    /\ \E i \in Inputs :
           \E s \in Typed(wm, i.key) : \E r \in Clicks(s, i) :
               LET d == Drag(RightClick(r, i), i)
               IN  /\ wm' = d.wm /\ prompt' = d.prompt
                   /\ mouse' = [at |-> i.at, left |-> i.left]
                   /\ Draw(d, i)

(* and one that waits for the end: nothing is handled any more.            *)
GoesDown ==
    /\ wm.power
    /\ \E i \in Inputs : mouse' = [at |-> i.at, left |-> i.left]
    /\ UNCHANGED <<wm, prompt>> /\ DrawPower

DesktopNext == Pass \/ GoesDown

DesktopSpec == DesktopInit /\ [][DesktopNext]_desktopVars

-----------------------------------------------------------------------------
(* Between two passes every tile shows the window that is on top there,    *)
(* and the dock as it is: opening, closing, raising, moving or covering a  *)
(* window leaves no ghost and no hole - except after the four changes that *)
(* no rule of the loop covers, until everything is drawn again; and once   *)
(* the machine is going down nothing comes through its screen              *)
(* (compute_dirty_rects_from_snapshot, gui_run_desktop).                   *)
NoGhosts == missed = {} => \A t \in Tiles : front[t] = Picture(wm, prompt, t)

(* One cursor is on the screen, where the mouse is, whatever mixture of    *)
(* full, partial, cursor and chrome updates has drawn it, and none while   *)
(* the machine is going down.                                              *)
OneCursor == cursors = IF wm.power THEN {} ELSE {mouse.at}
=============================================================================
