------------------------------ MODULE Windows ------------------------------
(***************************************************************************)
(* The window manager: flags, places and stacking order of the windows and *)
(* the operations on them, as functions from one state of the windows to   *)
(* the next, with what the launcher does beside opening windows. The       *)
(* screen is a row of cells between the top bar and the dock, which        *)
(* windows are clamped out of; a place is where a window begins and how    *)
(* many cells it covers. What a window shows inside is left out. No        *)
(* statement of the code shades a window, so none here is shaded.          *)
(***************************************************************************)
EXTENDS Naturals, Sequences, FiniteSets

CONSTANTS
    Width,    \* cells of the screen
    Plain,    \* windows without a dock icon
    Start     \* where and how wide each window first is

Window == {"SEARCH", "SETTINGS"} \cup Plain
DockApps == {"SEARCH", "SETTINGS"}
Styles == {"MACXWIN", "TENUI"}
NoWindow == "NONE"

Cells == 1 .. Width
Places == {p \in [at : Cells, wide : Cells] : p.at + p.wide <= Width + 1}

(* A name of a window is not one of what else a tile may show. *)
ASSUME WindowsAssumption ==
    /\ Width \in Nat /\ Width > 1
    /\ IsFiniteSet(Plain)
    /\ Plain \cap {NoWindow, "shell", "PROMPT", "POWER"} = {}
    /\ Start \in [Window -> Places]

(* get_window_open_flag and the like: what there is of every window.       *)
WindowState ==
    [open : BOOLEAN, mini : BOOLEAN, full : BOOLEAN, place : Places, restore : Places]

WindowsState ==
    [order : [1 .. Cardinality(Window) -> Window], win : [Window -> WindowState],
     drag : Window \cup {NoWindow}, grip : 0 .. Width, style : Styles,
     menu : BOOLEAN, power : BOOLEAN]

(* find_window_order_index *)
SlotOf(s, w) == CHOOSE k \in DOMAIN s.order : s.order[k] = w

(* window_visible *)
Visible(s, w) == s.win[w].open /\ ~s.win[w].mini

Covers(place, c) == place.at <= c /\ c < place.at + place.wide
CellsOf(place) == {c \in Cells : Covers(place, c)}

(* The loops that look for a window look at the last slot first. *)
Topmost(s, some) ==
    IF some = {} THEN NoWindow
    ELSE CHOOSE w \in some : \A v \in some : SlotOf(s, v) <= SlotOf(s, w)

(* find_top_window_at_point *)
Here(s, c) == {w \in Window : Visible(s, w) /\ Covers(s.win[w].place, c)}
TopAt(s, c) == Topmost(s, Here(s, c))

(* get_top_visible_window_composite_rect *)
TopVisible(s) == Topmost(s, {w \in Window : Visible(s, w)})

(* desktop_shell_dock_mask *)
DockMask(s) == [apps |-> {w \in DockApps : s.win[w].open}, style |-> s.style]

-----------------------------------------------------------------------------
(* bring_window_to_front *)
ToFront(s, w) ==
    [s EXCEPT !.order = [k \in DOMAIN @ |-> IF k < SlotOf(s, w) THEN @[k]
                                            ELSE IF k < Cardinality(Window) THEN @[k + 1] ELSE w]]

(* position_search_panel *)
PositionSearch(s) ==
    [s EXCEPT !.win["SEARCH"].place.at =
        IF s.style = "TENUI" THEN 1 ELSE (Width - s.win["SEARCH"].place.wide) \div 2 + 1]

OpenWindow(s, w) ==
    LET opened == [s EXCEPT !.win[w].open = TRUE, !.win[w].mini = FALSE]
    IN  ToFront(IF w = "SEARCH" THEN PositionSearch(opened) ELSE opened, w)

CloseWindow(s, w) ==
    [s EXCEPT !.win[w].open = FALSE, !.win[w].mini = FALSE,
              !.drag = IF @ = w THEN NoWindow ELSE @]

MinimizeWindow(s, w) == [s EXCEPT !.win[w].open = TRUE, !.win[w].mini = TRUE]

(* clamp_window_rect, of the place where a window of that width may begin *)
Clamp(at, wide) == IF at < 1 THEN 1 ELSE IF at > Width - wide + 1 THEN Width - wide + 1 ELSE at

ToggleFullscreen(s, w) ==
    LET v == s.win[w]
    IN  IF w = "SEARCH" THEN s
        ELSE IF v.full
        THEN [s EXCEPT !.win[w].place = [v.restore EXCEPT !.at = Clamp(v.restore.at, v.restore.wide)],
                       !.win[w].full = FALSE]
        ELSE [s EXCEPT !.win[w].restore = v.place, !.win[w].full = TRUE,
                       !.win[w].place = [at |-> 1, wide |-> Width]]

WithoutMenu(s) == [s EXCEPT !.menu = FALSE]

(* toggle_dock_app *)
ToggleDock(s, w) ==
    LET t == IF w = "SEARCH" THEN WithoutMenu(s) ELSE s
    IN  IF ~Visible(s, w) THEN OpenWindow(t, w)
        ELSE IF w = "SEARCH" THEN CloseWindow(t, w)
        ELSE MinimizeWindow(t, w)

-----------------------------------------------------------------------------
(* launcher_result_at: what there is to choose, as far as the query goes.  *)
LauncherResults == {"SETTINGS"} \cup Plain

(* Enter opens the first match, and activate_launcher_result what was      *)
(* clicked.                                                                *)
OpenMatch(s, w) == CloseWindow(OpenWindow(s, w), "SEARCH")
Launch(s, w) == WithoutMenu(OpenMatch(s, w))

(* begin_power_action *)
BeginPowerAction(s) == WithoutMenu(CloseWindow([s EXCEPT !.power = TRUE], "SEARCH"))

(* handle_launcher_click: the power button, a line of its menu, an         *)
(* application, or none of these.                                          *)
LauncherClicks(s) ==
    {[s EXCEPT !.menu = ~@], WithoutMenu(s)}
    \cup (IF s.menu THEN {s, BeginPowerAction(s)} ELSE {})
    \cup {Launch(s, w) : w \in LauncherResults}

-----------------------------------------------------------------------------

(* The button handlers end any drag first. *)
PressClose(s, w) == CloseWindow([s EXCEPT !.drag = NoWindow], w)
PressFullscreen(s, w) == ToggleFullscreen([s EXCEPT !.drag = NoWindow], w)

(* A press on the title bar, c cells into the row. *)
Grip(s, w, c) == [s EXCEPT !.drag = w, !.grip = c - s.win[w].place.at]

(* move_dragged_window_to_mouse; a place left of the screen is a huge      *)
(* unsigned number there and ends up at the right edge.                    *)
DragTo(s, c) ==
    LET p == s.win[s.drag].place
        at == IF c < s.grip THEN Width ELSE c - s.grip
    IN  [s EXCEPT !.win[s.drag].place.at = IF c = p.at + s.grip THEN p.at ELSE Clamp(at, p.wide)]

SetStyle(s, style) == PositionSearch([s EXCEPT !.style = style])

(* initialize_window_order, and the windows desktop_initialize opens *)
WindowsInit(order, opened) ==
    [order |-> order,
     win |-> [w \in Window |-> [open |-> w \in opened, mini |-> FALSE, full |-> FALSE,
                                place |-> Start[w], restore |-> Start[w]]],
     drag |-> NoWindow, grip |-> 0, style |-> "MACXWIN", menu |-> FALSE, power |-> FALSE]
=============================================================================
