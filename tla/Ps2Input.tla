------------------------------ MODULE Ps2Input ------------------------------
(***************************************************************************)
(* Keyboard and mouse share one controller: its output buffer hands out    *)
(* bytes of both, marked by where they come from, in the order in which    *)
(* they came. A poll takes the bytes of the mouse that are in front, then  *)
(* those of the keyboard; bytes arrive at any time, also between two looks *)
(* at the status. A key is a modifier; the first byte of a packet carries  *)
(* the button, the others where the mouse went.                            *)
(***************************************************************************)
EXTENDS Naturals, Sequences, FiniteSets

CONSTANTS
    MaxWire,     \* bound: bytes waiting in controller and devices
    MaxMoves,    \* bound: packets of the mouse
    MaxKeys      \* bound: presses and releases of keys

VARIABLES
    wire,       \* bytes that wait
    typing,     \* what the keyboard has yet to send of a key
    packet,     \* what the mouse has yet to send of a packet
    hand,       \* the user: keys held, the button, how far the mouse went
    poll,       \* where poll_input is, and its extended_prefix
    mouse,      \* mouse_driver_state_t
    flags,      \* left_super_down, ctrl_down, shift_down, the crash hotkey
    history     \* what the driver cannot tell right from now on

inputVars == <<wire, typing, packet, hand, poll, mouse, flags, history>>

Key == {"super", "leftCtrl", "rightCtrl", "leftShift", "rightShift"}
Extended(key) == key \in {"super", "rightCtrl"}
Flag == {"super", "ctrl", "shift"}
FlagOf(key) ==
    CASE key = "super" -> "super"
      [] key \in {"leftCtrl", "rightCtrl"} -> "ctrl"
      [] key \in {"leftShift", "rightShift"} -> "shift"

Prefix == [from |-> "keyboard", code |-> "E0"]
Scancode(key, released) == [from |-> "keyboard", code |-> key, released |-> released]
PacketByte(n, left) == [from |-> "mouse", nth |-> n, left |-> left]

InputInit ==
    /\ wire = <<>> /\ typing = <<>> /\ packet = <<>>
    /\ hand = [held |-> {}, keys |-> 0, left |-> FALSE, moves |-> 0, both |-> FALSE]
    /\ poll = [at |-> "idle", extended |-> FALSE]
    \* mouse_driver_initialize gives up when the controller or the mouse does not answer
    /\ \E answered \in BOOLEAN :
          mouse = [initialized |-> answered, index |-> 0, first |-> FALSE, left |-> FALSE, moves |-> 0]
    /\ flags = [down |-> {}, hotkey |-> FALSE]
    /\ history = {}

-----------------------------------------------------------------------------
(* The user and the devices *)
Toggled(key) == IF key \in hand.held THEN hand.held \ {key} ELSE hand.held \cup {key}
BothHeld(held) == {"ctrl", "shift"} \subseteq {FlagOf(key) : key \in held}

PressOrRelease(key) ==
    /\ typing = <<>> /\ hand.keys < MaxKeys
    /\ hand' = [hand EXCEPT !.held = Toggled(key), !.keys = @ + 1, !.both = @ \/ BothHeld(Toggled(key))]
    /\ typing' = (IF Extended(key) THEN <<Prefix>> ELSE <<>>) \o <<Scancode(key, key \in hand.held)>>
    /\ history' = history \cup
          (IF Cardinality({k \in Toggled(key) : FlagOf(k) = FlagOf(key)}) = 2 THEN {"twoOfOneKind"} ELSE {})
    /\ UNCHANGED <<wire, packet, poll, mouse, flags>>

MoveOrClick(left) ==
    /\ packet = <<>> /\ hand.moves < MaxMoves
    /\ hand' = [hand EXCEPT !.left = left, !.moves = @ + 1]
    /\ packet' = [n \in 1 .. 3 |-> PacketByte(n, left)]
    /\ UNCHANGED <<wire, typing, poll, mouse, flags, history>>

KeyboardSends ==
    /\ typing # <<>> /\ Len(wire) < MaxWire
    /\ wire' = Append(wire, Head(typing)) /\ typing' = Tail(typing)
    /\ UNCHANGED <<packet, hand, poll, mouse, flags, history>>

MouseSends ==
    /\ packet # <<>> /\ Len(wire) < MaxWire
    /\ wire' = Append(wire, Head(packet)) /\ packet' = Tail(packet)
    /\ UNCHANGED <<typing, hand, poll, mouse, flags, history>>

-----------------------------------------------------------------------------
FromMouse == wire # <<>> /\ Head(wire).from = "mouse"
FromKeyboard == wire # <<>> /\ Head(wire).from = "keyboard"

(* mouse_handle_byte: a packet begins with a byte that has the sync bit,   *)
(* which of ours only the first is sure to have.                           *)
HandleByte(m, byte) ==
    IF ~m.initialized \/ (m.index = 0 /\ byte.nth # 1) THEN m
    ELSE IF m.index < 2
    THEN [m EXCEPT !.index = @ + 1, !.first = IF m.index = 0 THEN byte.left ELSE @]
    ELSE [m EXCEPT !.index = 0, !.left = m.first, !.moves = @ + 1]

(* mouse_driver_poll *)
BeginPoll ==
    /\ poll.at = "idle" /\ poll' = [poll EXCEPT !.at = "mouse"]
    /\ UNCHANGED <<wire, typing, packet, hand, mouse, flags, history>>

PollMouse ==
    /\ poll.at = "mouse"
    /\ IF FromMouse
       THEN mouse' = HandleByte(mouse, Head(wire)) /\ wire' = Tail(wire) /\ UNCHANGED poll
       ELSE poll' = [at |-> "keyboard", extended |-> FALSE] /\ UNCHANGED <<wire, mouse>>
    /\ UNCHANGED <<typing, packet, hand, flags, history>>

(* One of the two shift keys whose release has no case. *)
WithScancode_rightShift(f, byte, extended) ==
    LET flag == FlagOf(byte.code)
        down == IF flag = "super" /\ ~extended THEN f.down
                ELSE IF byte.released
                THEN (IF byte.code = "rightShift" THEN f.down ELSE f.down \ {flag})
                ELSE f.down \cup {flag}
        fires == ~byte.released /\ flag # "super" /\ {"ctrl", "shift"} \subseteq down
    IN  [down |-> down, hotkey |-> f.hotkey \/ fires]

(* The modifiers; the super key counts with its prefix only. *)
WithScancode(f, byte, extended) ==
    LET flag == FlagOf(byte.code)
        down == IF flag = "super" /\ ~extended THEN f.down
                ELSE IF byte.released THEN f.down \ {flag} ELSE f.down \cup {flag}
        fires == ~byte.released /\ flag # "super" /\ {"ctrl", "shift"} \subseteq down
    IN  [down |-> down, hotkey |-> f.hotkey \/ fires]

(* The rest of poll_input; the press that fires the hotkey keeps the       *)
(* prefix for the byte after it.                                           *)
PollKeyboard ==
    /\ poll.at = "keyboard" /\ FromKeyboard
    /\ wire' = Tail(wire)
    /\ LET byte == Head(wire)
           after == WithScancode(flags, byte, poll.extended)
       IN  IF byte = Prefix
           THEN poll' = [poll EXCEPT !.extended = TRUE] /\ UNCHANGED flags
           ELSE /\ flags' = after
                /\ poll' = [poll EXCEPT !.extended = @ /\ after.hotkey /\ ~flags.hotkey]
    /\ UNCHANGED <<typing, packet, hand, mouse, history>>

(* The prefix is forgotten with the poll that has read it. *)
EndPoll ==
    /\ poll.at = "keyboard" /\ ~FromKeyboard
    /\ poll' = [at |-> "idle", extended |-> FALSE]
    /\ history' = history \cup (IF poll.extended THEN {"splitPrefix"} ELSE {})
    /\ UNCHANGED <<wire, typing, packet, hand, mouse, flags>>

InputNext ==
    \/ \E key \in Key : PressOrRelease(key)
    \/ \E left \in BOOLEAN : MoveOrClick(left)
    \/ KeyboardSends \/ MouseSends
    \/ BeginPoll \/ PollMouse \/ PollKeyboard \/ EndPoll

-----------------------------------------------------------------------------
Quiet == wire = <<>> /\ typing = <<>> /\ packet = <<>> /\ poll.at = "idle"

(* Whatever the order in which the bytes of the two devices came and were  *)
(* taken: once nothing waits, the modifiers are those the user holds and   *)
(* the mouse is where the user has moved it, with its button. Two cases    *)
(* are beyond poll_input and excused: a prefix and its key in different    *)
(* polls, and two keys of one kind held together. Two more are not in the  *)
(* model: the shifts some keyboards send around arrow keys, and Pause,     *)
(* whose bytes begin like those of ctrl. The hotkey has fired only if ctrl *)
(* and shift were held together (poll_input, mouse_handle_byte).           *)
InputFollowsHand ==
    /\ Quiet /\ history = {} => flags.down = {FlagOf(key) : key \in hand.held}
    /\ Quiet /\ mouse.initialized => mouse.left = hand.left /\ mouse.moves = hand.moves
    /\ history = {} /\ flags.hotkey => hand.both
=============================================================================
