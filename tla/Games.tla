------------------------------- MODULE Games -------------------------------
(***************************************************************************)
(* The snake: a sequence of cells, head first, on a grid; a cell is its    *)
(* number, row by row. Its state is kept while its windows are closed, and *)
(* keys reach it whenever one of them can be seen. Tic-tac-toe is played   *)
(* by two at one mouse, on one of the pages of the Games window.           *)
(***************************************************************************)
EXTENDS Integers, Sequences, FiniteSetsExt

CONSTANTS
    GridWidth, GridHeight,    \* SNAKE_GRID_WIDTH, SNAKE_GRID_HEIGHT
    Capacity,                 \* how many segments snake_x and snake_y hold
    FirstBody, FirstFood,     \* where snake_reset_state puts them
    MaxScore                  \* bound: a game goes on up to that

VARIABLES
    snake,
    ttt,     \* ttt_cells, ttt_turn, ttt_winner and ttt_draw
    screen   \* games_screen

TotalCells == GridWidth * GridHeight
Grid == 0 .. TotalCells - 1
Directions == {<<0, -1>>, <<0, 1>>, <<-1, 0>>, <<1, 0>>}
Column(cell) == cell % GridWidth
Row(cell) == cell \div GridWidth

(* snake_reset_state *)
Fresh == [body |-> FirstBody, dir |-> <<1, 0>>, food |-> FirstFood, score |-> 0, over |-> FALSE]

(* snake_spawn_food: from a place the clock and the game give, every fifth *)
(* cell; if none is free the food stays.                                   *)
FreeOffsets(body, seed) == {k \in Grid : (seed + k * 5) % TotalCells \notin Range(body)}

SpawnFood_blind(s, second) ==
    [s EXCEPT !.food = (second + s.score * 7 + Len(s.body) * 13) % TotalCells]

SpawnFood(s, second) ==
    LET seed == (second + s.score * 7 + Len(s.body) * 13) % TotalCells
        free == FreeOffsets(s.body, seed)
    IN  IF free = {} THEN s ELSE [s EXCEPT !.food = (seed + Min(free) * 5) % TotalCells]

(* A turn back into the neck goes on as before. *)
Heading(s, dir) == IF Len(s.body) > 1 /\ dir = <<-s.dir[1], -s.dir[2]>> THEN s.dir ELSE dir

Blocked(s, x, y) ==
    \/ x < 0 \/ y < 0 \/ x >= GridWidth \/ y >= GridHeight
    \/ x + y * GridWidth \in Range(s.body)

(* The body moves up by one; a snake that has eaten keeps its tail while   *)
(* there is room for it.                                                   *)
Crept(s, head) ==
    IF head = s.food /\ Len(s.body) < Capacity THEN <<head>> \o s.body
    ELSE <<head>> \o SubSeq(s.body, 1, Len(s.body) - 1)

(* snake_move *)
SnakeMove(s, dir, second) ==
    LET to == Heading(s, dir)
        x == Column(s.body[1]) + to[1]
        y == Row(s.body[1]) + to[2]
        head == x + y * GridWidth
        moved == [s EXCEPT !.body = Crept(s, head), !.dir = to]
    IN  IF s.over THEN Fresh
        ELSE IF Blocked(s, x, y) THEN [s EXCEPT !.over = TRUE]
        ELSE IF head = s.food THEN SpawnFood([moved EXCEPT !.score = @ + 1], second) ELSE moved

SnakeInit == snake = Fresh

(* handle_snake_click: the button, and the key, that start anew.           *)
NewGame == snake' = Fresh

(* Arrow keys reach it too. *)
SnakeNext ==
    \/ /\ snake.score < MaxScore
       /\ \E dir \in Directions, second \in Grid : snake' = SnakeMove(snake, dir, second)
    \/ NewGame

-----------------------------------------------------------------------------
Squares == 0 .. 8
Lines == << {0, 1, 2}, {3, 4, 5}, {6, 7, 8}, {0, 3, 6}, {1, 4, 7}, {2, 5, 8}, {0, 4, 8}, {2, 4, 6} >>

(* ttt_reset *)
EmptyBoard == [cells |-> [q \in Squares |-> 0], turn |-> 1, winner |-> 0, draw |-> FALSE]

BoardInit == ttt = EmptyBoard /\ screen = "HOME"

Full(cells) == \A q \in Squares : cells[q] # 0
HasLine(cells, player) == \E n \in DOMAIN Lines : \A q \in Lines[n] : cells[q] = player

(* ttt_update_state; the first form asks for a draw before it asks for a   *)
(* line.                                                                   *)
WithVerdict_drawFirst(t) ==
    IF Full(t.cells) THEN [t EXCEPT !.draw = TRUE]
    ELSE IF \E p \in {1, 2} : HasLine(t.cells, p)
    THEN [t EXCEPT !.winner = CHOOSE p \in {1, 2} : HasLine(t.cells, p)] ELSE t

WithVerdict(t) ==
    IF \E p \in {1, 2} : HasLine(t.cells, p)
    THEN [t EXCEPT !.winner = CHOOSE p \in {1, 2} : HasLine(t.cells, p), !.draw = FALSE]
    ELSE [t EXCEPT !.draw = Full(t.cells)]

(* handle_games_click *)
ShowScreen(page) == screen' = page /\ UNCHANGED ttt

ResetBoard == screen = "TICTACTOE" /\ ttt' = EmptyBoard /\ UNCHANGED screen

Mark(q) ==
    /\ screen = "TICTACTOE" /\ ttt.winner = 0 /\ ~ttt.draw /\ ttt.cells[q] = 0
    /\ ttt' = WithVerdict([ttt EXCEPT !.cells[q] = ttt.turn, !.turn = 3 - @])
    /\ UNCHANGED screen

BoardNext ==
    \/ \E page \in {"HOME", "SNAKE", "TICTACTOE"} : ShowScreen(page)
    \/ ResetBoard
    \/ \E q \in Squares : Mark(q)

-----------------------------------------------------------------------------
Beside(a, b) ==
    \/ Row(a) = Row(b) /\ Column(a) - Column(b) \in {-1, 1}
    \/ Column(a) = Column(b) /\ Row(a) - Row(b) \in {-1, 1}

(* Through growing, turning back, the full array and new games the snake   *)
(* stays in one piece: its segments are neighbours, none lies on another,  *)
(* their number is the score until the array is full, and food is always   *)
(* where the snake is not, so that the game can go on (snake_move,         *)
(* snake_spawn_food).                                                      *)
SnakeInOnePiece ==
    /\ IsInjective(snake.body) /\ Range(snake.body) \subseteq Grid
    /\ \A k \in 1 .. Len(snake.body) - 1 : Beside(snake.body[k], snake.body[k + 1])
    /\ Len(snake.body) = Min({Len(FirstBody) + snake.score, Capacity})
    /\ snake.food \notin Range(snake.body)

(* Whatever pages are turned and whenever the board is cleared: the two    *)
(* take turns, X first; a game is won by the one who moved last and only   *)
(* by a line, also on the ninth square, drawn only on a full board without *)
(* one, and over as soon as it is either (ttt_update_state,                *)
(* handle_games_click).                                                    *)
VerdictIsRight ==
    LET marks(p) == Cardinality({q \in Squares : ttt.cells[q] = p})
        other == 3 - ttt.turn
    IN  /\ marks(1) = marks(2) + (IF ttt.turn = 1 THEN 0 ELSE 1)
        /\ ttt.winner = IF HasLine(ttt.cells, other) THEN other ELSE 0
        /\ ~HasLine(ttt.cells, ttt.turn)
        /\ ttt.draw <=> Full(ttt.cells) /\ ttt.winner = 0
=============================================================================
