---------------------------- MODULE NotationBoard ----------------------------
(***************************************************************************)
(* The board of hw2's chess notation program (notation.c): what a move does *)
(* to it and what undoes it, where a piece may come from, and whether a     *)
(* move is accepted.  A board maps each square <<line, column>> to the      *)
(* piece and the colour the code keeps there in two arrays; lines and       *)
(* columns 1..8 are the chess board, the rest is the code's margin.         *)
(***************************************************************************)
EXTENDS Integers, Sequences, FiniteSetsExt

VOID == "void"
KING == "K"
QUEEN == "Q"
ROOK == "R"
BISHOP == "B"
KNIGHT == "N"
PAWN == "P"
WHITE == "white"
BLACK == "black"

SIZE == 10
Squares == (0..SIZE-1) \X (0..SIZE-1)
Piece == {KING, QUEEN, ROOK, BISHOP, KNIGHT, PAWN}
Color == {WHITE, BLACK}

Cell(p, c) == [piece |-> p, color |-> c]
Empty == Cell(VOID, VOID)
Board == [Squares -> [piece : Piece \cup {VOID}, color : Color \cup {VOID}]]

CURCOLOR(mv) == IF mv.whiteturn THEN WHITE ELSE BLACK
OPPCOLOR(mv) == IF mv.whiteturn THEN BLACK ELSE WHITE

clear_board == [sq \in Squares |-> Empty]

init_board ==
    LET back == <<ROOK, KNIGHT, BISHOP, QUEEN, KING, BISHOP, KNIGHT, ROOK>>
    IN  [sq \in Squares |->
            LET l == sq[1]  c == sq[2]
            IN  IF c \notin 1..8 \/ l \notin {1, 2, 7, 8} THEN Empty
                ELSE Cell(IF l \in {2, 7} THEN PAWN ELSE back[c],
                          IF l <= 2 THEN WHITE ELSE BLACK)]

(***************************************************************************)
(* Doing and undoing a move.                                                *)
(***************************************************************************)
RoqueLine(mv) == IF mv.whiteturn THEN 1 ELSE 8
IsRoque(mv) == mv.type \in {"GRANDROQUE", "PETITROQUE"}

\* The king and the rook move between these columns: from, from, to, to.
RoqueCols(mv) == IF mv.type = "GRANDROQUE"
                 THEN [king |-> 3, rook |-> 4, corner |-> 1]
                 ELSE [king |-> 7, rook |-> 6, corner |-> 8]

From(mv) == <<mv.fromlig, mv.fromcol>>
To(mv) == <<mv.tolig, mv.tocol>>
Beside(mv) == <<mv.tolig, mv.fromcol>>

\* The mutant leaves the rook in its corner.
do_move_corner(g, mv) ==
    LET l == RoqueLine(mv)
        r == RoqueCols(mv)
    IN  IF IsRoque(mv)
        THEN [g EXCEPT ![<<l, r.king>>] = Cell(KING, CURCOLOR(mv)),
                       ![<<l, r.rook>>] = Cell(ROOK, CURCOLOR(mv)), ![<<l, 5>>] = Empty]
        ELSE [g EXCEPT ![To(mv)] = Cell(mv.piece, CURCOLOR(mv)), ![From(mv)] = Empty]

\* en passant clears the square beside the pawn's target, not the one the
\* captured pawn stands on: check_move has cleared that one
do_move(g, mv) ==
    LET mine == Cell(mv.piece, CURCOLOR(mv))
        l == RoqueLine(mv)
        r == RoqueCols(mv)
    IN  IF mv.type \in {"MOVE", "PRISE", "PROMOTION", "PROM_ET_PRISE"}
        THEN [g EXCEPT ![To(mv)] = mine, ![From(mv)] = Empty]
        ELSE IF IsRoque(mv)
        THEN [g EXCEPT ![<<l, r.king>>] = Cell(KING, CURCOLOR(mv)),
                       ![<<l, r.rook>>] = Cell(ROOK, CURCOLOR(mv)),
                       ![<<l, r.corner>>] = Empty, ![<<l, 5>>] = Empty]
        ELSE IF mv.type = "EN_PASSANT"
        THEN [g EXCEPT ![To(mv)] = mine, ![Beside(mv)] = Empty, ![From(mv)] = Empty]
        ELSE g

\* The mutant does not give back what a capture took.
undo_move_keeps(g, mv) ==
    LET l == RoqueLine(mv)
        r == RoqueCols(mv)
    IN  IF IsRoque(mv)
        THEN [g EXCEPT ![<<l, r.king>>] = Empty, ![<<l, r.rook>>] = Empty,
                       ![<<l, 5>>] = Cell(KING, CURCOLOR(mv)),
                       ![<<l, r.corner>>] = Cell(ROOK, CURCOLOR(mv))]
        ELSE [g EXCEPT ![To(mv)] = Empty, ![From(mv)] = Cell(mv.piece, CURCOLOR(mv))]

undo_move(g, mv) ==
    LET mine == Cell(mv.piece, CURCOLOR(mv))
        pawn == Cell(PAWN, CURCOLOR(mv))
        taken == Cell(mv.prise, OPPCOLOR(mv))
        l == RoqueLine(mv)
        r == RoqueCols(mv)
    IN  IF mv.type = "MOVE"
        THEN [g EXCEPT ![To(mv)] = Empty, ![From(mv)] = mine]
        ELSE IF mv.type = "PRISE"
        THEN [g EXCEPT ![To(mv)] = taken, ![From(mv)] = mine]
        ELSE IF IsRoque(mv)
        THEN [g EXCEPT ![<<l, r.king>>] = Empty, ![<<l, r.rook>>] = Empty,
                       ![<<l, 5>>] = Cell(KING, CURCOLOR(mv)),
                       ![<<l, r.corner>>] = Cell(ROOK, CURCOLOR(mv))]
        ELSE IF mv.type = "EN_PASSANT"
        THEN [g EXCEPT ![To(mv)] = Empty,
                       ![Beside(mv)] = Cell(PAWN, OPPCOLOR(mv)), ![From(mv)] = mine]
        ELSE IF mv.type = "PROMOTION"
        THEN [g EXCEPT ![To(mv)] = Empty, ![From(mv)] = pawn]
        ELSE IF mv.type = "PROM_ET_PRISE"
        THEN [g EXCEPT ![To(mv)] = taken, ![From(mv)] = pawn]
        ELSE g

\* When a move can be taken back: the piece stands where it starts from, and
\* where it goes stands nothing or the piece it takes.
Undoable(g, mv) ==
    LET mine == Cell(mv.piece, CURCOLOR(mv))
        l == RoqueLine(mv)
        r == RoqueCols(mv)
    IN  IF IsRoque(mv)
        THEN /\ g[<<l, 5>>] = Cell(KING, CURCOLOR(mv))
             /\ g[<<l, r.corner>>] = Cell(ROOK, CURCOLOR(mv))
             /\ g[<<l, r.king>>] = Empty
             /\ g[<<l, r.rook>>] = Empty
        ELSE /\ From(mv) # To(mv)
             /\ g[From(mv)] = mine
             /\ g[To(mv)] = IF mv.type \in {"PRISE", "PROM_ET_PRISE"}
                            THEN Cell(mv.prise, OPPCOLOR(mv)) ELSE Empty
             /\ mv.type \in {"PROMOTION", "PROM_ET_PRISE"} => mv.piece = PAWN
             /\ mv.type # "EN_PASSANT"

(***************************************************************************)
(* Where a piece may come from.  A table lists the displacements in the     *)
(* order the code tries them.                                               *)
(***************************************************************************)
Rays(dirs) ==
    [k \in 1..7 * Len(dirs) |->
        LET d == dirs[(k - 1) \div 7 + 1]
            n == 7 - ((k - 1) % 7)
        IN  <<n * d[1], n * d[2]>>]

m_knight == <<<<2, 1>>, <<2, -1>>, <<-2, 1>>, <<-2, -1>>,
              <<1, 2>>, <<1, -2>>, <<-1, 2>>, <<-1, -2>>>>
m_bishop == Rays(<<<<1, 1>>, <<1, -1>>, <<-1, -1>>, <<-1, 1>>>>)
m_rook == Rays(<<<<1, 0>>, <<-1, 0>>, <<0, 1>>, <<0, -1>>>>)
m_queen == m_bishop \o m_rook
m_king == <<<<1, 1>>, <<1, 0>>, <<1, -1>>, <<-1, 1>>,
            <<-1, 0>>, <<-1, -1>>, <<0, 1>>, <<0, -1>>>>

\* A pawn's captures, its plain moves, and both, plain moves first.
PawnTakes(white) == LET d == IF white THEN 1 ELSE -1 IN <<<<d, 1>>, <<d, -1>>>>
PawnMoves(white) == LET d == IF white THEN 1 ELSE -1 IN <<<<d, 0>>, <<2 * d, 0>>>>
PawnAll(white) == PawnMoves(white) \o PawnTakes(white)

in_board(l, c) == l \in 1..8 /\ c \in 1..8

path_free(g, l1, c1, l2, c2) ==
    LET Sign(a) == IF a > 0 THEN 1 ELSE IF a < 0 THEN -1 ELSE 0
        Size(a) == IF a < 0 THEN -a ELSE a
        li == Sign(l2 - l1)
        ci == Sign(c2 - c1)
        n == IF l1 = l2 \/ (c1 # c2 /\ Size(c2 - c1) < Size(l2 - l1))
             THEN Size(c2 - c1) ELSE Size(l2 - l1)
    IN  \A k \in 1..n-1 : g[<<l1 + k * li, c1 + k * ci>>].piece = VOID

\* The squares guess_depl puts in alternate_moves, by the place in the table that
\* leads there: mv's piece, of the side to move, one of the displacements away
\* from its target, on line l1 and column c1 when these are known.
guess_depl(g, mv, table, l1, c1, path) ==
    LET Source(i) == <<mv.tolig - table[i][1], mv.tocol - table[i][2]>>
        Fits(sq) == /\ in_board(sq[1], sq[2])
                    /\ g[sq] = Cell(mv.piece, CURCOLOR(mv))
                    /\ path => path_free(g, sq[1], sq[2], mv.tolig, mv.tocol)
                    /\ l1 \in {0, sq[1]}
                    /\ c1 \in {0, sq[2]}
    IN  [i \in {k \in DOMAIN table : Fits(Source(k))} |-> Source(i)]

\* The switch over the piece that three functions share; they differ in the
\* pawn's table.
TableOf(piece, pawntable) ==
    IF piece = PAWN THEN pawntable
    ELSE IF piece = KNIGHT THEN m_knight
    ELSE IF piece = BISHOP THEN m_bishop
    ELSE IF piece = ROOK THEN m_rook
    ELSE IF piece = QUEEN THEN m_queen
    ELSE IF piece = KING THEN m_king
    ELSE <<>>

ByPiece(g, mv, pawntable, l1, c1) ==
    guess_depl(g, mv, TableOf(mv.piece, pawntable), l1, c1, mv.piece \notin {PAWN, KNIGHT})

\* check_move and guess_move look at the piece taken, ambiguity at the type.
PawnTable(mv) == IF mv.prise # VOID THEN PawnTakes(mv.whiteturn) ELSE PawnAll(mv.whiteturn)

\* The alternatives ambiguity finds for a move already made, on the board with
\* the move undone; the board after it is the one with the move done again.
ambiguity(g, mv) ==
    LET back == undo_move(g, mv)
        table == IF mv.type = "PRISE" THEN PawnTakes(mv.whiteturn)
                 ELSE PawnMoves(mv.whiteturn)
    IN  [board |-> do_move(back, mv), from |-> ByPiece(back, mv, table, 0, 0)]

\* The first alternative found, if any; castling needs none.
Origin(mv, found) ==
    LET sq == IF DOMAIN found = {} THEN From(mv) ELSE found[Min(DOMAIN found)]
    IN  IF IsRoque(mv) THEN [ok |-> TRUE, mv |-> mv]
        ELSE IF sq[1] = 0 \/ sq[2] = 0 THEN [ok |-> FALSE, mv |-> mv]
        ELSE [ok |-> TRUE, mv |-> [mv EXCEPT !.fromlig = sq[1], !.fromcol = sq[2]]]

guess_move(g, mv) == Origin(mv, ByPiece(g, mv, PawnTable(mv), mv.fromlig, mv.fromcol))

\* Short castling looks at column 6 alone, and neither looks for king or rook.
check_roque(g, mv) ==
    LET between == IF mv.type = "GRANDROQUE" THEN 2..4 ELSE {6}
    IN  \A c \in between : g[<<RoqueLine(mv), c>>].piece = VOID

\* check_move is not a mere test: en passant changes the move's type and takes
\* the pawn off the board.
check_move(g, mv) ==
    LET from == g[From(mv)]
        to == g[To(mv)]
        found == ByPiece(g, mv, PawnTable(mv), mv.fromlig, mv.fromcol)
        victim == <<mv.fromlig, mv.tocol>>
        enpassant == /\ mv.piece = PAWN
                     /\ mv.fromcol # mv.tocol
                     /\ to.piece = VOID
                     /\ g[victim].piece = PAWN
        refused == [ok |-> FALSE, mv |-> mv, board |-> g]
    IN  IF IsRoque(mv) THEN [ok |-> check_roque(g, mv), mv |-> mv, board |-> g]
        ELSE IF from # Cell(mv.piece, CURCOLOR(mv)) THEN refused
        ELSE IF to.piece # VOID /\ mv.type \notin {"PRISE", "PROM_ET_PRISE"} THEN refused
        ELSE IF to.color = from.color /\ mv.prise # VOID THEN refused
        ELSE IF enpassant
        THEN [ok |-> TRUE, mv |-> [mv EXCEPT !.type = "EN_PASSANT"],
              board |-> [g EXCEPT ![victim] = Empty]]
        ELSE [ok |-> DOMAIN found # {}, mv |-> mv, board |-> g]
==============================================================================
