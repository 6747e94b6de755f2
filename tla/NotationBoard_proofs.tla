------------------------- MODULE NotationBoard_proofs -------------------------
(* What do_move and undo_move do to every board. *)
EXTENDS NotationBoard, TLAPS

\* A move of the program: its squares are on the board with its margin.
IsMove(mv) == From(mv) \in Squares /\ To(mv) \in Squares /\ Beside(mv) \in Squares

LEMMA TwoBack ==
    ASSUME NEW S, NEW V, NEW g \in [S -> V], NEW a \in S, NEW b \in S, a # b,
           NEW x, NEW y
    PROVE  [[g EXCEPT ![a] = x, ![b] = y] EXCEPT ![a] = g[a], ![b] = g[b]] = g
OBVIOUS

LEMMA TwoAgain ==
    ASSUME NEW S, NEW V, NEW g \in [S -> V], NEW a \in S, NEW b \in S,
           NEW x, NEW y, NEW p, NEW q
    PROVE  [[[g EXCEPT ![a] = x, ![b] = y] EXCEPT ![a] = p, ![b] = q]
               EXCEPT ![a] = x, ![b] = y] = [g EXCEPT ![a] = x, ![b] = y]
OBVIOUS

LEMMA ThreeAgain ==
    ASSUME NEW S, NEW V, NEW g \in [S -> V], NEW a \in S, NEW b \in S, NEW c \in S,
           NEW x, NEW y, NEW z, NEW p, NEW q, NEW r
    PROVE  [[[g EXCEPT ![a] = x, ![b] = y, ![c] = z]
               EXCEPT ![a] = p, ![b] = q, ![c] = r]
               EXCEPT ![a] = x, ![b] = y, ![c] = z]
           = [g EXCEPT ![a] = x, ![b] = y, ![c] = z]
OBVIOUS

LEMMA FourBack ==
    ASSUME NEW S, NEW V, NEW g \in [S -> V], NEW a \in S, NEW b \in S, NEW c \in S,
           NEW d \in S, a # b, a # c, a # d, b # c, b # d, c # d,
           NEW x, NEW y, NEW z, NEW w
    PROVE  [[g EXCEPT ![a] = x, ![b] = y, ![c] = z, ![d] = w]
               EXCEPT ![a] = g[a], ![b] = g[b], ![d] = g[d], ![c] = g[c]] = g
OBVIOUS

\* The four squares of castling differ and lie on the board.
LEMMA RoqueSquares ==
    ASSUME NEW mv, IsRoque(mv)
    PROVE  LET l == RoqueLine(mv)
               r == RoqueCols(mv)
           IN  /\ <<l, r.king>> \in Squares /\ <<l, r.rook>> \in Squares
               /\ <<l, r.corner>> \in Squares /\ <<l, 5>> \in Squares
               /\ r.king # r.rook /\ r.king # r.corner /\ r.king # 5
               /\ r.rook # r.corner /\ r.rook # 5 /\ r.corner # 5
BY DEF IsRoque, RoqueLine, RoqueCols, Squares, SIZE

\* On every board, undo_move takes back a move that is Undoable: the board is
\* the one before the move, square for square.
THEOREM UndoRestores ==
    ASSUME NEW g \in Board, NEW mv, IsMove(mv), Undoable(g, mv)
    PROVE  undo_move(do_move(g, mv), mv) = g
<1> DEFINE V == [piece : Piece \cup {VOID}, color : Color \cup {VOID}]
           D == do_move(g, mv)
           l == RoqueLine(mv)
           r == RoqueCols(mv)
<1>g. g \in [Squares -> V]
  BY DEF Board
<1>1. CASE IsRoque(mv)
  <2>1. /\ <<l, r.king>> \in Squares /\ <<l, r.rook>> \in Squares
        /\ <<l, r.corner>> \in Squares /\ <<l, 5>> \in Squares
        /\ r.king # r.rook /\ r.king # r.corner /\ r.king # 5
        /\ r.rook # r.corner /\ r.rook # 5 /\ r.corner # 5
    BY <1>1, RoqueSquares
  <2> DEFINE a == <<l, r.king>>
             b == <<l, r.rook>>
             c == <<l, r.corner>>
             d == <<l, 5>>
             x == Cell(KING, CURCOLOR(mv))
             y == Cell(ROOK, CURCOLOR(mv))
  <2>2. D = [g EXCEPT ![a] = x, ![b] = y, ![c] = Empty, ![d] = Empty]
    BY <1>1 DEF do_move, IsRoque
  <2>3. undo_move(D, mv) = [D EXCEPT ![a] = g[a], ![b] = g[b], ![d] = g[d], ![c] = g[c]]
    BY <1>1 DEF undo_move, IsRoque, Undoable
  <2>4. /\ a \in Squares /\ b \in Squares /\ c \in Squares /\ d \in Squares
        /\ a # b /\ a # c /\ a # d /\ b # c /\ b # d /\ c # d
    BY <2>1
  <2> HIDE DEF V, D, a, b, c, d, x, y
  <2>5. [[g EXCEPT ![a] = x, ![b] = y, ![c] = Empty, ![d] = Empty]
            EXCEPT ![a] = g[a], ![b] = g[b], ![d] = g[d], ![c] = g[c]] = g
    BY <1>g, <2>4, FourBack
  <2>6. undo_move(D, mv) = g
    BY <2>2, <2>3, <2>5
  <2> QED
    BY <2>6 DEF D
<1>2. CASE mv.type \in {"MOVE", "PRISE", "PROMOTION", "PROM_ET_PRISE"}
  <2>1. From(mv) \in Squares /\ To(mv) \in Squares /\ From(mv) # To(mv)
    BY <1>2 DEF IsMove, Undoable, IsRoque
  <2>2. D = [g EXCEPT ![To(mv)] = Cell(mv.piece, CURCOLOR(mv)), ![From(mv)] = Empty]
    BY <1>2 DEF do_move
  <2>3. undo_move(D, mv) = [D EXCEPT ![To(mv)] = g[To(mv)], ![From(mv)] = g[From(mv)]]
    BY <1>2 DEF undo_move, Undoable, IsRoque
  <2> HIDE DEF V, D
  <2>4. undo_move(D, mv) = g
    BY <1>g, <2>1, <2>2, <2>3, TwoBack
  <2> QED
    BY <2>4 DEF D
<1>3. CASE mv.type = "EN_PASSANT"
  BY <1>3 DEF Undoable, IsRoque
<1>4. CASE mv.type \notin {"MOVE", "PRISE", "PROMOTION", "PROM_ET_PRISE", "EN_PASSANT",
                           "GRANDROQUE", "PETITROQUE"}
  BY <1>4 DEF do_move, undo_move, IsRoque
<1> QED
  BY <1>1, <1>2, <1>3, <1>4 DEF IsRoque

\* Whatever stands on the board, printing a move other than castling leaves it
\* alone: ambiguity takes the move back, perhaps wrongly, and makes it again.
THEOREM PrintingKeepsBoard ==
    ASSUME NEW g \in Board, NEW mv, IsMove(mv), ~IsRoque(mv)
    PROVE  ambiguity(do_move(g, mv), mv).board = do_move(g, mv)
<1> DEFINE V == [piece : Piece \cup {VOID}, color : Color \cup {VOID}]
           D == do_move(g, mv)
           U == undo_move(D, mv)
<1>g. g \in [Squares -> V] /\ From(mv) \in Squares /\ To(mv) \in Squares /\ Beside(mv) \in Squares
  BY DEF Board, IsMove
<1>1. SUFFICES do_move(U, mv) = D
  BY DEF ambiguity
<1>2. CASE mv.type \in {"MOVE", "PRISE", "PROMOTION", "PROM_ET_PRISE"}
  <2>1. PICK p, q : U = [D EXCEPT ![To(mv)] = p, ![From(mv)] = q]
    BY <1>2 DEF undo_move, IsRoque
  <2>2. D = [g EXCEPT ![To(mv)] = Cell(mv.piece, CURCOLOR(mv)), ![From(mv)] = Empty]
    BY <1>2 DEF do_move
  <2>3. do_move(U, mv) = [U EXCEPT ![To(mv)] = Cell(mv.piece, CURCOLOR(mv)), ![From(mv)] = Empty]
    BY <1>2 DEF do_move
  <2> HIDE DEF V, D, U
  <2> QED
    BY <1>g, <2>1, <2>2, <2>3, TwoAgain
<1>3. CASE mv.type = "EN_PASSANT"
  <2>1. PICK p, q, s : U = [D EXCEPT ![To(mv)] = p, ![Beside(mv)] = q, ![From(mv)] = s]
    BY <1>3 DEF undo_move, IsRoque
  <2>2. D = [g EXCEPT ![To(mv)] = Cell(mv.piece, CURCOLOR(mv)), ![Beside(mv)] = Empty,
                      ![From(mv)] = Empty]
    BY <1>3 DEF do_move, IsRoque
  <2>3. do_move(U, mv) = [U EXCEPT ![To(mv)] = Cell(mv.piece, CURCOLOR(mv)),
                                   ![Beside(mv)] = Empty, ![From(mv)] = Empty]
    BY <1>3 DEF do_move, IsRoque
  <2> HIDE DEF V, D, U
  <2> QED
    BY <1>g, <2>1, <2>2, <2>3, ThreeAgain
<1>4. CASE mv.type \notin {"MOVE", "PRISE", "PROMOTION", "PROM_ET_PRISE", "EN_PASSANT"}
  BY <1>4 DEF do_move, undo_move, IsRoque
<1> QED
  BY <1>2, <1>3, <1>4

\* En passant is never taken back: the captured pawn stands elsewhere than the
\* square undo_move puts it on, so on every board it is missing afterwards.
THEOREM PassantNotRestored ==
    ASSUME NEW g \in Board, NEW mv, IsMove(mv), mv.type = "EN_PASSANT",
           NEW victim \in Squares, victim = <<mv.fromlig, mv.tocol>>,
           g[victim] = Cell(PAWN, OPPCOLOR(mv)),
           victim # From(mv), victim # To(mv), victim # Beside(mv)
    PROVE  undo_move(do_move([g EXCEPT ![victim] = Empty], mv), mv) # g
<1> DEFINE T == [g EXCEPT ![victim] = Empty]
           D == do_move(T, mv)
           U == undo_move(D, mv)
<1>1. T[victim] = Empty /\ DOMAIN T = Squares
  BY DEF Board
<1>2. D = [T EXCEPT ![To(mv)] = Cell(mv.piece, CURCOLOR(mv)), ![Beside(mv)] = Empty,
                    ![From(mv)] = Empty]
  BY DEF do_move, IsRoque
<1>3. PICK p, q, s : U = [D EXCEPT ![To(mv)] = p, ![Beside(mv)] = q, ![From(mv)] = s]
  BY DEF undo_move, IsRoque
<1> HIDE DEF T, D, U
<1>4. D[victim] = Empty /\ DOMAIN D = Squares
  BY <1>1, <1>2
<1>5. U[victim] = Empty
  BY <1>3, <1>4
<1>6. g[victim] # Empty
  BY DEF Cell, Empty, PAWN, VOID
<1> QED
  BY <1>5, <1>6 DEF T, D, U
===============================================================================
