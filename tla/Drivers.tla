------------------------------- MODULE Drivers -------------------------------
(***************************************************************************)
(* hw2's output drivers (drivers.c): the format record dr, and what each of *)
(* its procedures prints.                                                   *)
(*                                                                          *)
(* What is printed is kept as what a READER makes of it.  A page has the    *)
(* reader's line of moves, the lines he comes back to when the brackets     *)
(* open are closed, the number of the row that waits for Black's move (0 if *)
(* none does), and what he could not make sense of.  Spacing is left out,   *)
(* and so are the squares of a diagram.  iswhiteturn and the buffers of the *)
(* code are set just before the only place that reads them: they are        *)
(* arguments here.                                                          *)
(***************************************************************************)
EXTENDS Integers, Sequences

NULL == "NULL"
VOID == 0
KING == 1
QUEEN == 2
ROOK == 3
BISHOP == 4
KNIGHT == 5
PAWN == 6
Pieces == KING..PAWN

DriverTypes == {"ascii", "postscript", "tex", "roff", "xchess", "gnu"}

\* The letters of the pieces, in the order of their numbers.
c_language ==
    [french    |-> <<"R", "D", "T", "F", "C", "P">>,
     english   |-> <<"K", "Q", "R", "B", "N", "P">>,
     italian   |-> <<"R", "D", "T", "A", "C", "P">>,
     spanish   |-> <<"R", "D", "T", "A", "C", "P">>,
     german    |-> <<"K", "D", "T", "L", "S", "B">>,
     dutch     |-> <<"K", "D", "T", "L", "P", "O">>,
     czech     |-> <<"K", "D", "V", "S", "J", "P">>,
     hungarian |-> <<"K", "V", "B", "F", "H", "G">>,
     polish    |-> <<"K", "H", "W", "G", "S", "P">>,
     romanian  |-> <<"R", "D", "T", "N", "C", "P">>,
     FIDE      |-> <<"K", "D", "T", "S", "N", "P">>]

Languages == DOMAIN c_language

(***************************************************************************)
(* The format.                                                              *)
(***************************************************************************)
Styled(dr, pieces) ==
    [dr EXCEPT !.print_piece = pieces, !.print_liaison = pieces, !.roque_alg = ~pieces]

\* ascii, tex and roff print like people, xchess and gnu like their programs.
init_driver(dr, driver) ==
    LET machine == driver \in {"xchess", "gnu"}
        dr1 == [dr EXCEPT !.type = driver, !.variation = 0, !.interrupt = FALSE,
                          !.output_move_format = IF machine THEN "ALGEBRAIC" ELSE @]
    IN  IF driver = "postscript" THEN dr1 ELSE Styled(dr1, ~machine)

new_driver ==
    [type |-> "ascii", outfile |-> "stdout", print_piece |-> FALSE, roque_alg |-> FALSE,
     print_liaison |-> FALSE, only_board |-> FALSE, variation |-> 0, print_headers |-> TRUE,
     output_move_format |-> "SHORTENED", out_table |-> "english", interrupt |-> FALSE]

\* The procedures that are not null_driver.
has_out_move(dr) == dr.type # "postscript" /\ ~dr.only_board
has_out_variation(dr) == dr.type \in {"ascii", "tex", "roff"}
has_out_text(dr) == dr.type \in {"ascii", "tex", "roff"}
has_out_board(dr) == dr.type \notin {"xchess", "gnu"}

(***************************************************************************)
(* The reader.  A diagram or a bracket ends the row he is in.               *)
(***************************************************************************)
BlankPage ==
    [line |-> <<>>, lines |-> <<>>, brackets |-> <<>>, row |-> 0,
     doc |-> "none", outside |-> FALSE, astray |-> FALSE, fault |-> FALSE]

\* Ink on the file: a fault if there is no file, and outside the document if it
\* has no head yet or has its foot already.
Ink(dr, pg) ==
    [pg EXCEPT !.fault = @ \/ dr.outfile = NULL, !.outside = @ \/ pg.doc # "head"]

Entry(n, white, text) == [n |-> n, white |-> white, text |-> text, shown |-> FALSE]
\* A line whose last move is taken back.
Back(line) == [i \in 1..Len(line) - 1 |-> line[i]]
\* Without a number the reader counts.
Counted(pg) == IF pg.line = <<>> THEN 1 ELSE pg.line[Len(pg.line)].n + 1

ReadRow(pg, n, text) == [pg EXCEPT !.line = Append(@, Entry(n, TRUE, text)), !.row = n]
ReadReply(pg, text) == [pg EXCEPT !.line = Append(@, Entry(pg.row, FALSE, text)), !.row = 0]
ReadDots(pg, n, text) == [pg EXCEPT !.line = Append(@, Entry(n, FALSE, text)), !.row = 0]

ReadIn(pg, symbol) ==
    [pg EXCEPT !.lines = Append(@, pg.line), !.line = Back(@), !.row = 0,
               !.brackets = Append(@, symbol)]
ReadOut(pg, symbol) ==
    IF pg.brackets = <<>> THEN [pg EXCEPT !.astray = TRUE]
    ELSE [pg EXCEPT !.line = pg.lines[Len(pg.lines)], !.lines = Back(@), !.row = 0,
                    !.brackets = Back(@),
                    !.astray = @ \/ pg.brackets[Len(pg.brackets)] # symbol]

ReadBoard(pg) ==
    [pg EXCEPT !.row = 0,
               !.line = IF @ = <<>> THEN @ ELSE [@ EXCEPT ![Len(@)].shown = TRUE]]

(***************************************************************************)
(* Printing a move.  The origin the code puts together in ALGEBRAIC, or for *)
(* an ambiguous move, is in the arguments of no fprintf.                    *)
(***************************************************************************)
IsRoque(d) == d.type \in {"PETITROQUE", "GRANDROQUE"}
Captures(d) == d.type \in {"PRISE", "PROM_ET_PRISE", "EN_PASSANT"}

\* 0 is a column that is not known.
coltoletter ==
    [n \in 0..8 |->
        IF n = 0 THEN "backquote" ELSE <<"a", "b", "c", "d", "e", "f", "g", "h">>[n]]

roque_to_move(d) ==
    [d EXCEPT !.piece = KING, !.fromcol = 5, !.tocol = IF d.type = "GRANDROQUE" THEN 3 ELSE 7,
              !.tolig = IF d.whiteturn THEN 1 ELSE 8]

\* TeX's macros make figures of the English letters; there is none for a pawn.
latex_table == <<"K", "Q", "R", "B", "N", "">>
\* Both tables have an entry for VOID.
Figure(dr, p) ==
    IF dr.type = "tex" THEN IF p = VOID THEN "" ELSE latex_table[p]
    ELSE IF p = VOID THEN "@" ELSE c_language[dr.out_table][p]

PieceText(dr, d) ==
    IF dr.print_piece /\ d.piece # PAWN THEN Figure(dr, d.piece)
    ELSE IF dr.output_move_format = "SHORTENED" /\ d.type = "PRISE" /\ d.piece = PAWN
    THEN coltoletter[d.fromcol] ELSE ""

Liaison(dr, d) ==
    IF ~dr.print_liaison THEN ""
    ELSE IF Captures(d) THEN "x"
    ELSE IF dr.output_move_format = "ALGEBRAIC" THEN "-" ELSE ""

MoveText(dr, d) ==
    [fig |-> PieceText(dr, d), lie |-> Liaison(dr, d), to |-> <<d.tocol, d.tolig>>,
     prom |-> IF d.promotion = VOID THEN "" ELSE Figure(dr, d.promotion)]

output_move_generic(dr, d) ==
    IF ~IsRoque(d) THEN MoveText(dr, d)
    ELSE IF dr.roque_alg THEN MoveText(dr, roque_to_move(d))
    ELSE [fig |-> IF d.type = "PETITROQUE" THEN "O-O" ELSE "O-O-O",
          lie |-> "", to |-> <<>>, prom |-> ""]

\* The mutant forgets that something came between White's move and Black's.
flush_buffer_bare(dr, pg, d, text) ==
    IF ~d.whiteturn THEN ReadReply(pg, text)
    ELSE ReadRow(pg, IF dr.type = "gnu" THEN Counted(pg) ELSE d.move, text)

\* White's move opens a row; Black's goes into it, unless they were interrupted.
flush_buffer(dr, pg, d, text) ==
    IF ~d.whiteturn /\ dr.interrupt /\ dr.type \notin {"xchess", "gnu"}
    THEN ReadDots(pg, d.move, text)
    ELSE IF ~d.whiteturn THEN ReadReply(pg, text)
    ELSE ReadRow(pg, IF dr.type = "gnu" THEN Counted(pg) ELSE d.move, text)

Suppressed(dr) == dr.type \in {"xchess", "gnu"} /\ dr.variation > 0
prints_move(dr) == has_out_move(dr) /\ ~Suppressed(dr)

output_move(dr, pg, d) ==
    IF prints_move(dr) THEN flush_buffer(dr, Ink(dr, pg), d, output_move_generic(dr, d))
    ELSE pg
moved(dr) == IF prints_move(dr) THEN [dr EXCEPT !.interrupt = FALSE] ELSE dr

(***************************************************************************)
(* Printing the rest.                                                       *)
(***************************************************************************)
symbol_of(dr) ==
    IF dr.variation > 1 THEN "(" ELSE IF dr.type = "tex" /\ dr.variation = 1 THEN "env" ELSE "["

output_variation_in(dr, pg) ==
    IF has_out_variation(dr) THEN ReadIn(Ink(dr, pg), symbol_of(dr)) ELSE pg
output_variation_out(dr, pg) ==
    IF has_out_variation(dr) THEN ReadOut(Ink(dr, pg), symbol_of(dr)) ELSE pg

output_text(dr, pg) == IF has_out_text(dr) THEN Ink(dr, pg) ELSE pg

output_board(dr, pg) == IF has_out_board(dr) THEN ReadBoard(Ink(dr, pg)) ELSE pg
shown(dr) == IF dr.type \in {"ascii", "roff", "tex"} THEN [dr EXCEPT !.interrupt = TRUE] ELSE dr

output_init(dr, pg) ==
    IF ~dr.print_headers THEN pg
    ELSE IF dr.type = "tex" THEN [Ink(dr, pg) EXCEPT !.doc = "head", !.outside = FALSE]
    ELSE IF dr.type = "xchess" THEN Ink(dr, pg)
    ELSE pg

\* A newline follows the foot in every format.
output_end(dr, pg) ==
    [pg EXCEPT !.fault = @ \/ dr.outfile = NULL,
               !.outside = @ \/ (dr.print_headers /\ dr.type = "tex" /\ pg.doc # "head"),
               !.doc = IF dr.print_headers /\ dr.type = "tex" THEN "foot" ELSE @]
==============================================================================
