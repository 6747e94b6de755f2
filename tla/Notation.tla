------------------------------ MODULE Notation ------------------------------
(***************************************************************************)
(* hw2's notation program reading a game: the automaton that parses a move, *)
(* the tree of moves with its variations, the stack that remembers where a  *)
(* variation left the game, the keywords, and the end of the input.         *)
(*                                                                          *)
(* The program is sequential.  Its globals are one record, nt, and every    *)
(* token of the input turns it into another.  A move node has, besides the  *)
(* code's fields, two of history: how it came to be, and the board a reader *)
(* of the game has before him after it.                                     *)
(***************************************************************************)
EXTENDS NotationBoard, SequencesExt

CONSTANTS
    Setup,      \* the tokens the input begins with
    Tokens,     \* the tokens it may go on with
    MaxTokens,  \* bound: how many of these are read
    Careful     \* TRUE: the input avoids what the code is known to get wrong

ASSUME BoundAssumption == MaxTokens \in Nat /\ Careful \in BOOLEAN

VARIABLES nt, fed
vars == <<nt, fed>>

VARIATION_MAX == 3
NULL == 0
Chain == 1      \* theplay->chain, the node every game starts from

Node(how, board) ==
    [next |-> NULL, prev |-> NULL, sub |-> NULL, move |-> 0, whiteturn |-> FALSE,
     type |-> VOID, piece |-> VOID, fromlig |-> 0, fromcol |-> 0, tolig |-> 0,
     tocol |-> 0, prise |-> VOID, promotion |-> VOID, how |-> how, seen |-> board]

Cur(s) == s.node[s.m]
Fault(s) == [s EXCEPT !.status = "fault"]      \* freed memory is used
Exit(s) == [s EXCEPT !.status = "exit"]

(***************************************************************************)
(* The move list.  Links lead to younger nodes: what can be reached is       *)
(* reached through the nodes born before it.                                *)
(***************************************************************************)
Reach(s, d, Links(_)) ==
    LET found[i \in DOMAIN s.node] ==
            i = d \/ \E j \in 1..i - 1 : i \in Links(s.node[j]) /\ found[j]
    IN  {i \in DOMAIN s.node : found[i]}

Family(s, d) == Reach(s, d, LAMBDA n : {n.next, n.sub})

free_move_list(s, d) ==
    IF Family(s, d) \cap s.freed # {} THEN Fault(s)
    ELSE [s EXCEPT !.freed = @ \cup (Family(s, d) \ {d}),
                   !.node[d].next = NULL, !.node[d].sub = NULL]

\* A new node after m, for the side whose turn it is now; init_parse clears it.
add_trailing_move(s) ==
    LET white == ~Cur(s).whiteturn
        born == Len(s.node) + 1
        move == [Node("rejected", s.tos) EXCEPT
                    !.prev = s.m, !.whiteturn = white, !.type = "MOVE",
                    !.move = Cur(s).move + (IF white THEN 1 ELSE 0)]
    IN  [s EXCEPT !.node = Append([@ EXCEPT ![s.m].next = born], move), !.m = born]

Variations(s, mo) == Reach(s, mo, LAMBDA n : {n.sub})

\* The mutant numbers a variation as if it followed the move it replaces.
add_variation_late(s, mo) ==
    LET ip == CHOOSE i \in Variations(s, mo) : s.node[i].sub = NULL
        born == Len(s.node) + 1
        head == [Node("open", s.node[s.node[mo].prev].seen) EXCEPT
                    !.prev = mo, !.whiteturn = s.node[mo].whiteturn,
                    !.move = s.node[mo].move]
    IN  [s EXCEPT !.node = Append([@ EXCEPT ![ip].sub = born], head), !.m = born]

\* The head of a variation carries no move: it has the turn and the number of
\* the node before the move the variation replaces.
add_variation(s, mo) ==
    LET ip == CHOOSE i \in Variations(s, mo) : s.node[i].sub = NULL
        born == Len(s.node) + 1
        before == s.node[s.node[mo].prev]
        head == [Node("open", before.seen) EXCEPT
                    !.prev = mo, !.whiteturn = before.whiteturn, !.move = before.move]
    IN  [s EXCEPT !.node = Append([@ EXCEPT ![ip].sub = born], head), !.m = born]

enter_variation(s) ==
    LET mo == s.m
    IN  IF Len(s.stack) >= VARIATION_MAX THEN [s EXCEPT !.error = TRUE]
        ELSE IF mo \in s.freed THEN Fault(s)
        ELSE IF Cur(s).prev = NULL THEN Exit(s)
        ELSE IF (Variations(s, mo) \cup {Cur(s).prev}) \cap s.freed # {} THEN Fault(s)
        ELSE [add_variation(s, mo) EXCEPT
                !.stack = Append(@, [d |-> mo, b |-> s.tos]),
                !.tos = undo_move(@, Cur(s))]

\* The mutant frees the move the variation replaces.
exit_variation_main(s) ==
    IF s.stack = <<>> THEN [s EXCEPT !.error = TRUE]
    ELSE [s EXCEPT !.freed = @ \cup {Last(s.stack).d}, !.m = Last(s.stack).d,
                   !.tos = Last(s.stack).b, !.stack = Front(@)]

\* The last node of the variation is freed and stays linked.
exit_variation(s) ==
    IF s.stack = <<>> THEN [s EXCEPT !.error = TRUE]
    ELSE IF s.m \in s.freed THEN Fault(s)
    ELSE [s EXCEPT !.freed = @ \cup {s.m}, !.m = Last(s.stack).d,
                   !.tos = Last(s.stack).b, !.stack = Front(@)]

(***************************************************************************)
(* Playing the move that m holds.                                           *)
(***************************************************************************)
\* A move's piece: a pawn unless said, and then what stands where it starts.
Asked(mv) == [mv EXCEPT !.piece = IF @ = VOID THEN PAWN ELSE @]
Found(g, mv) == IF From(mv) = <<0, 0>> THEN mv ELSE [mv EXCEPT !.piece = g[From(mv)].piece]

configure(s) ==
    LET mv == Asked(Cur(s))
        board == [s.tos EXCEPT ![To(mv)] = Cell(mv.piece, s.configside)]
    IN  [s EXCEPT !.node[s.m] = [mv EXCEPT !.how = "placed", !.seen = board],
                  !.tos = board]

\* A move onto a piece takes it.
Taking(g, mv) ==
    IF g[To(mv)].piece = VOID THEN mv ELSE [mv EXCEPT !.type = "PRISE", !.prise = g[To(mv)].piece]

Guess(g, mv) ==
    IF mv.fromlig = 0 \/ mv.fromcol = 0 THEN guess_move(g, mv) ELSE [ok |-> TRUE, mv |-> mv]

\* Plays the move even when it was found illegal, prints it (ambiguity), and only
\* then stops the program.
PlayMove(s, guessed, check) ==
    LET mv == IF IsRoque(check.mv) THEN [check.mv EXCEPT !.fromlig = RoqueLine(check.mv)]
              ELSE check.mv
        board == do_move(check.board, mv)
        stop == s.error \/ ~guessed \/ ~check.ok
    IN  [s EXCEPT !.node[s.m] = [mv EXCEPT !.how = "played", !.seen = board],
                  !.tos = IF IsRoque(mv) THEN board ELSE ambiguity(board, mv).board,
                  !.error = stop,
                  !.status = IF stop THEN "exit" ELSE @]

execute_move(s) ==
    LET guess == Guess(s.tos, Asked(Cur(s)))
    IN  PlayMove(s, guess.ok, check_move(s.tos, Taking(s.tos, Found(s.tos, guess.mv))))

(***************************************************************************)
(* Parsing a move: a token is a sequence of one-character strings, and "",  *)
(* the end of the string, follows it.                                       *)
(***************************************************************************)
Letters == <<"a", "b", "c", "d", "e", "f", "g", "h">>
Digits == <<"1", "2", "3", "4", "5", "6", "7", "8">>

lettertocol(c) == CHOOSE i \in 1..8 : Letters[i] = c
lettertolig(c) == CHOOSE i \in 1..8 : Digits[i] = c

\* The English letters of in_table are the pieces' names here.
typechar(c) ==
    IF c \in Piece THEN 1
    ELSE IF c \in ToSet(Letters) THEN 2
    ELSE IF c \in ToSet(Digits) THEN 3
    ELSE IF c = "-" THEN 4
    ELSE IF c \in {"x", "X"} THEN 5
    ELSE IF c = "=" THEN 6
    ELSE IF c = "" THEN 7
    ELSE 8

FINAL == 10

\* Rows are the states 0..9 (state 10 ends the parse), columns the classes.
transit ==
    << << 1,  2, -1, -1, -1, -1, -1, -1>>,
       <<-1,  2, -1, -1,  4, -1, -1, -1>>,
       <<-1,  6,  3,  4,  4,  8, FINAL, FINAL>>,
       <<-1,  6, -1,  4,  4,  8, FINAL, FINAL>>,
       << 5,  6, -1, -1, -1, -1, -1, -1>>,
       <<-1,  6, -1, -1, -1, -1, -1, -1>>,
       <<-1, -1,  7, -1, -1, -1, -1, -1>>,
       <<-1, -1, -1, -1, -1,  8, FINAL, FINAL>>,
       << 9, -1, -1, -1, -1, -1, FINAL, -1>>,
       <<-1, -1, -1, -1, -1, -1, FINAL, FINAL>> >>

action ==
    << << 1,  2, -1, -1, -1, -1, -1, -1>>,
       <<-1,  2, -1, -1, 10, -1, -1, -1>>,
       <<-1, 13,  3,  4,  5, 14,  6,  7>>,
       <<-1, 13, -1,  4,  5, 14,  6,  7>>,
       << 1,  2, -1, -1, -1, -1, -1, -1>>,
       <<-1,  2, -1, -1, -1, -1, -1, -1>>,
       <<-1, -1,  3, -1, -1, -1, -1, -1>>,
       <<-1, -1, -1, -1, -1, 14,  8,  9>>,
       <<15, -1, -1, -1, -1, -1, 17, -1>>,
       <<-1, -1, -1, -1, -1, -1, 17, 17>> >>

\* What an action of the automaton does to the current piece, column and line
\* and to the move m, and what it leaves to run: "to" (6 to 9) or "now" (17).
execute(num, c, x) ==
    LET came == [x.mv EXCEPT !.piece = x.piece, !.fromcol = x.col, !.fromlig = x.lig]
        goes == [x.mv EXCEPT !.tocol = x.col, !.tolig = x.lig]
    IN  IF num = 1 THEN [x EXCEPT !.piece = c]
        ELSE IF num = 2 THEN [x EXCEPT !.col = lettertocol(c)]
        ELSE IF num = 3 THEN [x EXCEPT !.lig = lettertolig(c)]
        ELSE IF num = 4 THEN [x EXCEPT !.mv = came]
        ELSE IF num = 5 THEN [x EXCEPT !.mv = [came EXCEPT !.type = "PRISE", !.prise = x.piece]]
        ELSE IF num \in {6, 7} THEN [x EXCEPT !.mv = [goes EXCEPT !.piece = x.piece], !.run = "to"]
        ELSE IF num \in {8, 9} THEN [x EXCEPT !.mv = goes, !.run = "to"]
        ELSE IF num = 10 THEN [x EXCEPT !.mv = [@ EXCEPT !.piece = x.piece, !.type = "PRISE"]]
        ELSE IF num = 13 THEN [x EXCEPT !.mv = [came EXCEPT !.type = "MOVE"], !.col = lettertocol(c)]
        ELSE IF num = 14
        THEN [x EXCEPT !.mv = [goes EXCEPT
                            !.type = IF @ = "PRISE" THEN "PROM_ET_PRISE" ELSE "PROMOTION",
                            !.promotion = QUEEN],
                       !.piece = QUEEN]
        ELSE IF num = 15 THEN [x EXCEPT !.mv = [@ EXCEPT !.promotion = c], !.piece = c]
        ELSE IF num = 17 THEN [x EXCEPT !.run = "now"]
        ELSE x

\* The automaton stops at the first error or in the terminal state.
Scan(x, c) ==
    IF x.etat \in {-1, FINAL} THEN x
    ELSE [execute(action[x.etat + 1][typechar(c)], c, x)
            EXCEPT !.etat = transit[x.etat + 1][typechar(c)]]

Automaton(token, mv) ==
    LET scan[i \in 0..Len(token) + 1] ==
            IF i = 0 THEN [etat |-> 0, mv |-> mv, piece |-> VOID, col |-> 0,
                           lig |-> 0, run |-> "none"]
            ELSE Scan(scan[i - 1], IF i > Len(token) THEN "" ELSE token[i])
    IN  scan[Len(token) + 1]

parse_move(s, token) ==
    LET s1 == add_trailing_move(s)
        x == Automaton(token, Cur(s1))
        s2 == [s1 EXCEPT !.node[s1.m] = x.mv]
    IN  IF s.m \in s.freed THEN Fault(s)
        ELSE IF x.run = "none" THEN s2
        ELSE IF x.run = "to" /\ s.configuring THEN configure(s2)
        ELSE execute_move(s2)

\* c_roque, the spellings parse_roque knows.
ShortRoque == {<<"O-O">>, <<"o-o">>, <<"0-0">>}
LongRoque == {<<"O-O-O">>, <<"o-o-o">>, <<"0-0-0">>}

parse_roque(s, token) ==
    LET s1 == add_trailing_move(s)
        type == IF token \in ShortRoque THEN "PETITROQUE" ELSE "GRANDROQUE"
    IN  IF s.m \in s.freed THEN Fault(s)
        ELSE execute_move([s1 EXCEPT !.node[s1.m].type = type])

(***************************************************************************)
(* Keywords.                                                                *)
(***************************************************************************)
Renumbers == {<<"@startplay">>, <<"@whitesmove">>, <<"@blacksmove">>}
Restarts == {<<"@clearboard">>, <<"@configwhite">>, <<"@configblack">>, <<"@default">>}

\* The turn and the number are those of the move just played.
Renumber(s, key) ==
    LET white == key = <<"@blacksmove">>
    IN  IF s.m \in s.freed THEN Fault(s)
        ELSE [s EXCEPT !.configuring = IF key = <<"@startplay">> THEN FALSE ELSE @,
                       !.node[s.m].move = IF white THEN 1 ELSE 0,
                       !.node[s.m].whiteturn = white]

\* These forget the moves, but neither the variations open nor the turn.
Restart(s, key) ==
    LET config == key \in {<<"@configwhite">>, <<"@configblack">>}
        board == IF key = <<"@clearboard">> THEN clear_board
                 ELSE IF key = <<"@default">> THEN init_board ELSE s.tos
        s1 == [s EXCEPT !.tos = board, !.m = Chain, !.node[Chain].seen = board,
                        !.configuring = @ \/ config,
                        !.configside = IF config
                                       THEN (IF key = <<"@configwhite">> THEN WHITE ELSE BLACK)
                                       ELSE @]
    IN  free_move_list(s1, Chain)

parse_keyword(s, key) == IF key \in Renumbers THEN Renumber(s, key) ELSE Restart(s, key)

(***************************************************************************)
(* The text of a move in the default, shortened, English form.              *)
(***************************************************************************)
Captures(mv) == mv.type \in {"PRISE", "PROM_ET_PRISE", "EN_PASSANT"}

\* The mutant leaves out the column of a pawn that captures.
output_move_bare(mv) ==
    IF IsRoque(mv) THEN IF mv.type = "PETITROQUE" THEN <<"O-O">> ELSE <<"O-O-O">>
    ELSE (IF mv.piece # PAWN THEN <<mv.piece>> ELSE <<>>)
         \o (IF Captures(mv) THEN <<"x">> ELSE <<>>)
         \o <<Letters[mv.tocol], Digits[mv.tolig]>>
         \o (IF mv.promotion # VOID THEN <<"=", mv.promotion>> ELSE <<>>)

output_move(mv) ==
    IF IsRoque(mv) THEN IF mv.type = "PETITROQUE" THEN <<"O-O">> ELSE <<"O-O-O">>
    ELSE (IF mv.piece # PAWN THEN <<mv.piece>>
          ELSE IF mv.type = "PRISE" THEN <<Letters[mv.fromcol]>> ELSE <<>>)
         \o (IF Captures(mv) THEN <<"x">> ELSE <<>>)
         \o <<Letters[mv.tocol], Digits[mv.tolig]>>
         \o (IF mv.promotion # VOID THEN <<"=", mv.promotion>> ELSE <<>>)

(***************************************************************************)
(* The program.                                                             *)
(***************************************************************************)
Init ==
    /\ nt = [tos |-> init_board, node |-> <<Node("start", init_board)>>, m |-> Chain,
             stack |-> <<>>, freed |-> {}, configuring |-> FALSE, configside |-> VOID,
             error |-> FALSE, status |-> "reading"]
    /\ fed = 0

\* The next token of the input: the prologue first, then any.
Input == IF fed < Len(Setup) THEN {Setup[fed + 1]} ELSE Tokens
Reading == nt.status = "reading" /\ fed < Len(Setup) + MaxTokens

\* A careful input takes what is there, castles with king and rook at home and
\* nothing between, promotes pawns, and does not capture en passant onto a
\* square that has a piece behind the target.
SoundMove(g, mv) ==
    LET l == RoqueLine(mv)
    IN  IF mv.type = "PETITROQUE"
        THEN /\ g[<<l, 5>>] = Cell(KING, CURCOLOR(mv)) /\ g[<<l, 8>>] = Cell(ROOK, CURCOLOR(mv))
             /\ g[<<l, 7>>].piece = VOID
        ELSE IF mv.type = "GRANDROQUE"
        THEN g[<<l, 5>>] = Cell(KING, CURCOLOR(mv)) /\ g[<<l, 1>>] = Cell(ROOK, CURCOLOR(mv))
        ELSE IF mv.type = "EN_PASSANT"
        THEN g[Beside(mv)] = Empty /\ g[<<mv.fromlig, mv.tocol>>].color = OPPCOLOR(mv)
        ELSE IF mv.type \in {"PRISE", "PROM_ET_PRISE"} THEN g[To(mv)].piece # VOID
        ELSE mv.type = "PROMOTION" => mv.piece = PAWN

\* Whatever else is read is a move; one that the program cannot parse leaves a
\* node.
Move(token) ==
    /\ token \notin ShortRoque \cup LongRoque \cup Renumbers \cup Restarts \cup {<<"{">>, <<"}">>}
    /\ nt' \in {parse_move(nt, token)}
    /\ Careful /\ nt'.status = "reading" /\ Cur(nt').how = "played"
           => SoundMove(nt.tos, Cur(nt'))

Castle(token) ==
    /\ token \in ShortRoque \cup LongRoque
    /\ nt' \in {parse_roque(nt, token)}
    /\ Careful => SoundMove(nt.tos, Cur(nt'))

\* A careful input puts a variation only after a move played, and not after one
\* made en passant.
Open(token) ==
    /\ token = <<"{">>
    /\ Careful => Cur(nt).how = "played" /\ Cur(nt).type # "EN_PASSANT"
    /\ nt' = enter_variation(nt)

Close(token) ==
    /\ token = <<"}">>
    /\ nt' = exit_variation(nt)

\* A careful input uses these only outside variations, and changes the turn only
\* where no move has just been played, whose side it would change.
Keyword(token) ==
    /\ token \in Renumbers \cup Restarts
    /\ Careful => nt.stack = <<>> /\ (token \in Renumbers => Cur(nt).how # "played")
    /\ nt' = parse_keyword(nt, token)

ReadToken ==
    /\ Reading
    /\ \E token \in Input :
          Move(token) \/ Castle(token) \/ Open(token) \/ Close(token) \/ Keyword(token)
    /\ fed' = fed + 1

\* At the end of the input the chain is freed, perhaps again, and then the nodes
\* below m.
EndOfInput ==
    /\ nt.status = "reading"
    /\ fed >= Len(Setup)
    /\ nt' = IF nt.error THEN Exit(nt)
             ELSE IF Chain \in nt.freed \cup {nt.m} THEN Fault(nt)
             ELSE IF Family(nt, nt.m) \cap nt.freed # {} THEN Fault(nt)
             ELSE Exit(free_move_list(nt, nt.m))
    /\ UNCHANGED fed

Next == ReadToken \/ EndOfInput
Spec == Init /\ [][Next]_vars

(***************************************************************************)
(* Properties.                                                              *)
(***************************************************************************)
\* The board on the stack of positions is the one a reader has before him: a
\* variation opens with the move before it taken back, exactly, a move printed
\* (which takes it back and makes it again) leaves the board alone, and closing
\* a variation returns to the line it left.
Backtracked == nt.status = "reading" => nt.tos = Cur(nt).seen

\* The game's line is alive: m, all the moves before it, and those before every
\* node a variation will return to, whatever variations were closed and freed.
LineAlive ==
    LET line[i \in 0..Len(nt.node)] ==
            IF i = NULL THEN {} ELSE {i} \cup line[nt.node[i].prev]
    IN  nt.status = "reading" =>
            \A i \in {nt.m} \cup {nt.stack[j].d : j \in DOMAIN nt.stack} :
                line[i] \cap nt.freed = {}

Played(i) == nt.node[i].how = "played" /\ nt.status = "reading"
Before(i) == nt.node[nt.node[i].prev].seen

\* A move takes at most one piece, of the other side, and only when its type
\* says so: nothing appears or disappears by castling, promotion, en passant or
\* by taking a move back.
Material ==
    LET Count(g, color) == Cardinality({sq \in Squares : g[sq].piece # VOID /\ g[sq].color = color})
        mv == Cur(nt)
    IN  Played(nt.m) =>
            /\ Count(mv.seen, CURCOLOR(mv)) = Count(Before(nt.m), CURCOLOR(mv))
            /\ Count(mv.seen, OPPCOLOR(mv)) = Count(Before(nt.m), OPPCOLOR(mv))
                                              - (IF Captures(mv) THEN 1 ELSE 0)

\* The text printed for the last move, read again in the position the move was
\* made in, makes it.
SaysMove ==
    LET mv == Cur(nt)
        again == [nt EXCEPT !.m = mv.prev, !.tos = Before(nt.m), !.error = FALSE]
        result == IF IsRoque(mv) THEN parse_roque(again, output_move(mv))
                  ELSE parse_move(again, output_move(mv))
    IN  result.status = "reading" /\ result.tos = mv.seen

\* What the program prints for a move, read again, makes the same move, unless
\* another piece could have made it too (OriginTold) or it was made en passant. A
\* move to line 0 has no text to read: a token such as ez4 ends the parse before
\* its line is read, and output_move looks for the digit of line 0.
ReadBack ==
    LET mv == Cur(nt)
        unique == IsRoque(mv) \/ (mv.piece = PAWN /\ mv.type = "PRISE")
                  \/ ToSet(ambiguity(mv.seen, mv).from) = {From(mv)}
    IN  Played(nt.m) /\ mv.type # "EN_PASSANT" /\ (mv.tolig # 0 \/ IsRoque(mv)) /\ unique =>
            SaysMove

\* Where another piece of its kind could have made the move, the program looks
\* for what tells them apart, and what it prints makes the same move.
OriginTold ==
    LET mv == Cur(nt)
    IN  Played(nt.m) /\ ~IsRoque(mv) /\ Cardinality(ToSet(ambiguity(mv.seen, mv).from)) > 1 =>
            SaysMove

\* The first move of a variation has the side and the number of the move it
\* replaces.
SameTurn ==
    LET mv == Cur(nt)
        head == nt.node[mv.prev]
    IN  Played(nt.m) /\ head.how = "open" =>
            /\ mv.whiteturn = nt.node[head.prev].whiteturn
            /\ mv.move = nt.node[head.prev].move
==============================================================================
