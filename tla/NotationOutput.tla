--------------------------- MODULE NotationOutput ---------------------------
(***************************************************************************)
(* hw2's notation program from its command line to the end of its output:   *)
(* the options, the driver they choose, and what is printed while a game    *)
(* with variations is read.  Module Notation has the board and the tree of  *)
(* moves; here a position is the sequence of moves that made it, and what   *)
(* stands where a move starts, and whether it is legal, are left open.      *)
(*                                                                          *)
(* Of the input's keywords those that restart the game or set up a position *)
(* (@clearboard, @default, @config..., @start, the placements after them)   *)
(* are left out, and @whitesmove and @blacksmove come before the first move *)
(* only.                                                                    *)
(***************************************************************************)
EXTENDS Drivers

CONSTANTS
    Arguments,        \* what the command line is made of: an option and its value,
                      \* a sequence (empty if missing, the numbers of a list)
    MaxArguments,     \* bound: how many of them
    Moves,            \* what a move may turn out to be, with its letters
    InputLanguages,   \* what @language may ask for
    MaxNodes,         \* bound: how many moves are read, those of variations too
    VARIATION_MAX,    \* the size of the stack
    NB_MOVE_TO_DISP   \* the size of move_to_display

\* What stands where a move starts: a piece, or VOID if it is an empty square or
\* one that does not exist.  Guessed: the token has no origin, and the piece is the
\* one it names.
Guessed == PAWN + 1

ASSUME OutputAssumption ==
    /\ MaxArguments \in Nat /\ MaxNodes \in Nat
    /\ VARIATION_MAX \in Nat /\ NB_MOVE_TO_DISP \in Nat
    /\ Moves \subseteq [letter : STRING, type : STRING, promotion : STRING,
                        fromcol : 0..8, tocol : Nat, tolig : Nat, stands : VOID..Guessed]

VARIABLES
    status,   \* "options", "reading", "exit0", "exit1", "crash"
    opt,      \* what the command line has set, and the language of the input
    dr,       \* the format
    game,     \* the current node m, the one before it, the position, the stack
    page,     \* what the reader of the output makes of it
    given     \* how many arguments have been read

vars == <<status, opt, dr, game, page, given>>

Turn(n, white) == [move |-> n, whiteturn |-> white]
Node(turn, how) == [turn |-> turn, how |-> how]

Init ==
    /\ status = "options"
    /\ opt = [driver |-> "ascii", in_language |-> "english", out_language |-> "english",
              list |-> <<>>, stop |-> FALSE]
    /\ given = 0
    /\ dr = init_driver(new_driver, "ascii")
    /\ game = [m |-> Node(Turn(0, FALSE), "start"), prev |-> Turn(0, FALSE), line |-> <<>>,
               stack |-> <<>>, nodes |-> 0, error |-> FALSE, rejected |-> FALSE]
    /\ page = BlankPage

\* Printing to a file that could not be opened ends everything, and so does
\* closing it, which fatal and a proper end do.
Becomes(s) == status' = IF page'.fault THEN "crash" ELSE s
Closes(s) == status' = IF page'.fault \/ dr.outfile = NULL THEN "crash" ELSE s

(***************************************************************************)
(* The command line.                                                        *)
(***************************************************************************)
find_keyword(table, default, key) == IF key \in table THEN key ELSE default

\* An option sets something, or ends the program.
Stays == UNCHANGED <<status, game, page>>
Ends == UNCHANGED <<opt, dr, game, page>>

LanguageOption(a) ==
    /\ a.key \in {"-f", "-t"} /\ a.value # <<>>
    /\ LET language == find_keyword(Languages, "english", a.value[1])
       IN  opt' = IF a.key = "-f" THEN [opt EXCEPT !.in_language = language]
                  ELSE [opt EXCEPT !.out_language = language]
    /\ Stays /\ UNCHANGED dr

DriverOption(a) ==
    /\ a.key = "-d" /\ a.value # <<>>
    /\ opt' = [opt EXCEPT !.driver = find_keyword(DriverTypes, "ascii", a.value[1])]
    /\ Stays /\ UNCHANGED dr

\* The file is opened at once, and one that cannot be is not replaced by stdout.
OutfileOption(a) ==
    /\ a.key = "-o"
    /\ \E file \in {"file", NULL} :
          /\ a.value = <<>> => file = NULL
          /\ dr' = [dr EXCEPT !.outfile = file]
    /\ Stays /\ UNCHANGED opt

FormatOption(a) ==
    /\ \/ /\ a.key = "-a" /\ dr' = [dr EXCEPT !.output_move_format = "ALGEBRAIC"]
       \/ /\ a.key = "-s" /\ dr' = [dr EXCEPT !.output_move_format = "SHORTENED"]
       \/ /\ a.key = "-b" /\ dr' = [dr EXCEPT !.only_board = TRUE]
       \/ /\ a.key = "-i" /\ dr' = [dr EXCEPT !.print_headers = FALSE]
    /\ Stays /\ UNCHANGED opt

\* -e forgets the moves listed before.
EndOption(a) ==
    /\ a.key = "-e" /\ a.value # <<>>
    /\ opt' = [opt EXCEPT !.list = a.value, !.stop = TRUE]
    /\ Stays /\ UNCHANGED dr

\* The list is checked after the number that does not fit has been stored.
ListOption(a) ==
    /\ a.key = "-c" /\ a.value # <<>>
    /\ Len(opt.list) + Len(a.value) <= NB_MOVE_TO_DISP
    /\ opt' = [opt EXCEPT !.list = @ \o a.value]
    /\ Stays /\ UNCHANGED dr

ListOverrun(a) ==
    /\ a.key = "-c" /\ a.value # <<>>
    /\ Len(opt.list) + Len(a.value) > NB_MOVE_TO_DISP
    /\ Ends
    /\ status' = "crash" \/ Closes("exit1")

MissingArgument(a) ==
    /\ a.key \in {"-f", "-t", "-e", "-c", "-d"} /\ a.value = <<>>
    /\ Ends
    /\ Closes("exit1")

\* The version and the help; the help may not be there.
InfoOption(a) ==
    /\ a.key \in {"-v", "-h"}
    /\ Ends
    /\ status' = "exit0" \/ (a.key = "-h" /\ Closes("exit1"))

\* The input may not be there either.
InfileArgument(a) ==
    /\ a.key = "infile"
    /\ Ends
    /\ status' = status \/ Closes("exit1")

UnknownOption(a) ==
    /\ a.key = "-?"
    /\ game' = [game EXCEPT !.error = TRUE]
    /\ UNCHANGED <<status, opt, dr, page>>

parse_options(a) ==
    /\ status = "options" /\ given < MaxArguments
    /\ given' = given + 1
    /\ \/ LanguageOption(a) \/ DriverOption(a) \/ OutfileOption(a) \/ FormatOption(a)
       \/ EndOption(a) \/ ListOption(a) \/ ListOverrun(a) \/ MissingArgument(a)
       \/ InfoOption(a) \/ InfileArgument(a) \/ UnknownOption(a)

\* The mutant starts with the letters of the default language.
Start_default ==
    /\ status = "options"
    /\ dr' = init_driver(dr, opt.driver)
    /\ page' = output_init(dr', page)
    /\ IF game.error THEN Closes("exit1") ELSE Becomes("reading")
    /\ given' = 0
    /\ UNCHANGED <<opt, game>>

\* An error in the options shows only after the header is printed.
Start ==
    /\ status = "options"
    /\ dr' = init_driver([dr EXCEPT !.out_table = opt.out_language], opt.driver)
    /\ page' = output_init(dr', page)
    /\ IF game.error THEN Closes("exit1") ELSE Becomes("reading")
    /\ given' = 0
    /\ UNCHANGED <<opt, game>>

(***************************************************************************)
(* Moves.                                                                   *)
(***************************************************************************)
\* The turn of the node that add_trailing_move puts after m.
NextTurn ==
    LET white == ~game.m.turn.whiteturn
    IN  Turn(game.m.turn.move + (IF white THEN 1 ELSE 0), white)

Reads == status = "reading" /\ UNCHANGED <<opt, given>>
ReadsMove == Reads /\ game.nodes < MaxNodes

\* The letters ispiece finds in in_table, and none at all.
Known == {c_language[opt.in_language][p] : p \in Pieces} \cup {""}
piece(c) == CHOOSE p \in Pieces : c_language[opt.in_language][p] = c

\* The move a token stands for: its letters are those of the input's language.
Asked(mv) ==
    [type |-> mv.type, fromcol |-> mv.fromcol, tocol |-> mv.tocol, tolig |-> mv.tolig,
     piece |-> IF mv.letter = "" THEN PAWN ELSE piece(mv.letter),
     promotion |-> IF mv.promotion = "" THEN VOID ELSE piece(mv.promotion),
     move |-> NextTurn.move, whiteturn |-> NextTurn.whiteturn]

\* Where the origin is known, the piece is what stands there (roques know none).
Found(mv) == [Asked(mv) EXCEPT !.piece = IF mv.stands = Guessed THEN @ ELSE mv.stands]

\* The mutant looks at the list only in the game itself.
Listed_main(d) ==
    ~d.whiteturn /\ game.stack = <<>> /\ \E i \in DOMAIN opt.list : opt.list[i] = d.move

Listed(d) == ~d.whiteturn /\ \E i \in DOMAIN opt.list : opt.list[i] = d.move

\* add_trailing_move
Added(how) == [game EXCEPT !.m = Node(NextTurn, how), !.prev = game.m.turn, !.nodes = @ + 1]
After(d) == [Added("played") EXCEPT !.line = Append(@, d)]

\* A move is printed before an error ends the program, with the position; a
\* listed move is followed by the position, and by the end if it is -e's.
execute_move(d, legal) ==
    LET printed == output_move(dr, page, d)
        error == game.error \/ ~legal
    IN  /\ game' = [After(d) EXCEPT !.error = error]
        /\ IF error
           THEN page' = output_board(dr, Ink(dr, printed)) /\ dr' = shown(moved(dr)) /\ Closes("exit0")
           ELSE IF ~Listed(d) THEN page' = printed /\ dr' = moved(dr) /\ Becomes("reading")
           ELSE IF ~opt.stop
           THEN page' = output_board(dr, printed) /\ dr' = shown(moved(dr)) /\ Becomes("reading")
           ELSE /\ page' = output_end(dr, output_board(dr, printed)) /\ dr' = shown(moved(dr))
                /\ Closes("exit0")

parse_move(mv) ==
    /\ ReadsMove /\ ~IsRoque(mv)
    /\ {mv.letter, mv.promotion} \subseteq Known
    /\ \E legal \in BOOLEAN :
          /\ mv.stands = VOID => ~legal
          /\ execute_move(Found(mv), legal)

\* A letter of another language: the node stays, with its turn, and no move.
reject_move(mv) ==
    /\ ReadsMove
    /\ ~({mv.letter, mv.promotion} \subseteq Known)
    /\ game' = [Added("rejected") EXCEPT !.rejected = TRUE]
    /\ UNCHANGED <<status, dr, page>>

parse_roque(mv) ==
    /\ ReadsMove /\ IsRoque(mv) /\ mv.letter = "" /\ mv.promotion = ""
    /\ \E legal \in BOOLEAN : execute_move(Asked(mv), legal)

(***************************************************************************)
(* Variations.                                                              *)
(***************************************************************************)
TooDeep ==
    /\ Reads /\ Len(game.stack) >= VARIATION_MAX
    /\ game' = [game EXCEPT !.error = TRUE]
    /\ UNCHANGED <<status, dr, page>>

\* A variation replaces the move just played (the input opens none elsewhere).
\* Its head has the turn of the node before that move.
enter_variation ==
    /\ Reads /\ Len(game.stack) < VARIATION_MAX /\ game.m.how = "played"
    /\ game' = [game EXCEPT !.stack = Append(@, [m |-> game.m, prev |-> game.prev, line |-> game.line]),
                            !.m = Node(game.prev, "open"), !.line = Back(@)]
    /\ dr' = [dr EXCEPT !.interrupt = TRUE, !.variation = Len(game.stack) + 1]
    /\ page' = output_variation_in(dr', page)
    /\ Becomes("reading")

NoVariation ==
    /\ Reads /\ game.stack = <<>>
    /\ game' = [game EXCEPT !.error = TRUE]
    /\ UNCHANGED <<status, dr, page>>

Resume ==
    LET top == game.stack[Len(game.stack)]
    IN  game' = [game EXCEPT !.m = top.m, !.prev = top.prev, !.line = top.line, !.stack = Back(@)]

\* The mutant leaves the level before it prints the bracket.
exit_variation_late ==
    /\ Reads /\ game.stack # <<>>
    /\ dr' = [dr EXCEPT !.interrupt = TRUE, !.variation = Len(game.stack) - 1]
    /\ page' = output_variation_out(dr', page)
    /\ Resume
    /\ Becomes("reading")

exit_variation ==
    /\ Reads /\ game.stack # <<>>
    /\ page' = output_variation_out(dr, page)
    /\ Resume
    /\ dr' = [dr EXCEPT !.interrupt = TRUE, !.variation = Len(game.stack) - 1]
    /\ Becomes("reading")

(***************************************************************************)
(* The rest of the input.                                                   *)
(***************************************************************************)
\* A text, a comment or a title; it does not count as an interruption.
parse_text ==
    /\ Reads
    /\ page' = output_text(dr, page)
    /\ Becomes("reading")
    /\ UNCHANGED <<dr, game>>

\* @special goes to the file whatever the driver.
Special ==
    /\ Reads
    /\ page' = Ink(dr, page)
    /\ Becomes("reading")
    /\ UNCHANGED <<dr, game>>

Showboard ==
    /\ Reads
    /\ page' = output_board(dr, page) /\ dr' = shown(dr)
    /\ Becomes("reading")
    /\ UNCHANGED game

\* @blacksmove and @whitesmove, before the first move.
Renumber ==
    /\ Reads /\ game.m.how = "start" /\ game.stack = <<>>
    /\ \E turn \in {Turn(0, FALSE), Turn(1, TRUE)} : game' = [game EXCEPT !.m.turn = turn]
    /\ UNCHANGED <<status, dr, page>>

Langue(language) ==
    /\ status = "reading"
    /\ opt' = [opt EXCEPT !.in_language = find_keyword(Languages, @, language)]
    /\ UNCHANGED <<status, dr, game, page, given>>

\* The mutant closes the file without the foot.
EndOfInput_bare ==
    /\ Reads
    /\ page' = output_board(dr, page)
    /\ IF game.error THEN Closes("exit1") ELSE Closes("exit0")
    /\ dr' = shown(dr)
    /\ UNCHANGED game

\* The last position, and the foot; or the position and an error.
EndOfInput ==
    /\ Reads
    /\ IF game.error THEN page' = output_board(dr, page) /\ Closes("exit1")
       ELSE page' = output_end(dr, output_board(dr, page)) /\ Closes("exit0")
    /\ dr' = shown(dr)
    /\ UNCHANGED game

yylex ==
    \/ \E mv \in Moves : parse_move(mv) \/ reject_move(mv) \/ parse_roque(mv)
    \/ TooDeep \/ enter_variation \/ NoVariation \/ exit_variation
    \/ parse_text \/ Special \/ Showboard \/ Renumber

Next ==
    \/ \E a \in Arguments : parse_options(a)
    \/ Start
    \/ yylex
    \/ \E language \in InputLanguages : Langue(language)
    \/ EndOfInput

Spec == Init /\ [][Next]_vars

(***************************************************************************)
(* Properties.                                                              *)
(***************************************************************************)
\* The line the reader ought to have before him.  xchess and gnu are shown the
\* game and none of its variations.
Base == IF dr.type \in {"xchess", "gnu"} /\ game.stack # <<>> THEN game.stack[1].line
        ELSE game.line

\* Whoever reads the output is in the program's own line: he has as many moves,
\* of the same sides and with the same numbers, through variations, diagrams and
\* texts, although Black's move carries a number only when the driver thinks it
\* must.  (A game that Black begins is printed with no number before his move,
\* and a move the program could not read is missing.)
Numbered ==
    status # "crash" /\ has_out_move(dr) =>
        /\ Len(page.line) = Len(Base)
        /\ \A i \in DOMAIN Base :
              /\ page.line[i].white = Base[i].whiteturn
              /\ Base[1].whiteturn /\ ~game.rejected => page.line[i].n = Base[i].move

\* What is printed for a move says, to someone who knows the output language,
\* which piece went where, whether it took, and what it became, whatever the
\* language it was read in and whatever piece its token named.  An illegal move from
\* an empty square, the last that is printed, names no piece.  (xchess and gnu print
\* no piece; the input may ask for a pawn that becomes a pawn, for which TeX has no
\* letter.)
OneOf(letter, p) ==
    {q \in Pieces :
        c_language[IF dr.type = "tex" THEN "english" ELSE opt.out_language][q] = letter} = {p}

Says(text, d) ==
    IF IsRoque(d) THEN text.fig = IF d.type = "PETITROQUE" THEN "O-O" ELSE "O-O-O"
    ELSE /\ IF d.piece \in {PAWN, VOID} THEN \A p \in Pieces : text.fig # c_language[opt.out_language][p]
            ELSE OneOf(text.fig, d.piece)
         /\ (text.lie = "x" <=> Captures(d))
         /\ text.to = <<d.tocol, d.tolig>>
         /\ d.promotion = VOID => text.prom = ""
         /\ d.promotion \notin {VOID, PAWN} => OneOf(text.prom, d.promotion)

Legible ==
    status # "crash" /\ has_out_move(dr) /\ dr.print_piece =>
        \A i \in DOMAIN Base : Says(page.line[i].text, Base[i])

\* Brackets nest as the variations do: those open are those on the stack, each
\* is closed by its own kind, and the level the driver counts is the stack's.
Nested ==
    /\ dr.variation = Len(game.stack) /\ ~page.astray
    /\ Len(page.brackets) = IF has_out_variation(dr) THEN Len(game.stack) ELSE 0
    /\ \A i \in DOMAIN page.brackets :
          page.brackets[i] = IF i > 1 THEN "(" ELSE IF dr.type = "tex" THEN "env" ELSE "["

\* Each of Black's moves that the command line lists is followed by a diagram,
\* in a variation too, and after the one of -e the program reads no more.
Diagrams ==
    status # "crash" =>
        \A i \in DOMAIN Base :
            ~Base[i].whiteturn /\ (\E k \in DOMAIN opt.list : opt.list[k] = Base[i].move) =>
            /\ has_out_move(dr) /\ has_out_board(dr) => page.line[i].shown
            /\ opt.stop => status # "reading"

\* With headers, a TeX output is one document: all that is printed lies between
\* its head and its foot, and the foot is there when the program ends without having
\* met an error, at the end of the input or at the last move of -e.  An illegal move
\* ends it with the status of a success, too, and there the foot is missing
\* (notation.c:1226-1231; see ErrorsFail).
Framed ==
    dr.type = "tex" /\ dr.print_headers /\ status \in {"reading", "exit0"} =>
        /\ ~page.outside
        /\ status = "exit0" => page.doc = IF game.error THEN "head" ELSE "foot"

\* Once the input is read, an error is reported by the exit status
\* (tests/hw2_tests.c:19-25).
ErrorsFail == status = "exit0" /\ game.nodes > 0 => ~game.error
==============================================================================
