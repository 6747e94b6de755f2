------------------------ MODULE NotationOutput_proofs ------------------------
(***************************************************************************)
(* What the notation program prints, for every command line, every game and *)
(* every bound: the brackets nest (Nested), the reader is in the program's  *)
(* own line with its own numbers (Numbered), what he reads of a move says   *)
(* which it was (Legible), the moves listed have their diagrams (Diagrams), *)
(* and a TeX output is one document (Framed).                               *)
(*                                                                          *)
(* None of them is inductive.  Black's move is printed bare only if the row *)
(* it goes into is open and has its number, so what the program knows of    *)
(* that (interrupt) has to be tied to what the reader has (row); and a      *)
(* closed variation brings back a line, a turn and a page that were put     *)
(* away together, so the lines put away have to be as right as the one that *)
(* is before the reader.                                                    *)
(***************************************************************************)
EXTENDS NotationOutput, SequenceTheorems, TLAPS

Formats ==
    [type : DriverTypes, outfile : {"stdout", "file", NULL}, print_piece : BOOLEAN,
     roque_alg : BOOLEAN, print_liaison : BOOLEAN, only_board : BOOLEAN, variation : Nat,
     print_headers : BOOLEAN, output_move_format : {"ALGEBRAIC", "SHORTENED"},
     out_table : Languages, interrupt : BOOLEAN]
Turns == [move : Nat, whiteturn : BOOLEAN]
Nodes == [turn : Turns, how : {"start", "played", "rejected", "open"}]
Depls ==
    [type : STRING, fromcol : 0..8, tocol : Nat, tolig : Nat, piece : Pieces \cup {VOID},
     promotion : Pieces \cup {VOID}, move : Nat, whiteturn : BOOLEAN]
Saved == [m : Nodes, prev : Turns, line : Seq(Depls)]
Games ==
    [m : Nodes, prev : Turns, line : Seq(Depls), stack : Seq(Saved), nodes : Nat,
     error : BOOLEAN, rejected : BOOLEAN]
Texts == {output_move_generic(f, d) : f \in Formats, d \in Depls}
Entries == [n : Nat, white : BOOLEAN, text : Texts, shown : BOOLEAN]
Pages ==
    [line : Seq(Entries), lines : Seq(Seq(Entries)), brackets : Seq({"[", "(", "env"}),
     row : Nat, doc : {"none", "head", "foot"}, outside : BOOLEAN, astray : BOOLEAN,
     fault : BOOLEAN]
Options ==
    [driver : DriverTypes, in_language : Languages, out_language : Languages,
     list : {opt.list}, stop : BOOLEAN]

(***************************************************************************)
(* The invariant, of a format f, a game g and a page pg.                    *)
(***************************************************************************)
Machine(f) == f.type \in {"xchess", "gnu"}
BaseOf(f, g) == IF Machine(f) /\ g.stack # <<>> THEN g.stack[1].line ELSE g.line
BaseTurn(f, g) == IF Machine(f) /\ g.stack # <<>> THEN g.stack[1].m.turn ELSE g.m.turn

\* The reader's entries are the moves.
Tracks(entries, moves, exact) ==
    /\ Len(entries) = Len(moves)
    /\ \A i \in 1..Len(moves) :
          /\ entries[i].white = moves[i].whiteturn
          /\ moves[1].whiteturn /\ exact => entries[i].n = moves[i].move

\* The turn of the last move of a line, or that of a start.
TurnAt(line, turn) ==
    IF line = <<>> THEN turn \in {Turn(0, FALSE), Turn(1, TRUE)}
    ELSE turn = Turn(line[Len(line)].move, line[Len(line)].whiteturn)

Typed(f, g, pg) == f \in Formats /\ g \in Games /\ pg \in Pages

Brackets(f, g, pg) ==
    /\ f.variation = Len(g.stack) /\ ~pg.astray
    /\ Len(pg.brackets) = IF has_out_variation(f) THEN Len(g.stack) ELSE 0
    /\ Len(pg.lines) = Len(pg.brackets)
    /\ \A i \in 1..Len(pg.brackets) :
          pg.brackets[i] = IF i > 1 THEN "(" ELSE IF f.type = "tex" THEN "env" ELSE "["

Lines(f, g, pg) ==
    has_out_move(f) =>
        /\ Tracks(pg.line, BaseOf(f, g), ~g.rejected)
        /\ \A i \in 1..Len(pg.lines) : Tracks(pg.lines[i], g.stack[i].line, ~g.rejected)

Returns(node, prev, line) ==
    /\ TurnAt(line, node.turn)
    /\ node.how = "played" => line # <<>> /\ TurnAt(Back(line), prev)
    /\ node.how = "start" => line = <<>>

TurnsOf(g) ==
    ~g.rejected =>
        /\ Returns(g.m, g.prev, g.line)
        /\ \A i \in 1..Len(g.stack) :
              /\ g.stack[i].m.how = "played"
              /\ Returns(g.stack[i].m, g.stack[i].prev, g.stack[i].line)

\* White's move is the open row's, unless an interruption has been noted.
Rows(f, g, pg) ==
    has_out_move(f) /\ ~g.rejected /\ BaseTurn(f, g).whiteturn
    /\ BaseOf(f, g) # <<>> /\ BaseOf(f, g)[1].whiteturn
        => (f.interrupt /\ ~Machine(f)) \/ pg.row = BaseTurn(f, g).move

Good(f, g, pg) ==
    Typed(f, g, pg) /\ Brackets(f, g, pg) /\ Lines(f, g, pg) /\ TurnsOf(g) /\ Rows(f, g, pg)

\* Before the start nothing is printed and nothing is played.
Fresh ==
    /\ status = "options" =>
          /\ page = BlankPage /\ game.line = <<>> /\ game.stack = <<>>
          /\ game.m = Node(Turn(0, FALSE), "start") /\ ~game.rejected
    /\ opt \in Options

Inv == Good(dr, game, page) /\ Fresh

(***************************************************************************)
(* Sequences.                                                               *)
(***************************************************************************)
\* Back drops the last element, if there is one.
LEMMA BackLemma ==
    ASSUME NEW S, NEW s \in Seq(S)
    PROVE  /\ Back(s) \in Seq(S)
           /\ s = <<>> => Back(s) = <<>>
           /\ s # <<>> => Len(s) \in Nat \ {0} /\ Len(Back(s)) = Len(s) - 1
           /\ \A i \in 1..Len(Back(s)) : Back(s)[i] = s[i]
  <1>1. Len(s) \in Nat /\ \A i \in 1..Len(s) : s[i] \in S
    OBVIOUS
  <1>2. CASE s = <<>>
    BY <1>2 DEF Back
  <1>3. CASE s # <<>>
    <2>1. Len(s) \in Nat \ {0}
      BY <1>3
    <2>2. Back(s) \in [1..Len(s) - 1 -> S]
      BY <1>1 DEF Back
    <2>3. Back(s) \in Seq(S) /\ Len(Back(s)) = Len(s) - 1
      BY <2>1, <2>2, IsASeq, LenProperties
    <2> QED
      BY <1>3, <2>1, <2>3 DEF Back
  <1> QED
    BY <1>2, <1>3

(***************************************************************************)
(* What leaves the reader where he is.                                      *)
(***************************************************************************)
\* The reader has read no move since.
SameReading(pg2, pg) ==
    /\ pg2 \in Pages
    /\ pg2.lines = pg.lines /\ pg2.brackets = pg.brackets /\ pg2.astray = pg.astray
    /\ Len(pg2.line) = Len(pg.line)
    /\ \A i \in 1..Len(pg.line) :
          pg2.line[i].n = pg.line[i].n /\ pg2.line[i].white = pg.line[i].white

LEMMA KeepGood ==
    ASSUME NEW f, NEW f2 \in Formats, NEW g, NEW pg, NEW pg2, Good(f, g, pg),
           SameReading(pg2, pg),
           f2.type = f.type, f2.only_board = f.only_board, f2.variation = f.variation,
           \/ pg2.row = pg.row /\ f2.interrupt = f.interrupt
           \/ ~Machine(f) /\ f2.interrupt
    PROVE  Good(f2, g, pg2)
  <1>1. Typed(f2, g, pg2)
    BY DEF Good, Typed, SameReading
  <1>2. BaseOf(f2, g) = BaseOf(f, g) /\ BaseTurn(f2, g) = BaseTurn(f, g)
    BY DEF BaseOf, BaseTurn, Machine
  <1>3. has_out_move(f2) = has_out_move(f) /\ has_out_variation(f2) = has_out_variation(f)
    BY DEF has_out_move, has_out_variation
  <1>4. Brackets(f2, g, pg2)
    BY <1>3 DEF Good, Brackets, SameReading
  <1>5. Lines(f2, g, pg2)
    <2>1. SUFFICES ASSUME has_out_move(f2)
                   PROVE  /\ Tracks(pg2.line, BaseOf(f2, g), ~g.rejected)
                          /\ \A i \in 1..Len(pg2.lines) :
                                Tracks(pg2.lines[i], g.stack[i].line, ~g.rejected)
      BY DEF Lines
    <2>2. Tracks(pg.line, BaseOf(f2, g), ~g.rejected)
      BY <1>2, <1>3, <2>1 DEF Good, Lines
    <2>3. Tracks(pg2.line, BaseOf(f2, g), ~g.rejected)
      BY <2>2 DEF Tracks, SameReading
    <2> QED
      BY <1>3, <2>1, <2>3 DEF Good, Lines, SameReading
  <1>6. Rows(f2, g, pg2)
    BY <1>2, <1>3 DEF Good, Rows, Machine
  <1> QED
    BY <1>1, <1>4, <1>5, <1>6 DEF Good

LEMMA InkSame ==
    ASSUME NEW e, NEW pg \in Pages
    PROVE  SameReading(Ink(e, pg), pg) /\ Ink(e, pg).row = pg.row
  BY DEF SameReading, Ink, Pages

\* A diagram shows the last entry and closes the row.
LEMMA BoardSame ==
    ASSUME NEW pg \in Pages
    PROVE  SameReading(ReadBoard(pg), pg)
  <1> DEFINE line == IF pg.line = <<>> THEN pg.line
                     ELSE [pg.line EXCEPT ![Len(pg.line)].shown = TRUE]
  <1>1. pg.line \in Seq(Entries)
    BY DEF Pages
  <1>2. line \in Seq(Entries) /\ Len(line) = Len(pg.line)
        /\ \A i \in 1..Len(pg.line) : line[i].n = pg.line[i].n /\ line[i].white = pg.line[i].white
    <2>1. CASE pg.line = <<>>
      BY <1>1, <2>1
    <2>2. CASE pg.line # <<>>
      <3> DEFINE k == Len(pg.line)
                 e == [pg.line[k] EXCEPT !.shown = TRUE]
      <3>1. k \in 1..Len(pg.line)
        BY <1>1, <2>2
      <3>2. pg.line[k] \in Entries
        BY <1>1, <3>1, ElementOfSeq
      <3>3. e \in Entries /\ e.n = pg.line[k].n /\ e.white = pg.line[k].white
        BY <3>2 DEF Entries
      <3>4. line = [pg.line EXCEPT ![k] = e]
        BY <2>2
      <3> HIDE DEF e, line, k
      <3>5. line \in Seq(Entries) /\ Len(line) = Len(pg.line)
            /\ \A i \in 1..Len(pg.line) : line[i] = IF i = k THEN e ELSE pg.line[i]
        BY <1>1, <3>1, <3>3, <3>4, ExceptSeq
      <3> QED
        BY <3>3, <3>5
    <2> QED
      BY <2>1, <2>2
  <1>3. ReadBoard(pg) = [pg EXCEPT !.row = 0, !.line = line]
    BY DEF ReadBoard
  <1>4. PICK entries \in Seq(Entries) :
            /\ ReadBoard(pg) = [pg EXCEPT !.row = 0, !.line = entries]
            /\ Len(entries) = Len(pg.line)
            /\ \A i \in 1..Len(pg.line) :
                  entries[i].n = pg.line[i].n /\ entries[i].white = pg.line[i].white
    BY <1>2, <1>3
  <1> HIDE DEF line
  <1>5. 0 \in Nat
    OBVIOUS
  <1>6. [pg EXCEPT !.row = 0, !.line = entries] \in Pages
    BY <1>5 DEF Pages
  <1> QED
    BY <1>4, <1>6 DEF SameReading, Pages

(***************************************************************************)
(* Lines that grow and shrink.                                              *)
(***************************************************************************)
LEMMA AppendBack ==
    ASSUME NEW S, NEW s \in Seq(S), NEW x \in S
    PROVE  Back(Append(s, x)) = s
  <1>1. Append(s, x) \in Seq(S) /\ Len(Append(s, x)) = Len(s) + 1
        /\ \A i \in 1..Len(s) : Append(s, x)[i] = s[i]
    BY AppendProperties
  <1>2. Len(Append(s, x)) - 1 = Len(s)
    BY <1>1, LenProperties
  <1>3. Back(Append(s, x)) = [i \in 1..Len(s) |-> s[i]]
    BY <1>1, <1>2 DEF Back
  <1>4. s = [i \in 1..Len(s) |-> s[i]]
    BY LenProperties
  <1> QED
    BY <1>3, <1>4

\* An entry read for a move played keeps the reader with the program.
LEMMA TracksAppend ==
    ASSUME NEW es \in Seq(Entries), NEW ms \in Seq(Depls), NEW e \in Entries, NEW d \in Depls,
           NEW exact, Tracks(es, ms, exact), e.white = d.whiteturn,
           exact /\ Append(ms, d)[1].whiteturn => e.n = d.move
    PROVE  Tracks(Append(es, e), Append(ms, d), exact)
  <1> DEFINE k == Len(ms)
             es2 == Append(es, e)
             ms2 == Append(ms, d)
  <1>1. k \in Nat /\ Len(es) = k
    BY LenProperties DEF Tracks
  <1>2. Len(es2) = k + 1 /\ es2[k + 1] = e /\ \A i \in 1..k : es2[i] = es[i]
    BY <1>1, AppendProperties
  <1>3. Len(ms2) = k + 1 /\ ms2[k + 1] = d /\ \A i \in 1..k : ms2[i] = ms[i]
    BY AppendProperties
  <1> HIDE DEF es2, ms2
  <1>4. ASSUME NEW i \in 1..Len(ms2)
        PROVE  /\ es2[i].white = ms2[i].whiteturn
               /\ ms2[1].whiteturn /\ exact => es2[i].n = ms2[i].move
    <2>1. CASE i = k + 1
      BY <1>2, <1>3, <2>1 DEF ms2
    <2>2. CASE i \in 1..k
      <3>1. 1 \in 1..k
        BY <1>1, <2>2
      <3> QED
        BY <1>2, <1>3, <2>2, <3>1 DEF Tracks
    <2> QED
      BY <1>1, <1>3, <1>4, <2>1, <2>2
  <1>5. Tracks(es2, ms2, exact)
    BY <1>1, <1>2, <1>3, <1>4 DEF Tracks
  <1> QED
    BY <1>5 DEF es2, ms2

\* So does taking the last of both back.
LEMMA TracksBack ==
    ASSUME NEW es \in Seq(Entries), NEW ms \in Seq(Depls), NEW exact, Tracks(es, ms, exact)
    PROVE  Tracks(Back(es), Back(ms), exact)
  <1>1. Len(es) \in Nat /\ Len(ms) \in Nat /\ Len(es) = Len(ms)
    BY LenProperties DEF Tracks
  <1>2. /\ ms = <<>> => Back(ms) = <<>>
        /\ ms # <<>> => Len(ms) \in Nat \ {0} /\ Len(Back(ms)) = Len(ms) - 1
        /\ \A i \in 1..Len(Back(ms)) : Back(ms)[i] = ms[i]
    BY BackLemma
  <1>3. /\ es = <<>> => Back(es) = <<>>
        /\ es # <<>> => Len(es) \in Nat \ {0} /\ Len(Back(es)) = Len(es) - 1
        /\ \A i \in 1..Len(Back(es)) : Back(es)[i] = es[i]
    BY BackLemma
  <1>4. CASE ms = <<>>
    <2>1. es = <<>>
      BY <1>1, <1>4
    <2> QED
      BY <1>2, <1>3, <1>4, <2>1 DEF Tracks
  <1>5. CASE ms # <<>>
    <2>1. es # <<>>
      BY <1>1, <1>2, <1>5
    <2>2. Len(Back(es)) = Len(Back(ms)) /\ Len(Back(ms)) = Len(ms) - 1
      BY <1>1, <1>2, <1>3, <1>5, <2>1
    <2>3. ASSUME NEW i \in 1..Len(Back(ms))
          PROVE  i \in 1..Len(ms) /\ i \in 1..Len(Back(es)) /\ 1 \in 1..Len(Back(ms))
      BY <1>1, <2>2
    <2> QED
      BY <1>2, <1>3, <2>2, <2>3 DEF Tracks
  <1> QED
    BY <1>4, <1>5

(***************************************************************************)
(* A move.                                                                  *)
(***************************************************************************)
\* The game g2 is g after the move d.
Plays(g, g2, d) ==
    /\ g2 \in Games /\ d \in Depls
    /\ d.whiteturn = ~g.m.turn.whiteturn
    /\ d.move = g.m.turn.move + (IF d.whiteturn THEN 1 ELSE 0)
    /\ g2.m = [turn |-> Turn(d.move, d.whiteturn), how |-> "played"] /\ g2.prev = g.m.turn
    /\ g2.line = Append(g.line, d) /\ g2.stack = g.stack /\ g2.rejected = g.rejected

LEMMA MoveTurns ==
    ASSUME NEW g \in Games, NEW g2, NEW d, Plays(g, g2, d), TurnsOf(g)
    PROVE  TurnsOf(g2)
  <1>1. g.line \in Seq(Depls) /\ d \in Depls
    BY DEF Games, Plays
  <1>2. Append(g.line, d) # <<>> /\ Len(Append(g.line, d)) = Len(g.line) + 1
        /\ Append(g.line, d)[Len(g.line) + 1] = d
    BY <1>1, AppendProperties
  <1>3. Back(Append(g.line, d)) = g.line
    BY <1>1, AppendBack
  <1>4. TurnAt(g2.line, g2.m.turn)
    <2>1. g2.line # <<>> /\ g2.line[Len(g2.line)] = d
      BY <1>2 DEF Plays
    <2>2. g2.m.turn = Turn(d.move, d.whiteturn)
      BY DEF Plays
    <2> QED
      BY <2>1, <2>2 DEF TurnAt
  <1>5. ~g.rejected => Returns(g2.m, g2.prev, g2.line)
    BY <1>2, <1>3, <1>4 DEF TurnsOf, Returns, Plays
  <1> QED
    BY <1>5 DEF TurnsOf, Plays

\* The entry the reader makes of a move.
LEMMA ReadMove ==
    ASSUME NEW f \in Formats, NEW pg \in Pages, NEW d \in Depls, NEW text \in Texts
    PROVE  \E n \in Nat, row \in Nat :
              /\ flush_buffer(f, pg, d, text) \in Pages
              /\ flush_buffer(f, pg, d, text)
                    = [pg EXCEPT !.line = Append(@, Entry(n, d.whiteturn, text)), !.row = row]
              /\ Entry(n, d.whiteturn, text) \in Entries
              /\ d.whiteturn => /\ row = n
                                /\ n = IF f.type = "gnu" THEN Counted(pg) ELSE d.move
              /\ ~d.whiteturn => n = IF f.interrupt /\ ~Machine(f) THEN d.move ELSE pg.row
  <1>1. pg.line \in Seq(Entries) /\ pg.row \in Nat /\ d.move \in Nat /\ d.whiteturn \in BOOLEAN
    BY DEF Pages, Depls
  <1>2. Counted(pg) \in Nat
    <2>1. CASE pg.line = <<>>
      BY <2>1 DEF Counted
    <2>2. CASE pg.line # <<>>
      <3>1. Len(pg.line) \in 1..Len(pg.line)
        BY <1>1, <2>2
      <3>2. pg.line[Len(pg.line)] \in Entries
        BY <1>1, <3>1, ElementOfSeq
      <3>3. pg.line[Len(pg.line)].n \in Nat
        BY <3>2 DEF Entries
      <3> QED
        BY <2>2, <3>3 DEF Counted
    <2> QED
      BY <2>1, <2>2
  <1>3. ASSUME NEW n \in Nat, NEW row \in Nat
        PROVE  /\ Entry(n, d.whiteturn, text) \in Entries
               /\ [pg EXCEPT !.line = Append(@, Entry(n, d.whiteturn, text)), !.row = row] \in Pages
    <2>1. Entry(n, d.whiteturn, text) \in Entries
      BY <1>1 DEF Entry, Entries
    <2>2. Append(pg.line, Entry(n, d.whiteturn, text)) \in Seq(Entries)
      BY <1>1, <2>1, AppendProperties
    <2> QED
      BY <2>1, <2>2 DEF Pages
  <1>4. CASE d.whiteturn
    <2> DEFINE n == IF f.type = "gnu" THEN Counted(pg) ELSE d.move
    <2>1. n \in Nat
      BY <1>1, <1>2
    <2>2. flush_buffer(f, pg, d, text) = [pg EXCEPT !.line = Append(@, Entry(n, TRUE, text)), !.row = n]
      BY <1>4 DEF flush_buffer, ReadRow
    <2>3. d.whiteturn = TRUE
      BY <1>1, <1>4
    <2> QED
      BY <1>3, <1>4, <2>1, <2>2, <2>3
  <1>5. CASE ~d.whiteturn
    <2> DEFINE n == IF f.interrupt /\ ~Machine(f) THEN d.move ELSE pg.row
    <2>1. n \in Nat
      BY <1>1
    <2>2. d.whiteturn = FALSE
      BY <1>1, <1>5
    <2>3. flush_buffer(f, pg, d, text) = [pg EXCEPT !.line = Append(@, Entry(n, FALSE, text)), !.row = 0]
      BY <1>5 DEF flush_buffer, ReadReply, ReadDots, Machine
    <2>4. 0 \in Nat
      OBVIOUS
    <2>5. n = IF f.interrupt /\ ~Machine(f) THEN d.move ELSE pg.row
      OBVIOUS
    <2> HIDE DEF n
    <2>6. /\ Entry(n, d.whiteturn, text) \in Entries
          /\ [pg EXCEPT !.line = Append(@, Entry(n, d.whiteturn, text)), !.row = 0] \in Pages
      BY <1>3, <2>1, <2>4
    <2>7. flush_buffer(f, pg, d, text)
             = [pg EXCEPT !.line = Append(@, Entry(n, d.whiteturn, text)), !.row = 0]
      BY <2>2, <2>3
    <2> QED
      BY <1>5, <2>1, <2>4, <2>5, <2>6, <2>7
  <1> QED
    BY <1>4, <1>5

\* The number the reader gives a move that is printed is its own.
LEMMA RightNumber ==
    ASSUME NEW f, NEW g, NEW g2, NEW pg, NEW d, NEW n, Good(f, g, pg), Plays(g, g2, d),
           prints_move(f), ~g.rejected, Append(g.line, d)[1].whiteturn,
           d.whiteturn => n = IF f.type = "gnu" THEN Counted(pg) ELSE d.move,
           ~d.whiteturn => n = IF f.interrupt /\ ~Machine(f) THEN d.move ELSE pg.row
    PROVE  n = d.move
  <1>1. f \in Formats /\ g \in Games /\ pg \in Pages /\ g.line \in Seq(Depls) /\ d \in Depls
    BY DEF Good, Typed, Games, Plays
  <1>2. Machine(f) => g.stack = <<>>
    BY <1>1 DEF prints_move, Suppressed, Machine, Good, Brackets, Formats, Games
  <1>3. BaseOf(f, g) = g.line /\ BaseTurn(f, g) = g.m.turn
    BY <1>2 DEF BaseOf, BaseTurn
  <1>4. has_out_move(f) /\ Tracks(pg.line, g.line, TRUE) /\ TurnAt(g.line, g.m.turn)
    BY <1>3 DEF prints_move, Good, Lines, TurnsOf, Returns
  <1>5. pg.line \in Seq(Entries) /\ Len(pg.line) = Len(g.line) /\ Len(g.line) \in Nat
    BY <1>1, <1>4 DEF Pages, Tracks
  <1>6. g.m.turn \in Turns /\ d.whiteturn = ~g.m.turn.whiteturn
        /\ d.move = g.m.turn.move + (IF d.whiteturn THEN 1 ELSE 0)
    BY <1>1 DEF Plays, Games, Nodes
  <1>7. CASE g.line = <<>>
    <2>1. Append(g.line, d)[1] = d
      BY <1>1, <1>7
    <2>2. d.whiteturn
      BY <2>1
    <2>3. g.m.turn = Turn(0, FALSE)
      <3>1. ~g.m.turn.whiteturn
        BY <1>6, <2>2
      <3>2. Turn(1, TRUE).whiteturn
        BY DEF Turn
      <3>3. g.m.turn \in {Turn(0, FALSE), Turn(1, TRUE)}
        BY <1>4, <1>7 DEF TurnAt
      <3> QED
        BY <3>1, <3>2, <3>3
    <2>4. d.move = 1
      BY <1>6, <2>2, <2>3 DEF Turn
    <2>5. pg.line = <<>>
      BY <1>5, <1>7
    <2> QED
      BY <2>2, <2>4, <2>5 DEF Counted
  <1>8. CASE g.line # <<>>
    <2> DEFINE k == Len(g.line)
    <2>1. k \in 1..k /\ 1 \in 1..k /\ pg.line # <<>> /\ k \in Nat \ {0}
      BY <1>1, <1>5, <1>8
    <2>2. Append(g.line, d)[1] = g.line[1]
      BY <1>1, <2>1, AppendProperties
    <2>3. g.line[1].whiteturn
      BY <2>2
    <2>4. g.m.turn.move = g.line[k].move
      BY <1>4, <1>8 DEF TurnAt, Turn
    <2>5. pg.line[k].n = g.line[k].move
      BY <1>4, <2>1, <2>3 DEF Tracks
    <2>6. CASE d.whiteturn
      BY <1>5, <1>6, <2>1, <2>4, <2>5, <2>6 DEF Counted
    <2>7. CASE ~d.whiteturn
      <3>1. g.m.turn.whiteturn
        BY <1>6, <2>7 DEF Turns
      <3>2. (f.interrupt /\ ~Machine(f)) \/ pg.row = g.m.turn.move
        BY <1>3, <1>4, <1>8, <2>3, <3>1 DEF Good, Rows
      <3>3. d.move = g.m.turn.move
        BY <1>6, <2>7 DEF Turns
      <3> QED
        BY <2>7, <3>2, <3>3
    <2> QED
      BY <2>6, <2>7
  <1> QED
    BY <1>7, <1>8

LEMMA MoveGood ==
    ASSUME NEW f, NEW g, NEW g2, NEW pg, NEW d, Good(f, g, pg), Plays(g, g2, d)
    PROVE  Good(moved(f), g2, output_move(f, pg, d))
  <1>1. f \in Formats /\ g \in Games /\ pg \in Pages /\ g.line \in Seq(Depls) /\ d \in Depls
        /\ g2 \in Games
    BY DEF Good, Typed, Games, Plays
  <1>2. TurnsOf(g2)
    BY <1>1, MoveTurns DEF Good
  <1>3. /\ moved(f) \in Formats /\ moved(f).type = f.type /\ moved(f).variation = f.variation
        /\ has_out_move(moved(f)) = has_out_move(f) /\ Machine(moved(f)) = Machine(f)
        /\ has_out_variation(moved(f)) = has_out_variation(f)
    BY <1>1 DEF moved, Formats, has_out_move, Machine, has_out_variation
  <1>4. CASE ~prints_move(f)
    <2>1. output_move(f, pg, d) = pg /\ moved(f) = f
      BY <1>4 DEF output_move, moved
    <2>2. has_out_move(f) => Machine(f) /\ g.stack # <<>>
      BY <1>1, <1>4 DEF prints_move, Suppressed, Machine, Good, Brackets, Formats, Games
    <2>3. has_out_move(f) => BaseOf(f, g2) = BaseOf(f, g) /\ BaseTurn(f, g2) = BaseTurn(f, g)
      BY <2>2 DEF BaseOf, BaseTurn, Plays
    <2>4. Typed(f, g2, pg) /\ Brackets(f, g2, pg)
      BY <1>1 DEF Good, Typed, Brackets, Plays
    <2>5. Lines(f, g2, pg)
      BY <2>3 DEF Good, Lines, Plays
    <2>6. Rows(f, g2, pg)
      BY <2>3 DEF Good, Rows, Plays
    <2> QED
      BY <1>2, <2>1, <2>4, <2>5, <2>6 DEF Good
  <1>5. CASE prints_move(f)
    <2> DEFINE text == output_move_generic(f, d)
               ink == Ink(f, pg)
    <2>1. ink \in Pages /\ ink.line = pg.line /\ ink.row = pg.row /\ ink.lines = pg.lines
          /\ ink.brackets = pg.brackets /\ ink.astray = pg.astray
      BY <1>1 DEF Ink, Pages
    <2>2. text \in Texts
      BY <1>1 DEF Texts
    <2> HIDE DEF ink, text
    <2>3. PICK n \in Nat, row \in Nat :
              /\ flush_buffer(f, ink, d, text) \in Pages
              /\ flush_buffer(f, ink, d, text)
                    = [ink EXCEPT !.line = Append(@, Entry(n, d.whiteturn, text)), !.row = row]
              /\ Entry(n, d.whiteturn, text) \in Entries
              /\ d.whiteturn => /\ row = n
                                /\ n = IF f.type = "gnu" THEN Counted(ink) ELSE d.move
              /\ ~d.whiteturn => n = IF f.interrupt /\ ~Machine(f) THEN d.move ELSE ink.row
      BY <1>1, <2>1, <2>2, ReadMove
    <2> DEFINE p2 == flush_buffer(f, ink, d, text)
               e == Entry(n, d.whiteturn, text)
    <2>4. output_move(f, pg, d) = p2
      BY <1>5 DEF output_move, ink, text
    <2>5. p2 \in Pages /\ p2.line = Append(pg.line, e) /\ p2.row = row /\ p2.lines = pg.lines
          /\ p2.brackets = pg.brackets /\ p2.astray = pg.astray
      BY <2>1, <2>3 DEF Pages
    <2>6. e \in Entries /\ e.n = n /\ e.white = d.whiteturn
      BY <2>3 DEF Entry
    <2>7. Counted(ink) = Counted(pg)
      BY <2>1 DEF Counted
    <2>8. ~g.rejected /\ Append(g.line, d)[1].whiteturn => n = d.move
      BY <1>5, <2>1, <2>3, <2>7, RightNumber
    <2>9. Machine(f) => g.stack = <<>>
      BY <1>1, <1>5 DEF prints_move, Suppressed, Machine, Good, Brackets, Formats, Games
    <2>10. BaseOf(f, g) = g.line /\ BaseOf(f, g2) = Append(g.line, d)
           /\ BaseTurn(f, g2) = Turn(d.move, d.whiteturn)
      BY <2>9 DEF BaseOf, BaseTurn, Plays
    <2> HIDE DEF p2, e
    <2>11. pg.line \in Seq(Entries)
      BY <1>1 DEF Pages
    <2>12. Lines(moved(f), g2, p2)
      <3>1. SUFFICES ASSUME has_out_move(f)
                     PROVE  /\ Tracks(p2.line, BaseOf(moved(f), g2), ~g.rejected)
                            /\ \A i \in 1..Len(p2.lines) :
                                  Tracks(p2.lines[i], g2.stack[i].line, ~g.rejected)
        BY <1>3 DEF Lines, Plays
      <3>2. Tracks(pg.line, g.line, ~g.rejected)
        BY <2>10, <3>1 DEF Good, Lines
      <3>3. Tracks(Append(pg.line, e), Append(g.line, d), ~g.rejected)
        BY <1>1, <2>6, <2>8, <2>11, <3>2, TracksAppend
      <3>4. BaseOf(moved(f), g2) = Append(g.line, d)
        BY <1>3, <2>10 DEF BaseOf
      <3>5. \A i \in 1..Len(p2.lines) : Tracks(p2.lines[i], g2.stack[i].line, ~g.rejected)
        BY <2>5, <3>1 DEF Good, Lines, Plays
      <3> QED
        BY <2>5, <3>3, <3>4, <3>5
    <2>13. Rows(moved(f), g2, p2)
      <3>1. BaseOf(moved(f), g2) = Append(g.line, d)
            /\ BaseTurn(moved(f), g2) = Turn(d.move, d.whiteturn)
        BY <1>3, <2>10 DEF BaseOf, BaseTurn
      <3>2. ~g.rejected /\ Append(g.line, d)[1].whiteturn /\ d.whiteturn => p2.row = d.move
        BY <2>3, <2>5, <2>8
      <3> QED
        BY <3>1, <3>2 DEF Rows, Turn, Plays
    <2>14. Brackets(moved(f), g2, p2)
      BY <1>3, <2>5 DEF Good, Brackets, Plays
    <2>15. Typed(moved(f), g2, p2)
      BY <1>1, <1>3, <2>5 DEF Typed
    <2> QED
      BY <1>2, <2>4, <2>12, <2>13, <2>14, <2>15 DEF Good
  <1> QED
    BY <1>4, <1>5

(***************************************************************************)
(* Variations.                                                              *)
(***************************************************************************)
LEMMA EnterGood ==
    ASSUME NEW f, NEW f2 \in Formats, NEW g, NEW g2 \in Games, NEW pg, NEW pg2,
           Good(f, g, pg), g.m.how = "played",
           f2.type = f.type, f2.only_board = f.only_board,
           f2.variation = Len(g.stack) + 1, f2.interrupt,
           g2.stack = Append(g.stack, [m |-> g.m, prev |-> g.prev, line |-> g.line]),
           g2.m = Node(g.prev, "open"), g2.line = Back(g.line), g2.rejected = g.rejected,
           pg2 = output_variation_in(f2, pg)
    PROVE  Good(f2, g2, pg2)
  <1> DEFINE top == [m |-> g.m, prev |-> g.prev, line |-> g.line]
             depth == Len(g.stack)
  <1>1. g \in Games /\ pg \in Pages /\ g.line \in Seq(Depls) /\ g.stack \in Seq(Saved)
        /\ pg.lines \in Seq(Seq(Entries)) /\ pg.line \in Seq(Entries)
        /\ pg.brackets \in Seq({"[", "(", "env"})
    BY DEF Good, Typed, Games, Pages
  <1>2. top \in Saved /\ top.m = g.m /\ top.prev = g.prev /\ top.line = g.line
    BY <1>1 DEF Games, Saved
  <1>3. /\ depth \in Nat /\ Len(g2.stack) = depth + 1 /\ g2.stack # <<>>
        /\ g2.stack[depth + 1] = top /\ \A i \in 1..depth : g2.stack[i] = g.stack[i]
    <2>1. depth \in Nat
      BY <1>1, LenProperties
    <2>2. g2.stack = Append(g.stack, top)
      OBVIOUS
    <2> HIDE DEF top
    <2>3. /\ Append(g.stack, top) # <<>> /\ Len(Append(g.stack, top)) = Len(g.stack) + 1
          /\ Append(g.stack, top)[Len(g.stack) + 1] = top
          /\ \A i \in 1..Len(g.stack) : Append(g.stack, top)[i] = g.stack[i]
      <3>1. g.stack \in Seq(Saved) /\ top \in Saved
        BY <1>1, <1>2
      <3> QED
        BY <3>1, AppendProperties
    <2> QED
      BY <2>1, <2>2, <2>3
  <1>4. /\ has_out_move(f2) = has_out_move(f) /\ has_out_variation(f2) = has_out_variation(f)
        /\ Machine(f2) = Machine(f)
        /\ has_out_move(f) /\ ~Machine(f) => has_out_variation(f)
        /\ has_out_variation(f) => ~Machine(f)
    BY DEF has_out_move, has_out_variation, Machine, Good, Typed, Formats, DriverTypes
  <1> HIDE DEF top, depth
  <1>5. TurnsOf(g2)
    <2>1. SUFFICES ASSUME ~g.rejected
                   PROVE  /\ Returns(g2.m, g2.prev, g2.line)
                          /\ \A i \in 1..Len(g2.stack) :
                                /\ g2.stack[i].m.how = "played"
                                /\ Returns(g2.stack[i].m, g2.stack[i].prev, g2.stack[i].line)
      BY DEF TurnsOf
    <2>2. Returns(g.m, g.prev, g.line)
      BY <2>1 DEF Good, TurnsOf
    <2>3. TurnAt(Back(g.line), g.prev)
      BY <2>2 DEF Returns
    <2>4. Returns(g2.m, g2.prev, g2.line)
      BY <2>3 DEF Returns, Node
    <2>5. ASSUME NEW i \in 1..Len(g2.stack)
          PROVE  /\ g2.stack[i].m.how = "played"
                 /\ Returns(g2.stack[i].m, g2.stack[i].prev, g2.stack[i].line)
      <3>1. CASE i = depth + 1
        BY <1>2, <1>3, <2>2, <3>1
      <3>2. CASE i \in 1..depth
        BY <1>3, <2>1, <3>2 DEF Good, TurnsOf, depth
      <3> QED
        BY <1>3, <2>5, <3>1, <3>2
    <2> QED
      BY <2>4, <2>5
  <1>6. CASE ~has_out_variation(f)
    <2>1. pg2 = pg
      BY <1>4, <1>6 DEF output_variation_in
    <2>2. has_out_move(f) => BaseOf(f2, g2) = BaseOf(f, g) /\ BaseTurn(f2, g2) = BaseTurn(f, g)
      <3>1. SUFFICES ASSUME has_out_move(f)
                     PROVE  BaseOf(f2, g2) = BaseOf(f, g) /\ BaseTurn(f2, g2) = BaseTurn(f, g)
        OBVIOUS
      <3>2. Machine(f)
        BY <1>4, <1>6, <3>1
      <3>3. CASE g.stack = <<>>
        <4>1. depth = 0 /\ g2.stack[1] = top
          BY <1>3, <3>3 DEF depth
        <4> QED
          BY <1>2, <1>3, <1>4, <3>2, <3>3, <4>1 DEF BaseOf, BaseTurn
      <3>4. CASE g.stack # <<>>
        <4>1. 1 \in 1..depth
          BY <1>1, <3>4 DEF depth
        <4> QED
          BY <1>3, <1>4, <3>2, <3>4, <4>1 DEF BaseOf, BaseTurn
      <3> QED
        BY <3>3, <3>4
    <2>3. Len(pg.lines) = 0 /\ Len(pg.brackets) = 0
      BY <1>6 DEF Good, Brackets
    <2>4. Brackets(f2, g2, pg2)
      BY <1>3, <1>4, <1>6, <2>1, <2>3 DEF Good, Brackets, depth
    <2>5. Lines(f2, g2, pg2)
      BY <1>4, <2>1, <2>2, <2>3 DEF Good, Lines
    <2>6. has_out_move(f) => Machine(f)
      BY <1>4, <1>6
    <2>7. Rows(f2, g2, pg2)
      BY <1>4, <2>1, <2>2, <2>6 DEF Good, Rows
    <2> QED
      BY <1>1, <1>5, <2>1, <2>4, <2>5, <2>7 DEF Good, Typed
  <1>7. CASE has_out_variation(f)
    <2> DEFINE symbol == symbol_of(f2)
    <2>1. symbol \in {"[", "(", "env"}
      BY DEF symbol_of
    <2>2. symbol = IF depth + 1 > 1 THEN "(" ELSE IF f2.type = "tex" THEN "env" ELSE "["
      BY <1>3 DEF symbol_of, depth
    <2> HIDE DEF symbol
    <2>3. /\ Back(pg.line) \in Seq(Entries)
          /\ Append(pg.lines, pg.line) \in Seq(Seq(Entries))
          /\ Append(pg.brackets, symbol) \in Seq({"[", "(", "env"})
      BY <1>1, <2>1, BackLemma, AppendProperties
    <2>4. pg2 = ReadIn(Ink(f2, pg), symbol)
      BY <1>4, <1>7 DEF output_variation_in, symbol
    <2>5. /\ Ink(f2, pg) \in Pages /\ Ink(f2, pg).line = pg.line /\ Ink(f2, pg).lines = pg.lines
          /\ Ink(f2, pg).brackets = pg.brackets /\ Ink(f2, pg).astray = pg.astray
      BY <1>1 DEF Ink, Pages
    <2>6. /\ pg2 \in Pages /\ pg2.line = Back(pg.line) /\ pg2.lines = Append(pg.lines, pg.line)
          /\ pg2.brackets = Append(pg.brackets, symbol) /\ pg2.astray = pg.astray
      <3> DEFINE ink == Ink(f2, pg)
                 p1 == [ink EXCEPT !.lines = Append(pg.lines, pg.line)]
                 p2 == [p1 EXCEPT !.line = Back(pg.line)]
                 p3 == [p2 EXCEPT !.row = 0]
                 p4 == [p3 EXCEPT !.brackets = Append(pg.brackets, symbol)]
      <3>1. pg2 = p4
        BY <2>4, <2>5 DEF ReadIn
      <3> HIDE DEF ink
      <3>2. ink \in Pages /\ ink.astray = pg.astray
        BY <2>5 DEF ink
      <3>3. p1 \in Pages /\ p1.astray = pg.astray /\ p1.lines = Append(pg.lines, pg.line)
        BY <2>3, <3>2 DEF Pages
      <3> HIDE DEF p1
      <3>4. /\ p2 \in Pages /\ p2.astray = pg.astray /\ p2.lines = Append(pg.lines, pg.line)
            /\ p2.line = Back(pg.line)
        BY <2>3, <3>3 DEF Pages
      <3> HIDE DEF p2
      <3>5. /\ p3 \in Pages /\ p3.astray = pg.astray /\ p3.lines = Append(pg.lines, pg.line)
            /\ p3.line = Back(pg.line)
        BY <3>4 DEF Pages
      <3> HIDE DEF p3
      <3> QED
        BY <2>3, <3>1, <3>5 DEF Pages
    <2>7. Len(pg.lines) = depth /\ Len(pg.brackets) = depth
      BY <1>7 DEF Good, Brackets, depth
    <2>8. /\ Len(pg2.lines) = depth + 1 /\ pg2.lines[depth + 1] = pg.line
          /\ \A i \in 1..depth : pg2.lines[i] = pg.lines[i]
      BY <1>1, <2>6, <2>7, AppendProperties
    <2>9. /\ Len(pg2.brackets) = depth + 1 /\ pg2.brackets[depth + 1] = symbol
          /\ \A i \in 1..depth : pg2.brackets[i] = pg.brackets[i]
      BY <1>1, <2>1, <2>6, <2>7, AppendProperties
    <2>10. Brackets(f2, g2, pg2)
      <3>1. ASSUME NEW i \in 1..Len(pg2.brackets)
            PROVE  pg2.brackets[i] = IF i > 1 THEN "(" ELSE IF f2.type = "tex" THEN "env" ELSE "["
        <4>1. CASE i = depth + 1
          BY <2>2, <2>9, <4>1
        <4>2. CASE i \in 1..depth
          BY <2>7, <2>9, <4>2 DEF Good, Brackets
        <4> QED
          BY <1>3, <2>9, <3>1, <4>1, <4>2
      <3> QED
        BY <1>3, <1>4, <1>7, <2>6, <2>8, <2>9, <3>1 DEF Good, Brackets, depth
    <2>11. BaseOf(f, g) = g.line /\ BaseOf(f2, g2) = Back(g.line)
      BY <1>4, <1>7 DEF BaseOf
    <2>12. Lines(f2, g2, pg2)
      <3>1. SUFFICES ASSUME has_out_move(f)
                     PROVE  /\ Tracks(pg2.line, BaseOf(f2, g2), ~g.rejected)
                            /\ \A i \in 1..Len(pg2.lines) :
                                  Tracks(pg2.lines[i], g2.stack[i].line, ~g.rejected)
        BY <1>4 DEF Lines
      <3>2. Tracks(pg.line, g.line, ~g.rejected)
        BY <2>11, <3>1 DEF Good, Lines
      <3>3. Tracks(pg2.line, BaseOf(f2, g2), ~g.rejected)
        BY <1>1, <2>6, <2>11, <3>2, TracksBack
      <3>4. ASSUME NEW i \in 1..Len(pg2.lines)
            PROVE  Tracks(pg2.lines[i], g2.stack[i].line, ~g.rejected)
        <4>1. CASE i = depth + 1
          BY <1>2, <1>3, <2>8, <3>2, <4>1
        <4>2. CASE i \in 1..depth
          BY <1>3, <2>7, <2>8, <3>1, <4>2 DEF Good, Lines
        <4> QED
          BY <1>3, <2>8, <3>4, <4>1, <4>2
      <3> QED
        BY <3>3, <3>4
    <2>13. Rows(f2, g2, pg2)
      BY <1>4, <1>7 DEF Rows
    <2> QED
      BY <1>5, <2>6, <2>10, <2>12, <2>13 DEF Good, Typed
  <1> QED
    BY <1>6, <1>7

LEMMA ExitGood ==
    ASSUME NEW f, NEW f2 \in Formats, NEW g, NEW g2 \in Games, NEW pg, NEW pg2,
           Good(f, g, pg), g.stack # <<>>,
           f2.type = f.type, f2.only_board = f.only_board,
           f2.variation = Len(g.stack) - 1, f2.interrupt,
           g2.stack = Back(g.stack), g2.m = g.stack[Len(g.stack)].m,
           g2.prev = g.stack[Len(g.stack)].prev, g2.line = g.stack[Len(g.stack)].line,
           g2.rejected = g.rejected,
           pg2 = output_variation_out(f, pg)
    PROVE  Good(f2, g2, pg2)
  <1> DEFINE depth == Len(g.stack)
  <1>1. g \in Games /\ pg \in Pages /\ g.stack \in Seq(Saved)
        /\ pg.lines \in Seq(Seq(Entries)) /\ pg.brackets \in Seq({"[", "(", "env"})
    BY DEF Good, Typed, Games, Pages
  <1>2. depth \in Nat \ {0} /\ depth \in 1..depth
    BY <1>1
  <1>3. Len(g2.stack) = depth - 1 /\ \A i \in 1..depth - 1 : g2.stack[i] = g.stack[i]
    BY <1>1, BackLemma
  <1>4. /\ has_out_move(f2) = has_out_move(f) /\ has_out_variation(f2) = has_out_variation(f)
        /\ Machine(f2) = Machine(f)
        /\ has_out_move(f) /\ ~Machine(f) => has_out_variation(f)
        /\ has_out_variation(f) => ~Machine(f)
    <2>1. f.type \in DriverTypes
      BY DEF Good, Typed, Formats
    <2>2. has_out_move(f2) = has_out_move(f) /\ has_out_variation(f2) = has_out_variation(f)
      BY DEF has_out_move, has_out_variation
    <2>3. Machine(f2) = Machine(f)
      BY DEF Machine
    <2>4. has_out_move(f) /\ ~Machine(f) => has_out_variation(f)
      BY <2>1 DEF has_out_move, has_out_variation, Machine, DriverTypes
    <2>5. has_out_variation(f) => ~Machine(f)
      BY DEF has_out_variation, Machine
    <2> QED
      BY <2>2, <2>3, <2>4, <2>5
  <1> HIDE DEF depth
  <1>5. TurnsOf(g2)
    <2>1. g2.m = g.stack[depth].m /\ g2.prev = g.stack[depth].prev /\ g2.line = g.stack[depth].line
      BY DEF depth
    <2>2. \A i \in 1..depth - 1 : i \in 1..depth
      BY <1>2
    <2>3. ~g.rejected => \A i \in 1..depth :
              /\ g.stack[i].m.how = "played"
              /\ Returns(g.stack[i].m, g.stack[i].prev, g.stack[i].line)
      BY DEF Good, TurnsOf, depth
    <2> QED
      BY <1>2, <1>3, <2>1, <2>2, <2>3 DEF TurnsOf
  <1>6. CASE ~has_out_variation(f)
    <2>1. pg2 = pg
      BY <1>6 DEF output_variation_out
    <2>2. has_out_move(f) => BaseOf(f2, g2) = BaseOf(f, g) /\ BaseTurn(f2, g2) = BaseTurn(f, g)
      <3>1. SUFFICES ASSUME has_out_move(f)
                     PROVE  BaseOf(f2, g2) = BaseOf(f, g) /\ BaseTurn(f2, g2) = BaseTurn(f, g)
        OBVIOUS
      <3>2. Machine(f)
        BY <1>4, <1>6, <3>1
      <3>3. CASE depth = 1
        <4>1. g2.stack = <<>>
          BY <1>1, <1>3, <3>3 DEF Games
        <4>2. g2.line = g.stack[1].line /\ g2.m = g.stack[1].m
          BY <3>3 DEF depth
        <4> QED
          BY <1>4, <3>2, <4>1, <4>2 DEF BaseOf, BaseTurn
      <3>4. CASE depth # 1
        <4>1. 1 \in 1..depth - 1
          BY <1>2, <3>4
        <4>2. g2.stack # <<>> /\ g2.stack[1] = g.stack[1]
          BY <1>2, <1>3, <3>4, <4>1
        <4> QED
          BY <1>4, <3>2, <4>2 DEF BaseOf, BaseTurn
      <3> QED
        BY <3>3, <3>4
    <2>3. Len(pg.lines) = 0 /\ Len(pg.brackets) = 0
      BY <1>6 DEF Good, Brackets
    <2>4. Brackets(f2, g2, pg2)
      BY <1>3, <1>4, <1>6, <2>1, <2>3 DEF Good, Brackets, depth
    <2>5. Lines(f2, g2, pg2)
      BY <1>4, <2>1, <2>2, <2>3 DEF Good, Lines
    <2>6. has_out_move(f) => Machine(f)
      BY <1>4, <1>6
    <2>7. Rows(f2, g2, pg2)
      BY <1>4, <2>1, <2>2, <2>6 DEF Good, Rows
    <2> QED
      BY <1>1, <1>5, <2>1, <2>4, <2>5, <2>7 DEF Good, Typed
  <1>7. CASE has_out_variation(f)
    <2>1. /\ Len(pg.lines) = depth /\ Len(pg.brackets) = depth /\ pg.brackets # <<>>
          /\ pg.brackets[depth] = symbol_of(f) /\ ~pg.astray
      <3>1. /\ Len(pg.lines) = depth /\ Len(pg.brackets) = depth /\ ~pg.astray
            /\ f.variation = depth
            /\ \A i \in 1..depth :
                  pg.brackets[i] = IF i > 1 THEN "(" ELSE IF f.type = "tex" THEN "env" ELSE "["
        BY <1>7 DEF Good, Brackets, depth
      <3>2. pg.brackets # <<>>
        BY <1>2, <3>1
      <3>3. symbol_of(f) = IF depth > 1 THEN "(" ELSE IF f.type = "tex" THEN "env" ELSE "["
        BY <1>2, <3>1 DEF symbol_of
      <3> QED
        BY <1>2, <3>1, <3>2, <3>3
    <2> DEFINE ink == Ink(f, pg)
               line == pg.lines[depth]
    <2>2. /\ ink \in Pages /\ ink.line = pg.line /\ ink.lines = pg.lines
          /\ ink.brackets = pg.brackets /\ ink.astray = pg.astray
      BY <1>1 DEF Ink, Pages
    <2> HIDE DEF ink
    <2>3. line \in Seq(Entries) /\ Back(pg.lines) \in Seq(Seq(Entries))
          /\ Back(pg.brackets) \in Seq({"[", "(", "env"})
      <3>1. line \in Seq(Entries)
        BY <1>1, <1>2, <2>1, ElementOfSeq
      <3> QED
        BY <1>1, <3>1, BackLemma
    <2>4. Len(Back(pg.lines)) = depth - 1 /\ \A i \in 1..depth - 1 : Back(pg.lines)[i] = pg.lines[i]
      <3>1. pg.lines # <<>>
        BY <1>2, <2>1
      <3>2. pg.lines \in Seq(Seq(Entries))
        BY <1>1
      <3>3. /\ pg.lines # <<>> => Len(Back(pg.lines)) = Len(pg.lines) - 1
            /\ \A i \in 1..Len(Back(pg.lines)) : Back(pg.lines)[i] = pg.lines[i]
        BY <3>2, BackLemma
      <3> QED
        BY <2>1, <3>1, <3>3
    <2>5. /\ Len(Back(pg.brackets)) = depth - 1
          /\ \A i \in 1..depth - 1 : Back(pg.brackets)[i] = pg.brackets[i]
      <3>1. pg.brackets \in Seq({"[", "(", "env"})
        BY <1>1
      <3>2. /\ pg.brackets # <<>> => Len(Back(pg.brackets)) = Len(pg.brackets) - 1
            /\ \A i \in 1..Len(Back(pg.brackets)) : Back(pg.brackets)[i] = pg.brackets[i]
        BY <3>1, BackLemma
      <3> QED
        BY <2>1, <3>2
    <2>6. /\ pg2 \in Pages /\ pg2.line = line /\ pg2.lines = Back(pg.lines)
          /\ pg2.brackets = Back(pg.brackets) /\ ~pg2.astray
      <3> DEFINE p1 == [ink EXCEPT !.line = line]
                 p2 == [p1 EXCEPT !.lines = Back(pg.lines)]
                 p3 == [p2 EXCEPT !.row = 0]
                 p4 == [p3 EXCEPT !.brackets = Back(pg.brackets)]
                 p5 == [p4 EXCEPT !.astray = FALSE]
      <3>1. pg2 = p5
        BY <1>7, <2>1, <2>2 DEF output_variation_out, ReadOut, ink, Pages
      <3>2. p1 \in Pages /\ p1.line = line
        BY <2>2, <2>3 DEF Pages
      <3> HIDE DEF p1
      <3>3. p2 \in Pages /\ p2.line = line /\ p2.lines = Back(pg.lines)
        BY <2>3, <3>2 DEF Pages
      <3> HIDE DEF p2
      <3>4. p3 \in Pages /\ p3.line = line /\ p3.lines = Back(pg.lines)
        BY <3>3 DEF Pages
      <3> HIDE DEF p3
      <3>5. /\ p4 \in Pages /\ p4.line = line /\ p4.lines = Back(pg.lines)
            /\ p4.brackets = Back(pg.brackets)
        BY <2>3, <3>4 DEF Pages
      <3> HIDE DEF p4
      <3> QED
        BY <3>1, <3>5 DEF Pages
    <2> HIDE DEF line
    <2>7. Brackets(f2, g2, pg2)
      <3>1. ASSUME NEW i \in 1..Len(pg2.brackets)
            PROVE  pg2.brackets[i] = IF i > 1 THEN "(" ELSE IF f2.type = "tex" THEN "env" ELSE "["
        <4>1. i \in 1..depth - 1 /\ i \in 1..Len(pg.brackets)
          BY <1>2, <2>1, <2>5, <2>6
        <4> QED
          BY <2>5, <2>6, <4>1 DEF Good, Brackets
      <3> QED
        BY <1>3, <1>4, <1>7, <2>4, <2>5, <2>6, <3>1 DEF Brackets, depth
    <2>8. BaseOf(f2, g2) = g.stack[depth].line
      BY <1>4, <1>7 DEF BaseOf, depth
    <2>9. Lines(f2, g2, pg2)
      <3>1. SUFFICES ASSUME has_out_move(f)
                     PROVE  /\ Tracks(pg2.line, BaseOf(f2, g2), ~g.rejected)
                            /\ \A i \in 1..Len(pg2.lines) :
                                  Tracks(pg2.lines[i], g2.stack[i].line, ~g.rejected)
        BY <1>4 DEF Lines
      <3>2. \A i \in 1..depth : Tracks(pg.lines[i], g.stack[i].line, ~g.rejected)
        BY <2>1, <3>1 DEF Good, Lines
      <3>3. Tracks(pg2.line, BaseOf(f2, g2), ~g.rejected)
        BY <1>2, <2>6, <2>8, <3>2 DEF line
      <3>4. ASSUME NEW i \in 1..Len(pg2.lines)
            PROVE  Tracks(pg2.lines[i], g2.stack[i].line, ~g.rejected)
        <4>1. i \in 1..depth - 1 /\ i \in 1..depth
          BY <1>2, <2>4, <2>6
        <4> QED
          BY <1>3, <2>4, <2>6, <3>2, <4>1
      <3> QED
        BY <3>3, <3>4
    <2>10. Rows(f2, g2, pg2)
      BY <1>4, <1>7 DEF Rows
    <2> QED
      BY <1>5, <2>6, <2>7, <2>9, <2>10 DEF Good, Typed
  <1> QED
    BY <1>6, <1>7

(***************************************************************************)
(* The command line and the start.                                          *)
(***************************************************************************)
LEMMA FreshGood ==
    ASSUME NEW f \in Formats, NEW g \in Games, NEW pg \in Pages,
           f.variation = 0, g.line = <<>>, g.stack = <<>>,
           g.m = Node(Turn(0, FALSE), "start"),
           pg.line = <<>>, pg.lines = <<>>, pg.brackets = <<>>, ~pg.astray
    PROVE  Good(f, g, pg)
  <1>1. BaseOf(f, g) = <<>>
    BY DEF BaseOf
  <1>2. Brackets(f, g, pg)
    BY DEF Brackets
  <1>3. Lines(f, g, pg)
    BY <1>1 DEF Lines, Tracks
  <1>4. TurnsOf(g)
    BY DEF TurnsOf, Returns, TurnAt, Node, Turn
  <1>5. Rows(f, g, pg)
    BY <1>1 DEF Rows
  <1> QED
    BY <1>2, <1>3, <1>4, <1>5 DEF Good, Typed

LEMMA BlankType == BlankPage \in Pages
  <1>1. <<>> \in Seq(Entries) /\ <<>> \in Seq(Seq(Entries)) /\ <<>> \in Seq({"[", "(", "env"})
    OBVIOUS
  <1> QED
    BY <1>1 DEF BlankPage, Pages

LEMMA EnglishKnown == "english" \in Languages
  BY DEF Languages, c_language

LEMMA DriverType ==
    ASSUME NEW f \in Formats, NEW driver \in DriverTypes
    PROVE  init_driver(f, driver) \in Formats /\ init_driver(f, driver).variation = 0
  <1> DEFINE machine == driver \in {"xchess", "gnu"}
             f1 == [f EXCEPT !.type = driver]
             f2 == [f1 EXCEPT !.variation = 0]
             f3 == [f2 EXCEPT !.interrupt = FALSE]
             f4 == [f3 EXCEPT !.output_move_format =
                        IF machine THEN "ALGEBRAIC" ELSE f.output_move_format]
             f5 == Styled(f4, ~machine)
  <1>1. f1 \in Formats /\ f1.output_move_format = f.output_move_format
    BY DEF Formats
  <1>2. f2 \in Formats /\ f2.variation = 0 /\ f2.output_move_format = f.output_move_format
    <2> HIDE DEF f1
    <2> QED
      BY <1>1 DEF Formats
  <1>3. f3 \in Formats /\ f3.variation = 0 /\ f3.output_move_format = f.output_move_format
    <2> HIDE DEF f2
    <2> QED
      BY <1>2 DEF Formats
  <1>4. f4 \in Formats /\ f4.variation = 0
    <2> HIDE DEF f3
    <2> QED
      BY <1>3 DEF Formats
  <1>5. f5 \in Formats /\ f5.variation = 0
    <2> HIDE DEF f4
    <2> QED
      BY <1>4 DEF Styled, Formats
  <1>6. init_driver(f, driver) = IF driver = "postscript" THEN f4 ELSE f5
    BY <1>3 DEF init_driver
  <1> HIDE DEF f4, f5
  <1> QED
    BY <1>4, <1>5, <1>6

LEMMA InitInv == Init => Inv
  <1> SUFFICES ASSUME Init PROVE Inv
    OBVIOUS
  <1>1. new_driver \in Formats
    BY EnglishKnown DEF new_driver, Formats, DriverTypes
  <1>2. dr \in Formats /\ dr.variation = 0
    BY <1>1, DriverType DEF Init, DriverTypes
  <1>3. game \in Games
    <2>1. <<>> \in Seq(Depls) /\ <<>> \in Seq(Saved)
      OBVIOUS
    <2>2. Turn(0, FALSE) \in Turns /\ Node(Turn(0, FALSE), "start") \in Nodes
      BY DEF Turn, Turns, Node, Nodes
    <2> QED
      BY <2>1, <2>2 DEF Init, Games
  <1>4. /\ game.line = <<>> /\ game.stack = <<>> /\ game.m = Node(Turn(0, FALSE), "start")
        /\ ~game.rejected /\ page = BlankPage
    BY DEF Init
  <1>5. Good(dr, game, page)
    BY <1>2, <1>3, <1>4, BlankType, FreshGood DEF BlankPage
  <1>6. opt \in Options
    BY EnglishKnown DEF Init, Options, DriverTypes
  <1> QED
    BY <1>4, <1>5, <1>6 DEF Inv, Fresh

LEMMA OptionStep ==
    ASSUME NEW a, Inv, parse_options(a)
    PROVE  Inv'
  <1>1. status = "options" /\ opt \in Options /\ dr \in Formats /\ game \in Games
        /\ page = BlankPage /\ game.line = <<>> /\ game.stack = <<>>
        /\ game.m = Node(Turn(0, FALSE), "start") /\ ~game.rejected
    BY DEF parse_options, Inv, Fresh, Good, Typed
  <1>2. dr.variation = 0
    BY <1>1 DEF Inv, Good, Brackets
  <1>3. /\ dr' \in Formats /\ dr'.variation = 0 /\ page' = page
        /\ game' \in Games /\ game'.line = <<>> /\ game'.stack = <<>> /\ game'.m = game.m
        /\ ~game'.rejected /\ opt' \in Options'
    <2>1. CASE LanguageOption(a)
      <3>1. find_keyword(Languages, "english", a.value[1]) \in Languages
        BY EnglishKnown DEF find_keyword
      <3> QED
        BY <1>1, <1>2, <2>1, <3>1 DEF LanguageOption, Stays, Options
    <2>2. CASE DriverOption(a)
      <3>1. find_keyword(DriverTypes, "ascii", a.value[1]) \in DriverTypes
        BY DEF find_keyword, DriverTypes
      <3> QED
        BY <1>1, <1>2, <2>2, <3>1 DEF DriverOption, Stays, Options
    <2>3. CASE OutfileOption(a)
      BY <1>1, <1>2, <2>3 DEF OutfileOption, Stays, Options, Formats
    <2>4. CASE FormatOption(a)
      BY <1>1, <1>2, <2>4 DEF FormatOption, Stays, Options, Formats
    <2>5. CASE EndOption(a)
      BY <1>1, <1>2, <2>5 DEF EndOption, Stays, Options
    <2>6. CASE ListOption(a)
      BY <1>1, <1>2, <2>6 DEF ListOption, Stays, Options
    <2>7. CASE UNCHANGED <<opt, dr, game, page>>
      BY <1>1, <1>2, <2>7 DEF Options
    <2>8. CASE UnknownOption(a)
      BY <1>1, <1>2, <2>8 DEF UnknownOption, Games, Options
    <2> QED
      BY <2>1, <2>2, <2>3, <2>4, <2>5, <2>6, <2>7, <2>8
         DEF parse_options, ListOverrun, MissingArgument, InfoOption, InfileArgument, Ends
  <1>4. page' \in Pages /\ page'.line = <<>> /\ page'.lines = <<>> /\ page'.brackets = <<>>
        /\ ~page'.astray
    BY <1>1, <1>3, BlankType DEF BlankPage
  <1>5. Good(dr', game', page')
    BY <1>1, <1>3, <1>4, FreshGood
  <1> QED
    BY <1>1, <1>3, <1>5 DEF Inv, Fresh

LEMMA StartStep ==
    ASSUME Inv, Start
    PROVE  Inv'
  <1>1. status = "options" /\ opt \in Options /\ dr \in Formats /\ game \in Games
        /\ page = BlankPage /\ game.line = <<>> /\ game.stack = <<>>
        /\ game.m = Node(Turn(0, FALSE), "start") /\ ~game.rejected
    BY DEF Start, Inv, Fresh, Good, Typed
  <1>2. [dr EXCEPT !.out_table = opt.out_language] \in Formats /\ opt.driver \in DriverTypes
    BY <1>1 DEF Options, Formats
  <1>3. dr' \in Formats /\ dr'.variation = 0
    BY <1>2, DriverType DEF Start
  <1>4. page' \in Pages /\ page'.line = <<>> /\ page'.lines = <<>> /\ page'.brackets = <<>>
        /\ ~page'.astray
    <2> DEFINE ink == Ink(dr', page)
    <2>1. ink \in Pages /\ ink.line = <<>> /\ ink.lines = <<>> /\ ink.brackets = <<>>
          /\ ~ink.astray
      BY <1>1, BlankType DEF Ink, BlankPage, Pages
    <2> HIDE DEF ink
    <2>2. page' \in {page, ink, [ink EXCEPT !.doc = "head", !.outside = FALSE]}
      BY DEF Start, output_init, ink
    <2>3. page \in Pages /\ page.line = <<>> /\ page.lines = <<>> /\ page.brackets = <<>>
          /\ ~page.astray
      BY <1>1, BlankType DEF BlankPage
    <2> QED
      BY <2>1, <2>2, <2>3 DEF Pages
  <1>5. game' = game /\ opt' = opt
    BY DEF Start
  <1>6. Good(dr', game', page')
    BY <1>1, <1>3, <1>4, <1>5, FreshGood
  <1>7. status' # "options"
    BY DEF Start, Becomes, Closes
  <1> QED
    BY <1>1, <1>5, <1>6, <1>7 DEF Inv, Fresh, Options

(***************************************************************************)
(* Reading the game.                                                        *)
(***************************************************************************)
LEMMA InkGood ==
    ASSUME NEW f, NEW e, NEW g, NEW pg, Good(f, g, pg)
    PROVE  Good(f, g, Ink(e, pg))
  BY InkSame, KeepGood DEF Good, Typed

LEMMA EndGood ==
    ASSUME NEW f, NEW e, NEW g, NEW pg, Good(f, g, pg)
    PROVE  Good(f, g, output_end(e, pg))
  <1>1. pg \in Pages /\ f \in Formats
    BY DEF Good, Typed
  <1>2. SameReading(output_end(e, pg), pg) /\ output_end(e, pg).row = pg.row
    BY <1>1 DEF SameReading, output_end, Pages
  <1> QED
    BY <1>1, <1>2, KeepGood

LEMMA BoardGood ==
    ASSUME NEW f, NEW e, NEW g, NEW pg, Good(f, g, pg), e.type = f.type
    PROVE  Good(shown(f), g, output_board(e, pg))
  <1>1. pg \in Pages /\ f \in Formats
    BY DEF Good, Typed
  <1>2. /\ shown(f) \in Formats /\ shown(f).type = f.type /\ shown(f).only_board = f.only_board
        /\ shown(f).variation = f.variation
        /\ f.type \in {"ascii", "roff", "tex"} => shown(f).interrupt
        /\ f.type \notin {"ascii", "roff", "tex"} => shown(f) = f
    BY <1>1 DEF shown, Formats
  <1>3. CASE ~has_out_board(e)
    <2>1. output_board(e, pg) = pg /\ shown(f) = f
      BY <1>2, <1>3 DEF output_board, has_out_board
    <2> QED
      BY <2>1
  <1>4. CASE has_out_board(e)
    <2> DEFINE ink == Ink(e, pg)
    <2>1. Good(f, g, ink) /\ ink \in Pages
      BY <1>1, InkGood DEF Good, Typed
    <2> HIDE DEF ink
    <2>2. output_board(e, pg) = ReadBoard(ink)
      BY <1>4 DEF output_board, ink
    <2>3. SameReading(ReadBoard(ink), ink)
      BY <2>1, BoardSame
    <2>4. CASE f.type \in {"ascii", "roff", "tex"}
      BY <1>2, <2>1, <2>2, <2>3, <2>4, KeepGood DEF Machine
    <2>5. CASE f.type = "postscript"
      <3>1. ~has_out_move(f) /\ shown(f) = f
        BY <1>2, <2>5 DEF has_out_move
      <3>2. Lines(f, g, ReadBoard(ink)) /\ Rows(f, g, ReadBoard(ink))
        BY <3>1 DEF Lines, Rows
      <3>3. Brackets(f, g, ReadBoard(ink)) /\ Typed(f, g, ReadBoard(ink))
        BY <1>1, <2>1, <2>3 DEF Good, Typed, Brackets, SameReading
      <3> QED
        BY <2>1, <2>2, <3>1, <3>2, <3>3 DEF Good
    <2> QED
      BY <1>1, <1>4, <2>4, <2>5 DEF has_out_board, Formats, DriverTypes
  <1> QED
    BY <1>3, <1>4

LEMMA AskedType ==
    ASSUME NEW mv \in Moves, {mv.letter, mv.promotion} \subseteq Known, game \in Games
    PROVE  \A d \in {Asked(mv), Found(mv)} :
              d \in Depls /\ d.move = NextTurn.move /\ d.whiteturn = NextTurn.whiteturn
  <1>1. ASSUME NEW c \in Known, c # "" PROVE piece(c) \in Pieces
    BY <1>1 DEF Known, piece
  <1>2. mv \in [letter : STRING, type : STRING, promotion : STRING,
                fromcol : 0..8, tocol : Nat, tolig : Nat, stands : VOID..Guessed]
    BY OutputAssumption
  <1>3. PAWN \in Pieces /\ \A k \in VOID..Guessed : k # Guessed => k \in Pieces \cup {VOID}
    BY DEF PAWN, VOID, Guessed, Pieces, KING
  <1>4. NextTurn.move \in Nat /\ NextTurn.whiteturn \in BOOLEAN
    BY DEF NextTurn, Turn, Games, Nodes, Turns
  <1>5. /\ Asked(mv) \in Depls
        /\ Asked(mv).move = NextTurn.move /\ Asked(mv).whiteturn = NextTurn.whiteturn
    BY <1>1, <1>2, <1>3, <1>4 DEF Asked, Depls
  <1>6. (IF mv.stands = Guessed THEN Asked(mv).piece ELSE mv.stands) \in Pieces \cup {VOID}
    BY <1>2, <1>3, <1>5 DEF Depls
  <1> QED
    BY <1>5, <1>6 DEF Found, Depls

LEMMA PlaysAfter ==
    ASSUME NEW d \in Depls, NEW error \in BOOLEAN, game \in Games,
           d.move = NextTurn.move, d.whiteturn = NextTurn.whiteturn
    PROVE  Plays(game, [After(d) EXCEPT !.error = error], d)
  <1> DEFINE node == Node(NextTurn, "played")
             g1 == [game EXCEPT !.m = node]
             g2 == [g1 EXCEPT !.prev = game.m.turn]
             g3 == [g2 EXCEPT !.nodes = game.nodes + 1]
             g4 == [g3 EXCEPT !.line = Append(game.line, d)]
             g5 == [g4 EXCEPT !.error = error]
  <1>1. /\ NextTurn = Turn(d.move, d.whiteturn) /\ d.whiteturn = ~game.m.turn.whiteturn
        /\ d.move = game.m.turn.move + (IF d.whiteturn THEN 1 ELSE 0)
    BY DEF NextTurn, Turn
  <1>2. node \in Nodes /\ node = [turn |-> Turn(d.move, d.whiteturn), how |-> "played"]
    BY <1>1 DEF Node, Nodes, Turn, Turns, Depls
  <1>3. game.m.turn \in Turns /\ game.nodes + 1 \in Nat /\ Append(game.line, d) \in Seq(Depls)
    BY AppendProperties DEF Games, Nodes
  <1>4. [After(d) EXCEPT !.error = error] = g5
    BY DEF After, Added, Games
  <1> HIDE DEF node
  <1>5. g1 \in Games /\ g1.m = node /\ g1.stack = game.stack /\ g1.rejected = game.rejected
        /\ g1.nodes = game.nodes /\ g1.line = game.line
    BY <1>2 DEF Games
  <1> HIDE DEF g1
  <1>6. g2 \in Games /\ g2.m = node /\ g2.stack = game.stack /\ g2.rejected = game.rejected
        /\ g2.prev = game.m.turn /\ g2.nodes = game.nodes /\ g2.line = game.line
    BY <1>3, <1>5 DEF Games
  <1> HIDE DEF g2
  <1>7. g3 \in Games /\ g3.m = node /\ g3.stack = game.stack /\ g3.rejected = game.rejected
        /\ g3.prev = game.m.turn /\ g3.line = game.line
    BY <1>3, <1>6 DEF Games
  <1> HIDE DEF g3
  <1>8. g4 \in Games /\ g4.m = node /\ g4.stack = game.stack /\ g4.rejected = game.rejected
        /\ g4.prev = game.m.turn /\ g4.line = Append(game.line, d)
    BY <1>3, <1>7 DEF Games
  <1> HIDE DEF g4
  <1>9. g5 \in Games /\ g5.m = node /\ g5.stack = game.stack /\ g5.rejected = game.rejected
        /\ g5.prev = game.m.turn /\ g5.line = Append(game.line, d)
    BY <1>8 DEF Games
  <1> QED
    BY <1>1, <1>2, <1>4, <1>9 DEF Plays

LEMMA MoveStep ==
    ASSUME NEW d \in Depls, NEW legal \in BOOLEAN, Inv, execute_move(d, legal),
           d.move = NextTurn.move, d.whiteturn = NextTurn.whiteturn
    PROVE  Good(dr', game', page')
  <1> DEFINE error == game.error \/ ~legal
             printed == output_move(dr, page, d)
  <1>1. Good(dr, game, page) /\ dr \in Formats /\ game \in Games
    BY DEF Inv, Good, Typed
  <1>2. error \in BOOLEAN
    OBVIOUS
  <1>3. game' = [After(d) EXCEPT !.error = error]
    BY DEF execute_move
  <1>4. Good(moved(dr), game', printed)
    <2>1. Plays(game, game', d)
      BY <1>1, <1>2, <1>3, PlaysAfter
    <2> QED
      BY <1>1, <2>1, MoveGood
  <1>5. moved(dr).type = dr.type
    BY <1>1 DEF moved, Formats
  <1> HIDE DEF printed
  <1>6. Good(moved(dr), game', Ink(dr, printed))
    BY <1>4, InkGood
  <1>7. Good(shown(moved(dr)), game', output_board(dr, Ink(dr, printed)))
    BY <1>5, <1>6, BoardGood
  <1>8. Good(shown(moved(dr)), game', output_board(dr, printed))
    BY <1>4, <1>5, BoardGood
  <1>9. Good(shown(moved(dr)), game', output_end(dr, output_board(dr, printed)))
    BY <1>8, EndGood
  <1> QED
    BY <1>4, <1>7, <1>8, <1>9 DEF execute_move, printed

\* The game g2 differs from g in what the invariant does not look at.
LEMMA GameGood ==
    ASSUME NEW f, NEW g, NEW g2 \in Games, NEW pg, Good(f, g, pg),
           g2.m = g.m, g2.prev = g.prev, g2.line = g.line, g2.stack = g.stack,
           g2.rejected = g.rejected
    PROVE  Good(f, g2, pg)
  <1>1. BaseOf(f, g2) = BaseOf(f, g) /\ BaseTurn(f, g2) = BaseTurn(f, g)
    BY DEF BaseOf, BaseTurn
  <1>2. Typed(f, g2, pg) /\ Brackets(f, g2, pg)
    BY DEF Good, Typed, Brackets
  <1>3. Lines(f, g2, pg) /\ Rows(f, g2, pg)
    BY <1>1 DEF Good, Lines, Rows
  <1>4. TurnsOf(g2)
    BY DEF Good, TurnsOf
  <1> QED
    BY <1>2, <1>3, <1>4 DEF Good

\* A rejected move leaves the lines; their numbers no longer count.
LEMMA RejectStep ==
    ASSUME NEW mv \in Moves, Inv, reject_move(mv)
    PROVE  Good(dr', game', page')
  <1>1. Good(dr, game, page) /\ game \in Games /\ dr' = dr /\ page' = page
    BY DEF Inv, Good, Typed, reject_move
  <1>2. NextTurn \in Turns /\ Node(NextTurn, "rejected") \in Nodes
    BY <1>1 DEF NextTurn, Turn, Turns, Node, Nodes, Games
  <1>3. game' \in Games /\ game'.line = game.line /\ game'.stack = game.stack /\ game'.rejected
    <2> DEFINE node == Node(NextTurn, "rejected")
               g1 == [game EXCEPT !.m = node, !.prev = game.m.turn]
               g2 == [g1 EXCEPT !.nodes = game.nodes + 1]
    <2>1. game' = [g2 EXCEPT !.rejected = TRUE]
      BY DEF reject_move, Added
    <2> HIDE DEF node
    <2>2. node \in Nodes /\ game.m.turn \in Turns /\ game.nodes + 1 \in Nat
      BY <1>1, <1>2 DEF node, Games, Nodes
    <2>3. g1 \in Games /\ g1.line = game.line /\ g1.stack = game.stack
      BY <1>1, <2>2 DEF Games
    <2> HIDE DEF g1
    <2>4. g2 \in Games /\ g2.line = game.line /\ g2.stack = game.stack
      BY <2>2, <2>3 DEF Games
    <2> HIDE DEF g2
    <2> QED
      BY <2>1, <2>4 DEF Games
  <1>4. BaseOf(dr, game') = BaseOf(dr, game)
    BY <1>3 DEF BaseOf
  <1>5. Lines(dr, game', page)
    BY <1>1, <1>3, <1>4 DEF Good, Lines, Tracks
  <1>6. TurnsOf(game') /\ Rows(dr, game', page)
    BY <1>3 DEF TurnsOf, Rows
  <1>7. Typed(dr, game', page) /\ Brackets(dr, game', page)
    BY <1>1, <1>3 DEF Good, Typed, Brackets
  <1> QED
    BY <1>1, <1>5, <1>6, <1>7 DEF Good

LEMMA EnterGame ==
    ASSUME Inv, enter_variation
    PROVE  /\ game' \in Games /\ game'.m = Node(game.prev, "open") /\ game'.line = Back(game.line)
           /\ game'.stack = Append(game.stack, [m |-> game.m, prev |-> game.prev, line |-> game.line])
           /\ game'.rejected = game.rejected
           /\ dr' \in Formats /\ dr'.type = dr.type /\ dr'.only_board = dr.only_board
           /\ dr'.variation = Len(game.stack) + 1 /\ dr'.interrupt
  <1>1. Good(dr, game, page) /\ game \in Games /\ dr \in Formats
    BY DEF Inv, Good, Typed
  <1> DEFINE top == [m |-> game.m, prev |-> game.prev, line |-> game.line]
             g1 == [game EXCEPT !.stack = Append(game.stack, top)]
             g2 == [g1 EXCEPT !.m = Node(game.prev, "open")]
             g3 == [g2 EXCEPT !.line = Back(game.line)]
  <1>2. Len(game.stack) + 1 \in Nat
    BY <1>1, LenProperties DEF Games
  <1>3. /\ dr' \in Formats /\ dr'.type = dr.type /\ dr'.only_board = dr.only_board
        /\ dr'.variation = Len(game.stack) + 1 /\ dr'.interrupt
    BY <1>1, <1>2 DEF enter_variation, Formats
  <1>4. game' = g3
    BY <1>1 DEF enter_variation, Games
  <1>5. game.line \in Seq(Depls) /\ game.stack \in Seq(Saved)
    BY <1>1 DEF Games
  <1>6. top \in Saved
    BY <1>1 DEF Games, Saved
  <1> DEFINE stack == Append(game.stack, top)
             node == Node(game.prev, "open")
             line == Back(game.line)
  <1>7. stack \in Seq(Saved)
    <2> HIDE DEF top
    <2> QED
      BY <1>5, <1>6, AppendProperties
  <1>8. node \in Nodes
    BY <1>1 DEF Node, Nodes, Games
  <1>9. line \in Seq(Depls)
    BY <1>5, BackLemma
  <1>10. /\ game' \in Games /\ game'.stack = stack /\ game'.m = node /\ game'.line = line
         /\ game'.rejected = game.rejected
    <2> HIDE DEF stack, node, line
    <2>1. g1 = [game EXCEPT !.stack = stack]
      BY DEF stack
    <2>2. g1 \in Games /\ g1.stack = stack /\ g1.rejected = game.rejected
      BY <1>1, <1>7, <2>1 DEF Games
    <2>3. g2 = [g1 EXCEPT !.m = node]
      BY DEF node
    <2>4. g3 = [g2 EXCEPT !.line = line]
      BY DEF line
    <2> HIDE DEF g1
    <2>5. g2 \in Games /\ g2.stack = stack /\ g2.m = node /\ g2.rejected = game.rejected
      BY <1>8, <2>2, <2>3 DEF Games
    <2> HIDE DEF g2
    <2> QED
      BY <1>4, <1>9, <2>4, <2>5 DEF Games
  <1> QED
    BY <1>3, <1>10

LEMMA EnterStep ==
    ASSUME Inv, enter_variation
    PROVE  Good(dr', game', page')
  <1>1. Good(dr, game, page) /\ game.m.how = "played" /\ page' = output_variation_in(dr', page)
    BY DEF Inv, enter_variation
  <1> QED
    BY <1>1, EnterGame, EnterGood

LEMMA ExitGame ==
    ASSUME Inv, exit_variation
    PROVE  /\ game' \in Games /\ game'.stack = Back(game.stack)
           /\ game'.m = game.stack[Len(game.stack)].m
           /\ game'.prev = game.stack[Len(game.stack)].prev
           /\ game'.line = game.stack[Len(game.stack)].line
           /\ game'.rejected = game.rejected
           /\ dr' \in Formats /\ dr'.type = dr.type /\ dr'.only_board = dr.only_board
           /\ dr'.variation = Len(game.stack) - 1 /\ dr'.interrupt
           /\ game.stack \in Seq(Saved) /\ game.stack # <<>>
  <1> DEFINE depth == Len(game.stack)
             top == game.stack[depth]
  <1>1. Good(dr, game, page) /\ game \in Games /\ dr \in Formats /\ game.stack \in Seq(Saved)
        /\ game.stack # <<>>
    BY DEF Inv, Good, Typed, exit_variation, Games
  <1>2. depth \in Nat \ {0} /\ depth \in 1..depth
    BY <1>1
  <1>3. top \in Saved
    BY <1>1, <1>2, ElementOfSeq
  <1>4. /\ dr' \in Formats /\ dr'.type = dr.type /\ dr'.only_board = dr.only_board
        /\ dr'.variation = Len(game.stack) - 1 /\ dr'.interrupt
    <2>1. Len(game.stack) - 1 \in Nat
      BY <1>2
    <2> QED
      BY <1>1, <2>1 DEF exit_variation, Formats
  <1>5. Back(game.stack) \in Seq(Saved)
    BY <1>1, BackLemma
  <1>6. /\ game' \in Games /\ game'.stack = Back(game.stack) /\ game'.m = top.m
        /\ game'.prev = top.prev /\ game'.line = top.line /\ game'.rejected = game.rejected
    <2> DEFINE g1 == [game EXCEPT !.m = top.m]
               g2 == [g1 EXCEPT !.prev = top.prev]
               g3 == [g2 EXCEPT !.line = top.line]
               g4 == [g3 EXCEPT !.stack = Back(game.stack)]
    <2>1. game' = g4
      BY DEF exit_variation, Resume
    <2> HIDE DEF top
    <2>2. top.m \in Nodes /\ top.prev \in Turns /\ top.line \in Seq(Depls)
      BY <1>3 DEF Saved
    <2>3. g1 \in Games /\ g1.m = top.m /\ g1.rejected = game.rejected
      BY <1>1, <2>2 DEF Games
    <2> HIDE DEF g1
    <2>4. g2 \in Games /\ g2.m = top.m /\ g2.prev = top.prev /\ g2.rejected = game.rejected
      BY <2>2, <2>3 DEF Games
    <2> HIDE DEF g2
    <2>5. /\ g3 \in Games /\ g3.m = top.m /\ g3.prev = top.prev /\ g3.line = top.line
          /\ g3.rejected = game.rejected
      BY <2>2, <2>4 DEF Games
    <2> HIDE DEF g3
    <2> QED
      BY <1>5, <2>1, <2>5 DEF Games
  <1> QED
    BY <1>1, <1>4, <1>6

LEMMA ExitStep ==
    ASSUME Inv, exit_variation
    PROVE  Good(dr', game', page')
  <1>1. Good(dr, game, page) /\ page' = output_variation_out(dr, page)
    BY DEF Inv, exit_variation
  <1> QED
    BY <1>1, ExitGame, ExitGood

LEMMA RenumberStep ==
    ASSUME Inv, Renumber
    PROVE  Good(dr', game', page')
  <1>1. Good(dr, game, page) /\ game \in Games /\ dr' = dr /\ page' = page
    BY DEF Inv, Good, Typed, Renumber
  <1>2. PICK turn \in {Turn(0, FALSE), Turn(1, TRUE)} : game' = [game EXCEPT !.m.turn = turn]
    BY DEF Renumber
  <1>3. turn \in Turns
    <2>1. Turn(0, FALSE) \in Turns /\ Turn(1, TRUE) \in Turns
      BY DEF Turn, Turns
    <2> QED
      BY <1>2, <2>1
  <1>4. /\ game' \in Games /\ game'.stack = game.stack /\ game'.line = game.line
        /\ game'.rejected = game.rejected /\ game'.m.turn = turn /\ game'.m.how = "start"
        /\ game.m.how = "start" /\ game.stack = <<>>
    BY <1>1, <1>2, <1>3 DEF Renumber, Games, Nodes
  <1>5. ~game.rejected => game.line = <<>>
    BY <1>1, <1>4 DEF Good, TurnsOf, Returns
  <1>6. BaseOf(dr, game') = BaseOf(dr, game) /\ BaseOf(dr, game) = game.line
    BY <1>4 DEF BaseOf
  <1>7. TurnsOf(game')
    <2>1. Len(game'.stack) = 0
      BY <1>4
    <2>2. TurnAt(<<>>, turn)
      BY <1>2 DEF TurnAt, Turn
    <2> QED
      BY <1>4, <1>5, <2>1, <2>2 DEF TurnsOf, Returns
  <1>8. Lines(dr, game', page) /\ Rows(dr, game', page)
    BY <1>1, <1>4, <1>5, <1>6 DEF Good, Lines, Rows
  <1>9. Typed(dr, game', page) /\ Brackets(dr, game', page)
    BY <1>1, <1>4 DEF Good, Typed, Brackets
  <1> QED
    BY <1>1, <1>7, <1>8, <1>9 DEF Good

LEMMA ErrorStep ==
    ASSUME Inv, game' = [game EXCEPT !.error = TRUE], dr' = dr, page' = page
    PROVE  Good(dr', game', page')
  <1>1. Good(dr, game, page) /\ game \in Games
    BY DEF Inv, Good, Typed
  <1>2. /\ game' \in Games /\ game'.m = game.m /\ game'.prev = game.prev
        /\ game'.line = game.line /\ game'.stack = game.stack /\ game'.rejected = game.rejected
    BY <1>1 DEF Games
  <1> QED
    BY <1>1, <1>2, GameGood

LEMMA LexStep ==
    ASSUME Inv, yylex
    PROVE  Good(dr', game', page')
  <1>1. Good(dr, game, page) /\ game \in Games
    BY DEF Inv, Good, Typed
  <1>2. ASSUME NEW mv \in Moves, parse_move(mv) \/ parse_roque(mv)
        PROVE  Good(dr', game', page')
    <2>1. {mv.letter, mv.promotion} \subseteq Known
      BY <1>2 DEF parse_move, parse_roque, Known
    <2>2. PICK d \in {Asked(mv), Found(mv)}, legal \in BOOLEAN : execute_move(d, legal)
      BY <1>2 DEF parse_move, parse_roque
    <2> QED
      BY <1>1, <2>1, <2>2, AskedType, MoveStep
  <1>3. ASSUME NEW mv \in Moves, reject_move(mv)
        PROVE  Good(dr', game', page')
    BY <1>3, RejectStep
  <1>4. CASE TooDeep \/ NoVariation
    BY <1>4, ErrorStep DEF TooDeep, NoVariation
  <1>5. CASE enter_variation
    BY <1>5, EnterStep
  <1>6. CASE exit_variation
    BY <1>6, ExitStep
  <1>7. CASE parse_text \/ Special
    BY <1>1, <1>7, InkGood DEF parse_text, Special, output_text
  <1>8. CASE Showboard
    BY <1>1, <1>8, BoardGood DEF Showboard
  <1>9. CASE Renumber
    BY <1>9, RenumberStep
  <1> QED
    BY <1>2, <1>3, <1>4, <1>5, <1>6, <1>7, <1>8, <1>9 DEF yylex

LEMMA EndStep ==
    ASSUME Inv, EndOfInput
    PROVE  Good(dr', game', page')
  <1>1. Good(dr, game, page)
    BY DEF Inv
  <1>2. Good(shown(dr), game, output_board(dr, page))
    BY <1>1, BoardGood
  <1>3. Good(shown(dr), game, output_end(dr, output_board(dr, page)))
    BY <1>2, EndGood
  <1> QED
    BY <1>2, <1>3 DEF EndOfInput

\* Nothing that happens while the game is read goes back to the options.
LEMMA ReadFresh ==
    ASSUME Inv, yylex \/ EndOfInput
    PROVE  Fresh'
  <1>1. opt' = opt /\ opt \in Options
    BY DEF Inv, Fresh, yylex, EndOfInput, Reads, ReadsMove, parse_move, reject_move, parse_roque,
           TooDeep, enter_variation, NoVariation, exit_variation, parse_text, Special, Showboard,
           Renumber
  <1>2. status' # "options"
    BY DEF yylex, EndOfInput, Reads, ReadsMove, parse_move, reject_move, parse_roque, execute_move,
           TooDeep, enter_variation, NoVariation, exit_variation, parse_text, Special, Showboard,
           Renumber, Becomes, Closes
  <1> QED
    BY <1>1, <1>2 DEF Fresh, Options

THEOREM InvHolds == Spec => []Inv
  <1>1. Init => Inv
    BY InitInv
  <1>2. Inv /\ [Next]_vars => Inv'
    <2> SUFFICES ASSUME Inv, [Next]_vars PROVE Inv'
      OBVIOUS
    <2>1. ASSUME NEW a \in Arguments, parse_options(a) PROVE Inv'
      BY <2>1, OptionStep
    <2>2. CASE Start
      BY <2>2, StartStep
    <2>3. CASE yylex
      BY <2>3, LexStep, ReadFresh DEF Inv
    <2>4. CASE EndOfInput
      BY <2>4, EndStep, ReadFresh DEF Inv
    <2>5. ASSUME NEW language \in InputLanguages, Langue(language) PROVE Inv'
      <3>1. UNCHANGED <<dr, game, page>> /\ status = "reading" /\ status' = "reading"
        BY <2>5 DEF Langue
      <3>2. opt \in Options
        BY DEF Inv, Fresh
      <3>3. find_keyword(Languages, opt.in_language, language) \in Languages
        BY <3>2 DEF find_keyword, Options
      <3>4. opt' \in Options'
        BY <2>5, <3>2, <3>3 DEF Langue, Options
      <3> QED
        BY <3>1, <3>4 DEF Inv, Fresh
    <2>6. CASE UNCHANGED vars
      BY <2>6 DEF vars, Inv, Fresh, Options
    <2> QED
      BY <2>1, <2>2, <2>3, <2>4, <2>5, <2>6 DEF Next
  <1> QED
    BY <1>1, <1>2, PTL DEF Spec

(***************************************************************************)
(* The theorems.                                                            *)
(***************************************************************************)
\* The brackets printed nest as the variations do, at every depth.
THEOREM BracketsNest == Spec => []Nested
  <1>1. Inv => Nested
    <2>1. SUFFICES ASSUME Inv PROVE Nested
      OBVIOUS
    <2>2. Brackets(dr, game, page) /\ page \in Pages
      BY <2>1 DEF Inv, Good, Typed
    <2>3. DOMAIN page.brackets = 1..Len(page.brackets)
      BY <2>2 DEF Pages
    <2> QED
      BY <2>2, <2>3 DEF Nested, Brackets
  <1> QED
    BY <1>1, InvHolds, PTL

\* Whoever reads what is printed is in the program's line, with its numbers.
THEOREM ReaderFollows == Spec => []Numbered
  <1>1. Inv => Numbered
    <2>1. SUFFICES ASSUME Inv, has_out_move(dr)
                   PROVE  /\ Len(page.line) = Len(Base)
                          /\ \A i \in DOMAIN Base :
                                /\ page.line[i].white = Base[i].whiteturn
                                /\ Base[1].whiteturn /\ ~game.rejected
                                       => page.line[i].n = Base[i].move
      BY DEF Numbered
    <2>2. Base = BaseOf(dr, game)
      BY DEF Base, BaseOf, Machine
    <2>3. Tracks(page.line, Base, ~game.rejected)
      BY <2>1, <2>2 DEF Inv, Good, Lines
    <2>4. DOMAIN Base = 1..Len(Base)
      <3>1. game \in Games
        BY <2>1 DEF Inv, Good, Typed
      <3>2. CASE Machine(dr) /\ game.stack # <<>>
        <4>1. game.stack \in Seq(Saved) /\ 1 \in 1..Len(game.stack)
          BY <3>1, <3>2 DEF Games
        <4>2. game.stack[1] \in Saved
          BY <4>1, ElementOfSeq
        <4>3. Base \in Seq(Depls)
          BY <2>2, <3>2, <4>2 DEF BaseOf, Saved
        <4> QED
          BY <4>3, LenProperties
      <3>3. CASE ~(Machine(dr) /\ game.stack # <<>>)
        <4>1. Base \in Seq(Depls)
          BY <2>2, <3>1, <3>3 DEF BaseOf, Games
        <4> QED
          BY <4>1, LenProperties
      <3> QED
        BY <3>2, <3>3
    <2> QED
      BY <2>3, <2>4 DEF Tracks
  <1> QED
    BY <1>1, InvHolds, PTL

(***************************************************************************)
(* The document.  While the game is read, all that is printed comes after   *)
(* the head; only the end prints the foot.                                  *)
(***************************************************************************)
\* All that has been printed lies after the head, and the foot is not there yet.
Inside(pg) == {"doc", "outside"} \subseteq DOMAIN pg /\ pg.doc = "head" /\ ~pg.outside

Document ==
    /\ status = "options" => dr.type = "ascii"
    /\ dr.type = "tex" /\ dr.print_headers =>
          /\ status = "reading" => Inside(page)
          /\ status = "exit0" =>
                ~page.outside /\ page.doc = IF game.error THEN "head" ELSE "foot"

LEMMA InsideInk ==
    ASSUME NEW e, NEW pg, Inside(pg)
    PROVE  Inside(Ink(e, pg))
  BY DEF Inside, Ink

LEMMA InsideBoard ==
    ASSUME NEW e, NEW pg, Inside(pg)
    PROVE  Inside(output_board(e, pg))
  <1> DEFINE ink == Ink(e, pg)
  <1>1. Inside(ink)
    BY InsideInk
  <1> HIDE DEF ink
  <1>2. Inside(ReadBoard(ink))
    BY <1>1 DEF Inside, ReadBoard
  <1> QED
    BY <1>1, <1>2 DEF output_board, ink

LEMMA InsideMove ==
    ASSUME NEW e, NEW pg, NEW d, Inside(pg)
    PROVE  Inside(output_move(e, pg, d))
  <1> DEFINE ink == Ink(e, pg)
             text == output_move_generic(e, d)
  <1>1. Inside(ink)
    BY InsideInk
  <1> HIDE DEF ink, text
  <1>2. /\ \A n : Inside(ReadRow(ink, n, text)) /\ Inside(ReadDots(ink, n, text))
        /\ Inside(ReadReply(ink, text))
    BY <1>1 DEF Inside, ReadRow, ReadDots, ReadReply
  <1>3. Inside(flush_buffer(e, ink, d, text))
    BY <1>2 DEF flush_buffer
  <1> QED
    BY <1>3 DEF output_move, ink, text

LEMMA InsideVariation ==
    ASSUME NEW e, NEW pg, Inside(pg)
    PROVE  Inside(output_variation_in(e, pg)) /\ Inside(output_variation_out(e, pg))
  <1> DEFINE ink == Ink(e, pg)
             symbol == symbol_of(e)
  <1>1. Inside(ink)
    BY InsideInk
  <1> HIDE DEF ink, symbol
  <1>2. Inside(ReadIn(ink, symbol)) /\ Inside(ReadOut(ink, symbol))
    BY <1>1 DEF Inside, ReadIn, ReadOut
  <1> QED
    BY <1>2 DEF output_variation_in, output_variation_out, ink, symbol

\* The foot ends the document.
LEMMA FootPrinted ==
    ASSUME NEW e, NEW pg, Inside(pg), e.type = "tex", e.print_headers
    PROVE  ~output_end(e, pg).outside /\ output_end(e, pg).doc = "foot"
  BY DEF Inside, output_end

\* The driver and the headers are settled when the reading starts.
LEMMA SettledFormat ==
    ASSUME NEW f \in Formats, NEW n \in Nat
    PROVE  \A f2 \in {f, shown(f), moved(f), shown(moved(f)),
                      [f EXCEPT !.interrupt = TRUE, !.variation = n]} :
              f2.type = f.type /\ f2.print_headers = f.print_headers
  <1>1. moved(f) \in Formats /\ moved(f).type = f.type /\ moved(f).print_headers = f.print_headers
    BY DEF moved, Formats
  <1>2. shown(f).type = f.type /\ shown(f).print_headers = f.print_headers
    BY DEF shown, Formats
  <1>3. shown(moved(f)).type = f.type /\ shown(moved(f)).print_headers = f.print_headers
    BY <1>1 DEF shown, Formats
  <1> QED
    BY <1>1, <1>2, <1>3 DEF Formats

LEMMA DocumentMove ==
    ASSUME NEW d, NEW legal \in BOOLEAN, Inv, Document, status = "reading",
           execute_move(d, legal)
    PROVE  Document'
  <1> DEFINE error == game.error \/ ~legal
             printed == output_move(dr, page, d)
  <1>1. dr \in Formats /\ game \in Games
    BY DEF Inv, Good, Typed
  <1>2. dr'.type = dr.type /\ dr'.print_headers = dr.print_headers
    BY <1>1, SettledFormat DEF execute_move
  <1>3. game'.error = error
    <2>1. "error" \in DOMAIN After(d)
      BY <1>1 DEF After, Added, Games
    <2> QED
      BY <2>1 DEF execute_move
  <1>4. SUFFICES ASSUME dr.type = "tex", dr.print_headers
                 PROVE  /\ status' = "reading" => Inside(page')
                        /\ status' = "exit0" =>
                              ~page'.outside /\ page'.doc = IF error THEN "head" ELSE "foot"
    <2>1. status' # "options"
      BY DEF execute_move, Becomes, Closes
    <2> QED
      BY <1>2, <1>3, <2>1 DEF Document
  <1>5. Inside(printed)
    BY <1>4, InsideMove DEF Document
  <1> HIDE DEF printed
  <1>6. CASE error
    <2>1. Inside(Ink(dr, printed))
      BY <1>5, InsideInk
    <2>2. Inside(page') /\ status' # "reading"
      BY <1>6, <2>1, InsideBoard DEF execute_move, printed, Closes
    <2> QED
      BY <1>6, <2>2 DEF Inside
  <1>7. CASE ~error
    <2>1. Inside(output_board(dr, printed))
      BY <1>5, InsideBoard
    <2>2. \/ Inside(page') /\ Becomes("reading")
          \/ page' = output_end(dr, output_board(dr, printed)) /\ Closes("exit0")
      BY <1>5, <1>7, <2>1 DEF execute_move, printed
    <2>3. CASE Inside(page') /\ Becomes("reading")
      BY <2>3 DEF Becomes
    <2>4. CASE page' = output_end(dr, output_board(dr, printed)) /\ Closes("exit0")
      BY <1>4, <1>7, <2>1, <2>4, FootPrinted DEF Closes
    <2> QED
      BY <2>2, <2>3, <2>4
  <1> QED
    BY <1>6, <1>7

\* What else the input may hold leaves the program inside the document.
LEMMA DocumentRead ==
    ASSUME Inv, Document, yylex, ~(\E mv \in Moves : parse_move(mv) \/ parse_roque(mv))
    PROVE  Document'
  <1>1. dr \in Formats /\ game \in Games /\ Len(game.stack) \in Nat
    BY LenProperties DEF Inv, Good, Typed, Games
  <1>2. status = "reading" /\ status' # "options" /\ status' # "exit0"
    BY DEF yylex, Reads, ReadsMove, reject_move, TooDeep, enter_variation, NoVariation,
           exit_variation, parse_text, Special, Showboard, Renumber, Becomes
  <1>3. dr'.type = dr.type /\ dr'.print_headers = dr.print_headers
    <2>1. CASE enter_variation
      BY <1>1, <2>1, SettledFormat DEF enter_variation
    <2>2. CASE exit_variation
      <3>1. Len(game.stack) - 1 \in Nat
        BY <1>1, <2>2, EmptySeq DEF exit_variation, Inv, Good, Typed, Games
      <3> QED
        BY <1>1, <2>2, <3>1, SettledFormat DEF exit_variation
    <2>3. CASE dr' = dr \/ dr' = shown(dr)
      BY <1>1, <2>3, SettledFormat
    <2> QED
      BY <2>1, <2>2, <2>3 DEF yylex, reject_move, TooDeep, NoVariation, parse_text, Special,
                              Showboard, Renumber
  <1>4. ASSUME Inside(page) PROVE Inside(page')
    <2>1. page' \in {page, Ink(dr, page), output_board(dr, page), output_variation_in(dr', page),
                      output_variation_out(dr, page)}
      BY DEF yylex, reject_move, TooDeep, enter_variation, NoVariation, exit_variation, parse_text,
             output_text, Special, Showboard, Renumber
    <2> QED
      BY <1>4, <2>1, InsideInk, InsideBoard, InsideVariation
  <1> QED
    BY <1>2, <1>3, <1>4 DEF Document

LEMMA DocumentEnd ==
    ASSUME Inv, Document, EndOfInput
    PROVE  Document'
  <1>1. dr \in Formats
    BY DEF Inv, Good, Typed
  <1>2. dr'.type = dr.type /\ dr'.print_headers = dr.print_headers /\ game' = game
    BY <1>1, SettledFormat DEF EndOfInput
  <1>3. SUFFICES ASSUME dr.type = "tex", dr.print_headers, status' = "exit0"
                 PROVE  ~page'.outside /\ page'.doc = IF game.error THEN "head" ELSE "foot"
    <2>1. status' # "options" /\ status' # "reading"
      BY DEF EndOfInput, Closes
    <2> QED
      BY <1>2, <2>1 DEF Document
  <1>4. ~game.error
    BY <1>3 DEF EndOfInput, Closes
  <1>5. Inside(output_board(dr, page))
    BY <1>3, InsideBoard DEF Document, EndOfInput, Reads
  <1> QED
    BY <1>3, <1>4, <1>5, FootPrinted DEF EndOfInput

LEMMA DocumentStart ==
    ASSUME Inv, Document, Start
    PROVE  Document'
  <1> DEFINE ink == Ink(dr', page)
  <1>1. page = BlankPage /\ status' # "options" /\ status' # "exit0"
    BY DEF Inv, Fresh, Start, Becomes, Closes
  <1>2. ASSUME dr'.type = "tex", dr'.print_headers
        PROVE  Inside(page')
    <2>1. page' = [ink EXCEPT !.doc = "head", !.outside = FALSE]
      BY <1>2 DEF Start, output_init
    <2>2. {"doc", "outside"} \subseteq DOMAIN ink
      BY <1>1 DEF Ink, BlankPage
    <2> HIDE DEF ink
    <2> QED
      BY <2>1, <2>2 DEF Inside
  <1> QED
    BY <1>1, <1>2 DEF Document

LEMMA DocumentOption ==
    ASSUME NEW a \in Arguments, Inv, Document, parse_options(a)
    PROVE  Document'
  <1>1. dr \in Formats /\ dr.type = "ascii"
    BY DEF Inv, Good, Typed, Document, parse_options
  <1>2. dr'.type = "ascii"
    BY <1>1 DEF parse_options, LanguageOption, DriverOption, OutfileOption, FormatOption, EndOption,
                ListOption, ListOverrun, MissingArgument, InfoOption, InfileArgument, UnknownOption,
                Ends, Formats
  <1> QED
    BY <1>2 DEF Document

\* A TeX output is one document: what is printed lies between its head and its
\* foot, and the foot is there when the program succeeds without having met an
\* error.  After an illegal move it exits with the status of a success, and the
\* foot is missing.
THEOREM OneDocument == Spec => []Framed
  <1>1. Init => Document
    BY DEF Init, Document, init_driver, new_driver, Styled
  <1>2. Inv /\ Document /\ [Next]_vars => Document'
    <2> SUFFICES ASSUME Inv, Document, [Next]_vars PROVE Document'
      OBVIOUS
    <2>1. ASSUME NEW a \in Arguments, parse_options(a) PROVE Document'
      BY <2>1, DocumentOption
    <2>2. CASE Start
      BY <2>2, DocumentStart
    <2>3. CASE yylex
      <3>1. ASSUME NEW mv \in Moves, parse_move(mv) \/ parse_roque(mv) PROVE Document'
        <4>1. status = "reading" /\ \E d \in {Asked(mv), Found(mv)}, legal \in BOOLEAN : execute_move(d, legal)
          BY <3>1 DEF parse_move, parse_roque, ReadsMove, Reads
        <4> QED
          BY <4>1, DocumentMove
      <3> QED
        BY <2>3, <3>1, DocumentRead
    <2>4. CASE EndOfInput
      BY <2>4, DocumentEnd
    <2>5. ASSUME NEW language \in InputLanguages, Langue(language) PROVE Document'
      BY <2>5 DEF Langue, Document
    <2>6. CASE UNCHANGED vars
      BY <2>6 DEF vars, Document
    <2> QED
      BY <2>1, <2>2, <2>3, <2>4, <2>5, <2>6 DEF Next
  <1>3. Document => Framed
    BY DEF Document, Framed, Inside
  <1> QED
    BY <1>1, <1>2, <1>3, InvHolds, PTL DEF Spec

(***************************************************************************)
(* What is printed of a move.  Each entry before the reader, and each of    *)
(* those he comes back to, is the text of its move, and one of Black's that *)
(* the command line lists has its diagram.                                  *)
(***************************************************************************)
On(list, d) == ~d.whiteturn /\ \E k \in DOMAIN list : list[k] = d.move

\* Between a move and its diagram the last entry is late.
Tell(f, list, entries, moves, late) ==
    /\ Len(entries) = Len(moves)
    /\ \A i \in 1..Len(moves) :
          /\ entries[i].text = output_move_generic(f, moves[i])
          /\ has_out_board(f) /\ On(list, moves[i])
                => entries[i].shown \/ i \in late

Told(f, list, g, pg, late) ==
    has_out_move(f) =>
        /\ Tell(f, list, pg.line, BaseOf(f, g), late)
        /\ \A i \in 1..Len(pg.lines) : Tell(f, list, pg.lines[i], g.stack[i].line, {})

\* What the text of a move depends on.
SameStyle(f2, f) ==
    /\ f2.type = f.type /\ f2.only_board = f.only_board /\ f2.out_table = f.out_table
    /\ f2.print_piece = f.print_piece /\ f2.print_liaison = f.print_liaison
    /\ f2.roque_alg = f.roque_alg /\ f2.output_move_format = f.output_move_format

LEMMA SameText ==
    ASSUME NEW f, NEW f2, SameStyle(f2, f), NEW d
    PROVE  output_move_generic(f2, d) = output_move_generic(f, d)
  <1>1. ASSUME NEW x PROVE MoveText(f2, x) = MoveText(f, x)
    BY DEF SameStyle, MoveText, PieceText, Figure, Liaison
  <1>2. MoveText(f2, d) = MoveText(f, d)
        /\ MoveText(f2, roque_to_move(d)) = MoveText(f, roque_to_move(d))
    BY <1>1
  <1> QED
    BY <1>2 DEF output_move_generic, SameStyle

LEMMA ToldStyle ==
    ASSUME NEW f, NEW f2, NEW list, NEW g, NEW pg, NEW late, SameStyle(f2, f),
           Told(f, list, g, pg, late)
    PROVE  Told(f2, list, g, pg, late)
  <1>1. has_out_move(f2) = has_out_move(f) /\ BaseOf(f2, g) = BaseOf(f, g)
        /\ has_out_board(f2) = has_out_board(f)
    BY DEF SameStyle, has_out_move, has_out_board, BaseOf, Machine
  <1>2. ASSUME NEW es, NEW ms, NEW l, Tell(f, list, es, ms, l)
        PROVE  Tell(f2, list, es, ms, l)
    BY <1>1, <1>2, SameText DEF Tell
  <1> QED
    BY <1>1, <1>2 DEF Told

LEMMA InkTold ==
    ASSUME NEW f, NEW e, NEW list, NEW g, NEW pg \in Pages, NEW late, Told(f, list, g, pg, late)
    PROVE  Told(f, list, g, Ink(e, pg), late)
  <1>1. Ink(e, pg).line = pg.line /\ Ink(e, pg).lines = pg.lines
    BY DEF Ink, Pages
  <1> QED
    BY <1>1 DEF Told

LEMMA EndTold ==
    ASSUME NEW f, NEW e, NEW list, NEW g, NEW pg \in Pages, NEW late, Told(f, list, g, pg, late)
    PROVE  Told(f, list, g, output_end(e, pg), late)
  <1>1. output_end(e, pg).line = pg.line /\ output_end(e, pg).lines = pg.lines
    BY DEF output_end, Pages
  <1> QED
    BY <1>1 DEF Told

\* A diagram shows the last entry.
LEMMA ShowLast ==
    ASSUME NEW pg \in Pages
    PROVE  /\ ReadBoard(pg).lines = pg.lines /\ Len(ReadBoard(pg).line) = Len(pg.line)
           /\ \A i \in 1..Len(pg.line) :
                 /\ ReadBoard(pg).line[i].text = pg.line[i].text
                 /\ pg.line[i].shown \/ i = Len(pg.line) => ReadBoard(pg).line[i].shown
  <1> DEFINE line == IF pg.line = <<>> THEN pg.line
                     ELSE [pg.line EXCEPT ![Len(pg.line)].shown = TRUE]
  <1>1. pg.line \in Seq(Entries)
    BY DEF Pages
  <1>2. ReadBoard(pg).lines = pg.lines /\ ReadBoard(pg).line = line
    BY DEF ReadBoard, Pages
  <1>3. CASE pg.line = <<>>
    BY <1>2, <1>3
  <1>4. CASE pg.line # <<>>
    <2> DEFINE k == Len(pg.line)
               e == [pg.line[k] EXCEPT !.shown = TRUE]
    <2>1. k \in 1..Len(pg.line)
      BY <1>1, <1>4
    <2>2. pg.line[k] \in Entries
      BY <1>1, <2>1, ElementOfSeq
    <2>3. e \in Entries /\ e.text = pg.line[k].text /\ e.shown
      BY <2>2 DEF Entries
    <2>4. line = [pg.line EXCEPT ![k] = e]
      BY <1>4
    <2> HIDE DEF e, line, k
    <2>5. Len(line) = Len(pg.line) /\ \A i \in 1..Len(pg.line) : line[i] = IF i = k THEN e ELSE pg.line[i]
      BY <1>1, <2>1, <2>3, <2>4, ExceptSeq
    <2> QED
      BY <1>2, <2>3, <2>5 DEF k
  <1> QED
    BY <1>3, <1>4

\* So the entry is late no more.
LEMMA BoardTold ==
    ASSUME NEW f, NEW e, NEW list, NEW g, NEW pg \in Pages, NEW late, e.type = f.type,
           Told(f, list, g, pg, late), has_out_board(f) => late \subseteq {Len(BaseOf(f, g))}
    PROVE  Told(f, list, g, output_board(e, pg), {})
  <1>1. CASE ~has_out_board(f)
    BY <1>1 DEF Told, Tell, output_board, has_out_board
  <1>2. CASE has_out_board(f)
    <2> DEFINE ink == Ink(e, pg)
               pg2 == ReadBoard(ink)
    <2>1. ink \in Pages
      BY DEF Ink, Pages
    <2>2. Told(f, list, g, ink, late)
      BY InkTold
    <2> HIDE DEF ink
    <2>3. /\ pg2.lines = ink.lines /\ Len(pg2.line) = Len(ink.line)
          /\ \A i \in 1..Len(ink.line) :
                 /\ pg2.line[i].text = ink.line[i].text
                 /\ ink.line[i].shown \/ i = Len(ink.line) => pg2.line[i].shown
      BY <2>1, ShowLast
    <2>4. output_board(e, pg) = pg2
      BY <1>2 DEF output_board, has_out_board, ink
    <2> HIDE DEF pg2
    <2>5. ASSUME has_out_move(f)
          PROVE  Tell(f, list, pg2.line, BaseOf(f, g), {})
      BY <2>2, <2>3, <2>5 DEF Told, Tell
    <2> QED
      BY <2>2, <2>3, <2>4, <2>5 DEF Told
  <1> QED
    BY <1>1, <1>2

(***************************************************************************)
(* Lines that grow and shrink.                                              *)
(***************************************************************************)
LEMMA TellAppend ==
    ASSUME NEW f, NEW list, NEW es \in Seq(Entries), NEW ms \in Seq(Depls), NEW e \in Entries,
           NEW d \in Depls, NEW late, Tell(f, list, es, ms, {}),
           e.text = output_move_generic(f, d), On(list, d) => Len(ms) + 1 \in late
    PROVE  Tell(f, list, Append(es, e), Append(ms, d), late)
  <1> DEFINE k == Len(ms)
             es2 == Append(es, e)
             ms2 == Append(ms, d)
  <1>1. k \in Nat /\ Len(es) = k
    BY LenProperties DEF Tell
  <1>2. Len(es2) = k + 1 /\ es2[k + 1] = e /\ \A i \in 1..k : es2[i] = es[i]
    BY <1>1, AppendProperties
  <1>3. Len(ms2) = k + 1 /\ ms2[k + 1] = d /\ \A i \in 1..k : ms2[i] = ms[i]
    BY AppendProperties
  <1> HIDE DEF es2, ms2
  <1>4. ASSUME NEW i \in 1..Len(ms2)
        PROVE  /\ es2[i].text = output_move_generic(f, ms2[i])
               /\ has_out_board(f) /\ On(list, ms2[i])
                     => es2[i].shown \/ i \in late
    <2>1. CASE i = k + 1
      BY <1>2, <1>3, <2>1
    <2>2. CASE i \in 1..k
      BY <1>2, <1>3, <2>2 DEF Tell
    <2> QED
      BY <1>1, <1>3, <1>4, <2>1, <2>2
  <1>5. Tell(f, list, es2, ms2, late)
    BY <1>2, <1>3, <1>4 DEF Tell
  <1> QED
    BY <1>5 DEF es2, ms2

LEMMA TellBack ==
    ASSUME NEW f, NEW list, NEW es \in Seq(Entries), NEW ms \in Seq(Depls),
           Tell(f, list, es, ms, {})
    PROVE  Tell(f, list, Back(es), Back(ms), {})
  <1>1. Len(es) \in Nat /\ Len(ms) \in Nat /\ Len(es) = Len(ms)
    BY LenProperties DEF Tell
  <1>2. /\ ms = <<>> => Back(ms) = <<>>
        /\ ms # <<>> => Len(ms) \in Nat \ {0} /\ Len(Back(ms)) = Len(ms) - 1
        /\ \A i \in 1..Len(Back(ms)) : Back(ms)[i] = ms[i]
    BY BackLemma
  <1>3. /\ es = <<>> => Back(es) = <<>>
        /\ es # <<>> => Len(es) \in Nat \ {0} /\ Len(Back(es)) = Len(es) - 1
        /\ \A i \in 1..Len(Back(es)) : Back(es)[i] = es[i]
    BY BackLemma
  <1>4. CASE ms = <<>>
    <2>1. es = <<>>
      BY <1>1, <1>4
    <2> QED
      BY <1>2, <1>3, <1>4, <2>1 DEF Tell
  <1>5. CASE ms # <<>>
    <2>1. es # <<>>
      BY <1>1, <1>2, <1>5
    <2>2. Len(Back(es)) = Len(Back(ms)) /\ Len(Back(ms)) = Len(ms) - 1
      BY <1>1, <1>2, <1>3, <1>5, <2>1
    <2>3. ASSUME NEW i \in 1..Len(Back(ms))
          PROVE  i \in 1..Len(ms) /\ i \in 1..Len(Back(es))
      BY <1>1, <2>2
    <2> QED
      BY <1>2, <1>3, <2>2, <2>3 DEF Tell
  <1> QED
    BY <1>4, <1>5

LEMMA MoveTold ==
    ASSUME NEW f, NEW g, NEW g2, NEW pg, NEW d, NEW list, NEW late, Good(f, g, pg),
           Plays(g, g2, d), Told(f, list, g, pg, {}),
           On(list, d) => Len(g.line) + 1 \in late
    PROVE  Told(f, list, g2, output_move(f, pg, d), late)
  <1>1. f \in Formats /\ g \in Games /\ pg \in Pages /\ g.line \in Seq(Depls) /\ d \in Depls
        /\ g2 \in Games /\ pg.line \in Seq(Entries)
    BY DEF Good, Typed, Games, Plays, Pages
  <1>2. SUFFICES ASSUME has_out_move(f)
                 PROVE  Told(f, list, g2, output_move(f, pg, d), late)
    BY DEF Told
  <1>3. CASE ~prints_move(f)
    <2>1. output_move(f, pg, d) = pg
      BY <1>3 DEF output_move
    <2>2. Machine(f) /\ g.stack # <<>>
      BY <1>1, <1>2, <1>3 DEF prints_move, Suppressed, Machine, Good, Brackets, Formats, Games
    <2>3. BaseOf(f, g2) = BaseOf(f, g)
      BY <2>2 DEF BaseOf, Plays
    <2> QED
      BY <2>1, <2>3 DEF Told, Tell, Plays
  <1>4. CASE prints_move(f)
    <2> DEFINE text == output_move_generic(f, d)
               ink == Ink(f, pg)
    <2>1. ink \in Pages /\ ink.line = pg.line /\ ink.lines = pg.lines
      BY <1>1 DEF Ink, Pages
    <2>2. text \in Texts
      BY <1>1 DEF Texts
    <2>3. text = output_move_generic(f, d)
      OBVIOUS
    <2> HIDE DEF ink, text
    <2>4. PICK n \in Nat, row \in Nat :
              /\ flush_buffer(f, ink, d, text) \in Pages
              /\ flush_buffer(f, ink, d, text)
                    = [ink EXCEPT !.line = Append(@, Entry(n, d.whiteturn, text)), !.row = row]
              /\ Entry(n, d.whiteturn, text) \in Entries
              /\ d.whiteturn => /\ row = n
                                /\ n = IF f.type = "gnu" THEN Counted(ink) ELSE d.move
              /\ ~d.whiteturn => n = IF f.interrupt /\ ~Machine(f) THEN d.move ELSE ink.row
      <3>1. f \in Formats /\ ink \in Pages /\ d \in Depls /\ text \in Texts
        BY <1>1, <2>1, <2>2
      <3> QED
        BY <3>1, ReadMove
    <2> DEFINE p2 == flush_buffer(f, ink, d, text)
               e == Entry(n, d.whiteturn, text)
    <2>5. output_move(f, pg, d) = p2
      BY <1>4 DEF output_move, ink, text
    <2>6. p2.line = Append(pg.line, e) /\ p2.lines = pg.lines
      BY <2>1, <2>4 DEF Pages
    <2>7. e \in Entries /\ e.text = output_move_generic(f, d)
      BY <2>3, <2>4 DEF Entry
    <2>8. Machine(f) => g.stack = <<>>
      BY <1>1, <1>4 DEF prints_move, Suppressed, Machine, Good, Brackets, Formats, Games
    <2>9. BaseOf(f, g) = g.line /\ BaseOf(f, g2) = Append(g.line, d)
      BY <2>8 DEF BaseOf, Plays
    <2> HIDE DEF p2, e
    <2>10. Tell(f, list, pg.line, g.line, {})
      BY <1>2, <2>9 DEF Told
    <2>11. Tell(f, list, Append(pg.line, e), Append(g.line, d), late)
      BY <1>1, <2>7, <2>10, TellAppend
    <2>12. \A i \in 1..Len(p2.lines) : Tell(f, list, p2.lines[i], g2.stack[i].line, {})
      BY <1>2, <2>6 DEF Told, Plays
    <2> QED
      BY <2>5, <2>6, <2>9, <2>11, <2>12 DEF Told
  <1> QED
    BY <1>3, <1>4

LEMMA EnterTold ==
    ASSUME NEW f, NEW f2 \in Formats, NEW g, NEW g2 \in Games, NEW pg, NEW list,
           Good(f, g, pg), Told(f, list, g, pg, {}),
           f2.type = f.type, f2.only_board = f.only_board,
           g2.stack = Append(g.stack, [m |-> g.m, prev |-> g.prev, line |-> g.line]),
           g2.line = Back(g.line), NEW pg2, pg2 = output_variation_in(f2, pg)
    PROVE  Told(f, list, g2, pg2, {})
  <1> DEFINE top == [m |-> g.m, prev |-> g.prev, line |-> g.line]
             depth == Len(g.stack)
  <1>1. g \in Games /\ pg \in Pages /\ g.line \in Seq(Depls) /\ g.stack \in Seq(Saved)
        /\ pg.lines \in Seq(Seq(Entries)) /\ pg.line \in Seq(Entries)
    BY DEF Good, Typed, Games, Pages
  <1>2. top \in Saved /\ top.line = g.line
    BY <1>1 DEF Games, Saved
  <1>3. g2.stack = Append(g.stack, top)
    OBVIOUS
  <1>4. /\ depth \in Nat /\ Len(g2.stack) = depth + 1 /\ g2.stack # <<>>
        /\ g2.stack[depth + 1].line = g.line
        /\ \A i \in 1..depth : g2.stack[i] = g.stack[i]
    <2> HIDE DEF top
    <2>1. /\ Append(g.stack, top) # <<>> /\ Len(Append(g.stack, top)) = Len(g.stack) + 1
          /\ Append(g.stack, top)[Len(g.stack) + 1] = top
          /\ \A i \in 1..Len(g.stack) : Append(g.stack, top)[i] = g.stack[i]
      <3>1. g.stack \in Seq(Saved) /\ top \in Saved
        BY <1>1, <1>2
      <3> QED
        BY <3>1, AppendProperties
    <2> QED
      BY <1>1, <1>2, <1>3, <2>1, LenProperties
  <1> HIDE DEF top, depth
  <1>5. SUFFICES ASSUME has_out_move(f)
                 PROVE  Told(f, list, g2, pg2, {})
    BY DEF Told
  <1>6. CASE ~has_out_variation(f)
    <2>1. pg2 = pg /\ Machine(f) /\ Len(pg.lines) = 0
      BY <1>5, <1>6 DEF output_variation_in, has_out_variation, has_out_move, Machine, Good, Typed,
                        Brackets, Formats, DriverTypes
    <2>2. BaseOf(f, g2) = BaseOf(f, g)
      <3>1. CASE g.stack = <<>>
        BY <1>4, <2>1, <3>1 DEF BaseOf, depth
      <3>2. CASE g.stack # <<>>
        <4>1. 1 \in 1..depth
          BY <1>1, <3>2 DEF depth
        <4> QED
          BY <1>4, <2>1, <3>2, <4>1 DEF BaseOf
      <3> QED
        BY <3>1, <3>2
    <2> QED
      BY <2>1, <2>2 DEF Told
  <1>7. CASE has_out_variation(f)
    <2> DEFINE ink == Ink(f2, pg)
               symbol == symbol_of(f2)
    <2>1. pg2 = ReadIn(ink, symbol)
      BY <1>7 DEF output_variation_in, has_out_variation
    <2>2. ink \in Pages /\ ink.line = pg.line /\ ink.lines = pg.lines
      BY <1>1 DEF Ink, Pages
    <2> HIDE DEF ink, symbol
    <2>3. pg2.line = Back(pg.line) /\ pg2.lines = Append(pg.lines, pg.line)
      BY <2>1, <2>2 DEF ReadIn, Pages
    <2>4. Len(pg.lines) = depth /\ ~Machine(f)
      BY <1>7 DEF Good, Brackets, depth, has_out_variation, Machine
    <2>5. /\ Len(pg2.lines) = depth + 1 /\ pg2.lines[depth + 1] = pg.line
          /\ \A i \in 1..depth : pg2.lines[i] = pg.lines[i]
      BY <1>1, <2>3, <2>4, AppendProperties
    <2>6. BaseOf(f, g) = g.line /\ BaseOf(f, g2) = Back(g.line)
      BY <2>4 DEF BaseOf
    <2>7. Tell(f, list, pg.line, g.line, {})
      BY <1>5, <2>6 DEF Told
    <2>8. Tell(f, list, pg2.line, BaseOf(f, g2), {})
      BY <1>1, <2>3, <2>6, <2>7, TellBack
    <2>9. ASSUME NEW i \in 1..Len(pg2.lines)
          PROVE  Tell(f, list, pg2.lines[i], g2.stack[i].line, {})
      <3>1. CASE i = depth + 1
        BY <1>4, <2>5, <2>7, <3>1
      <3>2. CASE i \in 1..depth
        BY <1>4, <1>5, <2>4, <2>5, <3>2 DEF Told
      <3> QED
        BY <1>4, <2>5, <2>9, <3>1, <3>2
    <2> QED
      BY <2>8, <2>9 DEF Told
  <1> QED
    BY <1>6, <1>7

LEMMA ExitTold ==
    ASSUME NEW f, NEW g, NEW g2 \in Games, NEW pg, NEW list,
           Good(f, g, pg), Told(f, list, g, pg, {}), g.stack # <<>>,
           g2.stack = Back(g.stack), g2.line = g.stack[Len(g.stack)].line,
           NEW pg2, pg2 = output_variation_out(f, pg)
    PROVE  Told(f, list, g2, pg2, {})
  <1> DEFINE depth == Len(g.stack)
  <1>1. g \in Games /\ pg \in Pages /\ g.stack \in Seq(Saved) /\ pg.lines \in Seq(Seq(Entries))
    BY DEF Good, Typed, Games, Pages
  <1>2. depth \in Nat \ {0} /\ depth \in 1..depth
    BY <1>1
  <1>3. Len(g2.stack) = depth - 1 /\ \A i \in 1..depth - 1 : g2.stack[i] = g.stack[i]
    BY <1>1, BackLemma
  <1>4. g2.line = g.stack[depth].line
    OBVIOUS
  <1> HIDE DEF depth
  <1>5. SUFFICES ASSUME has_out_move(f)
                 PROVE  Told(f, list, g2, pg2, {})
    BY DEF Told
  <1>6. CASE ~has_out_variation(f)
    <2>1. pg2 = pg /\ Machine(f) /\ Len(pg.lines) = 0
      BY <1>5, <1>6 DEF output_variation_out, has_out_variation, has_out_move, Machine, Good, Typed,
                        Brackets, Formats, DriverTypes
    <2>2. BaseOf(f, g2) = BaseOf(f, g)
      <3>1. CASE depth = 1
        <4>1. g2.stack = <<>>
          BY <1>1, <1>3, <3>1 DEF Games
        <4> QED
          BY <1>4, <2>1, <3>1, <4>1 DEF BaseOf
      <3>2. CASE depth # 1
        <4>1. 1 \in 1..depth - 1
          BY <1>2, <3>2
        <4>2. g2.stack # <<>> /\ g2.stack[1] = g.stack[1]
          BY <1>2, <1>3, <3>2, <4>1
        <4> QED
          BY <2>1, <4>2 DEF BaseOf
      <3> QED
        BY <3>1, <3>2
    <2> QED
      BY <2>1, <2>2 DEF Told
  <1>7. CASE has_out_variation(f)
    <2>1. Len(pg.lines) = depth /\ pg.lines # <<>> /\ pg.brackets # <<>> /\ ~Machine(f)
      <3>1. Len(pg.lines) = depth /\ Len(pg.brackets) = depth /\ ~Machine(f)
        BY <1>7 DEF Good, Brackets, depth, has_out_variation, Machine
      <3> QED
        BY <1>2, <3>1
    <2> DEFINE ink == Ink(f, pg)
               symbol == symbol_of(f)
    <2>2. ink \in Pages /\ ink.lines = pg.lines /\ ink.brackets = pg.brackets
      BY <1>1 DEF Ink, Pages
    <2>3. pg2 = ReadOut(ink, symbol)
      BY <1>7 DEF output_variation_out
    <2> HIDE DEF ink, symbol
    <2>4. pg2.line = pg.lines[depth] /\ pg2.lines = Back(pg.lines)
      BY <2>1, <2>2, <2>3 DEF ReadOut, Pages
    <2>5. Len(Back(pg.lines)) = depth - 1 /\ \A i \in 1..depth - 1 : Back(pg.lines)[i] = pg.lines[i]
      <3>1. /\ pg.lines # <<>> => Len(Back(pg.lines)) = Len(pg.lines) - 1
            /\ \A i \in 1..Len(Back(pg.lines)) : Back(pg.lines)[i] = pg.lines[i]
        BY <1>1, BackLemma
      <3> QED
        BY <2>1, <3>1
    <2>6. BaseOf(f, g2) = g.stack[depth].line
      BY <1>4, <2>1 DEF BaseOf
    <2>7. \A i \in 1..depth : Tell(f, list, pg.lines[i], g.stack[i].line, {})
      BY <1>5, <2>1 DEF Told
    <2>8. Tell(f, list, pg2.line, BaseOf(f, g2), {})
      BY <1>2, <2>4, <2>6, <2>7
    <2>9. ASSUME NEW i \in 1..Len(pg2.lines)
          PROVE  Tell(f, list, pg2.lines[i], g2.stack[i].line, {})
      <3>1. i \in 1..depth - 1 /\ i \in 1..depth
        BY <1>2, <2>4, <2>5
      <3> QED
        BY <1>3, <2>4, <2>5, <2>7, <3>1
    <2> QED
      BY <2>8, <2>9 DEF Told
  <1> QED
    BY <1>6, <1>7

(***************************************************************************)
(* The steps.                                                               *)
(***************************************************************************)
\* The style is settled when the reading starts, and so is the language.
Style ==
    /\ dr.print_liaison = dr.print_piece /\ (dr.roque_alg <=> ~dr.print_piece)
    /\ \/ dr.out_table = opt.out_language
       \/ status # "reading" /\ game.line = <<>> /\ game.stack = <<>>

\* No move of the line, nor of those put away, is on the list.
Unlisted(list, g) ==
    /\ \A i \in 1..Len(g.line) : ~On(list, g.line[i])
    /\ \A j \in 1..Len(g.stack) :
          \A i \in 1..Len(g.stack[j].line) : ~On(list, g.stack[j].line[i])

Report ==
    /\ Style
    /\ Told(dr, opt.list, game, page, {})
    /\ status = "reading" /\ opt.stop => Unlisted(opt.list, game)

LEMMA NothingTold ==
    ASSUME NEW f, NEW list, NEW g, NEW pg, g.line = <<>>, g.stack = <<>>, pg.line = <<>>,
           pg.lines = <<>>
    PROVE  Told(f, list, g, pg, {}) /\ Unlisted(list, g)
  BY DEF Told, Tell, BaseOf, Unlisted

LEMMA KeptStyle ==
    ASSUME NEW f \in Formats, NEW n \in Nat
    PROVE  \A f2 \in {f, shown(f), moved(f), shown(moved(f)),
                      [f EXCEPT !.interrupt = TRUE, !.variation = n]} : SameStyle(f2, f)
  <1>1. moved(f) \in Formats /\ SameStyle(moved(f), f)
    BY DEF moved, Formats, SameStyle
  <1>2. ASSUME NEW e \in Formats PROVE SameStyle(shown(e), e)
    BY DEF shown, Formats, SameStyle
  <1>3. SameStyle(shown(moved(f)), f)
    BY <1>1, <1>2 DEF SameStyle
  <1>4. SameStyle([f EXCEPT !.interrupt = TRUE, !.variation = n], f) /\ SameStyle(f, f)
    BY DEF Formats, SameStyle
  <1> QED
    BY <1>1, <1>2, <1>3, <1>4

\* A step that keeps the style, the list and the language of the output.
LEMMA StyleStep ==
    ASSUME Style, status = "reading", SameStyle(dr', dr), opt'.out_language = opt.out_language
    PROVE  Style'
  BY DEF Style, SameStyle

LEMMA ReportOption ==
    ASSUME NEW a \in Arguments, Inv, Report, parse_options(a)
    PROVE  Report'
  <1>1. /\ status = "options" /\ page = BlankPage /\ game.line = <<>> /\ game.stack = <<>>
        /\ dr \in Formats /\ game \in Games
    BY DEF Inv, Fresh, Good, Typed, parse_options
  <1>2. page' = page /\ game'.line = <<>> /\ game'.stack = <<>>
    BY <1>1 DEF parse_options, LanguageOption, DriverOption, OutfileOption, FormatOption, EndOption,
                ListOption, ListOverrun, MissingArgument, InfoOption, InfileArgument, UnknownOption,
                Stays, Ends, Games
  <1>3. status' # "reading"
    BY <1>1 DEF parse_options, LanguageOption, DriverOption, OutfileOption, FormatOption, EndOption,
                ListOption, ListOverrun, MissingArgument, InfoOption, InfileArgument, UnknownOption,
                Stays, Ends, Closes
  <1>4. /\ dr'.print_liaison = dr.print_liaison /\ dr'.print_piece = dr.print_piece
        /\ dr'.roque_alg = dr.roque_alg
    BY <1>1 DEF parse_options, LanguageOption, DriverOption, OutfileOption, FormatOption, EndOption,
                ListOption, ListOverrun, MissingArgument, InfoOption, InfileArgument, UnknownOption,
                Ends, Formats
  <1>5. Told(dr', opt'.list, game', page', {})
    BY <1>1, <1>2, NothingTold DEF BlankPage
  <1> QED
    BY <1>2, <1>3, <1>4, <1>5 DEF Report, Style

LEMMA ReportStart ==
    ASSUME Inv, Report, Start
    PROVE  Report'
  <1>1. /\ page = BlankPage /\ game.line = <<>> /\ game.stack = <<>> /\ dr \in Formats
        /\ opt \in Options /\ game' = game /\ opt' = opt
    BY DEF Inv, Fresh, Good, Typed, Start
  <1>2. page'.line = <<>> /\ page'.lines = <<>>
    BY <1>1 DEF Start, output_init, Ink, BlankPage
  <1>3. /\ dr'.print_liaison = dr'.print_piece /\ (dr'.roque_alg <=> ~dr'.print_piece)
        /\ dr'.out_table = opt.out_language
    <2> DEFINE language == [dr EXCEPT !.out_table = opt.out_language]
               driver == opt.driver
    <2>1. /\ language \in Formats /\ language.print_piece = dr.print_piece
          /\ language.print_liaison = dr.print_liaison /\ language.roque_alg = dr.roque_alg
          /\ language.out_table = opt.out_language
      BY <1>1 DEF Formats, Options
    <2>2. dr' = init_driver(language, driver)
      BY DEF Start
    <2>3. language.print_liaison = language.print_piece
          /\ (language.roque_alg <=> ~language.print_piece)
      BY <2>1 DEF Report, Style
    <2> HIDE DEF language, driver
    <2> QED
      BY <2>1, <2>2, <2>3 DEF init_driver, Styled, Formats
  <1>4. Told(dr', opt'.list, game', page', {}) /\ Unlisted(opt'.list, game')
    BY <1>1, <1>2, NothingTold
  <1> QED
    BY <1>1, <1>3, <1>4 DEF Report, Style

LEMMA ReportMove ==
    ASSUME NEW d \in Depls, NEW legal \in BOOLEAN, Inv, Report, status = "reading", opt' = opt,
           execute_move(d, legal), d.move = NextTurn.move, d.whiteturn = NextTurn.whiteturn
    PROVE  Report'
  <1> DEFINE error == game.error \/ ~legal
             printed == output_move(dr, page, d)
             list == opt.list
             late == IF On(list, d) THEN {Len(game.line) + 1} ELSE {}
  <1>1. Good(dr, game, page) /\ dr \in Formats /\ game \in Games /\ game.line \in Seq(Depls)
        /\ Told(dr, list, game, page, {})
    BY DEF Inv, Good, Typed, Games, Report
  <1>2. Plays(game, game', d)
    <2>1. game' = [After(d) EXCEPT !.error = error] /\ error \in BOOLEAN
      BY DEF execute_move
    <2> QED
      BY <1>1, <2>1, PlaysAfter
  <1>3. Told(dr, list, game', printed, late)
    <2>1. On(list, d) => Len(game.line) + 1 \in late
      OBVIOUS
    <2> HIDE DEF late, printed, list
    <2>2. Told(dr, list, game', output_move(dr, page, d), late)
      BY <1>1, <1>2, <2>1, MoveTold
    <2> QED
      BY <2>2 DEF printed
  <1>4. printed \in Pages
    <2>1. Good(moved(dr), game', printed)
      BY <1>1, <1>2, MoveGood
    <2> QED
      BY <2>1 DEF Good, Typed
  <1>5. game'.line = Append(game.line, d) /\ game'.stack = game.stack
        /\ Len(game'.line) = Len(game.line) + 1
    BY <1>1, <1>2, AppendProperties DEF Plays
  <1>6. has_out_board(dr) => late \subseteq {Len(BaseOf(dr, game'))}
    BY <1>5 DEF has_out_board, BaseOf, Machine
  <1>7. SameStyle(dr', dr) /\ SameStyle(shown(moved(dr)), dr) /\ SameStyle(moved(dr), dr)
    BY <1>1, KeptStyle DEF execute_move
  <1> HIDE DEF printed, late
  <1>8. Told(dr, list, game', output_board(dr, printed), {})
    BY <1>3, <1>4, <1>6, BoardTold
  <1>9. Told(dr, list, game', page', {})
    <2>1. CASE error
      <3>1. Ink(dr, printed) \in Pages /\ Told(dr, list, game', Ink(dr, printed), late)
        BY <1>3, <1>4, InkTold DEF Ink, Pages
      <3>2. Told(dr, list, game', output_board(dr, Ink(dr, printed)), {})
        BY <1>6, <3>1, BoardTold
      <3>3. page' = output_board(dr, Ink(dr, printed))
        BY <2>1 DEF execute_move, printed
      <3> QED
        BY <3>2, <3>3
    <2>2. CASE ~error /\ ~Listed(d)
      <3>1. late = {} /\ page' = printed
        BY <2>2 DEF late, execute_move, printed, Listed, On
      <3> QED
        BY <1>3, <3>1
    <2>3. CASE ~error /\ Listed(d)
      <3>1. output_board(dr, printed) \in Pages
        <4>1. Ink(dr, printed) \in Pages
          BY <1>4 DEF Ink, Pages
        <4>2. ReadBoard(Ink(dr, printed)) \in Pages
          BY <4>1, BoardSame DEF SameReading
        <4> QED
          BY <1>4, <4>2 DEF output_board
      <3>2. Told(dr, list, game', output_end(dr, output_board(dr, printed)), {})
        BY <1>8, <3>1, EndTold
      <3>3. page' \in {output_board(dr, printed), output_end(dr, output_board(dr, printed))}
        BY <2>3 DEF execute_move, printed
      <3> QED
        BY <1>8, <3>2, <3>3
    <2> QED
      BY <2>1, <2>2, <2>3
  <1>10. Told(dr', opt'.list, game', page', {})
    BY <1>7, <1>9, ToldStyle
  <1>11. status' = "reading" /\ opt'.stop => Unlisted(opt'.list, game')
    <2>1. SUFFICES ASSUME status' = "reading", opt.stop
                   PROVE  Unlisted(list, game')
      OBVIOUS
    <2>2. ~On(list, d)
      BY <2>1 DEF execute_move, Closes, Listed, On
    <2>3. Unlisted(list, game)
      BY <2>1 DEF Report
    <2>4. /\ Append(game.line, d)[Len(game.line) + 1] = d
          /\ \A i \in 1..Len(game.line) : Append(game.line, d)[i] = game.line[i]
      BY <1>1, AppendProperties
    <2> HIDE DEF list
    <2>5. ASSUME NEW i \in 1..Len(game'.line) PROVE ~On(list, game'.line[i])
      <3>1. i \in 1..Len(game.line) \/ i = Len(game.line) + 1
        BY <1>1, <1>5, LenProperties
      <3> QED
        BY <1>5, <2>2, <2>3, <2>4, <3>1 DEF Unlisted
    <2> QED
      BY <1>5, <2>3, <2>5 DEF Unlisted
  <1>12. Style'
    BY <1>7, StyleStep DEF Report
  <1> QED
    BY <1>10, <1>11, <1>12 DEF Report

LEMMA ReportEnter ==
    ASSUME Inv, Report, enter_variation
    PROVE  Report'
  <1> DEFINE top == [m |-> game.m, prev |-> game.prev, line |-> game.line]
  <1>1. Good(dr, game, page) /\ dr \in Formats /\ game \in Games /\ game.line \in Seq(Depls)
        /\ game.stack \in Seq(Saved) /\ top \in Saved /\ top.line = game.line
    BY DEF Inv, Good, Typed, Games, Saved
  <1>2. /\ status = "reading" /\ status' # "options" /\ opt' = opt
        /\ page' = output_variation_in(dr', page) /\ Len(game.stack) + 1 \in Nat
    BY <1>1, LenProperties DEF enter_variation, Reads, Becomes
  <1>3. SameStyle(dr', dr)
    BY <1>1, <1>2, KeptStyle DEF enter_variation
  <1>4. Told(dr, opt.list, game', page', {})
    BY <1>1, <1>2, EnterGame, EnterTold DEF Report
  <1>5. Told(dr', opt'.list, game', page', {})
    BY <1>2, <1>3, <1>4, ToldStyle
  <1>6. Unlisted(opt.list, game) => Unlisted(opt.list, game')
    <2>1. SUFFICES ASSUME Unlisted(opt.list, game)
                   PROVE  Unlisted(opt.list, game')
      OBVIOUS
    <2>2. game'.line = Back(game.line) /\ game'.stack = Append(game.stack, top)
      BY EnterGame
    <2> HIDE DEF top
    <2>3. \A i \in 1..Len(Back(game.line)) : i \in 1..Len(game.line) /\ Back(game.line)[i] = game.line[i]
      <3>1. CASE game.line = <<>>
        BY <1>1, <3>1, BackLemma
      <3>2. CASE game.line # <<>>
        BY <1>1, <3>2, BackLemma
      <3> QED
        BY <3>1, <3>2
    <2>4. /\ Len(Append(game.stack, top)) = Len(game.stack) + 1
          /\ Append(game.stack, top)[Len(game.stack) + 1] = top
          /\ \A i \in 1..Len(game.stack) : Append(game.stack, top)[i] = game.stack[i]
      <3>1. game.stack \in Seq(Saved) /\ top \in Saved
        BY <1>1
      <3> QED
        BY <3>1, AppendProperties
    <2>5. ASSUME NEW j \in 1..Len(game'.stack)
          PROVE  \A i \in 1..Len(game'.stack[j].line) : ~On(opt.list, game'.stack[j].line[i])
      <3>1. CASE j = Len(game.stack) + 1
        BY <1>1, <2>1, <2>2, <2>4, <3>1 DEF Unlisted
      <3>2. CASE j \in 1..Len(game.stack)
        BY <2>1, <2>2, <2>4, <3>2 DEF Unlisted
      <3> QED
        BY <1>1, <2>2, <2>4, <2>5, <3>1, <3>2, LenProperties
    <2> QED
      BY <2>1, <2>2, <2>3, <2>5 DEF Unlisted
  <1>7. Style'
    BY <1>2, <1>3, StyleStep DEF Report
  <1> QED
    BY <1>2, <1>5, <1>6, <1>7 DEF Report

LEMMA ReportExit ==
    ASSUME Inv, Report, exit_variation
    PROVE  Report'
  <1>1. Good(dr, game, page) /\ dr \in Formats /\ game.stack \in Seq(Saved) /\ game.stack # <<>>
    BY ExitGame DEF Inv, Good, Typed
  <1>2. /\ status = "reading" /\ status' # "options" /\ opt' = opt
        /\ page' = output_variation_out(dr, page)
        /\ Len(game.stack) \in Nat \ {0} /\ Len(game.stack) - 1 \in Nat
    BY <1>1 DEF exit_variation, Reads, Becomes
  <1>3. SameStyle(dr', dr)
    BY <1>1, <1>2, KeptStyle DEF exit_variation
  <1>4. Told(dr, opt.list, game', page', {})
    BY <1>1, <1>2, ExitGame, ExitTold DEF Report
  <1>5. Told(dr', opt'.list, game', page', {})
    BY <1>2, <1>3, <1>4, ToldStyle
  <1>6. Unlisted(opt.list, game) => Unlisted(opt.list, game')
    <2>1. \A j \in 1..Len(Back(game.stack)) :
              j \in 1..Len(game.stack) /\ Back(game.stack)[j] = game.stack[j]
      BY <1>1, <1>2, BackLemma
    <2>2. Len(game.stack) \in 1..Len(game.stack)
      BY <1>2
    <2> QED
      BY <2>1, <2>2, ExitGame DEF Unlisted
  <1>7. Style'
    BY <1>2, <1>3, StyleStep DEF Report
  <1> QED
    BY <1>2, <1>5, <1>6, <1>7 DEF Report

\* The rest of the input changes neither the lines nor what is listed.
LEMMA ReportRest ==
    ASSUME Inv, Report, status = "reading", opt' = opt, game'.line = game.line,
           game'.stack = game.stack, dr' \in {dr, shown(dr)},
           page' \in {page, Ink(dr, page), output_board(dr, page),
                      output_end(dr, output_board(dr, page))}
    PROVE  Report'
  <1>1. dr \in Formats /\ page \in Pages /\ Good(dr, game, page)
    BY DEF Inv, Good, Typed
  <1>2. Told(dr, opt.list, game, page, {})
    BY DEF Report
  <1>3. Told(dr, opt.list, game, output_board(dr, page), {})
    BY <1>1, <1>2, BoardTold
  <1>4. output_board(dr, page) \in Pages
    BY <1>1, BoardGood DEF Good, Typed
  <1>5. Told(dr, opt.list, game, page', {})
    <2>1. Told(dr, opt.list, game, Ink(dr, page), {})
      BY <1>1, <1>2, InkTold
    <2>2. Told(dr, opt.list, game, output_end(dr, output_board(dr, page)), {})
      BY <1>3, <1>4, EndTold
    <2> QED
      BY <1>2, <1>3, <2>1, <2>2
  <1>6. BaseOf(dr, game') = BaseOf(dr, game)
    BY DEF BaseOf
  <1>7. Told(dr, opt.list, game', page', {})
    BY <1>5, <1>6 DEF Told
  <1>8. SameStyle(dr', dr)
    BY <1>1, KeptStyle
  <1>9. Told(dr', opt'.list, game', page', {})
    BY <1>7, <1>8, ToldStyle
  <1>10. Unlisted(opt.list, game') <=> Unlisted(opt.list, game)
    BY DEF Unlisted
  <1> QED
    BY <1>8, <1>9, <1>10, StyleStep DEF Report

LEMMA ReportLex ==
    ASSUME Inv, Report, yylex
    PROVE  Report'
  <1>1. game \in Games /\ dr \in Formats
    BY DEF Inv, Good, Typed
  <1>2. ASSUME NEW mv \in Moves, parse_move(mv) \/ parse_roque(mv)
        PROVE  Report'
    <2>1. {mv.letter, mv.promotion} \subseteq Known /\ status = "reading" /\ opt' = opt
      BY <1>2 DEF parse_move, parse_roque, Known, ReadsMove, Reads
    <2>2. PICK d \in {Asked(mv), Found(mv)}, legal \in BOOLEAN : execute_move(d, legal)
      BY <1>2 DEF parse_move, parse_roque
    <2> QED
      BY <1>1, <2>1, <2>2, AskedType, ReportMove
  <1>3. CASE enter_variation
    BY <1>3, ReportEnter
  <1>4. CASE exit_variation
    BY <1>4, ReportExit
  <1>5. CASE \/ \E mv \in Moves : reject_move(mv)
             \/ TooDeep \/ NoVariation \/ parse_text \/ Special \/ Showboard \/ Renumber
    <2>1. status = "reading" /\ opt' = opt
      BY <1>5 DEF reject_move, TooDeep, NoVariation, parse_text, Special, Showboard, Renumber,
                  ReadsMove, Reads
    <2>2. game'.line = game.line /\ game'.stack = game.stack
      BY <1>1, <1>5 DEF reject_move, Added, TooDeep, NoVariation, parse_text, Special, Showboard,
                        Renumber, Games
    <2>3. dr' \in {dr, shown(dr)} /\ page' \in {page, Ink(dr, page), output_board(dr, page)}
      BY <1>5 DEF reject_move, TooDeep, NoVariation, parse_text, output_text, Special, Showboard,
                  Renumber
    <2> QED
      BY <2>1, <2>2, <2>3, ReportRest
  <1> QED
    BY <1>2, <1>3, <1>4, <1>5 DEF yylex

THEOREM ReportHolds == Spec => []Report
  <1>1. Init => Report
    <2> SUFFICES ASSUME Init PROVE Report
      OBVIOUS
    <2>1. game.line = <<>> /\ game.stack = <<>> /\ page.line = <<>> /\ page.lines = <<>>
          /\ status = "options"
      BY DEF Init, BlankPage
    <2>2. dr.print_liaison = dr.print_piece /\ (dr.roque_alg <=> ~dr.print_piece)
      BY DEF Init, init_driver, new_driver, Styled
    <2> QED
      BY <2>1, <2>2, NothingTold DEF Report, Style
  <1>2. Inv /\ Report /\ [Next]_vars => Report'
    <2> SUFFICES ASSUME Inv, Report, [Next]_vars PROVE Report'
      OBVIOUS
    <2>1. ASSUME NEW a \in Arguments, parse_options(a) PROVE Report'
      BY <2>1, ReportOption
    <2>2. CASE Start
      BY <2>2, ReportStart
    <2>3. CASE yylex
      BY <2>3, ReportLex
    <2>4. CASE EndOfInput
      BY <2>4, ReportRest DEF EndOfInput, Reads
    <2>5. ASSUME NEW language \in InputLanguages, Langue(language) PROVE Report'
      <3>1. /\ UNCHANGED <<status, dr, game, page>> /\ opt \in Options
            /\ opt' = [opt EXCEPT !.in_language = find_keyword(Languages, @, language)]
        BY <2>5 DEF Langue, Inv, Fresh
      <3>2. opt'.list = opt.list /\ opt'.stop = opt.stop /\ opt'.out_language = opt.out_language
        BY <3>1 DEF Options
      <3> QED
        BY <3>1, <3>2 DEF Report, Style
    <2>6. CASE UNCHANGED vars
      BY <2>6 DEF vars, Report, Style
    <2> QED
      BY <2>1, <2>2, <2>3, <2>4, <2>5, <2>6 DEF Next
  <1> QED
    BY <1>1, <1>2, InvHolds, PTL DEF Spec

(***************************************************************************)
(* The theorems about the moves printed.                                    *)
(***************************************************************************)
LEMMA BaseMoves ==
    ASSUME Inv
    PROVE  Base = BaseOf(dr, game) /\ Base \in Seq(Depls)
  <1>1. Base = BaseOf(dr, game)
    BY DEF Base, BaseOf, Machine
  <1>2. game \in Games
    BY DEF Inv, Good, Typed
  <1>3. CASE Machine(dr) /\ game.stack # <<>>
    <2>1. game.stack \in Seq(Saved) /\ 1 \in 1..Len(game.stack)
      BY <1>2, <1>3 DEF Games
    <2>2. game.stack[1] \in Saved
      BY <2>1, ElementOfSeq
    <2> QED
      BY <1>1, <1>3, <2>2 DEF BaseOf, Saved
  <1>4. CASE ~(Machine(dr) /\ game.stack # <<>>)
    BY <1>1, <1>2, <1>4 DEF BaseOf, Games
  <1> QED
    BY <1>1, <1>3, <1>4

\* Each of Black's moves that the command line lists is followed by a diagram, in
\* a variation too, and after the one of -e the program reads no more.
THEOREM ListedShown == Spec => []Diagrams
  <1>1. Inv /\ Report => Diagrams
    <2> SUFFICES ASSUME Inv, Report, NEW i \in DOMAIN Base, On(opt.list, Base[i])
                 PROVE  /\ has_out_move(dr) /\ has_out_board(dr) => page.line[i].shown
                        /\ opt.stop => status # "reading"
      BY DEF Diagrams, On
    <2>1. Base = BaseOf(dr, game) /\ i \in 1..Len(Base)
      BY BaseMoves, LenProperties
    <2>2. has_out_move(dr) /\ has_out_board(dr) => page.line[i].shown
      BY <2>1 DEF Report, Told, Tell
    <2>3. opt.stop => status # "reading"
      <3>1. game.stack # <<>> => 1 \in 1..Len(game.stack)
        BY DEF Inv, Good, Typed, Games
      <3> QED
        BY <2>1, <3>1 DEF Report, Unlisted, BaseOf
    <2> QED
      BY <2>2, <2>3
  <1> QED
    BY <1>1, InvHolds, ReportHolds, PTL

\* A letter stands for one piece in every language, and no column is a letter.
LEMMA LettersDiffer ==
    ASSUME NEW language \in Languages
    PROVE  /\ \A p, q \in Pieces : c_language[language][p] = c_language[language][q] => p = q
           /\ \A p \in Pieces : /\ c_language[language][p] \notin {"", "@"}
                                /\ \A n \in 0..8 : c_language[language][p] # coltoletter[n]
  <1>1. language \in {"french", "english", "italian", "spanish", "german", "dutch", "czech",
                      "hungarian", "polish", "romanian", "FIDE"}
    BY DEF Languages, c_language
  <1>2. Pieces = {1, 2, 3, 4, 5, 6}
    BY DEF Pieces, KING, PAWN
  <1>3. \A n \in 0..8 : coltoletter[n] \in {"backquote", "a", "b", "c", "d", "e", "f", "g", "h"}
    BY DEF coltoletter
  <1>4. \A p, q \in Pieces : c_language[language][p] = c_language[language][q] => p = q
    BY <1>1, <1>2, SMTT(60) DEF c_language
  <1>5. \A p \in Pieces :
           c_language[language][p] \in {"A", "B", "C", "D", "F", "G", "H", "J", "K", "L", "N", "O",
                                        "P", "Q", "R", "S", "T", "V", "W"}
    BY <1>1, <1>2, SMTT(60) DEF c_language
  <1>6. \A p \in Pieces :
           c_language[language][p]
              \notin {"", "@", "backquote", "a", "b", "c", "d", "e", "f", "g", "h"}
    BY <1>5
  <1> QED
    BY <1>3, <1>4, <1>6

\* The text of a move says which it is.
LEMMA TextSays ==
    ASSUME NEW d \in Depls, dr \in Formats, dr.print_piece, Style,
           dr.out_table = opt.out_language
    PROVE  Says(output_move_generic(dr, d), d)
  <1> DEFINE text == output_move_generic(dr, d)
             language == IF dr.type = "tex" THEN "english" ELSE opt.out_language
  <1>1. dr.print_liaison /\ ~dr.roque_alg
    BY DEF Style
  <1>2. dr.out_table \in Languages /\ language \in Languages
    BY DEF Formats, Languages, c_language
  <1>3. \A p \in Pieces \ {PAWN} : Figure(dr, p) = c_language[language][p]
    <2>1. Pieces \ {PAWN} = {1, 2, 3, 4, 5}
      BY DEF Pieces, KING, PAWN
    <2>2. c_language["english"] = <<"K", "Q", "R", "B", "N", "P">>
      BY DEF c_language
    <2>3. \A p \in {1, 2, 3, 4, 5} : latex_table[p] = c_language["english"][p]
      <3>1. /\ latex_table[1] = "K" /\ latex_table[2] = "Q" /\ latex_table[3] = "R"
            /\ latex_table[4] = "B" /\ latex_table[5] = "N"
        BY DEF latex_table
      <3> QED
        BY <2>2, <3>1
    <2>4. ASSUME NEW p \in Pieces \ {PAWN}
          PROVE  Figure(dr, p) = c_language[language][p]
      <3>1. p \in {1, 2, 3, 4, 5} /\ p # VOID
        BY <2>1, <2>4 DEF VOID
      <3>2. latex_table[p] = c_language["english"][p]
        BY <2>3, <3>1
      <3>3. Figure(dr, p)
               = IF dr.type = "tex" THEN latex_table[p] ELSE c_language[dr.out_table][p]
        BY <3>1, Zenon DEF Figure
      <3> QED
        BY <3>2, <3>3
    <2> QED
      BY <2>4
  <1>4. \A p, q \in Pieces : c_language[language][p] = c_language[language][q] => p = q
    BY <1>2, LettersDiffer
  <1> HIDE DEF language
  <1>5. ASSUME NEW p \in Pieces \ {PAWN}
        PROVE  OneOf(Figure(dr, p), p)
    <2>1. OneOf(Figure(dr, p), p)
             <=> {q \in Pieces : c_language[language][q] = Figure(dr, p)} = {p}
      BY DEF OneOf, language
    <2> QED
      BY <1>3, <1>4, <2>1
  <1>6. CASE IsRoque(d)
    BY <1>1, <1>6 DEF Says, output_move_generic, IsRoque
  <1>7. CASE ~IsRoque(d)
    <2>1. text = MoveText(dr, d)
      BY <1>7 DEF output_move_generic
    <2> HIDE DEF text
    <2>2. text.fig = PieceText(dr, d) /\ text.lie = Liaison(dr, d)
          /\ text.to = <<d.tocol, d.tolig>>
          /\ text.prom = IF d.promotion = VOID THEN "" ELSE Figure(dr, d.promotion)
      BY <2>1 DEF MoveText
    <2>3. ASSUME d.piece \in {PAWN, VOID}
          PROVE  \A p \in Pieces : text.fig # c_language[opt.out_language][p]
      <3>1. text.fig \in {"", "@", coltoletter[d.fromcol]}
        BY <2>2, <2>3 DEF PieceText, Figure, VOID, PAWN
      <3>2. d.fromcol \in 0..8
        BY DEF Depls
      <3>3. \A p \in Pieces : text.fig # c_language[opt.out_language][p]
        <4>1. opt.out_language \in Languages
          BY <1>2
        <4>2. \A p \in Pieces : /\ c_language[opt.out_language][p] \notin {"", "@"}
                                /\ \A n \in 0..8 : c_language[opt.out_language][p] # coltoletter[n]
          BY <4>1, LettersDiffer
        <4> QED
          BY <3>1, <3>2, <4>2
      <3> QED
        BY <3>3
    <2>4. ASSUME d.piece \notin {PAWN, VOID}
          PROVE  OneOf(text.fig, d.piece)
      <3>1. text.fig = Figure(dr, d.piece)
        BY <2>2, <2>4 DEF PieceText
      <3>2. d.piece \in Pieces \ {PAWN}
        BY <2>4 DEF Depls
      <3>3. OneOf(Figure(dr, d.piece), d.piece)
        BY <1>5, <3>2
      <3> QED
        BY <2>4, <3>1, <3>3
    <2>5. text.lie = "x" <=> Captures(d)
      BY <1>1, <2>2 DEF Liaison, Captures
    <2>6. /\ d.promotion = VOID => text.prom = ""
          /\ d.promotion \notin {VOID, PAWN} => OneOf(text.prom, d.promotion)
      BY <1>5, <2>2 DEF Depls
    <2>7. CASE d.piece \in {PAWN, VOID}
      BY <1>7, <2>2, <2>3, <2>5, <2>6, <2>7 DEF Says, text
    <2>8. CASE d.piece \notin {PAWN, VOID}
      BY <1>7, <2>2, <2>4, <2>5, <2>6, <2>8 DEF Says, text
    <2> QED
      BY <2>7, <2>8
  <1> QED
    BY <1>6, <1>7

\* To someone who knows the output language every move printed says which piece
\* went where, whether it took, and what it became; an illegal one that starts
\* from an empty square is printed with the letter of no piece.
THEOREM MovesLegible == Spec => []Legible
  <1>1. Inv /\ Report => Legible
    <2> SUFFICES ASSUME Inv, Report, has_out_move(dr), dr.print_piece, NEW i \in DOMAIN Base
                 PROVE  Says(page.line[i].text, Base[i])
      BY DEF Legible
    <2>1. Base = BaseOf(dr, game) /\ Base \in Seq(Depls) /\ i \in 1..Len(Base)
      BY BaseMoves, LenProperties
    <2>2. Base[i] \in Depls
      BY <2>1, ElementOfSeq
    <2>3. page.line[i].text = output_move_generic(dr, Base[i])
      BY <2>1 DEF Report, Told, Tell
    <2>4. dr \in Formats
      BY DEF Inv, Good, Typed
    <2>5. dr.out_table = opt.out_language
      <3>1. game.line = <<>> /\ game.stack = <<>> => Base = <<>>
        BY <2>1 DEF BaseOf
      <3> QED
        BY <2>1, <3>1 DEF Report, Style
    <2> QED
      BY <2>2, <2>3, <2>4, <2>5, TextSays DEF Report
  <1> QED
    BY <1>1, InvHolds, ReportHolds, PTL
==============================================================================
