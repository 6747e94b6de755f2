--------------------------- MODULE Notation_proofs ---------------------------
(***************************************************************************)
(* What holds of hw2's reader for every input that is careful, however long *)
(* the game and whatever its variations: no node of the line it is in has   *)
(* been freed (LineAlive), the board is the one a reader of the game has    *)
(* (Backtracked), the first move of a variation has the side and the number *)
(* of the move it replaces (SameTurn), no move makes or loses a piece       *)
(* (Material), and the text printed for a move makes it again (ReadBack).   *)
(***************************************************************************)
EXTENDS Notation, NotationBoard_proofs, FiniteSetTheorems, WellFoundedInduction

\* The tokens are sequences of characters.
TokensAreText == Setup \in Seq(Seq(STRING)) /\ Tokens \subseteq Seq(STRING)

Role == Piece \cup {VOID}
Kinds == {VOID, "MOVE", "PRISE", "PROMOTION", "PROM_ET_PRISE", "EN_PASSANT",
          "PETITROQUE", "GRANDROQUE"}
Births == {"start", "open", "rejected", "placed", "played"}

\* A square without a piece has no colour, and the other way round.
Sound(g) == \A sq \in Squares : g[sq].piece = VOID <=> g[sq].color = VOID
Boards == {g \in Board : Sound(g)}

NodeRec == [next : Nat, prev : Nat, sub : Nat, move : Nat, whiteturn : BOOLEAN,
            type : Kinds, piece : Role, fromlig : 0..8, fromcol : 0..8, tolig : 0..8,
            tocol : 0..8, prise : Role, promotion : Role, how : Births, seen : Boards]
Saved == [d : Nat, b : Boards]
Game == [tos : Boards, node : Seq(NodeRec), m : Nat, stack : Seq(Saved), freed : SUBSET Nat,
         configuring : BOOLEAN, configside : Color \cup {VOID}, error : BOOLEAN,
         status : {"reading", "fault", "exit"}]

-----------------------------------------------------------------------------
(* Induction on numbers, and the functions defined by recursion on them. *)
LEMMA Least ==
    ASSUME NEW S \in SUBSET Nat, S # {}
    PROVE  \E m \in S : \A k \in S : m <= k
  <1> DEFINE R == {ss \in Nat \X Nat : ss[1] < ss[2]}
  <1>1. IsWellFoundedOn(R, Nat)
    BY NatLessThanWellFounded DEF OpToRel
  <1>2. \E x \in S : \A y \in S : ~(<<y, x>> \in R)
    <2> HIDE DEF R
    <2>1. S \subseteq Nat
      OBVIOUS
    <2> QED
      BY <1>1, <2>1, WFMin, Zenon
  <1>3. PICK x \in S : \A y \in S : ~(<<y, x>> \in R)
    BY <1>2
  <1>4. ASSUME NEW y \in S PROVE x <= y
    <2>1. <<y, x>> \in Nat \X Nat => ~(y < x)
      BY <1>3
    <2> QED
      BY <2>1
  <1> QED
    BY <1>4

\* Parsing a token, character by character: there is such a function, and so
\* the one Automaton defines is one.
Starts(mv) ==
    [etat |-> 0, mv |-> mv, piece |-> VOID, col |-> 0, lig |-> 0, run |-> "none"]
CharAt(token, i) == IF i > Len(token) THEN "" ELSE token[i]
Parses(f, n, token, mv) ==
    f = [i \in 0..n |-> IF i = 0 THEN Starts(mv) ELSE Scan(f[i - 1], CharAt(token, i))]

LEMMA ParseExists ==
    ASSUME NEW token, NEW mv, NEW n \in Nat
    PROVE  \E f : Parses(f, n, token, mv)
  <1> DEFINE S == {k \in Nat : ~\E f : Parses(f, k, token, mv)}
  <1> SUFFICES S = {}
    OBVIOUS
  <1>1. SUFFICES ASSUME S # {} PROVE FALSE
    OBVIOUS
  <1>2. PICK k \in S : \A j \in S : k <= j
    <2>1. S \in SUBSET Nat
      OBVIOUS
    <2> HIDE DEF S
    <2> QED
      BY <1>1, <2>1, Least
  <1>3. CASE k = 0
    <2> DEFINE f == [i \in 0..0 |-> Starts(mv)]
    <2>1. f = [i \in 0..0 |-> IF i = 0 THEN Starts(mv) ELSE Scan(f[i - 1], CharAt(token, i))]
      OBVIOUS
    <2>2. Parses(f, 0, token, mv)
      BY <2>1 DEF Parses
    <2> QED
      BY <1>3, <2>2
  <1>4. CASE k # 0
    <2>1. k - 1 \in Nat /\ k - 1 \notin S
      BY <1>2, <1>4
    <2>2. PICK f : Parses(f, k - 1, token, mv)
      BY <2>1
    <2> DEFINE g == [i \in 0..k |-> IF i = k THEN Scan(f[k - 1], CharAt(token, k)) ELSE f[i]]
    <2>3. ASSUME NEW i \in 0..k
          PROVE  g[i] = IF i = 0 THEN Starts(mv) ELSE Scan(g[i - 1], CharAt(token, i))
      <3>1. CASE i = k
        BY <1>4, <3>1
      <3>2. CASE i # k
        <4>1. i \in 0..k - 1 /\ g[i] = f[i]
          BY <3>2
        <4>2. f[i] = IF i = 0 THEN Starts(mv) ELSE Scan(f[i - 1], CharAt(token, i))
          BY <2>2, <4>1 DEF Parses
        <4>3. i # 0 => i - 1 \in 0..k /\ i - 1 # k
          OBVIOUS
        <4> QED
          BY <4>1, <4>2, <4>3
      <3> QED
        BY <3>1, <3>2
    <2>4. g = [i \in 0..k |-> IF i = 0 THEN Starts(mv) ELSE Scan(g[i - 1], CharAt(token, i))]
      <3> HIDE DEF g
      <3>1. DOMAIN g = 0..k /\ g = [i \in 0..k |-> g[i]]
        BY DEF g
      <3> QED
        BY <2>3, <3>1
    <2>5. Parses(g, k, token, mv)
      BY <2>4 DEF Parses
    <2> QED
      BY <2>5
  <1> QED
    BY <1>3, <1>4

LEMMA AutomatonRuns ==
    ASSUME NEW token, Len(token) \in Nat, NEW mv
    PROVE  \E f : Parses(f, Len(token) + 1, token, mv)
                  /\ Automaton(token, mv) = f[Len(token) + 1]
  <1> DEFINE n == Len(token) + 1
             f == CHOOSE h : Parses(h, n, token, mv)
  <1>1. n \in Nat
    OBVIOUS
  <1>2. \E h : Parses(h, n, token, mv)
    BY <1>1, ParseExists
  <1>3. Parses(f, n, token, mv)
    BY <1>2
  <1>4. Automaton(token, mv) = f[n]
    BY DEF Automaton, Parses, Starts, CharAt
  <1> QED
    BY <1>3, <1>4

-----------------------------------------------------------------------------
(* The automaton changes what a move says of itself and nothing else. *)
\* What parsing, playing and configuring a move leave alone in its node.
Rooted(x, y) == /\ x.next = y.next /\ x.prev = y.prev /\ x.sub = y.sub
                /\ x.move = y.move /\ x.whiteturn = y.whiteturn

Parsing == [etat : -1..10, mv : NodeRec, piece : Role, col : 0..8, lig : 0..8,
            run : {"none", "to", "now"}]
Asks == Kinds \ {"EN_PASSANT"}
Revises(n, mv) == /\ n \in NodeRec /\ n.type \in Asks
                  /\ Rooted(n, mv) /\ n.how = mv.how /\ n.seen = mv.seen
Parsed(x, mv) == x \in Parsing /\ Revises(x.mv, mv)

LEMMA Letter ==
    ASSUME NEW c, typechar(c) = 2
    PROVE  lettertocol(c) \in 1..8
  <1>1. \E i \in 1..8 : Letters[i] = c
    BY DEF typechar, ToSet, Letters
  <1> QED
    BY <1>1 DEF lettertocol

LEMMA Digit ==
    ASSUME NEW c, typechar(c) = 3
    PROVE  lettertolig(c) \in 1..8
  <1>1. \E i \in 1..8 : Digits[i] = c
    BY DEF typechar, ToSet, Digits
  <1> QED
    BY <1>1 DEF lettertolig

LEMMA Typechar == \A c : typechar(c) \in 1..8 /\ (typechar(c) = 1 => c \in Piece)
  BY DEF typechar

\* An action that reads a piece, a column or a line meets only such characters.
LEMMA Tables ==
    ASSUME NEW e \in 1..10, NEW t \in 1..8
    PROVE  /\ transit[e][t] \in -1..10
           /\ action[e][t] \in {1, 15} => t = 1
           /\ action[e][t] \in {2, 13} => t = 2
           /\ action[e][t] = 3 => t = 3
  <1> DEFINE Row(k) == /\ transit[k][t] \in -1..10
                       /\ action[k][t] \in {1, 15} => t = 1
                       /\ action[k][t] \in {2, 13} => t = 2
                       /\ action[k][t] = 3 => t = 3
  <1>1. Row(1) /\ Row(2)
    BY DEF transit, action, FINAL
  <1>2. Row(3) /\ Row(4)
    BY DEF transit, action, FINAL
  <1>3. Row(5) /\ Row(6)
    BY DEF transit, action, FINAL
  <1>4. Row(7) /\ Row(8)
    BY DEF transit, action, FINAL
  <1>5. Row(9) /\ Row(10)
    BY DEF transit, action, FINAL
  <1> HIDE DEF Row
  <1>6. e \in {1, 2, 3, 4, 5, 6, 7, 8, 9, 10}
    OBVIOUS
  <1>7. Row(e)
    BY <1>1, <1>2, <1>3, <1>4, <1>5, <1>6
  <1> QED
    BY <1>7 DEF Row

LEMMA Revision ==
    ASSUME NEW mv, NEW n, Revises(n, mv)
    PROVE  /\ \A p \in Role : /\ Revises([n EXCEPT !.piece = p], mv)
                              /\ Revises([n EXCEPT !.prise = p], mv)
                              /\ Revises([n EXCEPT !.promotion = p], mv)
           /\ \A k \in Asks : Revises([n EXCEPT !.type = k], mv)
           /\ \A i, j \in 0..8 : /\ Revises([n EXCEPT !.fromcol = i, !.fromlig = j], mv)
                                 /\ Revises([n EXCEPT !.tocol = i, !.tolig = j], mv)
  <1>1. ASSUME NEW p \in Role PROVE Revises([n EXCEPT !.piece = p], mv)
    BY DEF Revises, Rooted, NodeRec, Asks
  <1>2. ASSUME NEW p \in Role PROVE Revises([n EXCEPT !.prise = p], mv)
    BY DEF Revises, Rooted, NodeRec, Asks
  <1>3. ASSUME NEW p \in Role PROVE Revises([n EXCEPT !.promotion = p], mv)
    BY DEF Revises, Rooted, NodeRec, Asks
  <1>4. ASSUME NEW k \in Asks PROVE Revises([n EXCEPT !.type = k], mv)
    BY DEF Revises, Rooted, NodeRec, Asks
  <1>5. ASSUME NEW i \in 0..8, NEW j \in 0..8
        PROVE  /\ Revises([n EXCEPT !.fromcol = i, !.fromlig = j], mv)
               /\ Revises([n EXCEPT !.tocol = i, !.tolig = j], mv)
    <2>1. Revises([n EXCEPT !.fromcol = i, !.fromlig = j], mv)
      BY DEF Revises, Rooted, NodeRec, Asks
    <2>2. Revises([n EXCEPT !.tocol = i, !.tolig = j], mv)
      BY DEF Revises, Rooted, NodeRec, Asks
    <2> QED
      BY <2>1, <2>2
  <1> QED
    BY <1>1, <1>2, <1>3, <1>4, <1>5

\* What execute(num, c, x) leaves of x but the state of the automaton.
LEMMA Executes ==
    ASSUME NEW mv, NEW x, Parsed(x, mv), NEW num, NEW c,
           num \in {1, 15} => c \in Piece,
           num \in {2, 13} => lettertocol(c) \in 1..8,
           num = 3 => lettertolig(c) \in 1..8
    PROVE  Parsed(execute(num, c, x), mv)
  <1> DEFINE came == [x.mv EXCEPT !.piece = x.piece, !.fromcol = x.col, !.fromlig = x.lig]
             goes == [x.mv EXCEPT !.tocol = x.col, !.tolig = x.lig]
  <1>1. /\ x \in Parsing /\ Revises(x.mv, mv) /\ x.piece \in Role /\ x.col \in 0..8 /\ x.lig \in 0..8
        /\ x.mv \in NodeRec
    BY DEF Parsed, Parsing, Revises
  <1>2. came = [[x.mv EXCEPT !.piece = x.piece] EXCEPT !.fromcol = x.col, !.fromlig = x.lig]
    OBVIOUS
  <1>3. Revises([x.mv EXCEPT !.piece = x.piece], mv)
    BY <1>1, Revision DEF Kinds
  <1>4. Revises(came, mv)
    BY <1>1, <1>2, <1>3, Revision DEF Kinds
  <1>5. Revises(goes, mv)
    BY <1>1, Revision DEF Kinds
  <1>6. /\ \A q \in Role : Parsed([x EXCEPT !.piece = q], mv)
        /\ \A i \in 0..8 : Parsed([x EXCEPT !.col = i], mv) /\ Parsed([x EXCEPT !.lig = i], mv)
        /\ Parsed([x EXCEPT !.run = "now"], mv)
    BY <1>1 DEF Parsed, Parsing
  <1>a. ASSUME NEW n, Revises(n, mv) PROVE Parsed([x EXCEPT !.mv = n], mv)
    BY <1>1, <1>a DEF Parsed, Parsing, Revises
  <1>b. ASSUME NEW n, Revises(n, mv) PROVE Parsed([x EXCEPT !.mv = n, !.run = "to"], mv)
    BY <1>1, <1>b DEF Parsed, Parsing, Revises
  <1>c. ASSUME NEW n, Revises(n, mv), NEW i \in 0..8 PROVE Parsed([x EXCEPT !.mv = n, !.col = i], mv)
    BY <1>1, <1>c DEF Parsed, Parsing, Revises
  <1>d. ASSUME NEW n, Revises(n, mv), NEW q \in Role PROVE Parsed([x EXCEPT !.mv = n, !.piece = q], mv)
    BY <1>1, <1>d DEF Parsed, Parsing, Revises
  <1>7. QUEEN \in Role /\ VOID \in Role /\ Piece \subseteq Role /\ {"MOVE", "PRISE", "PROMOTION", "PROM_ET_PRISE"} \subseteq Asks
        /\ 0 \in 0..8
    BY DEF Role, Piece, Kinds, Asks
  <1> HIDE DEF came, goes
  <1>8. CASE num = 1
    <2>1. execute(num, c, x) = [x EXCEPT !.piece = c]
      BY <1>8 DEF execute
    <2> QED
      BY <1>6, <1>7, <1>8, <2>1
  <1>9. CASE num = 2
    <2>1. execute(num, c, x) = [x EXCEPT !.col = lettertocol(c)]
      BY <1>9 DEF execute
    <2>2. lettertocol(c) \in 0..8
      BY <1>9
    <2> QED
      BY <1>6, <2>1, <2>2
  <1>10. CASE num = 3
    <2>1. execute(num, c, x) = [x EXCEPT !.lig = lettertolig(c)]
      BY <1>10 DEF execute
    <2>2. lettertolig(c) \in 0..8
      BY <1>10
    <2> QED
      BY <1>6, <2>1, <2>2
  <1>11. CASE num = 4
    <2>1. execute(num, c, x) = [x EXCEPT !.mv = came]
      BY <1>11 DEF execute, came
    <2> QED
      BY <1>4, <1>a, <2>1
  <1>12. CASE num = 5
    <2> DEFINE n == [[came EXCEPT !.type = "PRISE"] EXCEPT !.prise = x.piece]
    <2>1. execute(num, c, x) = [x EXCEPT !.mv = n]
      BY <1>12 DEF execute, came
    <2>2. Revises([came EXCEPT !.type = "PRISE"], mv)
      BY <1>1, <1>4, <1>7, Revision
    <2>3. Revises(n, mv)
      BY <1>1, <1>7, <2>2, Revision
    <2> QED
      BY <1>a, <2>1, <2>3
  <1>13. CASE num \in {6, 7}
    <2> DEFINE n == [goes EXCEPT !.piece = x.piece]
    <2>1. execute(num, c, x) = [x EXCEPT !.mv = n, !.run = "to"]
      BY <1>13 DEF execute, goes
    <2>2. Revises(n, mv)
      BY <1>1, <1>5, <1>7, Revision
    <2> QED
      BY <1>b, <2>1, <2>2
  <1>14. CASE num \in {8, 9}
    <2>1. execute(num, c, x) = [x EXCEPT !.mv = goes, !.run = "to"]
      BY <1>14 DEF execute, goes
    <2> QED
      BY <1>5, <1>b, <2>1
  <1>15. CASE num = 10
    <2> DEFINE n == [[x.mv EXCEPT !.piece = x.piece] EXCEPT !.type = "PRISE"]
    <2>1. execute(num, c, x) = [x EXCEPT !.mv = n]
      BY <1>15 DEF execute
    <2>2. Revises(n, mv)
      BY <1>1, <1>3, <1>7, Revision
    <2> QED
      BY <1>a, <2>1, <2>2
  <1>16. CASE num = 13
    <2> DEFINE n == [came EXCEPT !.type = "MOVE"]
    <2>1. execute(num, c, x) = [x EXCEPT !.mv = n, !.col = lettertocol(c)]
      BY <1>16 DEF execute, came
    <2>2. Revises(n, mv)
      BY <1>1, <1>4, <1>7, Revision
    <2>3. lettertocol(c) \in 0..8
      BY <1>16
    <2> HIDE DEF n
    <2> QED
      BY <1>c, <2>1, <2>2, <2>3
  <1>17. CASE num = 14
    <2> DEFINE k == IF goes.type = "PRISE" THEN "PROM_ET_PRISE" ELSE "PROMOTION"
               n == [[goes EXCEPT !.type = k] EXCEPT !.promotion = QUEEN]
    <2>1. execute(num, c, x) = [x EXCEPT !.mv = n, !.piece = QUEEN]
      BY <1>17 DEF execute, goes
    <2>2. k \in Asks
      BY <1>7
    <2> HIDE DEF k
    <2>3. Revises([goes EXCEPT !.type = k], mv)
      BY <1>1, <1>5, <1>7, <2>2, Revision
    <2>4. Revises(n, mv)
      BY <1>1, <1>7, <2>2, <2>3, Revision
    <2> HIDE DEF n
    <2> QED
      <3>1. Parsed([x EXCEPT !.mv = n, !.piece = QUEEN], mv)
        BY <1>7, <1>d, <2>4
      <3> QED
        BY <2>1, <3>1
  <1>18. CASE num = 15
    <2> DEFINE n == [x.mv EXCEPT !.promotion = c]
    <2>1. execute(num, c, x) = [x EXCEPT !.mv = n, !.piece = c]
      BY <1>18 DEF execute
    <2>2. c \in Role
      BY <1>7, <1>18
    <2>3. Revises(n, mv)
      BY <1>1, <1>7, <2>2, Revision
    <2> HIDE DEF n
    <2> QED
      BY <1>d, <2>1, <2>2, <2>3
  <1>19. CASE num = 17
    <2>1. execute(num, c, x) = [x EXCEPT !.run = "now"]
      BY <1>19 DEF execute
    <2> QED
      BY <1>6, <2>1
  <1>20. CASE num \notin {1, 2, 3, 4, 5, 6, 7, 8, 9, 10, 13, 14, 15, 17}
    <2>1. execute(num, c, x) = x
      BY <1>20 DEF execute
    <2> QED
      BY <2>1
  <1> QED
    BY <1>8, <1>9, <1>10, <1>11, <1>12, <1>13, <1>14, <1>15, <1>16, <1>17, <1>18, <1>19, <1>20

LEMMA Scans ==
    ASSUME NEW mv, NEW x, Parsed(x, mv), NEW c
    PROVE  Parsed(Scan(x, c), mv)
  <1>1. CASE x.etat \in {-1, FINAL}
    BY <1>1 DEF Scan
  <1>2. CASE x.etat \notin {-1, FINAL}
    <2> DEFINE e == x.etat + 1
               t == typechar(c)
               y == execute(action[e][t], c, x)
    <2>1. e \in 1..10 /\ t \in 1..8
      BY <1>2, Typechar DEF FINAL, Parsed, Parsing
    <2> HIDE DEF e
    <2>2. /\ action[e][t] \in {1, 15} => c \in Piece
          /\ action[e][t] \in {2, 13} => lettertocol(c) \in 1..8
          /\ action[e][t] = 3 => lettertolig(c) \in 1..8
          /\ transit[e][t] \in -1..10
      BY <2>1, Tables, Typechar, Letter, Digit
    <2>3. Parsed(y, mv)
      BY <2>2, Executes
    <2>4. Scan(x, c) = [y EXCEPT !.etat = transit[e][t]]
      BY <1>2 DEF Scan, e
    <2> HIDE DEF t, y
    <2> QED
      BY <2>2, <2>3, <2>4 DEF Parsed, Parsing
  <1> QED
    BY <1>1, <1>2

LEMMA AutomatonParses ==
    ASSUME NEW token \in Seq(STRING), NEW mv \in NodeRec, mv.type \in Asks
    PROVE  Parsed(Automaton(token, mv), mv)
  <1> DEFINE n == Len(token) + 1
  <1>1. n \in Nat /\ Len(token) \in Nat
    OBVIOUS
  <1>2. PICK f : Parses(f, n, token, mv) /\ Automaton(token, mv) = f[n]
    BY <1>1, AutomatonRuns
  <1> HIDE DEF n
  <1>3. Parsed(Starts(mv), mv)
    BY DEF Starts, Parsed, Parsing, Revises, Rooted, Role
  <1> DEFINE S == {i \in 0..n : ~Parsed(f[i], mv)}
  <1>4. ASSUME S # {} PROVE FALSE
    <2>1. PICK i \in S : \A j \in S : i <= j
      <3>1. S \in SUBSET Nat
        BY <1>1
      <3> HIDE DEF S
      <3> QED
        BY <1>4, <3>1, Least
    <2>2. i \in 0..n /\ ~Parsed(f[i], mv)
      OBVIOUS
    <2>3. f[i] = IF i = 0 THEN Starts(mv) ELSE Scan(f[i - 1], CharAt(token, i))
      BY <1>2, <2>2 DEF Parses
    <2>4. CASE i = 0
      BY <1>3, <2>2, <2>3, <2>4
    <2>5. CASE i # 0
      <3>1. i - 1 \in 0..n /\ i - 1 \notin S
        BY <1>1, <2>1, <2>2, <2>5
      <3>2. Parsed(f[i - 1], mv)
        BY <3>1
      <3> QED
        BY <2>2, <2>3, <2>5, <3>2, Scans
    <2> QED
      BY <2>4, <2>5
  <1>5. n \in 0..n
    BY <1>1
  <1> QED
    BY <1>2, <1>4, <1>5

-----------------------------------------------------------------------------
(* Boards stay sound, and a move made on one can be taken back. *)
LEMMA NodeIsMove ==
    ASSUME NEW mv \in NodeRec
    PROVE  IsMove(mv)
  BY DEF NodeRec, IsMove, From, To, Beside, Squares, SIZE

LEMMA Colors ==
    ASSUME NEW mv \in NodeRec
    PROVE  /\ CURCOLOR(mv) \in Color /\ OPPCOLOR(mv) \in Color /\ CURCOLOR(mv) # OPPCOLOR(mv)
           /\ VOID \notin Color /\ VOID \notin Piece /\ RoqueLine(mv) \in {1, 8}
           /\ \A c \in Color : c # CURCOLOR(mv) => c = OPPCOLOR(mv)
  BY DEF NodeRec, CURCOLOR, OPPCOLOR, Color, WHITE, BLACK, VOID, Piece, KING, QUEEN, ROOK,
         BISHOP, KNIGHT, PAWN, RoqueLine

LEMMA SquareFacts ==
    ASSUME NEW g \in Boards, NEW sq \in Squares
    PROVE  /\ g[sq].piece \in Role /\ g[sq].color \in Color \cup {VOID}
           /\ g[sq] = Cell(g[sq].piece, g[sq].color)
           /\ g[sq].piece = VOID <=> g[sq].color = VOID
           /\ g[sq].piece = VOID <=> g[sq] = Empty
  <1>1. g[sq] \in [piece : Role, color : Color \cup {VOID}]
    BY DEF Boards, Board, Role
  <1>2. g[sq].piece = VOID <=> g[sq].color = VOID
    BY DEF Boards, Sound
  <1>3. g[sq] = Cell(g[sq].piece, g[sq].color)
    BY <1>1 DEF Cell
  <1>4. Empty.piece = VOID
    BY DEF Empty, Cell
  <1> QED
    BY <1>1, <1>2, <1>3, <1>4 DEF Empty

LEMMA PutSound ==
    ASSUME NEW g \in Boards, NEW sq \in Squares
    PROVE  /\ \A p \in Piece, c \in Color : [g EXCEPT ![sq] = Cell(p, c)] \in Boards
           /\ [g EXCEPT ![sq] = Empty] \in Boards
  <1> DEFINE V == [piece : Piece \cup {VOID}, color : Color \cup {VOID}]
  <1>1. g \in [Squares -> V] /\ Sound(g)
    BY DEF Boards, Board
  <1>2. ASSUME NEW v \in V, v.piece = VOID <=> v.color = VOID
        PROVE  [g EXCEPT ![sq] = v] \in Boards
    <2>1. [g EXCEPT ![sq] = v] \in [Squares -> V]
      BY <1>1
    <2>2. Sound([g EXCEPT ![sq] = v])
      BY <1>1, <1>2 DEF Sound
    <2> QED
      BY <2>1, <2>2 DEF Boards, Board
  <1>3. ASSUME NEW p \in Piece, NEW c \in Color PROVE [g EXCEPT ![sq] = Cell(p, c)] \in Boards
    <2>1. Cell(p, c) \in V /\ Cell(p, c).piece # VOID /\ Cell(p, c).color # VOID
      BY DEF Cell, VOID, Piece, Color, WHITE, BLACK, KING, QUEEN, ROOK, BISHOP, KNIGHT, PAWN
    <2> HIDE DEF V
    <2> QED
      BY <1>2, <2>1
  <1>4. [g EXCEPT ![sq] = Empty] \in Boards
    <2>1. Empty \in V /\ Empty.piece = VOID /\ Empty.color = VOID
      BY DEF Empty, Cell
    <2> HIDE DEF V
    <2> QED
      BY <1>2, <2>1
  <1> QED
    BY <1>3, <1>4

LEMMA DoSound ==
    ASSUME NEW g \in Boards, NEW mv \in NodeRec, mv.piece \in Piece \/ IsRoque(mv)
    PROVE  do_move(g, mv) \in Boards
  <1> DEFINE mine == Cell(mv.piece, CURCOLOR(mv))
             l == RoqueLine(mv)
             r == RoqueCols(mv)
             K == Cell(KING, CURCOLOR(mv))
             R == Cell(ROOK, CURCOLOR(mv))
  <1>1. From(mv) \in Squares /\ To(mv) \in Squares /\ Beside(mv) \in Squares
    BY NodeIsMove DEF IsMove
  <1>2. CURCOLOR(mv) \in Color /\ KING \in Piece /\ ROOK \in Piece
    BY Colors DEF Piece
  <1>3. ASSUME NEW h \in Boards, ~IsRoque(mv) PROVE [h EXCEPT ![To(mv)] = mine] \in Boards
    BY <1>1, <1>2, <1>3, PutSound
  <1>4. CASE mv.type \in {"MOVE", "PRISE", "PROMOTION", "PROM_ET_PRISE"}
    <2>1. do_move(g, mv) = [[g EXCEPT ![To(mv)] = mine] EXCEPT ![From(mv)] = Empty]
      BY <1>4 DEF do_move
    <2>2. ~IsRoque(mv)
      BY <1>4 DEF IsRoque
    <2> HIDE DEF mine
    <2> QED
      BY <1>1, <1>3, <2>1, <2>2, PutSound
  <1>5. CASE IsRoque(mv)
    <2> DEFINE a == <<l, r.king>>
               b == <<l, r.rook>>
               c == <<l, r.corner>>
               d == <<l, 5>>
               g1 == [g EXCEPT ![a] = K]
               g2 == [g1 EXCEPT ![b] = R]
               g3 == [g2 EXCEPT ![c] = Empty]
    <2>1. do_move(g, mv) = [g3 EXCEPT ![d] = Empty]
      BY <1>5 DEF do_move, IsRoque
    <2>2. a \in Squares /\ b \in Squares /\ c \in Squares /\ d \in Squares
      BY <1>5, RoqueSquares
    <2> HIDE DEF a, b, c, d
    <2>3. g1 \in Boards
      BY <1>2, <2>2, PutSound
    <2> HIDE DEF g1
    <2>4. g2 \in Boards
      BY <1>2, <2>2, <2>3, PutSound
    <2> HIDE DEF g2
    <2>5. g3 \in Boards
      BY <2>2, <2>4, PutSound
    <2> HIDE DEF g3
    <2> QED
      BY <2>1, <2>2, <2>5, PutSound
  <1>6. CASE mv.type = "EN_PASSANT"
    <2> DEFINE g1 == [g EXCEPT ![To(mv)] = mine]
               g2 == [g1 EXCEPT ![Beside(mv)] = Empty]
    <2>1. do_move(g, mv) = [g2 EXCEPT ![From(mv)] = Empty]
      BY <1>6 DEF do_move, IsRoque
    <2>2. g1 \in Boards
      BY <1>3, <1>6 DEF IsRoque
    <2> HIDE DEF g1
    <2>3. g2 \in Boards
      BY <1>1, <2>2, PutSound
    <2> HIDE DEF g2
    <2> QED
      BY <1>1, <2>1, <2>3, PutSound
  <1>7. CASE mv.type \notin {"MOVE", "PRISE", "PROMOTION", "PROM_ET_PRISE", "EN_PASSANT"} /\ ~IsRoque(mv)
    BY <1>7 DEF do_move
  <1> QED
    BY <1>4, <1>5, <1>6, <1>7

\* What taking a move back and making it look at.
LEMMA UndoRooted ==
    ASSUME NEW g, NEW x \in NodeRec, NEW y \in NodeRec, x.type = y.type, x.piece = y.piece,
           x.fromlig = y.fromlig, x.fromcol = y.fromcol, x.tolig = y.tolig, x.tocol = y.tocol,
           x.prise = y.prise, x.whiteturn = y.whiteturn
    PROVE  undo_move(g, x) = undo_move(g, y)
  BY DEF undo_move, CURCOLOR, OPPCOLOR, RoqueLine, RoqueCols, IsRoque, From, To, Beside, NodeRec

-----------------------------------------------------------------------------
(* Where a move comes from, and whether it is accepted. *)
LEMMA FirstFound ==
    ASSUME NEW S \in SUBSET Nat, S # {}
    PROVE  Min(S) \in S
  BY Least DEF Min

LEMMA TableNumbers ==
    ASSUME NEW piece, NEW pawntable, DOMAIN pawntable \subseteq Nat
    PROVE  DOMAIN TableOf(piece, pawntable) \subseteq Nat
  <1>1. DOMAIN m_knight \subseteq Nat /\ DOMAIN m_king \subseteq Nat
    BY DEF m_knight, m_king
  <1>2. /\ m_bishop = [k \in 1..28 |-> m_bishop[k]]
        /\ m_rook = [k \in 1..28 |-> m_rook[k]]
    BY DEF m_bishop, m_rook, Rays
  <1>3. DOMAIN m_queen \subseteq Nat
    <2> DEFINE X == {m_bishop[k] : k \in 1..28} \cup {m_rook[k] : k \in 1..28}
    <2>1. \A k \in 1..28 : m_bishop[k] \in X /\ m_rook[k] \in X
      OBVIOUS
    <2> HIDE DEF X
    <2>2. m_bishop \in Seq(X) /\ m_rook \in Seq(X)
      BY <1>2, <2>1
    <2> QED
      BY <2>2 DEF m_queen
  <1>4. DOMAIN <<>> \subseteq Nat /\ DOMAIN m_bishop \subseteq Nat /\ DOMAIN m_rook \subseteq Nat
    BY <1>2
  <1> QED
    BY <1>1, <1>3, <1>4 DEF TableOf

LEMMA PawnTables ==
    ASSUME NEW mv
    PROVE  /\ DOMAIN PawnTable(mv) \subseteq Nat /\ DOMAIN PawnTakes(mv.whiteturn) \subseteq Nat
           /\ DOMAIN PawnMoves(mv.whiteturn) \subseteq Nat
  <1>1. DOMAIN PawnTakes(mv.whiteturn) = 1..2 /\ DOMAIN PawnMoves(mv.whiteturn) = 1..2
    BY DEF PawnTakes, PawnMoves
  <1>2. DOMAIN PawnAll(mv.whiteturn) \subseteq Nat
    <2>1. PawnTakes(mv.whiteturn) \in Seq(Seq(Int)) /\ PawnMoves(mv.whiteturn) \in Seq(Seq(Int))
      BY DEF PawnTakes, PawnMoves
    <2> QED
      BY <2>1 DEF PawnAll
  <1> QED
    BY <1>1, <1>2 DEF PawnTable

\* What the search finds lies on the chess board.
LEMMA FoundInBoard ==
    ASSUME NEW g, NEW mv, NEW table, NEW l1, NEW c1, NEW path
    PROVE  LET found == guess_depl(g, mv, table, l1, c1, path)
           IN  /\ DOMAIN found \subseteq DOMAIN table
               /\ \A i \in DOMAIN found : found[i][1] \in 1..8 /\ found[i][2] \in 1..8
  <1> DEFINE found == guess_depl(g, mv, table, l1, c1, path)
             Source(i) == <<mv.tolig - table[i][1], mv.tocol - table[i][2]>>
  <1>1. /\ DOMAIN found \subseteq DOMAIN table
        /\ \A i \in DOMAIN found : found[i] = Source(i) /\ in_board(Source(i)[1], Source(i)[2])
    BY DEF guess_depl
  <1> HIDE DEF Source
  <1>2. \A i \in DOMAIN found : in_board(found[i][1], found[i][2])
    BY <1>1
  <1> HIDE DEF found
  <1> QED
    BY <1>1, <1>2 DEF in_board, found

LEMMA GuessRevises ==
    ASSUME NEW g, NEW mv \in NodeRec, mv.type \in Asks
    PROVE  /\ Revises(Guess(g, mv).mv, mv)
           /\ Guess(g, mv).mv.type = mv.type /\ Guess(g, mv).mv.prise = mv.prise
           /\ Guess(g, mv).mv.piece = mv.piece
           /\ Guess(g, mv).mv.tolig = mv.tolig /\ Guess(g, mv).mv.tocol = mv.tocol
  <1> DEFINE Fine(n) == /\ Revises(n, mv) /\ n.type = mv.type /\ n.prise = mv.prise
                        /\ n.piece = mv.piece /\ n.tolig = mv.tolig /\ n.tocol = mv.tocol
  <1>1. Revises(mv, mv) /\ Fine(mv)
    BY DEF Revises, Rooted
  <1> DEFINE found == ByPiece(g, mv, PawnTable(mv), mv.fromlig, mv.fromcol)
             sq == IF DOMAIN found = {} THEN From(mv) ELSE found[Min(DOMAIN found)]
  <1>2. DOMAIN found \subseteq Nat /\ \A i \in DOMAIN found : found[i][1] \in 1..8 /\ found[i][2] \in 1..8
    <2>1. DOMAIN TableOf(mv.piece, PawnTable(mv)) \subseteq Nat
      BY PawnTables, TableNumbers
    <2> QED
      BY <2>1, FoundInBoard DEF ByPiece
  <1> HIDE DEF found
  <1>3. sq[1] \in 0..8 /\ sq[2] \in 0..8
    <2>1. CASE DOMAIN found = {}
      BY <2>1 DEF From, NodeRec
    <2>2. CASE DOMAIN found # {}
      <3>1. Min(DOMAIN found) \in DOMAIN found
        BY <1>2, <2>2, FirstFound
      <3>2. found[Min(DOMAIN found)][1] \in 0..8 /\ found[Min(DOMAIN found)][2] \in 0..8
        BY <1>2, <3>1
      <3> QED
        BY <2>2, <3>2
    <2> QED
      BY <2>1, <2>2
  <1> DEFINE n == [mv EXCEPT !.fromlig = sq[1], !.fromcol = sq[2]]
  <1>4. guess_move(g, mv).mv \in {mv, n}
    BY DEF guess_move, Origin, found
  <1> HIDE DEF sq
  <1>5. Fine(n)
    BY <1>3 DEF Revises, Rooted, NodeRec
  <1>6. Guess(g, mv).mv \in {mv, n}
    BY <1>4 DEF Guess
  <1> QED
    BY <1>1, <1>5, <1>6

LEMMA CheckFacts ==
    ASSUME NEW g, NEW mv, check_move(g, mv).ok, ~IsRoque(mv)
    PROVE  LET c == check_move(g, mv)
               victim == <<mv.fromlig, mv.tocol>>
           IN  /\ g[From(mv)] = Cell(mv.piece, CURCOLOR(mv))
               /\ g[To(mv)].piece # VOID => mv.type \in {"PRISE", "PROM_ET_PRISE"}
               /\ ~(g[To(mv)].color = g[From(mv)].color /\ mv.prise # VOID)
               /\ \/ c.mv = mv /\ c.board = g
                  \/ /\ c.mv = [mv EXCEPT !.type = "EN_PASSANT"]
                     /\ c.board = [g EXCEPT ![victim] = Empty]
                     /\ mv.fromcol # mv.tocol /\ g[To(mv)].piece = VOID /\ g[victim].piece = PAWN
  BY DEF check_move

LEMMA CheckRoque ==
    ASSUME NEW g, NEW mv, check_move(g, mv).ok, IsRoque(mv)
    PROVE  check_move(g, mv).mv = mv /\ check_move(g, mv).board = g /\ check_roque(g, mv)
  BY DEF check_move

LEMMA TakingFacts ==
    ASSUME NEW g \in Boards, NEW n \in NodeRec, n.type \in Asks
    PROVE  LET took == Taking(g, Found(g, n))
           IN  /\ Revises(took, n)
               /\ g[To(took)].piece # VOID => took.type = "PRISE" /\ took.prise = g[To(took)].piece
  <1> DEFINE f == Found(g, n)
             took == Taking(g, f)
  <1>1. Revises(f, n)
    <2>1. From(n) \in Squares
      BY NodeIsMove DEF IsMove
    <2>2. g[From(n)].piece \in Role
      BY <2>1, SquareFacts
    <2> DEFINE p == g[From(n)].piece
    <2>3. f = n \/ f = [n EXCEPT !.piece = p]
      BY DEF Found
    <2>4. p \in Role
      BY <2>2
    <2> HIDE DEF p, f
    <2>5. Revises(n, n)
      BY DEF Revises, Rooted
    <2>6. Revises([n EXCEPT !.piece = p], n)
      BY <2>4, <2>5, Revision
    <2> QED
      BY <2>3, <2>5, <2>6
  <1>2. f \in NodeRec
    BY <1>1 DEF Revises
  <1> HIDE DEF f
  <1>3. To(f) \in Squares
    BY <1>2, NodeIsMove DEF IsMove
  <1>4. CASE g[To(f)].piece = VOID
    <2>1. took = f
      BY <1>4 DEF Taking
    <2> QED
      BY <1>1, <1>4, <2>1 DEF f
  <1>5. CASE g[To(f)].piece # VOID
    <2> DEFINE p == g[To(f)].piece
               f1 == [f EXCEPT !.type = "PRISE"]
    <2>1. took = [f1 EXCEPT !.prise = p]
      BY <1>5 DEF Taking
    <2>2. p \in Role
      BY <1>3, SquareFacts
    <2> HIDE DEF p
    <2>3. Revises(f1, n) /\ f1.type = "PRISE" /\ To(f1) = To(f)
      BY <1>1, <1>2, Revision DEF Kinds, Asks, To, NodeRec
    <2>4. f1 \in NodeRec
      BY <2>3 DEF Revises
    <2> HIDE DEF f1
    <2>5. Revises([f1 EXCEPT !.prise = p], n)
      BY <2>2, <2>3, Revision
    <2>6. took.type = "PRISE" /\ To(took) = To(f) /\ took.prise = p
      BY <2>1, <2>3, <2>4 DEF To, NodeRec
    <2> QED
      BY <2>1, <2>5, <2>6 DEF p, f
  <1> QED
    BY <1>4, <1>5

-----------------------------------------------------------------------------
(* What an accepted move says of itself: enough to be printed and read again. *)
\* What the parser leaves of a move that is played: where it goes, and whether
\* it takes or promotes.
Told(n) ==
    /\ n.type \in {"MOVE", "PRISE", "PROMOTION", "PROM_ET_PRISE"} /\ n.tocol # 0
    /\ n.promotion # VOID <=> n.type \in {"PROMOTION", "PROM_ET_PRISE"}
    /\ n.prise # VOID => n.type \in {"PRISE", "PROM_ET_PRISE"}
Asking(n) == IF IsRoque(n) THEN From(n) = <<0, 0>> /\ To(n) = <<0, 0>> ELSE Told(n)

\* The piece of n that stands where n starts leads, or is led, to its target.
Reaches(g, n) == DOMAIN ByPiece(g, n, PawnTable(n), n.fromlig, n.fromcol) # {}

\* What check_move takes for a capture en passant.
Passes(g, n) == /\ n.piece = PAWN /\ n.fromcol # n.tocol /\ g[To(n)].piece = VOID
                /\ g[<<n.fromlig, n.tocol>>].piece = PAWN

\* Move n, accepted in position g, names what it takes and what it becomes.
Names(g, n) ==
    /\ n.type \in {"MOVE", "PRISE", "PROMOTION"}
    /\ n.type = "PRISE" <=> g[To(n)].piece # VOID
    /\ n.prise = g[To(n)].piece
    /\ n.type = "MOVE" => n.promotion = VOID
    /\ n.type = "PROMOTION" => n.promotion # VOID /\ n.piece = PAWN
Stands(g, n) ==
    /\ n.piece \in Piece /\ n.fromlig # 0 /\ n.fromcol # 0 /\ n.tocol # 0
    /\ g[From(n)] = Cell(n.piece, CURCOLOR(n)) /\ g[To(n)].color # CURCOLOR(n)
    /\ ~Passes(g, n) /\ Reaches(g, n)
Legible(g, n) ==
    IF IsRoque(n) THEN check_roque(g, n) /\ g[<<0, 0>>].piece = VOID
    ELSE Names(g, n) /\ Stands(g, n)

\* Moves that say the same, however they are linked.
Agree(x, y) ==
    /\ x.type = y.type /\ x.piece = y.piece /\ x.fromlig = y.fromlig /\ x.fromcol = y.fromcol
    /\ x.tolig = y.tolig /\ x.tocol = y.tocol /\ x.prise = y.prise
    /\ x.promotion = y.promotion /\ x.whiteturn = y.whiteturn

\* The search of guess_depl, and what of a move it looks at.
Search(g, p, k, l2, c2, table, l1, c1, path) ==
    LET Source(i) == <<l2 - table[i][1], c2 - table[i][2]>>
        Fits(sq) == /\ in_board(sq[1], sq[2])
                    /\ g[sq] = Cell(p, k)
                    /\ path => path_free(g, sq[1], sq[2], l2, c2)
                    /\ l1 \in {0, sq[1]}
                    /\ c1 \in {0, sq[2]}
    IN  [i \in {j \in DOMAIN table : Fits(Source(j))} |-> Source(i)]

LEMMA Searches ==
    ASSUME NEW g, NEW mv, NEW pawntable, NEW l1, NEW c1
    PROVE  ByPiece(g, mv, pawntable, l1, c1)
             = Search(g, mv.piece, CURCOLOR(mv), mv.tolig, mv.tocol, TableOf(mv.piece, pawntable),
                      l1, c1, mv.piece \notin {PAWN, KNIGHT})
  BY DEF ByPiece, guess_depl, Search

LEMMA AgreeReaches ==
    ASSUME NEW g, NEW x, NEW y, Agree(x, y)
    PROVE  Reaches(g, x) <=> Reaches(g, y)
  <1>1. PawnTable(x) = PawnTable(y) /\ CURCOLOR(x) = CURCOLOR(y)
    BY DEF Agree, PawnTable, CURCOLOR
  <1> QED
    BY <1>1, Searches DEF Agree, Reaches

LEMMA AgreeDoes ==
    ASSUME NEW g, NEW x, NEW y, Agree(x, y)
    PROVE  /\ do_move(g, x) = do_move(g, y)
           /\ From(x) = From(y) /\ To(x) = To(y) /\ CURCOLOR(x) = CURCOLOR(y)
           /\ IsRoque(x) <=> IsRoque(y)
           /\ Legible(g, x) => Legible(g, y)
  <1>1. /\ From(x) = From(y) /\ To(x) = To(y) /\ CURCOLOR(x) = CURCOLOR(y)
        /\ Beside(x) = Beside(y) /\ RoqueLine(x) = RoqueLine(y) /\ RoqueCols(x) = RoqueCols(y)
        /\ IsRoque(x) <=> IsRoque(y)
    BY DEF Agree, From, To, CURCOLOR, Beside, RoqueLine, RoqueCols, IsRoque
  <1>2. do_move(g, x) = do_move(g, y)
    BY <1>1 DEF Agree, do_move
  <1>3. check_roque(g, x) => check_roque(g, y)
    BY <1>1 DEF Agree, check_roque
  <1>4. Names(g, x) => Names(g, y)
    BY <1>1 DEF Agree, Names
  <1>5. Stands(g, x) => Stands(g, y)
    BY <1>1, AgreeReaches DEF Agree, Stands, Passes
  <1> QED
    BY <1>1, <1>2, <1>3, <1>4, <1>5 DEF Legible

LEMMA CheckStands ==
    ASSUME NEW g, NEW mv \in NodeRec, ~IsRoque(mv), check_move(g, mv).ok,
           check_move(g, mv).mv.type # "EN_PASSANT"
    PROVE  ~Passes(g, mv) /\ Reaches(g, mv)
  <1>1. [mv EXCEPT !.type = "EN_PASSANT"].type = "EN_PASSANT"
    BY DEF NodeRec
  <1> QED
    BY <1>1 DEF check_move, Passes, Reaches

\* A move that is legible is accepted as it is.
LEMMA LegibleChecks ==
    ASSUME NEW g, NEW mv, ~IsRoque(mv), mv.type \in {"MOVE", "PRISE", "PROMOTION"}, Legible(g, mv)
    PROVE  check_move(g, mv) = [ok |-> TRUE, mv |-> mv, board |-> g]
  <1>1. Names(g, mv) /\ Stands(g, mv)
    BY DEF Legible
  <1>2. g[From(mv)].color = CURCOLOR(mv)
    BY <1>1 DEF Stands, Cell
  <1>3. /\ g[From(mv)] = Cell(mv.piece, CURCOLOR(mv))
        /\ ~(g[To(mv)].piece # VOID /\ mv.type \notin {"PRISE", "PROM_ET_PRISE"})
        /\ g[To(mv)].color # g[From(mv)].color
    BY <1>1, <1>2 DEF Names, Stands
  <1>4. ~Passes(g, mv) /\ Reaches(g, mv)
    BY <1>1 DEF Stands
  <1> QED
    BY <1>3, <1>4 DEF check_move, Passes, Reaches

LEMMA GuessFinds ==
    ASSUME NEW g, NEW mv \in NodeRec
    PROVE  LET guess == Guess(g, mv)
           IN  /\ guess.mv.promotion = mv.promotion
               /\ IsRoque(mv) => guess.mv = mv
               /\ guess.ok /\ ~IsRoque(mv) => guess.mv.fromlig # 0 /\ guess.mv.fromcol # 0
  <1> DEFINE found == ByPiece(g, mv, PawnTable(mv), mv.fromlig, mv.fromcol)
             sq == IF DOMAIN found = {} THEN From(mv) ELSE found[Min(DOMAIN found)]
             n == [mv EXCEPT !.fromlig = sq[1], !.fromcol = sq[2]]
  <1>1. guess_move(g, mv) = IF IsRoque(mv) THEN [ok |-> TRUE, mv |-> mv]
                            ELSE IF sq[1] = 0 \/ sq[2] = 0 THEN [ok |-> FALSE, mv |-> mv]
                            ELSE [ok |-> TRUE, mv |-> n]
    BY DEF guess_move, Origin
  <1> HIDE DEF sq
  <1>2. n.promotion = mv.promotion /\ n.fromlig = sq[1] /\ n.fromcol = sq[2]
    BY DEF NodeRec
  <1> HIDE DEF n
  <1> QED
    BY <1>1, <1>2 DEF Guess

LEMMA TakingKeeps ==
    ASSUME NEW g, NEW n \in NodeRec
    PROVE  LET took == Taking(g, Found(g, n))
           IN  /\ From(took) = From(n) /\ To(took) = To(n) /\ took.promotion = n.promotion
               /\ took.tocol = n.tocol /\ took.fromlig = n.fromlig /\ took.fromcol = n.fromcol
               /\ IF g[To(n)].piece = VOID THEN took.type = n.type /\ took.prise = n.prise
                  ELSE took.type = "PRISE" /\ took.prise = g[To(n)].piece
  <1> DEFINE f == Found(g, n)
             p == g[From(n)].piece
  <1>1. /\ f.type = n.type /\ f.prise = n.prise /\ f.promotion = n.promotion
        /\ f.fromlig = n.fromlig /\ f.fromcol = n.fromcol /\ f.tolig = n.tolig /\ f.tocol = n.tocol
        /\ DOMAIN f = DOMAIN n
    <2>1. f = n \/ f = [n EXCEPT !.piece = p]
      BY DEF Found
    <2> HIDE DEF f, p
    <2> QED
      BY <2>1 DEF NodeRec
  <1> HIDE DEF f
  <1>2. From(f) = From(n) /\ To(f) = To(n)
    BY <1>1 DEF From, To
  <1>3. CASE g[To(n)].piece = VOID
    BY <1>1, <1>2, <1>3 DEF Taking, f
  <1>4. CASE g[To(n)].piece # VOID
    <2> DEFINE v == g[To(n)].piece
               took == [f EXCEPT !.type = "PRISE", !.prise = v]
    <2>1. Taking(g, f) = took
      BY <1>2, <1>4 DEF Taking
    <2> HIDE DEF v
    <2>2. DOMAIN f = {"next", "prev", "sub", "move", "whiteturn", "type", "piece", "fromlig",
                      "fromcol", "tolig", "tocol", "prise", "promotion", "how", "seen"}
      BY <1>1 DEF NodeRec
    <2>3. /\ took.type = "PRISE" /\ took.prise = v /\ took.promotion = f.promotion
          /\ took.fromlig = f.fromlig /\ took.fromcol = f.fromcol
          /\ took.tolig = f.tolig /\ took.tocol = f.tocol
      BY <2>2
    <2> HIDE DEF took
    <2> QED
      BY <1>1, <1>4, <2>1, <2>3 DEF From, To, f, v
  <1> QED
    BY <1>3, <1>4

\* What PlayMove makes of the move that check_move returns.
Final(mv) == IF IsRoque(mv) THEN [mv EXCEPT !.fromlig = RoqueLine(mv)] ELSE mv

\* A move that the parser asks for, accepted on a board.
LEMMA Spells ==
    ASSUME NEW g \in Boards, NEW n0 \in NodeRec, n0.type \in Asks, Asking(n0),
           NEW guess, guess = Guess(g, Asked(n0)), guess.ok,
           NEW took, took = Taking(g, Found(g, guess.mv)),
           NEW c, c = check_move(g, took), c.ok,
           NEW mv, mv = Final(c.mv)
    PROVE  /\ mv.promotion = n0.promotion /\ (IsRoque(mv) <=> IsRoque(n0))
           /\ SoundMove(g, mv) /\ mv.type # "EN_PASSANT" => Legible(g, mv) /\ c.board = g
  <1> DEFINE n1 == Asked(n0)
             n2 == guess.mv
  <1>1. /\ n1 \in NodeRec /\ n1.type = n0.type /\ n1.prise = n0.prise /\ n1.promotion = n0.promotion
        /\ From(n1) = From(n0) /\ To(n1) = To(n0) /\ n1.tocol = n0.tocol
        /\ (IsRoque(n1) <=> IsRoque(n0))
    <2> DEFINE p == IF n0.piece = VOID THEN PAWN ELSE n0.piece
    <2>1. n1 = [n0 EXCEPT !.piece = p]
      BY DEF Asked
    <2>2. p \in Role
      BY DEF Role, Piece, NodeRec
    <2> HIDE DEF n1, p
    <2> QED
      BY <2>1, <2>2 DEF NodeRec, From, To, IsRoque
  <1> HIDE DEF n1
  <1>2. /\ n2 \in NodeRec /\ n2.type = n0.type /\ n2.prise = n0.prise /\ n2.promotion = n0.promotion
        /\ To(n2) = To(n0) /\ n2.tocol = n0.tocol
        /\ (IsRoque(n2) <=> IsRoque(n0)) /\ (IsRoque(n0) => From(n2) = From(n0))
        /\ (~IsRoque(n0) => n2.fromlig # 0 /\ n2.fromcol # 0)
    <2>1. guess = Guess(g, n1)
      BY DEF n1
    <2>2. /\ Revises(n2, n1) /\ n2.type = n1.type /\ n2.prise = n1.prise
          /\ n2.tolig = n1.tolig /\ n2.tocol = n1.tocol
      BY <1>1, <2>1, GuessRevises
    <2>3. n2.promotion = n1.promotion /\ (IsRoque(n1) => n2 = n1)
          /\ (~IsRoque(n1) => n2.fromlig # 0 /\ n2.fromcol # 0)
      BY <1>1, <2>1, GuessFinds
    <2> QED
      BY <1>1, <2>2, <2>3 DEF Revises, To, IsRoque
  <1> HIDE DEF n2
  <1>3. /\ From(took) = From(n2) /\ To(took) = To(n0) /\ took.promotion = n0.promotion
        /\ took.tocol = n0.tocol /\ took.fromlig = n2.fromlig /\ took.fromcol = n2.fromcol
        /\ IF g[To(n0)].piece = VOID THEN took.type = n0.type /\ took.prise = n0.prise
           ELSE took.type = "PRISE" /\ took.prise = g[To(n0)].piece
    BY <1>2, TakingKeeps DEF n2
  <1>4. took \in NodeRec
    <2>1. n2.type \in Asks
      BY <1>2
    <2> QED
      BY <1>2, <2>1, TakingFacts DEF Revises, n2
  <1>5. CASE IsRoque(took)
    <2>1. c.mv = took /\ c.board = g /\ check_roque(g, took)
      BY <1>5, CheckRoque
    <2>2. g[To(n0)].piece = VOID /\ IsRoque(n0)
      BY <1>3, <1>5 DEF IsRoque
    <2>3. mv = [took EXCEPT !.fromlig = RoqueLine(took)]
      BY <1>5, <2>1 DEF Final
    <2>4. /\ mv.type = took.type /\ mv.whiteturn = took.whiteturn /\ mv.promotion = took.promotion
      BY <1>4, <2>3 DEF NodeRec
    <2>5. IsRoque(mv) /\ check_roque(g, mv)
      BY <1>5, <2>1, <2>4 DEF IsRoque, check_roque, RoqueLine
    <2>6. g[<<0, 0>>].piece = VOID
      BY <2>2 DEF Asking, Told
    <2> QED
      BY <1>3, <2>1, <2>2, <2>4, <2>5, <2>6 DEF Legible
  <1>6. CASE ~IsRoque(took)
    <2>1. /\ g[From(took)] = Cell(took.piece, CURCOLOR(took))
          /\ g[To(took)].piece # VOID => took.type \in {"PRISE", "PROM_ET_PRISE"}
          /\ ~(g[To(took)].color = g[From(took)].color /\ took.prise # VOID)
          /\ \/ c.mv = took /\ c.board = g
             \/ c.mv = [took EXCEPT !.type = "EN_PASSANT"]
      <3> DEFINE victim == <<took.fromlig, took.tocol>>
      <3>1. /\ g[From(took)] = Cell(took.piece, CURCOLOR(took))
            /\ g[To(took)].piece # VOID => took.type \in {"PRISE", "PROM_ET_PRISE"}
            /\ ~(g[To(took)].color = g[From(took)].color /\ took.prise # VOID)
            /\ \/ c.mv = took /\ c.board = g
               \/ /\ c.mv = [took EXCEPT !.type = "EN_PASSANT"]
                  /\ c.board = [g EXCEPT ![victim] = Empty]
                  /\ took.fromcol # took.tocol /\ g[To(took)].piece = VOID /\ g[victim].piece = PAWN
        BY <1>4, <1>6, CheckFacts DEF NodeRec
      <3> QED
        BY <3>1
    <2>2. ~IsRoque(n0)
      <3>1. SUFFICES ASSUME IsRoque(n0) PROVE FALSE
        OBVIOUS
      <3>2. From(took) = <<0, 0>> /\ To(took) = <<0, 0>>
        BY <1>2, <1>3, <3>1 DEF Asking, Told
      <3>3. g[To(n0)].piece # VOID
        BY <1>3, <1>6, <3>1 DEF IsRoque
      <3> QED
        BY <1>3, <2>1, <3>2, <3>3
    <2>3. [took EXCEPT !.type = "EN_PASSANT"].type = "EN_PASSANT"
          /\ [took EXCEPT !.type = "EN_PASSANT"].promotion = took.promotion
      BY <1>4 DEF NodeRec
    <2>4. mv = c.mv /\ ~IsRoque(mv) /\ mv.promotion = took.promotion
      BY <1>6, <2>1, <2>3 DEF Final, IsRoque
    <2>5. ASSUME SoundMove(g, mv), mv.type # "EN_PASSANT" PROVE Legible(g, mv) /\ c.board = g
      <3>1. mv = took /\ c.board = g
        BY <2>1, <2>3, <2>4, <2>5
      <3>2. ~Passes(g, took) /\ Reaches(g, took)
        BY <1>4, <1>6, <2>4, <2>5, CheckStands
      <3>3. From(took) \in Squares /\ To(took) \in Squares
        BY <1>4, NodeIsMove DEF IsMove
      <3>4. Names(g, took)
        <4>1. CASE g[To(took)].piece # VOID
          BY <1>3, <4>1 DEF Names
        <4>2. CASE g[To(took)].piece = VOID
          <5>1. took.type = n0.type /\ took.prise = n0.prise
            BY <1>3, <4>2
          <5>2. took.type \in {"MOVE", "PROMOTION"}
            <6>1. took.type \notin {"PRISE", "PROM_ET_PRISE"}
              BY <2>5, <3>1, <4>2 DEF SoundMove
            <6> QED
              BY <2>2, <5>1, <6>1 DEF Asking, Told
          <5>3. took.prise = VOID
            BY <2>2, <5>1, <5>2 DEF Asking, Told
          <5>4. took.promotion # VOID <=> took.type = "PROMOTION"
            BY <1>3, <2>2, <5>1, <5>2 DEF Asking, Told
          <5>5. took.type = "PROMOTION" => took.piece = PAWN
            BY <2>5, <3>1 DEF SoundMove
          <5> QED
            BY <4>2, <5>2, <5>3, <5>4, <5>5 DEF Names
        <4> QED
          BY <4>1, <4>2
      <3>5. Stands(g, took)
        <4>1. g[From(took)].piece = took.piece /\ g[From(took)].color = CURCOLOR(took)
          BY <2>1 DEF Cell
        <4>2. CURCOLOR(took) \in Color /\ VOID \notin Color
          BY <1>4, Colors
        <4>3. took.piece \in Piece
          BY <3>3, <4>1, <4>2, SquareFacts DEF Role
        <4>4. g[To(took)].color # CURCOLOR(took)
          <5>1. g[To(took)].color = CURCOLOR(took) => g[To(took)].piece # VOID
            BY <3>3, <4>2, SquareFacts
          <5> QED
            BY <2>1, <3>4, <4>1, <5>1 DEF Names
        <4>5. took.fromlig # 0 /\ took.fromcol # 0 /\ took.tocol # 0
          BY <1>2, <1>3, <2>2 DEF Asking, Told
        <4> QED
          BY <2>1, <3>2, <4>3, <4>4, <4>5 DEF Stands
      <3> QED
        BY <1>6, <3>1, <3>4, <3>5 DEF Legible
    <2> QED
      BY <1>3, <2>2, <2>4, <2>5
  <1> QED
    BY <1>5, <1>6

-----------------------------------------------------------------------------
(* What the parser asks for. *)
Blank(n) == /\ n.type = "MOVE" /\ n.piece = VOID /\ From(n) = <<0, 0>> /\ To(n) = <<0, 0>>
            /\ n.prise = VOID /\ n.promotion = VOID

\* What is known of the move in each state of the automaton.
Shaped(x) ==
    /\ x.etat \in {0, 1, 2, 3} => x.mv.type = "MOVE" /\ x.mv.prise = VOID
    /\ x.etat \in 0..7 => /\ x.mv.type \in {"MOVE", "PRISE"} /\ x.mv.promotion = VOID
                          /\ x.mv.prise # VOID => x.mv.type = "PRISE"
    /\ x.etat \in {2, 3, 6, 7} => x.col # 0
    /\ x.etat \in {8, 9} => Told(x.mv) /\ x.mv.promotion # VOID
    /\ x.etat \in 0..9 => x.run = "none"
    /\ x.run # "none" => Told(x.mv)
    /\ x.run = "now" => x.mv.promotion # VOID

\* The transitions of the automaton: the action, and the states it leads between.
Route(a, e, f) ==
    \/ a = -1 /\ f = -1
    \/ a = 1 /\ <<e, f>> \in {<<0, 1>>, <<4, 5>>}
    \/ a = 2 /\ <<e, f>> \in {<<0, 2>>, <<1, 2>>, <<4, 6>>, <<5, 6>>}
    \/ a = 3 /\ <<e, f>> \in {<<2, 3>>, <<6, 7>>}
    \/ a \in {4, 5} /\ e \in {2, 3} /\ f = 4
    \/ a \in {6, 7} /\ e \in {2, 3} /\ f = FINAL
    \/ a \in {8, 9} /\ e = 7 /\ f = FINAL
    \/ a = 10 /\ e = 1 /\ f = 4
    \/ a = 13 /\ e \in {2, 3} /\ f = 6
    \/ a = 14 /\ e \in {2, 3, 7} /\ f = 8
    \/ a = 15 /\ e = 8 /\ f = 9
    \/ a = 17 /\ e \in {8, 9} /\ f = FINAL

LEMMA Routes ==
    ASSUME NEW e \in 0..9, NEW t \in 1..8
    PROVE  Route(action[e + 1][t], e, transit[e + 1][t])
  <1>1. CASE e = 0
    BY <1>1 DEF Route, action, transit, FINAL
  <1>2. CASE e = 1
    BY <1>2 DEF Route, action, transit, FINAL
  <1>3. CASE e = 2
    BY <1>3 DEF Route, action, transit, FINAL
  <1>4. CASE e = 3
    BY <1>4 DEF Route, action, transit, FINAL
  <1>5. CASE e = 4
    BY <1>5 DEF Route, action, transit, FINAL
  <1>6. CASE e = 5
    BY <1>6 DEF Route, action, transit, FINAL
  <1>7. CASE e = 6
    BY <1>7 DEF Route, action, transit, FINAL
  <1>8. CASE e = 7
    BY <1>8 DEF Route, action, transit, FINAL
  <1>9. CASE e = 8
    BY <1>9 DEF Route, action, transit, FINAL
  <1>10. CASE e = 9
    BY <1>10 DEF Route, action, transit, FINAL
  <1> QED
    BY <1>1, <1>2, <1>3, <1>4, <1>5, <1>6, <1>7, <1>8, <1>9, <1>10

\* A step of the automaton, by what it does to the state.
LEMMA StepShaped ==
    ASSUME NEW x \in Parsing, Shaped(x), x.etat \in 0..9, NEW c, NEW a, NEW f, Route(a, x.etat, f),
           a = 15 => c \in Piece, a \in {2, 13} => lettertocol(c) # 0
    PROVE  Shaped([execute(a, c, x) EXCEPT !.etat = f])
  <1> DEFINE e == x.etat
             m == x.mv
             came == [m EXCEPT !.piece = x.piece, !.fromcol = x.col, !.fromlig = x.lig]
             goes == [m EXCEPT !.tocol = x.col, !.tolig = x.lig]
             z == execute(a, c, x)
             y == [z EXCEPT !.etat = f]
  <1>1. m \in NodeRec /\ x.run = "none"
    BY DEF Parsing, Shaped
  <1>2. /\ came.type = m.type /\ came.prise = m.prise /\ came.promotion = m.promotion
        /\ came.tocol = m.tocol /\ DOMAIN came = DOMAIN m
        /\ goes.type = m.type /\ goes.prise = m.prise /\ goes.promotion = m.promotion
        /\ goes.tocol = x.col /\ DOMAIN goes = DOMAIN m
    BY <1>1 DEF NodeRec
  <1>3. {"type", "piece", "prise", "promotion", "tocol"} \subseteq DOMAIN m
    BY <1>1 DEF NodeRec
  <1>4. DOMAIN x = {"etat", "mv", "piece", "col", "lig", "run"}
    BY DEF Parsing
  <1>5. VOID # QUEEN /\ VOID \notin Piece
    BY DEF VOID, QUEEN, Piece, KING, ROOK, BISHOP, KNIGHT, PAWN
  <1>m. z = execute(a, c, x) /\ came = [m EXCEPT !.piece = x.piece, !.fromcol = x.col, !.fromlig = x.lig]
        /\ goes = [m EXCEPT !.tocol = x.col, !.tolig = x.lig] /\ m = x.mv
    OBVIOUS
  <1> SUFFICES Shaped(y)
    OBVIOUS
  <1> HIDE DEF came, goes, z, m
  <1>a. ASSUME DOMAIN z = DOMAIN x
        PROVE  y.etat = f /\ y.mv = z.mv /\ y.col = z.col /\ y.run = z.run
    BY <1>4, <1>a
  <1>i. /\ e \in {0, 1, 2, 3} => m.type = "MOVE" /\ m.prise = VOID
        /\ e \in 0..7 => /\ m.type \in {"MOVE", "PRISE"} /\ m.promotion = VOID
                         /\ m.prise # VOID => m.type = "PRISE"
        /\ e \in {2, 3, 6, 7} => x.col # 0
        /\ e \in {8, 9} => Told(m) /\ m.promotion # VOID
    BY <1>m DEF Shaped
  <1> HIDE DEF y
  <1>6. CASE a = -1 /\ f = -1
    <2>1. z = x
      BY <1>6, <1>m DEF execute
    <2> QED
      BY <1>1, <1>6, <1>a, <1>i, <1>m, <2>1 DEF Shaped
  <1>7. CASE a = 1 /\ <<e, f>> \in {<<0, 1>>, <<4, 5>>}
    <2>1. z = [x EXCEPT !.piece = c]
      BY <1>7, <1>m DEF execute
    <2>2. DOMAIN z = DOMAIN x /\ z.mv = x.mv /\ z.col = x.col /\ z.run = x.run
      BY <1>4, <2>1
    <2> QED
      BY <1>1, <1>7, <1>a, <1>i, <1>m, <2>2 DEF Shaped
  <1>8. CASE a = 2 /\ <<e, f>> \in {<<0, 2>>, <<1, 2>>, <<4, 6>>, <<5, 6>>}
    <2>1. z = [x EXCEPT !.col = lettertocol(c)]
      BY <1>8, <1>m DEF execute
    <2>2. DOMAIN z = DOMAIN x /\ z.mv = x.mv /\ z.col = lettertocol(c) /\ z.run = x.run
      BY <1>4, <2>1
    <2> QED
      BY <1>1, <1>8, <1>a, <1>i, <1>m, <2>2 DEF Shaped
  <1>9. CASE a = 3 /\ <<e, f>> \in {<<2, 3>>, <<6, 7>>}
    <2>1. z = [x EXCEPT !.lig = lettertolig(c)]
      BY <1>9, <1>m DEF execute
    <2>2. DOMAIN z = DOMAIN x /\ z.mv = x.mv /\ z.col = x.col /\ z.run = x.run
      BY <1>4, <2>1
    <2> QED
      BY <1>1, <1>9, <1>a, <1>i, <1>m, <2>2 DEF Shaped
  <1>10. CASE a \in {4, 5} /\ e \in {2, 3} /\ f = 4
    <2> DEFINE n == IF a = 4 THEN came ELSE [came EXCEPT !.type = "PRISE", !.prise = x.piece]
    <2>1. z = [x EXCEPT !.mv = n]
      BY <1>10, <1>m DEF execute
    <2>2. n.promotion = came.promotion /\ (n = came \/ n.type = "PRISE")
      BY <1>2, <1>3
    <2> HIDE DEF n
    <2>3. DOMAIN z = DOMAIN x /\ z.mv = n /\ z.col = x.col /\ z.run = x.run
      BY <1>4, <2>1
    <2>4. n.type \in {"MOVE", "PRISE"} /\ n.promotion = VOID /\ (n.prise # VOID => n.type = "PRISE")
      BY <1>2, <1>10, <1>i, <2>2
    <2> QED
      BY <1>1, <1>10, <1>a, <2>3, <2>4 DEF Shaped
  <1>11. CASE a \in {6, 7} /\ e \in {2, 3} /\ f = FINAL
    <2> DEFINE n == [goes EXCEPT !.piece = x.piece]
    <2>1. z = [x EXCEPT !.mv = n, !.run = "to"]
      BY <1>11, <1>m DEF execute
    <2>2. n.type = m.type /\ n.prise = m.prise /\ n.promotion = m.promotion /\ n.tocol = x.col
      BY <1>2, <1>3
    <2> HIDE DEF n
    <2>3. DOMAIN z = DOMAIN x /\ z.mv = n /\ z.run = "to"
      BY <1>4, <2>1
    <2>4. Told(n)
      BY <1>11, <1>i, <2>2 DEF Told
    <2> QED
      BY <1>11, <1>a, <2>3, <2>4 DEF Shaped, FINAL
  <1>12. CASE a \in {8, 9} /\ e = 7 /\ f = FINAL
    <2>1. z = [x EXCEPT !.mv = goes, !.run = "to"]
      BY <1>12, <1>m DEF execute
    <2>2. DOMAIN z = DOMAIN x /\ z.mv = goes /\ z.run = "to"
      BY <1>4, <2>1
    <2>3. Told(goes)
      BY <1>2, <1>12, <1>i DEF Told
    <2> QED
      BY <1>12, <1>a, <2>2, <2>3 DEF Shaped, FINAL
  <1>13. CASE a = 10 /\ e = 1 /\ f = 4
    <2> DEFINE n == [m EXCEPT !.piece = x.piece, !.type = "PRISE"]
    <2>1. z = [x EXCEPT !.mv = n]
      BY <1>13, <1>m DEF execute
    <2>2. n.type = "PRISE" /\ n.promotion = m.promotion
      BY <1>3
    <2> HIDE DEF n
    <2>3. DOMAIN z = DOMAIN x /\ z.mv = n /\ z.run = x.run
      BY <1>4, <2>1
    <2> QED
      BY <1>1, <1>13, <1>a, <1>i, <2>2, <2>3 DEF Shaped
  <1>14. CASE a = 13 /\ e \in {2, 3} /\ f = 6
    <2> DEFINE n == [came EXCEPT !.type = "MOVE"]
    <2>1. z = [x EXCEPT !.mv = n, !.col = lettertocol(c)]
      BY <1>14, <1>m DEF execute
    <2>2. n.type = "MOVE" /\ n.promotion = m.promotion /\ n.prise = m.prise
      BY <1>2, <1>3
    <2> HIDE DEF n
    <2>3. DOMAIN z = DOMAIN x /\ z.mv = n /\ z.run = x.run /\ z.col = lettertocol(c)
      BY <1>4, <2>1
    <2> QED
      BY <1>1, <1>14, <1>a, <1>i, <2>2, <2>3 DEF Shaped
  <1>15. CASE a = 14 /\ e \in {2, 3, 7} /\ f = 8
    <2> DEFINE k == IF goes.type = "PRISE" THEN "PROM_ET_PRISE" ELSE "PROMOTION"
               n == [goes EXCEPT !.type = k, !.promotion = QUEEN]
    <2>1. z = [x EXCEPT !.mv = n, !.piece = QUEEN]
      BY <1>15, <1>m DEF execute
    <2>2. n.type = k /\ n.promotion = QUEEN /\ n.prise = m.prise /\ n.tocol = x.col
      BY <1>2, <1>3
    <2> HIDE DEF n
    <2>3. DOMAIN z = DOMAIN x /\ z.mv = n /\ z.run = x.run
      BY <1>4, <2>1
    <2>4. m.type \in {"MOVE", "PRISE"} /\ (m.prise # VOID => m.type = "PRISE") /\ x.col # 0
      BY <1>15, <1>i
    <2>5. Told(n) /\ n.promotion # VOID
      BY <1>2, <1>5, <2>2, <2>4 DEF Told
    <2> QED
      BY <1>1, <1>15, <1>a, <2>3, <2>5 DEF Shaped
  <1>16. CASE a = 15 /\ e = 8 /\ f = 9
    <2> DEFINE n == [m EXCEPT !.promotion = c]
    <2>1. z = [x EXCEPT !.mv = n, !.piece = c]
      BY <1>16, <1>m DEF execute
    <2>2. n.type = m.type /\ n.promotion = c /\ n.prise = m.prise /\ n.tocol = m.tocol
      BY <1>3
    <2> HIDE DEF n
    <2>3. DOMAIN z = DOMAIN x /\ z.mv = n /\ z.run = x.run
      BY <1>4, <2>1
    <2>4. Told(m) /\ m.promotion # VOID
      BY <1>16, <1>i
    <2>5. Told(n) /\ n.promotion # VOID
      BY <1>5, <1>16, <2>2, <2>4 DEF Told
    <2> QED
      BY <1>1, <1>16, <1>a, <2>3, <2>5 DEF Shaped
  <1>17. CASE a = 17 /\ e \in {8, 9} /\ f = FINAL
    <2>1. z = [x EXCEPT !.run = "now"]
      BY <1>17, <1>m DEF execute
    <2>2. DOMAIN z = DOMAIN x /\ z.mv = x.mv /\ z.run = "now"
      BY <1>4, <2>1
    <2> QED
      BY <1>17, <1>a, <1>i, <1>m, <2>2 DEF Shaped, FINAL
  <1> QED
    BY <1>6, <1>7, <1>8, <1>9, <1>10, <1>11, <1>12, <1>13, <1>14, <1>15, <1>16, <1>17, <1>m DEF Route

LEMMA ScanShaped ==
    ASSUME NEW x \in Parsing, Shaped(x), NEW c
    PROVE  Shaped(Scan(x, c))
  <1>1. CASE x.etat \in {-1, FINAL}
    BY <1>1 DEF Scan
  <1>2. CASE x.etat \notin {-1, FINAL}
    <2> DEFINE e == x.etat
               t == typechar(c)
    <2>1. e \in 0..9 /\ t \in 1..8
      BY <1>2, Typechar DEF FINAL, Parsing
    <2> HIDE DEF t
    <2>2. /\ action[e + 1][t] = 15 => c \in Piece
          /\ action[e + 1][t] \in {2, 13} => lettertocol(c) # 0
      <3> DEFINE d == e + 1
      <3>1. d \in 1..10
        BY <2>1
      <3> HIDE DEF d
      <3>2. /\ action[d][t] = 15 => c \in Piece
            /\ action[d][t] \in {2, 13} => lettertocol(c) \in 1..8
        BY <2>1, <3>1, Tables, Typechar, Letter DEF t
      <3> QED
        BY <3>2 DEF d
    <2>3. Route(action[e + 1][t], e, transit[e + 1][t])
      BY <2>1, Routes
    <2>4. Scan(x, c) = [execute(action[e + 1][t], c, x) EXCEPT !.etat = transit[e + 1][t]]
      BY <1>2 DEF Scan, t
    <2> DEFINE a == action[e + 1][t]
               f == transit[e + 1][t]
    <2>5. Route(a, x.etat, f) /\ (a = 15 => c \in Piece) /\ (a \in {2, 13} => lettertocol(c) # 0)
          /\ x.etat \in 0..9 /\ Scan(x, c) = [execute(a, c, x) EXCEPT !.etat = f]
      BY <2>1, <2>2, <2>3, <2>4
    <2> HIDE DEF a, f
    <2>6. Shaped([execute(a, c, x) EXCEPT !.etat = f])
      BY <2>5, StepShaped
    <2> QED
      BY <2>5, <2>6
  <1> QED
    BY <1>1, <1>2

LEMMA AutomatonAsks ==
    ASSUME NEW token \in Seq(STRING), NEW mv \in NodeRec, Blank(mv)
    PROVE  LET x == Automaton(token, mv)
           IN  /\ x.run # "none" => Told(x.mv)
               /\ x.run = "now" => x.mv.promotion # VOID
  <1> DEFINE n == Len(token) + 1
             Fine(x) == Parsed(x, mv) /\ Shaped(x)
  <1>1. n \in Nat /\ Len(token) \in Nat
    OBVIOUS
  <1>2. PICK f : Parses(f, n, token, mv) /\ Automaton(token, mv) = f[n]
    BY <1>1, AutomatonRuns
  <1> HIDE DEF n
  <1>3. Fine(Starts(mv))
    <2>1. mv.type \in Asks
      BY DEF Blank, Asks, Kinds
    <2>2. Parsed(Starts(mv), mv)
      BY <2>1 DEF Starts, Parsed, Parsing, Revises, Rooted, Role
    <2>3. Shaped(Starts(mv))
      BY DEF Starts, Shaped, Blank
    <2> QED
      BY <2>2, <2>3
  <1>4. ASSUME NEW x, NEW c, Fine(x) PROVE Fine(Scan(x, c))
    BY <1>4, Scans, ScanShaped DEF Parsed
  <1> HIDE DEF Fine
  <1> DEFINE S == {i \in 0..n : ~Fine(f[i])}
  <1>5. ASSUME S # {} PROVE FALSE
    <2>1. PICK i \in S : \A j \in S : i <= j
      <3>1. S \in SUBSET Nat
        BY <1>1
      <3> HIDE DEF S
      <3> QED
        BY <1>5, <3>1, Least
    <2>2. i \in 0..n /\ ~Fine(f[i])
      OBVIOUS
    <2>3. f[i] = IF i = 0 THEN Starts(mv) ELSE Scan(f[i - 1], CharAt(token, i))
      BY <1>2, <2>2 DEF Parses
    <2>4. CASE i = 0
      BY <1>3, <2>2, <2>3, <2>4
    <2>5. CASE i # 0
      <3>1. i - 1 \in 0..n /\ i - 1 \notin S
        BY <1>1, <2>1, <2>2, <2>5
      <3>2. Fine(f[i - 1])
        BY <3>1
      <3> QED
        BY <1>4, <2>2, <2>3, <2>5, <3>2
    <2> QED
      BY <2>4, <2>5
  <1>6. Fine(f[n])
    <2>1. n \in 0..n
      BY <1>1
    <2> QED
      BY <1>5, <2>1
  <1> QED
    BY <1>2, <1>6 DEF Fine, Shaped

-----------------------------------------------------------------------------
(* The pieces of a side, counted. *)
Men(g, c) == {sq \in Squares : g[sq].piece # VOID /\ g[sq].color = c}
\* One side keeps its pieces; the other loses one if the move captures.
Balance(g, board, mv) ==
    /\ Cardinality(Men(board, CURCOLOR(mv))) = Cardinality(Men(g, CURCOLOR(mv)))
    /\ Cardinality(Men(board, OPPCOLOR(mv)))
         = Cardinality(Men(g, OPPCOLOR(mv))) - (IF Captures(mv) THEN 1 ELSE 0)

LEMMA MenFinite ==
    ASSUME NEW g, NEW c
    PROVE  IsFiniteSet(Men(g, c)) /\ Cardinality(Men(g, c)) \in Nat
  <1>1. IsFiniteSet(0..SIZE - 1)
    <2>1. 0 \in Int /\ SIZE - 1 \in Int
      BY DEF SIZE
    <2> QED
      BY <2>1, FS_Interval
  <1>2. IsFiniteSet(Squares)
    BY <1>1, FS_Product DEF Squares
  <1>3. IsFiniteSet(Men(g, c))
    BY <1>2, FS_Subset DEF Men
  <1> QED
    BY <1>3, FS_CardinalityType

Counts(v, c) == IF v.color = c THEN 1 ELSE 0

LEMMA Recount ==
    ASSUME NEW g \in Boards, NEW sq \in Squares, NEW v, v.piece = VOID <=> v.color = VOID,
           NEW c \in Color
    PROVE  Cardinality(Men([g EXCEPT ![sq] = v], c))
             = Cardinality(Men(g, c)) - Counts(g[sq], c) + Counts(v, c)
  <1> DEFINE h == [g EXCEPT ![sq] = v]
             A == Men(g, c)
             B == Men(h, c)
  <1>1. DOMAIN g = Squares /\ VOID \notin Color
    BY DEF Boards, Board, Color, WHITE, BLACK, VOID
  <1>2. \A x \in Squares : (g[x].piece # VOID /\ g[x].color = c) <=> g[x].color = c
    BY <1>1, SquareFacts
  <1>3. (v.piece # VOID /\ v.color = c) <=> v.color = c
    BY <1>1
  <1>4. \A x \in Squares : x # sq => h[x] = g[x]
    BY <1>1
  <1>5. h[sq] = v
    BY <1>1
  <1>6. \A x : x \in A <=> x \in Squares /\ g[x].color = c
    BY <1>2 DEF Men
  <1> HIDE DEF h
  <1>7. \A x : x \in B <=> x \in Squares /\ (IF x = sq THEN v.color = c ELSE x \in A)
    <2>1. \A x \in Squares : x # sq => (h[x].piece # VOID /\ h[x].color = c <=> x \in A)
      BY <1>4 DEF Men
    <2>2. h[sq].piece # VOID /\ h[sq].color = c <=> v.color = c
      BY <1>3, <1>5
    <2> HIDE DEF A
    <2> QED
      BY <2>1, <2>2 DEF Men
  <1>8. IsFiniteSet(A) /\ Cardinality(A) \in Nat
    BY MenFinite
  <1>9. sq \in A <=> g[sq].color = c
    BY <1>6
  <1>s. A \subseteq Squares
    BY <1>6
  <1> HIDE DEF A, B
  <1>10. CASE g[sq].color = c /\ v.color = c
    <2>1. B = A
      BY <1>7, <1>9, <1>10, <1>s
    <2> QED
      BY <1>8, <1>10, <2>1 DEF A, B, h, Counts
  <1>11. CASE g[sq].color = c /\ v.color # c
    <2>1. B = A \ {sq}
      BY <1>7, <1>11, <1>s
    <2>2. Cardinality(B) = Cardinality(A) - 1
      BY <1>8, <1>9, <1>11, <2>1, FS_RemoveElement
    <2> QED
      BY <1>8, <1>11, <2>2 DEF A, B, h, Counts
  <1>12. CASE g[sq].color # c /\ v.color = c
    <2>1. B = A \cup {sq}
      BY <1>7, <1>12, <1>s
    <2>2. Cardinality(B) = Cardinality(A) + 1
      BY <1>8, <1>9, <1>12, <2>1, FS_AddElement
    <2> QED
      BY <1>8, <1>12, <2>2 DEF A, B, h, Counts
  <1>13. CASE g[sq].color # c /\ v.color # c
    <2>1. B = A
      BY <1>7, <1>9, <1>13, <1>s
    <2> QED
      BY <1>8, <1>13, <2>1 DEF A, B, h, Counts
  <1> QED
    BY <1>10, <1>11, <1>12, <1>13

LEMMA Put ==
    ASSUME NEW g \in Boards, NEW sq \in Squares, NEW p \in Piece, NEW k \in Color
    PROVE  LET h == [g EXCEPT ![sq] = Cell(p, k)]
           IN  /\ h \in Boards /\ h[sq] = Cell(p, k)
               /\ \A x \in Squares : x # sq => h[x] = g[x]
               /\ \A c \in Color : Cardinality(Men(h, c)) = Cardinality(Men(g, c))
                       - Counts(g[sq], c) + (IF c = k THEN 1 ELSE 0)
  <1> DEFINE v == Cell(p, k)
  <1>1. DOMAIN g = Squares
    BY DEF Boards, Board
  <1>2. v.piece # VOID /\ v.color # VOID /\ v.color = k
    BY DEF Cell, VOID, Piece, Color, WHITE, BLACK, KING, QUEEN, ROOK, BISHOP, KNIGHT, PAWN
  <1>3. [g EXCEPT ![sq] = v] \in Boards
    BY PutSound
  <1> HIDE DEF v
  <1>4. ASSUME NEW c \in Color
        PROVE  Cardinality(Men([g EXCEPT ![sq] = v], c)) = Cardinality(Men(g, c))
                       - Counts(g[sq], c) + (IF c = k THEN 1 ELSE 0)
    <2>1. Counts(v, c) = IF c = k THEN 1 ELSE 0
      BY <1>2 DEF Counts
    <2> QED
      BY <1>2, <2>1, Recount
  <1>5. [g EXCEPT ![sq] = v][sq] = v /\ \A x \in Squares : x # sq => [g EXCEPT ![sq] = v][x] = g[x]
    BY <1>1
  <1> QED
    BY <1>3, <1>4, <1>5 DEF v

LEMMA Clear ==
    ASSUME NEW g \in Boards, NEW sq \in Squares
    PROVE  LET h == [g EXCEPT ![sq] = Empty]
           IN  /\ h \in Boards /\ h[sq] = Empty
               /\ \A x \in Squares : x # sq => h[x] = g[x]
               /\ \A c \in Color : Cardinality(Men(h, c)) = Cardinality(Men(g, c)) - Counts(g[sq], c)
  <1>1. DOMAIN g = Squares
    BY DEF Boards, Board
  <1>2. Empty.piece = VOID /\ Empty.color = VOID /\ VOID \notin Color
    BY DEF Empty, Cell, VOID, Color, WHITE, BLACK
  <1>3. [g EXCEPT ![sq] = Empty] \in Boards
    BY PutSound
  <1>4. ASSUME NEW c \in Color
        PROVE  Cardinality(Men([g EXCEPT ![sq] = Empty], c)) = Cardinality(Men(g, c)) - Counts(g[sq], c)
    <2>1. Counts(Empty, c) = 0 /\ Counts(g[sq], c) \in Int
      BY <1>2 DEF Counts
    <2>2. Cardinality(Men(g, c)) \in Nat
      BY MenFinite
    <2> QED
      BY <1>2, <2>1, <2>2, Recount
  <1>5. [g EXCEPT ![sq] = Empty][sq] = Empty /\ \A x \in Squares : x # sq => [g EXCEPT ![sq] = Empty][x] = g[x]
    BY <1>1
  <1> QED
    BY <1>3, <1>4, <1>5

-----------------------------------------------------------------------------
(* What a move that is accepted does to the board. *)
LEMMA PlainCount ==
    ASSUME NEW g \in Boards, NEW mv \in NodeRec, mv.type \in {"MOVE", "PRISE", "PROMOTION", "PROM_ET_PRISE"},
           g[From(mv)] = Cell(mv.piece, CURCOLOR(mv)), From(mv) # To(mv),
           g[To(mv)].color # CURCOLOR(mv),
           Captures(mv) <=> g[To(mv)].piece # VOID
    PROVE  Balance(g, do_move(g, mv), mv)
  <1> DEFINE a == From(mv)
             b == To(mv)
             k == CURCOLOR(mv)
             o == OPPCOLOR(mv)
             h == [g EXCEPT ![b] = Cell(mv.piece, k)]
             u == [h EXCEPT ![a] = Empty]
  <1>1. do_move(g, mv) = u
    BY DEF do_move
  <1>2. a \in Squares /\ b \in Squares
    BY NodeIsMove DEF IsMove
  <1>3. k \in Color /\ o \in Color /\ k # o /\ VOID \notin Color /\ VOID \notin Piece
    BY Colors
  <1>4. g[a].color = k /\ g[a].piece = mv.piece /\ a # b
    BY DEF Cell
  <1>5. mv.piece \in Piece
    BY <1>2, <1>3, <1>4, SquareFacts DEF Role
  <1>6. g[b].color = VOID \/ g[b].color = o
    BY <1>2, <1>3, SquareFacts, Colors
  <1>7. g[b].piece = VOID <=> g[b].color = VOID
    BY <1>2, SquareFacts
  <1>c. g[b].piece # VOID <=> Captures(mv)
    OBVIOUS
  <1>n. Cardinality(Men(g, k)) \in Nat /\ Cardinality(Men(g, o)) \in Nat
    BY MenFinite
  <1>k. CURCOLOR(mv) = k /\ OPPCOLOR(mv) = o /\ g[b].color # k
    OBVIOUS
  <1> HIDE DEF a, b, k, o
  <1>8. /\ h \in Boards /\ h[a] = g[a]
        /\ Cardinality(Men(h, k)) = Cardinality(Men(g, k)) - Counts(g[b], k) + 1
        /\ Cardinality(Men(h, o)) = Cardinality(Men(g, o)) - Counts(g[b], o)
    <2>1. Counts(g[b], o) \in Int /\ Counts(g[b], k) \in Int
      BY DEF Counts
    <2> QED
      BY <1>2, <1>3, <1>4, <1>5, <1>n, <2>1, Put
  <1> HIDE DEF h
  <1>9. /\ Cardinality(Men(u, k)) = Cardinality(Men(h, k)) - Counts(h[a], k)
        /\ Cardinality(Men(u, o)) = Cardinality(Men(h, o)) - Counts(h[a], o)
    BY <1>2, <1>3, <1>8, Clear
  <1> HIDE DEF u
  <1>10. Counts(h[a], k) = 1 /\ Counts(h[a], o) = 0 /\ Counts(g[b], k) = 0
    BY <1>3, <1>4, <1>8, <1>k DEF Counts
  <1>11. Counts(g[b], o) = IF Captures(mv) THEN 1 ELSE 0
    BY <1>3, <1>6, <1>7, <1>c DEF Counts
  <1>12. Cardinality(Men(u, k)) = Cardinality(Men(g, k))
    BY <1>8, <1>9, <1>10, <1>n
  <1>13. Cardinality(Men(u, o)) = Cardinality(Men(g, o)) - (IF Captures(mv) THEN 1 ELSE 0)
    BY <1>8, <1>9, <1>10, <1>11, <1>n
  <1> QED
    BY <1>1, <1>12, <1>13, <1>k DEF Balance

LEMMA RoqueCount ==
    ASSUME NEW g \in Boards, NEW mv \in NodeRec, IsRoque(mv), Undoable(g, mv)
    PROVE  Balance(g, do_move(g, mv), mv)
  <1> DEFINE k == CURCOLOR(mv)
             o == OPPCOLOR(mv)
             l == RoqueLine(mv)
             r == RoqueCols(mv)
             a == <<l, r.king>>
             b == <<l, r.rook>>
             c == <<l, r.corner>>
             d == <<l, 5>>
             g1 == [g EXCEPT ![a] = Cell(KING, k)]
             g2 == [g1 EXCEPT ![b] = Cell(ROOK, k)]
             g3 == [g2 EXCEPT ![c] = Empty]
             u == [g3 EXCEPT ![d] = Empty]
  <1>1. do_move(g, mv) = u
    BY DEF do_move, IsRoque
  <1>2. /\ a \in Squares /\ b \in Squares /\ c \in Squares /\ d \in Squares
        /\ a # b /\ a # c /\ a # d /\ b # c /\ b # d /\ c # d
    BY RoqueSquares
  <1>3. k \in Color /\ o \in Color /\ k # o /\ VOID \notin Color /\ KING \in Piece /\ ROOK \in Piece
    BY Colors DEF Piece
  <1>4. g[a] = Empty /\ g[b] = Empty /\ g[c] = Cell(ROOK, k) /\ g[d] = Cell(KING, k)
    BY DEF Undoable
  <1>n. Cardinality(Men(g, k)) \in Nat /\ Cardinality(Men(g, o)) \in Nat
    BY MenFinite
  <1>k. CURCOLOR(mv) = k /\ OPPCOLOR(mv) = o /\ ~Captures(mv)
    BY DEF Captures, IsRoque
  <1>v. /\ Counts(Empty, k) = 0 /\ Counts(Empty, o) = 0
        /\ \A p \in Piece : Counts(Cell(p, k), k) = 1 /\ Counts(Cell(p, k), o) = 0
    BY <1>3 DEF Counts, Cell, Empty
  <1> HIDE DEF a, b, c, d, k, o
  <1>5. /\ g1 \in Boards /\ g1[b] = Empty /\ g1[c] = Cell(ROOK, k) /\ g1[d] = Cell(KING, k)
        /\ Cardinality(Men(g1, k)) = Cardinality(Men(g, k)) + 1
        /\ Cardinality(Men(g1, o)) = Cardinality(Men(g, o))
    BY <1>2, <1>3, <1>4, <1>n, <1>v, Put
  <1> HIDE DEF g1
  <1>6. /\ g2 \in Boards /\ g2[c] = Cell(ROOK, k) /\ g2[d] = Cell(KING, k)
        /\ Cardinality(Men(g2, k)) = Cardinality(Men(g1, k)) + 1
        /\ Cardinality(Men(g2, o)) = Cardinality(Men(g1, o))
    BY <1>2, <1>3, <1>5, <1>n, <1>v, Put
  <1> HIDE DEF g2
  <1>7. /\ g3 \in Boards /\ g3[d] = Cell(KING, k)
        /\ Cardinality(Men(g3, k)) = Cardinality(Men(g2, k)) - 1
        /\ Cardinality(Men(g3, o)) = Cardinality(Men(g2, o))
    <2>1. Counts(g2[c], k) = 1 /\ Counts(g2[c], o) = 0
      BY <1>3, <1>6, <1>v
    <2>2. Cardinality(Men(g2, o)) \in Nat
      BY MenFinite
    <2>3. /\ g3 \in Boards /\ g3[d] = g2[d]
          /\ Cardinality(Men(g3, k)) = Cardinality(Men(g2, k)) - Counts(g2[c], k)
          /\ Cardinality(Men(g3, o)) = Cardinality(Men(g2, o)) - Counts(g2[c], o)
      BY <1>2, <1>3, <1>6, Clear
    <2> QED
      BY <1>6, <2>1, <2>2, <2>3
  <1> HIDE DEF g3
  <1>8. /\ Cardinality(Men(u, k)) = Cardinality(Men(g3, k)) - 1
        /\ Cardinality(Men(u, o)) = Cardinality(Men(g3, o))
    <2>1. Counts(g3[d], k) = 1 /\ Counts(g3[d], o) = 0
      BY <1>3, <1>7, <1>v
    <2>2. Cardinality(Men(g3, o)) \in Nat
      BY MenFinite
    <2>3. /\ Cardinality(Men(u, k)) = Cardinality(Men(g3, k)) - Counts(g3[d], k)
          /\ Cardinality(Men(u, o)) = Cardinality(Men(g3, o)) - Counts(g3[d], o)
      BY <1>2, <1>3, <1>7, Clear
    <2> QED
      BY <2>1, <2>2, <2>3
  <1> HIDE DEF u
  <1>9. /\ Cardinality(Men(u, k)) = Cardinality(Men(g, k))
        /\ Cardinality(Men(u, o)) = Cardinality(Men(g, o))
    BY <1>5, <1>6, <1>7, <1>8, <1>n
  <1> QED
    BY <1>1, <1>9, <1>k, <1>n DEF Balance

LEMMA PassantCount ==
    ASSUME NEW g \in Boards, NEW mv \in NodeRec, mv.type = "EN_PASSANT",
           g[From(mv)] = Cell(mv.piece, CURCOLOR(mv)), mv.fromcol # mv.tocol,
           g[To(mv)].piece = VOID, g[Beside(mv)] = Empty,
           g[<<mv.fromlig, mv.tocol>>].color = OPPCOLOR(mv)
    PROVE  Balance(g, do_move([g EXCEPT ![<<mv.fromlig, mv.tocol>>] = Empty], mv), mv)
  <1> DEFINE k == CURCOLOR(mv)
             o == OPPCOLOR(mv)
             a == From(mv)
             b == To(mv)
             e == Beside(mv)
             x == <<mv.fromlig, mv.tocol>>
             g1 == [g EXCEPT ![x] = Empty]
             g2 == [g1 EXCEPT ![b] = Cell(mv.piece, k)]
             g3 == [g2 EXCEPT ![e] = Empty]
             u == [g3 EXCEPT ![a] = Empty]
  <1>1. do_move(g1, mv) = u
    BY DEF do_move, IsRoque
  <1>2. a \in Squares /\ b \in Squares /\ e \in Squares /\ x \in Squares
    BY NodeIsMove DEF IsMove, NodeRec, Squares, SIZE
  <1>3. k \in Color /\ o \in Color /\ k # o /\ VOID \notin Color /\ VOID \notin Piece
    BY Colors
  <1>4. g[a].color = k /\ g[a].piece = mv.piece /\ g[x].color = o /\ g[e] = Empty /\ g[b] = Empty
    <2>1. g[a].color = k /\ g[a].piece = mv.piece
      BY DEF Cell
    <2>2. g[b].piece = VOID
      OBVIOUS
    <2>3. g[b] = Empty
      <3> HIDE DEF b
      <3> QED
        BY <1>2, <2>2, SquareFacts
    <2> QED
      BY <2>1, <2>3
  <1>5. mv.piece \in Piece
    BY <1>2, <1>3, <1>4, SquareFacts DEF Role
  <1>c. Empty.color = VOID
    BY DEF Empty, Cell
  <1>6. a # b /\ e # b
    BY DEF From, To, Beside
  <1>7. a # x /\ a # e /\ b # x /\ e # x
    BY <1>3, <1>4, <1>c
  <1>n. Cardinality(Men(g, k)) \in Nat /\ Cardinality(Men(g, o)) \in Nat
    BY MenFinite
  <1>k. CURCOLOR(mv) = k /\ OPPCOLOR(mv) = o /\ Captures(mv)
    BY DEF Captures
  <1>v. /\ Counts(Empty, k) = 0 /\ Counts(Empty, o) = 0
        /\ \A v : v.color = k => Counts(v, k) = 1 /\ Counts(v, o) = 0
        /\ \A v : v.color = o => Counts(v, k) = 0 /\ Counts(v, o) = 1
    BY <1>3, <1>c DEF Counts
  <1> HIDE DEF a, b, e, x, k, o
  <1>8. /\ g1 \in Boards /\ g1[a] = g[a] /\ g1[b] = Empty /\ g1[e] = Empty
        /\ Cardinality(Men(g1, k)) = Cardinality(Men(g, k))
        /\ Cardinality(Men(g1, o)) = Cardinality(Men(g, o)) - 1
    <2>1. Counts(g[x], k) = 0 /\ Counts(g[x], o) = 1
      BY <1>4, <1>v
    <2> QED
      BY <1>2, <1>3, <1>4, <1>7, <1>n, <2>1, Clear
  <1> HIDE DEF g1
  <1>9. /\ g2 \in Boards /\ g2[a] = g[a] /\ g2[e] = Empty
        /\ Cardinality(Men(g2, k)) = Cardinality(Men(g1, k)) + 1
        /\ Cardinality(Men(g2, o)) = Cardinality(Men(g1, o))
    BY <1>2, <1>3, <1>5, <1>6, <1>8, <1>n, <1>v, Put
  <1> HIDE DEF g2
  <1>10. /\ g3 \in Boards /\ g3[a] = g[a]
         /\ Cardinality(Men(g3, k)) = Cardinality(Men(g2, k))
         /\ Cardinality(Men(g3, o)) = Cardinality(Men(g2, o))
    BY <1>2, <1>3, <1>7, <1>8, <1>9, <1>n, <1>v, Clear
  <1> HIDE DEF g3
  <1>11. /\ Cardinality(Men(u, k)) = Cardinality(Men(g3, k)) - 1
         /\ Cardinality(Men(u, o)) = Cardinality(Men(g3, o))
    <2>1. Counts(g3[a], k) = 1 /\ Counts(g3[a], o) = 0
      BY <1>4, <1>10, <1>v
    <2> QED
      BY <1>2, <1>3, <1>8, <1>9, <1>10, <1>n, <2>1, Clear
  <1> HIDE DEF u
  <1>12. Cardinality(Men(u, k)) = Cardinality(Men(g, k))
    BY <1>8, <1>9, <1>10, <1>11, <1>n
  <1>13. Cardinality(Men(u, o)) = Cardinality(Men(g, o)) - (IF Captures(mv) THEN 1 ELSE 0)
    BY <1>8, <1>9, <1>10, <1>11, <1>n, <1>k
  <1> QED
    BY <1>1, <1>12, <1>13, <1>k DEF Balance, g1, x

LEMMA MakesRoque ==
    ASSUME NEW g \in Boards, NEW took \in NodeRec, IsRoque(took), check_move(g, took).ok
    PROVE  LET mv == Final(check_move(g, took).mv)
               board == do_move(check_move(g, took).board, mv)
           IN  /\ mv \in NodeRec /\ Rooted(mv, took) /\ board \in Boards /\ IsRoque(mv)
               /\ SoundMove(g, mv) => Balance(g, board, mv) /\ undo_move(board, mv) = g
  <1> DEFINE mv == [took EXCEPT !.fromlig = RoqueLine(took)]
             board == do_move(g, mv)
  <1>1. check_move(g, took).mv = took /\ check_move(g, took).board = g /\ check_roque(g, took)
    BY CheckRoque
  <1>2. Final(check_move(g, took).mv) = mv
    BY <1>1 DEF Final
  <1>3. RoqueLine(took) \in {1, 8}
    BY Colors
  <1>4. mv \in NodeRec /\ Rooted(mv, took) /\ mv.type = took.type /\ mv.whiteturn = took.whiteturn
    BY <1>3 DEF NodeRec, Rooted
  <1> HIDE DEF mv
  <1>5. IsRoque(mv) /\ check_roque(g, mv)
    BY <1>1, <1>4 DEF IsRoque, check_roque, RoqueLine
  <1>6. board \in Boards
    BY <1>4, <1>5, DoSound
  <1>7. ASSUME SoundMove(g, mv) PROVE Undoable(g, mv)
    <2> DEFINE l == RoqueLine(mv)
    <2>1. \A c \in 0..9 : <<l, c>> \in Squares
      BY <1>4, Colors DEF Squares, SIZE
    <2>2. \A c \in 0..9 : g[<<l, c>>].piece = VOID => g[<<l, c>>] = Empty
      BY <2>1, SquareFacts
    <2> HIDE DEF l
    <2>3. CASE mv.type = "PETITROQUE"
      <3>1. g[<<l, 6>>].piece = VOID /\ g[<<l, 7>>].piece = VOID
        BY <1>5, <1>7, <2>3 DEF check_roque, SoundMove, l
      <3>2. g[<<l, 5>>] = Cell(KING, CURCOLOR(mv)) /\ g[<<l, 8>>] = Cell(ROOK, CURCOLOR(mv))
        BY <1>7, <2>3 DEF SoundMove, l
      <3>3. RoqueCols(mv) = [king |-> 7, rook |-> 6, corner |-> 8]
        BY <2>3 DEF RoqueCols
      <3> QED
        BY <1>5, <2>2, <3>1, <3>2, <3>3 DEF Undoable, l
    <2>4. CASE mv.type = "GRANDROQUE"
      <3>1. g[<<l, 3>>].piece = VOID /\ g[<<l, 4>>].piece = VOID
        BY <1>5, <2>4 DEF check_roque, l
      <3>2. g[<<l, 5>>] = Cell(KING, CURCOLOR(mv)) /\ g[<<l, 1>>] = Cell(ROOK, CURCOLOR(mv))
        BY <1>7, <2>4 DEF SoundMove, l
      <3>3. RoqueCols(mv) = [king |-> 3, rook |-> 4, corner |-> 1]
        BY <2>4 DEF RoqueCols
      <3> QED
        BY <1>5, <2>2, <3>1, <3>2, <3>3 DEF Undoable, l
    <2> QED
      BY <1>5, <2>3, <2>4 DEF IsRoque
  <1>8. ASSUME SoundMove(g, mv) PROVE Balance(g, board, mv) /\ undo_move(board, mv) = g
    <2>1. Undoable(g, mv) /\ IsMove(mv) /\ g \in Board
      BY <1>4, <1>7, <1>8, NodeIsMove DEF Boards
    <2> QED
      BY <1>4, <1>5, <2>1, UndoRestores, RoqueCount
  <1> QED
    BY <1>1, <1>2, <1>4, <1>5, <1>6, <1>8

LEMMA MakesMove ==
    ASSUME NEW g \in Boards, NEW took \in NodeRec, took.type \in Asks, ~IsRoque(took),
           check_move(g, took).ok,
           g[To(took)].piece # VOID => took.type = "PRISE" /\ took.prise = g[To(took)].piece
    PROVE  LET mv == Final(check_move(g, took).mv)
               board == do_move(check_move(g, took).board, mv)
           IN  /\ mv \in NodeRec /\ Rooted(mv, took) /\ board \in Boards /\ ~IsRoque(mv)
               /\ ambiguity(board, mv).board = board
               /\ SoundMove(g, mv) => Balance(g, board, mv)
               /\ SoundMove(g, mv) /\ mv.type # "EN_PASSANT" => undo_move(board, mv) = g
  <1> DEFINE c == check_move(g, took)
             victim == <<took.fromlig, took.tocol>>
  <1>1. /\ g[From(took)] = Cell(took.piece, CURCOLOR(took))
        /\ g[To(took)].piece # VOID => took.type \in {"PRISE", "PROM_ET_PRISE"}
        /\ ~(g[To(took)].color = g[From(took)].color /\ took.prise # VOID)
        /\ \/ c.mv = took /\ c.board = g
           \/ /\ c.mv = [took EXCEPT !.type = "EN_PASSANT"]
              /\ c.board = [g EXCEPT ![victim] = Empty]
              /\ took.fromcol # took.tocol /\ g[To(took)].piece = VOID /\ g[victim].piece = PAWN
    BY CheckFacts
  <1>2. /\ From(took) \in Squares /\ To(took) \in Squares /\ Beside(took) \in Squares
        /\ victim \in Squares
    BY NodeIsMove DEF IsMove, NodeRec, Squares, SIZE
  <1>3. /\ CURCOLOR(took) \in Color /\ OPPCOLOR(took) \in Color /\ CURCOLOR(took) # OPPCOLOR(took)
        /\ VOID \notin Color /\ VOID \notin Piece
    BY Colors
  <1>4. /\ g[From(took)].piece = took.piece /\ g[From(took)].color = CURCOLOR(took)
        /\ took.piece \in Piece /\ took.piece # VOID
    BY <1>1, <1>2, <1>3, SquareFacts DEF Role, Cell
  <1>5. /\ From(took) # To(took) /\ g[To(took)].color # CURCOLOR(took)
        /\ g[To(took)].piece # VOID => g[To(took)].color = OPPCOLOR(took)
    <2>1. g[To(took)].color = CURCOLOR(took) => g[To(took)].piece # VOID
      BY <1>2, <1>3, SquareFacts
    <2>2. g[To(took)].color # CURCOLOR(took)
      BY <1>1, <1>4, <2>1
    <2>3. g[To(took)].piece # VOID => g[To(took)].color \in Color
      BY <1>2, SquareFacts
    <2> QED
      BY <1>4, <2>2, <2>3, Colors
  <1>6. CASE c.mv = took /\ c.board = g
    <2> DEFINE board == do_move(g, took)
    <2>1. Final(c.mv) = took
      BY <1>6 DEF Final
    <2>2. board \in Boards
      BY <1>4, DoSound
    <2>3. ambiguity(board, took).board = board
      BY NodeIsMove, PrintingKeepsBoard DEF Boards
    <2>4. took.type # VOID => took.type \in {"MOVE", "PRISE", "PROMOTION", "PROM_ET_PRISE"}
      BY DEF Asks, Kinds, IsRoque
    <2>5. CASE took.type = VOID
      <3>1. board = g /\ undo_move(g, took) = g
        BY <2>5 DEF do_move, undo_move, IsRoque, VOID
      <3>2. ~Captures(took)
        BY <2>5 DEF Captures, VOID
      <3>3. Balance(g, g, took)
        <4>1. /\ Cardinality(Men(g, OPPCOLOR(took))) \in Nat
              /\ Cardinality(Men(g, CURCOLOR(took))) \in Nat
          BY MenFinite
        <4> QED
          BY <3>2, <4>1 DEF Balance
      <3> HIDE DEF board
      <3>4. Rooted(took, took)
        BY DEF Rooted
      <3> QED
        BY <1>6, <2>1, <2>2, <2>3, <3>1, <3>3, <3>4 DEF board
    <2>6. CASE took.type # VOID
      <3>1. ASSUME SoundMove(g, took) PROVE Captures(took) <=> g[To(took)].piece # VOID
        BY <1>1, <2>4, <2>6, <3>1 DEF SoundMove, Captures
      <3>2. ASSUME SoundMove(g, took) PROVE Undoable(g, took)
        <4>1. g[To(took)].piece = VOID => g[To(took)] = Empty
          BY <1>2, SquareFacts
        <4>2. CASE Captures(took)
          <5>1. took.type = "PRISE" /\ took.prise = g[To(took)].piece
            BY <3>1, <3>2, <4>2
          <5>2. g[To(took)] = Cell(took.prise, OPPCOLOR(took))
            <6>1. g[To(took)] = Cell(g[To(took)].piece, g[To(took)].color)
              BY <1>2, SquareFacts
            <6>2. g[To(took)].color = OPPCOLOR(took)
              BY <1>5, <3>1, <3>2, <4>2
            <6> QED
              BY <5>1, <6>1, <6>2
          <5> QED
            BY <1>1, <1>5, <5>1, <5>2 DEF Undoable
        <4>3. CASE ~Captures(took)
          <5>1. g[To(took)] = Empty
            BY <3>1, <3>2, <4>1, <4>3
          <5>2. took.type \in {"MOVE", "PROMOTION"}
            BY <2>4, <2>6, <4>3 DEF Captures
          <5>3. took.type = "PROMOTION" => took.piece = PAWN
            BY <3>2 DEF SoundMove
          <5> QED
            BY <1>1, <1>5, <5>1, <5>2, <5>3 DEF Undoable
        <4> QED
          BY <4>2, <4>3
      <3>3. ASSUME SoundMove(g, took)
            PROVE  Balance(g, board, took) /\ undo_move(board, took) = g
        <4>1. Undoable(g, took) /\ IsMove(took) /\ g \in Board
          BY <3>2, <3>3, NodeIsMove DEF Boards
        <4>2. Balance(g, board, took)
          BY <1>1, <1>5, <2>4, <2>6, <3>1, <3>3, PlainCount
        <4> QED
          BY <4>1, <4>2, UndoRestores
      <3> HIDE DEF board
      <3>4. Rooted(took, took)
        BY DEF Rooted
      <3> QED
        BY <1>6, <2>1, <2>2, <2>3, <3>3, <3>4 DEF board
    <2> QED
      BY <2>5, <2>6
  <1>7. CASE /\ c.mv = [took EXCEPT !.type = "EN_PASSANT"]
             /\ c.board = [g EXCEPT ![victim] = Empty]
             /\ took.fromcol # took.tocol /\ g[To(took)].piece = VOID /\ g[victim].piece = PAWN
    <2> DEFINE mv == [took EXCEPT !.type = "EN_PASSANT"]
               h == [g EXCEPT ![victim] = Empty]
               board == do_move(h, mv)
    <2>1. /\ mv \in NodeRec /\ Rooted(mv, took) /\ mv.type = "EN_PASSANT"
          /\ mv.piece = took.piece /\ mv.whiteturn = took.whiteturn
          /\ mv.fromcol = took.fromcol /\ mv.tocol = took.tocol
          /\ mv.fromlig = took.fromlig /\ mv.tolig = took.tolig
      BY DEF NodeRec, Rooted, Kinds
    <2> HIDE DEF mv
    <2>2. /\ ~IsRoque(mv) /\ From(mv) = From(took) /\ To(mv) = To(took)
          /\ CURCOLOR(mv) = CURCOLOR(took)
      BY <2>1 DEF IsRoque, From, To, CURCOLOR
    <2>3. Final(c.mv) = mv
      BY <1>7, <2>2 DEF Final, mv
    <2>4. h \in Boards
      BY <1>2, PutSound
    <2>5. victim = <<mv.fromlig, mv.tocol>>
      BY <2>1
    <2>6. ASSUME SoundMove(g, mv) PROVE Balance(g, board, mv)
      <3>1. g[Beside(mv)] = Empty /\ g[<<mv.fromlig, mv.tocol>>].color = OPPCOLOR(mv)
        BY <2>1, <2>6 DEF SoundMove
      <3>2. g[From(mv)] = Cell(mv.piece, CURCOLOR(mv)) /\ g[To(mv)].piece = VOID
            /\ mv.fromcol # mv.tocol
        BY <1>1, <1>7, <2>1, <2>2
      <3>3. Balance(g, do_move([g EXCEPT ![<<mv.fromlig, mv.tocol>>] = Empty], mv), mv)
        BY <2>1, <3>1, <3>2, PassantCount
      <3> QED
        BY <2>5, <3>3
    <2> HIDE DEF h
    <2>7. board \in Boards
      BY <1>4, <2>1, <2>4, DoSound
    <2>8. ambiguity(board, mv).board = board
      BY <2>1, <2>2, <2>4, NodeIsMove, PrintingKeepsBoard DEF Boards
    <2> HIDE DEF board
    <2>9. board = do_move(c.board, Final(c.mv))
      BY <1>7, <2>3 DEF board, h
    <2> QED
      BY <2>1, <2>2, <2>3, <2>6, <2>7, <2>8, <2>9
  <1> QED
    BY <1>1, <1>6, <1>7

-----------------------------------------------------------------------------
(* Playing a move, placing a piece, and the node a move of the input adds. *)
\* What the board says of a move made in position g that led to the one seen.
\* It can be taken back, and printed and read again.
Retold(g, n) == undo_move(n.seen, n) = g /\ n.seen = do_move(g, n) /\ Legible(g, n)
Kept(g, n) == SoundMove(g, n) => /\ Balance(g, n.seen, n)
                                 /\ n.type # "EN_PASSANT" => Retold(g, n)

\* While configuring, a move is played only by castling or promoting.
Heard(s, n) == n.how = "played" => /\ Kept(s.tos, n)
                                   /\ s.configuring => IsRoque(n) \/ n.promotion # VOID

\* What both change of the reader's state: the node m and the board.
Filled(s, r) ==
    /\ r \in Game /\ r.m = s.m /\ r.stack = s.stack /\ r.freed = s.freed
    /\ r.configuring = s.configuring /\ r.configside = s.configside
    /\ \E n \in NodeRec : /\ r.node = [s.node EXCEPT ![s.m] = n]
                          /\ Rooted(n, Cur(s)) /\ r.tos = n.seen
                          /\ n.how \in {"placed", "played"} /\ Heard(s, n)

LEMMA MarkKept ==
    ASSUME NEW g, NEW mv \in NodeRec, NEW board \in Boards,
           SoundMove(g, mv) => Balance(g, board, mv),
           SoundMove(g, mv) /\ mv.type # "EN_PASSANT" => /\ undo_move(board, mv) = g
                                                         /\ board = do_move(g, mv) /\ Legible(g, mv)
    PROVE  LET n == [mv EXCEPT !.how = "played", !.seen = board]
           IN  /\ n \in NodeRec /\ Rooted(n, mv) /\ n.seen = board /\ n.how = "played" /\ Kept(g, n)
               /\ n.promotion = mv.promotion /\ (IsRoque(n) <=> IsRoque(mv))
  <1> DEFINE n == [mv EXCEPT !.how = "played", !.seen = board]
  <1>1. /\ n \in NodeRec /\ Rooted(n, mv) /\ n.seen = board /\ n.how = "played"
        /\ n.type = mv.type /\ n.piece = mv.piece /\ n.whiteturn = mv.whiteturn
        /\ n.fromlig = mv.fromlig /\ n.fromcol = mv.fromcol /\ n.tolig = mv.tolig
        /\ n.tocol = mv.tocol /\ n.prise = mv.prise /\ n.promotion = mv.promotion
    BY DEF NodeRec, Rooted, Births
  <1> HIDE DEF n
  <1>2. undo_move(board, n) = undo_move(board, mv)
    BY <1>1, UndoRooted
  <1>3. SoundMove(g, n) <=> SoundMove(g, mv)
    BY <1>1 DEF SoundMove, RoqueLine, CURCOLOR, OPPCOLOR, To, Beside
  <1>4. Balance(g, board, n) <=> Balance(g, board, mv)
    BY <1>1 DEF Balance, CURCOLOR, OPPCOLOR, Captures
  <1>5. do_move(g, mv) = do_move(g, n) /\ (Legible(g, mv) => Legible(g, n))
        /\ (IsRoque(n) <=> IsRoque(mv))
    <2>1. Agree(mv, n)
      BY <1>1 DEF Agree
    <2> QED
      BY <2>1, AgreeDoes
  <1>6. Kept(g, n)
    BY <1>1, <1>2, <1>3, <1>4, <1>5 DEF Kept, Retold
  <1> QED
    BY <1>1, <1>5, <1>6 DEF n

LEMMA Plays ==
    ASSUME NEW s \in Game, s.m \in DOMAIN s.node, Cur(s).type \in Asks, Asking(Cur(s)),
           s.configuring => IsRoque(Cur(s)) \/ Cur(s).promotion # VOID,
           execute_move(s).status = "reading", s.status = "reading"
    PROVE  Filled(s, execute_move(s))
  <1> DEFINE n0 == Cur(s)
             n1 == Asked(n0)
             guess == Guess(s.tos, n1)
             took == Taking(s.tos, Found(s.tos, guess.mv))
             c == check_move(s.tos, took)
             mv == Final(c.mv)
             board == do_move(c.board, mv)
             n == [mv EXCEPT !.how = "played", !.seen = board]
             r == execute_move(s)
  <1>1. n0 \in NodeRec /\ s.tos \in Boards /\ s.node \in Seq(NodeRec)
    BY DEF Game, Cur
  <1>2. Revises(n1, n0)
    <2>1. PAWN \in Role /\ n0.piece \in Role /\ Revises(n0, n0)
      BY <1>1 DEF Role, Piece, NodeRec, Revises, Rooted
    <2>2. n1 = [n0 EXCEPT !.piece = IF n0.piece = VOID THEN PAWN ELSE n0.piece]
      BY DEF Asked
    <2>3. (IF n0.piece = VOID THEN PAWN ELSE n0.piece) \in Role
      BY <2>1
    <2> HIDE DEF n0, n1
    <2> QED
      BY <2>1, <2>2, <2>3, Revision
  <1>3. Revises(guess.mv, n1)
    <2>1. n1 \in NodeRec /\ n1.type \in Asks
      BY <1>2 DEF Revises
    <2> HIDE DEF n1
    <2> QED
      BY <2>1, GuessRevises
  <1>4. /\ Revises(took, guess.mv)
        /\ s.tos[To(took)].piece # VOID => took.type = "PRISE" /\ took.prise = s.tos[To(took)].piece
    <2>1. guess.mv \in NodeRec /\ guess.mv.type \in Asks
      BY <1>3 DEF Revises
    <2> HIDE DEF guess
    <2> QED
      BY <1>1, <2>1, TakingFacts
  <1>5. /\ r = PlayMove(s, guess.ok, c)
    BY DEF execute_move
  <1>t. n0.type \in Asks /\ Asking(n0) /\ (s.configuring => IsRoque(n0) \/ n0.promotion # VOID)
    OBVIOUS
  <1>g. guess = Guess(s.tos, Asked(n0)) /\ took = Taking(s.tos, Found(s.tos, guess.mv))
    OBVIOUS
  <1> HIDE DEF n1, guess
  <1>6. took \in NodeRec /\ took.type \in Asks /\ Rooted(took, n0)
    BY <1>2, <1>3, <1>4 DEF Revises, Rooted
  <1> HIDE DEF took, n0
  <1>7. /\ r.node = [s.node EXCEPT ![s.m] = n]
        /\ r.tos = IF IsRoque(mv) THEN board ELSE ambiguity(board, mv).board
        /\ r.m = s.m /\ r.stack = s.stack /\ r.freed = s.freed
        /\ r.configuring = s.configuring /\ r.configside = s.configside
    BY <1>5 DEF PlayMove, Final, Game
  <1>8. guess.ok /\ c.ok /\ r.error \in BOOLEAN
    <2> DEFINE stop == s.error \/ ~guess.ok \/ ~c.ok
    <2>1. r.status = IF stop THEN "exit" ELSE s.status
      BY <1>5 DEF PlayMove, Game
    <2>2. r.error = stop
      BY <1>5 DEF PlayMove, Game
    <2>3. ~stop
      BY <2>1
    <2> QED
      BY <2>2, <2>3
  <1>9. /\ mv \in NodeRec /\ Rooted(mv, took) /\ board \in Boards
        /\ (IF IsRoque(mv) THEN board ELSE ambiguity(board, mv).board) = board
        /\ SoundMove(s.tos, mv) => Balance(s.tos, board, mv)
        /\ SoundMove(s.tos, mv) /\ mv.type # "EN_PASSANT" => undo_move(board, mv) = s.tos
    <2>1. CASE IsRoque(took)
      BY <1>1, <1>6, <1>8, <2>1, MakesRoque
    <2>2. CASE ~IsRoque(took)
      BY <1>1, <1>4, <1>6, <1>8, <2>2, MakesMove
    <2> QED
      BY <2>1, <2>2
  <1>l. /\ mv.promotion = n0.promotion /\ (IsRoque(mv) <=> IsRoque(n0))
        /\ SoundMove(s.tos, mv) /\ mv.type # "EN_PASSANT" => Legible(s.tos, mv) /\ c.board = s.tos
    BY <1>1, <1>t, <1>g, <1>8, Spells
  <1>d. c.board = s.tos => board = do_move(s.tos, mv)
    OBVIOUS
  <1> HIDE DEF c, mv, board
  <1>10. /\ n \in NodeRec /\ Rooted(n, mv) /\ n.seen = board /\ n.how = "played" /\ Kept(s.tos, n)
         /\ n.promotion = mv.promotion /\ (IsRoque(n) <=> IsRoque(mv))
    <2>1. SoundMove(s.tos, mv) /\ mv.type # "EN_PASSANT" => /\ undo_move(board, mv) = s.tos
                                                           /\ board = do_move(s.tos, mv) /\ Legible(s.tos, mv)
      BY <1>9, <1>l, <1>d
    <2> QED
      BY <1>9, <2>1, MarkKept
  <1>11. Rooted(n, Cur(s))
    BY <1>6, <1>9, <1>10 DEF Rooted, n0
  <1>12. r.tos = board
    BY <1>7, <1>9
  <1> HIDE DEF n
  <1>13. r \in Game
    <2>1. r.node \in Seq(NodeRec)
      BY <1>1, <1>7, <1>10
    <2>2. r = [s EXCEPT !.node = r.node, !.tos = r.tos, !.error = r.error, !.status = r.status]
      BY <1>5 DEF PlayMove, Game
    <2>3. r.status = "reading"
      OBVIOUS
    <2> HIDE DEF r
    <2> QED
      BY <1>8, <1>9, <1>12, <2>1, <2>2, <2>3 DEF Game
  <1>14. Heard(s, n)
    BY <1>t, <1>l, <1>10 DEF Heard
  <1> HIDE DEF r
  <1> QED
    BY <1>7, <1>10, <1>11, <1>12, <1>13, <1>14 DEF Filled, r

LEMMA Places ==
    ASSUME NEW s \in Game, s.m \in DOMAIN s.node, s.configside \in Color
    PROVE  Filled(s, configure(s))
  <1> DEFINE n0 == Cur(s)
             p == IF n0.piece = VOID THEN PAWN ELSE n0.piece
             mv == Asked(n0)
             board == [s.tos EXCEPT ![To(mv)] = Cell(mv.piece, s.configside)]
             n == [mv EXCEPT !.how = "placed", !.seen = board]
             r == configure(s)
  <1>1. n0 \in NodeRec /\ s.tos \in Boards /\ s.node \in Seq(NodeRec)
    BY DEF Game, Cur
  <1>2. p \in Piece
    BY <1>1 DEF NodeRec, Role, Piece
  <1>3. mv \in NodeRec /\ Rooted(mv, n0) /\ mv.piece = p
    <2>1. mv = [n0 EXCEPT !.piece = p]
      BY DEF Asked
    <2>2. p \in Role
      BY <1>2 DEF Role
    <2> HIDE DEF p, mv, n0
    <2> QED
      BY <1>1, <2>1, <2>2 DEF NodeRec, Rooted
  <1> HIDE DEF mv, p
  <1>4. board \in Boards
    <2>1. To(mv) \in Squares
      BY <1>3, NodeIsMove DEF IsMove
    <2> QED
      BY <1>1, <1>2, <1>3, <2>1, PutSound
  <1>5. r = [s EXCEPT !.node[s.m] = n, !.tos = board]
    BY DEF configure, mv
  <1> HIDE DEF board, r
  <1>6. n \in NodeRec /\ Rooted(n, mv) /\ n.how = "placed" /\ n.seen = board
    BY <1>3, <1>4 DEF NodeRec, Rooted, Births
  <1>7. Rooted(n, Cur(s))
    BY <1>3, <1>6 DEF Rooted, n0
  <1> HIDE DEF n, n0
  <1>8. /\ r.node = [s.node EXCEPT ![s.m] = n] /\ r.tos = board
        /\ r.m = s.m /\ r.stack = s.stack /\ r.freed = s.freed
        /\ r.configuring = s.configuring /\ r.configside = s.configside
    BY <1>5 DEF Game
  <1>9. r \in Game
    <2>1. r.node \in Seq(NodeRec)
      BY <1>1, <1>6, <1>8
    <2>2. r = [s EXCEPT !.node = r.node, !.tos = r.tos]
      BY <1>5 DEF Game
    <2> QED
      BY <1>4, <1>8, <2>1, <2>2 DEF Game
  <1> QED
    BY <1>6, <1>7, <1>8, <1>9 DEF Filled, Heard, r

\* A node n that follows m, and what is known of the state r with it.
Follows(s, n) ==
    /\ n \in NodeRec /\ n.prev = s.m
    /\ n.whiteturn <=> ~Cur(s).whiteturn
    /\ n.move = Cur(s).move + (IF n.whiteturn THEN 1 ELSE 0)
Extended(s, r, n) ==
    /\ r \in Game /\ r.m = Len(s.node) + 1 /\ r.stack = s.stack /\ r.freed = s.freed
    /\ r.configuring = s.configuring /\ r.configside = s.configside
    /\ r.node = Append([s.node EXCEPT ![s.m].next = Len(s.node) + 1], n)
    /\ Follows(s, n)
Adds(s, r) ==
    \E n : /\ Extended(s, r, n) /\ r.tos = n.seen
           /\ n.how \in {"rejected", "placed", "played"} /\ Heard(s, n)

LEMMA LastReplaced ==
    ASSUME NEW V, NEW q \in Seq(V), NEW a \in V, NEW b \in V
    PROVE  [Append(q, a) EXCEPT ![Len(q) + 1] = b] = Append(q, b)
  <1>1. ASSUME NEW c \in V
        PROVE  Append(q, c) = [i \in 1..Len(q) + 1 |-> IF i = Len(q) + 1 THEN c ELSE q[i]]
    <2> DEFINE t == Append(q, c)
    <2>1. t \in Seq(V) /\ Len(t) = Len(q) + 1 /\ t[Len(q) + 1] = c
          /\ \A i \in 1..Len(q) : t[i] = q[i]
      OBVIOUS
    <2>2. Len(q) \in Nat
      OBVIOUS
    <2> HIDE DEF t
    <2>3. t = [i \in 1..Len(t) |-> t[i]]
      BY <2>1
    <2>4. t = [i \in 1..Len(q) + 1 |-> IF i = Len(q) + 1 THEN c ELSE q[i]]
      BY <2>1, <2>2, <2>3
    <2> QED
      BY <2>4 DEF t
  <1>2. Append(q, a) = [i \in 1..Len(q) + 1 |-> IF i = Len(q) + 1 THEN a ELSE q[i]]
    BY <1>1
  <1>3. Append(q, b) = [i \in 1..Len(q) + 1 |-> IF i = Len(q) + 1 THEN b ELSE q[i]]
    BY <1>1
  <1> QED
    BY <1>2, <1>3

LEMMA Trailing ==
    ASSUME NEW s \in Game, s.m \in DOMAIN s.node
    PROVE  LET r == add_trailing_move(s)
           IN  /\ Extended(s, r, Cur(r)) /\ Blank(Cur(r))
               /\ Cur(r).how = "rejected" /\ Cur(r).seen = s.tos
               /\ r.tos = s.tos /\ r.status = s.status /\ r.error = s.error
  <1> DEFINE born == Len(s.node) + 1
             white == ~Cur(s).whiteturn
             n0 == Node("rejected", s.tos)
             k == Cur(s).move + (IF white THEN 1 ELSE 0)
             move == [n0 EXCEPT !.prev = s.m, !.whiteturn = white, !.type = "MOVE", !.move = k]
             link == [s.node EXCEPT ![s.m].next = born]
             r == add_trailing_move(s)
  <1>1. s.node \in Seq(NodeRec) /\ s.tos \in Boards /\ s.m \in Nat /\ Cur(s) \in NodeRec
    BY DEF Game, Cur
  <1>2. born \in Nat
    BY <1>1
  <1>3. /\ n0 \in NodeRec /\ n0.how = "rejected" /\ n0.seen = s.tos
        /\ n0.piece = VOID /\ n0.prise = VOID /\ n0.promotion = VOID
        /\ n0.fromlig = 0 /\ n0.fromcol = 0 /\ n0.tolig = 0 /\ n0.tocol = 0
    BY <1>1 DEF Node, NodeRec, Kinds, Role, Births, NULL
  <1>4. white \in BOOLEAN /\ Cur(s).move \in Nat /\ Cur(s).whiteturn \in BOOLEAN
    BY <1>1 DEF NodeRec
  <1>k. k \in Nat
    BY <1>4
  <1> HIDE DEF n0
  <1>5. /\ move \in NodeRec /\ move.prev = s.m /\ move.type = "MOVE" /\ move.move = k
        /\ move.how = "rejected" /\ move.seen = s.tos /\ Blank(move)
    <2> HIDE DEF k, white
    <2> QED
      BY <1>1, <1>3, <1>4, <1>k DEF NodeRec, Kinds, Blank, From, To
  <1>6. move.whiteturn <=> white
    <2> HIDE DEF k, white
    <2> QED
      BY <1>3, <1>4 DEF NodeRec
  <1>7. link \in Seq(NodeRec) /\ Len(link) = Len(s.node)
    <2> DEFINE e == [s.node[s.m] EXCEPT !.next = born]
    <2>1. link = [s.node EXCEPT ![s.m] = e]
      OBVIOUS
    <2>2. e \in NodeRec
      <3>1. s.node[s.m] \in NodeRec /\ born \in Nat
        BY <1>1
      <3> QED
        BY <3>1 DEF NodeRec
    <2> HIDE DEF e, link
    <2> QED
      BY <1>1, <2>1, <2>2
  <1>8. r = [s EXCEPT !.node = Append(link, move), !.m = born]
    BY DEF add_trailing_move, n0
  <1>f. Follows(s, move)
    BY <1>5, <1>6 DEF Follows
  <1> HIDE DEF move, link, r, k, white
  <1>9. /\ r.node = Append(link, move) /\ r.m = born /\ r.stack = s.stack /\ r.freed = s.freed
        /\ r.configuring = s.configuring /\ r.configside = s.configside
        /\ r.tos = s.tos /\ r.status = s.status /\ r.error = s.error
    BY <1>8 DEF Game
  <1>10. Cur(r) = move
    BY <1>5, <1>7, <1>9 DEF Cur
  <1>11. r \in Game
    <2>1. Append(link, move) \in Seq(NodeRec)
      BY <1>5, <1>7
    <2> HIDE DEF born
    <2> QED
      BY <1>2, <1>8, <2>1 DEF Game
  <1> QED
    BY <1>5, <1>9, <1>10, <1>11, <1>f DEF Extended, link, r

\* Changing the node that was added, and then filling it.
Refilled(s, s1, x, s2) ==
    /\ Extended(s, s2, x) /\ Cur(s2) = x /\ s2.m \in DOMAIN s2.node
    /\ s2.tos = s1.tos /\ s2.status = s1.status
    /\ s2.configuring = s.configuring /\ s2.configside = s.configside
    /\ \A r : s2.tos = s.tos /\ Filled(s2, r) => Adds(s, r)

LEMMA Refills ==
    ASSUME NEW s \in Game, s.m \in DOMAIN s.node, NEW s1, Extended(s, s1, Cur(s1)),
           NEW x \in NodeRec, Rooted(x, Cur(s1))
    PROVE  Refilled(s, s1, x, [s1 EXCEPT !.node[s1.m] = x])
  <1> DEFINE born == Len(s.node) + 1
             link == [s.node EXCEPT ![s.m].next = born]
             n1 == Cur(s1)
             s2 == [s1 EXCEPT !.node[s1.m] = x]
  <1>1. s.node \in Seq(NodeRec) /\ s1 \in Game /\ n1 \in NodeRec /\ Follows(s, n1)
    BY DEF Game, Extended, Follows
  <1>2. link \in Seq(NodeRec) /\ Len(link) = Len(s.node)
    <2> DEFINE e == [s.node[s.m] EXCEPT !.next = born]
    <2>1. link = [s.node EXCEPT ![s.m] = e]
      OBVIOUS
    <2>2. e \in NodeRec
      <3>1. s.node[s.m] \in NodeRec /\ born \in Nat
        BY <1>1
      <3> QED
        BY <3>1 DEF NodeRec
    <2> HIDE DEF e, link
    <2> QED
      BY <1>1, <2>1, <2>2
  <1>3. s1.node = Append(link, n1) /\ s1.m = born
    BY DEF Extended
  <1> HIDE DEF link, n1
  <1>4. \A y \in NodeRec : [Append(link, n1) EXCEPT ![born] = y] = Append(link, y)
    BY <1>1, <1>2, LastReplaced
  <1>5. \A y, z \in NodeRec : [Append(link, y) EXCEPT ![born] = z] = Append(link, z)
    BY <1>1, <1>2, LastReplaced
  <1>6. \A y \in NodeRec : Append(link, y) \in Seq(NodeRec) /\ Append(link, y)[born] = y
                           /\ born \in DOMAIN Append(link, y)
    BY <1>2
  <1>7. /\ s2.node = Append(link, x) /\ s2.m = born /\ s2.tos = s1.tos /\ s2.stack = s1.stack
        /\ s2.freed = s1.freed /\ s2.configuring = s1.configuring
        /\ s2.configside = s1.configside /\ s2.error = s1.error /\ s2.status = s1.status
    BY <1>1, <1>3, <1>4 DEF Game
  <1> HIDE DEF s2
  <1>8. s2 \in Game
    <2>1. s2 = [s1 EXCEPT !.node = s2.node]
      BY <1>1, <1>7 DEF Game, s2
    <2>2. s2.node \in Seq(NodeRec)
      BY <1>6, <1>7
    <2> QED
      BY <1>1, <2>1, <2>2 DEF Game
  <1>9. ASSUME NEW y \in NodeRec, Rooted(y, x) PROVE Follows(s, y)
    BY <1>1, <1>9 DEF Follows, Rooted, n1
  <1>10. Follows(s, x)
    BY <1>9 DEF Rooted
  <1>11. Extended(s, s2, x)
    BY <1>7, <1>8, <1>10 DEF Extended, link
  <1>12. Cur(s2) = x /\ s2.m \in DOMAIN s2.node
    BY <1>6, <1>7 DEF Cur
  <1>13. ASSUME NEW r, s2.tos = s.tos, Filled(s2, r) PROVE Adds(s, r)
    <2>1. PICK n \in NodeRec : /\ r.node = [s2.node EXCEPT ![s2.m] = n]
                               /\ Rooted(n, Cur(s2)) /\ r.tos = n.seen
                               /\ n.how \in {"placed", "played"} /\ Heard(s2, n)
      BY <1>13 DEF Filled
    <2>2. r.node = Append(link, n)
      BY <1>5, <1>7, <2>1
    <2>3. Follows(s, n)
      BY <1>9, <1>12, <2>1
    <2>4. Extended(s, r, n)
      BY <1>7, <1>11, <1>13, <2>2, <2>3 DEF Extended, Filled, link
    <2>5. Heard(s, n)
      BY <1>7, <1>13, <2>1 DEF Heard, Extended
    <2> QED
      BY <1>13, <2>1, <2>4, <2>5 DEF Adds
  <1>14. s2.configuring = s.configuring /\ s2.configside = s.configside
    BY <1>7 DEF Extended
  <1> QED
    BY <1>7, <1>11, <1>12, <1>13, <1>14 DEF Refilled, s2

LEMMA ParseMoveAdds ==
    ASSUME NEW s \in Game, s.m \in DOMAIN s.node, s.status = "reading",
           s.configuring => s.configside \in Color, NEW token \in Seq(STRING),
           parse_move(s, token).status = "reading"
    PROVE  Adds(s, parse_move(s, token)) /\ s.m \notin s.freed
  <1> DEFINE s1 == add_trailing_move(s)
             x == Automaton(token, Cur(s1))
             s2 == [s1 EXCEPT !.node[s1.m] = x.mv]
             r == parse_move(s, token)
  <1>1. /\ Extended(s, s1, Cur(s1)) /\ Blank(Cur(s1))
        /\ Cur(s1).how = "rejected" /\ Cur(s1).seen = s.tos
        /\ s1.tos = s.tos /\ s1.status = s.status /\ s1.error = s.error
    BY Trailing
  <1>2. s.m \notin s.freed
    <2>1. s.m \in s.freed => r = Fault(s)
      BY DEF parse_move
    <2>2. Fault(s).status = "fault"
      BY DEF Fault, Game
    <2> QED
      BY <2>1, <2>2
  <1>3. r = IF x.run = "none" THEN s2
            ELSE IF x.run = "to" /\ s.configuring THEN configure(s2)
            ELSE execute_move(s2)
    BY <1>2 DEF parse_move
  <1>4. /\ Revises(x.mv, Cur(s1)) /\ x.run \in {"none", "to", "now"}
        /\ x.run # "none" => Told(x.mv)
        /\ x.run = "now" => x.mv.promotion # VOID
    <2>1. Cur(s1) \in NodeRec /\ Cur(s1).type \in Asks
      BY <1>1 DEF Extended, Follows, Asks, Kinds, Blank
    <2> HIDE DEF s1
    <2>2. Parsed(x, Cur(s1))
      BY <2>1, AutomatonParses
    <2>3. (x.run # "none" => Told(x.mv)) /\ (x.run = "now" => x.mv.promotion # VOID)
      BY <1>1, <2>1, AutomatonAsks DEF s1
    <2> QED
      BY <2>2, <2>3 DEF Parsed, Parsing
  <1> HIDE DEF x, s1
  <1>5. /\ x.mv \in NodeRec /\ Rooted(x.mv, Cur(s1)) /\ x.mv.type \in Asks
        /\ x.mv.how = "rejected" /\ x.mv.seen = s.tos
    BY <1>1, <1>4 DEF Revises
  <1> DEFINE y == x.mv
  <1> HIDE DEF y
  <1>6. /\ Extended(s, s2, y) /\ Cur(s2) = y /\ s2.m \in DOMAIN s2.node
        /\ s2.tos = s1.tos /\ s2.status = s1.status
        /\ s2.configuring = s.configuring /\ s2.configside = s.configside
        /\ \A q : s2.tos = s.tos /\ Filled(s2, q) => Adds(s, q)
    <2>1. y \in NodeRec /\ Rooted(y, Cur(s1)) /\ s2 = [s1 EXCEPT !.node[s1.m] = y]
      BY <1>5 DEF y
    <2>2. Refilled(s, s1, y, s2)
      BY <1>1, <2>1, Refills
    <2> QED
      BY <2>2 DEF Refilled
  <1>7. s2 \in Game /\ s2.tos = s.tos /\ s2.status = "reading"
    BY <1>1, <1>6 DEF Extended
  <1>8. /\ y.type \in Asks /\ y.how = "rejected" /\ y.seen = s.tos
        /\ x.run # "none" => Asking(y)
        /\ x.run = "now" => y.promotion # VOID
    BY <1>4, <1>5 DEF y, Asking, Told, IsRoque
  <1> HIDE DEF s2
  <1>9. CASE x.run = "none"
    BY <1>3, <1>6, <1>7, <1>8, <1>9, <1>2 DEF Adds, Heard
  <1>10. CASE x.run # "none" /\ x.run = "to" /\ s.configuring
    <2>1. s2.configside \in Color
      BY <1>6, <1>10
    <2>2. Filled(s2, configure(s2))
      BY <1>6, <1>7, <2>1, Places
    <2> QED
      BY <1>2, <1>3, <1>6, <1>7, <1>10, <2>2
  <1>11. CASE x.run # "none" /\ ~(x.run = "to" /\ s.configuring)
    <2>1. r = execute_move(s2) /\ execute_move(s2).status = "reading"
      BY <1>3, <1>11
    <2>2. Asking(Cur(s2)) /\ (s2.configuring => Cur(s2).promotion # VOID)
      BY <1>4, <1>6, <1>8, <1>11
    <2>3. Filled(s2, execute_move(s2))
      BY <1>6, <1>7, <1>8, <2>1, <2>2, Plays
    <2> QED
      BY <1>2, <1>6, <1>7, <2>1, <2>3
  <1> QED
    BY <1>9, <1>10, <1>11

LEMMA ParseRoqueAdds ==
    ASSUME NEW s \in Game, s.m \in DOMAIN s.node, s.status = "reading", NEW token,
           parse_roque(s, token).status = "reading"
    PROVE  Adds(s, parse_roque(s, token)) /\ s.m \notin s.freed
  <1> DEFINE s1 == add_trailing_move(s)
             type == IF token \in ShortRoque THEN "PETITROQUE" ELSE "GRANDROQUE"
             y == [Cur(s1) EXCEPT !.type = type]
             s2 == [s1 EXCEPT !.node[s1.m].type = type]
             r == parse_roque(s, token)
  <1>1. /\ Extended(s, s1, Cur(s1)) /\ s1.tos = s.tos /\ s1.status = s.status /\ Blank(Cur(s1))
    BY Trailing
  <1>2. s.m \notin s.freed
    <2>1. s.m \in s.freed => r = Fault(s)
      BY DEF parse_roque
    <2>2. Fault(s).status = "fault"
      BY DEF Fault, Game
    <2> QED
      BY <2>1, <2>2
  <1>3. r = execute_move(s2)
    BY <1>2 DEF parse_roque
  <1>4. type \in Asks /\ type \in {"PETITROQUE", "GRANDROQUE"}
    BY DEF Asks, Kinds
  <1>5. Cur(s1) \in NodeRec
    BY <1>1 DEF Extended, Follows
  <1>6. s2 = [s1 EXCEPT !.node[s1.m] = y]
    BY DEF Cur
  <1> HIDE DEF type, s1
  <1>7. y \in NodeRec /\ Rooted(y, Cur(s1)) /\ y.type \in Asks /\ IsRoque(y) /\ Asking(y)
    <2>1. /\ y \in NodeRec /\ Rooted(y, Cur(s1)) /\ y.type = type
          /\ From(y) = From(Cur(s1)) /\ To(y) = To(Cur(s1))
      BY <1>4, <1>5 DEF NodeRec, Rooted, Asks, From, To
    <2>2. IsRoque(y)
      BY <1>4, <2>1 DEF IsRoque
    <2> QED
      BY <1>1, <1>4, <2>1, <2>2 DEF Blank, Asking
  <1> HIDE DEF y, s2
  <1>8. /\ Extended(s, s2, y) /\ Cur(s2) = y /\ s2.m \in DOMAIN s2.node
        /\ s2.tos = s1.tos /\ s2.status = s1.status
        /\ \A q : s2.tos = s.tos /\ Filled(s2, q) => Adds(s, q)
    <2>1. Refilled(s, s1, y, s2)
      BY <1>1, <1>6, <1>7, Refills
    <2> QED
      BY <2>1 DEF Refilled
  <1>9. s2 \in Game
    BY <1>8 DEF Extended
  <1>10. execute_move(s2).status = "reading"
    BY <1>3
  <1>11. Filled(s2, execute_move(s2))
    BY <1>1, <1>7, <1>8, <1>9, <1>10, Plays
  <1> QED
    BY <1>1, <1>2, <1>3, <1>8, <1>11

-----------------------------------------------------------------------------
(* The inductive invariant. *)
\* Where the reader is, and where the variations that are open return to.
Ends(s) == {s.m} \cup {s.stack[j].d : j \in DOMAIN s.stack}

\* Every node follows, or replaces, an older one; a variation is entered from a
\* younger node than the one around it.
Aged(s) ==
    /\ Chain \in DOMAIN s.node /\ s.node[Chain].how = "start" /\ s.node[Chain].prev = NULL
    /\ \A i \in DOMAIN s.node : i # Chain => s.node[i].prev \in 1..i - 1
    /\ s.m \in DOMAIN s.node
    /\ \A j \in DOMAIN s.stack :
          /\ s.stack[j].d \in DOMAIN s.node /\ s.stack[j].d < s.m
          /\ s.node[s.stack[j].d].how = "played"
          /\ \A k \in DOMAIN s.stack : j < k => s.stack[j].d < s.stack[k].d

\* L holds the lines of the game that the reader is in or will return to.
Lines(s, L) ==
    /\ L \subseteq DOMAIN s.node /\ Chain \in L /\ L \cap s.freed = {}
    /\ \A i \in L : i # Chain => s.node[i].prev \in L
    /\ Ends(s) \subseteq L

\* A move played at p: the other side moves, and the board is p's but for it.
After(p, n) ==
    /\ n.whiteturn <=> ~p.whiteturn
    /\ n.move = p.move + (IF n.whiteturn THEN 1 ELSE 0)
    /\ Balance(p.seen, n.seen, n)
    /\ n.type # "EN_PASSANT" => Retold(p.seen, n)

\* The head h of a variation, and the move mo it replaces: whatever follows h
\* has the side and the number of mo.
Replaces(h, mo) ==
    /\ mo.whiteturn <=> ~h.whiteturn
    /\ mo.move = h.move + (IF mo.whiteturn THEN 1 ELSE 0)

Just(s, i) ==
    LET n == s.node[i]
        p == s.node[n.prev]
    IN  n.how = "played" => /\ After(p, n)
                            /\ p.how = "open" => Replaces(p, s.node[p.prev])

Opened(s) ==
    Cur(s).how = "open" => s.stack # <<>> /\ Replaces(Cur(s), s.node[Cur(s).prev])

\* The boards kept are those of the nodes they belong to.
Positions(s) ==
    /\ s.tos = Cur(s).seen
    /\ \A j \in DOMAIN s.stack : s.stack[j].b = s.node[s.stack[j].d].seen

\* While pieces are being placed, only castling and promotions are played.
Marked(s) ==
    \A i \in Ends(s) : s.node[i].how = "played" /\ s.configuring
                           => IsRoque(s.node[i]) \/ s.node[i].promotion # VOID

Good(s) ==
    /\ s \in Game /\ s.freed \subseteq DOMAIN s.node
    /\ s.configuring => s.configside \in Color
    /\ Aged(s) /\ Opened(s) /\ Positions(s) /\ Marked(s)
    /\ \A i \in Ends(s) : Just(s, i)
    /\ \E L : Lines(s, L)

IInv == fed \in Nat /\ (nt.status = "reading" => Good(nt))

-----------------------------------------------------------------------------
(* Nodes whose links alone differ, and the node a step adds. *)
Alike(x, y) ==
    /\ x.prev = y.prev /\ x.move = y.move /\ (x.whiteturn <=> y.whiteturn)
    /\ x.type = y.type /\ x.piece = y.piece /\ x.fromlig = y.fromlig /\ x.fromcol = y.fromcol
    /\ x.tolig = y.tolig /\ x.tocol = y.tocol /\ x.prise = y.prise
    /\ x.promotion = y.promotion /\ x.how = y.how /\ x.seen = y.seen
Same(r, s) == \A k \in DOMAIN s.node : k \in DOMAIN r.node /\ Alike(r.node[k], s.node[k])

LEMMA AlikeReplaces ==
    ASSUME NEW h, NEW k, NEW m, NEW n, Alike(h, k), Alike(m, n), Replaces(k, n)
    PROVE  Replaces(h, m)
  BY DEF Replaces, Alike

LEMMA AlikeAfter ==
    ASSUME NEW p \in NodeRec, NEW q \in NodeRec, NEW n \in NodeRec, NEW o \in NodeRec,
           Alike(p, q), Alike(n, o), After(q, o)
    PROVE  After(p, n)
  <1>1. /\ n.whiteturn <=> ~p.whiteturn
        /\ n.move = p.move + (IF n.whiteturn THEN 1 ELSE 0)
    BY DEF After, Alike
  <1>2. n.whiteturn = o.whiteturn
    BY DEF Alike, NodeRec
  <1>3. Balance(p.seen, n.seen, n)
    BY <1>2 DEF After, Alike, Balance, CURCOLOR, OPPCOLOR, Captures
  <1>4. undo_move(n.seen, n) = undo_move(o.seen, o)
    BY <1>2, UndoRooted DEF Alike
  <1>5. ASSUME NEW g, Retold(g, o) PROVE Retold(g, n)
    <2>1. Agree(o, n) /\ n.seen = o.seen
      BY <1>2 DEF Agree, Alike
    <2>2. do_move(g, o) = do_move(g, n) /\ (Legible(g, o) => Legible(g, n))
      BY <2>1, AgreeDoes
    <2> QED
      BY <1>4, <1>5, <2>1, <2>2 DEF Retold
  <1>6. n.type = o.type /\ p.seen = q.seen
    BY DEF Alike
  <1>7. n.type # "EN_PASSANT" => Retold(p.seen, n)
    BY <1>5, <1>6 DEF After
  <1> QED
    BY <1>1, <1>3, <1>6, <1>7 DEF After

LEMMA JustSame ==
    ASSUME NEW s \in Game, NEW r \in Game, Aged(s), Same(r, s), NEW i \in DOMAIN s.node, Just(s, i)
    PROVE  Just(r, i)
  <1> DEFINE o == s.node[i]
             n == r.node[i]
             q == s.node[o.prev]
             p == r.node[n.prev]
  <1>1. SUFFICES ASSUME n.how = "played"
                 PROVE  After(p, n) /\ (p.how = "open" => Replaces(p, r.node[p.prev]))
    BY DEF Just
  <1>2. n \in NodeRec /\ o \in NodeRec /\ Alike(n, o)
    BY DEF Same, Game
  <1>3. i # Chain
    BY <1>1, <1>2 DEF Aged, Alike
  <1>4. o.prev \in DOMAIN s.node /\ n.prev = o.prev
    <2>1. o.prev \in 1..i - 1
      BY <1>3 DEF Aged
    <2>2. DOMAIN s.node = 1..Len(s.node) /\ Len(s.node) \in Nat
      BY DEF Game
    <2>3. n.prev = o.prev
      BY <1>2 DEF Alike
    <2> HIDE DEF o, n
    <2> QED
      BY <2>1, <2>2, <2>3
  <1>5. p \in NodeRec /\ q \in NodeRec /\ Alike(p, q)
    BY <1>4 DEF Same, Game
  <1>6. o.how = "played" /\ After(q, o) /\ (q.how = "open" => Replaces(q, s.node[q.prev]))
    <2>1. o.how = "played"
      BY <1>1, <1>2 DEF Alike
    <2> QED
      BY <2>1 DEF Just
  <1>7. After(p, n)
    <2> HIDE DEF n, o, p, q
    <2> QED
      BY <1>2, <1>5, <1>6, AlikeAfter
  <1>8. ASSUME p.how = "open" PROVE Replaces(p, r.node[p.prev])
    <2>1. q.how = "open" /\ p.prev = q.prev
      BY <1>5, <1>8 DEF Alike
    <2>2. o.prev # Chain
      BY <2>1 DEF Aged
    <2>3. q.prev \in DOMAIN s.node
      <3>1. q.prev \in 1..o.prev - 1
        BY <1>4, <2>2 DEF Aged
      <3>2. DOMAIN s.node = 1..Len(s.node) /\ Len(s.node) \in Nat
        BY DEF Game
      <3> HIDE DEF o, q
      <3> QED
        BY <1>4, <3>1, <3>2
    <2>4. Alike(r.node[p.prev], s.node[q.prev])
      <3> HIDE DEF p, q
      <3> QED
        BY <2>1, <2>3 DEF Same
    <2> HIDE DEF p, q
    <2> QED
      BY <1>5, <1>6, <2>1, <2>4, AlikeReplaces
  <1> QED
    BY <1>7, <1>8

\* A node added after m, whether a move or the head of a variation.
Grown(s, r) ==
    /\ r \in Game /\ r.freed = s.freed
    /\ r.configuring = s.configuring /\ r.configside = s.configside
    /\ r.m = Len(s.node) + 1 /\ Len(r.node) = Len(s.node) + 1 /\ Same(r, s)
    /\ Cur(r).prev = s.m
    /\ \/ r.stack = s.stack
       \/ r.stack = Append(s.stack, [d |-> s.m, b |-> s.tos]) /\ Cur(s).how = "played"

LEMMA GrownAges ==
    ASSUME NEW s, NEW r, Good(s), Grown(s, r)
    PROVE  /\ Aged(r) /\ r.freed \subseteq DOMAIN r.node /\ (r.configuring => r.configside \in Color)
           /\ \E L : Lines(r, L)
           /\ \A i \in Ends(r) : i # r.m => Just(r, i)
           /\ \A j \in DOMAIN r.stack : r.stack[j].b = r.node[r.stack[j].d].seen
           /\ Alike(r.node[s.m], Cur(s)) /\ s.m \in Ends(s)
           /\ (Cur(r).how = "played" /\ r.configuring
                   => IsRoque(Cur(r)) \/ Cur(r).promotion # VOID) => Marked(r)
  <1> DEFINE k == Len(s.node)
             w == [d |-> s.m, b |-> s.tos]
  <1>1. /\ s \in Game /\ r \in Game /\ s.node \in Seq(NodeRec) /\ r.node \in Seq(NodeRec)
        /\ s.stack \in Seq(Saved) /\ k \in Nat
        /\ DOMAIN s.node = 1..k /\ DOMAIN r.node = 1..k + 1
    BY DEF Good, Grown, Game
  <1>2. Aged(s) /\ Positions(s) /\ Same(r, s) /\ s.freed \subseteq 1..k
    BY <1>1 DEF Good, Grown
  <1>m. s.m \in 1..k /\ r.m = k + 1
    BY <1>1, <1>2 DEF Aged, Grown
  <1>3. /\ \A i \in 1..k : /\ r.node[i].prev = s.node[i].prev /\ r.node[i].how = s.node[i].how
                           /\ r.node[i].seen = s.node[i].seen
        /\ r.node[k + 1].prev = s.m
    BY <1>1, <1>2 DEF Same, Alike, Grown, Cur
  <1> HIDE DEF k
  <1>4. /\ \A j \in DOMAIN r.stack :
             \/ j \in DOMAIN s.stack /\ r.stack[j] = s.stack[j]
             \/ j = Len(s.stack) + 1 /\ r.stack[j] = w /\ Cur(s).how = "played"
        /\ DOMAIN s.stack = 1..Len(s.stack) /\ Len(s.stack) \in Nat
    <2>1. CASE r.stack = s.stack
      BY <1>1, <2>1
    <2>2. CASE r.stack = Append(s.stack, w) /\ Cur(s).how = "played"
      <3>1. w \in Saved
        BY <1>1, <1>m DEF Saved, Game
      <3> HIDE DEF w
      <3>2. DOMAIN r.stack = 1..Len(s.stack) + 1
        BY <1>1, <2>2, <3>1
      <3>3. \A j \in 1..Len(s.stack) : r.stack[j] = s.stack[j]
        BY <1>1, <2>2, <3>1
      <3>4. r.stack[Len(s.stack) + 1] = w
        BY <1>1, <2>2, <3>1
      <3>5. DOMAIN s.stack = 1..Len(s.stack) /\ Len(s.stack) \in Nat
        BY <1>1
      <3> QED
        BY <2>2, <3>2, <3>3, <3>4, <3>5
    <2> QED
      BY <2>1, <2>2 DEF Grown
  <1>w. w.d = s.m /\ w.b = s.tos
    OBVIOUS
  <1> HIDE DEF w
  <1>5. \A j \in DOMAIN s.stack :
          /\ s.stack[j].d \in 1..k /\ s.stack[j].d < s.m
          /\ s.node[s.stack[j].d].how = "played"
          /\ \A i \in DOMAIN s.stack : j < i => s.stack[j].d < s.stack[i].d
    BY <1>1, <1>2 DEF Aged
  <1>6. Aged(r)
    <2>1. Chain \in DOMAIN r.node /\ r.node[Chain].how = "start" /\ r.node[Chain].prev = NULL
      BY <1>1, <1>2, <1>3 DEF Aged
    <2>2. \A i \in DOMAIN r.node : i # Chain => r.node[i].prev \in 1..i - 1
      <3>1. \A i \in 1..k : i # Chain => r.node[i].prev \in 1..i - 1
        BY <1>1, <1>2, <1>3 DEF Aged
      <3>2. r.node[k + 1].prev \in 1..(k + 1) - 1
        BY <1>1, <1>3, <1>m
      <3> QED
        BY <1>1, <3>1, <3>2
    <2>3. ASSUME NEW j \in DOMAIN r.stack
          PROVE  /\ r.stack[j].d \in 1..k /\ r.node[r.stack[j].d].how = "played"
                 /\ \A i \in DOMAIN r.stack : j < i => r.stack[j].d < r.stack[i].d
      <3>1. CASE j \in DOMAIN s.stack /\ r.stack[j] = s.stack[j]
        BY <1>3, <1>4, <1>5, <1>w, <3>1
      <3>2. CASE j = Len(s.stack) + 1 /\ r.stack[j] = w /\ Cur(s).how = "played"
        BY <1>3, <1>4, <1>m, <1>w, <3>2 DEF Cur
      <3> QED
        BY <1>4, <3>1, <3>2
    <2>4. r.m \in DOMAIN r.node /\ \A j \in DOMAIN r.stack : r.stack[j].d \in DOMAIN r.node /\ r.stack[j].d < r.m
      BY <1>1, <1>m, <2>3
    <2> QED
      BY <2>1, <2>2, <2>3, <2>4 DEF Aged
  <1>7. PICK L : Lines(s, L)
    BY DEF Good
  <1>8. Ends(r) \subseteq Ends(s) \cup {r.m}
    <2>1. \A j \in DOMAIN r.stack : r.stack[j].d \in Ends(s)
      BY <1>4, <1>w DEF Ends
    <2> QED
      BY <2>1 DEF Ends
  <1>9. Lines(r, L \cup {k + 1})
    <2>1. L \subseteq 1..k /\ Chain \in L /\ L \cap s.freed = {} /\ Ends(s) \subseteq L
          /\ \A i \in L : i # Chain => s.node[i].prev \in L
      BY <1>1, <1>7 DEF Lines
    <2>2. k + 1 \notin s.freed
      BY <1>1, <1>2
    <2>3. s.m \in L
      BY <2>1 DEF Ends
    <2>4. \A i \in L \cup {k + 1} : i # Chain => r.node[i].prev \in L \cup {k + 1}
      BY <1>3, <2>1, <2>3
    <2>5. (L \cup {k + 1}) \cap r.freed = {}
      BY <2>1, <2>2 DEF Grown
    <2>6. L \cup {k + 1} \subseteq DOMAIN r.node
      BY <1>1, <2>1
    <2>7. Ends(r) \subseteq L \cup {k + 1}
      BY <1>8, <1>m, <2>1
    <2> QED
      BY <2>1, <2>4, <2>5, <2>6, <2>7 DEF Lines
  <1>10. ASSUME NEW i \in Ends(r), i # r.m PROVE Just(r, i)
    <2>1. i \in Ends(s) /\ Just(s, i)
      BY <1>8, <1>10 DEF Good
    <2>2. i \in DOMAIN s.node
      BY <1>7, <2>1 DEF Lines
    <2> QED
      BY <1>1, <1>2, <2>1, <2>2, JustSame
  <1>11. \A j \in DOMAIN r.stack : r.stack[j].b = r.node[r.stack[j].d].seen
    <2>1. s.tos = s.node[s.m].seen /\ \A j \in DOMAIN s.stack : s.stack[j].b = s.node[s.stack[j].d].seen
      BY <1>2 DEF Positions, Cur
    <2>2. ASSUME NEW j \in DOMAIN r.stack PROVE r.stack[j].b = r.node[r.stack[j].d].seen
      <3>1. CASE j \in DOMAIN s.stack /\ r.stack[j] = s.stack[j]
        <4>1. s.stack[j].d \in 1..k /\ s.stack[j].b = s.node[s.stack[j].d].seen
          BY <1>5, <2>1, <3>1
        <4> QED
          BY <1>3, <3>1, <4>1
      <3>2. CASE r.stack[j] = w
        BY <1>3, <1>m, <1>w, <2>1, <3>2
      <3> QED
        BY <1>4, <3>1, <3>2
    <2> QED
      BY <2>2
  <1>12. r.freed \subseteq DOMAIN r.node /\ (r.configuring => r.configside \in Color)
    BY <1>1, <1>2 DEF Grown, Good
  <1>13. Alike(r.node[s.m], Cur(s)) /\ s.m \in Ends(s)
    BY <1>1, <1>2, <1>m DEF Same, Cur, Ends
  <1>14. ASSUME NEW i \in Ends(r), i # r.m, r.node[i].how = "played", r.configuring
         PROVE  IsRoque(r.node[i]) \/ r.node[i].promotion # VOID
    <2>1. i \in Ends(s) /\ s.configuring /\ Marked(s)
      BY <1>8, <1>14 DEF Good, Grown
    <2>2. i \in DOMAIN s.node
      BY <1>7, <2>1 DEF Lines
    <2>3. Alike(r.node[i], s.node[i])
      BY <1>2, <2>2 DEF Same
    <2> QED
      BY <1>14, <2>1, <2>3 DEF Marked, Alike, IsRoque
  <1>15. (Cur(r).how = "played" /\ r.configuring
            => IsRoque(Cur(r)) \/ Cur(r).promotion # VOID) => Marked(r)
    BY <1>14 DEF Marked, Cur
  <1> QED
    BY <1>6, <1>9, <1>10, <1>11, <1>12, <1>13, <1>15

-----------------------------------------------------------------------------
(* One lemma for each step of the reader. *)
LEMMA SeqPut ==
    ASSUME NEW V, NEW q \in Seq(V), NEW i \in DOMAIN q, NEW z \in V
    PROVE  /\ [q EXCEPT ![i] = z] \in Seq(V) /\ Len([q EXCEPT ![i] = z]) = Len(q)
           /\ [q EXCEPT ![i] = z][i] = z
           /\ \A k \in DOMAIN q : k # i => [q EXCEPT ![i] = z][k] = q[k]
  <1>1. [q EXCEPT ![i] = z] \in Seq(V) /\ Len([q EXCEPT ![i] = z]) = Len(q)
    OBVIOUS
  <1>2. [q EXCEPT ![i] = z][i] = z /\ \A k \in DOMAIN q : k # i => [q EXCEPT ![i] = z][k] = q[k]
    OBVIOUS
  <1> QED
    BY <1>1, <1>2

LEMMA LinkKeeps ==
    ASSUME NEW s \in Game, NEW i, NEW born \in Nat
    PROVE  LET nexts == [s.node EXCEPT ![i].next = born]
               subs == [s.node EXCEPT ![i].sub = born]
           IN  /\ nexts \in Seq(NodeRec) /\ subs \in Seq(NodeRec)
               /\ Len(nexts) = Len(s.node) /\ Len(subs) = Len(s.node)
               /\ \A k \in DOMAIN s.node : /\ Alike(nexts[k], s.node[k])
                                           /\ Alike(subs[k], s.node[k])
  <1>1. s.node \in Seq(NodeRec)
    BY DEF Game
  <1>2. \A k \in DOMAIN s.node : s.node[k] \in NodeRec /\ Alike(s.node[k], s.node[k])
    BY <1>1 DEF Alike
  <1>3. CASE i \notin DOMAIN s.node
    <2>1. [s.node EXCEPT ![i].next = born] = s.node /\ [s.node EXCEPT ![i].sub = born] = s.node
      BY <1>1, <1>3
    <2> QED
      BY <1>1, <1>2, <2>1
  <1>4. CASE i \in DOMAIN s.node
    <2> DEFINE x == [s.node[i] EXCEPT !.next = born]
               y == [s.node[i] EXCEPT !.sub = born]
    <2>1. x \in NodeRec /\ y \in NodeRec /\ Alike(x, s.node[i]) /\ Alike(y, s.node[i])
      <3>1. s.node[i] \in NodeRec
        BY <1>2, <1>4
      <3> QED
        BY <3>1 DEF NodeRec, Alike
    <2>2. /\ [s.node EXCEPT ![i].next = born] = [s.node EXCEPT ![i] = x]
          /\ [s.node EXCEPT ![i].sub = born] = [s.node EXCEPT ![i] = y]
      OBVIOUS
    <2> HIDE DEF x, y
    <2>3. ASSUME NEW z \in NodeRec, Alike(z, s.node[i])
          PROVE  LET q == [s.node EXCEPT ![i] = z]
                 IN  /\ q \in Seq(NodeRec) /\ Len(q) = Len(s.node)
                     /\ \A k \in DOMAIN s.node : Alike(q[k], s.node[k])
      <3> DEFINE q == [s.node EXCEPT ![i] = z]
      <3>1. /\ q \in Seq(NodeRec) /\ Len(q) = Len(s.node) /\ q[i] = z
            /\ \A k \in DOMAIN s.node : k # i => q[k] = s.node[k]
        BY <1>1, <1>4, SeqPut
      <3> HIDE DEF q
      <3>2. \A k \in DOMAIN s.node : Alike(q[k], s.node[k])
        BY <1>2, <2>3, <3>1
      <3> QED
        BY <3>1, <3>2 DEF q
    <2>4. LET q == [s.node EXCEPT ![i] = x]
          IN  /\ q \in Seq(NodeRec) /\ Len(q) = Len(s.node)
              /\ \A k \in DOMAIN s.node : Alike(q[k], s.node[k])
      BY <2>1, <2>3
    <2>5. LET q == [s.node EXCEPT ![i] = y]
          IN  /\ q \in Seq(NodeRec) /\ Len(q) = Len(s.node)
              /\ \A k \in DOMAIN s.node : Alike(q[k], s.node[k])
      BY <2>1, <2>3
    <2> QED
      BY <2>2, <2>4, <2>5
  <1> QED
    BY <1>3, <1>4

LEMMA AppendKeeps ==
    ASSUME NEW s \in Game, NEW q \in Seq(NodeRec), Len(q) = Len(s.node),
           \A k \in DOMAIN s.node : Alike(q[k], s.node[k]), NEW n \in NodeRec,
           NEW r, r.node = Append(q, n), r.m = Len(s.node) + 1
    PROVE  Same(r, s) /\ Len(r.node) = Len(s.node) + 1 /\ Cur(r) = n
  <1>1. DOMAIN s.node = 1..Len(s.node) /\ Len(s.node) \in Nat
    BY DEF Game
  <1>2. /\ DOMAIN r.node = 1..Len(s.node) + 1 /\ Len(r.node) = Len(s.node) + 1
        /\ \A k \in 1..Len(s.node) : r.node[k] = q[k]
        /\ r.node[Len(s.node) + 1] = n
    BY <1>1
  <1>3. Same(r, s)
    BY <1>1, <1>2 DEF Same
  <1> QED
    BY <1>2, <1>3 DEF Cur

\* A move of the input, castling among them.
LEMMA MoveGood ==
    ASSUME NEW s, NEW r, Good(s), Adds(s, r), Cur(r).how = "played" => SoundMove(s.tos, Cur(r))
    PROVE  Good(r)
  <1>1. PICK n : /\ Extended(s, r, n) /\ r.tos = n.seen
                 /\ n.how \in {"rejected", "placed", "played"} /\ Heard(s, n)
    BY DEF Adds
  <1>2. s \in Game /\ r \in Game /\ n \in NodeRec /\ Follows(s, n) /\ Len(s.node) + 1 \in Nat
        /\ s.node \in Seq(NodeRec) /\ s.m \in DOMAIN s.node
    BY <1>1 DEF Good, Extended, Follows, Game, Aged
  <1>3. Same(r, s) /\ Len(r.node) = Len(s.node) + 1 /\ Cur(r) = n
    <2> DEFINE q == [s.node EXCEPT ![s.m].next = Len(s.node) + 1]
    <2>1. q \in Seq(NodeRec) /\ Len(q) = Len(s.node) /\ \A k \in DOMAIN s.node : Alike(q[k], s.node[k])
      BY <1>2, LinkKeeps
    <2>2. r.node = Append(q, n) /\ r.m = Len(s.node) + 1
      BY <1>1 DEF Extended
    <2> HIDE DEF q
    <2> QED
      BY <1>2, <2>1, <2>2, AppendKeeps
  <1>4. Grown(s, r)
    BY <1>1, <1>2, <1>3 DEF Grown, Extended, Follows
  <1>5. /\ Aged(r) /\ r.freed \subseteq DOMAIN r.node /\ (r.configuring => r.configside \in Color)
        /\ \E L : Lines(r, L)
        /\ \A i \in Ends(r) : i # r.m => Just(r, i)
        /\ \A j \in DOMAIN r.stack : r.stack[j].b = r.node[r.stack[j].d].seen
        /\ Alike(r.node[s.m], Cur(s))
        /\ (Cur(r).how = "played" /\ r.configuring
               => IsRoque(Cur(r)) \/ Cur(r).promotion # VOID) => Marked(r)
    BY <1>4, GrownAges
  <1>6. Opened(r)
    BY <1>1, <1>3 DEF Opened
  <1>7. Positions(r)
    BY <1>1, <1>3, <1>5 DEF Positions
  <1>8. Just(r, r.m)
    <2> DEFINE p == r.node[s.m]
    <2>1. n.prev = s.m /\ r.node[r.m] = n
      BY <1>2, <1>3 DEF Follows, Cur
    <2>2. p.seen = s.tos /\ (p.whiteturn <=> Cur(s).whiteturn) /\ p.move = Cur(s).move
          /\ p.how = Cur(s).how /\ p.prev = Cur(s).prev
      BY <1>5 DEF Alike, Good, Positions
    <2>3. ASSUME n.how = "played" PROVE After(p, n)
      <3>1. /\ Balance(s.tos, n.seen, n)
            /\ n.type # "EN_PASSANT" => Retold(s.tos, n)
        BY <1>1, <1>3, <2>3 DEF Kept, Heard
      <3>2. /\ n.whiteturn <=> ~p.whiteturn
            /\ n.move = p.move + (IF n.whiteturn THEN 1 ELSE 0)
        BY <1>2, <2>2 DEF Follows
      <3> HIDE DEF p
      <3> QED
        BY <2>2, <3>1, <3>2 DEF After
    <2>4. ASSUME p.how = "open" PROVE Replaces(p, r.node[p.prev])
      <3>1. Cur(s).how = "open" /\ Replaces(Cur(s), s.node[Cur(s).prev])
        BY <2>2, <2>4 DEF Good, Opened
      <3>2. Cur(s).prev \in DOMAIN s.node
        <4>1. Cur(s).prev \in 1..s.m - 1
          BY <1>2, <3>1 DEF Good, Aged, Cur
        <4> QED
          BY <1>2, <4>1
      <3>3. Alike(r.node[p.prev], s.node[Cur(s).prev])
        BY <1>3, <2>2, <3>2 DEF Same
      <3> HIDE DEF p
      <3> QED
        BY <1>5, <3>1, <3>3, AlikeReplaces DEF p
    <2> HIDE DEF p
    <2> QED
      BY <2>1, <2>3, <2>4 DEF Just, p
  <1>9. Marked(r)
    BY <1>1, <1>3, <1>4, <1>5 DEF Heard, Grown
  <1> QED
    BY <1>2, <1>5, <1>6, <1>7, <1>8, <1>9 DEF Good

\* A variation is opened, after a move that can be taken back.
LEMMA OpenGood ==
    ASSUME NEW s, Good(s), s.status = "reading", Cur(s).how = "played",
           Cur(s).type # "EN_PASSANT", enter_variation(s).status = "reading"
    PROVE  Good(enter_variation(s))
  <1> DEFINE r == enter_variation(s)
             mo == s.m
             born == Len(s.node) + 1
             before == s.node[s.node[mo].prev]
             ip == CHOOSE i \in Variations(s, mo) : s.node[i].sub = NULL
             n0 == Node("open", before.seen)
             head == [n0 EXCEPT !.prev = mo, !.whiteturn = before.whiteturn, !.move = before.move]
             q == [s.node EXCEPT ![ip].sub = born]
             w == [d |-> mo, b |-> s.tos]
             undone == undo_move(s.tos, Cur(s))
  <1>1. /\ s \in Game /\ s.node \in Seq(NodeRec) /\ born \in Nat /\ mo \in DOMAIN s.node /\ mo \in Nat
        /\ s.tos \in Boards /\ DOMAIN s.node = 1..Len(s.node) /\ Len(s.node) \in Nat
        /\ s.stack \in Seq(Saved)
    BY DEF Good, Game, Aged
  <1>2. CASE Len(s.stack) >= VARIATION_MAX
    <2>1. r = [s EXCEPT !.error = TRUE]
      BY <1>2 DEF enter_variation
    <2> HIDE DEF r
    <2>2. /\ r.node = s.node /\ r.m = s.m /\ r.stack = s.stack /\ r.freed = s.freed /\ r.tos = s.tos
          /\ r.configuring = s.configuring /\ r.configside = s.configside /\ r \in Game
      BY <1>1, <2>1 DEF Game
    <2>3. Good(r)
      BY <2>2 DEF Good, Aged, Opened, Positions, Marked, Just, Lines, Ends, Cur
    <2> QED
      BY <2>3 DEF r
  <1>3. CASE ~(Len(s.stack) >= VARIATION_MAX)
    <2>1. /\ r = [add_variation(s, mo) EXCEPT !.stack = Append(@, w), !.tos = undo_move(@, Cur(s))]
      <3>1. \A x : Fault(s).status # "reading" /\ Exit(s).status # "reading"
        BY <1>1 DEF Fault, Exit, Game
      <3> QED
        BY <1>3, <3>1 DEF enter_variation
    <2>2. add_variation(s, mo) = [s EXCEPT !.node = Append(q, head), !.m = born]
      BY DEF add_variation
    <2>3. Just(s, mo) /\ mo # Chain /\ s.node[mo].prev \in 1..mo - 1
      BY <1>1 DEF Good, Ends, Aged, Cur
    <2>4. s.node[mo].prev \in DOMAIN s.node /\ before \in NodeRec
      BY <1>1, <2>3
    <2>5. After(before, Cur(s))
      BY <2>3 DEF Just, Cur
    <2> HIDE DEF before
    <2>6. n0 \in NodeRec /\ n0.how = "open" /\ n0.seen = before.seen
      <3>1. before.seen \in Boards
        BY <2>4 DEF NodeRec
      <3> QED
        BY <3>1 DEF Node, NodeRec, Kinds, Role, Births, NULL
    <2> HIDE DEF n0
    <2>7. /\ head \in NodeRec /\ head.how = "open" /\ head.seen = before.seen /\ head.prev = mo
          /\ head.move = before.move
      BY <1>1, <2>4, <2>6 DEF NodeRec
    <2>8. head.whiteturn <=> before.whiteturn
      BY <2>4, <2>6 DEF NodeRec
    <2> HIDE DEF ip, head
    <2>9. q \in Seq(NodeRec) /\ Len(q) = Len(s.node) /\ \A k \in DOMAIN s.node : Alike(q[k], s.node[k])
      <3>1. s \in Game /\ born \in Nat
        BY <1>1
      <3> HIDE DEF born
      <3> QED
        BY <3>1, LinkKeeps
    <2> HIDE DEF q
    <2>10. /\ r.node = Append(q, head) /\ r.m = born /\ r.stack = Append(s.stack, w)
           /\ r.tos = undone /\ r.freed = s.freed
           /\ r.configuring = s.configuring /\ r.configside = s.configside
      BY <1>1, <2>1, <2>2 DEF Game
    <2>11. undone = before.seen
      <3>1. s.tos = Cur(s).seen
        BY DEF Good, Positions
      <3> QED
        BY <2>5, <3>1 DEF After, Retold
    <2>12. r \in Game
      <3>1. Append(q, head) \in Seq(NodeRec)
        BY <2>7, <2>9
      <3>2. Append(s.stack, w) \in Seq(Saved)
        BY <1>1 DEF Saved
      <3>3. undone \in Boards
        BY <2>4, <2>11 DEF NodeRec
      <3>4. r = [s EXCEPT !.node = Append(q, head), !.m = born, !.stack = Append(s.stack, w), !.tos = undone]
        BY <1>1, <2>1, <2>2 DEF Game
      <3> HIDE DEF r, w, undone, born
      <3> QED
        BY <1>1, <3>1, <3>2, <3>3, <3>4 DEF Game
    <2> HIDE DEF r, undone
    <2>13. Same(r, s) /\ Len(r.node) = Len(s.node) + 1 /\ Cur(r) = head
      BY <1>1, <2>7, <2>9, <2>10, AppendKeeps
    <2>14. Grown(s, r)
      BY <2>7, <2>10, <2>12, <2>13 DEF Grown
    <2>15. /\ Aged(r) /\ r.freed \subseteq DOMAIN r.node /\ (r.configuring => r.configside \in Color)
           /\ \E L : Lines(r, L)
           /\ \A i \in Ends(r) : i # r.m => Just(r, i)
           /\ \A j \in DOMAIN r.stack : r.stack[j].b = r.node[r.stack[j].d].seen
           /\ Alike(r.node[s.m], Cur(s))
           /\ (Cur(r).how = "played" /\ r.configuring
                  => IsRoque(Cur(r)) \/ Cur(r).promotion # VOID) => Marked(r)
      BY <2>14, GrownAges
    <2>16. Positions(r)
      BY <2>7, <2>10, <2>11, <2>13, <2>15 DEF Positions
    <2>17. Opened(r)
      <3>1. Replaces(head, r.node[mo])
        BY <2>5, <2>7, <2>8, <2>15 DEF Replaces, After, Alike
      <3>2. r.stack # <<>>
        <4> HIDE DEF w
        <4>1. s.stack \in Seq(Saved)
          BY <1>1
        <4>2. r.stack = Append(s.stack, w)
          BY <2>10
        <4>3. Append(s.stack, w)[Len(s.stack) + 1] = w /\ Len(s.stack) + 1 \in DOMAIN Append(s.stack, w)
          BY <4>1
        <4>4. DOMAIN <<>> = {}
          OBVIOUS
        <4> QED
          BY <4>2, <4>3, <4>4
      <3> QED
        BY <2>7, <2>13, <3>1, <3>2 DEF Opened
    <2>18. Just(r, r.m)
      BY <2>7, <2>13 DEF Just, Cur
    <2>19. Marked(r)
      BY <2>7, <2>13, <2>15
    <2>20. Good(r)
      BY <2>12, <2>15, <2>16, <2>17, <2>18, <2>19 DEF Good
    <2> QED
      BY <2>20 DEF r
  <1> QED
    BY <1>2, <1>3

LEMMA FrontLast ==
    ASSUME NEW V, NEW q \in Seq(V), q # <<>>
    PROVE  /\ Len(q) \in Nat \ {0} /\ Last(q) = q[Len(q)] /\ Last(q) \in V
           /\ Front(q) \in Seq(V) /\ DOMAIN Front(q) = 1..Len(q) - 1
           /\ \A j \in DOMAIN Front(q) : Front(q)[j] = q[j] /\ j \in DOMAIN q
  BY DEF Front, Last

LEMMA FlagGood ==
    ASSUME NEW s, Good(s)
    PROVE  Good([s EXCEPT !.error = TRUE])
  <1> DEFINE r == [s EXCEPT !.error = TRUE]
  <1>1. /\ r.node = s.node /\ r.m = s.m /\ r.stack = s.stack /\ r.freed = s.freed /\ r.tos = s.tos
        /\ r.configuring = s.configuring /\ r.configside = s.configside /\ r \in Game
    BY DEF Game, Good
  <1> HIDE DEF r
  <1>2. Good(r)
    BY <1>1 DEF Good, Aged, Opened, Positions, Marked, Just, Lines, Ends, Cur
  <1> QED
    BY <1>2 DEF r

\* A variation is closed: the line it replaced is older than all it freed.
LEMMA CloseGood ==
    ASSUME NEW s, Good(s), exit_variation(s).status = "reading"
    PROVE  Good(exit_variation(s))
  <1> DEFINE r == exit_variation(s)
             k == Len(s.stack)
             d == s.stack[k].d
  <1>1. CASE s.stack = <<>>
    BY <1>1, FlagGood DEF exit_variation
  <1>2. CASE s.stack # <<>>
    <2>1. s \in Game /\ s.stack \in Seq(Saved) /\ DOMAIN s.node = 1..Len(s.node) /\ Len(s.node) \in Nat
      BY DEF Good, Game
    <2>2. /\ k \in Nat \ {0} /\ Last(s.stack) = s.stack[k] /\ Last(s.stack) \in Saved
          /\ Front(s.stack) \in Seq(Saved) /\ DOMAIN Front(s.stack) = 1..k - 1
          /\ \A j \in DOMAIN Front(s.stack) : Front(s.stack)[j] = s.stack[j] /\ j \in DOMAIN s.stack
          /\ DOMAIN s.stack = 1..k
      <3> DEFINE q == s.stack
      <3>1. q \in Seq(Saved) /\ q # <<>>
        BY <1>2, <2>1
      <3> HIDE DEF q
      <3>2. /\ Len(q) \in Nat \ {0} /\ Last(q) = q[Len(q)] /\ Last(q) \in Saved
            /\ Front(q) \in Seq(Saved) /\ DOMAIN Front(q) = 1..Len(q) - 1
            /\ \A j \in DOMAIN Front(q) : Front(q)[j] = q[j] /\ j \in DOMAIN q
        BY <3>1, FrontLast
      <3>3. DOMAIN q = 1..Len(q)
        BY <3>1
      <3> QED
        BY <3>2, <3>3 DEF q
    <2>3. r = [s EXCEPT !.freed = @ \cup {s.m}, !.m = d, !.tos = s.stack[k].b, !.stack = Front(@)]
      <3>1. Fault(s).status # "reading"
        BY <2>1 DEF Fault, Game
      <3> QED
        BY <1>2, <2>2, <3>1 DEF exit_variation
    <2>4. /\ r.node = s.node /\ r.m = d /\ r.stack = Front(s.stack) /\ r.freed = s.freed \cup {s.m}
          /\ r.tos = s.stack[k].b /\ r.configuring = s.configuring /\ r.configside = s.configside
      BY <2>1, <2>3 DEF Game
    <2>5. Aged(s) /\ Positions(s) /\ s.freed \subseteq DOMAIN s.node /\ k \in DOMAIN s.stack
      BY <2>2 DEF Good
    <2>6. s.stack[k].b \in Boards /\ s.stack[k].d \in Nat /\ s.m \in Nat
      BY <2>1, <2>2 DEF Saved, Game
    <2>7. r \in Game
      <3>1. r.freed \in SUBSET Nat
        BY <2>1, <2>4, <2>6 DEF Game
      <3>2. r = [s EXCEPT !.freed = r.freed, !.m = d, !.tos = r.tos, !.stack = Front(s.stack)]
        BY <2>1, <2>3, <2>4 DEF Game
      <3> HIDE DEF r, k
      <3> QED
        BY <2>1, <2>2, <2>4, <2>6, <3>1, <3>2 DEF Game
    <2> HIDE DEF r
    <2>8. /\ d \in DOMAIN s.node /\ d < s.m /\ s.node[d].how = "played"
          /\ \A j \in DOMAIN s.stack : j < k => s.stack[j].d < d
          /\ s.m \in DOMAIN s.node
      BY <2>5 DEF Aged
    <2>f. \A j \in DOMAIN r.stack : r.stack[j] = s.stack[j] /\ j \in DOMAIN s.stack /\ j < k
      BY <2>2, <2>4
    <2> HIDE DEF k, d
    <2>9. Aged(r)
      <3>1. \A j \in DOMAIN r.stack : /\ r.stack[j].d \in DOMAIN r.node /\ r.stack[j].d < r.m
                                      /\ r.node[r.stack[j].d].how = "played"
        BY <2>4, <2>5, <2>8, <2>f DEF Aged
      <3>2. \A j \in DOMAIN r.stack : \A i \in DOMAIN r.stack : j < i => r.stack[j].d < r.stack[i].d
        BY <2>5, <2>f DEF Aged
      <3>3. r.m \in DOMAIN r.node
        BY <2>4, <2>8
      <3> QED
        BY <2>4, <2>5, <3>1, <3>2, <3>3 DEF Aged
    <2>10. Ends(r) \subseteq Ends(s) /\ \A i \in Ends(r) : i <= d
      <3>1. d \in Ends(s) /\ d <= d
        BY <2>1, <2>5, <2>8 DEF Ends, d
      <3>2. \A j \in DOMAIN r.stack : r.stack[j].d \in Ends(s) /\ r.stack[j].d <= d
        <4>1. \A j \in DOMAIN s.stack : s.stack[j].d \in DOMAIN s.node
          BY <2>5 DEF Aged
        <4> QED
          BY <2>1, <2>8, <2>f, <4>1 DEF Ends
      <3> QED
        BY <2>4, <3>1, <3>2 DEF Ends
    <2>11. PICK L : Lines(s, L)
      BY DEF Good
    <2>12. Lines(r, L \cap 1..d)
      <3>1. L \subseteq DOMAIN s.node /\ Chain \in L /\ L \cap s.freed = {} /\ Ends(s) \subseteq L
            /\ \A i \in L : i # Chain => s.node[i].prev \in L
        BY <2>11 DEF Lines
      <3>2. \A i \in DOMAIN s.node : i # Chain => s.node[i].prev \in 1..i - 1
        BY <2>5 DEF Aged
      <3>3. Chain \in L \cap 1..d
        BY <2>1, <2>8, <3>1 DEF Chain
      <3>4. ASSUME NEW i \in L \cap 1..d, i # Chain PROVE s.node[i].prev \in L \cap 1..d
        <4>1. s.node[i].prev \in L /\ s.node[i].prev \in 1..i - 1
          BY <3>1, <3>2, <3>4
        <4> QED
          BY <2>1, <2>8, <4>1
      <3>5. (L \cap 1..d) \cap r.freed = {}
        BY <2>1, <2>4, <2>8, <3>1
      <3>6. Ends(r) \subseteq L \cap 1..d
        BY <2>1, <2>10, <3>1
      <3> QED
        BY <2>4, <3>1, <3>3, <3>4, <3>5, <3>6 DEF Lines
    <2>13. \A i \in Ends(r) : Just(r, i)
      <3>1. \A i \in Ends(s) : Just(s, i)
        BY DEF Good
      <3> QED
        BY <2>4, <2>10, <3>1 DEF Just
    <2>14. Opened(r)
      BY <2>4, <2>8 DEF Opened, Cur
    <2>15. Positions(r)
      <3>1. r.tos = Cur(r).seen
        BY <2>4, <2>5 DEF Positions, Cur, d
      <3>2. \A j \in DOMAIN r.stack : r.stack[j].b = r.node[r.stack[j].d].seen
        BY <2>4, <2>5, <2>f DEF Positions
      <3> QED
        BY <3>1, <3>2 DEF Positions
    <2>16. r.freed \subseteq DOMAIN r.node
      BY <2>4, <2>5, <2>8
    <2>17. r.configuring => r.configside \in Color
      BY <2>4 DEF Good
    <2>18. Marked(r)
      <3>1. Marked(s)
        BY DEF Good
      <3> QED
        BY <2>4, <2>10, <3>1 DEF Marked
    <2>19. Good(r)
      BY <2>7, <2>9, <2>12, <2>13, <2>14, <2>15, <2>16, <2>17, <2>18 DEF Good
    <2> QED
      BY <2>19 DEF r
  <1> QED
    BY <1>1, <1>2

LEMMA StartBoards == init_board \in Boards /\ clear_board \in Boards
  <1> DEFINE V == [piece : Piece \cup {VOID}, color : Color \cup {VOID}]
  <1>1. Empty \in V /\ Empty.piece = VOID /\ Empty.color = VOID
    BY DEF Empty, Cell
  <1>2. \A p \in Piece, c \in Color : Cell(p, c) \in V /\ Cell(p, c).piece # VOID /\ Cell(p, c).color # VOID
    BY DEF Cell, VOID, Piece, Color, WHITE, BLACK, KING, QUEEN, ROOK, BISHOP, KNIGHT, PAWN
  <1> HIDE DEF V
  <1>3. clear_board \in Boards
    BY <1>1 DEF clear_board, Boards, Board, Sound, V
  <1>4. init_board \in Boards
    <2>1. ASSUME NEW sq \in Squares
          PROVE  init_board[sq] \in V /\ (init_board[sq].piece = VOID <=> init_board[sq].color = VOID)
      <3> DEFINE back == <<ROOK, KNIGHT, BISHOP, QUEEN, KING, BISHOP, KNIGHT, ROOK>>
                 p == IF sq[1] \in {2, 7} THEN PAWN ELSE back[sq[2]]
                 c == IF sq[1] <= 2 THEN WHITE ELSE BLACK
      <3>1. init_board[sq] = IF sq[2] \notin 1..8 \/ sq[1] \notin {1, 2, 7, 8} THEN Empty ELSE Cell(p, c)
        BY DEF init_board
      <3>2. sq[2] \in 1..8 => p \in Piece
        BY DEF Piece
      <3>3. c \in Color
        BY DEF Color
      <3> HIDE DEF p, c
      <3> QED
        BY <1>1, <1>2, <3>1, <3>2, <3>3
    <2>2. init_board = [sq \in Squares |-> init_board[sq]]
      BY DEF init_board
    <2>3. init_board \in [Squares -> V]
      BY <2>1, <2>2
    <2> QED
      BY <2>1, <2>3 DEF Boards, Board, Sound, V
  <1> QED
    BY <1>3, <1>4

\* A state in which no variation is open, and one node of which has changed.
LEMMA AloneGood ==
    ASSUME NEW s, Good(s), s.stack = <<>>, NEW r \in Game, NEW c \in NodeRec, r.m \in DOMAIN s.node,
           r.node = [s.node EXCEPT ![r.m] = c], r.stack = <<>>,
           c.how = Cur([s EXCEPT !.m = r.m]).how, c.prev = s.node[r.m].prev,
           c.how \notin {"played", "open"}, r.tos = c.seen,
           s.freed \subseteq r.freed, r.freed \subseteq DOMAIN s.node, 
           r.configuring => r.configside \in Color, NEW L, Lines(s, L),
           r.m \in {s.m, Chain}, \E M \in SUBSET L : r.m \in M /\ Chain \in M /\ M \cap r.freed = {}
                                         /\ \A i \in M : i # Chain => s.node[i].prev \in M
    PROVE  Good(r)
  <1>1. s \in Game /\ s.node \in Seq(NodeRec) /\ Aged(s)
    BY DEF Good, Game
  <1>2. /\ DOMAIN r.node = DOMAIN s.node /\ r.node[r.m] = c
        /\ \A i \in DOMAIN s.node : i # r.m => r.node[i] = s.node[i]
    BY <1>1, SeqPut
  <1>h. c.how = s.node[r.m].how
    BY <1>1 DEF Cur, Game
  <1>3. \A i \in DOMAIN s.node : r.node[i].prev = s.node[i].prev /\ r.node[i].how = s.node[i].how
    BY <1>2, <1>h
  <1>4. Aged(r)
    <2>1. DOMAIN r.stack = {}
      OBVIOUS
    <2>2. Chain \in DOMAIN r.node /\ r.node[Chain].how = "start" /\ r.node[Chain].prev = NULL
      BY <1>1, <1>2, <1>3 DEF Aged
    <2>3. \A i \in DOMAIN r.node : i # Chain => r.node[i].prev \in 1..i - 1
      BY <1>1, <1>2, <1>3 DEF Aged
    <2> QED
      BY <1>2, <2>1, <2>2, <2>3 DEF Aged
  <1>5. Ends(r) = {r.m}
    BY DEF Ends
  <1>6. \E M : Lines(r, M)
    <2>1. PICK M \in SUBSET L : r.m \in M /\ Chain \in M /\ M \cap r.freed = {}
                                /\ \A i \in M : i # Chain => s.node[i].prev \in M
      OBVIOUS
    <2>2. M \subseteq DOMAIN s.node
      BY DEF Lines
    <2>3. Lines(r, M)
      BY <1>2, <1>3, <1>5, <2>1, <2>2 DEF Lines
    <2> QED
      BY <2>3
  <1>7. Cur(r) = c
    BY <1>2 DEF Cur
  <1>8. Opened(r) /\ Marked(r) /\ \A i \in Ends(r) : Just(r, i)
    BY <1>2, <1>5, <1>7 DEF Opened, Marked, Just
  <1>9. Positions(r)
    BY <1>7 DEF Positions
  <1> QED
    BY <1>2, <1>4, <1>6, <1>8, <1>9 DEF Good

LEMMA RestartGood ==
    ASSUME NEW s, Good(s), s.stack = <<>>, NEW key, Restart(s, key).status = "reading"
    PROVE  Good(Restart(s, key))
  <1> DEFINE config == key \in {<<"@configwhite">>, <<"@configblack">>}
             side == IF config THEN (IF key = <<"@configwhite">> THEN WHITE ELSE BLACK)
                     ELSE s.configside
             board == IF key = <<"@clearboard">> THEN clear_board
                      ELSE IF key = <<"@default">> THEN init_board ELSE s.tos
             s1 == [s EXCEPT !.tos = board, !.m = Chain, !.node[Chain].seen = board,
                             !.configuring = @ \/ config, !.configside = side]
             c == [s.node[Chain] EXCEPT !.seen = board, !.next = NULL, !.sub = NULL]
             r == Restart(s, key)
             more == Family(s1, Chain) \ {Chain}
  <1>1. s \in Game /\ s.node \in Seq(NodeRec) /\ Aged(s) /\ s.freed \subseteq DOMAIN s.node
        /\ Chain \in DOMAIN s.node /\ s.tos \in Boards
    BY DEF Good, Game, Aged
  <1>2. board \in Boards
    BY <1>1, StartBoards
  <1>3. r = free_move_list(s1, Chain)
    BY DEF Restart
  <1>4. DOMAIN s1.node = DOMAIN s.node /\ s1.freed = s.freed /\ s1.stack = <<>> /\ s1.tos = board
        /\ s1.m = Chain /\ s1.configside = side
    BY <1>1 DEF Game
  <1>5. more \subseteq DOMAIN s.node
    BY <1>4 DEF Family, Reach
  <1>6. r = [s1 EXCEPT !.freed = @ \cup more, !.node[Chain].next = NULL, !.node[Chain].sub = NULL]
    <2>1. Fault(s1).status # "reading"
      BY <1>1 DEF Fault, Game
    <2> QED
      BY <1>3, <2>1 DEF free_move_list
  <1> HIDE DEF board, config, side, more
  <1>7. c \in NodeRec /\ c.how = "start" /\ c.prev = s.node[Chain].prev /\ c.seen = board
    <2>1. s.node[Chain] \in NodeRec /\ s.node[Chain].how = "start"
      BY <1>1 DEF Aged
    <2> QED
      BY <1>2, <2>1 DEF NodeRec, NULL
  <1>8. r.node = [s.node EXCEPT ![Chain] = c]
    <2> DEFINE f1 == [s.node EXCEPT ![Chain].seen = board]
    <2>1. r.node = [[f1 EXCEPT ![Chain].next = NULL] EXCEPT ![Chain].sub = NULL]
      BY <1>1, <1>6 DEF Game
    <2> QED
      BY <1>1, <2>1
  <1>9. /\ r.m = Chain /\ r.stack = <<>> /\ r.freed = s.freed \cup more /\ r.tos = board
        /\ r.configside = side /\ r.status = s.status /\ r.error = s.error
    BY <1>1, <1>4, <1>6 DEF Game
  <1>10. r.configuring <=> (s.configuring \/ config)
    BY <1>1, <1>6 DEF Game
  <1>11. side \in Color \cup {VOID} /\ (r.configuring => side \in Color)
    <2>1. s.configside \in Color \cup {VOID} /\ (s.configuring => s.configside \in Color)
      BY <1>1 DEF Game, Good
    <2>2. WHITE \in Color /\ BLACK \in Color
      BY DEF Color
    <2> QED
      BY <1>10, <2>1, <2>2 DEF side
  <1>12. r \in Game
    <2> HIDE DEF c
    <2>1. r.node \in Seq(NodeRec)
      BY <1>1, <1>7, <1>8, SeqPut
    <2>2. r.freed \in SUBSET Nat
      BY <1>1, <1>5, <1>9 DEF Game
    <2> DEFINE conf == s.configuring \/ config
    <2>3. conf \in BOOLEAN
      BY <1>1 DEF Game
    <2>4. r = [s EXCEPT !.tos = board, !.m = Chain, !.node = r.node, !.configuring = conf,
                        !.configside = side, !.freed = r.freed]
      BY <1>1, <1>6 DEF Game
    <2> HIDE DEF r, conf
    <2>5. r.node \in Seq(NodeRec) /\ side \in Color \cup {VOID} /\ Chain \in Nat
      BY <1>11, <2>1 DEF Chain
    <2> QED
      BY <1>1, <1>2, <2>2, <2>3, <2>4, <2>5 DEF Game
  <1>13. PICK L : Lines(s, L)
    BY DEF Good
  <1>14. {Chain} \in SUBSET L /\ Chain \notin r.freed
    BY <1>9, <1>13 DEF Lines, more
  <1>15. Cur([s EXCEPT !.m = r.m]).how = s.node[Chain].how
    BY <1>1, <1>9 DEF Cur, Game
  <1>16. s.node[Chain].how = "start"
    BY <1>1 DEF Aged
  <1>17. r.freed \subseteq DOMAIN s.node /\ s.freed \subseteq r.freed
    BY <1>1, <1>5, <1>9
  <1>18. \E M \in SUBSET L : r.m \in M /\ Chain \in M /\ M \cap r.freed = {}
                             /\ \A i \in M : i # Chain => s.node[i].prev \in M
    <2> DEFINE M == {Chain}
    <2>1. /\ M \in SUBSET L /\ r.m \in M /\ Chain \in M /\ M \cap r.freed = {}
          /\ \A i \in M : i # Chain => s.node[i].prev \in M
      BY <1>9, <1>14
    <2> HIDE DEF M
    <2> QED
      BY <2>1
  <1> HIDE DEF r, c
  <1>19. Good(r)
    BY <1>1, <1>7, <1>8, <1>9, <1>11, <1>12, <1>13, <1>15, <1>16, <1>17, <1>18, AloneGood
  <1> QED
    BY <1>19 DEF r

LEMMA RenumberGood ==
    ASSUME NEW s, Good(s), s.stack = <<>>, Cur(s).how # "played", NEW key,
           Renumber(s, key).status = "reading"
    PROVE  Good(Renumber(s, key))
  <1> DEFINE white == key = <<"@blacksmove">>
             k == IF white THEN 1 ELSE 0
             conf == IF key = <<"@startplay">> THEN FALSE ELSE s.configuring
             c == [Cur(s) EXCEPT !.move = k, !.whiteturn = white]
             r == Renumber(s, key)
  <1>1. s \in Game /\ s.node \in Seq(NodeRec) /\ Aged(s) /\ s.freed \subseteq DOMAIN s.node
        /\ s.m \in DOMAIN s.node /\ Cur(s) \in NodeRec /\ Cur(s).how # "open"
    BY DEF Good, Game, Aged, Cur, Opened
  <1>2. r = [s EXCEPT !.configuring = conf, !.node[s.m].move = k, !.node[s.m].whiteturn = white]
    <2>1. Fault(s).status # "reading"
      BY <1>1 DEF Fault, Game
    <2> QED
      BY <2>1 DEF Renumber
  <1>3. k \in Nat /\ white \in BOOLEAN
    OBVIOUS
  <1>4. conf \in BOOLEAN /\ (conf => s.configuring)
    BY <1>1 DEF Game
  <1> HIDE DEF k, white, conf
  <1>5. c \in NodeRec /\ c.how = Cur(s).how /\ c.prev = Cur(s).prev /\ c.seen = Cur(s).seen
    BY <1>1, <1>3 DEF NodeRec
  <1>6. r.node = [s.node EXCEPT ![s.m] = c]
    <2>1. r.node = [[s.node EXCEPT ![s.m].move = k] EXCEPT ![s.m].whiteturn = white]
      BY <1>1, <1>2 DEF Game
    <2> QED
      BY <1>1, <2>1 DEF Cur
  <1>7. /\ r.m = s.m /\ r.stack = <<>> /\ r.freed = s.freed /\ r.tos = s.tos
        /\ r.configside = s.configside
    BY <1>1, <1>2 DEF Game
  <1>8. r.configuring <=> conf
    BY <1>1, <1>2 DEF Game
  <1>9. r \in Game
    <2> HIDE DEF c
    <2>1. r.node \in Seq(NodeRec)
      BY <1>1, <1>5, <1>6, SeqPut
    <2>2. r = [s EXCEPT !.node = r.node, !.configuring = conf]
      BY <1>1, <1>2 DEF Game
    <2> HIDE DEF r
    <2> QED
      BY <1>1, <1>4, <2>1, <2>2 DEF Game
  <1>10. PICK L : Lines(s, L)
    BY DEF Good
  <1>11. Cur([s EXCEPT !.m = r.m]).how = Cur(s).how /\ Cur(s).prev = s.node[r.m].prev
    BY <1>1, <1>7 DEF Cur, Game
  <1>12. \E M \in SUBSET L : r.m \in M /\ Chain \in M /\ M \cap r.freed = {}
                             /\ \A i \in M : i # Chain => s.node[i].prev \in M
    BY <1>7, <1>10 DEF Lines, Ends
  <1>13. r.tos = Cur(s).seen
    BY <1>7 DEF Good, Positions
  <1>14. r.configuring => r.configside \in Color
    BY <1>4, <1>7, <1>8 DEF Good
  <1> HIDE DEF r, c
  <1>15. Good(r)
    BY <1>1, <1>5, <1>6, <1>7, <1>9, <1>10, <1>11, <1>12, <1>13, <1>14, AloneGood
  <1> QED
    BY <1>15 DEF r

-----------------------------------------------------------------------------
(* The invariant is inductive. *)
LEMMA InitGood ==
    Init => IInv
  <1> SUFFICES ASSUME Init PROVE IInv
    OBVIOUS
  <1> DEFINE n == Node("start", init_board)
  <1>1. n \in NodeRec /\ n.how = "start" /\ n.prev = NULL /\ n.seen = init_board
    BY StartBoards DEF Node, NodeRec, Kinds, Role, Births, NULL
  <1>2. /\ nt.tos = init_board /\ nt.node = <<n>> /\ nt.m = Chain /\ nt.stack = <<>> /\ nt.freed = {}
        /\ nt.configside = VOID /\ nt.status = "reading"
    BY DEF Init
  <1>3. ~nt.configuring
    BY DEF Init
  <1>b. nt = [tos |-> init_board, node |-> <<n>>, m |-> Chain, stack |-> <<>>, freed |-> {},
              configuring |-> FALSE, configside |-> VOID, error |-> FALSE, status |-> "reading"]
    BY DEF Init
  <1> HIDE DEF n
  <1>4. nt \in Game
    <2>1. <<n>> \in Seq(NodeRec) /\ <<>> \in Seq(Saved)
      BY <1>1
    <2> QED
      BY <1>b, <2>1, StartBoards DEF Game, Chain
  <1>5. DOMAIN nt.node = {Chain} /\ nt.node[Chain] = n /\ DOMAIN nt.stack = {}
    BY <1>2 DEF Chain
  <1>6. Ends(nt) = {Chain} /\ Cur(nt) = n
    BY <1>2, <1>5 DEF Ends, Cur
  <1>7. Aged(nt)
    BY <1>1, <1>2, <1>5 DEF Aged
  <1>8. Opened(nt) /\ Positions(nt) /\ Marked(nt)
    BY <1>1, <1>2, <1>5, <1>6 DEF Opened, Positions, Marked
  <1>9. \A i \in Ends(nt) : Just(nt, i)
    BY <1>1, <1>5, <1>6 DEF Just
  <1>10. Lines(nt, {Chain})
    BY <1>2, <1>5, <1>6 DEF Lines
  <1>11. nt.freed \subseteq DOMAIN nt.node
    BY <1>2
  <1>12. Good(nt)
    BY <1>3, <1>4, <1>7, <1>8, <1>9, <1>10, <1>11 DEF Good
  <1> QED
    BY <1>12 DEF IInv, Init

LEMMA ReadGood ==
    ASSUME Careful, TokensAreText, Good(nt), fed \in Nat, ReadToken, nt'.status = "reading"
    PROVE  Good(nt')
  <1>1. nt.status = "reading" /\ nt \in Game /\ nt.m \in DOMAIN nt.node
        /\ (nt.configuring => nt.configside \in Color)
    BY DEF ReadToken, Reading, Good, Aged
  <1>2. PICK token \in Input : Move(token) \/ Castle(token) \/ Open(token) \/ Close(token) \/ Keyword(token)
    BY DEF ReadToken
  <1>3. token \in Seq(STRING)
    <2>1. CASE fed < Len(Setup)
      <3>1. fed + 1 \in 1..Len(Setup) /\ Setup \in Seq(Seq(STRING))
        BY <2>1 DEF TokensAreText
      <3> QED
        BY <1>2, <2>1, <3>1 DEF Input
    <2>2. CASE ~(fed < Len(Setup))
      BY <1>2, <2>2 DEF Input, TokensAreText
    <2> QED
      BY <2>1, <2>2
  <1>4. CASE Move(token)
    <2>1. nt' = parse_move(nt, token) /\ (Cur(nt').how = "played" => SoundMove(nt.tos, Cur(nt')))
      BY <1>4 DEF Move
    <2>2. Adds(nt, nt')
      BY <1>1, <1>3, <2>1, ParseMoveAdds
    <2> QED
      BY <2>1, <2>2, MoveGood
  <1>5. CASE Castle(token)
    <2>1. nt' = parse_roque(nt, token) /\ SoundMove(nt.tos, Cur(nt'))
      BY <1>5 DEF Castle
    <2>2. Adds(nt, nt')
      BY <1>1, <2>1, ParseRoqueAdds
    <2> QED
      BY <2>1, <2>2, MoveGood
  <1>6. CASE Open(token)
    BY <1>1, <1>6, OpenGood DEF Open
  <1>7. CASE Close(token)
    BY <1>7, CloseGood DEF Close
  <1>8. CASE Keyword(token)
    <2>1. CASE token \in Renumbers
      BY <1>8, <2>1, RenumberGood DEF Keyword, parse_keyword
    <2>2. CASE token \notin Renumbers
      BY <1>8, <2>2, RestartGood DEF Keyword, parse_keyword
    <2> QED
      BY <2>1, <2>2
  <1> QED
    BY <1>2, <1>4, <1>5, <1>6, <1>7, <1>8

LEMMA EndStops ==
    ASSUME nt \in Game, EndOfInput
    PROVE  nt'.status # "reading"
  <1>1. ASSUME NEW x, "status" \in DOMAIN x
        PROVE  Exit(x).status = "exit" /\ Fault(x).status = "fault"
    BY <1>1 DEF Exit, Fault
  <1>2. "status" \in DOMAIN nt
    BY DEF Game
  <1>3. "status" \in DOMAIN free_move_list(nt, nt.m)
    BY <1>2 DEF free_move_list, Fault
  <1> QED
    BY <1>1, <1>2, <1>3 DEF EndOfInput

LEMMA Inductive ==
    ASSUME Careful, TokensAreText
    PROVE  Spec => []IInv
  <1>1. IInv /\ [Next]_vars => IInv'
    <2> SUFFICES ASSUME IInv, [Next]_vars PROVE IInv'
      OBVIOUS
    <2>1. CASE UNCHANGED vars
      BY <2>1 DEF IInv, vars
    <2>2. CASE ReadToken
      <3>1. fed \in Nat /\ Good(nt) /\ fed' \in Nat
        BY <2>2 DEF IInv, ReadToken, Reading
      <3>2. nt'.status = "reading" => Good(nt')
        BY <2>2, <3>1, ReadGood
      <3> QED
        BY <3>1, <3>2 DEF IInv
    <2>3. CASE EndOfInput
      <3>1. nt \in Game /\ fed' \in Nat
        BY <2>3 DEF IInv, EndOfInput, Good
      <3>2. nt'.status # "reading"
        BY <2>3, <3>1, EndStops
      <3> QED
        BY <3>1, <3>2 DEF IInv
    <2> QED
      BY <2>1, <2>2, <2>3 DEF Next
  <1> QED
    BY <1>1, InitGood, PTL DEF Spec

-----------------------------------------------------------------------------
(* Reading the text of a move again. *)
\* The parser, reading a move for node b, in state e with a piece, a column and
\* a line read, and what the move tells by then.
Reads(x, b, e, p, col, lig) ==
    Parsed(x, b) /\ x.etat = e /\ x.piece = p /\ x.col = col /\ x.lig = lig /\ x.run = "none"
Tells(n, type, piece, fromcol, tocol, tolig, promotion) ==
    /\ n.type = type /\ n.piece = piece /\ n.fromlig = 0 /\ n.fromcol = fromcol
    /\ n.tocol = tocol /\ n.tolig = tolig /\ n.prise = VOID /\ n.promotion = promotion

LEMMA Characters ==
    /\ \A i \in 1..8 : /\ typechar(Letters[i]) = 2 /\ lettertocol(Letters[i]) = i
                       /\ typechar(Digits[i]) = 3 /\ lettertolig(Digits[i]) = i
    /\ \A c \in Piece : typechar(c) = 1
    /\ typechar("x") = 5 /\ typechar("=") = 6 /\ typechar("") = 7
  <1>1. \A i \in 1..8 : Letters[i] \in ToSet(Letters) /\ Letters[i] \notin Piece
    <2>1. \A i \in 1..8 : Letters[i] \notin Piece
      BY DEF Letters, Piece, KING, QUEEN, ROOK, BISHOP, KNIGHT, PAWN
    <2>2. DOMAIN Letters = 1..8
      BY DEF Letters
    <2> QED
      BY <2>1, <2>2 DEF ToSet
  <1>2. \A i \in 1..8 : /\ Digits[i] \in ToSet(Digits) /\ Digits[i] \notin Piece
                        /\ Digits[i] \notin ToSet(Letters)
    <2>1. DOMAIN Letters = 1..8 /\ DOMAIN Digits = 1..8
      BY DEF Letters, Digits
    <2>2. \A i \in 1..8 : Digits[i] \notin Piece
      BY DEF Digits, Piece, KING, QUEEN, ROOK, BISHOP, KNIGHT, PAWN
    <2>3. \A i, j \in 1..8 : Digits[i] # Letters[j]
      BY DEF Digits, Letters
    <2> QED
      BY <2>1, <2>2, <2>3 DEF ToSet
  <1>3. \A i, j \in 1..8 : /\ Letters[i] = Letters[j] => i = j
                           /\ Digits[i] = Digits[j] => i = j
    BY DEF Letters, Digits
  <1>4. ASSUME NEW i \in 1..8
        PROVE  lettertocol(Letters[i]) = i /\ lettertolig(Digits[i]) = i
    BY <1>3 DEF lettertocol, lettertolig
  <1>5. \A i \in 1..8 : /\ Letters[i] \in {"a", "b", "c", "d", "e", "f", "g", "h"}
                        /\ Digits[i] \in {"1", "2", "3", "4", "5", "6", "7", "8"}
    BY SMT DEF Letters, Digits
  <1>6. DOMAIN Letters = 1..8 /\ DOMAIN Digits = 1..8
    BY DEF Letters, Digits
  <1>7. /\ ToSet(Letters) \subseteq {"a", "b", "c", "d", "e", "f", "g", "h"}
        /\ ToSet(Digits) \subseteq {"1", "2", "3", "4", "5", "6", "7", "8"}
    BY <1>5, <1>6 DEF ToSet
  <1>8. typechar("x") = 5 /\ typechar("=") = 6 /\ typechar("") = 7
    <2>1. \A c \in {"x", "=", ""} : c \notin Piece
      BY Zenon DEF Piece, KING, QUEEN, ROOK, BISHOP, KNIGHT, PAWN
    <2>2. \A c \in {"x", "=", ""} : c \notin ToSet(Letters)
      BY <1>7, Zenon
    <2>3. \A c \in {"x", "=", ""} : c \notin ToSet(Digits)
      BY <1>7, Zenon
    <2>4. "x" # "-" /\ "=" # "-" /\ "" # "-" /\ "=" # "x" /\ "=" # "X" /\ "" # "x" /\ "" # "X"
          /\ "" # "="
      BY Zenon
    <2>5. \A c \in {"x", "=", ""} : typechar(c) = IF c = "-" THEN 4
                                               ELSE IF c \in {"x", "X"} THEN 5
                                               ELSE IF c = "=" THEN 6
                                               ELSE IF c = "" THEN 7 ELSE 8
      BY <2>1, <2>2, <2>3, Zenon DEF typechar
    <2> QED
      BY <2>4, <2>5, Zenon
  <1>9. ASSUME NEW i \in 1..8 PROVE typechar(Letters[i]) = 2 /\ typechar(Digits[i]) = 3
    BY <1>1, <1>2 DEF typechar
  <1> QED
    BY <1>4, <1>8, <1>9 DEF typechar

\* One step of the parser: the action and the next state.
LEMMA Steps ==
    ASSUME NEW b, NEW x, Parsed(x, b), NEW e \in 0..9, x.etat = e, NEW c, NEW t, typechar(c) = t,
           NEW a, action[e + 1][t] = a, NEW f, transit[e + 1][t] = f,
           NEW z, execute(a, c, x) = z, DOMAIN z = DOMAIN x
    PROVE  LET y == Scan(x, c)
           IN  /\ Parsed(y, b) /\ y.etat = f /\ y.mv = z.mv /\ y.piece = z.piece
               /\ y.col = z.col /\ y.lig = z.lig /\ y.run = z.run
  <1>1. Scan(x, c) = [z EXCEPT !.etat = f]
    BY DEF Scan, FINAL
  <1>2. DOMAIN z = {"etat", "mv", "piece", "col", "lig", "run"}
    BY DEF Parsed, Parsing
  <1>3. Parsed(Scan(x, c), b)
    BY Scans
  <1> QED
    BY <1>1, <1>2, <1>3

LEMMA ReadsLetter ==
    ASSUME NEW b, NEW x, NEW e \in {0, 1, 4}, NEW p, NEW col, NEW lig, Reads(x, b, e, p, col, lig),
           NEW i \in 1..8
    PROVE  LET y == Scan(x, Letters[i])
           IN  Reads(y, b, IF e = 4 THEN 6 ELSE 2, p, i, lig) /\ y.mv = x.mv
  <1> DEFINE z == [x EXCEPT !.col = i]
             f == IF e = 4 THEN 6 ELSE 2
  <1>1. action[e + 1][2] = 2 /\ transit[e + 1][2] = f
    BY DEF action, transit
  <1>2. typechar(Letters[i]) = 2 /\ lettertocol(Letters[i]) = i
    BY Characters
  <1>3. execute(2, Letters[i], x) = z
    BY <1>2 DEF execute
  <1>4. DOMAIN x = {"etat", "mv", "piece", "col", "lig", "run"}
    BY DEF Reads, Parsed, Parsing
  <1>5. /\ DOMAIN z = DOMAIN x /\ z.mv = x.mv /\ z.piece = x.piece /\ z.col = i
        /\ z.lig = x.lig /\ z.run = x.run
    BY <1>4
  <1> HIDE DEF z, f
  <1> QED
    BY <1>1, <1>2, <1>3, <1>5, Steps DEF Reads, f

LEMMA ReadsDigit ==
    ASSUME NEW b, NEW x, NEW e \in {2, 6}, NEW p, NEW col, NEW lig, Reads(x, b, e, p, col, lig),
           NEW i \in 1..8
    PROVE  LET y == Scan(x, Digits[i])
           IN  Reads(y, b, e + 1, p, col, i) /\ y.mv = x.mv
  <1> DEFINE z == [x EXCEPT !.lig = i]
             f == e + 1
  <1>1. action[e + 1][3] = 3 /\ transit[e + 1][3] = f
    BY DEF action, transit
  <1>2. typechar(Digits[i]) = 3 /\ lettertolig(Digits[i]) = i
    BY Characters
  <1>3. execute(3, Digits[i], x) = z
    BY <1>2 DEF execute
  <1>4. DOMAIN x = {"etat", "mv", "piece", "col", "lig", "run"}
    BY DEF Reads, Parsed, Parsing
  <1>5. /\ DOMAIN z = DOMAIN x /\ z.mv = x.mv /\ z.piece = x.piece /\ z.lig = i
        /\ z.col = x.col /\ z.run = x.run
    BY <1>4
  <1>6. e \in 0..9
    OBVIOUS
  <1> HIDE DEF z, f
  <1> QED
    BY <1>1, <1>2, <1>3, <1>5, <1>6, Steps DEF Reads, f

\* A piece that begins the text, and the one that a pawn becomes.
LEMMA ReadsPiece ==
    ASSUME NEW b, NEW x, NEW p, NEW col, NEW lig, Reads(x, b, 0, p, col, lig), NEW c \in Piece
    PROVE  LET y == Scan(x, c)
           IN  Reads(y, b, 1, c, col, lig) /\ y.mv = x.mv
  <1> DEFINE z == [x EXCEPT !.piece = c]
  <1>1. action[0 + 1][1] = 1 /\ transit[0 + 1][1] = 1
    BY DEF action, transit
  <1>2. typechar(c) = 1
    BY Characters
  <1>3. execute(1, c, x) = z
    BY DEF execute
  <1>4. DOMAIN x = {"etat", "mv", "piece", "col", "lig", "run"}
    BY DEF Reads, Parsed, Parsing
  <1>5. /\ DOMAIN z = DOMAIN x /\ z.mv = x.mv /\ z.piece = c /\ z.lig = x.lig
        /\ z.col = x.col /\ z.run = x.run
    BY <1>4
  <1>6. 0 \in 0..9
    OBVIOUS
  <1> HIDE DEF z
  <1> QED
    BY <1>1, <1>2, <1>3, <1>5, <1>6, Steps DEF Reads

LEMMA ReadsNewPiece ==
    ASSUME NEW b, NEW x, NEW p, NEW col, NEW lig, Reads(x, b, 8, p, col, lig), NEW c \in Piece,
           NEW k, NEW q, NEW c1, NEW c2, NEW l2, NEW r,
           Tells(x.mv, k, q, c1, c2, l2, r)
    PROVE  LET y == Scan(x, c)
           IN  Reads(y, b, 9, c, col, lig) /\ Tells(y.mv, k, q, c1, c2, l2, c)
  <1> DEFINE n == [x.mv EXCEPT !.promotion = c]
             z == [x EXCEPT !.mv = n, !.piece = c]
  <1>1. action[8 + 1][1] = 15 /\ transit[8 + 1][1] = 9
    BY DEF action, transit
  <1>2. typechar(c) = 1
    BY Characters
  <1>3. execute(15, c, x) = z
    BY DEF execute
  <1>4. DOMAIN x = {"etat", "mv", "piece", "col", "lig", "run"} /\ x.mv \in NodeRec
    BY DEF Reads, Parsed, Parsing
  <1>t. Tells(n, k, q, c1, c2, l2, c)
    BY <1>4 DEF Tells, NodeRec
  <1> HIDE DEF n
  <1>5. /\ DOMAIN z = DOMAIN x /\ z.mv = n /\ z.piece = c /\ z.lig = x.lig
        /\ z.col = x.col /\ z.run = x.run
    BY <1>4
  <1>6. 8 \in 0..9
    OBVIOUS
  <1> HIDE DEF z
  <1> QED
    BY <1>1, <1>2, <1>3, <1>5, <1>6, <1>t, Steps DEF Reads

\* The sign of a capture, after the piece that takes or the column of a pawn.
LEMMA ReadsTaking ==
    ASSUME NEW b, NEW x, NEW p, NEW col, NEW lig, Reads(x, b, 1, p, col, lig),
           NEW k, NEW q, NEW c1, NEW c2, NEW l2, NEW r,
           Tells(x.mv, k, q, c1, c2, l2, r)
    PROVE  LET y == Scan(x, "x")
           IN  Reads(y, b, 4, p, col, lig) /\ Tells(y.mv, "PRISE", p, c1, c2, l2, r)
  <1> DEFINE n == [x.mv EXCEPT !.piece = p, !.type = "PRISE"]
             z == [x EXCEPT !.mv = n]
  <1>1. action[1 + 1][5] = 10 /\ transit[1 + 1][5] = 4
    BY DEF action, transit
  <1>2. typechar("x") = 5
    BY Characters
  <1>3. execute(10, "x", x) = z
    BY DEF execute, Reads
  <1>4. DOMAIN x = {"etat", "mv", "piece", "col", "lig", "run"} /\ x.mv \in NodeRec
    BY DEF Reads, Parsed, Parsing
  <1>t. Tells(n, "PRISE", p, c1, c2, l2, r)
    BY <1>4 DEF Tells, NodeRec
  <1> HIDE DEF n
  <1>5. /\ DOMAIN z = DOMAIN x /\ z.mv = n /\ z.piece = x.piece /\ z.lig = x.lig
        /\ z.col = x.col /\ z.run = x.run
    BY <1>4
  <1>6. 1 \in 0..9
    OBVIOUS
  <1> HIDE DEF z
  <1> QED
    BY <1>1, <1>2, <1>3, <1>5, <1>6, <1>t, Steps DEF Reads

LEMMA ReadsPawnTaking ==
    ASSUME NEW b, NEW x, NEW col, Reads(x, b, 2, VOID, col, 0),
           NEW k, NEW q, NEW c1, NEW c2, NEW l2, NEW r,
           Tells(x.mv, k, q, c1, c2, l2, r)
    PROVE  LET y == Scan(x, "x")
           IN  Reads(y, b, 4, VOID, col, 0) /\ Tells(y.mv, "PRISE", VOID, col, c2, l2, r)
  <1> DEFINE n == [x.mv EXCEPT !.piece = VOID, !.fromcol = col, !.fromlig = 0,
                               !.type = "PRISE", !.prise = VOID]
             z == [x EXCEPT !.mv = n]
  <1>1. action[2 + 1][5] = 5 /\ transit[2 + 1][5] = 4
    BY DEF action, transit
  <1>2. typechar("x") = 5
    BY Characters
  <1>3. execute(5, "x", x) = z
    BY DEF execute, Reads
  <1>4. DOMAIN x = {"etat", "mv", "piece", "col", "lig", "run"} /\ x.mv \in NodeRec
    BY DEF Reads, Parsed, Parsing
  <1>t. Tells(n, "PRISE", VOID, col, c2, l2, r)
    BY <1>4 DEF Tells, NodeRec
  <1> HIDE DEF n
  <1>5. /\ DOMAIN z = DOMAIN x /\ z.mv = n /\ z.piece = x.piece /\ z.lig = x.lig
        /\ z.col = x.col /\ z.run = x.run
    BY <1>4
  <1>6. 2 \in 0..9
    OBVIOUS
  <1> HIDE DEF z
  <1> QED
    BY <1>1, <1>2, <1>3, <1>5, <1>6, <1>t, Steps DEF Reads

LEMMA ReadsPromotion ==
    ASSUME NEW b, NEW x, NEW e \in {3, 7}, NEW p, NEW col, NEW lig, Reads(x, b, e, p, col, lig),
           NEW k, NEW q, NEW c1, NEW c2, NEW l2, NEW r,
           Tells(x.mv, k, q, c1, c2, l2, r),
           NEW k1, k1 = IF k = "PRISE" THEN "PROM_ET_PRISE" ELSE "PROMOTION"
    PROVE  LET y == Scan(x, "=")
           IN  /\ Reads(y, b, 8, QUEEN, col, lig)
               /\ Tells(y.mv, k1, q, c1, col, lig, QUEEN)
  <1> DEFINE goes == [x.mv EXCEPT !.tocol = col, !.tolig = lig]
             n == [goes EXCEPT !.type = k1, !.promotion = QUEEN]
             z == [x EXCEPT !.mv = n, !.piece = QUEEN]
  <1>1. action[e + 1][6] = 14 /\ transit[e + 1][6] = 8
    BY DEF action, transit
  <1>2. typechar("=") = 6
    BY Characters
  <1>4. DOMAIN x = {"etat", "mv", "piece", "col", "lig", "run"} /\ x.mv \in NodeRec
    BY DEF Reads, Parsed, Parsing
  <1>3. execute(14, "=", x) = z
    <2>1. goes = [x.mv EXCEPT !.tocol = x.col, !.tolig = x.lig]
      BY DEF Reads
    <2>2. goes.type = k
      BY <1>4 DEF NodeRec, Tells
    <2> HIDE DEF goes
    <2>3. k1 = IF goes.type = "PRISE" THEN "PROM_ET_PRISE" ELSE "PROMOTION"
      BY <2>2
    <2>4. execute(14, "=", x)
            = [x EXCEPT !.mv = [goes EXCEPT
                            !.type = IF goes.type = "PRISE" THEN "PROM_ET_PRISE" ELSE "PROMOTION",
                            !.promotion = QUEEN],
                        !.piece = QUEEN]
      BY <2>1 DEF execute
    <2> QED
      BY <2>3, <2>4
  <1>g. DOMAIN goes = DOMAIN x.mv /\ Tells(goes, k, q, c1, col, lig, r)
    BY <1>4 DEF Tells, NodeRec
  <1>t. Tells(n, k1, q, c1, col, lig, QUEEN)
    <2> HIDE DEF goes
    <2> QED
      BY <1>4, <1>g DEF Tells, NodeRec
  <1> HIDE DEF n
  <1>5. /\ DOMAIN z = DOMAIN x /\ z.mv = n /\ z.piece = QUEEN /\ z.lig = x.lig
        /\ z.col = x.col /\ z.run = x.run
    BY <1>4
  <1>6. e \in 0..9
    OBVIOUS
  <1> HIDE DEF z
  <1>7. Parsed(x, b) /\ x.etat = e
    BY DEF Reads
  <1>8. LET y == Scan(x, "=")
        IN  /\ Parsed(y, b) /\ y.etat = 8 /\ y.mv = z.mv /\ y.piece = z.piece
            /\ y.col = z.col /\ y.lig = z.lig /\ y.run = z.run
    BY <1>1, <1>2, <1>3, <1>5, <1>6, <1>7, Steps
  <1> QED
    BY <1>5, <1>8, <1>t DEF Reads

\* The end of the text: after the target of a plain move, after that of a
\* capture, and after a promotion.
Ended(y, b, run) == Parsed(y, b) /\ y.run = run

LEMMA ReadsEnd ==
    ASSUME NEW b, NEW x, NEW e \in {3, 7}, NEW p, NEW col, NEW lig, Reads(x, b, e, p, col, lig),
           NEW c, typechar(c) = 7,
           NEW k, NEW q, NEW c1, NEW c2, NEW l2, NEW r,
           Tells(x.mv, k, q, c1, c2, l2, r)
    PROVE  LET y == Scan(x, c)
           IN  /\ Ended(y, b, "to")
               /\ Tells(y.mv, k, IF e = 3 THEN p ELSE q, c1, col, lig, r)
  <1> DEFINE goes == [x.mv EXCEPT !.tocol = col, !.tolig = lig]
             n == IF e = 3 THEN [goes EXCEPT !.piece = p] ELSE goes
             z == [x EXCEPT !.mv = n, !.run = "to"]
             a == IF e = 3 THEN 6 ELSE 8
  <1>1. action[e + 1][7] = a /\ transit[e + 1][7] = FINAL
    BY DEF action, transit
  <1>4. DOMAIN x = {"etat", "mv", "piece", "col", "lig", "run"} /\ x.mv \in NodeRec
    BY DEF Reads, Parsed, Parsing
  <1>3. execute(a, c, x) = z
    <2>1. goes = [x.mv EXCEPT !.tocol = x.col, !.tolig = x.lig] /\ x.piece = p
      BY DEF Reads
    <2> HIDE DEF goes
    <2>2. CASE e = 3
      BY <2>1, <2>2 DEF execute
    <2>3. CASE e = 7
      BY <2>1, <2>3 DEF execute
    <2> QED
      BY <2>2, <2>3
  <1>g. DOMAIN goes = DOMAIN x.mv /\ Tells(goes, k, q, c1, col, lig, r)
    BY <1>4 DEF Tells, NodeRec
  <1>t. Tells(n, k, IF e = 3 THEN p ELSE q, c1, col, lig, r)
    <2> HIDE DEF goes
    <2> QED
      BY <1>4, <1>g DEF Tells, NodeRec
  <1> HIDE DEF n, a
  <1>5. DOMAIN z = DOMAIN x /\ z.mv = n /\ z.run = "to"
    BY <1>4
  <1>6. e \in 0..9
    OBVIOUS
  <1> HIDE DEF z
  <1>7. Parsed(x, b) /\ x.etat = e
    BY DEF Reads
  <1>8. LET y == Scan(x, c)
        IN  Parsed(y, b) /\ y.mv = z.mv /\ y.run = z.run
    BY <1>1, <1>3, <1>5, <1>6, <1>7, Steps
  <1> QED
    BY <1>5, <1>8, <1>t DEF Ended

LEMMA ReadsEndPromoted ==
    ASSUME NEW b, NEW x, NEW p, NEW col, NEW lig, Reads(x, b, 9, p, col, lig), NEW c, typechar(c) = 7
    PROVE  LET y == Scan(x, c)
           IN  Ended(y, b, "now") /\ y.mv = x.mv
  <1> DEFINE z == [x EXCEPT !.run = "now"]
  <1>1. action[9 + 1][7] = 17 /\ transit[9 + 1][7] = FINAL
    BY DEF action, transit
  <1>3. execute(17, c, x) = z
    BY DEF execute
  <1>4. DOMAIN x = {"etat", "mv", "piece", "col", "lig", "run"}
    BY DEF Reads, Parsed, Parsing
  <1>5. DOMAIN z = DOMAIN x /\ z.mv = x.mv /\ z.run = "now"
    BY <1>4
  <1>6. 9 \in 0..9
    OBVIOUS
  <1> HIDE DEF z
  <1>7. Parsed(x, b) /\ x.etat = 9
    BY DEF Reads
  <1>8. LET y == Scan(x, c)
        IN  Parsed(y, b) /\ y.mv = z.mv /\ y.run = z.run
    BY <1>1, <1>3, <1>5, <1>6, <1>7, Steps
  <1> QED
    BY <1>5, <1>8 DEF Ended

\* What move y is when the parser has read the text of n: what n is, but for what
\* the text leaves out.
Repeats(y, n) ==
    LET pawn == n.piece = PAWN
        takes == n.type = "PRISE"
    IN  Tells(y, IF takes /\ n.promotion # VOID THEN "PROM_ET_PRISE" ELSE n.type,
              IF pawn THEN VOID ELSE n.piece, IF pawn /\ takes THEN n.fromcol ELSE 0,
              n.tocol, n.tolig, n.promotion)

LEMMA Joined ==
    ASSUME NEW V, NEW s \in Seq(V), NEW t \in Seq(V)
    PROVE  /\ s \o t \in Seq(V) /\ Len(s \o t) = Len(s) + Len(t)
           /\ \A i \in 1..Len(s) : (s \o t)[i] = s[i]
           /\ \A i \in 1..Len(t) : (s \o t)[Len(s) + i] = t[i]
  <1>1. s \o t \in Seq(V) /\ Len(s \o t) = Len(s) + Len(t)
    OBVIOUS
  <1>2. ASSUME NEW i \in 1..Len(s) PROVE (s \o t)[i] = s[i]
    OBVIOUS
  <1>3. ASSUME NEW i \in 1..Len(t) PROVE (s \o t)[Len(s) + i] = t[i]
    OBVIOUS
  <1> QED
    BY <1>1, <1>2, <1>3

\* The text of a move: what stands before its target, the target, and the piece
\* it becomes.
LEMMA TextIs ==
    ASSUME NEW V, NEW P \in Seq(V), NEW X \in Seq(V), NEW l \in V, NEW d \in V, NEW Q \in Seq(V),
           NEW k, k = Len(P) + Len(X), NEW T, T = P \o X \o <<l, d>> \o Q
    PROVE  /\ Len(T) = k + 2 + Len(Q) /\ k \in Nat /\ Len(Q) \in Nat
           /\ \A i \in 1..Len(P) : T[i] = P[i]
           /\ \A i \in 1..Len(X) : T[Len(P) + i] = X[i]
           /\ T[k + 1] = l /\ T[k + 2] = d
           /\ \A i \in 1..Len(Q) : T[k + 2 + i] = Q[i]
  <1> DEFINE A == P \o X
             E == <<l, d>>
             B == A \o E
  <1>1. /\ A \in Seq(V) /\ Len(A) = k
        /\ \A i \in 1..Len(P) : A[i] = P[i]
        /\ \A i \in 1..Len(X) : A[Len(P) + i] = X[i]
    BY Joined
  <1>2. E \in Seq(V) /\ Len(E) = 2 /\ E[1] = l /\ E[2] = d
    OBVIOUS
  <1>3. Len(P) \in Nat /\ Len(X) \in Nat /\ Len(Q) \in Nat
    OBVIOUS
  <1> HIDE DEF A, E
  <1>4. /\ B \in Seq(V) /\ Len(B) = k + 2
        /\ \A i \in 1..k : B[i] = A[i]
        /\ \A i \in 1..2 : B[k + i] = E[i]
    <2>1. /\ B \in Seq(V) /\ Len(B) = Len(A) + Len(E)
          /\ \A i \in 1..Len(A) : B[i] = A[i]
          /\ \A i \in 1..Len(E) : B[Len(A) + i] = E[i]
      <3>1. A \in Seq(V) /\ E \in Seq(V)
        BY <1>1, <1>2
      <3> QED
        BY <3>1, Joined
    <2> HIDE DEF B
    <2> QED
      BY <1>1, <1>2, <2>1
  <1> HIDE DEF B
  <1>5. /\ Len(T) = k + 2 + Len(Q)
        /\ \A i \in 1..k + 2 : T[i] = B[i]
        /\ \A i \in 1..Len(Q) : T[k + 2 + i] = Q[i]
    <2>1. T = B \o Q
      BY DEF A, B, E
    <2>2. /\ Len(T) = Len(B) + Len(Q)
          /\ \A i \in 1..Len(B) : T[i] = B[i]
          /\ \A i \in 1..Len(Q) : T[Len(B) + i] = Q[i]
      BY <1>4, <2>1, Joined
    <2> QED
      BY <1>4, <2>2
  <1>6. ASSUME NEW i \in 1..Len(P) PROVE T[i] = P[i]
    BY <1>1, <1>3, <1>4, <1>5
  <1>7. ASSUME NEW i \in 1..Len(X) PROVE T[Len(P) + i] = X[i]
    BY <1>1, <1>3, <1>4, <1>5
  <1>8. T[k + 1] = l /\ T[k + 2] = d
    BY <1>2, <1>3, <1>4, <1>5
  <1> QED
    BY <1>3, <1>5, <1>6, <1>7, <1>8

\* What the parser makes of the text of a move that it is to make again.
LEMMA TextReads ==
    ASSUME NEW n \in NodeRec, ~IsRoque(n), n.piece \in Piece, n.tocol \in 1..8, n.tolig \in 1..8,
           n.type \in {"MOVE", "PRISE", "PROMOTION"}, n.type = "MOVE" => n.promotion = VOID,
           n.type = "PROMOTION" => n.promotion # VOID /\ n.piece = PAWN,
           n.piece = PAWN /\ n.type = "PRISE" => n.fromcol \in 1..8,
           NEW b \in NodeRec, Blank(b), NEW x, x = Automaton(output_move(n), b)
    PROVE  Ended(x, b, IF n.promotion = VOID THEN "to" ELSE "now") /\ Repeats(x.mv, n)
  <1> DEFINE pawn == n.piece = PAWN
             takes == n.type = "PRISE"
             p == IF pawn THEN VOID ELSE n.piece
             c1 == IF pawn /\ takes THEN n.fromcol ELSE 0
             P == IF ~pawn THEN <<n.piece>> ELSE IF takes THEN <<Letters[n.fromcol]>> ELSE <<>>
             X == IF takes THEN <<"x">> ELSE <<>>
             l == Letters[n.tocol]
             d == Digits[n.tolig]
             Q == IF n.promotion = VOID THEN <<>> ELSE <<"=", n.promotion>>
             T == P \o X \o <<l, d>> \o Q
             V == {n.piece, Letters[n.fromcol], "x", l, d, "=", n.promotion}
             k == Len(P) + Len(X)
  <1>1. output_move(n) = T
    <2>1. Captures(n) <=> takes
      BY DEF Captures
    <2> QED
      BY <2>1 DEF output_move
  <1>2. /\ P \in Seq(V) /\ X \in Seq(V) /\ Q \in Seq(V) /\ l \in V /\ d \in V
        /\ ~pawn => Len(P) = 1 /\ P[1] = n.piece
        /\ pawn /\ takes => Len(P) = 1 /\ P[1] = Letters[n.fromcol]
        /\ pawn /\ ~takes => Len(P) = 0
        /\ takes => Len(X) = 1 /\ X[1] = "x"
        /\ ~takes => Len(X) = 0
        /\ n.promotion = VOID => Len(Q) = 0
        /\ n.promotion # VOID => Len(Q) = 2 /\ Q[1] = "=" /\ Q[2] = n.promotion
    <2> DEFINE V0 == V
    <2>1. /\ n.piece \in V0 /\ Letters[n.fromcol] \in V0 /\ "x" \in V0 /\ l \in V0 /\ d \in V0
          /\ "=" \in V0 /\ n.promotion \in V0
      OBVIOUS
    <2> HIDE DEF V0
    <2>2. P \in Seq(V0) /\ X \in Seq(V0) /\ Q \in Seq(V0)
      BY <2>1
    <2> HIDE DEF V
    <2> QED
      BY <2>1, <2>2 DEF V0
  <1> HIDE DEF V, P, X, Q, l, d
  <1>3. /\ Len(T) = k + 2 + Len(Q) /\ k \in Nat /\ Len(Q) \in Nat
        /\ \A i \in 1..Len(P) : T[i] = P[i]
        /\ \A i \in 1..Len(X) : T[Len(P) + i] = X[i]
        /\ T[k + 1] = l /\ T[k + 2] = d
        /\ \A i \in 1..Len(Q) : T[k + 2 + i] = Q[i]
    BY <1>2, TextIs
  <1> HIDE DEF T
  <1>4. /\ ~pawn /\ ~takes => k = 1 /\ T[1] = n.piece
        /\ ~pawn /\ takes => k = 2 /\ T[1] = n.piece /\ T[2] = "x"
        /\ pawn /\ takes => k = 2 /\ T[1] = Letters[n.fromcol] /\ T[2] = "x"
        /\ pawn /\ ~takes => k = 0
        /\ n.promotion # VOID => T[k + 3] = "=" /\ T[k + 4] = n.promotion
        /\ Len(T) = IF n.promotion = VOID THEN k + 2 ELSE k + 4
    <2>1. ~pawn /\ ~takes => k = 1 /\ T[1] = n.piece
      BY <1>2, <1>3
    <2>2. ASSUME ~pawn, takes PROVE k = 2 /\ T[1] = n.piece /\ T[2] = "x"
      <3>1. Len(P) = 1 /\ P[1] = n.piece /\ Len(X) = 1 /\ X[1] = "x"
        BY <1>2, <2>2
      <3>2. T[1] = P[1] /\ T[Len(P) + 1] = X[1] /\ k = 2
        BY <1>3, <3>1
      <3> QED
        BY <3>1, <3>2
    <2>3. ASSUME pawn, takes PROVE k = 2 /\ T[1] = Letters[n.fromcol] /\ T[2] = "x"
      <3>1. Len(P) = 1 /\ P[1] = Letters[n.fromcol] /\ Len(X) = 1 /\ X[1] = "x"
        BY <1>2, <2>3
      <3>2. T[1] = P[1] /\ T[Len(P) + 1] = X[1] /\ k = 2
        BY <1>3, <3>1
      <3> QED
        BY <3>1, <3>2
    <2>4. pawn /\ ~takes => k = 0
      BY <1>2
    <2>5. n.promotion # VOID => T[k + 3] = "=" /\ T[k + 4] = n.promotion
      <3>1. n.promotion # VOID => T[k + 2 + 1] = "=" /\ T[k + 2 + 2] = n.promotion
        BY <1>2, <1>3
      <3>2. k + 2 + 1 = k + 3 /\ k + 2 + 2 = k + 4
        BY <1>3
      <3> QED
        BY <3>1, <3>2
    <2>6. Len(T) = IF n.promotion = VOID THEN k + 2 ELSE k + 4
      <3>1. Len(T) = k + 2 + Len(Q) /\ k \in Nat /\ Len(Q) = IF n.promotion = VOID THEN 0 ELSE 2
        BY <1>2, <1>3
      <3> HIDE DEF k
      <3> QED
        BY <3>1
    <2>7. ~pawn /\ takes => k = 2 /\ T[1] = n.piece /\ T[2] = "x"
      BY <2>2
    <2>8. pawn /\ takes => k = 2 /\ T[1] = Letters[n.fromcol] /\ T[2] = "x"
      BY <2>3
    <2> QED
      BY <2>1, <2>4, <2>5, <2>6, <2>7, <2>8, Zenon
  <1> HIDE DEF k
  <1>5. PICK f : Parses(f, Len(T) + 1, T, b) /\ x = f[Len(T) + 1]
    <2>1. Len(T) \in Nat
      BY <1>3
    <2> QED
      BY <1>1, <2>1, AutomatonRuns
  <1>6. /\ f[0] = Starts(b)
        /\ \A i \in 1..Len(T) : f[i] = Scan(f[i - 1], T[i])
    <2>1. \A i \in 0..Len(T) + 1 :
             f[i] = IF i = 0 THEN Starts(b) ELSE Scan(f[i - 1], CharAt(T, i))
      BY <1>5 DEF Parses
    <2>2. Len(T) \in Nat
      BY <1>3
    <2>3. ASSUME NEW i \in 1..Len(T) PROVE f[i] = Scan(f[i - 1], T[i])
      <3>1. i \in 0..Len(T) + 1 /\ i # 0 /\ ~(i > Len(T))
        BY <2>2
      <3> QED
        BY <2>1, <3>1 DEF CharAt
    <2> QED
      BY <2>1, <2>2, <2>3
  <1>7. PICK c : typechar(c) = 7 /\ x = Scan(f[Len(T)], c)
    <2> DEFINE i == Len(T) + 1
    <2>1. i \in 0..i /\ i # 0 /\ i > Len(T) /\ i - 1 = Len(T)
      BY <1>3
    <2>2. f[i] = IF i = 0 THEN Starts(b) ELSE Scan(f[i - 1], CharAt(T, i))
      BY <1>5, <2>1 DEF Parses
    <2>3. typechar(CharAt(T, i)) = 7
      BY <2>1, Characters DEF CharAt
    <2> HIDE DEF i
    <2>4. x = Scan(f[Len(T)], CharAt(T, i))
      BY <1>5, <2>1, <2>2 DEF i
    <2> QED
      BY <2>3, <2>4
  <1>8. Reads(f[0], b, 0, VOID, 0, 0) /\ f[0].mv = b /\ Tells(b, "MOVE", VOID, 0, 0, 0, VOID)
    <2>1. b.type \in Asks
      BY DEF Blank, Asks, Kinds
    <2>2. Parsed(Starts(b), b)
      BY <2>1 DEF Starts, Parsed, Parsing, Revises, Rooted, Role
    <2>3. Tells(b, "MOVE", VOID, 0, 0, 0, VOID)
      BY DEF Blank, Tells, From, To
    <2> QED
      BY <1>6, <2>2, <2>3 DEF Reads, Starts
  \* Before the target.
  <1>9. PICK e \in {0, 1, 4}, col \in 0..8 :
           /\ Reads(f[k], b, e, p, col, 0) /\ (e = 4 <=> takes)
           /\ Tells(f[k].mv, IF takes THEN "PRISE" ELSE "MOVE", IF takes THEN p ELSE VOID,
                    c1, 0, 0, VOID)
    <2>1. CASE pawn /\ ~takes
      BY <1>4, <1>8, <2>1
    <2>2. CASE ~pawn /\ ~takes
      <3>1. k = 1 /\ f[1] = Scan(f[0], n.piece)
        BY <1>3, <1>4, <1>6, <2>2
      <3>2. Reads(f[1], b, 1, n.piece, 0, 0) /\ f[1].mv = f[0].mv
        BY <1>8, <3>1, ReadsPiece
      <3> QED
        BY <1>8, <2>2, <3>1, <3>2
    <2>3. CASE ~pawn /\ takes
      <3>1. k = 2 /\ f[1] = Scan(f[0], n.piece) /\ f[2] = Scan(f[1], "x")
        BY <1>3, <1>4, <1>6, <2>3
      <3>2. Reads(f[1], b, 1, n.piece, 0, 0) /\ f[1].mv = f[0].mv
        BY <1>8, <3>1, ReadsPiece
      <3>3. Reads(f[2], b, 4, n.piece, 0, 0) /\ Tells(f[2].mv, "PRISE", n.piece, 0, 0, 0, VOID)
        BY <1>8, <3>1, <3>2, ReadsTaking
      <3> QED
        BY <2>3, <3>1, <3>3
    <2>4. CASE pawn /\ takes
      <3>1. k = 2 /\ f[1] = Scan(f[0], Letters[n.fromcol]) /\ f[2] = Scan(f[1], "x")
        BY <1>3, <1>4, <1>6, <2>4
      <3>2. n.fromcol \in 1..8
        BY <2>4
      <3>3. Reads(f[1], b, 2, VOID, n.fromcol, 0) /\ f[1].mv = f[0].mv
        BY <1>8, <3>1, <3>2, ReadsLetter
      <3>4. /\ Reads(f[2], b, 4, VOID, n.fromcol, 0)
            /\ Tells(f[2].mv, "PRISE", VOID, n.fromcol, 0, 0, VOID)
        BY <1>8, <3>1, <3>3, ReadsPawnTaking
      <3>5. n.fromcol \in 0..8
        BY <3>2
      <3> QED
        BY <2>4, <3>1, <3>4, <3>5
    <2> QED
      BY <2>1, <2>2, <2>3, <2>4
  \* The target.
  <1>10. /\ Reads(f[k + 2], b, IF takes THEN 7 ELSE 3, p, n.tocol, n.tolig)
         /\ f[k + 2].mv = f[k].mv
    <2>1. f[k + 1] = Scan(f[k], l) /\ f[k + 2] = Scan(f[k + 1], d)
      <3>1. k + 1 \in 1..Len(T) /\ k + 2 \in 1..Len(T) /\ k + 1 - 1 = k /\ k + 2 - 1 = k + 1
        BY <1>3
      <3> QED
        BY <1>3, <1>6, <3>1
    <2>2. /\ Reads(f[k + 1], b, IF e = 4 THEN 6 ELSE 2, p, n.tocol, 0)
          /\ f[k + 1].mv = f[k].mv
      BY <1>9, <2>1, ReadsLetter DEF l
    <2>3. /\ Reads(f[k + 2], b, (IF e = 4 THEN 6 ELSE 2) + 1, p, n.tocol, n.tolig)
          /\ f[k + 2].mv = f[k + 1].mv
      <3> DEFINE e1 == IF e = 4 THEN 6 ELSE 2
      <3>1. e1 \in {2, 6}
        OBVIOUS
      <3> HIDE DEF e1
      <3>2. Reads(f[k + 1], b, e1, p, n.tocol, 0)
        BY <2>2 DEF e1
      <3>3. Reads(f[k + 2], b, e1 + 1, p, n.tocol, n.tolig) /\ f[k + 2].mv = f[k + 1].mv
        BY <2>1, <3>1, <3>2, ReadsDigit DEF d
      <3> QED
        BY <3>3 DEF e1
    <2>4. (IF e = 4 THEN 6 ELSE 2) + 1 = IF takes THEN 7 ELSE 3
      BY <1>9
    <2> QED
      BY <2>2, <2>3, <2>4
  <1> DEFINE e3 == IF takes THEN 7 ELSE 3
             z == f[k + 2]
             k0 == IF takes THEN "PRISE" ELSE "MOVE"
             q == IF takes THEN p ELSE VOID
  <1>11. /\ Reads(z, b, e3, p, n.tocol, n.tolig) /\ e3 \in {3, 7} /\ (e3 = 3 <=> ~takes)
         /\ Tells(z.mv, k0, q, c1, 0, 0, VOID)
    BY <1>9, <1>10
  <1> HIDE DEF e3, z, p, c1, k0, q
  <1>12. CASE n.promotion = VOID
    <2>1. x = Scan(z, c)
      BY <1>4, <1>7, <1>12 DEF z
    <2>2. Ended(x, b, "to") /\ Tells(x.mv, k0, IF e3 = 3 THEN p ELSE q, c1, n.tocol, n.tolig, VOID)
      <3>1. LET y == Scan(z, c)
            IN  /\ Ended(y, b, "to")
                /\ Tells(y.mv, k0, IF e3 = 3 THEN p ELSE q, c1, n.tocol, n.tolig, VOID)
        BY <1>7, <1>11, ReadsEnd
      <3> QED
        BY <2>1, <3>1
    <2>3. n.type = k0 /\ (IF e3 = 3 THEN p ELSE q) = p
      BY <1>11, <1>12 DEF k0, q
    <2> QED
      BY <1>12, <2>2, <2>3 DEF Repeats, p, c1
  <1>13. CASE n.promotion # VOID
    <2> DEFINE k1 == IF k0 = "PRISE" THEN "PROM_ET_PRISE" ELSE "PROMOTION"
    <2>1. /\ f[k + 3] = Scan(z, "=") /\ f[k + 4] = Scan(f[k + 3], n.promotion)
          /\ x = Scan(f[k + 4], c)
      <3>1. /\ k + 3 \in 1..Len(T) /\ k + 4 \in 1..Len(T) /\ Len(T) = k + 4
            /\ k + 3 - 1 = k + 2 /\ k + 4 - 1 = k + 3
        BY <1>3, <1>4, <1>13
      <3> QED
        BY <1>4, <1>6, <1>7, <1>13, <3>1 DEF z
    <2> HIDE DEF k1
    <2>2. /\ Reads(f[k + 3], b, 8, QUEEN, n.tocol, n.tolig)
          /\ Tells(f[k + 3].mv, k1, q, c1, n.tocol, n.tolig, QUEEN)
      BY <1>11, <2>1, ReadsPromotion DEF k1
    <2>3. n.promotion \in Piece
      BY <1>13 DEF NodeRec, Role
    <2>4. /\ Reads(f[k + 4], b, 9, n.promotion, n.tocol, n.tolig)
          /\ Tells(f[k + 4].mv, k1, q, c1, n.tocol, n.tolig, n.promotion)
      BY <2>1, <2>2, <2>3, ReadsNewPiece
    <2>5. Ended(x, b, "now") /\ x.mv = f[k + 4].mv
      BY <1>7, <2>1, <2>4, ReadsEndPromoted
    <2>6. k1 = (IF takes THEN "PROM_ET_PRISE" ELSE n.type) /\ q = p
      BY <1>13 DEF k1, k0, q, p
    <2> QED
      BY <1>13, <2>4, <2>5, <2>6 DEF Repeats, p, c1
  <1> QED
    BY <1>12, <1>13

-----------------------------------------------------------------------------
(* Where the move that is read again comes from. *)
\* What the search for a pawn asks of the square that displacement e leads from.
Leads(g, k, l2, c2, l1, c1, e) ==
    LET l == l2 - e[1]
        c == c2 - e[2]
    IN  in_board(l, c) /\ g[<<l, c>>] = Cell(PAWN, k) /\ l1 \in {0, l} /\ c1 \in {0, c}
PawnSearch(g, k, l2, c2, table, l1, c1) == Search(g, PAWN, k, l2, c2, table, l1, c1, FALSE)

LEMMA SearchIs ==
    ASSUME NEW g, NEW k, NEW l2, NEW c2, NEW table, NEW l1, NEW c1,
           NEW S, S = PawnSearch(g, k, l2, c2, table, l1, c1), NEW D, D = DOMAIN S
    PROVE  /\ \A j : j \in D <=> j \in DOMAIN table /\ Leads(g, k, l2, c2, l1, c1, table[j])
           /\ \A j \in D : S[j] = <<l2 - table[j][1], c2 - table[j][2]>>
  BY DEF PawnSearch, Search, Leads

LEMMA PawnEntries ==
    ASSUME NEW w
    PROVE  LET d == IF w THEN 1 ELSE -1
           IN  /\ DOMAIN PawnTakes(w) = 1..2 /\ DOMAIN PawnMoves(w) = 1..2
               /\ PawnTakes(w)[1] = <<d, 1>> /\ PawnTakes(w)[2] = <<d, -1>>
               /\ PawnMoves(w)[1] = <<d, 0>> /\ PawnMoves(w)[2] = <<2 * d, 0>>
               /\ DOMAIN PawnAll(w) = 1..4
               /\ \A i \in 1..2 : PawnAll(w)[i] = PawnMoves(w)[i]
               /\ \A i \in 1..2 : PawnAll(w)[2 + i] = PawnTakes(w)[i]
  <1> DEFINE d == IF w THEN 1 ELSE -1
             V == Int \X Int
  <1>1. PawnTakes(w) = <<<<d, 1>>, <<d, -1>>>> /\ PawnMoves(w) = <<<<d, 0>>, <<2 * d, 0>>>>
    BY DEF PawnTakes, PawnMoves
  <1>2. d \in Int /\ 2 * d \in Int
    OBVIOUS
  <1> HIDE DEF d
  <1>3. /\ <<d, 1>> \in V /\ <<d, -1>> \in V /\ <<d, 0>> \in V /\ <<2 * d, 0>> \in V
    BY <1>2
  <1> HIDE DEF V
  <1>4. /\ PawnTakes(w) \in Seq(V) /\ PawnMoves(w) \in Seq(V)
        /\ Len(PawnTakes(w)) = 2 /\ Len(PawnMoves(w)) = 2
    BY <1>1, <1>3
  <1>5. /\ PawnAll(w) \in Seq(V) /\ Len(PawnAll(w)) = Len(PawnMoves(w)) + Len(PawnTakes(w))
        /\ \A i \in 1..Len(PawnMoves(w)) : PawnAll(w)[i] = PawnMoves(w)[i]
        /\ \A i \in 1..Len(PawnTakes(w)) : PawnAll(w)[Len(PawnMoves(w)) + i] = PawnTakes(w)[i]
    <2>1. PawnAll(w) = PawnMoves(w) \o PawnTakes(w)
      BY DEF PawnAll
    <2>2. PawnMoves(w) \in Seq(V) /\ PawnTakes(w) \in Seq(V)
      BY <1>4
    <2> QED
      BY <2>1, <2>2, Joined
  <1>6. DOMAIN PawnAll(w) = 1..4
    BY <1>4, <1>5
  <1>7. /\ \A i \in 1..2 : PawnAll(w)[i] = PawnMoves(w)[i]
        /\ \A i \in 1..2 : PawnAll(w)[2 + i] = PawnTakes(w)[i]
    BY <1>4, <1>5
  <1>8. DOMAIN PawnTakes(w) = 1..2 /\ DOMAIN PawnMoves(w) = 1..2
    BY <1>4
  <1>9. /\ PawnTakes(w)[1] = <<d, 1>> /\ PawnTakes(w)[2] = <<d, -1>>
        /\ PawnMoves(w)[1] = <<d, 0>> /\ PawnMoves(w)[2] = <<2 * d, 0>>
    BY <1>1
  <1> QED
    BY <1>6, <1>7, <1>8, <1>9 DEF d

\* The first square the search found is sq.
FoundAt(found, sq) ==
    /\ DOMAIN found # {} /\ DOMAIN found \subseteq Nat /\ found[Min(DOMAIN found)] = sq

LEMMA FoundOnly ==
    ASSUME NEW found, DOMAIN found \subseteq Nat, NEW sq, ToSet(found) = {sq}
    PROVE  FoundAt(found, sq)
  <1>1. DOMAIN found # {}
    BY DEF ToSet
  <1>2. Min(DOMAIN found) \in DOMAIN found
    BY <1>1, FirstFound
  <1>3. found[Min(DOMAIN found)] \in ToSet(found)
    BY <1>2 DEF ToSet
  <1> QED
    BY <1>1, <1>3 DEF FoundAt

\* Of the places where a pawn can come from, plain moves come first.
LEMMA FoundPlain ==
    ASSUME NEW g, NEW k, NEW l2, NEW c2, NEW w, NEW sq,
           NEW from, from = PawnSearch(g, k, l2, c2, PawnMoves(w), 0, 0),
           ToSet(from) = {sq},
           NEW found, found = PawnSearch(g, k, l2, c2, PawnAll(w), 0, 0)
    PROVE  FoundAt(found, sq)
  <1> DEFINE A == PawnAll(w)
             B == PawnMoves(w)
             D == DOMAIN found
             E == DOMAIN from
  <1>1. DOMAIN B = 1..2 /\ DOMAIN A = 1..4 /\ \A j \in 1..2 : A[j] = B[j]
    BY PawnEntries
  <1>2. /\ \A j : j \in D <=> j \in DOMAIN A /\ Leads(g, k, l2, c2, 0, 0, A[j])
        /\ \A j \in D : found[j] = <<l2 - A[j][1], c2 - A[j][2]>>
    <2> HIDE DEF A
    <2> QED
      BY DEF PawnSearch, Search, Leads, A
  <1>3. /\ \A j : j \in E <=> j \in DOMAIN B /\ Leads(g, k, l2, c2, 0, 0, B[j])
        /\ \A j \in E : from[j] = <<l2 - B[j][1], c2 - B[j][2]>>
    <2> HIDE DEF B
    <2> QED
      BY DEF PawnSearch, Search, Leads, B
  <1>4. (\E j \in E : from[j] = sq) /\ (\A j \in E : from[j] = sq)
    BY DEF ToSet
  <1> HIDE DEF A, B, D, E
  <1>5. E \subseteq 1..2 /\ D \subseteq 1..4 /\ \A j \in 1..2 : j \in D <=> j \in E
    BY <1>1, <1>2, <1>3
  <1>6. \A j \in E : found[j] = from[j]
    BY <1>1, <1>2, <1>3, <1>5
  <1>7. PICK j \in E : from[j] = sq
    BY <1>4
  <1>8. D \in SUBSET Nat /\ j \in D /\ j \in 1..2
    BY <1>5
  <1>9. Min(D) \in D /\ \A i \in D : Min(D) <= i
    BY <1>8, Least DEF Min
  <1>10. Min(D) \in E
    <2>1. Min(D) \in 1..4 /\ Min(D) <= j
      BY <1>5, <1>8, <1>9
    <2>2. Min(D) \in 1..2
      BY <1>8, <2>1
    <2> QED
      BY <1>5, <1>9, <2>2
  <1>11. found[Min(D)] = sq
    BY <1>4, <1>6, <1>10
  <1> QED
    BY <1>8, <1>11 DEF FoundAt, D

\* The column of a pawn that captures leaves one place.
LEMMA FoundTaking ==
    ASSUME NEW g, NEW k, NEW l2 \in Int, NEW c2 \in Int, NEW w, NEW l1 \in Int, NEW c1 \in Int,
           l1 # 0, c1 # 0,
           DOMAIN PawnSearch(g, k, l2, c2, PawnTakes(w), l1, c1) # {},
           NEW found, found = PawnSearch(g, k, l2, c2, PawnAll(w), 0, c1)
    PROVE  FoundAt(found, <<l1, c1>>)
  <1> DEFINE A == PawnAll(w)
             B == PawnTakes(w)
             d == IF w THEN 1 ELSE -1
             S == PawnSearch(g, k, l2, c2, B, l1, c1)
  <1>1. d \in Int
    OBVIOUS
  <1>2. /\ DOMAIN B = 1..2 /\ DOMAIN A = 1..4
        /\ B[1] = <<d, 1>> /\ B[2] = <<d, -1>> /\ A[1] = <<d, 0>> /\ A[2] = <<2 * d, 0>>
        /\ A[3] = <<d, 1>> /\ A[4] = <<d, -1>>
    <2>1. LET e == IF w THEN 1 ELSE -1
          IN  /\ DOMAIN PawnTakes(w) = 1..2 /\ DOMAIN PawnMoves(w) = 1..2
              /\ PawnTakes(w)[1] = <<e, 1>> /\ PawnTakes(w)[2] = <<e, -1>>
              /\ PawnMoves(w)[1] = <<e, 0>> /\ PawnMoves(w)[2] = <<2 * e, 0>>
              /\ DOMAIN PawnAll(w) = 1..4
              /\ \A i \in 1..2 : PawnAll(w)[i] = PawnMoves(w)[i]
              /\ \A i \in 1..2 : PawnAll(w)[2 + i] = PawnTakes(w)[i]
      BY PawnEntries
    <2> HIDE DEF d
    <2>2. A[2 + 1] = B[1] /\ A[2 + 2] = B[2]
      BY <2>1
    <2> QED
      BY <2>1, <2>2 DEF d
  <1> HIDE DEF A, B, d
  <1> DEFINE E == DOMAIN S
             D == DOMAIN found
  <1>3. \A j : j \in E <=> j \in DOMAIN B /\ Leads(g, k, l2, c2, l1, c1, B[j])
    BY SearchIs DEF B
  <1>4. /\ \A j : j \in D <=> j \in DOMAIN A /\ Leads(g, k, l2, c2, 0, c1, A[j])
        /\ \A j \in D : found[j] = <<l2 - A[j][1], c2 - A[j][2]>>
    BY DEF PawnSearch, Search, Leads, A
  <1>5. E # {}
    BY DEF B
  <1> HIDE DEF S, E, D
  <1>6. PICK j \in 1..2 : Leads(g, k, l2, c2, l1, c1, B[j])
    BY <1>2, <1>3, <1>5
  <1>7. /\ B[j][1] = d /\ B[j][2] \in {1, -1}
        /\ 2 + j \in DOMAIN A /\ A[2 + j][1] = d /\ A[2 + j][2] = B[j][2]
    <2>1. CASE j = 1
      BY <1>2, <2>1
    <2>2. CASE j = 2
      BY <1>2, <2>2
    <2> QED
      BY <2>1, <2>2
  <1>8. /\ in_board(l2 - d, c2 - B[j][2]) /\ g[<<l2 - d, c2 - B[j][2]>>] = Cell(PAWN, k)
        /\ l1 = l2 - d /\ c1 = c2 - B[j][2]
    BY <1>6, <1>7 DEF Leads
  <1>9. 2 + j \in D
    <2>1. Leads(g, k, l2, c2, 0, c1, A[2 + j])
      BY <1>7, <1>8 DEF Leads
    <2> QED
      BY <1>4, <1>7, <2>1
  <1>10. ASSUME NEW i \in D PROVE i \in {3, 4} /\ found[i] = <<l1, c1>>
    <2>1. /\ i \in 1..4 /\ Leads(g, k, l2, c2, 0, c1, A[i])
          /\ found[i] = <<l2 - A[i][1], c2 - A[i][2]>>
      BY <1>2, <1>4
    <2>2. i \in {1, 2, 3, 4}
      BY <2>1
    <2>3. c1 = c2 - A[i][2]
      BY <2>1 DEF Leads
    <2>4. A[i][2] # 0
      BY <1>7, <1>8, <2>3
    <2>5. i \in {3, 4} /\ A[i][1] = d
      BY <1>2, <2>2, <2>4
    <2> QED
      BY <1>8, <2>1, <2>3, <2>5
  <1>11. D \in SUBSET Nat
    BY <1>10
  <1>12. Min(D) \in D
    BY <1>9, <1>11, FirstFound
  <1>13. found[Min(D)] = <<l1, c1>>
    BY <1>10, <1>12
  <1> QED
    BY <1>9, <1>11, <1>13 DEF FoundAt, D

\* Only where n starts could its piece have come from, as ambiguity finds it;
\* the column of a pawn that captures is printed.
Distinct(g, n) ==
    \/ n.piece = PAWN /\ n.type = "PRISE"
    \/ ToSet(ByPiece(g, n, IF n.type = "PRISE" THEN PawnTakes(n.whiteturn)
                           ELSE PawnMoves(n.whiteturn), 0, 0)) = {From(n)}

LEMMA FoundAgain ==
    ASSUME NEW g, NEW n \in NodeRec, Names(g, n), Stands(g, n), Distinct(g, n),
           NEW a, a.piece = n.piece, a.prise = VOID, a.whiteturn = n.whiteturn,
           a.fromlig = 0, a.fromcol = IF n.piece = PAWN /\ n.type = "PRISE" THEN n.fromcol ELSE 0,
           a.tolig = n.tolig, a.tocol = n.tocol
    PROVE  FoundAt(ByPiece(g, a, PawnTable(a), a.fromlig, a.fromcol), From(n))
  <1> DEFINE found == ByPiece(g, a, PawnTable(a), a.fromlig, a.fromcol)
             w == n.whiteturn
             k == CURCOLOR(n)
  <1>1. PawnTable(a) = PawnAll(w) /\ CURCOLOR(a) = k
    BY DEF PawnTable, CURCOLOR
  <1>2. found = Search(g, a.piece, CURCOLOR(a), a.tolig, a.tocol, TableOf(a.piece, PawnTable(a)),
                       a.fromlig, a.fromcol, a.piece \notin {PAWN, KNIGHT})
    BY Searches
  <1>3. CASE n.piece # PAWN
    <2> DEFINE T == IF n.type = "PRISE" THEN PawnTakes(w) ELSE PawnMoves(w)
    <2>1. ByPiece(g, n, T, 0, 0)
            = Search(g, n.piece, k, n.tolig, n.tocol, TableOf(n.piece, T), 0, 0,
                     n.piece \notin {PAWN, KNIGHT})
      BY Searches
    <2>2. TableOf(n.piece, T) = TableOf(n.piece, PawnAll(w))
      BY <1>3 DEF TableOf
    <2>3. found = ByPiece(g, n, T, 0, 0)
      <3> HIDE DEF T, found
      <3> QED
        BY <1>1, <1>2, <1>3, <2>1, <2>2
    <2>4. ToSet(found) = {From(n)}
      BY <1>3, <2>3 DEF Distinct
    <2>5. DOMAIN found \subseteq Nat
      <3>1. DOMAIN TableOf(a.piece, PawnTable(a)) \subseteq Nat
        BY PawnTables, TableNumbers
      <3> QED
        BY <3>1, FoundInBoard DEF ByPiece
    <2> HIDE DEF found
    <2> QED
      BY <2>4, <2>5, FoundOnly DEF found
  <1>4. ASSUME NEW T, NEW mv, mv.piece = PAWN, NEW l1, NEW c1
        PROVE  ByPiece(g, mv, T, l1, c1)
                 = PawnSearch(g, CURCOLOR(mv), mv.tolig, mv.tocol, T, l1, c1)
    <2>1. TableOf(mv.piece, T) = T
      BY <1>4 DEF TableOf
    <2>2. ByPiece(g, mv, T, l1, c1)
            = guess_depl(g, mv, T, l1, c1, mv.piece \notin {PAWN, KNIGHT})
      BY <2>1 DEF ByPiece
    <2> QED
      BY <1>4, <2>2 DEF guess_depl, PawnSearch, Search
  <1>5. CASE n.piece = PAWN
    <2>1. found = PawnSearch(g, k, n.tolig, n.tocol, PawnAll(w), 0, a.fromcol)
      <3>1. found = PawnSearch(g, CURCOLOR(a), a.tolig, a.tocol, PawnTable(a), a.fromlig, a.fromcol)
        BY <1>4, <1>5
      <3> HIDE DEF found
      <3> QED
        BY <1>1, <3>1
    <2>2. CASE n.type # "PRISE"
      <3> DEFINE from == PawnSearch(g, k, n.tolig, n.tocol, PawnMoves(w), 0, 0)
      <3>1. from = ByPiece(g, n, PawnMoves(w), 0, 0)
        BY <1>4, <1>5
      <3>2. ToSet(from) = {From(n)}
        BY <2>2, <3>1 DEF Distinct
      <3>3. found = PawnSearch(g, k, n.tolig, n.tocol, PawnAll(w), 0, 0)
        BY <2>1, <2>2
      <3> HIDE DEF found, from
      <3> QED
        BY <3>2, <3>3, FoundPlain DEF found, from
    <2>3. CASE n.type = "PRISE"
      <3>1. PawnTable(n) = PawnTakes(w)
        BY <2>3 DEF Names, PawnTable
      <3>2. DOMAIN PawnSearch(g, k, n.tolig, n.tocol, PawnTakes(w), n.fromlig, n.fromcol) # {}
        <4>1. ByPiece(g, n, PawnTable(n), n.fromlig, n.fromcol)
                = PawnSearch(g, k, n.tolig, n.tocol, PawnTakes(w), n.fromlig, n.fromcol)
          BY <1>4, <1>5, <3>1
        <4> QED
          BY <4>1 DEF Stands, Reaches
      <3>3. found = PawnSearch(g, k, n.tolig, n.tocol, PawnAll(w), 0, n.fromcol)
        BY <1>5, <2>1, <2>3
      <3>4. /\ n.tolig \in Int /\ n.tocol \in Int /\ n.fromlig \in Int /\ n.fromcol \in Int
            /\ n.fromlig # 0 /\ n.fromcol # 0
        BY DEF NodeRec, Stands
      <3> HIDE DEF found
      <3> QED
        BY <3>2, <3>3, <3>4, FoundTaking DEF found, From
    <2> QED
      BY <2>2, <2>3
  <1> QED
    BY <1>3, <1>5

\* Guessing where the move that is read again comes from finds where n did.
LEMMA GuessAgain ==
    ASSUME NEW g, NEW n \in NodeRec, Names(g, n), Stands(g, n), Distinct(g, n),
           NEW y \in NodeRec, y.type \in Asks, ~IsRoque(y), Repeats(y, n), y.whiteturn = n.whiteturn,
           NEW guess, guess = Guess(g, Asked(y))
    PROVE  /\ guess.ok /\ guess.mv \in NodeRec /\ Rooted(guess.mv, y)
           /\ guess.mv.type = y.type /\ guess.mv.piece = n.piece
           /\ guess.mv.fromlig = n.fromlig /\ guess.mv.fromcol = n.fromcol
           /\ guess.mv.tolig = n.tolig /\ guess.mv.tocol = n.tocol
           /\ guess.mv.prise = VOID /\ guess.mv.promotion = n.promotion
  <1> DEFINE a == Asked(y)
             found == ByPiece(g, a, PawnTable(a), a.fromlig, a.fromcol)
             sq == found[Min(DOMAIN found)]
  <1>1. /\ a \in NodeRec /\ a.type = y.type /\ a.piece = n.piece /\ a.prise = VOID
        /\ a.promotion = n.promotion /\ a.whiteturn = y.whiteturn /\ a.fromlig = 0
        /\ a.fromcol = (IF n.piece = PAWN /\ n.type = "PRISE" THEN n.fromcol ELSE 0)
        /\ a.tolig = n.tolig /\ a.tocol = n.tocol /\ Rooted(a, y)
    <2> DEFINE p == IF y.piece = VOID THEN PAWN ELSE y.piece
    <2>1. a = [y EXCEPT !.piece = p]
      BY DEF Asked
    <2>2. p \in Role /\ p = n.piece
      BY DEF Repeats, Tells, Stands, Role, Piece, NodeRec, PAWN, KING, QUEEN, ROOK, BISHOP, KNIGHT, VOID
    <2> HIDE DEF a, p
    <2>3. /\ a \in NodeRec /\ a.type = y.type /\ a.piece = p /\ a.prise = y.prise
          /\ a.promotion = y.promotion /\ a.whiteturn = y.whiteturn /\ a.fromlig = y.fromlig
          /\ a.fromcol = y.fromcol /\ a.tolig = y.tolig /\ a.tocol = y.tocol /\ Rooted(a, y)
      BY <2>1, <2>2 DEF NodeRec, Rooted
    <2> QED
      BY <2>2, <2>3 DEF Repeats, Tells
  <1> HIDE DEF a
  <1>2. FoundAt(found, From(n))
    BY <1>1, FoundAgain
  <1>3. DOMAIN found # {} /\ sq[1] = n.fromlig /\ sq[2] = n.fromcol
    BY <1>2 DEF FoundAt, From
  <1>4. sq[1] # 0 /\ sq[2] # 0
    BY <1>3 DEF Stands
  <1>5. ~IsRoque(a)
    BY <1>1 DEF IsRoque
  <1>6. guess = guess_move(g, a)
    BY <1>1 DEF Guess, a
  <1>7. guess = [ok |-> TRUE, mv |-> [a EXCEPT !.fromlig = sq[1], !.fromcol = sq[2]]]
    BY <1>3, <1>4, <1>5, <1>6 DEF guess_move, Origin
  <1> HIDE DEF found, sq
  <1>8. guess.ok /\ guess.mv = [a EXCEPT !.fromlig = n.fromlig, !.fromcol = n.fromcol]
    BY <1>3, <1>7
  <1>9. n.fromlig \in 0..8 /\ n.fromcol \in 0..8
    BY DEF NodeRec
  <1> DEFINE m == [a EXCEPT !.fromlig = n.fromlig]
             h == guess.mv
  <1>10. /\ m \in NodeRec /\ m.type = a.type /\ m.piece = a.piece /\ m.prise = a.prise
         /\ m.promotion = a.promotion /\ m.fromlig = n.fromlig /\ m.tolig = a.tolig
         /\ m.tocol = a.tocol /\ Rooted(m, a)
    BY <1>1, <1>9 DEF NodeRec, Rooted
  <1>11. h = [m EXCEPT !.fromcol = n.fromcol]
    BY <1>8
  <1> HIDE DEF m, h
  <1>12. /\ h \in NodeRec /\ h.type = m.type /\ h.piece = m.piece /\ h.prise = m.prise
         /\ h.promotion = m.promotion /\ h.fromlig = m.fromlig /\ h.fromcol = n.fromcol
         /\ h.tolig = m.tolig /\ h.tocol = m.tocol /\ Rooted(h, m)
    BY <1>9, <1>10, <1>11 DEF NodeRec, Rooted
  <1>13. Rooted(h, y)
    BY <1>1, <1>10, <1>12 DEF Rooted
  <1> QED
    BY <1>1, <1>8, <1>10, <1>12, <1>13 DEF h

-----------------------------------------------------------------------------
(* Playing the move that is read again. *)
\* A move has the piece that stands where it starts.
LEMMA TakingPiece ==
    ASSUME NEW g, NEW n \in NodeRec
    PROVE  LET took == Taking(g, Found(g, n))
           IN  took.piece = IF From(n) = <<0, 0>> THEN n.piece ELSE g[From(n)].piece
  <1> DEFINE f == Found(g, n)
             p == g[From(n)].piece
             q == g[To(f)].piece
  <1>1. f.piece = (IF From(n) = <<0, 0>> THEN n.piece ELSE p) /\ DOMAIN f = DOMAIN n
    BY DEF Found, NodeRec
  <1> HIDE DEF f, p
  <1>2. Taking(g, f) = f \/ Taking(g, f) = [f EXCEPT !.type = "PRISE", !.prise = q]
    BY DEF Taking
  <1> HIDE DEF q
  <1>3. Taking(g, f).piece = f.piece
    BY <1>1, <1>2 DEF NodeRec
  <1> QED
    BY <1>1, <1>3 DEF f, p

\* PlayMove, for a move found and accepted as it is.
LEMMA PlayMoveReads ==
    ASSUME NEW s \in Game, s.status = "reading", ~s.error, NEW c, c.ok,
           NEW mv, mv = Final(c.mv), NEW guess, guess.ok
    PROVE  /\ PlayMove(s, guess.ok, c).status = "reading"
           /\ PlayMove(s, guess.ok, c).tos
                 = IF IsRoque(mv) THEN do_move(c.board, mv)
                   ELSE ambiguity(do_move(c.board, mv), mv).board
  <1> DEFINE board == do_move(c.board, mv)
             after == IF IsRoque(mv) THEN board ELSE ambiguity(board, mv).board
             n == [mv EXCEPT !.how = "played", !.seen = board]
             stop == s.error \/ ~guess.ok \/ ~c.ok
  <1>1. PlayMove(s, guess.ok, c) = [s EXCEPT !.node[s.m] = n, !.tos = after, !.error = stop,
                                       !.status = IF stop THEN "exit" ELSE @]
    BY DEF PlayMove, Final
  <1>2. ~stop
    OBVIOUS
  <1> HIDE DEF n, after, stop
  <1>3. /\ PlayMove(s, guess.ok, c).status = "reading" /\ PlayMove(s, guess.ok, c).tos = after
    BY <1>1, <1>2 DEF Game
  <1> QED
    BY <1>3 DEF after

\* A move whose text is read again in the position it was made in is made again.
LEMMA PlaysAgain ==
    ASSUME NEW s \in Game, s.status = "reading", ~s.error,
           NEW n \in NodeRec, ~IsRoque(n), Retold(s.tos, n), Distinct(s.tos, n),
           NEW y \in NodeRec, y = Cur(s), y.type \in Asks, ~IsRoque(y), Repeats(y, n),
           y.whiteturn = n.whiteturn
    PROVE  execute_move(s).status = "reading" /\ execute_move(s).tos = n.seen
  <1> DEFINE g == s.tos
             guess == Guess(g, Asked(y))
             h == guess.mv
             took == Taking(g, Found(g, h))
             c == check_move(g, took)
  <1>1. g \in Boards /\ Names(g, n) /\ Stands(g, n) /\ undo_move(n.seen, n) = g /\ n.seen = do_move(g, n)
    BY DEF Game, Retold, Legible
  <1>2. execute_move(s) = PlayMove(s, guess.ok, c)
    BY DEF execute_move
  <1> HIDE DEF g
  <1>3. /\ guess.ok /\ h \in NodeRec /\ Rooted(h, y)
        /\ h.type = y.type /\ h.piece = n.piece
        /\ h.fromlig = n.fromlig /\ h.fromcol = n.fromcol
        /\ h.tolig = n.tolig /\ h.tocol = n.tocol
        /\ h.prise = VOID /\ h.promotion = n.promotion
    BY <1>1, GuessAgain DEF g
  <1> HIDE DEF guess, h
  <1>4. /\ From(h) = From(n) /\ To(h) = To(n) /\ From(h) # <<0, 0>> /\ g[From(n)].piece = n.piece
    BY <1>1, <1>3 DEF From, To, Stands, Cell
  <1>5. /\ From(took) = From(h) /\ To(took) = To(h) /\ took.promotion = h.promotion
        /\ took.tocol = h.tocol /\ took.fromlig = h.fromlig /\ took.fromcol = h.fromcol
        /\ IF g[To(h)].piece = VOID THEN took.type = h.type /\ took.prise = h.prise
           ELSE took.type = "PRISE" /\ took.prise = g[To(h)].piece
    BY <1>3, TakingKeeps
  <1>6. took.piece = n.piece
    BY <1>3, <1>4, TakingPiece
  <1>7. took \in NodeRec /\ took.whiteturn = h.whiteturn
    <2>1. Revises(took, h)
      <3>1. h.type \in Asks
        BY <1>3
      <3> QED
        BY <1>1, <1>3, <3>1, TakingFacts
    <2> QED
      BY <2>1 DEF Revises, Rooted
  <1> HIDE DEF took
  <1>8. took.tolig = h.tolig
    BY <1>5 DEF To
  <1>9. took.type = n.type /\ took.prise = n.prise
    <2>1. CASE g[To(n)].piece = VOID
      <3>1. n.type # "PRISE" /\ n.prise = VOID
        BY <1>1, <2>1 DEF Names
      <3>2. y.type = n.type
        BY <3>1 DEF Repeats, Tells
      <3> QED
        BY <1>3, <1>4, <1>5, <2>1, <3>1, <3>2
    <2>2. CASE g[To(n)].piece # VOID
      BY <1>1, <1>4, <1>5, <2>2 DEF Names
    <2> QED
      BY <2>1, <2>2
  <1>10. Agree(n, took)
    <2>1. took.whiteturn = n.whiteturn
      BY <1>3, <1>7 DEF Rooted
    <2> QED
      BY <1>3, <1>5, <1>6, <1>8, <1>9, <2>1 DEF Agree
  <1>11. /\ do_move(g, n) = do_move(g, took) /\ Legible(g, took) /\ ~IsRoque(took)
    BY <1>1, <1>10, AgreeDoes DEF Legible
  <1>12. c = [ok |-> TRUE, mv |-> took, board |-> g]
    BY <1>1, <1>9, <1>11, LegibleChecks DEF Names
  <1>13. undo_move(n.seen, took) = g
    BY <1>1, <1>7, <1>10, UndoRooted DEF Agree
  <1>14. c.ok /\ c.mv = took /\ c.board = g /\ Final(c.mv) = took
    BY <1>11, <1>12 DEF Final
  <1> HIDE DEF c
  <1> DEFINE board == do_move(c.board, took)
  <1>15. /\ PlayMove(s, guess.ok, c).status = "reading"
         /\ PlayMove(s, guess.ok, c).tos = IF IsRoque(took) THEN board ELSE ambiguity(board, took).board
    <2>1. guess.ok /\ c.ok /\ took = Final(c.mv)
      BY <1>3, <1>14
    <2>2. /\ PlayMove(s, guess.ok, c).status = "reading"
          /\ PlayMove(s, guess.ok, c).tos = IF IsRoque(took) THEN do_move(c.board, took) ELSE ambiguity(do_move(c.board, took), took).board
      BY <2>1, PlayMoveReads
    <2> QED
      BY <2>2
  <1>16. ambiguity(board, took).board = n.seen
    <2>1. board = n.seen
      BY <1>1, <1>11, <1>14
    <2>2. ambiguity(board, took).board = do_move(undo_move(board, took), took)
      BY DEF ambiguity
    <2> QED
      BY <1>1, <1>11, <1>13, <2>1, <2>2
  <1> QED
    BY <1>2, <1>11, <1>15, <1>16

\* Castling, read again in the position it was made in, is made again.
LEMMA CastlesAgain ==
    ASSUME NEW s \in Game, s.status = "reading", ~s.error,
           NEW n \in NodeRec, IsRoque(n), Retold(s.tos, n),
           NEW y \in NodeRec, y = Cur(s), y.type = n.type, Asking(y), y.whiteturn = n.whiteturn
    PROVE  execute_move(s).status = "reading" /\ execute_move(s).tos = n.seen
  <1> DEFINE g == s.tos
             a == Asked(y)
             guess == Guess(g, a)
             c == check_move(g, a)
             mv == [a EXCEPT !.fromlig = RoqueLine(a)]
  <1>1. /\ check_roque(g, n) /\ g[<<0, 0>>].piece = VOID /\ n.seen = do_move(g, n)
    BY DEF Retold, Legible
  <1>2. IsRoque(y) /\ From(y) = <<0, 0>> /\ To(y) = <<0, 0>>
    BY DEF Asking, IsRoque
  <1>3. /\ a.type = n.type /\ a.whiteturn = n.whiteturn /\ IsRoque(a) /\ DOMAIN a = DOMAIN y
        /\ From(a) = <<0, 0>> /\ To(a) = <<0, 0>> /\ a.fromlig = 0
    <2> DEFINE p == IF y.piece = VOID THEN PAWN ELSE y.piece
    <2>1. a = [y EXCEPT !.piece = p]
      BY DEF Asked
    <2> HIDE DEF a, p
    <2>2. /\ a.type = y.type /\ a.whiteturn = y.whiteturn /\ a.fromlig = y.fromlig
          /\ a.fromcol = y.fromcol /\ a.tolig = y.tolig /\ a.tocol = y.tocol /\ DOMAIN a = DOMAIN y
      BY <2>1 DEF NodeRec
    <2>3. y.fromlig = 0
      BY <1>2 DEF From
    <2> QED
      BY <1>2, <2>2, <2>3 DEF IsRoque, From, To
  <1> HIDE DEF g, a
  <1>4. guess = [ok |-> TRUE, mv |-> a]
    BY <1>3 DEF Guess, guess_move, Origin
  <1>5. guess.ok /\ guess.mv = a
    BY <1>4
  <1>6. execute_move(s) = PlayMove(s, guess.ok, c)
    <2>1. execute_move(s)
            = PlayMove(s, guess.ok, check_move(g, Taking(g, Found(g, guess.mv))))
      BY DEF execute_move, g, a
    <2>2. Taking(g, Found(g, a)) = a
      BY <1>1, <1>3 DEF Taking, Found
    <2> QED
      BY <1>5, <2>1, <2>2
  <1> HIDE DEF guess
  <1>7. RoqueLine(a) = RoqueLine(n) /\ RoqueCols(a) = RoqueCols(n) /\ CURCOLOR(a) = CURCOLOR(n)
    BY <1>3 DEF RoqueLine, RoqueCols, CURCOLOR
  <1>8. check_roque(g, a)
    BY <1>1, <1>3, <1>7 DEF check_roque
  <1>9. c.ok /\ c.mv = a /\ c.board = g
    BY <1>3, <1>8 DEF check_move
  <1> HIDE DEF c
  <1>10. mv = Final(c.mv)
    BY <1>3, <1>9 DEF Final
  <1>11. mv.type = n.type /\ mv.whiteturn = n.whiteturn
    BY <1>3 DEF NodeRec
  <1> HIDE DEF mv
  <1>12. IsRoque(mv) /\ do_move(g, mv) = do_move(g, n)
    <2>1. /\ RoqueLine(mv) = RoqueLine(n) /\ RoqueCols(mv) = RoqueCols(n)
          /\ CURCOLOR(mv) = CURCOLOR(n) /\ IsRoque(mv)
      BY <1>11 DEF RoqueLine, RoqueCols, CURCOLOR, IsRoque
    <2> QED
      BY <1>11, <2>1 DEF do_move, IsRoque
  <1>13. /\ PlayMove(s, guess.ok, c).status = "reading"
         /\ PlayMove(s, guess.ok, c).tos = IF IsRoque(mv) THEN do_move(c.board, mv)
                                           ELSE ambiguity(do_move(c.board, mv), mv).board
    BY <1>5, <1>9, <1>10, PlayMoveReads
  <1> QED
    BY <1>1, <1>6, <1>9, <1>12, <1>13 DEF g

\* The text of move n, read where n was made, makes n again: the automaton, the
\* guess of where it comes from, and the check, one after the other.
LEMMA TextMakesMove ==
    ASSUME NEW s \in Game, s.m \in DOMAIN s.node, s.m \notin s.freed, s.status = "reading", ~s.error,
           NEW n \in NodeRec, Retold(s.tos, n), n.whiteturn <=> ~Cur(s).whiteturn,
           n.type # "EN_PASSANT", n.tolig # 0 \/ IsRoque(n), IsRoque(n) \/ Distinct(s.tos, n),
           s.configuring => IsRoque(n) \/ n.promotion # VOID,
           NEW r, r = IF IsRoque(n) THEN parse_roque(s, output_move(n))
                      ELSE parse_move(s, output_move(n))
    PROVE  r.status = "reading" /\ r.tos = n.seen
  <1> DEFINE s1 == add_trailing_move(s)
             b == Cur(s1)
  <1>1. /\ Extended(s, s1, b) /\ Blank(b) /\ b.how = "rejected" /\ b.seen = s.tos
        /\ s1.tos = s.tos /\ s1.status = s.status /\ s1.error = s.error
    BY Trailing
  <1>2. b \in NodeRec /\ b.whiteturn = n.whiteturn
    <2>1. b \in NodeRec /\ (b.whiteturn <=> ~Cur(s).whiteturn)
      BY <1>1 DEF Extended, Follows
    <2>2. b.whiteturn \in BOOLEAN /\ n.whiteturn \in BOOLEAN
      BY <2>1 DEF NodeRec
    <2> QED
      BY <2>1, <2>2
  <1> HIDE DEF b
  <1>3. ASSUME NEW y \in NodeRec, Rooted(y, b), NEW s2, s2 = [s1 EXCEPT !.node[s1.m] = y]
        PROVE  /\ s2 \in Game /\ Cur(s2) = y /\ s2.status = "reading" /\ ~s2.error
               /\ s2.tos = s.tos /\ y.whiteturn = n.whiteturn
               /\ s2.configuring = s.configuring
    <2>1. Refilled(s, s1, y, s2)
      BY <1>1, <1>3, Refills DEF b
    <2>2. s2.error = s1.error
      BY <1>1, <1>3 DEF Extended, Game
    <2> QED
      BY <1>1, <1>2, <1>3, <2>1, <2>2 DEF Refilled, Extended, Rooted
  <1>4. CASE IsRoque(n)
    <2> DEFINE token == output_move(n)
               type == IF token \in ShortRoque THEN "PETITROQUE" ELSE "GRANDROQUE"
               y == [b EXCEPT !.type = type]
               s2 == [s1 EXCEPT !.node[s1.m].type = type]
    <2>1. r = execute_move(s2)
      BY <1>4 DEF parse_roque
    <2>2. type = n.type
      <3>1. CASE n.type = "PETITROQUE"
        BY <1>4, <3>1 DEF output_move, ShortRoque
      <3>2. CASE n.type # "PETITROQUE"
        <4>1. token = <<"O-O-O">> /\ n.type = "GRANDROQUE"
          BY <1>4, <3>2 DEF output_move, IsRoque
        <4>2. \A t \in ShortRoque : t[1] # "O-O-O"
          <5>1. <<"O-O">>[1] = "O-O" /\ <<"o-o">>[1] = "o-o" /\ <<"0-0">>[1] = "0-0"
            OBVIOUS
          <5>2. "O-O" # "O-O-O" /\ "o-o" # "O-O-O" /\ "0-0" # "O-O-O"
            BY Zenon
          <5> QED
            BY <5>1, <5>2, Zenon DEF ShortRoque
        <4>3. <<"O-O-O">>[1] = "O-O-O"
          OBVIOUS
        <4>4. token \notin ShortRoque
          BY <4>1, <4>2, <4>3, Zenon
        <4> QED
          BY <4>1, <4>4
      <3> QED
        BY <3>1, <3>2
    <2> HIDE DEF type
    <2>3. s2 = [s1 EXCEPT !.node[s1.m] = y]
      BY DEF Cur, b
    <2> HIDE DEF s2
    <2>4. /\ y \in NodeRec /\ Rooted(y, b) /\ y.type = n.type
          /\ From(y) = From(b) /\ To(y) = To(b)
      <3>1. n.type \in Kinds
        BY DEF NodeRec
      <3> QED
        BY <1>2, <2>2, <3>1 DEF NodeRec, Rooted, From, To
    <2>5. Asking(y)
      <3>1. IsRoque(y)
        BY <1>4, <2>4 DEF IsRoque
      <3> QED
        BY <1>1, <2>4, <3>1 DEF Asking, Blank
    <2> HIDE DEF y
    <2>6. /\ s2 \in Game /\ Cur(s2) = y /\ s2.status = "reading" /\ ~s2.error
          /\ s2.tos = s.tos /\ y.whiteturn = n.whiteturn
      BY <1>3, <2>3, <2>4
    <2>7. execute_move(s2).status = "reading" /\ execute_move(s2).tos = n.seen
      BY <1>4, <2>4, <2>5, <2>6, CastlesAgain
    <2> QED
      BY <2>1, <2>7
  <1>5. CASE ~IsRoque(n)
    <2> DEFINE x == Automaton(output_move(n), b)
               y == x.mv
               s2 == [s1 EXCEPT !.node[s1.m] = y]
    <2>1. Names(s.tos, n) /\ Stands(s.tos, n)
      BY <1>5 DEF Retold, Legible
    <2>2. Ended(x, b, IF n.promotion = VOID THEN "to" ELSE "now") /\ Repeats(y, n)
      <3>1. /\ n.piece \in Piece /\ n.tocol \in 1..8 /\ n.tolig \in 1..8
            /\ n.type \in {"MOVE", "PRISE", "PROMOTION"} /\ (n.type = "MOVE" => n.promotion = VOID)
            /\ n.type = "PROMOTION" => n.promotion # VOID /\ n.piece = PAWN
            /\ n.fromcol \in 1..8
        BY <1>5, <2>1 DEF Names, Stands, NodeRec
      <3> QED
        BY <1>1, <1>2, <1>5, <3>1, TextReads
    <2>3. r = IF x.run = "none" THEN s2
              ELSE IF x.run = "to" /\ s.configuring THEN configure(s2)
              ELSE execute_move(s2)
      BY <1>5 DEF parse_move, b
    <2>4. /\ y \in NodeRec /\ Rooted(y, b) /\ y.type \in Asks
          /\ x.run = IF n.promotion = VOID THEN "to" ELSE "now"
      BY <2>2 DEF Ended, Parsed, Revises
    <2>5. ~IsRoque(y)
      BY <1>5, <2>1, <2>2 DEF Repeats, Tells, IsRoque, Names
    <2> HIDE DEF x
    <2>6. r = execute_move(s2)
      BY <1>5, <2>3, <2>4
    <2> HIDE DEF y
    <2>7. /\ s2 \in Game /\ Cur(s2) = y /\ s2.status = "reading" /\ ~s2.error
          /\ s2.tos = s.tos /\ y.whiteturn = n.whiteturn
      BY <1>3, <2>4
    <2> HIDE DEF s2
    <2>8. execute_move(s2).status = "reading" /\ execute_move(s2).tos = n.seen
      BY <1>5, <2>2, <2>4, <2>5, <2>7, PlaysAgain
    <2> QED
      BY <2>6, <2>8
  <1> QED
    BY <1>4, <1>5

LEMMA ReadsBack ==
    ASSUME IInv
    PROVE  ReadBack
  <1> DEFINE n == Cur(nt)
             p == nt.node[n.prev]
             again == [nt EXCEPT !.m = n.prev, !.tos = Before(nt.m), !.error = FALSE]
             unique == IsRoque(n) \/ (n.piece = PAWN /\ n.type = "PRISE")
                       \/ ToSet(ambiguity(n.seen, n).from) = {From(n)}
             r == IF IsRoque(n) THEN parse_roque(again, output_move(n))
                  ELSE parse_move(again, output_move(n))
  <1>1. SUFFICES ASSUME Played(nt.m), n.type # "EN_PASSANT", n.tolig # 0 \/ IsRoque(n), unique
                 PROVE  r.status = "reading" /\ r.tos = n.seen
    BY DEF ReadBack, SaysMove
  <1>2. /\ nt.status = "reading" /\ Good(nt) /\ n.how = "played" /\ nt \in Game
        /\ nt.m \in DOMAIN nt.node /\ nt.m \in Ends(nt)
    BY <1>1 DEF Played, IInv, Good, Aged, Ends, Cur
  <1>3. After(p, n)
    BY <1>2 DEF Good, Just, Cur
  <1>4. Retold(p.seen, n) /\ (n.whiteturn <=> ~p.whiteturn)
    BY <1>1, <1>3 DEF After
  <1>5. n \in NodeRec /\ n.prev \in DOMAIN nt.node /\ n.prev \notin nt.freed /\ p \in NodeRec
    <2>1. nt.node \in Seq(NodeRec)
      BY <1>2 DEF Game
    <2>2. nt.m # Chain
      BY <1>2 DEF Good, Aged, Cur
    <2>3. n.prev \in 1..nt.m - 1
      BY <1>2, <2>2 DEF Good, Aged, Cur
    <2>4. n.prev \in DOMAIN nt.node
      BY <1>2, <2>1, <2>3
    <2>5. n.prev \notin nt.freed
      BY <1>2, <2>2 DEF Good, Lines, Cur
    <2> QED
      BY <1>2, <2>1, <2>4, <2>5 DEF Cur
  <1>6. Before(nt.m) = p.seen
    BY DEF Before, Cur
  <1>7. nt.configuring => IsRoque(n) \/ n.promotion # VOID
    BY <1>2 DEF Good, Marked, Cur
  <1> HIDE DEF n
  <1>8. /\ again \in Game /\ again.m = n.prev /\ again.tos = p.seen /\ again.node = nt.node
        /\ again.freed = nt.freed /\ again.configuring = nt.configuring
        /\ again.status = "reading" /\ ~again.error
    <2>1. p.seen \in Boards /\ n.prev \in Nat
      BY <1>5 DEF NodeRec
    <2> HIDE DEF p
    <2> QED
      BY <1>2, <1>6, <2>1 DEF Game
  <1>9. Cur(again) = p
    BY <1>8 DEF Cur
  <1> HIDE DEF p, again
  <1>10. IsRoque(n) \/ Distinct(again.tos, n)
    <2>1. ambiguity(n.seen, n).from
            = ByPiece(again.tos, n, IF n.type = "PRISE" THEN PawnTakes(n.whiteturn)
                                    ELSE PawnMoves(n.whiteturn), 0, 0)
      <3>1. undo_move(n.seen, n) = again.tos
        BY <1>4, <1>8 DEF Retold
      <3> QED
        BY <3>1 DEF ambiguity
    <2> QED
      BY <1>1, <2>1 DEF Distinct
  <1> HIDE DEF unique
  <1>11. Retold(again.tos, n) /\ (n.whiteturn <=> ~Cur(again).whiteturn)
    BY <1>4, <1>8, <1>9
  <1>12. again.m \in DOMAIN again.node /\ again.m \notin again.freed
    BY <1>5, <1>8
  <1>13. again.configuring => IsRoque(n) \/ n.promotion # VOID
    BY <1>7, <1>8
  <1> QED
    BY <1>1, <1>5, <1>8, <1>10, <1>11, <1>12, <1>13, TextMakesMove

-----------------------------------------------------------------------------
(* The properties of the reader. *)
\* For every careful input, whatever its variations: the board the program keeps
\* while it reads, undone and restored as variations open and close
\* (notation.c's move_board and its stack of positions), is the board that the
\* moves before it lead to.
THEOREM BoardBacktracked ==
    ASSUME Careful, TokensAreText
    PROVE  Spec => []Backtracked
  <1>1. IInv => Backtracked
    BY DEF IInv, Good, Positions, Backtracked
  <1> QED
    BY <1>1, Inductive, PTL

\* The first move of a variation, for every careful input, has the side and the
\* number of the move it replaces (add_variation).
THEOREM VariationsKeepTurn ==
    ASSUME Careful, TokensAreText
    PROVE  Spec => []SameTurn
  <1>1. IInv => SameTurn
    <2> SUFFICES ASSUME IInv, Played(nt.m), nt.node[Cur(nt).prev].how = "open"
                 PROVE  /\ Cur(nt).whiteturn = nt.node[nt.node[Cur(nt).prev].prev].whiteturn
                        /\ Cur(nt).move = nt.node[nt.node[Cur(nt).prev].prev].move
      BY DEF SameTurn
    <2> DEFINE n == Cur(nt)
               h == nt.node[n.prev]
               mo == nt.node[h.prev]
    <2>1. Good(nt) /\ n.how = "played"
      BY DEF IInv, Played, Cur
    <2>2. Just(nt, nt.m)
      BY <2>1 DEF Good, Ends
    <2>3. After(h, n) /\ Replaces(h, mo)
      BY <2>1, <2>2 DEF Just, Cur
    <2>4. n \in NodeRec /\ mo \in NodeRec
      <3>1. nt \in Game /\ Aged(nt) /\ nt.m \in DOMAIN nt.node
        BY <2>1 DEF Good, Aged
      <3>2. DOMAIN nt.node = 1..Len(nt.node) /\ Len(nt.node) \in Nat /\ nt.node \in Seq(NodeRec)
        BY <3>1 DEF Game
      <3>3. n.prev \in 1..nt.m - 1
        BY <2>1, <3>1 DEF Aged, Cur
      <3>4. h.prev \in 1..n.prev - 1
        <4>1. n.prev \in DOMAIN nt.node /\ n.prev # Chain
          BY <3>1, <3>2, <3>3 DEF Aged
        <4> QED
          BY <3>1, <4>1 DEF Aged
      <3>5. h.prev \in DOMAIN nt.node
        <4> HIDE DEF n, h
        <4> QED
          BY <3>1, <3>2, <3>3, <3>4
      <3> QED
        BY <3>1, <3>2, <3>5 DEF Cur
    <2>5. n.whiteturn <=> mo.whiteturn
      BY <2>3 DEF After, Replaces
    <2>6. n.whiteturn = mo.whiteturn
      BY <2>4, <2>5 DEF NodeRec
    <2>7. n.move = mo.move
      BY <2>3, <2>6 DEF After, Replaces
    <2> QED
      BY <2>6, <2>7
  <1> QED
    BY <1>1, Inductive, PTL

\* No careful input makes or loses a piece: after a move the side that moved has
\* what it had, the other one piece less if the move captures (do_move,
\* check_move, undo_move).
THEOREM NoPieceAppears ==
    ASSUME Careful, TokensAreText
    PROVE  Spec => []Material
  <1>1. IInv => Material
    <2> SUFFICES ASSUME IInv PROVE Material
      OBVIOUS
    <2>1. ASSUME Played(nt.m) PROVE Balance(Before(nt.m), Cur(nt).seen, Cur(nt))
      <3>1. Good(nt) /\ Cur(nt).how = "played"
        BY <2>1 DEF IInv, Played, Cur
      <3>2. Just(nt, nt.m)
        BY <3>1 DEF Good, Ends
      <3>3. After(nt.node[Cur(nt).prev], Cur(nt))
        BY <3>1, <3>2 DEF Just, Cur
      <3> QED
        BY <3>3 DEF After, Before, Cur
    <2> QED
      BY <2>1 DEF Material, Balance, Men
  <1> QED
    BY <1>1, Inductive, PTL

\* The line that ends in node i, as LineAlive defines it.
IsLine(f, k, node) == f = [i \in 0..k |-> IF i = NULL THEN {} ELSE {i} \cup f[node[i].prev]]

LEMMA LineExists ==
    ASSUME NEW node, NEW N \in Nat, \A i \in 1..N : node[i].prev \in 0..i - 1, NEW n \in 0..N
    PROVE  \E f : IsLine(f, n, node)
  <1> DEFINE S == {k \in 0..N : ~\E f : IsLine(f, k, node)}
  <1> SUFFICES S = {}
    OBVIOUS
  <1>1. SUFFICES ASSUME S # {} PROVE FALSE
    OBVIOUS
  <1>2. PICK k \in S : \A j \in S : k <= j
    <2>1. S \in SUBSET Nat
      OBVIOUS
    <2> HIDE DEF S
    <2> QED
      BY <1>1, <2>1, Least
  <1>3. k \in 0..N /\ ~\E f : IsLine(f, k, node)
    BY <1>2
  <1>4. CASE k = 0
    <2> DEFINE f == [i \in 0..0 |-> {}]
    <2>1. f = [i \in 0..0 |-> IF i = NULL THEN {} ELSE {i} \cup f[node[i].prev]]
      BY DEF NULL
    <2>2. IsLine(f, 0, node)
      BY <2>1 DEF IsLine
    <2> QED
      BY <1>3, <1>4, <2>2
  <1>5. CASE k # 0
    <2>1. k - 1 \in 0..N /\ k - 1 \notin S /\ k \in 1..N
      BY <1>2, <1>3, <1>5
    <2>2. PICK f : IsLine(f, k - 1, node)
      BY <2>1
    <2> DEFINE g == [i \in 0..k |-> IF i = k THEN {k} \cup f[node[k].prev] ELSE f[i]]
    <2>3. ASSUME NEW i \in 0..k
          PROVE  g[i] = IF i = NULL THEN {} ELSE {i} \cup g[node[i].prev]
      <3>1. i # 0 => node[i].prev \in 0..i - 1
        BY <1>3
      <3>2. CASE i = k
        <4>1. node[k].prev \in 0..k /\ node[k].prev # k
          BY <1>5, <2>1, <3>1, <3>2
        <4> QED
          BY <1>5, <3>2, <4>1 DEF NULL
      <3>3. CASE i # k
        <4>1. i \in 0..k - 1 /\ g[i] = f[i]
          BY <1>3, <3>3
        <4>2. f[i] = IF i = NULL THEN {} ELSE {i} \cup f[node[i].prev]
          BY <2>2, <4>1 DEF IsLine
        <4>3. i # 0 => node[i].prev \in 0..k /\ node[i].prev # k
          BY <1>3, <3>1, <4>1
        <4> QED
          BY <4>1, <4>2, <4>3 DEF NULL
      <3> QED
        BY <3>2, <3>3
    <2>4. g = [i \in 0..k |-> IF i = NULL THEN {} ELSE {i} \cup g[node[i].prev]]
      <3> HIDE DEF g
      <3>1. g = [i \in 0..k |-> g[i]]
        BY DEF g
      <3> QED
        BY <2>3, <3>1
    <2>5. IsLine(g, k, node)
      BY <2>4 DEF IsLine
    <2> QED
      BY <1>3, <2>5
  <1> QED
    BY <1>4, <1>5

\* Nothing the game's line is made of has been freed, for every careful input:
\* not the node m, nor a move before it, nor the line that any of the open
\* variations will return to, whatever exit_variation and the restarts freed.
THEOREM LinesStayAlive ==
    ASSUME Careful, TokensAreText
    PROVE  Spec => []LineAlive
  <1>1. IInv => LineAlive
    <2> DEFINE N == Len(nt.node)
               line == CHOOSE f : IsLine(f, N, nt.node)
    <2>1. SUFFICES ASSUME IInv, nt.status = "reading",
                          NEW i \in {nt.m} \cup {nt.stack[j].d : j \in DOMAIN nt.stack}
                   PROVE  line[i] \cap nt.freed = {}
      BY DEF LineAlive, IsLine
    <2>2. Good(nt)
      BY <2>1 DEF IInv
    <2>3. nt \in Game /\ Aged(nt) /\ N \in Nat /\ DOMAIN nt.node = 1..N
      BY <2>2 DEF Good, Game
    <2>4. \A k \in 1..N : nt.node[k].prev \in 0..k - 1
      <3>1. \A k \in 1..N : k # Chain => nt.node[k].prev \in 1..k - 1
        BY <2>3 DEF Aged
      <3>2. nt.node[Chain].prev = 0
        BY <2>3 DEF Aged, NULL
      <3> QED
        BY <3>1, <3>2
    <2>5. IsLine(line, N, nt.node)
      <3>1. N \in 0..N
        BY <2>3
      <3> HIDE DEF N
      <3>2. \E f : IsLine(f, N, nt.node)
        BY <2>3, <2>4, <3>1, LineExists
      <3> QED
        BY <3>2
    <2> HIDE DEF line, N
    <2>6. PICK L : Lines(nt, L)
      BY <2>2 DEF Good
    <2>7. i \in L /\ L \subseteq 1..N /\ L \cap nt.freed = {}
          /\ \A k \in L : k # Chain => nt.node[k].prev \in L
      BY <2>1, <2>3, <2>6 DEF Lines, Ends
    <2> DEFINE S == {k \in L : line[k] \cap nt.freed # {}}
    <2>8. ASSUME S # {} PROVE FALSE
      <3>1. PICK k \in S : \A j \in S : k <= j
        <4>1. S \in SUBSET Nat
          BY <2>7
        <4> HIDE DEF S
        <4> QED
          BY <2>8, <4>1, Least
      <3>2. k \in L /\ k \in 1..N /\ line[k] \cap nt.freed # {} /\ k \notin nt.freed
        <4>1. k \in L /\ line[k] \cap nt.freed # {}
          OBVIOUS
        <4> QED
          BY <2>7, <4>1
      <3>3. line[k] = {k} \cup line[nt.node[k].prev]
        <4>1. \A j \in 0..N : line[j] = IF j = NULL THEN {} ELSE {j} \cup line[nt.node[j].prev]
          BY <2>5 DEF IsLine
        <4>2. k \in 0..N /\ k # NULL
          BY <2>3, <3>2 DEF NULL
        <4> HIDE DEF S
        <4> QED
          BY <4>1, <4>2
      <3>4. line[nt.node[k].prev] \cap nt.freed # {}
        BY <3>2, <3>3
      <3>5. CASE k = Chain
        <4>1. nt.node[k].prev = 0
          BY <2>3, <3>5 DEF Aged, NULL
        <4>2. line[0] = {}
          BY <2>3, <2>5 DEF IsLine, NULL
        <4> QED
          BY <3>4, <4>1, <4>2
      <3>6. CASE k # Chain
        <4>1. nt.node[k].prev \in L /\ nt.node[k].prev \in 1..k - 1
          BY <2>3, <2>7, <3>2, <3>6 DEF Aged
        <4>2. nt.node[k].prev \in S
          BY <3>4, <4>1
        <4> QED
          BY <3>1, <3>2, <4>1, <4>2
      <3> QED
        BY <3>5, <3>6
    <2> QED
      BY <2>7, <2>8
  <1> QED
    BY <1>1, Inductive, PTL

\* The text the program prints for a move, in every game a careful input can
\* make, says which move it was: parsed again in the position the move was made
\* in (parse_move's automaton, guess_move, check_move), it leads to the board
\* that the move led to. Left out are a move made en passant, a move that
\* another piece of its kind could have made, whose origin output_move does not
\* print, and one that the parser sent to the margin of the board.
THEOREM TextReadsBack ==
    ASSUME Careful, TokensAreText
    PROVE  Spec => []ReadBack
  <1>1. IInv => ReadBack
    BY ReadsBack
  <1> QED
    BY <1>1, Inductive, PTL
==============================================================================
