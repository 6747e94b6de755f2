-------------------------- MODULE MCNotationOutput --------------------------
(* Command lines and games for the notation program's output. *)
EXTENDS NotationOutput

Flag(key) == [key |-> key, value |-> <<>>]
With(key, value) == [key |-> key, value |-> <<value>>]
WithList(key, list) == [key |-> key, value |-> list]

CommandLine ==
    { With("-f", "french"), With("-t", "german"), With("-t", "klingon"), Flag("-t"),
      With("-d", "tex"), With("-d", "gnu"), With("-d", "xchess"), With("-d", "postscript"),
      With("-o", "game.out"), Flag("-o"), Flag("-a"), Flag("-s"), Flag("-b"), Flag("-i"),
      With("-e", 1), WithList("-c", <<1>>), WithList("-c", <<2, 1>>), Flag("-v"), Flag("-h"),
      Flag("-?"), Flag("infile") }

Move(letter, stands, type, fromcol, to, promotion) ==
    [letter |-> letter, type |-> type, fromcol |-> fromcol, tocol |-> to[1], tolig |-> to[2],
     promotion |-> promotion, stands |-> stands]

\* A knight in English and nothing in French; a queen that the token took for a
\* knight, an empty square; a pawn's capture that promotes.
GameMoves ==
    { Move("N", Guessed, "MOVE", 7, <<6, 3>>, ""), Move("N", QUEEN, "MOVE", 7, <<6, 3>>, ""),
      Move("N", VOID, "MOVE", 7, <<6, 3>>, ""), Move("", PAWN, "PROM_ET_PRISE", 2, <<1, 8>>, "Q"),
      Move("", Guessed, "GRANDROQUE", 0, <<0, 0>>, "") }

Tongues == {"french"}
==============================================================================
