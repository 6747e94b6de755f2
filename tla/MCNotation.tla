----------------------------- MODULE MCNotation -----------------------------
(* Inputs for the notation program. *)
EXTENDS Notation

\* Castling both ways, captures, a promotion, a pawn that can pass.
StudySetup ==
    << <<"@clearboard">>, <<"@configwhite">>, <<"K", "e", "1">>, <<"R", "h", "1">>,
       <<"e", "5">>, <<"N", "c", "3">>, <<"b", "7">>,
       <<"@configblack">>, <<"K", "e", "8">>, <<"R", "a", "8">>, <<"d", "7">>,
       <<"N", "f", "6">>, <<"@startplay">>, <<"@whitesmove">> >>

StudyTokens ==
    { <<"O-O">>, <<"O-O-O">>, <<"e", "x", "f", "6">>, <<"e", "f", "6">>, <<"d", "5">>,
      <<"d", "7", "d", "5">>, <<"e", "x", "d", "6">>, <<"N", "x", "d", "5">>, <<"N", "d", "5">>,
      <<"R", "f", "1">>, <<"e", "6">>, <<"T", "e", "4">>, <<"b", "x", "a", "8", "=", "Q">>,
      <<"b", "8", "=", "N">>, <<"@default">>, <<"@blacksmove">>, <<"{">>, <<"}">> }

\* Two knights that reach one square.
KnightsSetup ==
    << <<"@clearboard">>, <<"@configwhite">>, <<"K", "e", "1">>, <<"N", "b", "1">>,
       <<"N", "f", "1">>, <<"@configblack">>, <<"K", "e", "8">>, <<"@startplay">>,
       <<"@whitesmove">> >>

KnightsTokens ==
    { <<"N", "b", "1", "d", "2">>, <<"N", "f", "1", "d", "2">>, <<"N", "d", "2">>,
      <<"K", "e", "7">>, <<"{">>, <<"}">> }
==============================================================================
