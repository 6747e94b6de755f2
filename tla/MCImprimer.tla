----------------------------- MODULE MCImprimer -----------------------------
(* Conversions in a chain: a file of type a needs two for a printer of type   *)
(* c, one of type b needs one, one of type c needs none.                      *)
EXTENDS Imprimer

CONSTANTS a, b, c

Chain == {<<a, b>>, <<b, c>>}
==============================================================================
