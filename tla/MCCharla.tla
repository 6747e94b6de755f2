------------------------------ MODULE MCCharla ------------------------------
(* Small instances of Charla.                                              *)
EXTENDS Charla, TLC

CONSTANTS t1, t2, t3, h1, h2, h3, c1, c2, c3, c4, c5, c6

(* Which connection logs in under which handles.                           *)
WantsShared == t1 :> {h1} @@ t2 :> {h1}
WantsLead   == t1 :> {h1, h2} @@ t2 :> {h1}
WantsThree  == t1 :> {h1} @@ t2 :> {h1, h2} @@ t3 :> {h3}
=============================================================================
