------------------------------- MODULE MCServer -------------------------------
(* Values for the constants of Server.                                         *)
EXTENDS Server, TLC

CONSTANTS s1, s2, s3, d1, d2

(* Two messages, of which the second is not sent; one.  *)
MCSendsOf == (d1 :> <<s1, s2>>) @@ (d2 :> <<s3>>)
=============================================================================
