----------------------------- MODULE MCGateway -----------------------------
(***************************************************************************)
(* A small instance of the gateway: no backend, two backends, a backend    *)
(* listed twice, and a list with a URL that does not parse.                *)
(***************************************************************************)
EXTENDS Gateway, TLC

CONSTANTS b1, b2, bad, r1, r2

Lists == {<<>>, <<b1, b2>>, <<b1, b1>>, <<b1, bad>>}
=============================================================================
