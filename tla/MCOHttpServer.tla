---------------------------- MODULE MCOHttpServer ----------------------------
(* Small instances of OHttpServer for TLC: two handlers compete for a URL, *)
(* a third one has a URL of its own.                                       *)
EXTENDS OHttpServer, TLC

CONSTANTS u1, u2, h1, h2, h3

MCUrlOf == h1 :> u1 @@ h2 :> u1 @@ h3 :> u2
=============================================================================
