---------------------------- MODULE MCHttpServer ----------------------------
(* Three clients and two workers.                                           *)
EXTENDS HttpServer, TLC

CONSTANTS w1, w2, c1, c2, c3

WorkersOfTwo == {w1, w2}
ThreeConns == {c1, c2, c3}
=============================================================================
