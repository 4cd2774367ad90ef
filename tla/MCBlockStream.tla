---------------------------- MODULE MCBlockStream ---------------------------
(* Small instances of BlockStream.                                         *)
EXTENDS BlockStream
=============================================================================
