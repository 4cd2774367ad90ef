---------------------------- MODULE MCCsvParser ----------------------------
(* Every body of at most MaxLen characters over two payload characters, the *)
(* comma and the line feed.                                                *)
EXTENDS CsvParser

CONSTANTS MaxLen

MCChars == {"a", "b", ",", "n"}
MCBodies == UNION {[1..n -> MCChars] : n \in 0..MaxLen}
=============================================================================
