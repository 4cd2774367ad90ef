---------------------------- MODULE MCTableFiles ----------------------------
(* Small instances of TableFiles.  The uploads are what Csv makes of a few *)
(* bodies; a file name is the sequence of its characters, so that the      *)
(* column named "c" is the one that collides with columns.txt.             *)
EXTENDS TableFiles, SequencesExt

C == INSTANCE Csv WITH Comma <- ","

UploadOf(body) ==
    LET cols == C!CellsAt(body, 1)
    IN  [cols   |-> cols,
         data   |-> [i \in DOMAIN cols |-> C!TextOf(C!ColumnOf(body, i))],
         header |-> C!TextOf(cols),
         count  |-> <<ToString(Cardinality(C!DataStarts(body)))>>]

MCChars == {"a", "b", "c", "x", "y", ",", "n", "0", "1", "2", "_"}
MCFileNames == {<<>>, <<"a">>, <<"b">>, <<"c">>, <<"#">>}
MCUnwritable == {<<>>}
MCColumnsTxt == <<"c">>
MCCountTxt == <<"#">>

\* The first row of the second one is short; the third has two columns of one name,
\* the fourth one that has none and one that is named columns.txt.
Whole  == <<"a", ",", "b", "n", "x", ",", "y", "n">>
Ragged == <<"a", ",", "b", "n", "x", "n", "y", "n">>
Twice  == <<"a", ",", "a", "n", "x", "x", ",", "y", "n">>
Odd    == <<"c", ",", "n", "x", ",", "y">>

FewUploads == {UploadOf(body) : body \in {Whole, Ragged}}
OddUploads == {UploadOf(body) : body \in {Twice, Odd}}

MCSelects == {<<<<"b">>, <<"a">>>>, <<<<"a">>>>}
OddSelects == {<<>>, <<<<"a">>, <<"c">>>>, <<<<"#">>, <<"a">>>>}
=============================================================================
