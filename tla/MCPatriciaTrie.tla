--------------------------- MODULE MCPatriciaTrie ---------------------------
(***************************************************************************)
(* Words that share letters in every way the code tells apart: one is a    *)
(* prefix of others, two branch off inside a node, one begins on its own.  *)
(* Either word of the pair may be the removed one that splitting brings    *)
(* back.                                                                   *)
(***************************************************************************)
EXTENDS PatriciaTrie

MCWords == {<<"a">>, <<"a", "b", "b">>, <<"a", "b", "c">>, <<"b">>}
MCPairs == {<<<<"a", "b", "b">>, <<"a", "b", "c">>>>}
=============================================================================
