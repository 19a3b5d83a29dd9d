----------------------------- MODULE MCTrieMap -----------------------------
(***************************************************************************)
(* The labels of the word ids 0 and 4 are the same on the first three      *)
(* levels of the trie: they conflict again and again.  2 appears when a    *)
(* garbage collection renumbers 0, 1 and 4.                                *)
(***************************************************************************)
EXTENDS TrieMap

MCKeys == {0, 1, 2, 3, 4}
MCValues == 0..2
MCNGrams == {<<0>>, <<1>>, <<4>>, <<0, 4>>, <<4, 0>>, <<0, 1>>, <<1, 4>>}
=============================================================================
