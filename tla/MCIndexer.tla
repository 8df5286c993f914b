------------------------------ MODULE MCIndexer ------------------------------
(***************************************************************************)
(* Instances of Indexer for model checking.                                *)
(***************************************************************************)
EXTENDS Provider

CONSTANTS Alice, Bob, Main, Other, Repairer

(* A wallet input that sorts before every order, or after.                 *)
WalletInputs == {<<0, 1>>, <<9, 1>>}
=============================================================================
