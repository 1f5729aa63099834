----------------------------- MODULE MCScanner ------------------------------
(***************************************************************************)
(* Small instances of Scanner.                                             *)
(***************************************************************************)
EXTENDS Scanner

OneRecipe == <<"plain">>
=============================================================================
