------------------------------ MODULE MCRBTree ------------------------------
(***************************************************************************)
(* TLC instances of RBTree: the ascending keys of main.cpp, and keys in    *)
(* any order.                                                              *)
(***************************************************************************)
EXTENDS RBTree

MCKey == 1..10
SmallKey == 1..4
=============================================================================
