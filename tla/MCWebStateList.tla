--------------------------- MODULE MCWebStateList ---------------------------
(* WebStateList on small sets of WebStates, which are interchangeable.     *)
EXTENDS WebStateList, TLC

MCSymmetry == Permutations(WebStates)
=============================================================================
