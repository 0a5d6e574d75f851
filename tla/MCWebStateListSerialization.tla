-------------------- MODULE MCWebStateListSerialization ---------------------
(* WebStateListSerialization on a small set of interchangeable WebStates.  *)
EXTENDS WebStateListSerialization, TLC

MCSymmetry == Permutations(WebStates)
=============================================================================
