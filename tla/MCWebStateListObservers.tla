---------------------- MODULE MCWebStateListObservers -----------------------
(* WebStateListObservers on a small set of interchangeable WebStates.      *)
EXTENDS WebStateListObservers, TLC

MCSymmetry == Permutations(WebStates)
=============================================================================
