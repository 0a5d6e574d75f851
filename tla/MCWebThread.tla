----------------------------- MODULE MCWebThread ----------------------------
(* The named threads with a pool of one thread.                            *)
EXTENDS WebThread

CONSTANTS w1
MCWorkers == {w1}
=============================================================================
