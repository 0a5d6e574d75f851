------------------------ MODULE MCSessionServiceIOS -------------------------
(* SessionServiceIOS with two tabs.                                        *)
EXTENDS SessionServiceIOS

CONSTANTS t1, t2
MCTabs == {t1, t2}
=============================================================================
