---------------------------- MODULE MCUtilities ----------------------------
EXTENDS Utilities

CONSTANTS c1, c2, t1, t2

\* One thread reused by two clients, and one client with two requests at a time.
SmallScenes == {[clients |-> {c1, c2}, threads |-> {t1}], [clients |-> {c1}, threads |-> {t1, t2}]}
=============================================================================
