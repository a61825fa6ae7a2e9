--------------------------- MODULE MCTaskRegistry ---------------------------
(* Two submissions of threads, one of which never ends by itself, and a    *)
(* task of the loop that shutdown must not cancel.                         *)
EXTENDS TaskRegistry

CONSTANTS s1, s2, l1
=============================================================================
