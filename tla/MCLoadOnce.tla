----------------------------- MODULE MCLoadOnce -----------------------------
(***************************************************************************)
(* Instances of LoadOnce: two threads and three.                        *)
(***************************************************************************)
EXTENDS LoadOnce

CONSTANTS t1, t2, t3

TwoThreads   == {t1, t2}
ThreeThreads == {t1, t2, t3}
=============================================================================
