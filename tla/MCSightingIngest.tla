-------------------------- MODULE MCSightingIngest --------------------------
(* TLC instances of SightingIngest. *)
EXTENDS SightingIngest, Functions, TLC

CONSTANTS m1, m2, m3, m4, t1, t2

MCThreads == {t1, t2}
ThreeMessages == {m1, m2, m3}
FourMessages == {m1, m2, m3, m4}
None == {}
M1 == {m1}
M2 == {m2}
M3 == {m3}
=============================================================================
