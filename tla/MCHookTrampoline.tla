-------------------------- MODULE MCHookTrampoline --------------------------
(* Two threads are enough for one to fetch while the other writes; a third *)
(* lets two writers overlap while somebody fetches.                        *)
EXTENDS HookTrampoline, TLC

CONSTANTS t1, t2, t3

MCTrio == {t1, t2, t3}
MCSymmetry == Permutations(MCTrio)
=============================================================================
