---------------------------- MODULE MCProcessStore ----------------------------
(* ProcessStore for TLC: interchangeable calls and clients.                    *)
EXTENDS ProcessStore, TLC

CONSTANTS j1, j2, k1, k2

Symmetry == Permutations(Jobs) \cup Permutations(Clients)
===============================================================================
