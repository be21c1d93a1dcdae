--------------------------- MODULE MCAllocStream ---------------------------
(* AllocStream for TLC: threads and addresses are model values, each kind   *)
(* interchangeable. A setup says whether realloc is called under the lock,  *)
(* and whether realloc(p, 0) occurs.                                        *)
EXTENDS AllocStream, TLC

AllSetups == BOOLEAN \X BOOLEAN

Symmetry == Permutations(Threads) \cup Permutations(Addrs)
=============================================================================
