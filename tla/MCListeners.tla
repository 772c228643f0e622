---------------------------- MODULE MCListeners ----------------------------
(* TLC instance: three realignments over two commands.           *)
EXTENDS Listeners, TLC

Symmetric == Permutations(Cmd) \cup Permutations(Process)
=============================================================================
