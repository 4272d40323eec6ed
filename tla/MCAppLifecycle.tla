--------------------------- MODULE MCAppLifecycle ---------------------------
(* AppLifecycle for TLC: the workers and the processes are interchangeable.  *)
EXTENDS AppLifecycle, TLC

Symmetry == Permutations(Servers) \cup Permutations(Procs)

=============================================================================
