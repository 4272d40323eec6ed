----------------------------- MODULE MCServers -----------------------------
(* Servers for TLC: servers, machines and processes are interchangeable.              *)
EXTENDS Servers, TLC

Symmetry == Permutations(Servers) \cup Permutations(Hosts)
              \cup Permutations(Procs)

=============================================================================
