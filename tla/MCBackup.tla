------------------------------ MODULE MCBackup ------------------------------
(* Backup for TLC: a file of another instance with two servers and an      *)
(* app; processes and the kinds of parts are interchangeable.              *)
EXTENDS Backup, TLC

CONSTANTS s1, s2, a1, a2, word

MCUploads ==
  {[servers |-> {[name |-> s1, key |-> TRUE, token |-> TRUE],
                 [name |-> s2, key |-> FALSE, token |-> FALSE]},
    apps |-> {[name |-> a2, server |-> s2, parts |-> Parts]},
    pass |-> word]}

Symmetry == Permutations(Procs) \cup Permutations(Parts)

=============================================================================
