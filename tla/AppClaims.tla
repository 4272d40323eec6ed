----------------------------- MODULE AppClaims -----------------------------
(***************************************************************************)
(* What a comment of the repository says of the app lifecycle and the code *)
(* does not do.  A run of its own refutes it.                              *)
(***************************************************************************)
EXTENDS AppLifecycle

\* service.go:767, before the purge of the old server: "Purge runs `down
\* --volumes`, which would destroy data the move did not copy."  The guard looks
\* at the new compose file; the volumes belong to the one on the worker.
VolumesSurviveMove ==
  [][\A p \in Procs, s \in Servers :
       job[p].op = "move" /\ lock = p /\ vols[s] => vols'[s]]_vars

=============================================================================
