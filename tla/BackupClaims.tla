---------------------------- MODULE BackupClaims ----------------------------
(* What the documentation says of a replace import, and the code does not  *)
(* do.                                                                     *)
EXTENDS Backup

\* "refused unless every app is stopped, a draft or never deployed": a replace
\* import never takes down an app that runs.
RunningSpared ==
  [][\A p \in Procs : UndeployNext(p) =>
       \A a \in apps \ apps' : a.status # "running"]_vars

=============================================================================
