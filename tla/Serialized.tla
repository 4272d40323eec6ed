----------------------------- MODULE Serialized -----------------------------
(***************************************************************************)
(* What the mutex of internal/app/service.go promises: the lifecycle       *)
(* operations of an app run one after the other.  Nothing happens on the   *)
(* workers outside an operation; one operation has left before the next    *)
(* enters; only an operation deletes the app, as its last act; and once    *)
(* the app is deleted no operation touches a worker for it again.          *)
(***************************************************************************)
CONSTANTS Procs

VARIABLES
  inside,   \* the processes inside a lifecycle operation
  workers,  \* everything the app has on the workers
  life      \* "new", "alive" or "gone"

Init == inside = {} /\ life = "new"

Create ==
  /\ life = "new"
  /\ life' = "alive"
  /\ UNCHANGED <<inside, workers>>

Enter(p) ==
  /\ inside = {}
  /\ inside' = {p}
  /\ UNCHANGED <<workers, life>>

\* A command on a worker, or a statement on the database.
Command ==
  /\ inside # {}
  /\ life = "gone" => UNCHANGED workers
  /\ UNCHANGED <<inside, life>>

\* The operation returns, perhaps with its last command, or a restart of the
\* controller cuts it short while a command runs.
Leave(p) ==
  /\ inside = {p}
  /\ inside' = {}
  /\ life = "gone" => UNCHANGED workers
  /\ UNCHANGED life

\* Undeploy's last statement deletes the app.
Delete(p) ==
  /\ inside = {p}
  /\ inside' = {}
  /\ life = "alive"
  /\ life' = "gone"
  /\ UNCHANGED workers

Next ==
  \/ Create
  \/ Command
  \/ \E p \in Procs : Enter(p) \/ Leave(p) \/ Delete(p)

Spec == Init /\ [][Next]_<<inside, workers, life>>

=============================================================================
