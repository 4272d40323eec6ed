----------------------------- MODULE AppState -----------------------------
(***************************************************************************)
(* The state of one app: its database rows (internal/app/repository.go),   *)
(* what it has on the workers, the mutex of service.go, and the processes: *)
(* each is an HTTP handler and then the goroutine the handler spawns.      *)
(*                                                                         *)
(* One app is enough: operations of different apps share no lock, no row   *)
(* and no worker folder.  A step is one statement on the database or one   *)
(* command on a worker; the database pool has one connection, so every     *)
(* statement is atomic.                                                    *)
(***************************************************************************)
EXTENDS Naturals

CONSTANTS
  Servers,      \* the workers
  Domains,      \* domains the app may have
  Composes,     \* compose files
  VolComposes,  \* those that declare Docker volumes
  Procs,        \* concurrent requests
  Nobody,       \* the mutex is free
  None,         \* no server, no compose file
  Kinds,        \* the kinds of request that may arrive
  Drafts,       \* whether an app may be created as a draft: a subset of BOOLEAN
  FileMoves,    \* move_files of a Patch or edit: a subset of BOOLEAN
  Faults,       \* the remote commands that may fail
  MaxRequests,  \* bound: requests in a behaviour
  MaxCrashes    \* bound: restarts of the controller in a behaviour

AllKinds == {"deployWeb", "redeploy", "rollback", "stop", "start", "undeploy",
             "webhook", "patch", "edit", "clear"}

AllFaults == {"connect", "down", "write", "pull", "up", "route", "copy",
              "restart", "exec", "db", "clean"}

ASSUME ConstantsAssumption ==
  /\ VolComposes \subseteq Composes
  /\ None \notin Servers \cup Composes
  /\ Nobody \notin Procs
  /\ Kinds \subseteq AllKinds
  /\ Drafts \subseteq BOOLEAN
  /\ FileMoves \subseteq BOOLEAN
  /\ Faults \subseteq AllFaults
  /\ MaxRequests \in Nat
  /\ MaxCrashes \in Nat

VARIABLES
  app,        \* the row of table apps
  routes,     \* the domains of table routes
  snapshot,   \* compose_snapshot of the last successful deployment, or None
  lastRec,    \* status of the newest row of table deployments
  disk,       \* disk[s]: the compose file in the app folder on s, or None
  ctr,        \* ctr[s]: the app's containers on s
  caddy,      \* caddy[s]: the domains Caddy on s routes to the app
  vols,       \* vols[s]: the app has Docker volumes on s
  lock,       \* who holds appLocks[id]
  pc, job,    \* what each process does next, and its local variables
  requests, crashes

db    == <<app, routes, snapshot, lastRec>>
world == <<disk, ctr, caddy, vols>>
proc  == <<pc, job>>
bound == <<requests, crashes>>
vars  == <<db, world, lock, proc, bound>>

---------------------------------------------------------------------------
(* Types.                                                                  *)

Statuses == {"absent", "draft", "created", "deploying", "running",
             "stopped", "failed"}

Row == [status : Statuses, server : Servers \cup {None},
        compose : Composes \cup {None}, domain : BOOLEAN]

NoApp == [status |-> "absent", server |-> None, compose |-> None,
          domain |-> FALSE]

Exists == app.status # "absent"

Containers == {"none", "up", "stopped", "unknown"}

Ops == {"none", "deploy", "git", "redeploy", "rollback", "stop", "start",
        "undeploy", "move", "moveNoFiles"}

Job == [op : Ops, row : Row, from : Servers \cup {None},
        to : Servers \cup {None}, purge : BOOLEAN, doms : SUBSET Domains,
        gone : SUBSET Domains, prev : Statuses]

NoJob == [op |-> "none", row |-> NoApp, from |-> None, to |-> None,
          purge |-> FALSE, doms |-> {}, gone |-> {}, prev |-> "absent"]

\* A handler before it spawns, and a goroutine that waits for the mutex.
HandlerPCs == {"deployCheck", "deployMark",
               "patchCheck", "patchWrite", "patchGetRoutes", "patchPutRoutes",
               "editCheck", "editWrite", "editGetRoutes", "editPutRoutes",
               "lock"}

\* A goroutine inside a lifecycle operation.
DeployPCs == {"mark", "read", "down", "up", "route", "running", "logSuccess",
              "failed", "logFailed", "logFirst", "failLast"}
MovePCs   == {"moveMark", "copyOpen", "copyDown", "copyTar", "copyRestart",
              "moveFail", "moveFailLog", "moveRead", "moveSave",
              "moveGetRoutes", "movePutRoutes", "moveCheck", "cleanup",
              "moveLog"}
OtherPCs  == {"exec", "setStatus", "remote", "forget", "rollbackSave"}
OpPCs     == DeployPCs \cup MovePCs \cup OtherPCs

PCs == {"idle"} \cup HandlerPCs \cup OpPCs

TypeOK ==
  /\ app \in Row
  /\ routes \subseteq Domains
  /\ snapshot \in Composes \cup {None}
  /\ lastRec \in {"none", "success", "failed"}
  /\ disk \in [Servers -> Composes \cup {None}]
  /\ ctr \in [Servers -> Containers]
  /\ caddy \in [Servers -> SUBSET Domains]
  /\ vols \in [Servers -> BOOLEAN]
  /\ lock \in Procs \cup {Nobody}
  /\ pc \in [Procs -> PCs]
  /\ job \in [Procs -> Job]
  /\ requests \in Nat
  /\ crashes \in Nat

Init ==
  /\ app = NoApp
  /\ routes = {}
  /\ snapshot = None
  /\ lastRec = "none"
  /\ disk = [s \in Servers |-> None]
  /\ ctr = [s \in Servers |-> "none"]
  /\ caddy = [s \in Servers |-> {}]
  /\ vols = [s \in Servers |-> FALSE]
  /\ lock = Nobody
  /\ pc = [p \in Procs |-> "idle"]
  /\ job = [p \in Procs |-> NoJob]
  /\ requests = 0
  /\ crashes = 0

---------------------------------------------------------------------------
(* The repository: one SQL statement each.                                 *)

\* UPDATE apps SET status: no row, no effect.
UpdateStatus(status) ==
  app' = IF Exists THEN [app EXCEPT !.status = status] ELSE app

\* UPDATE apps SET every column: the whole row, its status too.
Update(row) == app' = IF Exists THEN row ELSE app

\* INSERT INTO deployments: refused by the foreign key when the app is gone.
RecordDeployment(status, compose) ==
  /\ lastRec' = IF Exists THEN status ELSE lastRec
  /\ snapshot' = IF Exists /\ status = "success" THEN compose ELSE snapshot

---------------------------------------------------------------------------
(* Control.                                                                *)

Goto(p, label) == pc' = [pc EXCEPT ![p] = label]

\* The operation returns: its deferred unlock runs and the goroutine ends.
Release(p) ==
  /\ lock' = Nobody
  /\ pc' = [pc EXCEPT ![p] = "idle"]
  /\ job' = [job EXCEPT ![p] = NoJob]

\* The handler returns without spawning.
Return(p) ==
  /\ pc' = [pc EXCEPT ![p] = "idle"]
  /\ job' = [job EXCEPT ![p] = NoJob]

\* deployWithCommit returns: a move goes on, every other operation ends.
DeployReturns(p) ==
  IF job[p].op \in {"move", "moveNoFiles"}
    THEN Goto(p, "moveCheck") /\ UNCHANGED <<lock, job>>
    ELSE Release(p)

\* A command that may fail does, or it does not.
MayFail(fault) == fault \in Faults

\* The worker a process' current command runs on.
At(p) == job[p].row.server

\* stop, start and down create nothing: after one of them failed, containers
\* that were there are in an unknown state.
Disturbed(containers) == IF containers = "none" THEN "none" ELSE "unknown"

=============================================================================
