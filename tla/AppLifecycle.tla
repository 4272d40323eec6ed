--------------------------- MODULE AppLifecycle ---------------------------
(***************************************************************************)
(* The life of one app: internal/app/service.go (the lifecycle operations) *)
(* and internal/app/handler.go (the requests that start them).             *)
(*                                                                         *)
(* Handlers read and write the app's row without its mutex and refuse a    *)
(* request only while Busy says the mutex is taken; the goroutines they    *)
(* spawn hold it for a whole operation.  So what a handler read may be     *)
(* stale when it writes, and what an operation finds may have changed      *)
(* since its request was accepted.                                         *)
(***************************************************************************)
EXTENDS AppState

---------------------------------------------------------------------------
(* Plausible slips in internal/app: definitions below as they would read   *)
(* with a guard dropped, a statement forgotten or two of them swapped.     *)
(* The specification does not use them; with one of them in the place of   *)
(* the definition it is named after, a property must fail.                 *)

\* An operation that does not wait for the mutex.
Acquire_NoLock(p, op) ==
  /\ pc[p] = "lock"
  /\ job[p].op = op

\* Rollback's deferred unlock without its `if err != nil`.
RollbackSave_Unlocks(p) ==
  /\ pc[p] = "rollbackSave"
  /\ Update(job[p].row)
  /\ Goto(p, "mark")
  /\ lock' = Nobody
  /\ UNCHANGED <<routes, snapshot, lastRec, world, job, bound>>

\* Patch saves the new compose file and does not redeploy.
PatchWrite_NoRedeploy(p) ==
  /\ pc[p] = "patchWrite"
  /\ Update(job[p].row)
  /\ Return(p)
  /\ UNCHANGED <<routes, snapshot, lastRec, world, lock, bound>>

\* With move_files the handler already switches the app's server.
EditedRow_Eager(row, compose, to, files) ==
  [row EXCEPT !.compose = compose, !.server = to]

\* deployWithCommit does not set "deploying".
DeployMark_Skipped(p) ==
  /\ pc[p] = "mark"
  /\ Goto(p, "read")
  /\ UNCHANGED <<db, world, lock, job, bound>>

\* Route errors do not set routeFailed.
DeployRoute_IgnoresErrors(p) ==
  LET want == IF job[p].row.domain THEN routes ELSE {} IN
  /\ pc[p] = "route"
  /\ \E left \in SUBSET want :
       /\ MayFail("route") \/ left = want
       /\ caddy' = [caddy EXCEPT ![At(p)] = (@ \ want) \cup left]
  /\ Goto(p, "running")
  /\ UNCHANGED <<db, disk, ctr, vols, lock, job, bound>>

\* A failed deployment is tried again, without end.
DeployFailStatus_Retries(p) ==
  /\ pc[p] = "failLast"
  /\ Goto(p, "read")
  /\ UNCHANGED <<db, world, lock, job, bound>>

\* Undeploy visits the worker of a running app only.
BeginUndeploy_RunningOnly(p) ==
  /\ pc[p] = "lock" /\ job[p].op = "undeploy" /\ lock = Nobody
  /\ Exists
  /\ lock' = p
  /\ Goto(p, IF app.status = "running" THEN "remote" ELSE "forget")
  /\ job' = [job EXCEPT ![p].row = app]
  /\ UNCHANGED <<db, world, bound>>

\* Undeploy deletes the row before it goes to the worker.
UndeployRemote_ForgetsFirst(p) ==
  /\ pc[p] = "remote"
  /\ app' = NoApp
  /\ ctr' = [ctr EXCEPT ![At(p)] = "none"]
  /\ Goto(p, "forget")
  /\ UNCHANGED <<routes, snapshot, lastRec, disk, caddy, vols, lock, job, bound>>

\* CopyAppFiles without the deferred restart of the source.
CopyRestart_Skipped(p) ==
  /\ pc[p] = "copyRestart"
  /\ Goto(p, "moveFail")
  /\ UNCHANGED <<db, world, lock, job, bound>>

\* The cleanup of the old server does not wait for a successful deployment.
MoveCheck_Always(p) ==
  /\ pc[p] = "moveCheck"
  /\ Goto(p, "cleanup")
  /\ UNCHANGED <<db, world, lock, job, bound>>

\* A failed move returns without unlocking.
MoveCheck_KeepsLock(p) ==
  /\ pc[p] = "moveCheck"
  /\ IF app.status = "running" THEN Goto(p, "cleanup") /\ UNCHANGED job
                               ELSE Return(p)
  /\ UNCHANGED <<db, world, lock, bound>>

\* MoveApp records the app's status where a deployment's is expected.
MoveRecord_AppStatus(p) ==
  /\ pc[p] = "moveLog"
  /\ lastRec' = app.status
  /\ snapshot' = job[p].row.compose
  /\ Release(p)
  /\ UNCHANGED <<app, routes, world, bound>>

\* The startup does not look for interrupted deployments.
FailInterrupted_Skipped == UNCHANGED <<app, lastRec>>

---------------------------------------------------------------------------
(* Requests.                                                               *)

NewRequest(p) ==
  /\ pc[p] = "idle"
  /\ requests < MaxRequests
  /\ requests' = requests + 1
  /\ UNCHANGED crashes

\* POST /api/apps and the add form: the row, its routes, and Deploy unless it
\* is a draft.  Only a draft may have no server; only the API accepts
\* "domains" without a primary "domain".
Create(p) ==
  /\ requests = 0
  /\ NewRequest(p)
  /\ \E c \in Composes, doms \in SUBSET Domains, s \in Servers \cup {None},
        primary \in BOOLEAN, draft \in Drafts :
       /\ s = None => draft
       /\ primary => doms # {}
       /\ app' = [status |-> IF draft THEN "draft" ELSE "created",
                  server |-> s, compose |-> c, domain |-> primary]
       /\ routes' = doms
       /\ IF draft
            THEN UNCHANGED proc
            ELSE /\ Goto(p, "lock")
                 /\ job' = [job EXCEPT ![p].op = "deploy"]
  /\ UNCHANGED <<snapshot, lastRec, world, lock>>

\* Redeploy, Rollback, Stop, Start and Delete, API and web, and each app of
\* AppRedeployAll: refuse while Busy, else run the operation, which waits for
\* the mutex.
Operate(p, kind) ==
  /\ kind \in Kinds
  /\ lock = Nobody
  /\ Exists
  /\ NewRequest(p)
  /\ Goto(p, "lock")
  /\ job' = [job EXCEPT ![p].op = kind]
  /\ UNCHANGED <<db, world, lock>>

\* A push webhook: the status is checked here, Busy is not.
DeployByGit(p) ==
  /\ "webhook" \in Kinds
  /\ app.status = "running"
  /\ NewRequest(p)
  /\ Goto(p, "lock")
  /\ job' = [job EXCEPT ![p].op = "git"]
  /\ UNCHANGED <<db, world, lock>>

\* ClearDeployments deletes the history, whatever is running.
ClearDeployments(p) ==
  /\ "clear" \in Kinds
  /\ Exists
  /\ NewRequest(p)
  /\ lastRec' = "none"
  /\ snapshot' = None
  /\ UNCHANGED <<app, routes, world, lock, proc>>

\* AppDeployWeb reads the app and sends an app without server to the form.
DeployWebRead(p) ==
  /\ "deployWeb" \in Kinds
  /\ Exists
  /\ app.server # None
  /\ NewRequest(p)
  /\ Goto(p, "deployCheck")
  /\ job' = [job EXCEPT ![p].op = "redeploy"]
  /\ UNCHANGED <<db, world, lock>>

\* What a Patch or an edit spawns for the row it read.
SpawnedOp(row, to, files) ==
  IF row.status = "draft" THEN "none"
  ELSE IF row.server = None \/ to = row.server THEN "redeploy"
  ELSE IF files THEN "move" ELSE "moveNoFiles"

\* The row a Patch or an edit will write: with move_files the app stays where
\* it is until MoveApp has copied the files.
EditedRow(row, compose, to, files) ==
  [row EXCEPT !.compose = compose,
              !.server = IF SpawnedOp(row, to, files) = "move" THEN @ ELSE to]

\* What a Patch or an edit remembers until it writes and spawns.
Change(row, compose, to, files, purge) ==
  [NoJob EXCEPT !.op = SpawnedOp(row, to, files),
                !.row = EditedRow(row, compose, to, files),
                !.from = row.server,
                !.to = to,
                !.purge = purge]

\* PATCH /api/apps/:id reads the app; compose, server_id, move_files and
\* purge_old come from the body.
PatchRead(p) ==
  /\ "patch" \in Kinds
  /\ Exists
  /\ NewRequest(p)
  /\ \E c \in Composes, to \in Servers \cup {app.server}, files \in FileMoves,
        purge \in BOOLEAN :
       /\ files \/ purge => SpawnedOp(app, to, files) \in {"move", "moveNoFiles"}
       /\ job' = [job EXCEPT ![p] = Change(app, c, to, files, purge)]
  /\ Goto(p, "patchCheck")
  /\ UNCHANGED <<db, world, lock>>

\* The form's first domain becomes the app's primary one.
WithDomains(change, doms) ==
  [change EXCEPT !.row.domain = (doms # {}), !.doms = doms]

\* POST /apps/:id/edit reads the app; the form always carries the domains.
\* server_id 0 means no server for a draft and no change for other apps.
EditRead(p) ==
  /\ "edit" \in Kinds
  /\ Exists
  /\ NewRequest(p)
  /\ \E c \in Composes, to \in Servers \cup {None}, files \in FileMoves,
        purge \in BOOLEAN, doms \in SUBSET Domains :
       /\ to = None => app.status = "draft" \/ app.server = None
       /\ files \/ purge => SpawnedOp(app, to, files) \in {"move", "moveNoFiles"}
       /\ job' = [job EXCEPT ![p] =
                    WithDomains(Change(app, c, to, files, purge), doms)]
  /\ Goto(p, "editCheck")
  /\ UNCHANGED <<db, world, lock>>

\* Busy: 409 while an operation holds the mutex, else on to the writes.
BusyCheck(p, at, next) ==
  /\ pc[p] = at
  /\ IF lock = Nobody THEN Goto(p, next) /\ UNCHANGED job ELSE Return(p)
  /\ UNCHANGED <<db, world, lock, bound>>

\* AppDeployWeb marks the app before the goroutine it spawns has the mutex.
DeployWebMark(p) ==
  /\ pc[p] = "deployMark"
  /\ UpdateStatus("deploying")
  /\ Goto(p, "lock")
  /\ UNCHANGED <<routes, snapshot, lastRec, world, lock, job, bound>>

\* Patch saves the row it read, changed, and spawns; a move without files
\* first saves the routes again.
PatchWrite(p) ==
  /\ pc[p] = "patchWrite"
  /\ Update(job[p].row)
  /\ IF job[p].op = "none"
       THEN Return(p)
       ELSE /\ Goto(p, IF job[p].op = "moveNoFiles" THEN "patchGetRoutes"
                                                   ELSE "lock")
            /\ UNCHANGED job
  /\ UNCHANGED <<routes, snapshot, lastRec, world, lock, bound>>

\* GetRoutes, and SaveRoute for each: it inserts the domains it does not find.
GetRoutes(p, at, next) ==
  /\ pc[p] = at
  /\ job' = [job EXCEPT ![p].doms = routes]
  /\ Goto(p, next)
  /\ UNCHANGED <<db, world, lock, bound>>

PutRoutes(p, at, next) ==
  /\ pc[p] = at
  /\ routes' = IF Exists THEN routes \cup job[p].doms ELSE routes
  /\ Goto(p, next)
  /\ UNCHANGED <<app, snapshot, lastRec, world, lock, job, bound>>

EditWrite(p) ==
  /\ pc[p] = "editWrite"
  /\ Update(job[p].row)
  /\ Goto(p, "editGetRoutes")
  /\ UNCHANGED <<routes, snapshot, lastRec, world, lock, job, bound>>

\* The edit form looks up which domains are gone,
EditGetRoutes(p) ==
  /\ pc[p] = "editGetRoutes"
  /\ job' = [job EXCEPT ![p].gone = routes \ job[p].doms]
  /\ Goto(p, "editPutRoutes")
  /\ UNCHANGED <<db, world, lock, bound>>

\* saves its own, deletes those, and spawns.  Only a redeploy and a move
\* without files are told which ones are gone.
EditPutRoutes(p) ==
  /\ pc[p] = "editPutRoutes"
  /\ routes' = IF Exists THEN (routes \cup job[p].doms) \ job[p].gone
                         ELSE routes
  /\ IF job[p].op = "none"
       THEN Return(p)
       ELSE /\ Goto(p, "lock")
            /\ job' = [job EXCEPT ![p].gone =
                         IF job[p].op = "move" THEN {} ELSE @]
  /\ UNCHANGED <<app, snapshot, lastRec, world, lock, bound>>

---------------------------------------------------------------------------
(* Entry points: take the mutex, then the operation's first reads.         *)

Acquire(p, op) ==
  /\ pc[p] = "lock"
  /\ job[p].op = op
  /\ lock = Nobody

\* The operation gives up at once: the app is gone, or it cannot start.
GiveUp(p) == Return(p) /\ UNCHANGED lock

\* Enter the operation at a label with the given local variables.
Enter(p, label, locals) ==
  /\ lock' = p
  /\ Goto(p, label)
  /\ job' = [job EXCEPT ![p] = locals]

\* Deploy, the webhook's goroutine and MoveWithoutFiles deploy unconditionally.
BeginDeploy(p) ==
  /\ \E op \in {"deploy", "git", "moveNoFiles"} : Acquire(p, op)
  /\ Enter(p, "mark", job[p])
  /\ UNCHANGED <<db, world, bound>>

BeginRedeploy(p) ==
  /\ Acquire(p, "redeploy")
  /\ IF Exists THEN Enter(p, "mark", job[p]) ELSE GiveUp(p)
  /\ UNCHANGED <<db, world, bound>>

\* Rollback needs a successful deployment; its Update is a separate statement.
BeginRollback(p) ==
  /\ Acquire(p, "rollback")
  /\ IF Exists /\ snapshot # None
       THEN Enter(p, "rollbackSave",
                  [job[p] EXCEPT !.row = [app EXCEPT !.compose = snapshot]])
       ELSE GiveUp(p)
  /\ UNCHANGED <<db, world, bound>>

RollbackSave(p) ==
  /\ pc[p] = "rollbackSave"
  /\ Update(job[p].row)
  /\ Goto(p, "mark")
  /\ UNCHANGED <<routes, snapshot, lastRec, world, lock, job, bound>>

\* Stop and Start fail before any command when there is no row, no server or
\* no connection.
BeginStopStart(p) ==
  /\ \E op \in {"stop", "start"} : Acquire(p, op)
  /\ \/ /\ Exists /\ app.server # None
        /\ Enter(p, "exec", [job[p] EXCEPT !.row = app])
     \/ /\ ~Exists \/ app.server = None \/ MayFail("connect")
        /\ GiveUp(p)
  /\ UNCHANGED <<db, world, bound>>

\* Undeploy skips the worker for a draft, and when it cannot be reached.
BeginUndeploy(p) ==
  /\ Acquire(p, "undeploy")
  /\ \/ ~Exists /\ GiveUp(p)
     \/ /\ Exists
        /\ app.status = "draft" \/ app.server = None \/ MayFail("connect")
        /\ Enter(p, "forget", [job[p] EXCEPT !.row = app])
     \/ /\ Exists /\ app.status # "draft" /\ app.server # None
        /\ Enter(p, "remote", [job[p] EXCEPT !.row = app])
  /\ UNCHANGED <<db, world, bound>>

BeginMove(p) ==
  /\ Acquire(p, "move")
  /\ IF Exists
       THEN Enter(p, "moveMark", [job[p] EXCEPT !.row = app,
                                                !.prev = app.status])
       ELSE GiveUp(p)
  /\ UNCHANGED <<db, world, bound>>

---------------------------------------------------------------------------
(* deployWithCommit.                                                       *)

DeployMark(p) ==
  /\ pc[p] = "mark"
  /\ UpdateStatus("deploying")
  /\ Goto(p, "read")
  /\ UNCHANGED <<routes, snapshot, lastRec, world, lock, job, bound>>

\* Get the app and its server, and connect.
DeployRead(p) ==
  /\ pc[p] = "read"
  /\ \/ ~Exists /\ Release(p)
     \/ /\ Exists
        /\ app.server = None \/ MayFail("connect")
        /\ Goto(p, "logFirst")
        /\ job' = [job EXCEPT ![p].row = app]
        /\ UNCHANGED lock
     \/ /\ Exists /\ app.server # None
        /\ Goto(p, "down")
        /\ job' = [job EXCEPT ![p].row = app]
        /\ UNCHANGED lock
  /\ UNCHANGED <<db, world, bound>>

\* `compose down || true`: does nothing without a compose file; a failure is
\* ignored and leaves the containers in an unknown state.
DeployDown(p) ==
  /\ pc[p] = "down"
  /\ \/ ctr' = [ctr EXCEPT ![At(p)] = IF disk[At(p)] = None THEN @ ELSE "none"]
     \/ /\ MayFail("down")
        /\ ctr' = [ctr EXCEPT ![At(p)] = Disturbed(@)]
  /\ Goto(p, "up")
  /\ UNCHANGED <<db, disk, caddy, vols, lock, job, bound>>

\* Write the compose file, log in to the registry, pull, up.  Each may fail;
\* a failed up leaves some containers behind.
DeployUp(p) ==
  LET row == job[p].row IN
  /\ pc[p] = "up"
  /\ \/ /\ MayFail("write")
        /\ Goto(p, "logFirst")
        /\ UNCHANGED world
     \/ /\ MayFail("pull")
        /\ disk' = [disk EXCEPT ![At(p)] = row.compose]
        /\ Goto(p, "logFirst")
        /\ UNCHANGED <<ctr, caddy, vols>>
     \/ \E outcome \in {"up"} \cup (IF MayFail("up") THEN {"unknown"} ELSE {}) :
          /\ disk' = [disk EXCEPT ![At(p)] = row.compose]
          /\ ctr' = [ctr EXCEPT ![At(p)] = outcome]
          /\ vols' = [vols EXCEPT ![At(p)] = @ \/ row.compose \in VolComposes]
          /\ Goto(p, IF outcome = "up" THEN "route" ELSE "logFirst")
          /\ UNCHANGED caddy
  /\ UNCHANGED <<db, lock, job, bound>>

\* Remove the Caddy routes of the removed domains (a failure is a warning),
\* then add one per row of routes, unless the app has no primary domain.  A
\* route that fails may or may not be in Caddy afterwards.
DeployRoute(p) ==
  LET want == IF job[p].row.domain THEN routes ELSE {} IN
  /\ pc[p] = "route"
  /\ \E ok \in SUBSET want, left \in SUBSET want, removed \in SUBSET job[p].gone :
       /\ MayFail("route") \/ (ok = want /\ removed = job[p].gone)
       /\ ok \subseteq left
       /\ caddy' = [caddy EXCEPT ![At(p)] = ((@ \ removed) \ want) \cup left]
       /\ Goto(p, IF ok = want THEN "running" ELSE "failed")
  /\ UNCHANGED <<db, disk, ctr, vols, lock, job, bound>>

\* The last two statements: status first, then the deployment record.
DeployFinish(p) ==
  /\ pc[p] \in {"running", "failed"}
  /\ UpdateStatus(pc[p])
  /\ Goto(p, IF pc[p] = "running" THEN "logSuccess" ELSE "logFailed")
  /\ UNCHANGED <<routes, snapshot, lastRec, world, lock, job, bound>>

DeployRecord(p) ==
  /\ pc[p] \in {"logSuccess", "logFailed"}
  /\ RecordDeployment(IF pc[p] = "logSuccess" THEN "success" ELSE "failed",
                      job[p].row.compose)
  /\ DeployReturns(p)
  /\ UNCHANGED <<app, routes, world, bound>>

\* The early failures: the record first, then the status.
DeployFailRecord(p) ==
  /\ pc[p] = "logFirst"
  /\ RecordDeployment("failed", job[p].row.compose)
  /\ Goto(p, "failLast")
  /\ UNCHANGED <<app, routes, world, lock, job, bound>>

DeployFailStatus(p) ==
  /\ pc[p] = "failLast"
  /\ UpdateStatus("failed")
  /\ DeployReturns(p)
  /\ UNCHANGED <<routes, snapshot, lastRec, world, bound>>

---------------------------------------------------------------------------
(* Stop, Start, Undeploy.                                                  *)

\* `compose stop` and `compose start` need the compose file; start needs
\* containers.  An error leaves the status alone.
StopStartExec(p) ==
  LET s == At(p)
      stop == job[p].op = "stop" IN
  /\ pc[p] = "exec"
  /\ \/ /\ disk[s] # None
        /\ stop \/ ctr[s] # "none"
        /\ ctr' = [ctr EXCEPT ![s] = IF ~stop THEN "up"
                                     ELSE IF @ = "none" THEN "none"
                                     ELSE "stopped"]
        /\ Goto(p, "setStatus")
        /\ UNCHANGED <<lock, job>>
     \/ /\ disk[s] = None \/ (~stop /\ ctr[s] \in {"none", "unknown"})
        /\ Release(p)
        /\ UNCHANGED ctr
     \/ /\ MayFail("exec")
        /\ ctr' = [ctr EXCEPT ![s] = Disturbed(@)]
        /\ Release(p)
  /\ UNCHANGED <<db, disk, caddy, vols, bound>>

StopStartStatus(p) ==
  /\ pc[p] = "setStatus"
  /\ UpdateStatus(IF job[p].op = "stop" THEN "stopped" ELSE "running")
  /\ Release(p)
  /\ UNCHANGED <<routes, snapshot, lastRec, world, bound>>

\* `down --volumes` removes the volumes the compose file on disk declares;
\* purge also runs `rm -rf` on the folder, whether `down` succeeded or not.  A
\* failure of either is ignored.
TakeDown(s, purge, doms) ==
  \E down, swept \in BOOLEAN, removed \in SUBSET doms :
    /\ MayFail("clean") \/ (down /\ swept /\ removed = doms)
    /\ ctr' = [ctr EXCEPT ![s] = IF ~down THEN Disturbed(@)
                                 ELSE IF disk[s] = None THEN @ ELSE "none"]
    /\ vols' = [vols EXCEPT ![s] =
                  @ /\ ~(down /\ purge /\ disk[s] \in VolComposes)]
    /\ disk' = [disk EXCEPT ![s] = IF swept /\ purge THEN None ELSE @]
    /\ caddy' = [caddy EXCEPT ![s] = @ \ removed]

UndeployRemote(p) ==
  /\ pc[p] = "remote"
  /\ TakeDown(At(p), TRUE, routes)
  /\ Goto(p, "forget")
  /\ UNCHANGED <<db, lock, job, bound>>

\* forget: the row goes, routes and deployments with it.
Forget(p) ==
  /\ pc[p] = "forget"
  /\ app' = NoApp
  /\ routes' = {}
  /\ snapshot' = None
  /\ lastRec' = "none"
  /\ Release(p)
  /\ UNCHANGED <<world, bound>>

---------------------------------------------------------------------------
(* MoveApp and MoveWithoutFiles.                                           *)

MoveMark(p) ==
  /\ pc[p] = "moveMark"
  /\ UpdateStatus("deploying")
  /\ Goto(p, "copyOpen")
  /\ UNCHANGED <<routes, snapshot, lastRec, world, lock, job, bound>>

\* CopyAppFiles has nothing to copy without two different servers; nothing is
\* touched yet when one of them cannot be reached.
NothingToCopy(p) ==
  job[p].from = None \/ job[p].to = None \/ job[p].from = job[p].to

CopyOpen(p) ==
  /\ pc[p] = "copyOpen"
  /\ \/ Goto(p, IF NothingToCopy(p) THEN "moveRead" ELSE "copyDown")
     \/ ~NothingToCopy(p) /\ MayFail("connect") /\ Goto(p, "moveFail")
  /\ UNCHANGED <<db, world, lock, job, bound>>

\* `compose down` on the source, an error this time without compose file.
CopyDown(p) ==
  LET s == job[p].from IN
  /\ pc[p] = "copyDown"
  /\ \/ /\ disk[s] # None
        /\ ctr' = [ctr EXCEPT ![s] = "none"]
        /\ Goto(p, "copyTar")
     \/ /\ disk[s] = None
        /\ Goto(p, "copyRestart")
        /\ UNCHANGED ctr
     \/ /\ MayFail("down")
        /\ ctr' = [ctr EXCEPT ![s] = Disturbed(@)]
        /\ Goto(p, "copyRestart")
  /\ UNCHANGED <<db, disk, caddy, vols, lock, job, bound>>

\* Stream the folder, count the files on both sides.  A folder already on the
\* target is set aside; a failed copy may have left any part there.
CopyTar(p) ==
  LET from == job[p].from
      to == job[p].to IN
  /\ pc[p] = "copyTar"
  /\ \/ /\ disk' = [disk EXCEPT ![to] = disk[from]]
        /\ Goto(p, "moveRead")
     \/ /\ MayFail("copy")
        /\ \E left \in {disk[to], None, disk[from]} :
             disk' = [disk EXCEPT ![to] = left]
        /\ Goto(p, "copyRestart")
  /\ UNCHANGED <<db, ctr, caddy, vols, lock, job, bound>>

\* upOnServer brings the source back.
CopyRestart(p) ==
  LET s == job[p].from IN
  /\ pc[p] = "copyRestart"
  /\ \/ /\ disk[s] # None
        /\ ctr' = [ctr EXCEPT ![s] = "up"]
        /\ vols' = [vols EXCEPT ![s] = @ \/ disk[s] \in VolComposes]
     \/ disk[s] = None /\ UNCHANGED <<ctr, vols>>
     \/ /\ MayFail("restart")
        /\ ctr' \in {ctr, [ctr EXCEPT ![s] = "unknown"]}
        /\ UNCHANGED vols
  /\ Goto(p, "moveFail")
  /\ UNCHANGED <<db, disk, caddy, lock, job, bound>>

\* fail: the status the move found, then the record.
MoveFail(p) ==
  /\ pc[p] = "moveFail"
  /\ UpdateStatus(job[p].prev)
  /\ Goto(p, "moveFailLog")
  /\ UNCHANGED <<routes, snapshot, lastRec, world, lock, job, bound>>

MoveFailRecord(p) ==
  /\ pc[p] = "moveFailLog"
  /\ RecordDeployment("failed", job[p].row.compose)
  /\ Release(p)
  /\ UNCHANGED <<app, routes, world, bound>>

\* The second read: the edit form may have saved other fields meanwhile.
MoveRead(p) ==
  /\ pc[p] = "moveRead"
  /\ job' = [job EXCEPT ![p].row = [app EXCEPT !.server = job[p].to]]
  /\ Goto(p, "moveSave")
  /\ UNCHANGED <<db, world, lock, bound>>

MoveSave(p) ==
  /\ pc[p] = "moveSave"
  /\ \/ Update(job[p].row) /\ Goto(p, "moveGetRoutes")
     \/ MayFail("db") /\ Goto(p, "copyRestart") /\ UNCHANGED app
  /\ UNCHANGED <<routes, snapshot, lastRec, world, lock, job, bound>>

\* Only a running app goes on to the cleanup of the old server.
MoveCheck(p) ==
  /\ pc[p] = "moveCheck"
  /\ IF app.status = "running"
       THEN Goto(p, "cleanup") /\ UNCHANGED <<lock, job>>
       ELSE Release(p)
  /\ UNCHANGED <<db, world, bound>>

\* MoveApp does not purge when the compose file it saved declares volumes.
PurgeOld(p) ==
  job[p].purge /\ ~(job[p].op = "move" /\ job[p].row.compose \in VolComposes)

CleanupReturns(p) ==
  IF job[p].op = "move" THEN Goto(p, "moveLog") /\ UNCHANGED <<lock, job>>
                        ELSE Release(p)

\* CleanupFromServer: skipped when the old server cannot be reached.
CleanupFromServer(p) ==
  /\ pc[p] = "cleanup"
  /\ \/ TakeDown(job[p].from, PurgeOld(p), routes)
     \/ MayFail("connect") /\ UNCHANGED world
  /\ CleanupReturns(p)
  /\ UNCHANGED <<db, bound>>

MoveRecord(p) ==
  /\ pc[p] = "moveLog"
  /\ RecordDeployment("success", job[p].row.compose)
  /\ Release(p)
  /\ UNCHANGED <<app, routes, world, bound>>

---------------------------------------------------------------------------
(* The controller stops at any point and starts again: goroutines and      *)
(* mutexes are gone, a command that was running has an unknown outcome,    *)
(* and FailInterrupted runs before the first request.                      *)

FailInterrupted ==
  IF app.status = "deploying"
    THEN app' = [app EXCEPT !.status = "failed"] /\ lastRec' = "failed"
    ELSE UNCHANGED <<app, lastRec>>

\* The command a lifecycle operation may be running on s changes containers.
InUse(s) ==
  \E p \in Procs :
    \/ pc[p] = "up" /\ s = At(p)
    \/ pc[p] = "copyRestart" /\ s = job[p].from
    \/ pc[p] \in {"down", "exec", "remote"} /\ s = At(p) /\ ctr[s] # "none"
    \/ /\ pc[p] \in {"copyDown", "cleanup"}
       /\ s = job[p].from
       /\ ctr[s] # "none"

Restart ==
  /\ crashes < MaxCrashes
  /\ crashes' = crashes + 1
  /\ \E hit \in SUBSET {s \in Servers : InUse(s)} :
       ctr' = [s \in Servers |-> IF s \in hit THEN "unknown" ELSE ctr[s]]
  /\ FailInterrupted
  /\ lock' = Nobody
  /\ pc' = [p \in Procs |-> "idle"]
  /\ job' = [p \in Procs |-> NoJob]
  /\ UNCHANGED <<routes, snapshot, disk, caddy, vols, requests>>

---------------------------------------------------------------------------
Request(p) ==
  \/ Create(p)
  \/ \E kind \in {"redeploy", "rollback", "stop", "start", "undeploy"} :
       Operate(p, kind)
  \/ DeployByGit(p)
  \/ ClearDeployments(p)
  \/ DeployWebRead(p)
  \/ PatchRead(p)
  \/ EditRead(p)

Handle(p) ==
  \/ BusyCheck(p, "deployCheck", "deployMark")
  \/ BusyCheck(p, "patchCheck", "patchWrite")
  \/ BusyCheck(p, "editCheck", "editWrite")
  \/ DeployWebMark(p)
  \/ PatchWrite(p)
  \/ EditWrite(p)
  \/ GetRoutes(p, "patchGetRoutes", "patchPutRoutes")
  \/ PutRoutes(p, "patchPutRoutes", "lock")
  \/ EditGetRoutes(p)
  \/ EditPutRoutes(p)

Begin(p) ==
  \/ BeginDeploy(p)
  \/ BeginRedeploy(p)
  \/ BeginRollback(p)
  \/ BeginStopStart(p)
  \/ BeginUndeploy(p)
  \/ BeginMove(p)

DeployStep(p) ==
  \/ DeployMark(p)
  \/ DeployRead(p)
  \/ DeployDown(p)
  \/ DeployUp(p)
  \/ DeployRoute(p)
  \/ DeployFinish(p)
  \/ DeployRecord(p)
  \/ DeployFailRecord(p)
  \/ DeployFailStatus(p)

MoveStep(p) ==
  \/ MoveMark(p)
  \/ CopyOpen(p)
  \/ CopyDown(p)
  \/ CopyTar(p)
  \/ CopyRestart(p)
  \/ MoveFail(p)
  \/ MoveFailRecord(p)
  \/ MoveRead(p)
  \/ MoveSave(p)
  \/ GetRoutes(p, "moveGetRoutes", "movePutRoutes")
  \/ PutRoutes(p, "movePutRoutes", "mark")
  \/ MoveCheck(p)
  \/ CleanupFromServer(p)
  \/ MoveRecord(p)

OtherStep(p) ==
  \/ RollbackSave(p)
  \/ StopStartExec(p)
  \/ StopStartStatus(p)
  \/ UndeployRemote(p)
  \/ Forget(p)

Work(p) == DeployStep(p) \/ MoveStep(p) \/ OtherStep(p)

Next ==
  \/ \E p \in Procs : Request(p) \/ Handle(p) \/ Begin(p) \/ Work(p)
  \/ Restart

Spec == Init /\ [][Next]_vars

\* Handlers and goroutines keep running and a Go mutex starves nobody.  Every
\* command returns: a command has a timeout, the SSH handshake and the end of a
\* session have none, so this assumes that no worker accepts a connection and
\* then hangs.
Fairness ==
  \A p \in Procs : WF_vars(Handle(p) \/ Work(p)) /\ SF_vars(Begin(p))

FairSpec == Spec /\ Fairness

---------------------------------------------------------------------------
(* Properties.                                                             *)

Quiescent == \A p \in Procs : pc[p] = "idle"

InOperation(p) == pc[p] \in OpPCs

\* The mutex of service.go:41-48 serializes the lifecycle operations: a process
\* is inside one exactly while it holds the app's mutex, error paths, the
\* hand-over of Rollback and restarts included.
LockOwner == \A p \in Procs : InOperation(p) <=> lock = p

\* Only a lifecycle operation may leave the app in "deploying": once every
\* handler and goroutine has returned, or the controller has restarted
\* (FailInterrupted), the status is a final one, whatever the handlers wrote.
NeverStuck == Quiescent => app.status # "deploying"

\* "running" is believable: when nothing is in progress, an app with that
\* status has its containers up on its server (or the last command there failed
\* half-way and nobody knows).  MoveWithoutFiles' cleanup, Stop and Start, and
\* the failing paths of deployWithCommit and MoveApp could each break it.
RunningMeansUp ==
  Quiescent /\ app.status = "running" => ctr[app.server] \in {"up", "unknown"}

\* What runs is what the row says: after a successful deployment of an app the
\* compose file on its server and the snapshot Rollback would restore are the
\* row's, although Patch, the edit form and Rollback write the row while
\* deployWithCommit works from the copy it read.
RunsWhatRowSays ==
  Quiescent /\ app.status = "running" /\ lastRec = "success"
    => disk[app.server] = app.compose /\ snapshot = app.compose

\* After a successful deployment every domain of the routes table is served by Caddy on the
\* app's server: the edit form changes routes and row in separate statements,
\* and a deployment waiting for the mutex must pick up the last of them.
RunningIsRouted ==
  Quiescent /\ app.status = "running" /\ lastRec = "success" /\ app.domain
    => routes \subseteq caddy[app.server]

\* A stopped app does not run: no request that lost a race to Stop brings the
\* containers back behind the status.
StoppedMeansDown ==
  Quiescent /\ app.status = "stopped" => ctr[app.server] # "up"

\* After Undeploy nothing of the app runs on any worker: an operation accepted
\* before the app was deleted finds it gone and starts nothing.
NothingLeft ==
  Quiescent /\ ~Exists => \A s \in Servers : ctr[s] \in {"none", "unknown"}

\* A draft was never deployed: Undeploy relies on it and skips the workers.
DraftHasNothing ==
  app.status = "draft" => \A s \in Servers : ctr[s] = "none"

\* The app's folder survives: whatever is moved, purged or fails half-way, as
\* long as no Undeploy runs some worker keeps the folder it once had.
FolderSurvives ==
  [][/\ \E s \in Servers : disk[s] # None
     /\ \A p \in Procs : pc[p] # "remote"
     => \E s \in Servers : disk'[s] # None]_vars

\* MoveWithoutFiles: "a failed deploy leaves the old server untouched".  It
\* changes something there only once the app is up on its new server.
OldServerUntouched ==
  [][\A p \in Procs :
       /\ job[p].op = "moveNoFiles" /\ lock = p /\ crashes' = crashes
       /\ \/ ctr'[job[p].from] # ctr[job[p].from]
          \/ disk'[job[p].from] # disk[job[p].from]
       => app.status = "running" /\ ctr[app.server] = "up"]_vars

\* CopyAppFiles: "on error the app keeps running on the source server".  When
\* an aborted move has restored the status, the row still names the source, and
\* an app that was running is up there again.
AbortedMoveStays ==
  \A p \in Procs :
    pc[p] = "moveFailLog" =>
      /\ app.server = job[p].from
      /\ job[p].prev = "running" => ctr[job[p].from] \in {"up", "unknown"}

\* What Serialized speaks of, in this specification.
Inside == {p \in Procs : InOperation(p)}
Life == IF requests = 0 THEN "new" ELSE IF Exists THEN "alive" ELSE "gone"

Ser == INSTANCE Serialized WITH inside <- Inside, workers <- world,
                                life <- Life

\* The operations as they are, with their handlers, races, failures and
\* restarts, implement the abstract serialized app.
Serializes == Ser!Spec

\* Every request comes back: no operation waits for the mutex for ever.
EveryRequestReturns ==
  \A p \in Procs : pc[p] # "idle" ~> pc[p] = "idle"

\* The detail page, which refreshes while the app is deploying, stops doing so.
DeployingEnds == app.status = "deploying" ~> app.status # "deploying"

=============================================================================
