---------------------------- MODULE WorkerProofs ----------------------------
(***************************************************************************)
(* What is on the workers: proofs that the row of an app tells the truth   *)
(* about its containers, its folder and its routes.  With every race at    *)
(* once it need not; each theorem names what has to be excluded.           *)
(***************************************************************************)
EXTENDS SerializedProofs

---------------------------------------------------------------------------
(* What a process is doing fits where it is.                               *)

ReadPCs   == {"patchCheck", "patchWrite", "editCheck", "editWrite"}
EditPCs   == {"editGetRoutes", "editPutRoutes"}
CopyPCs   == {"moveMark", "copyOpen", "copyDown", "copyTar", "copyRestart",
              "moveFail", "moveFailLog", "moveRead", "moveSave",
              "moveGetRoutes", "movePutRoutes", "moveLog"}
BoundPCs  == {"down", "up", "route", "running", "failed", "logSuccess",
              "logFailed"}
Moves     == {"move", "moveNoFiles"}

\* A move has two different servers.
Apart(p) == /\ job[p].from \in Servers
            /\ job[p].to \in Servers
            /\ job[p].from # job[p].to

Course(p) ==
  /\ job[p].op \in Moves => Apart(p)
  /\ pc[p] \in CopyPCs => job[p].op = "move"
  /\ pc[p] \in {"moveCheck", "cleanup"} => job[p].op \in Moves
  /\ pc[p] \in {"patchGetRoutes", "patchPutRoutes"} => job[p].op = "moveNoFiles"
  /\ pc[p] \in {"deployCheck", "deployMark"} => job[p].op = "redeploy"
  /\ pc[p] \in ReadPCs \cup EditPCs => job[p].op \in {"none", "redeploy"} \cup Moves
  /\ pc[p] \in {"exec", "setStatus"} => job[p].op \in {"stop", "start"}
  /\ pc[p] \in RowPCs \cup BoundPCs => job[p].row.compose \in Composes

CourseInv == /\ Exists => app.compose \in Composes
             /\ \A p \in Procs : Course(p)

\* The servers and the compose file of a Patch or an edit.
LEMMA ChangeCourse ==
  ASSUME DbTyped, NEW c \in Composes, NEW to \in Servers \cup {None},
         NEW files, NEW purge \in BOOLEAN,
         to = None => app.status = "draft" \/ app.server = None,
         NEW change, change = Change(app, c, to, files, purge)
  PROVE  /\ change \in Job
         /\ change.op = SpawnedOp(app, to, files)
         /\ change.op \in {"none", "redeploy"} \cup Moves
         /\ change.op \in Moves => /\ change.from \in Servers
                                   /\ change.to \in Servers
                                   /\ change.from # change.to
         /\ change.row.compose = c
         /\ change.row.status = app.status
         /\ change.row.domain = app.domain
         /\ change.row.server = IF change.op = "move" THEN app.server ELSE to
         /\ change.from = app.server
         /\ change.to = to
         /\ change.doms = {}
<1> DEFINE row == EditedRow(app, c, to, files)
           op == SpawnedOp(app, to, files)
<1>1. /\ row.compose = c
      /\ row.status = app.status
      /\ row.domain = app.domain
      /\ row.server = IF op = "move" THEN app.server ELSE to
  BY DEF EditedRow, DbTyped, Row
<1>2. /\ op \in {"none", "redeploy"} \cup Moves
      /\ op \in Moves => app.server # None /\ to # app.server /\ to # None
  BY DEF SpawnedOp, Moves
<1>3. app.server \in Servers \cup {None}
  BY DEF DbTyped, Row
<1>4. change \in Job
  BY ChangeTyped
<1> HIDE DEF row, op
<1>5. change = [NoJob EXCEPT !.op = op, !.row = row, !.from = app.server,
                             !.to = to, !.purge = purge]
  BY DEF Change, row, op
<1>6. /\ change.op = op /\ change.row = row /\ change.from = app.server
      /\ change.to = to /\ change.doms = {}
  BY <1>5 DEF NoJob
<1>7. QED
  BY <1>1, <1>2, <1>3, <1>4, <1>6 DEF op

\* The domains of an edit form change nothing else.
LEMMA DomainsCourse ==
  ASSUME NEW change \in Job, NEW doms, NEW edit, edit = WithDomains(change, doms)
  PROVE  /\ edit.op = change.op
         /\ edit.from = change.from
         /\ edit.to = change.to
         /\ edit.row.status = change.row.status
         /\ edit.row.server = change.row.server
         /\ edit.row.compose = change.row.compose
BY DEF WithDomains, Job, Row

\* What a Patch or an edit remembers of the app it has just read.
Remembers(p) ==
  \E files \in FileMoves :
    LET op == SpawnedOp(app, job'[p].to, files) IN
    /\ job'[p].op = op
    /\ op \in {"none", "redeploy"} \cup Moves
    /\ op \in Moves => Apart(p)'
    /\ job'[p].from = app.server
    /\ job'[p].row.status = app.status
    /\ job'[p].row.compose \in Composes
    /\ job'[p].row.server = IF op = "move" THEN app.server ELSE job'[p].to
    /\ job'[p].to = None => app.status = "draft" \/ app.server = None

\* A Patch and an edit remember what they read.
LEMMA ReadRemembers ==
  ASSUME DbTyped, JobTyped, ControlTyped, NEW p \in Procs,
         PatchRead(p) \/ EditRead(p)
  PROVE  /\ Exists
         /\ pc'[p] \in {"patchCheck", "editCheck"}
         /\ Remembers(p)
         /\ UNCHANGED <<db, world, lock>>
<1>1. CASE PatchRead(p)
  <2>1. PICK c \in Composes, to \in Servers \cup {app.server},
             files \in FileMoves, purge \in BOOLEAN :
          job' = [job EXCEPT ![p] = Change(app, c, to, files, purge)]
    BY <1>1 DEF PatchRead
  <2>2. /\ to \in Servers \cup {None}
        /\ to = None => app.server = None
    BY ConstantsAssumption DEF Row, DbTyped
  <2> DEFINE change == Change(app, c, to, files, purge)
  <2>3. job'[p] = change
    BY <2>1 DEF JobTyped
  <2>4. Remembers(p)
    <3>1. /\ change.op = SpawnedOp(app, to, files)
          /\ change.op \in {"none", "redeploy"} \cup Moves
          /\ change.op \in Moves => /\ change.from \in Servers
                                    /\ change.to \in Servers
                                    /\ change.from # change.to
          /\ change.row.compose = c
          /\ change.row.status = app.status
          /\ change.row.server = IF change.op = "move" THEN app.server ELSE to
          /\ change.from = app.server
          /\ change.to = to
      BY <2>2, ChangeCourse
    <3> HIDE DEF change
    <3>2. QED
      BY <2>2, <2>3, <3>1 DEF Remembers, Apart
  <2>5. QED
    BY <1>1, <2>4 DEF PatchRead, Goto, ControlTyped
<1>2. CASE EditRead(p)
  <2>1. PICK c \in Composes, to \in Servers \cup {None}, files \in FileMoves,
             purge \in BOOLEAN, doms \in SUBSET Domains :
          /\ to = None => app.status = "draft" \/ app.server = None
          /\ job' = [job EXCEPT ![p] =
                       WithDomains(Change(app, c, to, files, purge), doms)]
    BY <1>2 DEF EditRead
  <2> DEFINE change == Change(app, c, to, files, purge)
  <2>3. job'[p] = WithDomains(change, doms)
    BY <2>1 DEF JobTyped
  <2>4. Remembers(p)
    <3>1. /\ change \in Job
          /\ change.op = SpawnedOp(app, to, files)
          /\ change.op \in {"none", "redeploy"} \cup Moves
          /\ change.op \in Moves => /\ change.from \in Servers
                                    /\ change.to \in Servers
                                    /\ change.from # change.to
          /\ change.row.compose = c
          /\ change.row.status = app.status
          /\ change.row.server = IF change.op = "move" THEN app.server ELSE to
          /\ change.from = app.server
          /\ change.to = to
      BY <2>1, ChangeCourse
    <3> HIDE DEF change
    <3>2. /\ job'[p].op = change.op
          /\ job'[p].from = change.from
          /\ job'[p].to = change.to
          /\ job'[p].row.status = change.row.status
          /\ job'[p].row.server = change.row.server
          /\ job'[p].row.compose = change.row.compose
      BY <2>3, <3>1, DomainsCourse
    <3>3. QED
      BY <2>1, <3>1, <3>2 DEF Remembers, Apart
  <2>5. QED
    BY <1>2, <2>4 DEF EditRead, Goto, ControlTyped
<1>3. QED
  BY <1>1, <1>2

\* A process that has returned knows nothing.
LEMMA ReturnedCourse ==
  ASSUME NEW p \in Procs, pc'[p] = "idle", job'[p] = NoJob
  PROVE  Course(p)'
BY DEF NoJob, Course, Moves, CopyPCs, ReadPCs, EditPCs, RowPCs, BoundPCs

\* A request sets its course,
LEMMA RequestCourse ==
  ASSUME DbTyped, JobTyped, ControlTyped, NEW p \in Procs, Course(p), Request(p)
  PROVE  Course(p)'
<1> USE DEF Course, Moves, CopyPCs, ReadPCs, EditPCs, RowPCs, BoundPCs, Apart,
            Goto, ControlTyped, JobTyped, Job
<1>1. CASE Create(p)
  BY <1>1 DEF Create, proc, NewRequest
<1>2. ASSUME NEW kind \in {"redeploy", "rollback", "stop", "start", "undeploy"},
             Operate(p, kind)
      PROVE  Course(p)'
  BY <1>2 DEF Operate
<1>3. CASE DeployByGit(p)
  BY <1>3 DEF DeployByGit
<1>4. CASE ClearDeployments(p)
  BY <1>4 DEF ClearDeployments, proc
<1>5. CASE DeployWebRead(p)
  BY <1>5 DEF DeployWebRead
<1>6. CASE PatchRead(p) \/ EditRead(p)
  BY <1>6, ReadRemembers DEF Remembers
<1>7. QED
  BY <1>1, <1>2, <1>3, <1>4, <1>5, <1>6 DEF Request

\* a handler and an operation keep it.
LEMMA HandleCourse ==
  ASSUME JobTyped, ControlTyped, NEW p \in Procs, Course(p), Handle(p)
  PROVE  Course(p)'
<1> USE ReturnedCourse
    DEF Course, Moves, CopyPCs, ReadPCs, EditPCs, RowPCs, BoundPCs, Apart,
        Goto, ControlTyped, JobTyped, Job, Return
<1>1. CASE \/ BusyCheck(p, "deployCheck", "deployMark")
           \/ BusyCheck(p, "patchCheck", "patchWrite")
           \/ BusyCheck(p, "editCheck", "editWrite")
  BY <1>1 DEF BusyCheck
<1>2. CASE DeployWebMark(p)
  BY <1>2 DEF DeployWebMark
<1>3. CASE PatchWrite(p)
  BY <1>3 DEF PatchWrite
<1>4. CASE EditWrite(p)
  BY <1>4 DEF EditWrite
<1>5. CASE GetRoutes(p, "patchGetRoutes", "patchPutRoutes")
  BY <1>5 DEF GetRoutes
<1>6. CASE PutRoutes(p, "patchPutRoutes", "lock")
  BY <1>6 DEF PutRoutes
<1>7. CASE EditGetRoutes(p)
  BY <1>7 DEF EditGetRoutes
<1>8. CASE EditPutRoutes(p)
  BY <1>8 DEF EditPutRoutes
<1>9. QED
  BY <1>1, <1>2, <1>3, <1>4, <1>5, <1>6, <1>7, <1>8 DEF Handle

\* An operation starts on the course its handler set,
LEMMA BeginCourse ==
  ASSUME DbTyped, JobTyped, ControlTyped, NEW p \in Procs, Course(p), Begin(p),
         Exists => app.compose \in Composes
  PROVE  Course(p)'
<1> USE ReturnedCourse
    DEF Course, Moves, CopyPCs, ReadPCs, EditPCs, RowPCs, BoundPCs, Apart,
        Goto, ControlTyped, JobTyped, Return, Acquire, Enter, GiveUp
<1>1. CASE BeginDeploy(p)
  BY <1>1 DEF BeginDeploy
<1>2. CASE BeginRedeploy(p)
  BY <1>2 DEF BeginRedeploy
<1>3. CASE BeginRollback(p)
  <2>1. CASE Exists /\ snapshot # None
    <3>1. job'[p] = [job[p] EXCEPT !.row = [app EXCEPT !.compose = snapshot]]
      BY <1>3, <2>1 DEF BeginRollback
    <3>2. pc'[p] = "rollbackSave" /\ job[p].op = "rollback"
      BY <1>3, <2>1 DEF BeginRollback
    <3>3. /\ job'[p].op = job[p].op
          /\ job'[p].row = [app EXCEPT !.compose = snapshot]
      BY <3>1 DEF Job
    <3>4. job'[p].row.compose \in Composes
      BY <2>1, <3>3 DEF DbTyped, Row
    <3>5. QED
      BY <3>2, <3>3, <3>4
  <2>2. QED
    BY <1>3, <2>1 DEF BeginRollback
<1>4. CASE BeginStopStart(p)
  BY <1>4 DEF BeginStopStart, Job
<1>5. CASE BeginUndeploy(p)
  BY <1>5 DEF BeginUndeploy, Job
<1>6. CASE BeginMove(p)
  <2>1. CASE Exists
    <3>1. job'[p] = [job[p] EXCEPT !.row = app, !.prev = app.status]
      BY <1>6, <2>1 DEF BeginMove
    <3>2. pc'[p] = "moveMark" /\ job[p].op = "move"
      BY <1>6, <2>1 DEF BeginMove
    <3>3. /\ job'[p].op = job[p].op /\ job'[p].from = job[p].from
          /\ job'[p].to = job[p].to
      BY <3>1 DEF Job
    <3>4. QED
      BY <3>2, <3>3
  <2>2. QED
    BY <1>6, <2>1 DEF BeginMove
<1>7. QED
  BY <1>1, <1>2, <1>3, <1>4, <1>5, <1>6 DEF Begin

\* and follows it.
LEMMA WorkCourse ==
  ASSUME DbTyped, JobTyped, ControlTyped, NEW p \in Procs, Course(p),
         Attends(p), Work(p), Exists => app.compose \in Composes
  PROVE  Course(p)'
<1> USE ReturnedCourse
    DEF Course, Moves, CopyPCs, ReadPCs, EditPCs, RowPCs, BoundPCs, Apart,
        Goto, ControlTyped, JobTyped, Release
<1>1. CASE DeployRead(p)
  BY <1>1 DEF DeployRead, Job
<1>2. CASE DeployStep(p) /\ ~DeployRead(p)
  BY <1>2 DEF DeployStep, DeployMark, DeployDown, DeployUp, DeployRoute,
              DeployFinish, DeployRecord, DeployFailRecord, DeployFailStatus,
              DeployReturns
<1>3. CASE MoveRead(p)
  <2>1. Exists
    BY <1>3, OpLabels DEF MoveRead, Attends
  <2>2. job' = [job EXCEPT ![p].row = [app EXCEPT !.server = job[p].to]]
    BY <1>3 DEF MoveRead
  <2>3. /\ job'[p].row = [app EXCEPT !.server = job[p].to]
        /\ job'[p].op = job[p].op /\ job'[p].from = job[p].from
        /\ job'[p].to = job[p].to
    BY <2>2 DEF Job
  <2>4. job'[p].row.compose \in Composes
    BY <2>1, <2>3 DEF DbTyped, Row
  <2>5. QED
    BY <1>3, <2>3, <2>4 DEF MoveRead
<1>4. CASE GetRoutes(p, "moveGetRoutes", "movePutRoutes")
  BY <1>4 DEF GetRoutes, Job
<1>5. CASE \/ MoveMark(p) \/ CopyOpen(p) \/ CopyDown(p) \/ CopyTar(p)
           \/ CopyRestart(p) \/ MoveFail(p) \/ MoveFailRecord(p)
  BY <1>5 DEF MoveMark, CopyOpen, CopyDown, CopyTar, CopyRestart, MoveFail,
              MoveFailRecord
<1>6. CASE \/ MoveSave(p) \/ PutRoutes(p, "movePutRoutes", "mark")
           \/ MoveCheck(p) \/ CleanupFromServer(p) \/ MoveRecord(p)
  BY <1>6 DEF MoveSave, PutRoutes, MoveCheck, CleanupFromServer,
              CleanupReturns, MoveRecord
<1>7. CASE OtherStep(p)
  <2>1. CASE RollbackSave(p)
    BY <2>1 DEF RollbackSave
  <2>2. CASE StopStartExec(p)
    <3>1. \/ Release(p)
          \/ Goto(p, "setStatus") /\ UNCHANGED job /\ pc[p] = "exec"
      BY <2>2 DEF StopStartExec
    <3>2. QED
      BY <3>1
  <2>3. CASE StopStartStatus(p) \/ Forget(p)
    <3>1. Release(p)
      BY <2>3 DEF StopStartStatus, Forget
    <3>2. QED
      BY <3>1
  <2>4. CASE UndeployRemote(p)
    BY <2>4 DEF UndeployRemote
  <2>5. QED
    BY <1>7, <2>1, <2>2, <2>3, <2>4 DEF OtherStep
<1>8. QED
  BY <1>1, <1>2, <1>3, <1>4, <1>5, <1>6, <1>7 DEF Work, MoveStep

\* Only a row that carries a compose file is ever stored.
LEMMA ComposeStep ==
  ASSUME DbTyped, NEW p \in Procs, Course(p), Step(p),
         Exists => app.compose \in Composes
  PROVE  (Exists => app.compose \in Composes)'
<1>0. /\ \A s : UpdateStatus(s) => (Exists => app.compose \in Composes)'
      /\ \A row : Update(row) /\ row.compose \in Composes
                    => (Exists => app.compose \in Composes)'
      /\ UNCHANGED app => (Exists => app.compose \in Composes)'
  BY DEF UpdateStatus, Update, DbTyped, Row, Exists
<1> USE DEF Course, RowPCs
<1>1. CASE Create(p)
  BY <1>1 DEF Create
<1>2. CASE Request(p) /\ ~Create(p)
  BY <1>0, <1>2 DEF Request, Operate, DeployByGit, ClearDeployments,
     DeployWebRead, PatchRead, EditRead, db
<1>3. CASE Handle(p)
  BY <1>0, <1>3 DEF Handle, BusyCheck, DeployWebMark, PatchWrite, GetRoutes,
     PutRoutes, EditWrite, EditGetRoutes, EditPutRoutes, db
<1>4. CASE Begin(p)
  BY <1>0, <1>4, BeginControl DEF db
<1>5. CASE DeployStep(p)
  BY <1>0, <1>5 DEF DeployStep, DeployMark, DeployRead, DeployDown, DeployUp,
     DeployRoute, DeployFinish, DeployRecord, DeployFailRecord,
     DeployFailStatus, db
<1>6. CASE MoveStep(p)
  BY <1>0, <1>6 DEF MoveStep, MoveMark, CopyOpen, CopyDown, CopyTar,
     CopyRestart, MoveFail, MoveFailRecord, MoveRead, MoveSave, GetRoutes,
     PutRoutes, MoveCheck, CleanupFromServer, MoveRecord, db
<1>7. CASE OtherStep(p)
  <2>1. CASE Forget(p)
    BY <2>1 DEF Forget, NoApp, Exists
  <2>2. QED
    BY <1>0, <1>7, <2>1 DEF OtherStep, RollbackSave, StopStartExec,
       StopStartStatus, UndeployRemote, db
<1>8. QED
  BY <1>1, <1>2, <1>3, <1>4, <1>5, <1>6, <1>7 DEF Step, Work

\* What holds of every app, however many races, failures and restarts.
BaseInv == TypeInv /\ LifeInv /\ CourseInv

\* Its parts, as the lemmas use them.
LEMMA BaseParts ==
  ASSUME BaseInv
  PROVE  /\ DbTyped /\ WorldTyped /\ JobTyped /\ ControlTyped /\ LockOwner
         /\ requests \in Nat /\ crashes \in Nat
         /\ Exists => app.compose \in Composes
         /\ \A p \in Procs : Attends(p) /\ Course(p)
BY DEF BaseInv, TypeInv, TypeOK, ControlInv, LifeInv, CourseInv, DbTyped,
       WorldTyped, JobTyped, ControlTyped

\* It holds of the empty database,
LEMMA BaseInit == Init => BaseInv
<1>1. Init => TypeInv
  BY ConstantsAssumption, OpLabels, Labels, Empty
  DEF Init, TypeInv, TypeOK, ControlInv, ControlTyped, LockOwner,
      InOperation, CopyHasSource, Containers
<1>2. Init => LifeInv
  BY OpLabels DEF Init, LifeInv, Attends, RowPCs, PrevPCs, NoApp, Exists
<1>3. Init => CourseInv
  BY DEF Init, CourseInv, Course, Exists, NoApp, NoJob, Moves, CopyPCs, ReadPCs,
         EditPCs, RowPCs, BoundPCs
<1>4. QED
  BY <1>1, <1>2, <1>3 DEF BaseInv

\* and is inductive.
LEMMA BaseStep == BaseInv /\ [Next]_vars => BaseInv'
<1> SUFFICES ASSUME BaseInv, [Next]_vars PROVE BaseInv'
  OBVIOUS
<1>0. TypeInv' /\ LifeInv'
  BY TypeStep, LifeStep DEF BaseInv
<1>1. ASSUME NEW p \in Procs, Step(p) PROVE CourseInv'
  <2>1. \A q \in Procs \ {p} : pc'[q] = pc[q] /\ job'[q] = job[q]
    BY <1>1, BaseParts, Locality DEF ControlTyped, JobTyped
  <2>2. Course(p)'
    BY <1>1, BaseParts, RequestCourse, HandleCourse, BeginCourse, WorkCourse
    DEF Step
  <2>3. ASSUME NEW q \in Procs \ {p} PROVE Course(q)'
    BY <2>1, BaseParts DEF Course, Apart
  <2>4. QED
    BY <1>1, <2>2, <2>3, BaseParts, ComposeStep DEF CourseInv
<1>2. CASE Restart
  <2>1. (Exists => app.compose \in Composes)'
    BY <1>2, BaseParts DEF Restart, FailInterrupted, Exists, DbTyped, Row
  <2>2. ASSUME NEW p \in Procs PROVE Course(p)'
    BY <1>2, ReturnedCourse DEF Restart
  <2>3. QED
    BY <1>0, <2>1, <2>2 DEF BaseInv, CourseInv
<1>3. CASE UNCHANGED vars
  <2>1. CourseInv
    BY DEF BaseInv
  <2>2. QED
    BY <1>0, <1>3, <2>1
    DEF vars, db, proc, BaseInv, CourseInv, Course, Apart, Exists
<1>4. QED
  BY <1>0, <1>1, <1>2, <1>3 DEF BaseInv, Next, Step

---------------------------------------------------------------------------
(* Apps that are deployed when they are created: no row is a draft, and    *)
(* every one has a server.                                                 *)

NoDrafts == Drafts \subseteq {FALSE}

Placed(row) == row.status # "draft" /\ row.server \in Servers

HeldPCs == RowPCs \cup BoundPCs \cup {"exec", "setStatus", "remote"}

Carries(p) ==
  /\ pc[p] \in HeldPCs => Placed(job[p].row)
  /\ pc[p] \in ReadPCs \cup EditPCs => job[p].op # "none"
  /\ pc[p] \in PrevPCs => job[p].prev # "draft"

PlacedInv == /\ Exists => Placed(app)
             /\ \A p \in Procs : Carries(p)

\* A process that has returned carries nothing.
LEMMA ReturnedCarries ==
  ASSUME NEW p \in Procs, pc'[p] \in {"idle", "lock", "deployCheck", "mark"}
  PROVE  Carries(p)'
BY DEF Carries, HeldPCs, RowPCs, BoundPCs, ReadPCs, EditPCs, PrevPCs

\* A request carries the row it read.
LEMMA RequestCarries ==
  ASSUME DbTyped, JobTyped, ControlTyped, NEW p \in Procs, Carries(p),
         Exists => Placed(app), Request(p)
  PROVE  Carries(p)'
<1>1. CASE PatchRead(p) \/ EditRead(p)
  <2>1. /\ Exists
        /\ pc'[p] \in {"patchCheck", "editCheck"}
        /\ Remembers(p)
    BY <1>1, ReadRemembers
  <2>2. Placed(app)
    BY <2>1
  <2>3. PICK files \in FileMoves :
          LET op == SpawnedOp(app, job'[p].to, files) IN
          /\ job'[p].op = op
          /\ job'[p].row.status = app.status
          /\ job'[p].row.server = IF op = "move" THEN app.server ELSE job'[p].to
          /\ job'[p].to = None => app.status = "draft" \/ app.server = None
    BY <2>1 DEF Remembers
  <2>4. job' \in [Procs -> Job]
    BY <1>1, RequestTyped DEF Request, JobTyped
  <2>5. job'[p].to \in Servers \cup {None}
    BY <2>4 DEF Job
  <2>6. app.server # None
    BY <2>2, ConstantsAssumption DEF Placed
  <2>7. Placed(job'[p].row) /\ job'[p].op # "none"
    BY <2>2, <2>3, <2>5, <2>6 DEF Placed, SpawnedOp
  <2>8. QED
    BY <2>1, <2>7 DEF Carries, PrevPCs
<1>2. CASE UNCHANGED proc
  BY <1>2 DEF proc, Carries
<1>3. QED
  BY <1>1, <1>2, ReturnedCarries
  DEF Request, Create, Operate, DeployByGit, ClearDeployments, DeployWebRead,
      Goto, ControlTyped

\* A handler stores nothing else,
LEMMA HandleCarries ==
  ASSUME JobTyped, ControlTyped, NEW p \in Procs, Carries(p), Handle(p)
  PROVE  Carries(p)'
<1> USE DEF Carries, HeldPCs, RowPCs, BoundPCs, ReadPCs, EditPCs, PrevPCs,
            Goto, ControlTyped, JobTyped, Job, Return
<1>1. CASE \/ BusyCheck(p, "deployCheck", "deployMark")
           \/ BusyCheck(p, "patchCheck", "patchWrite")
           \/ BusyCheck(p, "editCheck", "editWrite")
  BY <1>1 DEF BusyCheck
<1>2. CASE DeployWebMark(p)
  BY <1>2 DEF DeployWebMark
<1>3. CASE PatchWrite(p)
  BY <1>3 DEF PatchWrite
<1>4. CASE EditWrite(p)
  BY <1>4 DEF EditWrite
<1>5. CASE GetRoutes(p, "patchGetRoutes", "patchPutRoutes")
  BY <1>5 DEF GetRoutes
<1>6. CASE PutRoutes(p, "patchPutRoutes", "lock")
  BY <1>6 DEF PutRoutes
<1>7. CASE EditGetRoutes(p)
  BY <1>7 DEF EditGetRoutes
<1>8. CASE EditPutRoutes(p)
  BY <1>8 DEF EditPutRoutes
<1>9. QED
  BY <1>1, <1>2, <1>3, <1>4, <1>5, <1>6, <1>7, <1>8 DEF Handle

\* Entering an operation with the row of the app, or without.
LEMMA BeginCarries ==
  ASSUME DbTyped, JobTyped, ControlTyped, NEW p \in Procs, Carries(p),
         Exists => Placed(app), Begin(p)
  PROVE  Carries(p)'
<1> USE DEF Carries, HeldPCs, RowPCs, BoundPCs, ReadPCs, EditPCs, PrevPCs,
            Goto, ControlTyped, JobTyped, Return, Acquire, Enter, GiveUp
<1>1. CASE BeginDeploy(p) \/ BeginRedeploy(p)
  BY <1>1 DEF BeginDeploy, BeginRedeploy
<1>2. CASE BeginRollback(p)
  <2>1. CASE Exists /\ snapshot # None
    <3>1. job'[p] = [job[p] EXCEPT !.row = [app EXCEPT !.compose = snapshot]]
      BY <1>2, <2>1 DEF BeginRollback
    <3>2. job'[p].row = [app EXCEPT !.compose = snapshot]
      BY <3>1 DEF Job
    <3>3. Placed(job'[p].row)
      BY <2>1, <3>2 DEF DbTyped, Row, Placed
    <3>4. QED
      BY <1>2, <2>1, <3>3 DEF BeginRollback
  <2>2. QED
    BY <1>2, <2>1 DEF BeginRollback
<1>3. CASE BeginStopStart(p)
  <2>1. Exists /\ job'[p] = [job[p] EXCEPT !.row = app] => Placed(job'[p].row)
    BY DEF Job
  <2>2. QED
    BY <1>3, <2>1 DEF BeginStopStart
<1>4. CASE BeginUndeploy(p)
  <2>1. Exists /\ job'[p] = [job[p] EXCEPT !.row = app] => Placed(job'[p].row)
    BY DEF Job
  <2>2. QED
    BY <1>4, <2>1 DEF BeginUndeploy
<1>5. CASE BeginMove(p)
  <2>1. CASE Exists
    <3>1. job'[p] = [job[p] EXCEPT !.row = app, !.prev = app.status]
      BY <1>5, <2>1 DEF BeginMove
    <3>2. job'[p].prev = app.status
      BY <3>1 DEF Job
    <3>3. QED
      BY <1>5, <2>1, <3>2 DEF BeginMove, Placed
  <2>2. QED
    BY <1>5, <2>1 DEF BeginMove
<1>6. QED
  BY <1>1, <1>2, <1>3, <1>4, <1>5 DEF Begin

\* and neither does an operation.
LEMMA WorkCarries ==
  ASSUME DbTyped, JobTyped, ControlTyped, NEW p \in Procs, Carries(p),
         Course(p), Attends(p), Exists => Placed(app), Work(p)
  PROVE  Carries(p)'
<1> USE DEF Carries, HeldPCs, RowPCs, BoundPCs, ReadPCs, EditPCs, PrevPCs,
            Goto, ControlTyped, JobTyped, Release
<1>1. CASE DeployRead(p)
  BY <1>1 DEF DeployRead, Job
<1>2. CASE DeployStep(p) /\ ~DeployRead(p)
  BY <1>2 DEF DeployStep, DeployMark, DeployDown, DeployUp, DeployRoute,
              DeployFinish, DeployRecord, DeployFailRecord, DeployFailStatus,
              DeployReturns
<1>3. CASE MoveRead(p)
  <2>1. Exists
    BY <1>3, OpLabels DEF MoveRead, Attends
  <2>2. job' = [job EXCEPT ![p].row = [app EXCEPT !.server = job[p].to]]
    BY <1>3 DEF MoveRead
  <2>3. /\ job'[p].row = [app EXCEPT !.server = job[p].to]
        /\ job'[p].prev = job[p].prev
    BY <2>2 DEF Job
  <2>4. job[p].to \in Servers
    BY <1>3 DEF MoveRead, Course, CopyPCs, Moves, Apart
  <2>5. Placed(job'[p].row)
    BY <2>1, <2>3, <2>4 DEF DbTyped, Row, Placed
  <2>6. QED
    BY <1>3, <2>3, <2>5 DEF MoveRead
<1>4. CASE GetRoutes(p, "moveGetRoutes", "movePutRoutes")
  BY <1>4 DEF GetRoutes, Job
<1>5. CASE \/ MoveMark(p) \/ CopyOpen(p) \/ CopyDown(p) \/ CopyTar(p)
           \/ CopyRestart(p) \/ MoveFail(p) \/ MoveFailRecord(p)
  BY <1>5 DEF MoveMark, CopyOpen, CopyDown, CopyTar, CopyRestart, MoveFail,
              MoveFailRecord
<1>6. CASE \/ MoveSave(p) \/ PutRoutes(p, "movePutRoutes", "mark")
           \/ MoveCheck(p) \/ CleanupFromServer(p) \/ MoveRecord(p)
  BY <1>6 DEF MoveSave, PutRoutes, MoveCheck, CleanupFromServer,
              CleanupReturns, MoveRecord
<1>7. CASE OtherStep(p)
  <2>1. \/ Goto(p, "mark") \/ Goto(p, "forget") \/ Goto(p, "idle")
        \/ Goto(p, "setStatus") /\ UNCHANGED job /\ pc[p] = "exec"
    BY <1>7 DEF OtherStep, RollbackSave, StopStartExec, StopStartStatus,
                UndeployRemote, Forget
  <2>2. QED
    BY <2>1
<1>8. QED
  BY <1>1, <1>2, <1>3, <1>4, <1>5, <1>6, <1>7 DEF Work, MoveStep

\* Only a row with a server is ever stored, and no draft.
LEMMA PlacedStep ==
  ASSUME NoDrafts, DbTyped, NEW p \in Procs, Carries(p), Step(p),
         Exists => Placed(app)
  PROVE  (Exists => Placed(app))'
<1>0. /\ \A s : UpdateStatus(s) /\ s # "draft" => (Exists => Placed(app))'
      /\ \A row : Update(row) /\ Placed(row) => (Exists => Placed(app))'
      /\ UNCHANGED app => (Exists => Placed(app))'
  BY DEF UpdateStatus, Update, DbTyped, Row, Exists, Placed
<1> USE DEF Carries, HeldPCs, RowPCs, PrevPCs
<1>1. CASE Create(p)
  <2>1. PICK c \in Composes, s \in Servers \cup {None}, primary \in BOOLEAN,
             draft \in Drafts :
          /\ s = None => draft
          /\ app' = [status |-> IF draft THEN "draft" ELSE "created",
                     server |-> s, compose |-> c, domain |-> primary]
    BY <1>1 DEF Create
  <2>2. draft = FALSE
    BY DEF NoDrafts
  <2>3. QED
    BY <2>1, <2>2 DEF Placed
<1>2. CASE Request(p) /\ ~Create(p)
  BY <1>0, <1>2 DEF Request, Operate, DeployByGit, ClearDeployments,
     DeployWebRead, PatchRead, EditRead, db
<1>3. CASE Handle(p)
  BY <1>0, <1>3 DEF Handle, BusyCheck, DeployWebMark, PatchWrite, GetRoutes,
     PutRoutes, EditWrite, EditGetRoutes, EditPutRoutes, db
<1>4. CASE Begin(p)
  BY <1>0, <1>4, BeginControl DEF db
<1>5. CASE DeployStep(p)
  BY <1>0, <1>5 DEF DeployStep, DeployMark, DeployRead, DeployDown, DeployUp,
     DeployRoute, DeployFinish, DeployRecord, DeployFailRecord,
     DeployFailStatus, db
<1>6. CASE MoveStep(p)
  BY <1>0, <1>6 DEF MoveStep, MoveMark, CopyOpen, CopyDown, CopyTar,
     CopyRestart, MoveFail, MoveFailRecord, MoveRead, MoveSave, GetRoutes,
     PutRoutes, MoveCheck, CleanupFromServer, MoveRecord, db
<1>7. CASE OtherStep(p)
  <2>1. CASE Forget(p)
    BY <2>1 DEF Forget, NoApp, Exists
  <2>2. QED
    BY <1>0, <1>7, <2>1 DEF OtherStep, RollbackSave, StopStartExec,
       StopStartStatus, UndeployRemote, db
<1>8. QED
  BY <1>1, <1>2, <1>3, <1>4, <1>5, <1>6, <1>7 DEF Step, Work

\* There is no app at first.
LEMMA PlacedInit == Init => PlacedInv
BY DEF Init, PlacedInv, Carries, Exists, NoApp, HeldPCs, RowPCs, BoundPCs,
       ReadPCs, EditPCs, PrevPCs

\* PlacedInv is inductive.
LEMMA PlacedInvStep ==
  ASSUME NoDrafts
  PROVE  BaseInv /\ PlacedInv /\ [Next]_vars => PlacedInv'
<1> SUFFICES ASSUME BaseInv, PlacedInv, [Next]_vars PROVE PlacedInv'
  OBVIOUS
<1>0. /\ Exists => Placed(app)
      /\ \A p \in Procs : Carries(p)
  BY DEF PlacedInv
<1>1. ASSUME NEW p \in Procs, Step(p) PROVE PlacedInv'
  <2>1. \A q \in Procs \ {p} : pc'[q] = pc[q] /\ job'[q] = job[q]
    BY <1>1, BaseParts, Locality DEF ControlTyped, JobTyped
  <2>2. Carries(p)'
    BY <1>0, <1>1, BaseParts, RequestCarries, HandleCarries, BeginCarries,
       WorkCarries DEF Step
  <2>3. ASSUME NEW q \in Procs \ {p} PROVE Carries(q)'
    BY <1>0, <2>1 DEF Carries
  <2>4. QED
    BY <1>0, <1>1, <2>2, <2>3, BaseParts, PlacedStep DEF PlacedInv
<1>2. CASE Restart
  <2>1. (Exists => Placed(app))'
    BY <1>0, <1>2, BaseParts
    DEF Restart, FailInterrupted, Exists, DbTyped, Row, Placed
  <2>2. ASSUME NEW p \in Procs PROVE Carries(p)'
    BY <1>2, ReturnedCarries DEF Restart
  <2>3. QED
    BY <2>1, <2>2 DEF PlacedInv
<1>3. CASE UNCHANGED vars
  BY <1>0, <1>3 DEF vars, db, proc, PlacedInv, Carries, Exists
<1>4. QED
  BY <1>1, <1>2, <1>3 DEF Next, Step

---------------------------------------------------------------------------
(* One worker: what runs is what the row says.                             *)

OneWorker == \E s : Servers = {s}

\* The process will deploy and has not yet read the row it will deploy.
Ahead(p) ==
  \/ pc[p] \in {"rollbackSave", "mark", "read"}
  \/ /\ pc[p] \in {"lock"} \cup EditPCs
     /\ job[p].op \in {"deploy", "git", "redeploy"}

\* A deployment that has read the row and not yet recorded its outcome.
DeployingPCs == BoundPCs \cup {"logFirst"}

\* It read the row as it is, and what it has done so far fits the row.
Fresh(p) ==
  /\ job[p].row.compose = app.compose
  /\ job[p].row.domain = app.domain
  /\ pc[p] \in {"route", "running", "logSuccess"}
       => disk[app.server] = app.compose
  /\ pc[p] \in {"running", "logSuccess"} /\ app.domain
       => routes \subseteq caddy[app.server]

\* If the last deployment was a success, worker and history agree with the row.
Faithful ==
  lastRec = "success" =>
    /\ disk[app.server] = app.compose
    /\ snapshot = app.compose
    /\ app.domain => routes \subseteq caddy[app.server]

Settled == /\ \A p \in Procs : pc[p] \in DeployingPCs => Fresh(p)
           /\ \/ Faithful
              \/ \E p \in Procs : pc[p] \in DeployingPCs \cup {"forget"}

TruthInv == Exists => Settled \/ \E p \in Procs : Ahead(p)

\* With one worker nobody moves the app.
LEMMA NoMoves ==
  ASSUME OneWorker, NEW p \in Procs, Course(p)
  PROVE  job[p].op \notin Moves /\ pc[p] \notin CopyPCs \cup {"moveCheck", "cleanup"}
BY DEF OneWorker, Course, Apart, Moves

\* Whoever writes the row or the routes will deploy them,
LEMMA WritersDeploy ==
  ASSUME OneWorker, NoDrafts, JobTyped, ControlTyped, NEW p \in Procs, Course(p),
         Carries(p), \/ Create(p) \/ DeployWebMark(p) \/ PatchWrite(p)
                     \/ EditWrite(p) \/ EditPutRoutes(p)
  PROVE  Ahead(p)'
<1> USE NoMoves DEF Course, Carries, Ahead, ReadPCs, EditPCs, Moves, Goto,
                    ControlTyped, JobTyped
<1>1. CASE Create(p)
  <2>1. \A draft \in Drafts : draft = FALSE
    BY DEF NoDrafts
  <2>2. pc'[p] = "lock" /\ job' = [job EXCEPT ![p].op = "deploy"]
    BY <1>1, <2>1 DEF Create
  <2>3. QED
    BY <2>2 DEF Job
<1>2. CASE DeployWebMark(p)
  BY <1>2 DEF DeployWebMark
<1>3. CASE PatchWrite(p)
  BY <1>3 DEF PatchWrite
<1>4. CASE EditWrite(p)
  BY <1>4 DEF EditWrite
<1>5. CASE EditPutRoutes(p)
  BY <1>5 DEF EditPutRoutes, Job
<1>6. QED
  BY <1>1, <1>2, <1>3, <1>4, <1>5

\* Every other step outside an operation leaves the row, the routes and the
\* worker alone; at most it clears the history.
Quiet == /\ UNCHANGED <<app, routes, world>>
         /\ UNCHANGED <<snapshot, lastRec>> \/ lastRec' = "none"

\* Outside the operations a step is quiet or one of those that write.
LEMMA OthersQuiet ==
  ASSUME OneWorker, NEW p \in Procs, Course(p), ControlTyped,
         Request(p) \/ Handle(p) \/ Begin(p)
  PROVE  \/ Quiet
         \/ Create(p) \/ DeployWebMark(p) \/ PatchWrite(p)
         \/ EditWrite(p) \/ EditPutRoutes(p)
<1> USE DEF Quiet, db
<1>1. CASE Request(p)
  BY <1>1 DEF Request, Create, Operate, DeployByGit, ClearDeployments,
              DeployWebRead, PatchRead, EditRead
<1>2. CASE Handle(p)
  <2>1. ~PutRoutes(p, "patchPutRoutes", "lock")
    BY NoMoves DEF PutRoutes, Course, Moves
  <2>2. QED
    BY <1>2, <2>1 DEF Handle, BusyCheck, GetRoutes, EditGetRoutes
<1>3. CASE Begin(p)
  BY <1>3, BeginControl
<1>4. QED
  BY <1>1, <1>2, <1>3

\* and a process that will deploy does so, if the app is still there.
LEMMA AheadStep ==
  ASSUME OneWorker, JobTyped, ControlTyped, NEW p \in Procs, Course(p),
         Carries(p), Step(p), Ahead(p), Exists
  PROVE  \/ Ahead(p)'
         \/ /\ pc'[p] \in {"down", "logFirst"}
            /\ job'[p].row = app
            /\ UNCHANGED <<db, world>>
<1> USE NoMoves DEF Course, Carries, Ahead, ReadPCs, EditPCs, Moves, Goto,
                    ControlTyped, JobTyped
<1>1. CASE Request(p)
  BY <1>1 DEF Request, Create, Operate, DeployByGit, ClearDeployments,
              DeployWebRead, PatchRead, EditRead, NewRequest
<1>2. CASE Handle(p)
  BY <1>2 DEF Handle, BusyCheck, DeployWebMark, PatchWrite, GetRoutes,
              PutRoutes, EditWrite, EditGetRoutes, EditPutRoutes, Job
<1>3. CASE Begin(p)
  BY <1>3 DEF Begin, BeginDeploy, BeginRedeploy, BeginRollback, BeginStopStart,
              BeginUndeploy, BeginMove, Acquire, Enter
<1>4. CASE DeployRead(p)
  BY <1>4 DEF DeployRead, Job
<1>5. CASE DeployMark(p)
  BY <1>5 DEF DeployMark
<1>6. CASE RollbackSave(p)
  BY <1>6 DEF RollbackSave
<1>7. CASE Work(p) /\ ~DeployRead(p) /\ ~DeployMark(p) /\ ~RollbackSave(p)
  BY <1>7 DEF Work, DeployStep, MoveStep, OtherStep, DeployDown, DeployUp,
     DeployRoute, DeployFinish, DeployRecord, DeployFailRecord,
     DeployFailStatus, MoveMark, CopyOpen, CopyDown, CopyTar, CopyRestart,
     MoveFail, MoveFailRecord, MoveRead, MoveSave, GetRoutes, PutRoutes,
     MoveCheck, CleanupFromServer, MoveRecord, StopStartExec, StopStartStatus,
     UndeployRemote, Forget
<1>8. QED
  BY <1>1, <1>2, <1>3, <1>4, <1>5, <1>6, <1>7 DEF Step

\* UPDATE apps SET status leaves the rest of the row alone.
LEMMA StatusOnly ==
  ASSUME DbTyped, NEW s, UpdateStatus(s)
  PROVE  /\ app'.server = app.server
         /\ app'.compose = app.compose
         /\ app'.domain = app.domain
BY DEF DbTyped, Row, UpdateStatus

\* An operation that does not start from a stale row makes worker and history
\* fit the row, or says that it has failed.
LEMMA WorkSettles ==
  ASSUME OneWorker, BaseInv, PlacedInv, NEW p \in Procs, Work(p), Exists,
         Exists', ~Ahead(p), Settled
  PROVE  Settled'
<1>0. /\ DbTyped /\ WorldTyped /\ JobTyped /\ ControlTyped
      /\ Course(p) /\ Carries(p) /\ Placed(app)
  BY BaseParts DEF PlacedInv
<1>1. \A q \in Procs \ {p} : pc'[q] = pc[q] /\ pc[q] \notin OpPCs
  <2>1. pc[p] \in OpPCs
    BY WorkControl
  <2>2. QED
    BY <1>0, <2>1, BaseParts, Locality
    DEF Step, LockOwner, InOperation, ControlTyped, JobTyped
<1>2. DeployingPCs \cup {"forget"} \subseteq OpPCs
  BY OpLabels DEF DeployingPCs, BoundPCs
<1>3. /\ pc[p] \in DeployingPCs => Fresh(p)
      /\ Faithful \/ pc[p] \in DeployingPCs \cup {"forget"}
  BY <1>1, <1>2 DEF Settled
<1>4. SUFFICES /\ pc'[p] \in DeployingPCs => Fresh(p)'
               /\ Faithful' \/ pc'[p] \in DeployingPCs \cup {"forget"}
  BY <1>1, <1>2 DEF Settled
<1>5. pc[p] \in HeldPCs => At(p) = app.server
  BY <1>0 DEF OneWorker, Carries, Placed, At
<1>6. app.server \in Servers
  BY <1>0 DEF Placed
<1>7. "idle" \notin DeployingPCs
  BY DEF DeployingPCs, BoundPCs
<1> DEFINE row == job[p].row
<1> USE <1>0 DEF DeployingPCs, BoundPCs, Goto, ControlTyped, JobTyped
<1>8. CASE DeployDown(p)
  BY <1>3, <1>8 DEF DeployDown, Fresh, db
<1>9. CASE DeployUp(p)
  <2>1. /\ pc'[p] \in {"route", "logFirst"}
        /\ pc'[p] = "route" => disk' = [disk EXCEPT ![At(p)] = row.compose]
        /\ UNCHANGED <<app, job, routes>>
    BY <1>9 DEF DeployUp, db
  <2>2. pc[p] = "up"
    BY <1>9 DEF DeployUp
  <2>3. At(p) = app.server /\ Fresh(p)
    BY <1>3, <1>5, <2>2 DEF HeldPCs
  <2>4. pc'[p] = "route" => disk'[app.server] = app.compose
    BY <1>0, <1>6, <2>1, <2>3 DEF Fresh, WorldTyped
  <2>5. QED
    BY <2>1, <2>3, <2>4 DEF Fresh
<1>10. CASE DeployRoute(p)
  <2>1. pc[p] = "route" /\ UNCHANGED <<db, disk, job>>
    BY <1>10 DEF DeployRoute
  <2>2. At(p) = app.server /\ Fresh(p)
    BY <1>3, <1>5, <2>1 DEF HeldPCs
  <2>3. pc'[p] \in {"running", "failed"}
    BY <1>10 DEF DeployRoute
  <2>4. ASSUME pc'[p] = "running", app.domain
        PROVE  routes \subseteq caddy'[app.server]
    <3>1. row.domain
      BY <2>2, <2>4 DEF Fresh
    <3>2. PICK ok \in SUBSET routes, left \in SUBSET routes,
               removed \in SUBSET job[p].gone :
            /\ ok \subseteq left
            /\ caddy' = [caddy EXCEPT ![At(p)] =
                           ((@ \ removed) \ routes) \cup left]
            /\ Goto(p, IF ok = routes THEN "running" ELSE "failed")
      BY <1>10, <3>1 DEF DeployRoute
    <3>3. ok = routes
      BY <2>4, <3>2
    <3>4. caddy'[app.server] =
            ((caddy[app.server] \ removed) \ routes) \cup left
      BY <1>0, <1>6, <2>2, <3>2 DEF WorldTyped
    <3>5. QED
      BY <3>2, <3>3, <3>4
  <2>5. Fresh(p)'
    BY <2>1, <2>2, <2>3, <2>4 DEF Fresh, db
  <2>6. QED
    BY <2>3, <2>5
<1>11. CASE DeployFinish(p)
  <2>1. UpdateStatus(pc[p]) /\ UNCHANGED <<routes, world, job>>
    BY <1>11 DEF DeployFinish
  <2>2. /\ app'.server = app.server /\ app'.compose = app.compose
        /\ app'.domain = app.domain
    BY <1>0, <2>1, StatusOnly
  <2>3. QED
    BY <1>3, <1>11, <2>1, <2>2 DEF DeployFinish, Fresh, world
<1>12. CASE DeployRecord(p)
  <2>1. Release(p)
    BY <1>0, <1>12, NoMoves DEF DeployRecord, DeployReturns, Moves
  <2>2. pc[p] \in {"logSuccess", "logFailed"} /\ Fresh(p)
    BY <1>3, <1>12 DEF DeployRecord
  <2>3. Faithful'
    BY <1>12, <2>2 DEF DeployRecord, RecordDeployment, Faithful, Fresh, world
  <2>4. QED
    BY <1>7, <2>1, <2>3 DEF Release
<1>13. CASE DeployFailRecord(p)
  BY <1>13 DEF DeployFailRecord, RecordDeployment, Faithful
<1>14. CASE DeployFailStatus(p)
  <2>1. Release(p)
    BY <1>0, <1>14, NoMoves DEF DeployFailStatus, DeployReturns, Moves
  <2>2. UpdateStatus("failed") /\ UNCHANGED <<routes, snapshot, lastRec, world>>
    BY <1>14 DEF DeployFailStatus
  <2>3. /\ app'.server = app.server /\ app'.compose = app.compose
        /\ app'.domain = app.domain
    BY <1>0, <2>2, StatusOnly
  <2>4. Faithful
    BY <1>3, <1>14 DEF DeployFailStatus
  <2>5. QED
    BY <1>7, <2>1, <2>2, <2>3, <2>4 DEF Faithful, Release, world
<1>15. CASE StopStartExec(p)
  <2>1. Faithful
    BY <1>3, <1>15 DEF StopStartExec
  <2>2. pc'[p] \in {"setStatus", "idle"} /\ UNCHANGED <<db, disk, caddy>>
    BY <1>15 DEF StopStartExec, Release
  <2>3. QED
    BY <2>1, <2>2 DEF Faithful, db
<1>16. CASE StopStartStatus(p)
  <2>1. PICK s : UpdateStatus(s)
    BY <1>16 DEF StopStartStatus
  <2>2. Release(p) /\ UNCHANGED <<routes, snapshot, lastRec, world>>
    BY <1>16 DEF StopStartStatus
  <2>3. /\ app'.server = app.server /\ app'.compose = app.compose
        /\ app'.domain = app.domain
    BY <1>0, <2>1, StatusOnly
  <2>4. Faithful
    BY <1>3, <1>16 DEF StopStartStatus
  <2>5. QED
    BY <1>7, <2>2, <2>3, <2>4 DEF Faithful, Release, world
<1>17. CASE UndeployRemote(p)
  BY <1>17 DEF UndeployRemote
<1>18. CASE Forget(p)
  BY <1>18 DEF Forget, NoApp, Exists
<1>19. CASE DeployMark(p) \/ DeployRead(p) \/ RollbackSave(p)
  BY <1>19 DEF DeployMark, DeployRead, RollbackSave, Ahead
<1>20. CASE MoveStep(p)
  <2>1. pc[p] \in CopyPCs \cup {"moveCheck", "cleanup"}
    BY <1>20 DEF MoveStep, MoveMark, CopyOpen, CopyDown, CopyTar, CopyRestart,
       MoveFail, MoveFailRecord, MoveRead, MoveSave, GetRoutes, PutRoutes,
       MoveCheck, CleanupFromServer, MoveRecord, CopyPCs
  <2>2. QED
    BY <1>0, <2>1, NoMoves
<1>21. QED
  BY <1>8, <1>9, <1>10, <1>11, <1>12, <1>13, <1>14, <1>15, <1>16, <1>17, <1>18,
     <1>19, <1>20 DEF Work, DeployStep, OtherStep

\* A step outside the operations that writes nothing leaves it at that.
LEMMA QuietSettles ==
  ASSUME NEW p \in Procs, BaseInv, Request(p) \/ Handle(p) \/ Begin(p), Quiet,
         Settled
  PROVE  Settled'
<1>0. JobTyped /\ ControlTyped
  BY BaseParts
<1>1. \A q \in Procs \ {p} : pc'[q] = pc[q] /\ job'[q] = job[q]
  BY <1>0, Locality DEF Step, ControlTyped, JobTyped
<1>2. pc[p] \notin OpPCs
  BY OutsideControl, BeginControl, OpLabels, Labels
<1>3. DeployingPCs \cup {"forget"} \subseteq OpPCs
  BY OpLabels DEF DeployingPCs, BoundPCs
<1>4. pc'[p] \notin DeployingPCs
  <2>1. CASE Request(p) \/ Handle(p)
    BY <1>0, <1>2, <1>3, <2>1, OutsideControl, OpLabels DEF Goto, ControlTyped
  <2>2. CASE Begin(p)
    BY <1>0, <2>2 DEF Begin, BeginDeploy, BeginRedeploy, BeginRollback,
       BeginStopStart, BeginUndeploy, BeginMove, Enter, GiveUp, Return, Goto,
       ControlTyped, DeployingPCs, BoundPCs
  <2>3. QED
    BY <2>1, <2>2
<1>5. \A q \in Procs : pc'[q] \in DeployingPCs => Fresh(q)'
  BY <1>1, <1>4 DEF Settled, Fresh, Quiet, world
<1>6. CASE Faithful
  BY <1>5, <1>6 DEF Settled, Faithful, Quiet, world
<1>7. CASE \E q \in Procs : pc[q] \in DeployingPCs \cup {"forget"}
  BY <1>1, <1>2, <1>3, <1>5, <1>7 DEF Settled
<1>8. QED
  BY <1>6, <1>7 DEF Settled

\* TruthInv is inductive as long as the controller does not restart.
LEMMA TruthStep ==
  ASSUME OneWorker, NoDrafts, MaxCrashes = 0
  PROVE  BaseInv /\ PlacedInv /\ TruthInv /\ [Next]_vars => TruthInv'
<1> SUFFICES ASSUME BaseInv, PlacedInv, TruthInv, [Next]_vars, Exists'
             PROVE  Settled' \/ \E p \in Procs : Ahead(p)'
  BY DEF TruthInv
<1>0. /\ DbTyped /\ JobTyped /\ ControlTyped /\ crashes \in Nat
      /\ \A p \in Procs : Course(p) /\ Carries(p) /\ Attends(p)
  BY BaseParts DEF PlacedInv
<1>1. ASSUME NEW p \in Procs, Step(p)
      PROVE  Settled' \/ \E q \in Procs : Ahead(q)'
  <2>1. \A q \in Procs \ {p} : pc'[q] = pc[q] /\ job'[q] = job[q]
    BY <1>0, <1>1, Locality DEF ControlTyped, JobTyped
  <2>2. CASE Create(p)
    BY <1>0, <2>2, WritersDeploy
  <2>3. CASE ~Create(p)
    <3>1. Exists
      <4>1. CASE Forget(p)
        BY <4>1 DEF Forget, NoApp, Exists
      <4>2. QED
        BY <1>0, <1>1, <2>3, <4>1, AppKept
    <3>2. ASSUME NEW q \in Procs \ {p}, Ahead(q) PROVE Ahead(q)'
      BY <2>1, <3>2 DEF Ahead
    <3>3. CASE Ahead(p)
      <4>1. CASE pc'[p] \in {"down", "logFirst"} /\ job'[p].row = app
                   /\ UNCHANGED <<db, world>>
        <5>1. Fresh(p)'
          BY <4>1 DEF Fresh, db
        <5>2. pc'[p] \in DeployingPCs
          BY <4>1 DEF DeployingPCs, BoundPCs
        <5>3. \A q \in Procs \ {p} : pc'[q] \notin DeployingPCs
          <6>1. BaseInv'
            BY BaseStep
          <6>2. LockOwner'
            BY <6>1, BaseParts DEF BaseInv, TypeInv, ControlInv
          <6>3. DeployingPCs \subseteq OpPCs
            BY OpLabels DEF DeployingPCs, BoundPCs
          <6>4. QED
            BY <5>2, <6>2, <6>3 DEF LockOwner, InOperation
        <5>4. QED
          BY <5>1, <5>2, <5>3 DEF Settled
      <4>2. QED
        BY <1>0, <1>1, <3>1, <3>3, <4>1, AheadStep
    <3>4. CASE ~Ahead(p) /\ Settled
      <4>1. CASE Work(p)
        BY <3>1, <3>4, <4>1, WorkSettles
      <4>2. CASE Request(p) \/ Handle(p) \/ Begin(p)
        BY <1>0, <3>4, <4>2, OthersQuiet, QuietSettles, WritersDeploy
      <4>3. QED
        BY <1>1, <4>1, <4>2 DEF Step
    <3>5. QED
      BY <3>1, <3>2, <3>3, <3>4 DEF TruthInv
  <2>4. QED
    BY <2>2, <2>3
<1>2. ~Restart
  BY <1>0 DEF Restart
<1>3. CASE UNCHANGED vars
  BY <1>3 DEF vars, db, world, proc, TruthInv, Settled, Faithful, Fresh, Ahead,
              Exists
<1>4. QED
  BY <1>1, <1>2, <1>3 DEF Next, Step

\* The invariant with all it needs.
LEMMA TruthHolds ==
  ASSUME OneWorker, NoDrafts, MaxCrashes = 0
  PROVE  Spec => [](BaseInv /\ PlacedInv /\ TruthInv)
<1>1. Init => BaseInv /\ PlacedInv /\ TruthInv
  BY BaseInit, PlacedInit DEF Init, TruthInv, Exists, NoApp
<1>2. BaseInv /\ PlacedInv /\ TruthInv /\ [Next]_vars
        => (BaseInv /\ PlacedInv /\ TruthInv)'
  BY BaseStep, PlacedInvStep, TruthStep
<1>3. QED
  BY <1>1, <1>2, PTL DEF Spec

\* When everybody has returned, a running app is as the last success left it.
LEMMA TruthAtRest ==
  ASSUME TruthInv, Quiescent, Exists
  PROVE  Faithful
BY DEF TruthInv, Quiescent, Settled, Ahead, EditPCs, DeployingPCs, BoundPCs

\* On one worker, for any number of racing requests and any failures: after a
\* successful deployment the compose file on the worker and the one Rollback
\* would restore are the row's.  Whoever writes the row deploys afterwards, and
\* a deployment from a row that has changed since is followed by another.
THEOREM WorkerRunsTheRow ==
  ASSUME OneWorker, NoDrafts, MaxCrashes = 0
  PROVE  Spec => []RunsWhatRowSays
<1>1. BaseInv /\ PlacedInv /\ TruthInv => RunsWhatRowSays
  BY TruthAtRest DEF RunsWhatRowSays, Faithful, Exists
<1>2. QED
  BY <1>1, TruthHolds, PTL

\* Under the same conditions Caddy serves every domain of the routes table,
\* although the edit form stores row and routes in separate statements.
THEOREM WorkerServesTheRoutes ==
  ASSUME OneWorker, NoDrafts, MaxCrashes = 0
  PROVE  Spec => []RunningIsRouted
<1>1. BaseInv /\ PlacedInv /\ TruthInv => RunningIsRouted
  BY TruthAtRest DEF RunningIsRouted, Faithful, Exists
<1>2. QED
  BY <1>1, TruthHolds, PTL

---------------------------------------------------------------------------
(* Any number of workers, moves without files: a stopped app is down.      *)

NoFileMoves == FileMoves \subseteq {FALSE}

\* Nobody is about to deploy: a Stop or Start works on the server of the row,
\* and the status "stopped" is true or about to be replaced by a Start.
Halted ==
  /\ \A p \in Procs : pc[p] = "exec" => At(p) = app.server
  /\ \A p \in Procs : pc[p] = "setStatus" /\ job[p].op = "stop"
                        => ctr[app.server] # "up"
  /\ app.status = "stopped"
       => \/ ctr[app.server] # "up"
          \/ \E p \in Procs : pc[p] = "setStatus" /\ job[p].op = "start"

DownInv == Halted \/ \E p \in Procs : Settling(p)

\* Taking an app down starts nothing.
LEMMA TakeDownStops ==
  ASSUME WorldTyped, NEW s, NEW purge, NEW doms, TakeDown(s, purge, doms)
  PROVE  \A t \in Servers : ctr'[t] = "up" => ctr[t] = "up"
BY DEF TakeDown, Disturbed, WorldTyped

\* A deployment that ends has replaced the status.
LEMMA SettlingEnds ==
  ASSUME DbTyped, JobTyped, ControlTyped, NEW p \in Procs, Errand(p), Step(p),
         Settling(p)
  PROVE  \/ Settling(p)'
         \/ /\ app'.status # "stopped"
            /\ pc'[p] \notin {"exec", "setStatus"}
            /\ Begin(p) \/ Work(p)
<1> USE DEF Settling, Goto, ControlTyped, JobTyped
<1>0. \A s : UpdateStatus(s) => app'.status \in {s, "absent"}
  BY DEF UpdateStatus, DbTyped, Row, Exists
<1>1. CASE Request(p)
  BY <1>1 DEF Request, Create, Operate, DeployByGit, ClearDeployments,
              DeployWebRead, PatchRead, EditRead, NewRequest
<1>2. CASE Handle(p)
  BY <1>2 DEF Handle, BusyCheck, DeployWebMark, PatchWrite, GetRoutes,
              PutRoutes, EditWrite, EditGetRoutes, EditPutRoutes, Job, Errand
<1>3. CASE Begin(p)
  BY <1>3 DEF Begin, BeginDeploy, BeginRedeploy, BeginRollback, BeginStopStart,
              BeginUndeploy, BeginMove, Acquire, Enter, GiveUp, Return, db,
              Exists
<1>4. CASE DeployFinish(p)
  BY <1>0, <1>4 DEF Work, DeployStep, DeployFinish
<1>5. CASE DeployFailStatus(p)
  BY <1>0, <1>5 DEF Work, DeployStep, DeployFailStatus, DeployReturns, Release
<1>6. CASE DeployRead(p)
  BY <1>6 DEF Work, DeployStep, DeployRead, Release, db, Exists
<1>7. CASE Work(p) /\ ~DeployFinish(p) /\ ~DeployFailStatus(p) /\ ~DeployRead(p)
  BY <1>7 DEF Work, DeployStep, MoveStep, OtherStep, DeployMark, DeployDown,
     DeployUp, DeployRoute, DeployRecord, DeployFailRecord, MoveMark, CopyOpen,
     CopyDown, CopyTar, CopyRestart, MoveFail, MoveFailRecord, MoveRead,
     MoveSave, GetRoutes, PutRoutes, MoveCheck, CleanupFromServer, MoveRecord,
     RollbackSave, StopStartExec, StopStartStatus, UndeployRemote, Forget
<1>8. QED
  BY <1>1, <1>2, <1>3, <1>4, <1>5, <1>6, <1>7 DEF Step

\* A handler that writes the row will deploy; the others touch nothing.
LEMMA HandlersDeploy ==
  ASSUME NoDrafts, JobTyped, ControlTyped, NEW p \in Procs, Errand(p), Course(p),
         Carries(p), Request(p) \/ Handle(p)
  PROVE  UNCHANGED app \/ Settling(p)'
<1> USE DEF Settling, Goto, ControlTyped, JobTyped, db
<1>1. CASE Create(p)
  <2>1. \A draft \in Drafts : draft = FALSE
    BY DEF NoDrafts
  <2>2. pc'[p] = "lock" /\ job' = [job EXCEPT ![p].op = "deploy"]
    BY <1>1, <2>1 DEF Create
  <2>3. QED
    BY <2>2 DEF Job
<1>2. CASE Request(p) /\ ~Create(p)
  BY <1>2 DEF Request, Operate, DeployByGit, ClearDeployments, DeployWebRead,
              PatchRead, EditRead
<1>3. CASE DeployWebMark(p)
  BY <1>3 DEF DeployWebMark, Course
<1>4. CASE PatchWrite(p)
  BY <1>4 DEF PatchWrite, Errand, Carries, ReadPCs
<1>5. CASE EditWrite(p)
  BY <1>5 DEF EditWrite, Errand, Carries, ReadPCs
<1>6. CASE Handle(p) /\ ~DeployWebMark(p) /\ ~PatchWrite(p) /\ ~EditWrite(p)
  BY <1>6 DEF Handle, BusyCheck, GetRoutes, PutRoutes, EditGetRoutes,
              EditPutRoutes
<1>7. QED
  BY <1>1, <1>2, <1>3, <1>4, <1>5, <1>6

\* As long as nobody deploys, only Stop and Start change the status, each after
\* its command.
LEMMA HaltedWork ==
  ASSUME BaseInv, PlacedInv, NEW p \in Procs, Errand(p), Work(p),
         ~Settling(p), Halted
  PROVE  Halted'
<1>0. /\ DbTyped /\ WorldTyped /\ JobTyped /\ ControlTyped
      /\ Course(p) /\ Carries(p) /\ Attends(p)
  BY BaseParts DEF PlacedInv
<1>1. \A q \in Procs \ {p} : pc'[q] = pc[q] /\ pc[q] \notin OpPCs
  <2>1. pc[p] \in OpPCs
    BY WorkControl
  <2>2. QED
    BY <1>0, <2>1, BaseParts, Locality
    DEF Step, LockOwner, InOperation, ControlTyped, JobTyped
<1>2. \A q \in Procs \ {p} : pc'[q] \notin {"exec", "setStatus"}
  BY <1>1, OpLabels
<1>3. /\ pc[p] = "exec" => At(p) = app.server
      /\ pc[p] = "setStatus" /\ job[p].op = "stop" => ctr[app.server] # "up"
      /\ app.status = "stopped" => \/ ctr[app.server] # "up"
                                   \/ pc[p] = "setStatus" /\ job[p].op = "start"
  BY <1>1, OpLabels DEF Halted
<1>4. SUFFICES
        /\ pc'[p] # "exec"
        /\ pc'[p] = "setStatus" /\ job'[p].op = "stop"
             => ctr'[app'.server] # "up"
        /\ app'.status = "stopped"
             => \/ ctr'[app'.server] # "up"
                \/ pc'[p] = "setStatus" /\ job'[p].op = "start"
  BY <1>2 DEF Halted
<1>5. app.status # "absent" => app.server \in Servers
  BY DEF PlacedInv, Placed, Exists
<1> USE <1>0 DEF Goto, ControlTyped, JobTyped
<1>6. CASE DeployRecord(p)
  BY <1>3, <1>6 DEF DeployRecord, DeployReturns, Release, world
<1>7. CASE DeployStep(p) /\ ~DeployRecord(p)
  BY <1>7 DEF DeployStep, DeployMark, DeployRead, DeployDown, DeployUp,
     DeployRoute, DeployFinish, DeployFailRecord, DeployFailStatus, Settling
<1>8. CASE MoveCheck(p)
  BY <1>3, <1>8 DEF MoveCheck, Release, db, world
<1>9. CASE CleanupFromServer(p)
  <2>1. \A t \in Servers : ctr'[t] = "up" => ctr[t] = "up"
    BY <1>9, TakeDownStops DEF CleanupFromServer, world
  <2>2. pc[p] = "cleanup" /\ UNCHANGED app /\ pc'[p] \in {"moveLog", "idle"}
    BY <1>9 DEF CleanupFromServer, CleanupReturns, Release, db
  <2>3. QED
    BY <1>3, <1>5, <2>1, <2>2
<1>10. CASE MoveStep(p) /\ ~MoveCheck(p) /\ ~CleanupFromServer(p)
  <2>1. pc[p] \in CopyPCs
    BY <1>10 DEF MoveStep, MoveMark, CopyOpen, CopyDown, CopyTar, CopyRestart,
       MoveFail, MoveFailRecord, MoveRead, MoveSave, GetRoutes, PutRoutes,
       MoveRecord, CopyPCs
  <2>2. QED
    BY <2>1 DEF Course, Errand
<1>11. CASE StopStartExec(p)
  <2>1. /\ pc[p] = "exec" /\ UNCHANGED app
        /\ app.server \in Servers /\ At(p) = app.server
        /\ app.status = "stopped" => ctr[app.server] # "up"
    BY <1>3, <1>5, <1>11, OpLabels DEF StopStartExec, Attends, Exists, db
  <2>2. CASE Release(p) /\ ctr' = ctr
    BY <2>1, <2>2 DEF Release
  <2>3. CASE Release(p) /\ ctr' = [ctr EXCEPT ![At(p)] = Disturbed(@)]
    BY <2>1, <2>3 DEF Release, Disturbed, WorldTyped
  <2>4. CASE /\ Goto(p, "setStatus") /\ UNCHANGED job
             /\ job[p].op = "stop"
             /\ ctr' = [ctr EXCEPT ![At(p)] = IF @ = "none" THEN "none"
                                                            ELSE "stopped"]
    BY <2>1, <2>4 DEF WorldTyped
  <2>5. CASE Goto(p, "setStatus") /\ UNCHANGED job /\ job[p].op # "stop"
    BY <2>1, <2>5 DEF Course
  <2>6. QED
    BY <1>11, <2>2, <2>3, <2>4, <2>5 DEF StopStartExec
<1>12. CASE StopStartStatus(p)
  <2>1. /\ pc[p] = "setStatus" /\ Release(p) /\ UNCHANGED ctr
        /\ UpdateStatus(IF job[p].op = "stop" THEN "stopped" ELSE "running")
    BY <1>12 DEF StopStartStatus, world
  <2>2. Exists
    BY <2>1, OpLabels DEF Attends
  <2>3. /\ app'.server = app.server
        /\ app'.status = IF job[p].op = "stop" THEN "stopped" ELSE "running"
    BY <2>1, <2>2 DEF UpdateStatus, DbTyped, Row
  <2>4. QED
    BY <1>3, <2>1, <2>3 DEF Release
<1>13. CASE UndeployRemote(p)
  <2>1. \A t \in Servers : ctr'[t] = "up" => ctr[t] = "up"
    BY <1>13, TakeDownStops DEF UndeployRemote
  <2>2. pc[p] = "remote" /\ UNCHANGED app /\ pc'[p] = "forget"
    BY <1>13 DEF UndeployRemote, db
  <2>3. QED
    BY <1>3, <1>5, <2>1, <2>2
<1>14. CASE Forget(p)
  BY <1>14 DEF Forget, Release, NoApp
<1>15. CASE RollbackSave(p)
  BY <1>15 DEF RollbackSave, Settling
<1>16. QED
  BY <1>6, <1>7, <1>8, <1>9, <1>10, <1>11, <1>12, <1>13, <1>14, <1>15
  DEF Work, OtherStep

\* Outside the operations nothing happens to it either.
LEMMA HaltedOutside ==
  ASSUME BaseInv, NEW p \in Procs, Request(p) \/ Handle(p) \/ Begin(p),
         UNCHANGED <<app, ctr>>, Halted
  PROVE  Halted'
<1>0. DbTyped /\ JobTyped /\ ControlTyped
  BY BaseParts
<1>1. \A q \in Procs \ {p} : pc'[q] = pc[q] /\ job'[q] = job[q]
  BY <1>0, Locality DEF Step, ControlTyped, JobTyped
<1>2. pc[p] \notin OpPCs
  BY OutsideControl, BeginControl, OpLabels, Labels
<1>3. /\ pc'[p] # "setStatus"
      /\ pc'[p] = "exec" => job'[p].row = app
  <2>1. CASE Request(p) \/ Handle(p)
    BY <1>0, <1>2, <2>1, OutsideControl, OpLabels DEF Goto, ControlTyped
  <2>2. CASE BeginStopStart(p)
    BY <1>0, <2>2 DEF BeginStopStart, Enter, GiveUp, Return, Goto,
       ControlTyped, JobTyped, Job
  <2>3. CASE Begin(p) /\ ~BeginStopStart(p)
    BY <1>0, <2>3 DEF Begin, BeginDeploy, BeginRedeploy, BeginRollback,
       BeginUndeploy, BeginMove, Enter, GiveUp, Return, Goto, ControlTyped
  <2>4. QED
    BY <2>1, <2>2, <2>3
<1>4. \A q \in Procs : pc'[q] = "exec" => At(q)' = app'.server
  BY <1>1, <1>3 DEF Halted, At
<1>5. \A q \in Procs : pc'[q] = "setStatus" /\ job'[q].op = "stop"
                         => ctr'[app'.server] # "up"
  BY <1>1, <1>3 DEF Halted
<1>6. app'.status = "stopped"
        => \/ ctr'[app'.server] # "up"
           \/ \E q \in Procs : pc'[q] = "setStatus" /\ job'[q].op = "start"
  BY <1>1, <1>2, OpLabels DEF Halted
<1>7. QED
  BY <1>4, <1>5, <1>6 DEF Halted

\* DownInv is inductive as long as the controller does not restart.
LEMMA DownStep ==
  ASSUME NoDrafts, NoFileMoves, MaxCrashes = 0
  PROVE  BaseInv /\ PlacedInv /\ StatusInv /\ DownInv /\ [Next]_vars => DownInv'
<1> SUFFICES ASSUME BaseInv, PlacedInv, StatusInv, DownInv, [Next]_vars
             PROVE  DownInv'
  OBVIOUS
<1>0. /\ DbTyped /\ JobTyped /\ ControlTyped /\ crashes \in Nat /\ LockOwner
      /\ \A p \in Procs : Course(p) /\ Carries(p) /\ Attends(p) /\ Errand(p)
  BY BaseParts DEF PlacedInv, StatusInv
<1>1. ASSUME NEW p \in Procs, Step(p) PROVE DownInv'
  <2>1. \A q \in Procs \ {p} : pc'[q] = pc[q] /\ job'[q] = job[q]
    BY <1>0, <1>1, Locality DEF ControlTyped, JobTyped
  <2>2. ASSUME NEW q \in Procs \ {p}, Settling(q) PROVE Settling(q)'
    BY <2>1, <2>2 DEF Settling
  <2>3. CASE Settling(p)
    <3>1. CASE Settling(p)'
      BY <3>1 DEF DownInv
    <3>2. CASE /\ app'.status # "stopped"
               /\ pc'[p] \notin {"exec", "setStatus"}
               /\ Begin(p) \/ Work(p)
      <4>1. \A q \in Procs \ {p} : pc[q] \notin OpPCs
        BY <1>0, <3>2, BeginControl, WorkControl, ConstantsAssumption
        DEF LockOwner, InOperation
      <4>2. \A q \in Procs : pc'[q] \notin {"exec", "setStatus"}
        BY <2>1, <3>2, <4>1, OpLabels
      <4>3. QED
        BY <3>2, <4>2 DEF DownInv, Halted
    <3>3. QED
      BY <1>0, <1>1, <2>3, <3>1, <3>2, SettlingEnds
  <2>4. CASE Halted /\ ~Settling(p)
    <3>1. CASE Work(p)
      BY <1>0, <2>4, <3>1, HaltedWork DEF DownInv
    <3>2. CASE Begin(p)
      <4>1. UNCHANGED <<app, ctr>>
        BY <3>2, BeginControl DEF db, world
      <4>2. QED
        BY <2>4, <3>2, <4>1, HaltedOutside DEF DownInv
    <3>3. CASE Request(p) \/ Handle(p)
      <4>1. UNCHANGED ctr
        BY <3>3, OutsideControl DEF world
      <4>2. UNCHANGED app \/ Settling(p)'
        BY <1>0, <3>3, HandlersDeploy
      <4>3. QED
        BY <2>4, <3>3, <4>1, <4>2, HaltedOutside DEF DownInv
    <3>4. QED
      BY <1>1, <3>1, <3>2, <3>3 DEF Step
  <2>5. QED
    BY <2>2, <2>3, <2>4 DEF DownInv
<1>2. ~Restart
  BY <1>0 DEF Restart
<1>3. CASE UNCHANGED vars
  BY <1>3 DEF vars, db, world, proc, DownInv, Halted, Settling, At
<1>4. QED
  BY <1>1, <1>2, <1>3 DEF Next, Step

\* With any number of workers, requests and failures, moves without files
\* included, a stopped app is down when everybody has returned: a request that
\* lost a race to Stop deploys, and then the status says so.
THEOREM StoppedAppIsDown ==
  ASSUME NoDrafts, NoFileMoves, MaxCrashes = 0
  PROVE  Spec => []StoppedMeansDown
<1>1. Init => BaseInv /\ PlacedInv /\ StatusInv /\ DownInv
  <2>1. Init => StatusInv /\ DownInv
    BY DEF Init, StatusInv, Errand, NoApp, NoJob, DownInv, Halted
  <2>2. QED
    BY <2>1, BaseInit, PlacedInit
<1>2. BaseInv /\ PlacedInv /\ StatusInv /\ DownInv /\ [Next]_vars
        => (BaseInv /\ PlacedInv /\ StatusInv /\ DownInv)'
  BY BaseStep, PlacedInvStep, StatusStep, DownStep DEF NoFileMoves, BaseInv
<1>3. BaseInv /\ PlacedInv /\ StatusInv /\ DownInv => StoppedMeansDown
  BY DEF StoppedMeansDown, DownInv, Halted, Quiescent, Settling
<1>4. QED
  BY <1>1, <1>2, <1>3, PTL DEF Spec

---------------------------------------------------------------------------
(* One worker that can be reached: Undeploy leaves nothing running.        *)

Gone(s) == ctr[s] \in {"none", "unknown"}

\* Without its folder the app does not run, and Undeploy deletes the row only
\* when nothing runs.
LeftInv ==
  /\ \A s \in Servers : disk[s] = None => Gone(s)
  /\ (~Exists \/ \E p \in Procs : pc[p] = "forget")
       => \A s \in Servers : Gone(s)

\* `down --volumes` and the removal of the folder, or their failure.
LEMMA TakeDownLeaves ==
  ASSUME WorldTyped, NEW s \in Servers, NEW doms, TakeDown(s, TRUE, doms),
         \A t \in Servers : disk[t] = None => Gone(t)
  PROVE  ctr'[s] \in {"none", "unknown"}
BY DEF TakeDown, Disturbed, Gone, WorldTyped

\* No command starts containers in a worker without the app's folder.
LEMMA FolderWork ==
  ASSUME OneWorker, BaseInv, PlacedInv, NEW p \in Procs, Work(p),
         \A s \in Servers : disk[s] = None => Gone(s)
  PROVE  \A s \in Servers : disk'[s] = None => Gone(s)'
<1>0. /\ WorldTyped /\ JobTyped /\ ControlTyped /\ Course(p) /\ Carries(p)
  BY BaseParts DEF PlacedInv
<1>1. pc[p] \in HeldPCs => At(p) \in Servers /\ \A s \in Servers : s = At(p)
  BY <1>0 DEF Carries, Placed, At, OneWorker
<1>2. ASSUME UNCHANGED <<disk, ctr>>
      PROVE  \A s \in Servers : disk'[s] = None => Gone(s)'
  BY <1>2 DEF Gone
<1> USE DEF HeldPCs, RowPCs, BoundPCs, Gone, WorldTyped
<1>3. CASE DeployDown(p)
  BY <1>0, <1>1, <1>3 DEF DeployDown, Disturbed
<1>4. CASE DeployUp(p)
  <2>1. pc[p] = "up"
    BY <1>4 DEF DeployUp
  <2>2. job[p].row.compose # None
    BY <1>0, <2>1, ConstantsAssumption DEF Course
  <2>3. \/ UNCHANGED <<disk, ctr>>
        \/ disk' = [disk EXCEPT ![At(p)] = job[p].row.compose]
    BY <1>4 DEF DeployUp, world
  <2>4. QED
    BY <1>0, <1>1, <1>2, <2>1, <2>2, <2>3
<1>5. CASE StopStartExec(p)
  BY <1>0, <1>1, <1>5 DEF StopStartExec, Disturbed
<1>6. CASE UndeployRemote(p)
  BY <1>0, <1>1, <1>6, TakeDownLeaves DEF UndeployRemote
<1>7. CASE MoveStep(p)
  <2>1. pc[p] \in CopyPCs \cup {"moveCheck", "cleanup"}
    BY <1>7 DEF MoveStep, MoveMark, CopyOpen, CopyDown, CopyTar, CopyRestart,
       MoveFail, MoveFailRecord, MoveRead, MoveSave, GetRoutes, PutRoutes,
       MoveCheck, CleanupFromServer, MoveRecord, CopyPCs
  <2>2. QED
    BY <1>0, <2>1, NoMoves
<1>8. CASE UNCHANGED world
  BY <1>2, <1>8 DEF world
<1>9. QED
  BY <1>2, <1>3, <1>4, <1>5, <1>6, <1>7, <1>8
  DEF Work, DeployStep, OtherStep, DeployMark, DeployRead, DeployRoute,
      DeployFinish, DeployRecord, DeployFailRecord, DeployFailStatus,
      RollbackSave, StopStartStatus, Forget

\* An operation that goes on to delete the row has been to the worker.
LEMMA LeftWork ==
  ASSUME OneWorker, BaseInv, PlacedInv, LeftInv, NEW p \in Procs, Work(p),
         ~Exists' \/ \E q \in Procs : pc'[q] = "forget"
  PROVE  \A s \in Servers : Gone(s)'
<1>0. /\ DbTyped /\ WorldTyped /\ JobTyped /\ ControlTyped /\ Course(p)
      /\ Carries(p) /\ Attends(p)
  BY BaseParts DEF PlacedInv
<1>1. pc[p] \in OpPCs
  BY WorkControl
<1>2. \A q \in Procs \ {p} : pc'[q] # "forget"
  <2>1. \A q \in Procs \ {p} : pc'[q] = pc[q] /\ pc[q] \notin OpPCs
    BY <1>0, <1>1, BaseParts, Locality
    DEF Step, LockOwner, InOperation, ControlTyped, JobTyped
  <2>2. QED
    BY <2>1, OpLabels
<1>3. CASE UndeployRemote(p)
  <2>1. pc[p] = "remote" /\ TakeDown(At(p), TRUE, routes)
    BY <1>3 DEF UndeployRemote
  <2>2. At(p) \in Servers /\ \A s \in Servers : s = At(p)
    BY <1>0, <2>1 DEF Carries, HeldPCs, Placed, At, OneWorker
  <2>3. ctr'[At(p)] \in {"none", "unknown"}
    BY <1>0, <2>1, <2>2, TakeDownLeaves DEF LeftInv
  <2>4. QED
    BY <2>2, <2>3 DEF Gone
<1>4. CASE Forget(p)
  <2>1. \A s \in Servers : Gone(s)
    BY <1>4 DEF Forget, LeftInv
  <2>2. QED
    BY <1>4, <2>1 DEF Forget, Gone, world
<1>5. CASE ~UndeployRemote(p) /\ ~Forget(p)
  <2>1. pc'[p] # "forget"
    BY <1>0, <1>5 DEF Work, DeployStep, MoveStep, OtherStep, DeployMark,
      DeployRead, DeployDown, DeployUp, DeployRoute, DeployFinish, DeployRecord,
      DeployFailRecord, DeployFailStatus, DeployReturns, MoveMark, CopyOpen,
      CopyDown, CopyTar, CopyRestart, MoveFail, MoveFailRecord, MoveRead,
      MoveSave, GetRoutes, PutRoutes, MoveCheck, CleanupFromServer,
      CleanupReturns, MoveRecord, RollbackSave, StopStartExec, StopStartStatus,
      Release, Goto, ControlTyped
  <2>2. ~Exists'
    BY <1>2, <2>1
  <2>3. ~Create(p)
    BY <1>1, OpLabels DEF Create, NewRequest
  <2>4. ~Exists
    BY <1>0, <1>5, <2>2, <2>3, AppKept DEF Step
  <2>5. pc[p] \in {"mark", "read"}
    BY <1>0, <1>1, <2>4 DEF Attends
  <2>6. UNCHANGED ctr
    BY <2>5 DEF Work, DeployStep, MoveStep, OtherStep, DeployMark, DeployRead,
      DeployDown, DeployUp, DeployRoute, DeployFinish, DeployRecord,
      DeployFailRecord, DeployFailStatus, MoveMark, CopyOpen, CopyDown, CopyTar,
      CopyRestart, MoveFail, MoveFailRecord, MoveRead, MoveSave, GetRoutes,
      PutRoutes, MoveCheck, CleanupFromServer, MoveRecord, RollbackSave,
      StopStartExec, StopStartStatus, UndeployRemote, Forget, world
  <2>7. QED
    BY <2>4, <2>6 DEF LeftInv, Gone
<1>6. QED
  BY <1>3, <1>4, <1>5

\* LeftInv is inductive: a worker that can be reached is never skipped.
LEMMA LeftStep ==
  ASSUME OneWorker, NoDrafts, "connect" \notin Faults
  PROVE  BaseInv /\ PlacedInv /\ LeftInv /\ [Next]_vars => LeftInv'
<1> SUFFICES ASSUME BaseInv, PlacedInv, LeftInv, [Next]_vars PROVE LeftInv'
  OBVIOUS
<1>0. /\ DbTyped /\ WorldTyped /\ JobTyped /\ ControlTyped /\ LockOwner
      /\ \A p \in Procs : Course(p) /\ Carries(p) /\ Attends(p)
  BY BaseParts DEF PlacedInv
<1>1. ASSUME NEW p \in Procs, Work(p) PROVE LeftInv'
  BY <1>1, FolderWork, LeftWork DEF LeftInv
<1>2. ASSUME NEW p \in Procs, Request(p) \/ Handle(p) \/ Begin(p) PROVE LeftInv'
  <2>1. UNCHANGED world
    BY <1>2, OutsideControl, BeginControl
  <2>2. Exists => Exists'
    <3>1. CASE Create(p)
      BY <3>1 DEF Create, Exists
    <3>2. CASE ~Create(p)
      <4>1. ~Forget(p)
        BY <1>2, OutsideControl, BeginControl, OpLabels, Labels DEF Forget
      <4>2. QED
        BY <1>0, <1>2, <3>2, <4>1, AppKept DEF Step
    <3>3. QED
      BY <3>1, <3>2
  <2>3. pc'[p] # "forget"
    <3>1. CASE Request(p) \/ Handle(p)
      BY <1>0, <3>1, OutsideControl, OpLabels DEF Goto, ControlTyped
    <3>2. CASE BeginUndeploy(p)
      <4>1. ~(Exists /\ (app.status = "draft" \/ app.server = None
                          \/ MayFail("connect")))
        BY ConstantsAssumption DEF PlacedInv, Placed, MayFail
      <4>2. QED
        BY <1>0, <3>2, <4>1 DEF BeginUndeploy, Enter, GiveUp, Return, Goto,
           ControlTyped
    <3>3. CASE Begin(p) /\ ~BeginUndeploy(p)
      BY <1>0, <3>3 DEF Begin, BeginDeploy, BeginRedeploy, BeginRollback,
         BeginStopStart, BeginMove, Enter, GiveUp, Return, Goto, ControlTyped
    <3>4. QED
      BY <1>2, <3>1, <3>2, <3>3
  <2>4. \A q \in Procs \ {p} : pc'[q] = pc[q]
    BY <1>0, <1>2, Locality DEF Step, ControlTyped, JobTyped
  <2>5. QED
    BY <2>1, <2>2, <2>3, <2>4 DEF LeftInv, Gone, world
<1>3. CASE Restart
  <2>1. \A s \in Servers : ctr'[s] \in {ctr[s], "unknown"}
    BY <1>3 DEF Restart
  <2>2. UNCHANGED disk /\ (Exists => Exists')
    BY <1>0, <1>3 DEF Restart, FailInterrupted, Exists, DbTyped, Row
  <2>3. \A p \in Procs : pc'[p] = "idle"
    BY <1>3 DEF Restart
  <2>4. QED
    BY <2>1, <2>2, <2>3 DEF LeftInv, Gone
<1>4. CASE UNCHANGED vars
  BY <1>4 DEF vars, db, world, proc, LeftInv, Gone, Exists
<1>5. QED
  BY <1>1, <1>2, <1>3, <1>4 DEF Next

\* On one worker that can be reached, for any number of racing requests,
\* failing commands and restarts: when the app has been deleted and everybody
\* has returned, none of its containers is known to run.
THEOREM UndeployLeavesNothing ==
  ASSUME OneWorker, NoDrafts, "connect" \notin Faults
  PROVE  Spec => []NothingLeft
<1>1. Init => BaseInv /\ PlacedInv /\ LeftInv
  BY BaseInit, PlacedInit DEF Init, LeftInv, Gone
<1>2. BaseInv /\ PlacedInv /\ LeftInv /\ [Next]_vars
        => (BaseInv /\ PlacedInv /\ LeftInv)'
  BY BaseStep, PlacedInvStep, LeftStep
<1>3. BaseInv /\ PlacedInv /\ LeftInv => NothingLeft
  BY DEF LeftInv, NothingLeft, Gone
<1>4. QED
  BY <1>1, <1>2, <1>3, PTL DEF Spec

---------------------------------------------------------------------------
(* One request at a time: drafts, moves and what they leave behind.  All   *)
(* commands may fail, files may be moved, the controller may restart.      *)

OneProcess == \A p, q \in Procs : p = q

SpawnPCs  == {"patchGetRoutes", "patchPutRoutes", "editGetRoutes",
              "editPutRoutes", "lock"}
SourcePCs == {"moveMark", "copyOpen", "copyDown", "copyTar", "copyRestart",
              "moveFail", "moveFailLog", "moveRead", "moveSave"}
TargetPCs == {"mark", "read", "down", "up", "route", "running", "logSuccess",
              "failed", "logFailed", "logFirst", "failLast", "moveGetRoutes",
              "movePutRoutes", "moveCheck", "cleanup", "moveLog"}
MarkedPCs == {"read", "down", "up", "route", "running", "failed", "logFirst",
              "failLast", "copyOpen", "copyDown", "copyTar", "copyRestart",
              "moveFail", "moveRead", "moveSave", "moveGetRoutes",
              "movePutRoutes"}

Blank  == \A s \in Servers : ctr[s] = "none" /\ disk[s] = None
UpHere == ctr[app.server] = "up" /\ disk[app.server] # None

\* What a Patch or an edit read is still the row; what it spawns finds the app
\* on the server the operation expects.
Intends(p) ==
  /\ pc[p] \in ReadPCs =>
       /\ job[p].row.status = app.status
       /\ job[p].from = app.server
       /\ job[p].op = "none" <=> app.status = "draft"
       /\ job[p].op = "move" => job[p].row.server = app.server
       /\ job[p].op = "moveNoFiles" => job[p].row.server = job[p].to
       /\ job[p].op = "redeploy" => app.server \in {None, job[p].row.server}
  /\ pc[p] \in SpawnPCs =>
       /\ job[p].op = "none" => app.status = "draft"
       /\ job[p].op = "move" => app.status # "draft" /\ app.server = job[p].from
       /\ job[p].op = "moveNoFiles" => app.server = job[p].to

\* Until MoveApp has stored the new server the row names the source, which
\* still has the folder.
Stays(p) ==
  /\ pc[p] \in SourcePCs => /\ app.server = job[p].from
                            /\ app.status # "draft"
                            /\ job[p].prev # "draft"
  /\ pc[p] = "moveSave" => job[p].row = [app EXCEPT !.server = job[p].to]
  /\ pc[p] \in {"copyTar", "moveRead", "moveSave"} => disk[job[p].from] # None

\* From then on the row names the target; "running" is stored, and the source
\* cleaned up, only when the app is up there.
Arrives(p) ==
  /\ pc[p] \in TargetPCs /\ job[p].op \in Moves => app.server = job[p].to
  /\ pc[p] \in MarkedPCs /\ Exists => app.status = "deploying"
  /\ pc[p] \in BoundPCs => At(p) = app.server /\ app.server \in Servers
  /\ pc[p] \in {"route", "running", "logSuccess", "cleanup"} => UpHere
  /\ pc[p] \in {"logSuccess", "cleanup"} => app.status = "running"
  /\ pc[p] = "logFailed" => app.status = "failed"
  /\ pc[p] = "moveCheck" => /\ app.status = "running" => UpHere
                            /\ app.status # "draft"

\* The other operations work on the row as it is.
Tends(p) ==
  /\ pc[p] \in {"exec", "setStatus"} => At(p) = app.server /\ app.server \in Servers
  /\ pc[p] = "remote" => app.status # "draft" /\ job[p].op = "undeploy"
  /\ pc[p] = "rollbackSave" => /\ job[p].op = "rollback"
                               /\ job[p].row.status = app.status
                               /\ At(p) = app.server

Holding(p) == Intends(p) /\ Stays(p) /\ Arrives(p) /\ Tends(p)

HoldingInv == /\ requests = 0 \/ app.status = "draft" => Blank
              /\ \A p \in Procs : Holding(p)

\* A process that has returned holds nothing.
LEMMA ReturnedHolds ==
  ASSUME NEW p \in Procs, pc'[p] = "idle"
  PROVE  Holding(p)'
BY DEF Holding, Intends, Stays, Arrives, Tends, ReadPCs, SpawnPCs, SourcePCs,
       TargetPCs, MarkedPCs, BoundPCs

\* A request reads the row.
LEMMA RequestHolds ==
  ASSUME DbTyped, JobTyped, ControlTyped, NEW p \in Procs, Holding(p), Request(p)
  PROVE  Holding(p)'
<1> USE DEF Holding, Intends, Stays, Arrives, Tends, ReadPCs, SpawnPCs,
            SourcePCs, TargetPCs, MarkedPCs, BoundPCs, Goto, ControlTyped,
            JobTyped, db
<1>1. CASE Create(p)
  BY <1>1, ReturnedHolds DEF Create, NewRequest, Job, proc
<1>2. ASSUME NEW kind \in {"redeploy", "rollback", "stop", "start", "undeploy"},
             Operate(p, kind)
      PROVE  Holding(p)'
  BY <1>2 DEF Operate, Job
<1>3. CASE DeployByGit(p)
  BY <1>3 DEF DeployByGit, Job
<1>4. CASE ClearDeployments(p)
  BY <1>4, ReturnedHolds DEF ClearDeployments, NewRequest, proc
<1>5. CASE DeployWebRead(p)
  BY <1>5 DEF DeployWebRead
<1>6. CASE PatchRead(p) \/ EditRead(p)
  BY <1>6, ReadRemembers DEF Remembers, SpawnedOp, Moves
<1>7. QED
  BY <1>1, <1>2, <1>3, <1>4, <1>5, <1>6 DEF Request

\* A handler stores the row it read and leaves the rest to the operation.
LEMMA HandleHolds ==
  ASSUME DbTyped, JobTyped, ControlTyped, NEW p \in Procs, Course(p), Holding(p),
         Attends(p), Handle(p)
  PROVE  Holding(p)'
<1> USE DEF Holding, Intends, Stays, Arrives, Tends, ReadPCs, SpawnPCs,
            SourcePCs, TargetPCs, MarkedPCs, BoundPCs, Goto, ControlTyped,
            JobTyped, db, Return
<1>1. CASE \/ BusyCheck(p, "deployCheck", "deployMark")
           \/ BusyCheck(p, "patchCheck", "patchWrite")
           \/ BusyCheck(p, "editCheck", "editWrite")
  BY <1>1 DEF BusyCheck
<1>2. CASE DeployWebMark(p)
  BY <1>2 DEF DeployWebMark, Course
<1>3. CASE PatchWrite(p)
  <2>1. pc[p] = "patchWrite" /\ Update(job[p].row)
    BY <1>3 DEF PatchWrite
  <2>2. app' = job[p].row
    BY <2>1 DEF Update, Exists, Attends, RowPCs
  <2>3. \/ pc'[p] = "idle"
        \/ /\ job'[p] = job[p]
           /\ \/ pc'[p] = "lock" /\ job[p].op # "moveNoFiles"
              \/ pc'[p] = "patchGetRoutes" /\ job[p].op = "moveNoFiles"
    BY <1>3 DEF PatchWrite
  <2>4. QED
    BY <2>1, <2>2, <2>3, ReturnedHolds DEF Course
<1>4. CASE EditWrite(p)
  <2>1. pc[p] = "editWrite" /\ Update(job[p].row)
    BY <1>4 DEF EditWrite
  <2>2. app' = job[p].row
    BY <2>1 DEF Update, Exists, Attends, RowPCs
  <2>3. pc'[p] = "editGetRoutes" /\ job'[p] = job[p]
    BY <1>4 DEF EditWrite
  <2>4. QED
    BY <2>1, <2>2, <2>3 DEF Course
<1>5. CASE GetRoutes(p, "patchGetRoutes", "patchPutRoutes")
  BY <1>5 DEF GetRoutes, Job
<1>6. CASE PutRoutes(p, "patchPutRoutes", "lock")
  BY <1>6 DEF PutRoutes
<1>7. CASE EditGetRoutes(p)
  BY <1>7 DEF EditGetRoutes, Job
<1>8. CASE EditPutRoutes(p)
  BY <1>8 DEF EditPutRoutes, Job
<1>9. QED
  BY <1>1, <1>2, <1>3, <1>4, <1>5, <1>6, <1>7, <1>8 DEF Handle

\* An operation starts from the row.
LEMMA BeginHolds ==
  ASSUME DbTyped, JobTyped, ControlTyped, NEW p \in Procs, Course(p), Holding(p),
         Begin(p)
  PROVE  Holding(p)'
<1> USE DEF Holding, Intends, Stays, Arrives, Tends, ReadPCs, SpawnPCs,
            SourcePCs, TargetPCs, MarkedPCs, BoundPCs, Goto, ControlTyped,
            JobTyped, db, Return, Acquire, Enter, GiveUp, At
<1>1. CASE BeginDeploy(p)
  BY <1>1 DEF BeginDeploy, Moves
<1>2. CASE BeginRedeploy(p)
  BY <1>2 DEF BeginRedeploy, Moves
<1>3. CASE BeginRollback(p)
  <2>1. CASE Exists /\ snapshot # None
    <3>1. job'[p] = [job[p] EXCEPT !.row = [app EXCEPT !.compose = snapshot]]
      BY <1>3, <2>1 DEF BeginRollback
    <3>2. /\ job'[p].row = [app EXCEPT !.compose = snapshot]
          /\ job'[p].op = job[p].op
      BY <3>1 DEF Job
    <3>3. pc'[p] = "rollbackSave" /\ job[p].op = "rollback" /\ UNCHANGED app
      BY <1>3, <2>1 DEF BeginRollback
    <3>4. QED
      BY <3>2, <3>3 DEF DbTyped, Row
  <2>2. QED
    BY <1>3, <2>1 DEF BeginRollback
<1>4. CASE BeginStopStart(p)
  BY <1>4 DEF BeginStopStart, Job, DbTyped, Row
<1>5. CASE BeginUndeploy(p)
  BY <1>5 DEF BeginUndeploy, Job
<1>6. CASE BeginMove(p)
  <2>1. CASE Exists
    <3>1. job'[p] = [job[p] EXCEPT !.row = app, !.prev = app.status]
      BY <1>6, <2>1 DEF BeginMove
    <3>2. pc'[p] = "moveMark" /\ job[p].op = "move" /\ UNCHANGED app
      BY <1>6, <2>1 DEF BeginMove
    <3>3. job'[p].from = job[p].from /\ job'[p].prev = app.status
      BY <3>1 DEF Job
    <3>4. pc[p] = "lock"
      BY <1>6 DEF BeginMove
    <3>5. QED
      BY <3>2, <3>3, <3>4
  <2>2. QED
    BY <1>6, <2>1 DEF BeginMove
<1>7. QED
  BY <1>1, <1>2, <1>3, <1>4, <1>5, <1>6 DEF Begin

\* A deployment holds on to the server it read,
LEMMA DeployHolds ==
  ASSUME DbTyped, WorldTyped, JobTyped, ControlTyped, NEW p \in Procs,
         Course(p), Holding(p), Attends(p), DeployStep(p)
  PROVE  Holding(p)'
<1>0. \A s : UpdateStatus(s)
               => /\ app'.server = app.server
                  /\ app'.status = IF Exists THEN s ELSE app.status
  BY DEF UpdateStatus, DbTyped, Row
<1>1. /\ app.server \in Servers \cup {None}
      /\ pc[p] \in BoundPCs \cup {"logFirst", "failLast"} => Exists
  BY OpLabels DEF DbTyped, Row, Attends, BoundPCs
<1> USE ReturnedHolds, <1>1
    DEF Holding, Intends, Stays, Arrives, Tends, ReadPCs, SpawnPCs,
        SourcePCs, TargetPCs, MarkedPCs, BoundPCs, Goto, ControlTyped,
        JobTyped, WorldTyped, At, UpHere
<1>2. CASE DeployMark(p)
  BY <1>0, <1>2 DEF DeployMark, Exists
<1>3. CASE DeployRead(p)
  BY <1>3 DEF DeployRead, Release, db, Job, Exists
<1>4. CASE DeployDown(p)
  BY <1>4 DEF DeployDown, db, Exists
<1>5. CASE DeployUp(p)
  <2>1. /\ pc[p] = "up" /\ UNCHANGED <<app, job>>
        /\ job[p].row.compose # None /\ job[p].row.compose \in Composes
    BY <1>5, ConstantsAssumption DEF DeployUp, db, Course
  <2>2. \/ pc'[p] = "logFirst"
        \/ /\ pc'[p] = "route"
           /\ disk' = [disk EXCEPT ![At(p)] = job[p].row.compose]
           /\ ctr' = [ctr EXCEPT ![At(p)] = "up"]
    BY <1>5 DEF DeployUp
  <2>3. QED
    BY <2>1, <2>2 DEF Exists
<1>6. CASE DeployRoute(p)
  BY <1>6 DEF DeployRoute, db, Exists
<1>7. CASE DeployFinish(p)
  BY <1>0, <1>7 DEF DeployFinish, world, Exists
<1>8. CASE DeployRecord(p)
  BY <1>8 DEF DeployRecord, DeployReturns, Release, world
<1>9. CASE DeployFailRecord(p)
  BY <1>9 DEF DeployFailRecord, Exists
<1>10. CASE DeployFailStatus(p)
  BY <1>0, <1>10 DEF DeployFailStatus, DeployReturns, Release, Exists
<1>11. QED
  BY <1>2, <1>3, <1>4, <1>5, <1>6, <1>7, <1>8, <1>9, <1>10 DEF DeployStep

\* a move on to the source and then to the target,
LEMMA MoveHolds ==
  ASSUME DbTyped, WorldTyped, JobTyped, ControlTyped, NEW p \in Procs,
         Course(p), Holding(p), Attends(p), MoveStep(p)
  PROVE  Holding(p)'
<1>0. \A s : UpdateStatus(s)
               => /\ app'.server = app.server
                  /\ app'.status = IF Exists THEN s ELSE app.status
  BY DEF UpdateStatus, DbTyped, Row
<1>1. /\ app.server \in Servers \cup {None}
      /\ pc[p] \in SourcePCs \cup {"moveGetRoutes", "movePutRoutes",
                                   "moveCheck", "cleanup"} => Exists
      /\ pc[p] \in SourcePCs => job[p].op = "move" /\ Apart(p)
      /\ pc[p] \in {"moveCheck", "cleanup"} => job[p].op \in Moves
  BY OpLabels DEF DbTyped, Row, Attends, SourcePCs, Course, CopyPCs, Moves
<1> USE ReturnedHolds, <1>1
    DEF Holding, Intends, Stays, Arrives, Tends, ReadPCs, SpawnPCs,
        SourcePCs, TargetPCs, MarkedPCs, BoundPCs, Goto, ControlTyped,
        JobTyped, WorldTyped, Apart
<1>2. CASE MoveMark(p)
  BY <1>0, <1>2 DEF MoveMark, Exists
<1>3. CASE CopyOpen(p)
  <2>1. ~NothingToCopy(p)
    BY <1>3, ConstantsAssumption DEF CopyOpen, NothingToCopy
  <2>2. QED
    BY <1>3, <2>1 DEF CopyOpen, db, Exists
<1>4. CASE CopyDown(p)
  BY <1>4 DEF CopyDown, db, Exists
<1>5. CASE CopyTar(p)
  <2>1. /\ pc[p] = "copyTar" /\ UNCHANGED <<app, job>>
        /\ disk'[job[p].from] = disk[job[p].from]
        /\ pc'[p] \in {"moveRead", "copyRestart"}
    BY <1>5 DEF CopyTar, db
  <2>2. QED
    BY <2>1 DEF Exists
<1>6. CASE CopyRestart(p)
  BY <1>6 DEF CopyRestart, db, Exists
<1>7. CASE MoveFail(p)
  BY <1>0, <1>7 DEF MoveFail
<1>8. CASE MoveFailRecord(p) \/ MoveRecord(p)
  BY <1>8 DEF MoveFailRecord, MoveRecord, Release
<1>9. CASE MoveRead(p)
  <2>1. /\ pc[p] = "moveRead" /\ pc'[p] = "moveSave" /\ UNCHANGED <<app, disk>>
        /\ job' = [job EXCEPT ![p].row = [app EXCEPT !.server = job[p].to]]
    BY <1>9 DEF MoveRead, db, world
  <2>2. /\ job'[p].row = [app EXCEPT !.server = job[p].to]
        /\ job'[p].from = job[p].from /\ job'[p].to = job[p].to
        /\ job'[p].prev = job[p].prev
    BY <2>1 DEF Job
  <2>3. QED
    BY <2>1, <2>2 DEF Exists
<1>10. CASE MoveSave(p)
  <2>1. /\ pc[p] = "moveSave" /\ UNCHANGED <<job, disk>>
        /\ \/ Update(job[p].row) /\ pc'[p] = "moveGetRoutes"
           \/ UNCHANGED app /\ pc'[p] = "copyRestart"
    BY <1>10 DEF MoveSave, world
  <2>2. CASE UNCHANGED app /\ pc'[p] = "copyRestart"
    BY <2>1, <2>2 DEF Exists
  <2>3. CASE Update(job[p].row) /\ pc'[p] = "moveGetRoutes"
    <3>1. app' = [app EXCEPT !.server = job[p].to]
      BY <2>1, <2>3 DEF Update
    <3>2. app'.server = job[p].to /\ app'.status = "deploying"
      BY <2>1, <3>1 DEF DbTyped, Row
    <3>3. QED
      BY <2>1, <2>3, <3>2
  <2>4. QED
    BY <2>1, <2>2, <2>3
<1>11. CASE GetRoutes(p, "moveGetRoutes", "movePutRoutes")
  BY <1>11 DEF GetRoutes, db, Job, Exists
<1>12. CASE PutRoutes(p, "movePutRoutes", "mark")
  BY <1>12 DEF PutRoutes
<1>13. CASE MoveCheck(p)
  BY <1>13 DEF MoveCheck, Release, db, world, UpHere
<1>14. CASE CleanupFromServer(p)
  BY <1>14 DEF CleanupFromServer, CleanupReturns, Release, db, Exists
<1>15. QED
  BY <1>2, <1>3, <1>4, <1>5, <1>6, <1>7, <1>8, <1>9, <1>10, <1>11, <1>12,
     <1>13, <1>14 DEF MoveStep

\* and the others on to the row.
LEMMA OtherHolds ==
  ASSUME DbTyped, JobTyped, ControlTyped, NEW p \in Procs,
         Course(p), Holding(p), Attends(p), OtherStep(p)
  PROVE  Holding(p)'
<1> USE ReturnedHolds
    DEF Holding, Intends, Stays, Arrives, Tends, ReadPCs, SpawnPCs,
        SourcePCs, TargetPCs, MarkedPCs, BoundPCs, Goto, ControlTyped,
        JobTyped, At, Release
<1>1. CASE RollbackSave(p)
  <2>1. /\ pc[p] = "rollbackSave" /\ pc'[p] = "mark" /\ UNCHANGED job
        /\ Update(job[p].row)
    BY <1>1 DEF RollbackSave
  <2>2. app' = job[p].row
    BY <2>1, OpLabels DEF Update, Attends
  <2>3. app'.server = app.server
    BY <2>1, <2>2
  <2>4. QED
    BY <2>1, <2>3 DEF Moves
<1>2. CASE StopStartExec(p)
  <2>1. \/ pc'[p] = "idle"
        \/ pc[p] = "exec" /\ pc'[p] = "setStatus" /\ UNCHANGED <<app, job>>
    BY <1>2 DEF StopStartExec, db
  <2>2. QED
    BY <2>1
<1>3. CASE StopStartStatus(p) \/ Forget(p)
  BY <1>3 DEF StopStartStatus, Forget
<1>4. CASE UndeployRemote(p)
  BY <1>4 DEF UndeployRemote
<1>5. QED
  BY <1>1, <1>2, <1>3, <1>4 DEF OtherStep

\* An app is a draft only because it was created as one.
LEMMA DraftFromDraft ==
  ASSUME DbTyped, NEW p \in Procs, Holding(p), Step(p), ~Create(p),
         app'.status = "draft"
  PROVE  app.status = "draft"
<1>0. \A s : UpdateStatus(s) /\ s # "draft" => app.status = "draft"
  BY DEF UpdateStatus, Exists, DbTyped, Row
<1>1. \A row : Update(row) /\ row.status = app.status => app.status = "draft"
  BY DEF Update
<1> USE DEF Holding, Intends, Stays, Arrives, Tends
<1>2. CASE Request(p)
  BY <1>2 DEF Request, Operate, DeployByGit, ClearDeployments, DeployWebRead,
     PatchRead, EditRead, db
<1>3. CASE Handle(p)
  BY <1>0, <1>1, <1>3 DEF Handle, BusyCheck, DeployWebMark, PatchWrite,
     GetRoutes, PutRoutes, EditWrite, EditGetRoutes, EditPutRoutes, db, ReadPCs
<1>4. CASE Begin(p)
  BY <1>4, BeginControl DEF db
<1>5. CASE DeployStep(p)
  BY <1>0, <1>5 DEF DeployStep, DeployMark, DeployRead, DeployDown, DeployUp,
     DeployRoute, DeployFinish, DeployRecord, DeployFailRecord,
     DeployFailStatus, db
<1>6. CASE MoveSave(p)
  <2>1. pc[p] = "moveSave" /\ (Update(job[p].row) \/ UNCHANGED app)
    BY <1>6 DEF MoveSave
  <2>2. job[p].row = [app EXCEPT !.server = job[p].to]
    BY <2>1
  <2>3. job[p].row.status = app.status
    BY <2>2 DEF DbTyped, Row
  <2>4. QED
    BY <1>1, <2>1, <2>3
<1>7. CASE MoveStep(p) /\ ~MoveSave(p)
  BY <1>0, <1>7 DEF MoveStep, MoveMark, CopyOpen, CopyDown, CopyTar,
     CopyRestart, MoveFail, MoveFailRecord, MoveRead, GetRoutes, PutRoutes,
     MoveCheck, CleanupFromServer, MoveRecord, db, SourcePCs
<1>8. CASE OtherStep(p)
  <2>1. CASE RollbackSave(p)
    BY <1>1, <2>1 DEF RollbackSave
  <2>2. CASE StopStartStatus(p)
    BY <1>0, <2>2 DEF StopStartStatus
  <2>3. CASE Forget(p)
    BY <2>3 DEF Forget, NoApp
  <2>4. CASE StopStartExec(p) \/ UndeployRemote(p)
    BY <2>4 DEF StopStartExec, UndeployRemote, db
  <2>5. QED
    BY <1>8, <2>1, <2>2, <2>3, <2>4 DEF OtherStep
<1>9. QED
  BY <1>2, <1>3, <1>4, <1>5, <1>6, <1>7, <1>8 DEF Step, Work

\* No command does anything for a draft.
LEMMA DraftWork ==
  ASSUME WorldTyped, NEW p \in Procs, Course(p), Holding(p), Attends(p), Work(p),
         app.status = "draft", Blank
  PROVE  Blank'
<1>0. /\ pc[p] \notin {"down", "up", "copyDown", "copyTar", "copyRestart",
                       "cleanup", "remote"}
      /\ pc[p] = "exec" => At(p) \in Servers
  BY OpLabels DEF Holding, Stays, Arrives, Tends, MarkedPCs, Exists
<1>1. CASE StopStartExec(p)
  <2>1. /\ UNCHANGED disk
        /\ disk[At(p)] = None
        /\ UNCHANGED ctr \/ ctr' = [ctr EXCEPT ![At(p)] = Disturbed(@)]
    BY <1>0, <1>1 DEF StopStartExec, Blank
  <2>2. QED
    BY <2>1 DEF Blank, Disturbed, WorldTyped
<1>2. CASE Work(p) /\ ~StopStartExec(p)
  <2>1. UNCHANGED <<ctr, disk>>
    BY <1>0, <1>2 DEF Work, DeployStep, MoveStep, OtherStep, DeployMark,
       DeployRead, DeployDown, DeployUp, DeployRoute, DeployFinish,
       DeployRecord, DeployFailRecord, DeployFailStatus, MoveMark, CopyOpen,
       CopyDown, CopyTar, CopyRestart, MoveFail, MoveFailRecord, MoveRead,
       MoveSave, GetRoutes, PutRoutes, MoveCheck, CleanupFromServer,
       MoveRecord, RollbackSave, StopStartStatus, UndeployRemote, Forget, world
  <2>2. QED
    BY <2>1 DEF Blank
<1>3. QED
  BY <1>1, <1>2

\* HoldingInv is inductive, restarts included.
LEMMA HoldingStep ==
  ASSUME OneProcess
  PROVE  BaseInv /\ HoldingInv /\ [Next]_vars => HoldingInv'
<1> SUFFICES ASSUME BaseInv, HoldingInv, [Next]_vars PROVE HoldingInv'
  OBVIOUS
<1>0. /\ DbTyped /\ WorldTyped /\ JobTyped /\ ControlTyped /\ requests \in Nat
      /\ \A p \in Procs : Course(p) /\ Holding(p) /\ Attends(p)
      /\ requests = 0 => \A p \in Procs : pc[p] = "idle"
  BY BaseParts DEF HoldingInv, BaseInv, LifeInv
<1>1. ASSUME NEW p \in Procs, Step(p) PROVE HoldingInv'
  <2>1. Holding(p)'
    BY <1>0, <1>1, RequestHolds, HandleHolds, BeginHolds, DeployHolds,
       MoveHolds, OtherHolds DEF Step, Work
  <2>2. (requests = 0 \/ app.status = "draft" => Blank)'
    <3>1. CASE Create(p)
      BY <3>1 DEF Create, HoldingInv, Blank, world
    <3>2. CASE Request(p) /\ ~Create(p)
      <4>1. requests' = requests + 1
        BY <3>2 DEF Request, Operate, DeployByGit, ClearDeployments,
           DeployWebRead, PatchRead, EditRead, NewRequest
      <4>2. app'.status = "draft" => app.status = "draft"
        BY <1>0, <1>1, <3>2, DraftFromDraft
      <4>3. QED
        BY <1>0, <3>2, <4>1, <4>2, OutsideControl DEF HoldingInv, Blank, world
    <3>3. CASE Handle(p) \/ Begin(p) \/ Work(p)
      <4>1. UNCHANGED requests
        BY <3>3, RequestsKept
      <4>2. pc[p] # "idle"
        BY <3>3, WorkControl, BeginControl, OpLabels, Labels
        DEF Handle, BusyCheck, DeployWebMark, PatchWrite, GetRoutes,
            PutRoutes, EditWrite, EditGetRoutes, EditPutRoutes
      <4>3. requests # 0
        BY <1>0, <4>2
      <4>4. app'.status = "draft" => app.status = "draft"
        <5>1. ~Create(p)
          BY <4>2 DEF Create, NewRequest
        <5>2. QED
          BY <1>0, <1>1, <5>1, DraftFromDraft
      <4>5. app.status = "draft" => Blank'
        <5>1. CASE Work(p)
          BY <1>0, <5>1, DraftWork DEF HoldingInv
        <5>2. CASE Handle(p) \/ Begin(p)
          BY <5>2, OutsideControl, BeginControl DEF HoldingInv, Blank, world
        <5>3. QED
          BY <3>3, <5>1, <5>2
      <4>6. QED
        BY <4>1, <4>3, <4>4, <4>5
    <3>4. QED
      BY <1>1, <3>1, <3>2, <3>3 DEF Step
  <2>3. \A q \in Procs : q = p
    BY DEF OneProcess
  <2>4. QED
    BY <2>1, <2>2, <2>3 DEF HoldingInv
<1>2. CASE Restart
  <2>1. \A p \in Procs : Holding(p)'
    <3>1. \A p \in Procs : pc'[p] = "idle"
      BY <1>2 DEF Restart
    <3>2. QED
      BY <3>1, ReturnedHolds
  <2>2. app'.status = "draft" => app.status = "draft"
    BY <1>0, <1>2 DEF Restart, FailInterrupted, DbTyped, Row
  <2>3. ASSUME requests = 0 \/ app.status = "draft", NEW s \in Servers
        PROVE  ~InUse(s)
    <3>1. Blank
      BY <2>3 DEF HoldingInv
    <3>2. \A p \in Procs : pc[p] \notin {"up", "copyRestart"}
      <4>1. CASE requests = 0
        BY <1>0, <4>1
      <4>2. CASE app.status = "draft"
        BY <1>0, <4>2 DEF Holding, Arrives, MarkedPCs, Exists
      <4>3. QED
        BY <2>3, <4>1, <4>2
    <3>3. QED
      BY <3>1, <3>2 DEF InUse, Blank
  <2>4. requests = 0 \/ app.status = "draft" => Blank'
    BY <1>2, <2>3 DEF Restart, HoldingInv, Blank
  <2>5. UNCHANGED requests
    BY <1>2 DEF Restart
  <2>6. QED
    BY <2>1, <2>2, <2>4, <2>5 DEF HoldingInv
<1>3. CASE UNCHANGED vars
  BY <1>3 DEF vars, db, world, proc, bound, HoldingInv, Blank, Holding, Intends,
     Stays, Arrives, Tends, At, UpHere, Exists
<1>4. QED
  BY <1>1, <1>2, <1>3 DEF Next, Step

\* Nobody holds anything at first.
LEMMA HoldingInit == Init => HoldingInv
<1>1. ASSUME Init, NEW p \in Procs PROVE Holding(p)
  BY <1>1 DEF Init, Holding, Intends, Stays, Arrives, Tends, ReadPCs,
     SpawnPCs, SourcePCs, TargetPCs, MarkedPCs, BoundPCs
<1>2. QED
  BY <1>1 DEF Init, HoldingInv, Blank

\* Both hold in every behaviour.
LEMMA HoldingHolds ==
  ASSUME OneProcess
  PROVE  Spec => [](BaseInv /\ HoldingInv)
<1>1. Init => BaseInv /\ HoldingInv
  BY BaseInit, HoldingInit
<1>2. BaseInv /\ HoldingInv /\ [Next]_vars => (BaseInv /\ HoldingInv)'
  BY BaseStep, HoldingStep
<1>3. QED
  BY <1>1, <1>2, PTL DEF Spec

\* Requests that do not overlap, with every failure and restart: a draft has no
\* containers anywhere, so Undeploy may skip the workers.
THEOREM DraftsHaveNothing ==
  ASSUME OneProcess
  PROVE  Spec => []DraftHasNothing
<1>1. BaseInv /\ HoldingInv => DraftHasNothing
  BY DEF HoldingInv, Blank, DraftHasNothing
<1>2. QED
  BY <1>1, HoldingHolds, PTL

\* What removes the app's folder from a worker: a copy that fails, on the
\* target; the cleanup after a move, on the source; Undeploy.
LEMMA FolderLost ==
  ASSUME BaseInv, HoldingInv, NEW p \in Procs, Work(p), NEW s \in Servers,
         disk[s] # None, pc[p] # "remote"
  PROVE  \E t \in Servers : disk'[t] # None
<1>0. WorldTyped /\ Course(p) /\ Holding(p)
  BY BaseParts DEF HoldingInv
<1>1. CASE DeployUp(p)
  <2>1. At(p) \in Servers /\ job[p].row.compose # None
    BY <1>0, <1>1, ConstantsAssumption
    DEF DeployUp, Holding, Arrives, Course, BoundPCs
  <2>2. UNCHANGED disk \/ disk' = [disk EXCEPT ![At(p)] = job[p].row.compose]
    BY <1>1 DEF DeployUp, world
  <2>3. QED
    BY <1>0, <2>1, <2>2 DEF WorldTyped
<1>2. CASE CopyTar(p)
  <2>1. /\ Apart(p) /\ disk[job[p].from] # None
    BY <1>0, <1>2 DEF CopyTar, Course, CopyPCs, Moves, Holding, Stays
  <2>2. disk'[job[p].from] = disk[job[p].from]
    BY <1>0, <1>2, <2>1 DEF CopyTar, WorldTyped, Apart
  <2>3. QED
    BY <2>1, <2>2 DEF Apart
<1>3. CASE CleanupFromServer(p)
  <2>1. /\ Apart(p) /\ app.server = job[p].to /\ disk[app.server] # None
    BY <1>0, <1>3
    DEF CleanupFromServer, Course, Holding, Arrives, TargetPCs, UpHere
  <2>2. disk'[app.server] = disk[app.server]
    BY <1>0, <1>3, <2>1
    DEF CleanupFromServer, TakeDown, WorldTyped, Apart, world
  <2>3. QED
    BY <2>1, <2>2 DEF Apart
<1>4. CASE Work(p) /\ ~DeployUp(p) /\ ~CopyTar(p) /\ ~CleanupFromServer(p)
  <2>1. UNCHANGED disk
    BY <1>4 DEF Work, DeployStep, MoveStep, OtherStep, DeployMark, DeployRead,
       DeployDown, DeployRoute, DeployFinish, DeployRecord, DeployFailRecord,
       DeployFailStatus, MoveMark, CopyOpen, CopyDown, CopyRestart, MoveFail,
       MoveFailRecord, MoveRead, MoveSave, GetRoutes, PutRoutes, MoveCheck,
       MoveRecord, RollbackSave, StopStartExec, StopStartStatus,
       UndeployRemote, Forget, world
  <2>2. QED
    BY <2>1
<1>5. QED
  BY <1>1, <1>2, <1>3, <1>4

\* Under the same condition no move, purge, failure or restart takes the app's
\* folder from the last worker that has it.
THEOREM FolderIsKept ==
  ASSUME OneProcess
  PROVE  Spec => FolderSurvives
<1>1. ASSUME BaseInv, HoldingInv, [Next]_vars
      PROVE  /\ \E s \in Servers : disk[s] # None
             /\ \A p \in Procs : pc[p] # "remote"
             => \E s \in Servers : disk'[s] # None
  <2> SUFFICES ASSUME NEW s \in Servers, disk[s] # None,
                      \A p \in Procs : pc[p] # "remote"
               PROVE  \E t \in Servers : disk'[t] # None
    OBVIOUS
  <2>1. ASSUME NEW p \in Procs, Step(p)
        PROVE  \E t \in Servers : disk'[t] # None
    <3>1. CASE Work(p)
      BY <1>1, <3>1, FolderLost
    <3>2. CASE Request(p) \/ Handle(p) \/ Begin(p)
      BY <3>2, OutsideControl, BeginControl DEF world
    <3>3. QED
      BY <2>1, <3>1, <3>2 DEF Step
  <2>2. CASE Restart \/ UNCHANGED vars
    BY <2>2 DEF Restart, vars, world
  <2>3. QED
    BY <1>1, <2>1, <2>2 DEF Next, Step
<1>2. QED
  BY <1>1, HoldingHolds, PTL DEF Spec, FolderSurvives

\* Under the same condition MoveWithoutFiles touches the old server only when
\* the app is up on the new one.
THEOREM OldServerIsSpared ==
  ASSUME OneProcess
  PROVE  Spec => OldServerUntouched
<1>1. ASSUME BaseInv, HoldingInv, [Next]_vars
      PROVE  \A p \in Procs :
               /\ job[p].op = "moveNoFiles" /\ lock = p /\ crashes' = crashes
               /\ \/ ctr'[job[p].from] # ctr[job[p].from]
                  \/ disk'[job[p].from] # disk[job[p].from]
               => app.status = "running" /\ ctr[app.server] = "up"
  <2> SUFFICES
        ASSUME NEW p \in Procs,
               job[p].op = "moveNoFiles", lock = p, crashes' = crashes,
               \/ ctr'[job[p].from] # ctr[job[p].from]
               \/ disk'[job[p].from] # disk[job[p].from]
        PROVE  app.status = "running" /\ ctr[app.server] = "up"
    OBVIOUS
  <2>0. /\ WorldTyped /\ crashes \in Nat /\ Course(p) /\ Holding(p)
    BY <1>1, BaseParts DEF HoldingInv
  <2>1. PICK q \in Procs : Step(q)
    BY <1>1, <2>0 DEF Next, Step, Restart, vars, world
  <2>2. Step(p)
    BY <2>1 DEF OneProcess
  <2>3. Work(p)
    BY <2>2, OutsideControl, BeginControl DEF Step, world
  <2>4. Apart(p)
    BY <2>0 DEF Course, Moves
  <2>5. pc[p] \in TargetPCs => app.server = job[p].to
    BY <2>0 DEF Holding, Arrives, Moves
  <2>6. CASE DeployDown(p)
    <3>1. At(p) = job[p].to
      BY <2>0, <2>5, <2>6
      DEF DeployDown, TargetPCs, Holding, Arrives, BoundPCs
    <3>2. QED
      BY <2>0, <2>4, <2>6, <3>1 DEF DeployDown, Apart, WorldTyped
  <2>7. CASE DeployUp(p)
    <3>1. At(p) = job[p].to
      BY <2>0, <2>5, <2>7
      DEF DeployUp, TargetPCs, Holding, Arrives, BoundPCs
    <3>2. QED
      BY <2>0, <2>4, <2>7, <3>1 DEF DeployUp, Apart, WorldTyped, world
  <2>8. CASE CleanupFromServer(p)
    BY <2>0, <2>8 DEF CleanupFromServer, Holding, Arrives, UpHere
  <2>9. pc[p] \notin CopyPCs \cup {"exec", "remote"}
    BY <2>0 DEF Course, Holding, Tends
  <2>10. CASE ~DeployDown(p) /\ ~DeployUp(p) /\ ~CleanupFromServer(p)
    <3>1. UNCHANGED <<ctr, disk>>
      BY <2>3, <2>9, <2>10
      DEF CopyPCs, Work, DeployStep, MoveStep, OtherStep, DeployMark, DeployRead,
       DeployRoute, DeployFinish, DeployRecord, DeployFailRecord,
       DeployFailStatus, MoveMark, CopyOpen, CopyDown, CopyTar, CopyRestart,
       MoveFail, MoveFailRecord, MoveRead, MoveSave, GetRoutes, PutRoutes,
       MoveCheck, MoveRecord, RollbackSave, StopStartExec, StopStartStatus,
       UndeployRemote, Forget, world
    <3>2. QED
      BY <3>1
  <2>11. QED
    BY <2>6, <2>7, <2>8, <2>10
<1>2. QED
  BY <1>1, HoldingHolds, PTL DEF Spec, OldServerUntouched

---------------------------------------------------------------------------
(* The same without restarts, and a source that comes up again when it is  *)
(* told to: "running" is true.                                             *)

Up(s) == ctr[s] \in {"up", "unknown"}

\* The next statement on the row takes "running" away.
Leaving(p) ==
  \/ pc[p] = "forget"
  \/ pc[p] = "setStatus" /\ job[p].op = "stop"
  \/ pc[p] \in SpawnPCs \cup {"mark"} /\ job[p].op = "moveNoFiles"

Trusted(p) == app.status = "running" => /\ app.server \in Servers
                                        /\ Up(app.server) \/ Leaving(p)

\* A status about to be stored is true: the one a failed move restores, and
\* that of a Start.
Restores(p) ==
  /\ pc[p] \in {"moveMark", "copyOpen", "copyDown", "moveFail", "moveFailLog"}
       => (job[p].prev = "running" => Up(job[p].from))
  /\ pc[p] = "copyRestart" => \/ job[p].prev = "running" => Up(job[p].from)
                              \/ disk[job[p].from] # None
  /\ pc[p] = "setStatus" /\ job[p].op = "start" => Up(app.server)

\* (An app that runs was deployed by some process.)
TrustInv == /\ app.status = "running" => Procs # {}
            /\ \A p \in Procs : Trusted(p) /\ Restores(p)

\* Nothing but the labels changes for an app nobody is leaving.
LEMMA TrustKept ==
  ASSUME NEW p \in Procs, Trusted(p), ~Leaving(p) \/ Leaving(p)',
         UNCHANGED <<app, ctr>>
  PROVE  Trusted(p)'
BY DEF Trusted, Up

\* Requests and handlers,
LEMMA OutsideTrust ==
  ASSUME DbTyped, JobTyped, ControlTyped, NEW p \in Procs, Course(p), Holding(p),
         Attends(p), Trusted(p), Request(p) \/ Handle(p)
  PROVE  Trusted(p)' /\ Restores(p)'
<1>0. /\ UNCHANGED ctr
      /\ pc'[p] \notin OpPCs
  BY OutsideControl, OpLabels, Labels DEF world, Goto, ControlTyped
<1>1. Restores(p)'
  BY <1>0, OpLabels DEF Restores
<1> USE DEF Goto, ControlTyped, JobTyped, Leaving, SpawnPCs, db
<1>2. CASE Create(p)
  BY <1>1, <1>2 DEF Create, Trusted
<1>3. CASE Request(p) /\ ~Create(p)
  <2>1. pc[p] = "idle" /\ UNCHANGED app
    BY <1>3 DEF Request, Operate, DeployByGit, ClearDeployments, DeployWebRead,
       PatchRead, EditRead, NewRequest
  <2>2. QED
    BY <1>0, <1>1, <2>1, TrustKept
<1>4. CASE DeployWebMark(p)
  BY <1>1, <1>4 DEF DeployWebMark, UpdateStatus, Exists, DbTyped, Row, Trusted
<1>5. CASE PatchWrite(p) \/ EditWrite(p)
  <2>1. /\ pc[p] \in ReadPCs /\ Update(job[p].row)
        /\ \/ job[p].op = "none"
           \/ pc'[p] \in SpawnPCs /\ job'[p] = job[p]
    BY <1>5 DEF PatchWrite, EditWrite, ReadPCs
  <2>2. /\ app' = job[p].row
        /\ job[p].row.status = app.status
        /\ job[p].op = "none" => app.status = "draft"
        /\ job[p].op \in {"none", "redeploy"} \cup Moves
        /\ job[p].op = "move" => job[p].row.server = app.server
        /\ job[p].op = "redeploy" => app.server \in {None, job[p].row.server}
        /\ job[p].op = "moveNoFiles" => /\ job[p].row.server = job[p].to
                                        /\ job[p].to \in Servers
    BY <2>1 DEF Update, Exists, Attends, RowPCs, ReadPCs, Holding, Intends,
                Course, Apart, Moves
  <2>3. ~Leaving(p)
    BY <2>1 DEF ReadPCs
  <2>4. CASE job[p].op = "moveNoFiles"
    BY <1>1, <2>1, <2>2, <2>4 DEF Trusted
  <2>5. CASE job[p].op # "moveNoFiles"
    BY <1>0, <1>1, <2>2, <2>3, <2>5, ConstantsAssumption DEF Trusted, Up, Moves
  <2>6. QED
    BY <2>4, <2>5
<1>6. CASE Handle(p) /\ ~DeployWebMark(p) /\ ~PatchWrite(p) /\ ~EditWrite(p)
  <2>1. UNCHANGED app
    BY <1>6 DEF Handle, BusyCheck, GetRoutes, PutRoutes, EditGetRoutes,
       EditPutRoutes
  <2>2. ~Leaving(p) \/ Leaving(p)'
    BY <1>6 DEF Handle, BusyCheck, GetRoutes, PutRoutes, EditGetRoutes,
       EditPutRoutes, Job
  <2>3. QED
    BY <1>0, <1>1, <2>1, <2>2, TrustKept
<1>7. QED
  BY <1>2, <1>3, <1>4, <1>5, <1>6

\* the start of an operation,
LEMMA BeginTrust ==
  ASSUME DbTyped, JobTyped, ControlTyped, NEW p \in Procs, Holding(p),
         Trusted(p), Begin(p)
  PROVE  Trusted(p)' /\ Restores(p)'
<1>0. pc[p] = "lock" /\ UNCHANGED <<app, ctr>>
  BY BeginControl DEF db, world
<1> USE DEF Goto, ControlTyped, JobTyped, Leaving, SpawnPCs, Acquire, Enter,
            GiveUp, Return
<1>1. CASE BeginDeploy(p)
  BY <1>0, <1>1, TrustKept DEF BeginDeploy, Restores
<1>2. CASE BeginMove(p)
  <2>1. job[p].op = "move"
    BY <1>2 DEF BeginMove
  <2>2. Trusted(p)'
    BY <1>0, <2>1, TrustKept
  <2>3. CASE ~Exists
    BY <1>2, <2>2, <2>3 DEF BeginMove, Restores
  <2>4. CASE Exists
    <3>1. /\ pc'[p] = "moveMark"
          /\ job'[p] = [job[p] EXCEPT !.row = app, !.prev = app.status]
      BY <1>2, <2>4 DEF BeginMove
    <3>2. job'[p].from = job[p].from /\ job'[p].prev = app.status
      BY <3>1 DEF Job
    <3>3. app.server = job[p].from
      BY <1>0, <2>1 DEF Holding, Intends
    <3>4. QED
      BY <1>0, <2>1, <2>2, <3>1, <3>2, <3>3 DEF Trusted, Restores, Up
  <2>5. QED
    BY <2>3, <2>4
<1>3. CASE Begin(p) /\ ~BeginDeploy(p) /\ ~BeginMove(p)
  <2>1. /\ job[p].op # "moveNoFiles"
        /\ pc'[p] \in {"idle", "mark", "rollbackSave", "exec", "remote", "forget"}
    BY <1>3 DEF Begin, BeginRedeploy, BeginRollback, BeginStopStart,
       BeginUndeploy
  <2>2. QED
    BY <1>0, <2>1, TrustKept DEF Restores
<1>4. QED
  BY <1>1, <1>2, <1>3

\* a deployment,
LEMMA DeployTrust ==
  ASSUME DbTyped, WorldTyped, JobTyped, ControlTyped, NEW p \in Procs,
         Course(p), Holding(p), Attends(p), Trusted(p), DeployStep(p)
  PROVE  Trusted(p)' /\ Restores(p)'
<1>0. \A s : UpdateStatus(s)
               => /\ app'.server = app.server
                  /\ app'.status = IF Exists THEN s ELSE app.status
  BY DEF UpdateStatus, DbTyped, Row
<1>1. Restores(p)'
  <2>1. pc'[p] \in {"idle", "moveCheck", "read", "down", "up", "route", "running",
                    "failed", "logSuccess", "logFailed", "logFirst", "failLast"}
    BY DEF DeployStep, DeployMark, DeployRead, DeployDown, DeployUp, DeployRoute,
       DeployFinish, DeployRecord, DeployFailRecord, DeployFailStatus,
       DeployReturns, Release, Goto, ControlTyped
  <2>2. QED
    BY <2>1 DEF Restores
<1> USE DEF Leaving, SpawnPCs, Holding, Arrives, MarkedPCs, BoundPCs
<1>2. CASE DeployMark(p)
  BY <1>0, <1>1, <1>2 DEF DeployMark, Trusted, Exists
<1>3. CASE DeployRead(p) \/ DeployDown(p) \/ DeployUp(p) \/ DeployRoute(p)
           \/ DeployFailRecord(p)
  <2>1. UNCHANGED app /\ app.status # "running"
    BY <1>3 DEF DeployRead, DeployDown, DeployUp, DeployRoute,
       DeployFailRecord, db, Exists
  <2>2. QED
    BY <1>1, <2>1 DEF Trusted
<1>4. CASE DeployFinish(p)
  <2>1. pc[p] \in {"running", "failed"} /\ UpdateStatus(pc[p]) /\ UNCHANGED ctr
    BY <1>4 DEF DeployFinish, world
  <2>2. QED
    BY <1>0, <1>1, <2>1 DEF Trusted, Up, UpHere
<1>5. CASE DeployRecord(p)
  <2>1. pc[p] \in {"logSuccess", "logFailed"} /\ UNCHANGED <<app, ctr>>
    BY <1>5 DEF DeployRecord, world
  <2>2. QED
    BY <1>1, <2>1, TrustKept
<1>6. CASE DeployFailStatus(p)
  <2>1. pc[p] = "failLast" /\ UpdateStatus("failed")
    BY <1>6 DEF DeployFailStatus
  <2>2. Exists
    BY <2>1, OpLabels DEF Attends
  <2>3. QED
    BY <1>0, <1>1, <2>1, <2>2 DEF Trusted
<1>7. QED
  BY <1>2, <1>3, <1>4, <1>5, <1>6 DEF DeployStep

\* a move, which brings the source up again when it fails,
LEMMA MoveTrust ==
  ASSUME "restart" \notin Faults, DbTyped, WorldTyped, JobTyped, ControlTyped,
         NEW p \in Procs, Course(p), Holding(p), Attends(p), Trusted(p),
         Restores(p), MoveStep(p)
  PROVE  Trusted(p)' /\ Restores(p)'
<1>0. \A s : UpdateStatus(s)
               => /\ app'.server = app.server
                  /\ app'.status = IF Exists THEN s ELSE app.status
  BY DEF UpdateStatus, DbTyped, Row
<1>1. /\ pc[p] \in SourcePCs \cup {"moveGetRoutes", "movePutRoutes"} => Exists
      /\ pc[p] \in SourcePCs => app.server = job[p].from /\ Apart(p)
  BY OpLabels DEF Attends, SourcePCs, Course, CopyPCs, Moves, Holding, Stays
<1>2. pc[p] \in {"copyOpen", "copyDown", "copyTar", "copyRestart", "moveFail",
                 "moveRead", "moveSave", "moveGetRoutes", "movePutRoutes"}
        => app.status = "deploying"
  BY <1>1 DEF Holding, Arrives, MarkedPCs, SourcePCs
<1> USE DEF Goto, ControlTyped, JobTyped, WorldTyped, SourcePCs
<1>3. ASSUME app'.status # "running" PROVE Trusted(p)'
  BY <1>3 DEF Trusted
<1>4. CASE MoveMark(p)
  BY <1>0, <1>1, <1>3, <1>4 DEF MoveMark, Restores, Up, world
<1>5. CASE CopyOpen(p)
  BY <1>2, <1>3, <1>5 DEF CopyOpen, Restores, Up, db, world
<1>6. CASE CopyDown(p)
  <2>1. /\ pc[p] = "copyDown" /\ UNCHANGED <<app, job, disk>>
        /\ \/ pc'[p] = "copyTar"
           \/ pc'[p] = "copyRestart" /\ UNCHANGED ctr
           \/ /\ pc'[p] = "copyRestart"
              /\ ctr' = [ctr EXCEPT ![job[p].from] = Disturbed(@)]
    BY <1>6 DEF CopyDown, db
  <2>2. QED
    BY <1>1, <1>2, <1>3, <2>1 DEF Restores, Up, Disturbed, Apart
<1>7. CASE CopyTar(p)
  <2>1. /\ pc[p] = "copyTar" /\ UNCHANGED <<app, job, ctr>>
        /\ pc'[p] \in {"moveRead", "copyRestart"}
    BY <1>7 DEF CopyTar, db
  <2>2. disk'[job[p].from] = disk[job[p].from]
    BY <1>1, <1>7, <2>1 DEF CopyTar, Apart
  <2>3. disk[job[p].from] # None
    BY <2>1 DEF Holding, Stays
  <2>4. QED
    BY <1>2, <1>3, <2>1, <2>2, <2>3 DEF Restores
<1>8. CASE CopyRestart(p)
  <2>1. /\ pc[p] = "copyRestart" /\ pc'[p] = "moveFail" /\ UNCHANGED <<app, job>>
        /\ \/ /\ disk[job[p].from] # None
              /\ ctr' = [ctr EXCEPT ![job[p].from] = "up"]
           \/ disk[job[p].from] = None /\ UNCHANGED ctr
    BY <1>8 DEF CopyRestart, MayFail, db
  <2>2. job[p].prev = "running" => ctr'[job[p].from] \in {"up", "unknown"}
    BY <1>1, <2>1 DEF Restores, Up, Apart
  <2>3. QED
    BY <1>2, <1>3, <2>1, <2>2 DEF Restores, Up
<1>9. CASE MoveFail(p)
  <2>1. /\ pc[p] = "moveFail" /\ pc'[p] = "moveFailLog" /\ UNCHANGED <<job, ctr>>
        /\ UpdateStatus(job[p].prev)
    BY <1>9 DEF MoveFail, world
  <2>2. app'.status = job[p].prev /\ app'.server = job[p].from
    BY <1>0, <1>1, <2>1
  <2>3. QED
    BY <1>1, <2>1, <2>2 DEF Restores, Trusted, Up, Apart
<1>10. CASE MoveRead(p)
  BY <1>2, <1>3, <1>10 DEF MoveRead, Restores, db
<1>11. CASE MoveSave(p)
  <2>1. /\ pc[p] = "moveSave" /\ UNCHANGED <<job, disk, ctr>>
        /\ \/ Update(job[p].row) /\ pc'[p] = "moveGetRoutes"
           \/ UNCHANGED app /\ pc'[p] = "copyRestart"
    BY <1>11 DEF MoveSave, world
  <2>2. /\ job[p].row = [app EXCEPT !.server = job[p].to]
        /\ disk[job[p].from] # None
    BY <2>1 DEF Holding, Stays
  <2>3. job[p].row.status = "deploying"
    BY <1>2, <2>1, <2>2 DEF DbTyped, Row
  <2>4. app'.status = "deploying"
    BY <1>2, <2>1, <2>3 DEF Update
  <2>5. QED
    BY <1>3, <2>1, <2>2, <2>4 DEF Restores
<1>12. CASE \/ GetRoutes(p, "moveGetRoutes", "movePutRoutes")
            \/ PutRoutes(p, "movePutRoutes", "mark")
  BY <1>2, <1>3, <1>12 DEF GetRoutes, PutRoutes, Restores, db
<1>13. CASE MoveFailRecord(p) \/ MoveCheck(p) \/ MoveRecord(p)
  <2>1. /\ UNCHANGED <<app, ctr>> /\ pc'[p] \in {"idle", "cleanup"}
        /\ pc[p] \in {"moveFailLog", "moveCheck", "moveLog"}
    BY <1>13 DEF MoveFailRecord, MoveCheck, MoveRecord, Release, db, world
  <2>2. QED
    BY <2>1, TrustKept DEF Restores, Leaving, SpawnPCs
<1>14. CASE CleanupFromServer(p)
  <2>1. /\ UNCHANGED app /\ pc'[p] \in {"idle", "moveLog"} /\ pc[p] = "cleanup"
    BY <1>14 DEF CleanupFromServer, CleanupReturns, Release, db
  <2>2. Apart(p) /\ app.server = job[p].to
    BY <2>1 DEF Holding, Arrives, TargetPCs, Course
  <2>3. ctr'[app.server] = ctr[app.server]
    BY <1>14, <2>2 DEF CleanupFromServer, TakeDown, Apart, world
  <2>4. QED
    BY <2>1, <2>3 DEF Restores, Trusted, Up, Leaving, SpawnPCs
<1>15. QED
  BY <1>4, <1>5, <1>6, <1>7, <1>8, <1>9, <1>10, <1>11, <1>12, <1>13, <1>14
  DEF MoveStep

\* and the others.
LEMMA OtherTrust ==
  ASSUME DbTyped, WorldTyped, JobTyped, ControlTyped, NEW p \in Procs,
         Course(p), Holding(p), Attends(p), Trusted(p), Restores(p), OtherStep(p)
  PROVE  Trusted(p)' /\ Restores(p)'
<1> USE DEF Goto, ControlTyped, JobTyped, WorldTyped, Leaving, SpawnPCs
<1>1. CASE RollbackSave(p)
  <2>1. /\ pc[p] = "rollbackSave" /\ pc'[p] = "mark" /\ UNCHANGED ctr
        /\ Update(job[p].row)
    BY <1>1 DEF RollbackSave, world
  <2>2. app'.status = app.status /\ app'.server = app.server
    BY <2>1 DEF Update, Holding, Tends, At
  <2>3. QED
    BY <2>1, <2>2 DEF Trusted, Restores, Up
<1>2. CASE StopStartExec(p)
  <2>1. /\ pc[p] = "exec" /\ UNCHANGED app
        /\ At(p) = app.server /\ app.server \in Servers
        /\ job[p].op \in {"stop", "start"}
    BY <1>2 DEF StopStartExec, Holding, Tends, Course, db
  <2>2. CASE Release(p) /\ ctr' = ctr
    BY <2>1, <2>2 DEF Release, Trusted, Restores, Up
  <2>3. CASE Release(p) /\ ctr' = [ctr EXCEPT ![At(p)] = Disturbed(@)]
    BY <2>1, <2>3 DEF Release, Trusted, Restores, Up, Disturbed
  <2>4. CASE Goto(p, "setStatus") /\ UNCHANGED job /\ job[p].op = "stop"
    BY <2>1, <2>4 DEF Trusted, Restores
  <2>5. CASE /\ Goto(p, "setStatus") /\ UNCHANGED job /\ job[p].op = "start"
             /\ ctr' = [ctr EXCEPT ![At(p)] = "up"]
    BY <2>1, <2>5 DEF Trusted, Restores, Up
  <2>6. QED
    BY <1>2, <2>1, <2>2, <2>3, <2>4, <2>5 DEF StopStartExec
<1>3. CASE StopStartStatus(p)
  <2>1. /\ pc[p] = "setStatus" /\ Release(p) /\ UNCHANGED ctr
        /\ UpdateStatus(IF job[p].op = "stop" THEN "stopped" ELSE "running")
    BY <1>3 DEF StopStartStatus, world
  <2>2. /\ Exists /\ app.server \in Servers /\ job[p].op \in {"stop", "start"}
    BY <2>1, OpLabels DEF Attends, Holding, Tends, Course
  <2>3. /\ app'.server = app.server
        /\ app'.status = IF job[p].op = "stop" THEN "stopped" ELSE "running"
    BY <2>1, <2>2 DEF UpdateStatus, DbTyped, Row
  <2>4. QED
    BY <2>1, <2>2, <2>3 DEF Release, Trusted, Restores, Up
<1>4. CASE UndeployRemote(p)
  <2>1. pc[p] = "remote" /\ pc'[p] = "forget" /\ UNCHANGED app
    BY <1>4 DEF UndeployRemote, db
  <2>2. QED
    BY <2>1 DEF Trusted, Restores
<1>5. CASE Forget(p)
  BY <1>5 DEF Forget, Release, NoApp, Trusted, Restores
<1>6. QED
  BY <1>1, <1>2, <1>3, <1>4, <1>5 DEF OtherStep

\* TrustInv is inductive as long as the controller does not restart.
LEMMA TrustStep ==
  ASSUME OneProcess, MaxCrashes = 0, "restart" \notin Faults
  PROVE  BaseInv /\ HoldingInv /\ TrustInv /\ [Next]_vars => TrustInv'
<1> SUFFICES ASSUME BaseInv, HoldingInv, TrustInv, [Next]_vars PROVE TrustInv'
  OBVIOUS
<1>0. /\ DbTyped /\ WorldTyped /\ JobTyped /\ ControlTyped /\ crashes \in Nat
      /\ \A p \in Procs : /\ Course(p) /\ Holding(p) /\ Attends(p)
                          /\ Trusted(p) /\ Restores(p)
  BY BaseParts DEF HoldingInv, TrustInv
<1>1. ASSUME NEW p \in Procs, Step(p) PROVE TrustInv'
  <2>1. Trusted(p)' /\ Restores(p)'
    BY <1>0, <1>1, OutsideTrust, BeginTrust, DeployTrust, MoveTrust, OtherTrust
    DEF Step, Work
  <2>2. \A q \in Procs : q = p
    BY DEF OneProcess
  <2>3. QED
    BY <2>1, <2>2 DEF TrustInv
<1>2. ~Restart
  BY <1>0 DEF Restart
<1>3. CASE UNCHANGED vars
  BY <1>3 DEF vars, db, world, proc, TrustInv, Trusted, Restores, Leaving, Up
<1>4. QED
  BY <1>1, <1>2, <1>3 DEF Next, Step

\* All three hold in every behaviour.
LEMMA TrustHolds ==
  ASSUME OneProcess, MaxCrashes = 0, "restart" \notin Faults
  PROVE  Spec => [](BaseInv /\ HoldingInv /\ TrustInv)
<1>1. Init => BaseInv /\ HoldingInv /\ TrustInv
  <2>1. Init => TrustInv
    BY DEF Init, TrustInv, Trusted, Restores, NoApp
  <2>2. QED
    BY <2>1, BaseInit, HoldingInit
<1>2. BaseInv /\ HoldingInv /\ TrustInv /\ [Next]_vars
        => (BaseInv /\ HoldingInv /\ TrustInv)'
  BY BaseStep, HoldingStep, TrustStep
<1>3. QED
  BY <1>1, <1>2, PTL DEF Spec

\* Requests that do not overlap, any failure but that of bringing the source of
\* a failed move up again, no restart: an app that says "running" runs on the
\* server its row names, or the last command there left it in doubt.
THEOREM RunningAppIsUp ==
  ASSUME OneProcess, MaxCrashes = 0, "restart" \notin Faults
  PROVE  Spec => []RunningMeansUp
<1>1. BaseInv /\ HoldingInv /\ TrustInv => RunningMeansUp
  BY DEF TrustInv, Trusted, Leaving, SpawnPCs, Up, Quiescent, RunningMeansUp
<1>2. QED
  BY <1>1, TrustHolds, PTL

\* Under the same conditions a move that fails leaves the app where it was, and
\* up if it was running.
THEOREM FailedMoveStays ==
  ASSUME OneProcess, MaxCrashes = 0, "restart" \notin Faults
  PROVE  Spec => []AbortedMoveStays
<1>1. BaseInv /\ HoldingInv /\ TrustInv => AbortedMoveStays
  BY DEF TrustInv, Restores, HoldingInv, Holding, Stays, SourcePCs, Up,
         AbortedMoveStays
<1>2. QED
  BY <1>1, TrustHolds, PTL
=============================================================================
