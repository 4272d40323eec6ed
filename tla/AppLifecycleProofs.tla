------------------------- MODULE AppLifecycleProofs -------------------------
(***************************************************************************)
(* Proofs about AppLifecycle for any number of workers, processes,         *)
(* domains, compose files, requests and restarts, with every failure.      *)
(***************************************************************************)
EXTENDS AppLifecycle, TLAPS

---------------------------------------------------------------------------
(* Control: which labels a step leads to, and what happens to the mutex.   *)

\* Every label an operation goes to is one of an operation,
LEMMA OpLabels ==
  /\ \A l \in {"mark", "read", "down", "up", "route", "running", "logSuccess",
               "failed", "logFailed", "logFirst", "failLast", "moveMark",
               "copyOpen", "copyDown", "copyTar", "copyRestart", "moveFail",
               "moveFailLog", "moveRead", "moveSave", "moveGetRoutes",
               "movePutRoutes", "moveCheck", "cleanup", "moveLog", "exec",
               "setStatus", "remote", "forget", "rollbackSave"} : l \in OpPCs
  /\ \A l \in OpPCs : l # "idle" /\ l \notin HandlerPCs
BY DEF OpPCs, DeployPCs, MovePCs, OtherPCs, HandlerPCs

\* and the labels are as TypeOK wants them.
LEMMA Labels == /\ "idle" \in PCs
                /\ "lock" \in HandlerPCs
                /\ "idle" \notin HandlerPCs
                /\ HandlerPCs \subseteq PCs
                /\ OpPCs \subseteq PCs
BY DEF PCs, HandlerPCs

\* The process moves on inside its operation, or the operation returns.
Proceeds(p) == /\ UNCHANGED lock
               /\ \E l \in OpPCs : Goto(p, l)

\* A process that works is inside an operation and stays there, or leaves it
\* with the mutex free.
LEMMA WorkControl ==
  ASSUME NEW p \in Procs, Work(p)
  PROVE  /\ pc[p] \in OpPCs
         /\ Proceeds(p) \/ Release(p)
<1> USE OpLabels DEF Proceeds
<1>1. CASE DeployMark(p)
  BY <1>1 DEF DeployMark
<1>2. CASE DeployRead(p)
  BY <1>2 DEF DeployRead
<1>3. CASE DeployDown(p)
  BY <1>3 DEF DeployDown
<1>4. CASE DeployUp(p)
  BY <1>4 DEF DeployUp
<1>5. CASE DeployRoute(p)
  BY <1>5 DEF DeployRoute
<1>6. CASE DeployFinish(p)
  BY <1>6 DEF DeployFinish
<1>7. CASE DeployRecord(p)
  BY <1>7 DEF DeployRecord, DeployReturns
<1>8. CASE DeployFailRecord(p)
  BY <1>8 DEF DeployFailRecord
<1>9. CASE DeployFailStatus(p)
  BY <1>9 DEF DeployFailStatus, DeployReturns
<1>10. CASE MoveMark(p)
  BY <1>10 DEF MoveMark
<1>11. CASE CopyOpen(p)
  BY <1>11 DEF CopyOpen
<1>12. CASE CopyDown(p)
  BY <1>12 DEF CopyDown
<1>13. CASE CopyTar(p)
  BY <1>13 DEF CopyTar
<1>14. CASE CopyRestart(p)
  BY <1>14 DEF CopyRestart
<1>15. CASE MoveFail(p)
  BY <1>15 DEF MoveFail
<1>16. CASE MoveFailRecord(p)
  BY <1>16 DEF MoveFailRecord
<1>17. CASE MoveRead(p)
  BY <1>17 DEF MoveRead
<1>18. CASE MoveSave(p)
  BY <1>18 DEF MoveSave
<1>19. CASE GetRoutes(p, "moveGetRoutes", "movePutRoutes")
  BY <1>19 DEF GetRoutes
<1>20. CASE PutRoutes(p, "movePutRoutes", "mark")
  BY <1>20 DEF PutRoutes
<1>21. CASE MoveCheck(p)
  BY <1>21 DEF MoveCheck
<1>22. CASE CleanupFromServer(p)
  BY <1>22 DEF CleanupFromServer, CleanupReturns
<1>23. CASE MoveRecord(p)
  BY <1>23 DEF MoveRecord
<1>24. CASE RollbackSave(p)
  BY <1>24 DEF RollbackSave
<1>25. CASE StopStartExec(p)
  BY <1>25 DEF StopStartExec
<1>26. CASE StopStartStatus(p)
  BY <1>26 DEF StopStartStatus
<1>27. CASE UndeployRemote(p)
  BY <1>27 DEF UndeployRemote
<1>28. CASE Forget(p)
  BY <1>28 DEF Forget
<1>29. QED
  BY <1>1, <1>2, <1>3, <1>4, <1>5, <1>6, <1>7, <1>8, <1>9, <1>10, <1>11,
     <1>12, <1>13, <1>14, <1>15, <1>16, <1>17, <1>18, <1>19, <1>20, <1>21,
     <1>22, <1>23, <1>24, <1>25, <1>26, <1>27, <1>28
  DEF Work, DeployStep, MoveStep, OtherStep

\* The first step of an operation takes the free mutex, or gives up.
LEMMA BeginControl ==
  ASSUME NEW p \in Procs, Begin(p)
  PROVE  /\ pc[p] = "lock"
         /\ lock = Nobody
         /\ UNCHANGED <<db, world, bound>>
         /\ \/ lock' = p /\ \E l \in OpPCs : Goto(p, l)
            \/ UNCHANGED lock /\ Goto(p, "idle")
<1> USE OpLabels DEF Acquire, Enter, GiveUp, Return, Goto
<1>1. CASE BeginDeploy(p)
  BY <1>1 DEF BeginDeploy
<1>2. CASE BeginRedeploy(p)
  BY <1>2 DEF BeginRedeploy
<1>3. CASE BeginRollback(p)
  BY <1>3 DEF BeginRollback
<1>4. CASE BeginStopStart(p)
  BY <1>4 DEF BeginStopStart
<1>5. CASE BeginUndeploy(p)
  BY <1>5 DEF BeginUndeploy
<1>6. CASE BeginMove(p)
  BY <1>6 DEF BeginMove
<1>7. QED
  BY <1>1, <1>2, <1>3, <1>4, <1>5, <1>6 DEF Begin

\* A request and a handler stay outside the operations, leave the mutex alone
\* and run no command on a worker.
LEMMA OutsideControl ==
  ASSUME NEW p \in Procs, Request(p) \/ Handle(p)
  PROVE  /\ pc[p] \notin OpPCs
         /\ UNCHANGED <<lock, world, crashes>>
         /\ UNCHANGED pc \/ \E l \in HandlerPCs \cup {"idle"} : Goto(p, l)
<1> USE OpLabels DEF bound, proc, NewRequest
<1>0. \A l \in {"deployCheck", "deployMark", "patchCheck", "patchWrite",
                "patchGetRoutes", "patchPutRoutes", "editCheck", "editWrite",
                "editGetRoutes", "editPutRoutes", "lock"} : l \in HandlerPCs
  BY DEF HandlerPCs
<1>1. CASE Create(p)
  BY <1>0, <1>1 DEF Create
<1>2. ASSUME NEW kind, Operate(p, kind)
      PROVE  /\ pc[p] \notin OpPCs
             /\ UNCHANGED <<lock, world, crashes>>
             /\ \E l \in HandlerPCs \cup {"idle"} : Goto(p, l)
  BY <1>0, <1>2 DEF Operate
<1>3. CASE DeployByGit(p)
  BY <1>0, <1>3 DEF DeployByGit
<1>4. CASE ClearDeployments(p)
  BY <1>0, <1>4 DEF ClearDeployments
<1>5. CASE DeployWebRead(p)
  BY <1>0, <1>5 DEF DeployWebRead
<1>6. CASE PatchRead(p)
  BY <1>0, <1>6 DEF PatchRead
<1>7. CASE EditRead(p)
  BY <1>0, <1>7 DEF EditRead
<1>8. ASSUME NEW at \in HandlerPCs, NEW next \in HandlerPCs,
             BusyCheck(p, at, next)
      PROVE  /\ pc[p] \notin OpPCs
             /\ UNCHANGED <<lock, world, crashes>>
             /\ \E l \in HandlerPCs \cup {"idle"} : Goto(p, l)
  BY <1>8 DEF BusyCheck, Return, Goto
<1>9. CASE DeployWebMark(p)
  BY <1>0, <1>9 DEF DeployWebMark
<1>10. CASE PatchWrite(p)
  BY <1>0, <1>10 DEF PatchWrite, Return, Goto
<1>11. CASE GetRoutes(p, "patchGetRoutes", "patchPutRoutes")
  BY <1>0, <1>11 DEF GetRoutes
<1>12. CASE PutRoutes(p, "patchPutRoutes", "lock")
  BY <1>0, <1>12 DEF PutRoutes
<1>13. CASE EditWrite(p)
  BY <1>0, <1>13 DEF EditWrite
<1>14. CASE EditGetRoutes(p)
  BY <1>0, <1>14 DEF EditGetRoutes
<1>15. CASE EditPutRoutes(p)
  BY <1>0, <1>15 DEF EditPutRoutes, Return, Goto
<1>16. QED
  BY <1>0, <1>1, <1>2, <1>3, <1>4, <1>5, <1>6, <1>7, <1>8, <1>9, <1>10, <1>11,
     <1>12, <1>13, <1>14, <1>15
  DEF Request, Handle

---------------------------------------------------------------------------
(* The mutex.                                                              *)

\* LockOwner needs to know only that pc and lock are what they should be.
ControlTyped == /\ pc \in [Procs -> PCs]
                /\ lock \in Procs \cup {Nobody}

ControlInv == ControlTyped /\ LockOwner

\* Every step keeps the labels, the mutex and who is inside in step.
LEMMA ControlStep == ControlInv /\ [Next]_vars => ControlInv'
<1> SUFFICES ASSUME ControlInv, [Next]_vars PROVE ControlInv'
  OBVIOUS
<1> USE ConstantsAssumption, OpLabels, Labels
    DEF ControlInv, ControlTyped, LockOwner, InOperation
<1>1. ASSUME NEW p \in Procs, Request(p) \/ Handle(p) PROVE ControlInv'
  BY <1>1, OutsideControl DEF Goto
<1>2. ASSUME NEW p \in Procs, Begin(p) PROVE ControlInv'
  BY <1>2, BeginControl DEF Goto
<1>3. ASSUME NEW p \in Procs, Work(p) PROVE ControlInv'
  BY <1>3, WorkControl DEF Goto, Proceeds, Release
<1>4. CASE Restart
  BY <1>4 DEF Restart
<1>5. CASE UNCHANGED vars
  BY <1>5 DEF vars, proc
<1>6. QED
  BY <1>1, <1>2, <1>3, <1>4, <1>5 DEF Next

\* The mutex serializes the lifecycle operations of an app, whatever the number
\* of requests, failures and restarts (service.go:41-48).
THEOREM Serial == Spec => []LockOwner
<1>1. Init => ControlInv
  BY ConstantsAssumption, OpLabels, Labels
  DEF Init, ControlInv, ControlTyped, LockOwner, InOperation
<1>2. ControlInv => LockOwner
  BY DEF ControlInv
<1>3. QED
  BY <1>1, <1>2, ControlStep, PTL DEF Spec

---------------------------------------------------------------------------
(* Locality: a step of one process leaves the others where they are.       *)

Step(p) == Request(p) \/ Handle(p) \/ Begin(p) \/ Work(p)

\* A step of p changes neither the label nor the local variables of q.
LEMMA Locality ==
  ASSUME NEW p \in Procs, Step(p), pc \in [Procs -> PCs], job \in [Procs -> Job]
  PROVE  \A q \in Procs \ {p} : pc'[q] = pc[q] /\ job'[q] = job[q]
<1>1. \A q \in Procs \ {p} : pc'[q] = pc[q]
  BY OutsideControl, BeginControl, WorkControl
  DEF Step, Proceeds, Goto, Release
<1>2. \A q \in Procs \ {p} : job'[q] = job[q]
  <2> USE DEF proc, Return, Release, Enter, GiveUp
  <2>1. CASE Request(p)
    BY <2>1 DEF Request, Create, Operate, DeployByGit, ClearDeployments,
                DeployWebRead, PatchRead, EditRead
  <2>2. CASE Handle(p)
    BY <2>2 DEF Handle, BusyCheck, DeployWebMark, PatchWrite, GetRoutes,
                PutRoutes, EditWrite, EditGetRoutes, EditPutRoutes
  <2>3. CASE Begin(p)
    BY <2>3 DEF Begin, BeginDeploy, BeginRedeploy, BeginRollback,
                BeginStopStart, BeginUndeploy, BeginMove
  <2>4. CASE DeployStep(p)
    BY <2>4 DEF DeployStep, DeployMark, DeployRead, DeployDown, DeployUp,
                DeployRoute, DeployFinish, DeployRecord, DeployFailRecord,
                DeployFailStatus, DeployReturns
  <2>5. CASE MoveStep(p)
    BY <2>5 DEF MoveStep, MoveMark, CopyOpen, CopyDown, CopyTar, CopyRestart,
                MoveFail, MoveFailRecord, MoveRead, MoveSave, GetRoutes,
                PutRoutes, MoveCheck, CleanupFromServer, CleanupReturns,
                MoveRecord
  <2>6. CASE OtherStep(p)
    BY <2>6 DEF OtherStep, RollbackSave, StopStartExec, StopStartStatus,
                UndeployRemote, Forget
  <2>7. QED
    BY <2>1, <2>2, <2>3, <2>4, <2>5, <2>6 DEF Step, Work
<1>3. QED
  BY <1>1, <1>2

---------------------------------------------------------------------------
(* Types.                                                                  *)

DbTyped    == /\ app \in Row
              /\ routes \subseteq Domains
              /\ snapshot \in Composes \cup {None}
              /\ lastRec \in {"none", "success", "failed"}
WorldTyped == /\ disk \in [Servers -> Composes \cup {None}]
              /\ ctr \in [Servers -> Containers]
              /\ caddy \in [Servers -> SUBSET Domains]
              /\ vols \in [Servers -> BOOLEAN]
JobTyped   == job \in [Procs -> Job]

\* A copy has a source: CopyTar reads the folder there.
CopyHasSource ==
  \A p \in Procs : pc[p] \in {"copyDown", "copyTar"} => job[p].from \in Servers

\* The absent row and the empty job have their types.
LEMMA Empty == NoApp \in Row /\ NoJob \in Job
BY ConstantsAssumption DEF NoApp, NoJob, Row, Job, Ops, Statuses

\* The repository's statements keep the rows typed.
LEMMA StatementsTyped ==
  ASSUME DbTyped
  PROVE  /\ \A s \in Statuses : UpdateStatus(s) => app' \in Row
         /\ \A row \in Row : Update(row) => app' \in Row
         /\ \A s \in {"success", "failed"}, c \in Composes \cup {None} :
              RecordDeployment(s, c) =>
                /\ snapshot' \in Composes \cup {None}
                /\ lastRec' \in {"none", "success", "failed"}
<1>1. \A s \in Statuses : UpdateStatus(s) => app' \in Row
  BY DEF DbTyped, UpdateStatus, Row
<1>2. \A row \in Row : Update(row) => app' \in Row
  BY DEF DbTyped, Update
<1>3. \A s \in {"success", "failed"}, c \in Composes \cup {None} :
        RecordDeployment(s, c) =>
          /\ snapshot' \in Composes \cup {None}
          /\ lastRec' \in {"none", "success", "failed"}
  BY DEF DbTyped, RecordDeployment
<1>4. QED
  BY <1>1, <1>2, <1>3

\* What a process knows is typed.
LEMMA JobFields ==
  ASSUME JobTyped, NEW p \in Procs
  PROVE  /\ job[p].row \in Row
         /\ job[p].row.compose \in Composes \cup {None}
         /\ job[p].from \in Servers \cup {None}
         /\ job[p].to \in Servers \cup {None}
         /\ job[p].doms \subseteq Domains
         /\ job[p].gone \subseteq Domains
         /\ job[p].prev \in Statuses
BY DEF JobTyped, Job, Row

\* Assigning a local variable keeps the job typed.
LEMMA JobUpdates ==
  ASSUME JobTyped, NEW p \in Procs
  PROVE  /\ \A o \in Ops : [job EXCEPT ![p].op = o] \in [Procs -> Job]
         /\ \A r \in Row : [job EXCEPT ![p].row = r] \in [Procs -> Job]
         /\ \A d \in SUBSET Domains :
              [job EXCEPT ![p].doms = d] \in [Procs -> Job]
         /\ \A d \in SUBSET Domains :
              [job EXCEPT ![p].gone = d] \in [Procs -> Job]
         /\ \A j \in Job : [job EXCEPT ![p] = j] \in [Procs -> Job]
BY DEF JobTyped, Job

\* What a Patch or edit makes of a row is a row, and of a job a job.
LEMMA ChangeTyped ==
  ASSUME DbTyped, NEW c \in Composes, NEW to \in Servers \cup {None}, NEW files,
         NEW purge \in BOOLEAN
  PROVE  Change(app, c, to, files, purge) \in Job
<1>1. SpawnedOp(app, to, files) \in Ops
  BY DEF SpawnedOp, Ops
<1>2. EditedRow(app, c, to, files) \in Row /\ app.server \in Servers \cup {None}
  BY DEF EditedRow, Row, DbTyped
<1>3. QED
  BY <1>1, <1>2, Empty DEF Change, Job

\* A request leaves rows, labels and jobs typed.
LEMMA RequestTyped ==
  ASSUME DbTyped, JobTyped, NEW p \in Procs, Request(p)
  PROVE  DbTyped' /\ JobTyped'
<1>0. \A o \in {"deploy", "redeploy", "rollback", "stop", "start", "undeploy",
                "git"} : o \in Ops
  BY DEF Ops
<1>1. CASE Create(p)
  <2>1. PICK c \in Composes, doms \in SUBSET Domains,
             s \in Servers \cup {None}, primary \in BOOLEAN, draft \in Drafts :
          /\ app' = [status |-> IF draft THEN "draft" ELSE "created",
                     server |-> s, compose |-> c, domain |-> primary]
          /\ routes' = doms
    BY <1>1 DEF Create
  <2>2. app' \in Row
    BY <2>1 DEF Row, Statuses
  <2>3. JobTyped'
    BY <1>0, <1>1, JobUpdates DEF Create, JobTyped, proc
  <2>4. QED
    BY <1>1, <2>1, <2>2, <2>3 DEF Create, DbTyped
<1>2. ASSUME NEW kind \in {"redeploy", "rollback", "stop", "start", "undeploy"},
             Operate(p, kind)
      PROVE  DbTyped' /\ JobTyped'
  BY <1>0, JobUpdates, <1>2 DEF Operate, DbTyped, JobTyped, db
<1>3. CASE DeployByGit(p)
  BY <1>0, JobUpdates, <1>3 DEF DeployByGit, DbTyped, JobTyped, db
<1>4. CASE ClearDeployments(p)
  BY <1>4 DEF ClearDeployments, DbTyped, JobTyped, proc
<1>5. CASE DeployWebRead(p)
  BY <1>0, JobUpdates, <1>5 DEF DeployWebRead, DbTyped, JobTyped, db
<1>6. CASE PatchRead(p)
  <2>1. PICK c \in Composes, to \in Servers \cup {app.server},
             files \in FileMoves, purge \in BOOLEAN :
          job' = [job EXCEPT ![p] = Change(app, c, to, files, purge)]
    BY <1>6 DEF PatchRead
  <2>2. to \in Servers \cup {None}
    BY DEF Row, DbTyped
  <2>3. QED
    BY ChangeTyped, <1>6, <2>1, <2>2 DEF PatchRead, DbTyped, JobTyped, db
<1>7. CASE EditRead(p)
  <2>1. PICK c \in Composes, to \in Servers \cup {None}, files \in FileMoves,
             purge \in BOOLEAN, doms \in SUBSET Domains :
          job' = [job EXCEPT ![p] =
                    WithDomains(Change(app, c, to, files, purge), doms)]
    BY <1>7 DEF EditRead
  <2>2. ASSUME NEW change \in Job
        PROVE  WithDomains(change, doms) \in Job
    <3> DEFINE routed == doms # {}
    <3>1. routed \in BOOLEAN
      OBVIOUS
    <3>2. WithDomains(change, doms)
            = [change EXCEPT !.row.domain = routed, !.doms = doms]
      BY DEF WithDomains
    <3> HIDE DEF routed
    <3>3. QED
      BY <3>1, <3>2 DEF Job, Row
  <2>3. QED
    BY ChangeTyped, <1>7, <2>1, <2>2 DEF EditRead, DbTyped, JobTyped, db
<1>8. QED
  BY <1>1, <1>2, <1>3, <1>4, <1>5, <1>6, <1>7 DEF Request

\* So does every later step of a handler,
LEMMA HandleTyped ==
  ASSUME DbTyped, JobTyped, NEW p \in Procs, Handle(p)
  PROVE  DbTyped' /\ JobTyped'
<1>0. job[p].row \in Row /\ job[p].doms \subseteq Domains
      /\ job[p].gone \subseteq Domains /\ "deploying" \in Statuses
  BY JobFields DEF Statuses
<1>1. ASSUME NEW at, NEW next, BusyCheck(p, at, next)
      PROVE  DbTyped' /\ JobTyped'
  BY <1>1, Empty DEF BusyCheck, Return, DbTyped, JobTyped, db
<1>2. CASE DeployWebMark(p)
  BY <1>0, <1>2, StatementsTyped DEF DeployWebMark, DbTyped, JobTyped
<1>3. CASE PatchWrite(p)
  BY <1>0, <1>3, Empty, StatementsTyped
  DEF PatchWrite, Return, DbTyped, JobTyped
<1>4. ASSUME NEW at, NEW next, GetRoutes(p, at, next)
      PROVE  DbTyped' /\ JobTyped'
  <2>1. JobTyped'
    BY <1>4, JobUpdates DEF GetRoutes, DbTyped, JobTyped
  <2>2. QED
    BY <1>4, <2>1 DEF GetRoutes, DbTyped, db
<1>5. ASSUME NEW at, NEW next, PutRoutes(p, at, next)
      PROVE  DbTyped' /\ JobTyped'
  BY <1>0, <1>5 DEF PutRoutes, DbTyped, JobTyped
<1>6. CASE EditWrite(p)
  BY <1>0, <1>6, StatementsTyped DEF EditWrite, DbTyped, JobTyped
<1>7. CASE EditGetRoutes(p)
  <2>1. routes \ job[p].doms \in SUBSET Domains
    BY DEF DbTyped
  <2>2. QED
    BY <1>7, <2>1, JobUpdates DEF EditGetRoutes, DbTyped, JobTyped, db
<1>8. CASE EditPutRoutes(p)
  <2>1. DbTyped'
    BY <1>0, <1>8 DEF EditPutRoutes, DbTyped
  <2>2. JobTyped'
    BY <1>0, <1>8, Empty, JobUpdates DEF EditPutRoutes, Return, JobTyped
  <2>3. QED
    BY <2>1, <2>2
<1>9. QED
  BY <1>1, <1>2, <1>3, <1>4, <1>5, <1>6, <1>7, <1>8 DEF Handle

\* the first step of an operation,
LEMMA BeginTyped ==
  ASSUME DbTyped, JobTyped, NEW p \in Procs, Begin(p)
  PROVE  DbTyped' /\ JobTyped'
<1> USE Empty DEF Enter, GiveUp, Return
<1>0. DbTyped'
  BY BeginControl DEF DbTyped, db
<1>1. \A r \in Row : [job[p] EXCEPT !.row = r] \in Job
  BY DEF JobTyped, Job
<1>2. CASE BeginDeploy(p)
  BY <1>0, <1>2 DEF BeginDeploy, JobTyped
<1>3. CASE BeginRedeploy(p)
  BY <1>0, <1>3 DEF BeginRedeploy, JobTyped
<1>4. CASE BeginRollback(p)
  <2>1. [app EXCEPT !.compose = snapshot] \in Row
    BY DEF DbTyped, Row
  <2>2. QED
    BY <1>0, <1>1, <1>4, <2>1 DEF BeginRollback, JobTyped
<1>5. CASE BeginStopStart(p)
  BY <1>0, <1>1, <1>5 DEF BeginStopStart, JobTyped, DbTyped
<1>6. CASE BeginUndeploy(p)
  BY <1>0, <1>1, <1>6 DEF BeginUndeploy, JobTyped, DbTyped
<1>7. CASE BeginMove(p)
  <2>1. [job[p] EXCEPT !.row = app, !.prev = app.status] \in Job
    BY DEF DbTyped, JobTyped, Job, Row
  <2>2. QED
    BY <1>0, <1>7, <2>1 DEF BeginMove, JobTyped
<1>8. QED
  BY <1>2, <1>3, <1>4, <1>5, <1>6, <1>7 DEF Begin

\* A deployment returns into the move that called it, or ends.
LEMMA ReturnsTyped ==
  ASSUME JobTyped, NEW p \in Procs
  PROVE  /\ DeployReturns(p) => JobTyped'
         /\ CleanupReturns(p) => JobTyped'
         /\ Release(p) => JobTyped'
         /\ UNCHANGED job => JobTyped'
BY Empty DEF DeployReturns, CleanupReturns, Release, JobTyped

\* and every other step of one.
LEMMA WorkTyped ==
  ASSUME DbTyped, JobTyped, NEW p \in Procs, Work(p)
  PROVE  DbTyped' /\ JobTyped'
<1> USE JobFields, ReturnsTyped
<1>0. \A s \in {"deploying", "running", "failed", "stopped"} : s \in Statuses
  BY DEF Statuses
<1>1. CASE DeployMark(p)
  BY <1>0, <1>1, StatementsTyped DEF DeployMark, DbTyped
<1>2. CASE DeployRead(p)
  BY <1>2, JobUpdates DEF DeployRead, DbTyped, JobTyped, db
<1>3. CASE DeployDown(p)
  BY <1>3 DEF DeployDown, DbTyped, db
<1>4. CASE DeployUp(p)
  BY <1>4 DEF DeployUp, DbTyped, db
<1>5. CASE DeployRoute(p)
  BY <1>5 DEF DeployRoute, DbTyped, db
<1>6. CASE DeployFinish(p)
  BY <1>0, <1>6, StatementsTyped DEF DeployFinish, DbTyped
<1>7. CASE DeployRecord(p)
  BY <1>7, StatementsTyped DEF DeployRecord, DbTyped
<1>8. CASE DeployFailRecord(p)
  BY <1>8, StatementsTyped DEF DeployFailRecord, DbTyped
<1>9. CASE DeployFailStatus(p)
  BY <1>0, <1>9, StatementsTyped DEF DeployFailStatus, DbTyped
<1>10. CASE MoveMark(p)
  BY <1>0, <1>10, StatementsTyped DEF MoveMark, DbTyped
<1>11. CASE CopyOpen(p)
  BY <1>11 DEF CopyOpen, DbTyped, db
<1>12. CASE CopyDown(p)
  BY <1>12 DEF CopyDown, DbTyped, db
<1>13. CASE CopyTar(p)
  BY <1>13 DEF CopyTar, DbTyped, db
<1>14. CASE CopyRestart(p)
  BY <1>14 DEF CopyRestart, DbTyped, db
<1>15. CASE MoveFail(p)
  BY <1>15, StatementsTyped DEF MoveFail, DbTyped
<1>16. CASE MoveFailRecord(p)
  BY <1>16, StatementsTyped DEF MoveFailRecord, DbTyped
<1>17. CASE MoveRead(p)
  <2>1. [app EXCEPT !.server = job[p].to] \in Row
    BY DEF DbTyped, Row
  <2>2. QED
    BY <1>17, <2>1, JobUpdates DEF MoveRead, DbTyped, JobTyped, db
<1>18. CASE MoveSave(p)
  BY <1>18, StatementsTyped DEF MoveSave, DbTyped
<1>19. CASE GetRoutes(p, "moveGetRoutes", "movePutRoutes")
  <2>1. routes \in SUBSET Domains
    BY DEF DbTyped
  <2>2. QED
    BY <1>19, <2>1, JobUpdates DEF GetRoutes, DbTyped, JobTyped, db
<1>20. CASE PutRoutes(p, "movePutRoutes", "mark")
  BY <1>20 DEF PutRoutes, DbTyped
<1>21. CASE MoveCheck(p)
  BY <1>21 DEF MoveCheck, DbTyped, db
<1>22. CASE CleanupFromServer(p)
  BY <1>22 DEF CleanupFromServer, DbTyped, db
<1>23. CASE MoveRecord(p)
  BY <1>23, StatementsTyped DEF MoveRecord, DbTyped
<1>24. CASE RollbackSave(p)
  BY <1>24, StatementsTyped DEF RollbackSave, DbTyped
<1>25. CASE StopStartExec(p)
  BY <1>25 DEF StopStartExec, DbTyped, db
<1>26. CASE StopStartStatus(p)
  BY <1>0, <1>26, StatementsTyped DEF StopStartStatus, DbTyped
<1>27. CASE UndeployRemote(p)
  BY <1>27 DEF UndeployRemote, DbTyped, db
<1>28. CASE Forget(p)
  BY <1>28, Empty DEF Forget, DbTyped
<1>29. QED
  BY <1>1, <1>2, <1>3, <1>4, <1>5, <1>6, <1>7, <1>8, <1>9, <1>10, <1>11,
     <1>12, <1>13, <1>14, <1>15, <1>16, <1>17, <1>18, <1>19, <1>20, <1>21,
     <1>22, <1>23, <1>24, <1>25, <1>26, <1>27, <1>28
  DEF Work, DeployStep, MoveStep, OtherStep

\* Taking the app down on a worker.
LEMMA TakeDownTyped ==
  ASSUME WorldTyped, NEW s \in Servers \cup {None}, NEW purge, NEW doms,
         TakeDown(s, purge, doms)
  PROVE  WorldTyped'
<1>1. disk' \in [Servers -> Composes \cup {None}]
  BY DEF TakeDown, WorldTyped
<1>2. ctr' \in [Servers -> Containers]
  BY DEF TakeDown, Disturbed, Containers, WorldTyped
<1>3. caddy' \in [Servers -> SUBSET Domains]
  <2>1. PICK removed : caddy' = [caddy EXCEPT ![s] = @ \ removed]
    BY DEF TakeDown
  <2>2. QED
    BY <2>1 DEF WorldTyped
<1>4. vols' \in [Servers -> BOOLEAN]
  BY DEF TakeDown, WorldTyped
<1>5. QED
  BY <1>1, <1>2, <1>3, <1>4 DEF WorldTyped

\* No command leaves a worker in an untyped state.
LEMMA WorldStep ==
  ASSUME DbTyped, JobTyped, WorldTyped, CopyHasSource, NEW p \in Procs, Work(p)
  PROVE  WorldTyped'
<1>0. ASSUME UNCHANGED world PROVE WorldTyped'
  BY <1>0 DEF world, WorldTyped
<1>1. CASE DeployDown(p)
  BY <1>1 DEF DeployDown, Disturbed, Containers, WorldTyped
<1>2. CASE DeployUp(p)
  <2>1. job[p].row.compose \in Composes \cup {None}
    BY JobFields
  <2>2. disk' \in [Servers -> Composes \cup {None}]
    BY <1>2, <2>1 DEF DeployUp, WorldTyped, world
  <2>3. ctr' \in [Servers -> Containers]
    BY <1>2 DEF DeployUp, Containers, WorldTyped, world
  <2>4. vols' \in [Servers -> BOOLEAN]
    BY <1>2 DEF DeployUp, WorldTyped, world
  <2>5. QED
    BY <1>2, <2>2, <2>3, <2>4 DEF DeployUp, WorldTyped, world
<1>3. CASE DeployRoute(p)
  <2>1. PICK left \in SUBSET routes, removed \in SUBSET job[p].gone,
             want \in {routes, {}} :
          caddy' = [caddy EXCEPT ![At(p)] = ((@ \ removed) \ want) \cup left]
    BY <1>3 DEF DeployRoute
  <2>2. left \subseteq Domains
    BY DEF DbTyped
  <2>3. caddy' \in [Servers -> SUBSET Domains]
    BY <2>1, <2>2 DEF WorldTyped
  <2>4. QED
    BY <1>3, <2>3 DEF DeployRoute, WorldTyped
<1>4. CASE CopyDown(p)
  BY <1>4 DEF CopyDown, Disturbed, Containers, WorldTyped
<1>5. CASE CopyTar(p)
  <2>1. PICK left : disk' = [disk EXCEPT ![job[p].to] = left]
                    /\ left \in {disk[job[p].to], None, disk[job[p].from]}
    BY <1>5 DEF CopyTar
  <2>2. job[p].from \in Servers
    BY <1>5 DEF CopyTar, CopyHasSource
  <2>3. disk' \in [Servers -> Composes \cup {None}]
    BY <2>1, <2>2 DEF WorldTyped
  <2>4. QED
    BY <1>5, <2>3 DEF CopyTar, WorldTyped
<1>6. CASE CopyRestart(p)
  <2>1. ctr' \in [Servers -> Containers]
    BY <1>6 DEF CopyRestart, Containers, WorldTyped
  <2>2. vols' \in [Servers -> BOOLEAN]
    BY <1>6 DEF CopyRestart, WorldTyped
  <2>3. QED
    BY <1>6, <2>1, <2>2 DEF CopyRestart, WorldTyped
<1>7. CASE StopStartExec(p)
  BY <1>7 DEF StopStartExec, Disturbed, Containers, WorldTyped
<1>8. CASE UndeployRemote(p)
  <2>1. At(p) \in Servers \cup {None}
    BY JobFields DEF At, Row
  <2>2. QED
    BY <1>8, <2>1, TakeDownTyped DEF UndeployRemote
<1>9. CASE CleanupFromServer(p)
  BY <1>0, <1>9, JobFields, TakeDownTyped DEF CleanupFromServer
<1>10. QED
  BY <1>0, <1>1, <1>2, <1>3, <1>4, <1>5, <1>6, <1>7, <1>8, <1>9
  DEF Work, DeployStep, MoveStep, OtherStep, DeployMark, DeployRead,
      DeployFinish, DeployRecord, DeployFailRecord, DeployFailStatus, MoveMark,
      CopyOpen, MoveFail, MoveFailRecord, MoveRead, MoveSave, GetRoutes,
      PutRoutes, MoveCheck, MoveRecord, RollbackSave, StopStartStatus, Forget

\* Only CopyOpen starts a copy, after it has looked at the servers.
LEMMA CopySourceStep ==
  ASSUME JobTyped, ControlTyped, CopyHasSource, NEW p \in Procs, Step(p)
  PROVE  CopyHasSource'
<1> SUFFICES ASSUME pc'[p] \in {"copyDown", "copyTar"}
             PROVE  job'[p].from \in Servers
  BY Locality DEF CopyHasSource, ControlTyped, JobTyped
<1>1. CASE Request(p) \/ Handle(p)
  <2>1. pc'[p] \notin OpPCs
    BY <1>1, OutsideControl, OpLabels, Labels DEF Goto, ControlTyped
  <2>2. QED
    BY <2>1, OpLabels
<1>2. CASE Begin(p)
  BY <1>2 DEF Begin, BeginDeploy, BeginRedeploy, BeginRollback,
              BeginStopStart, BeginUndeploy, BeginMove, Enter, GiveUp, Return,
              Goto, ControlTyped
<1>3. CASE DeployStep(p)
  BY <1>3 DEF DeployStep, DeployMark, DeployRead, DeployDown, DeployUp,
              DeployRoute, DeployFinish, DeployRecord, DeployFailRecord,
              DeployFailStatus, DeployReturns, Release, Goto, ControlTyped
<1>4. CASE CopyOpen(p)
  BY <1>4, JobFields DEF CopyOpen, NothingToCopy, Goto, ControlTyped
<1>5. CASE CopyDown(p)
  BY <1>5 DEF CopyDown, Goto, ControlTyped, CopyHasSource
<1>6. CASE MoveStep(p) /\ ~CopyOpen(p) /\ ~CopyDown(p)
  BY <1>6 DEF MoveStep, MoveMark, CopyTar, CopyRestart, MoveFail,
              MoveFailRecord, MoveRead, MoveSave, GetRoutes, PutRoutes,
              MoveCheck, CleanupFromServer, CleanupReturns, MoveRecord,
              Release, Goto, ControlTyped
<1>7. CASE OtherStep(p)
  BY <1>7 DEF OtherStep, RollbackSave, StopStartExec, StopStartStatus,
              UndeployRemote, Forget, Release, Goto, ControlTyped
<1>8. QED
  BY <1>1, <1>2, <1>3, <1>4, <1>5, <1>6, <1>7 DEF Step, Work

TypeInv == TypeOK /\ ControlInv /\ CopyHasSource

\* The type invariant is inductive.
LEMMA TypeStep == TypeInv /\ [Next]_vars => TypeInv'
<1> SUFFICES ASSUME TypeInv, [Next]_vars PROVE TypeInv'
  OBVIOUS
<1>0. DbTyped /\ WorldTyped /\ JobTyped /\ ControlTyped /\ CopyHasSource
      /\ requests \in Nat /\ crashes \in Nat
  BY DEF TypeInv, TypeOK, DbTyped, WorldTyped, JobTyped, ControlTyped
<1>1. ControlInv'
  BY ControlStep DEF TypeInv
<1>2. ASSUME DbTyped', WorldTyped', JobTyped', CopyHasSource',
             requests' \in Nat, crashes' \in Nat
      PROVE  TypeInv'
  BY <1>1, <1>2
  DEF TypeInv, TypeOK, DbTyped, WorldTyped, JobTyped, ControlInv, ControlTyped
<1>3. ASSUME NEW p \in Procs, Step(p) PROVE CopyHasSource'
  BY <1>0, <1>3, CopySourceStep
<1>4. ASSUME NEW p \in Procs, Request(p) PROVE TypeInv'
  <2>1. requests' \in Nat
    BY <1>0, <1>4 DEF Request, Create, Operate, DeployByGit, ClearDeployments,
                      DeployWebRead, PatchRead, EditRead, NewRequest
  <2>2. WorldTyped' /\ crashes' \in Nat
    BY <1>0, <1>4, OutsideControl DEF WorldTyped, world
  <2>3. QED
    BY <1>0, <1>2, <1>3, <1>4, <2>1, <2>2, RequestTyped DEF Step
<1>5. ASSUME NEW p \in Procs, Handle(p) PROVE TypeInv'
  <2>1. UNCHANGED bound
    BY <1>5 DEF Handle, BusyCheck, DeployWebMark, PatchWrite, GetRoutes,
                PutRoutes, EditWrite, EditGetRoutes, EditPutRoutes
  <2>2. WorldTyped'
    BY <1>0, <1>5, OutsideControl DEF WorldTyped, world
  <2>3. QED
    BY <1>0, <1>2, <1>3, <1>5, <2>1, <2>2, HandleTyped DEF Step, bound
<1>6. ASSUME NEW p \in Procs, Begin(p) PROVE TypeInv'
  <2>1. WorldTyped'
    BY <1>0, <1>6, BeginControl DEF WorldTyped, world
  <2>2. QED
    BY <1>0, <1>2, <1>3, <1>6, <2>1, BeginControl, BeginTyped DEF Step, bound
<1>7. ASSUME NEW p \in Procs, Work(p) PROVE TypeInv'
  <2>1. UNCHANGED bound
    BY <1>7 DEF Work, DeployStep, MoveStep, OtherStep, DeployMark, DeployRead,
      DeployDown, DeployUp, DeployRoute, DeployFinish, DeployRecord,
      DeployFailRecord, DeployFailStatus, MoveMark, CopyOpen, CopyDown, CopyTar,
      CopyRestart, MoveFail, MoveFailRecord, MoveRead, MoveSave, GetRoutes,
      PutRoutes, MoveCheck, CleanupFromServer, MoveRecord, RollbackSave,
      StopStartExec, StopStartStatus, UndeployRemote, Forget
  <2>2. QED
    BY <1>0, <1>2, <1>3, <1>7, <2>1, WorkTyped, WorldStep DEF Step, bound
<1>8. CASE Restart
  <2>1. DbTyped'
    BY <1>0, <1>8 DEF Restart, FailInterrupted, DbTyped, Row, Statuses
  <2>2. WorldTyped'
    BY <1>0, <1>8 DEF Restart, WorldTyped, Containers
  <2>3. JobTyped' /\ CopyHasSource'
    BY <1>8, Empty DEF Restart, JobTyped, CopyHasSource
  <2>4. QED
    BY <1>0, <1>2, <1>8, <2>1, <2>2, <2>3 DEF Restart
<1>9. CASE UNCHANGED vars
  BY <1>9, <1>0, <1>2
  DEF vars, db, world, proc, bound, DbTyped, WorldTyped, JobTyped, CopyHasSource
<1>10. QED
  BY <1>4, <1>5, <1>6, <1>7, <1>8, <1>9 DEF Next

\* Every variable keeps its type: no handler or operation of internal/app
\* stores a status, a server or a compose file out of range, whatever it read
\* before, and MoveApp never copies from a server it does not have.
THEOREM TypeCorrect == Spec => []TypeOK
<1>1. Init => TypeInv
  BY ConstantsAssumption, OpLabels, Labels, Empty
  DEF Init, TypeInv, TypeOK, ControlInv, ControlTyped, LockOwner, InOperation,
      CopyHasSource, Containers
<1>2. TypeInv => TypeOK
  BY DEF TypeInv
<1>3. QED
  BY <1>1, <1>2, TypeStep, PTL DEF Spec

---------------------------------------------------------------------------
(* The status "deploying".  Without moves that copy files, the status says *)
(* "deploying" only while some process is bound to replace it.             *)

\* The process will deploy, or is at it and has not written the outcome.
Settling(p) ==
  \/ pc[p] \in {"mark", "read", "down", "up", "route", "running", "failed",
                "logFirst", "failLast", "rollbackSave"}
  \/ /\ pc[p] \in {"lock", "patchGetRoutes", "patchPutRoutes",
                   "editGetRoutes", "editPutRoutes"}
     /\ job[p].op \in {"deploy", "git", "redeploy", "moveNoFiles"}

\* What a process may be doing, and with what: no MoveApp; AppDeployWeb
\* redeploys; and a handler that read "deploying" will spawn a deployment.
Errand(p) ==
  /\ job[p].op # "move"
  /\ pc[p] \notin {"moveMark", "copyOpen", "copyDown", "copyTar", "copyRestart",
                   "moveFail", "moveFailLog", "moveRead", "moveSave",
                   "moveGetRoutes", "movePutRoutes"}
  /\ pc[p] \in {"deployCheck", "deployMark"} => job[p].op = "redeploy"
  /\ pc[p] \in {"patchCheck", "patchWrite", "editCheck", "editWrite"}
       => /\ job[p].op \in {"none", "redeploy", "moveNoFiles"}
          /\ job[p].row.status = "deploying" => job[p].op # "none"
  /\ pc[p] \in {"patchGetRoutes", "patchPutRoutes"}
       => job[p].op = "moveNoFiles"

StatusInv == /\ \A p \in Procs : Errand(p)
             /\ app.status = "deploying" => \E p \in Procs : Settling(p)

\* The row and the operation a Patch or an edit remembers fit each other.
LEMMA ChangeErrand ==
  ASSUME FileMoves \subseteq {FALSE}, DbTyped,
         NEW c \in Composes, NEW to \in Servers \cup {None},
         NEW files \in FileMoves, NEW purge \in BOOLEAN,
         NEW change, change = Change(app, c, to, files, purge)
  PROVE  /\ change.op \in {"none", "redeploy", "moveNoFiles"}
         /\ change.row.status = "deploying" => change.op # "none"
<1>1. EditedRow(app, c, to, files).status = app.status
  BY DEF EditedRow, DbTyped, Row
<1>2. /\ SpawnedOp(app, to, files) \in {"none", "redeploy", "moveNoFiles"}
      /\ app.status = "deploying" => SpawnedOp(app, to, files) # "none"
  BY DEF SpawnedOp
<1>3. /\ change.op = SpawnedOp(app, to, files)
      /\ change.row = EditedRow(app, c, to, files)
  BY DEF Change, NoJob
<1>4. QED
  BY <1>1, <1>2, <1>3

\* The domains an edit form brings do not change its errand.
LEMMA DomainsErrand ==
  ASSUME NEW change \in Job, NEW doms
  PROVE  /\ WithDomains(change, doms).op = change.op
         /\ WithDomains(change, doms).row.status = change.row.status
BY DEF WithDomains, Job, Row

\* Every step keeps what handlers carry around within their errand.
LEMMA ErrandStep ==
  ASSUME FileMoves \subseteq {FALSE}, DbTyped, JobTyped, ControlTyped,
         NEW p \in Procs, Errand(p), Step(p)
  PROVE  Errand(p)'
<1>0. ASSUME pc'[p] = "idle", job'[p] = NoJob PROVE Errand(p)'
  BY <1>0 DEF NoJob, Errand
<1>1. CASE Request(p)
  <2>1. CASE Create(p)
    BY <2>1 DEF Create, proc, NewRequest, Job,
                Errand, Goto, ControlTyped, JobTyped
  <2>2. ASSUME NEW kind \in {"redeploy", "rollback", "stop", "start", "undeploy"},
               Operate(p, kind)
        PROVE  Errand(p)'
    BY <2>2 DEF Operate, Job, Errand, Goto, ControlTyped, JobTyped
  <2>3. CASE DeployByGit(p)
    BY <2>3 DEF DeployByGit, Job, Errand, Goto, ControlTyped, JobTyped
  <2>4. CASE ClearDeployments(p)
    BY <2>4 DEF ClearDeployments, proc, Errand
  <2>5. CASE DeployWebRead(p)
    BY <2>5 DEF DeployWebRead, Job, Errand, Goto, ControlTyped, JobTyped
  <2>6. CASE PatchRead(p)
    <3>1. PICK c \in Composes, to \in Servers \cup {app.server},
               files \in FileMoves, purge \in BOOLEAN :
            job' = [job EXCEPT ![p] = Change(app, c, to, files, purge)]
      BY <2>6 DEF PatchRead
    <3>2. to \in Servers \cup {None}
      BY DEF Row, DbTyped
    <3>3. pc'[p] = "patchCheck" /\ job'[p] = Change(app, c, to, files, purge)
      BY <2>6, <3>1 DEF PatchRead, Goto, ControlTyped, JobTyped
    <3>4. /\ job'[p].op \in {"none", "redeploy", "moveNoFiles"}
          /\ job'[p].row.status = "deploying" => job'[p].op # "none"
      BY <3>2, <3>3, ChangeErrand
    <3>5. QED
      BY <3>3, <3>4 DEF Errand
  <2>7. CASE EditRead(p)
    <3>1. PICK c \in Composes, to \in Servers \cup {None}, files \in FileMoves,
               purge \in BOOLEAN, doms \in SUBSET Domains :
            job' = [job EXCEPT ![p] =
                      WithDomains(Change(app, c, to, files, purge), doms)]
      BY <2>7 DEF EditRead
    <3> DEFINE change == Change(app, c, to, files, purge)
    <3>2. /\ pc'[p] = "editCheck"
          /\ job'[p] = WithDomains(change, doms)
      BY <2>7, <3>1 DEF EditRead, Goto, ControlTyped, JobTyped
    <3>3. /\ change \in Job
          /\ change.op \in {"none", "redeploy", "moveNoFiles"}
          /\ change.row.status = "deploying" => change.op # "none"
      BY ChangeTyped, ChangeErrand
    <3> HIDE DEF change
    <3>4. /\ job'[p].op \in {"none", "redeploy", "moveNoFiles"}
          /\ job'[p].row.status = "deploying" => job'[p].op # "none"
      BY <3>2, <3>3, DomainsErrand
    <3>5. QED
      BY <3>2, <3>4 DEF Errand
  <2>8. QED
    BY <1>1, <2>1, <2>2, <2>3, <2>4, <2>5, <2>6, <2>7 DEF Request
<1>2. CASE Handle(p)
  BY <1>2, <1>0 DEF Handle, BusyCheck, DeployWebMark, PatchWrite, GetRoutes,
                    PutRoutes, EditWrite, EditGetRoutes, EditPutRoutes, Return,
                    Job, Errand, Goto, ControlTyped, JobTyped
<1>3. CASE Begin(p)
  BY <1>3, <1>0 DEF Begin, BeginDeploy, BeginRedeploy, BeginRollback,
                    BeginStopStart, BeginUndeploy, BeginMove, Acquire, Enter,
                    GiveUp, Return, Job, Errand, Goto, ControlTyped, JobTyped
<1>4. CASE DeployStep(p)
  BY <1>4, <1>0 DEF DeployStep, DeployMark, DeployRead, DeployDown, DeployUp,
                    DeployRoute, DeployFinish, DeployRecord, DeployFailRecord,
                    DeployFailStatus, DeployReturns, Release, Job, Errand,
                    Goto, ControlTyped, JobTyped
<1>5. CASE MoveStep(p)
  BY <1>5, <1>0 DEF MoveStep, MoveMark, CopyOpen, CopyDown, CopyTar,
                    CopyRestart, MoveFail, MoveFailRecord, MoveRead, MoveSave,
                    GetRoutes, PutRoutes, MoveCheck, CleanupFromServer,
                    CleanupReturns, MoveRecord, Release, Errand, Goto,
                    ControlTyped, JobTyped
<1>6. CASE OtherStep(p)
  BY <1>6, <1>0 DEF OtherStep, RollbackSave, StopStartExec, StopStartStatus,
                    UndeployRemote, Forget, Release, Errand, Goto,
                    ControlTyped, JobTyped
<1>7. QED
  BY <1>1, <1>2, <1>3, <1>4, <1>5, <1>6 DEF Step, Work

\* Whoever makes or leaves the status "deploying" is bound to replace it.
LEMMA SettlingStep ==
  ASSUME DbTyped, JobTyped, ControlTyped, NEW p \in Procs, Errand(p), Step(p),
         app'.status = "deploying"
  PROVE  Settling(p)' \/ (app.status = "deploying" /\ ~Settling(p))
<1> USE DEF Settling, Goto, ControlTyped, JobTyped, Exists
<1>0. /\ \A s : UpdateStatus(s) => app'.status \in {s, "absent"}
      /\ \A row : Update(row) => app'.status \in {row.status, "absent"}
  BY DEF UpdateStatus, Update, DbTyped, Row
<1>1. CASE Request(p)
  BY <1>1 DEF Request, Create, Operate, DeployByGit, ClearDeployments,
              DeployWebRead, PatchRead, EditRead, NewRequest, db, proc
<1>2. CASE Handle(p)
  BY <1>0, <1>2 DEF Handle, BusyCheck, DeployWebMark, PatchWrite, GetRoutes,
                    PutRoutes, EditWrite, EditGetRoutes, EditPutRoutes, Return,
                    Errand, Job, db
<1>3. CASE Begin(p)
  BY <1>3 DEF Begin, BeginDeploy, BeginRedeploy, BeginRollback, BeginStopStart,
              BeginUndeploy, BeginMove, Acquire, Enter, GiveUp, Return, db
<1>4. CASE DeployStep(p)
  BY <1>0, <1>4 DEF DeployStep, DeployMark, DeployRead, DeployDown, DeployUp,
                    DeployRoute, DeployFinish, DeployRecord, DeployFailRecord,
                    DeployFailStatus, DeployReturns, Release, db
<1>5. CASE MoveStep(p)
  BY <1>5 DEF MoveStep, MoveMark, CopyOpen, CopyDown, CopyTar, CopyRestart,
              MoveFail, MoveFailRecord, MoveRead, MoveSave, GetRoutes,
              PutRoutes, MoveCheck, CleanupFromServer, CleanupReturns,
              MoveRecord, Release, Errand, db
<1>6. CASE OtherStep(p)
  <2>1. CASE RollbackSave(p)
    BY <2>1 DEF RollbackSave
  <2>2. CASE StopStartExec(p)
    BY <2>2 DEF StopStartExec, db
  <2>3. CASE StopStartStatus(p)
    BY <1>0, <2>3 DEF StopStartStatus
  <2>4. CASE UndeployRemote(p)
    BY <2>4 DEF UndeployRemote, db
  <2>5. CASE Forget(p)
    BY <2>5 DEF Forget, NoApp
  <2>6. QED
    BY <1>6, <2>1, <2>2, <2>3, <2>4, <2>5 DEF OtherStep
<1>7. QED
  BY <1>1, <1>2, <1>3, <1>4, <1>5, <1>6 DEF Step, Work

\* The invariant about "deploying" is inductive.
LEMMA StatusStep ==
  ASSUME FileMoves \subseteq {FALSE}
  PROVE  TypeInv /\ StatusInv /\ [Next]_vars => StatusInv'
<1> SUFFICES ASSUME TypeInv, StatusInv, [Next]_vars PROVE StatusInv'
  OBVIOUS
<1>0. DbTyped /\ JobTyped /\ ControlTyped
  BY DEF TypeInv, TypeOK, DbTyped, JobTyped, ControlTyped
<1>1. ASSUME NEW p \in Procs, Step(p) PROVE StatusInv'
  <2>1. \A q \in Procs \ {p} : pc'[q] = pc[q] /\ job'[q] = job[q]
    BY <1>0, <1>1, Locality DEF ControlTyped, JobTyped
  <2>2. \A q \in Procs : Errand(q)'
    <3>1. Errand(p)'
      BY <1>0, <1>1, ErrandStep DEF StatusInv
    <3>2. ASSUME NEW q \in Procs \ {p} PROVE Errand(q)'
      BY <2>1, <3>2 DEF StatusInv, Errand
    <3>3. QED
      BY <3>1, <3>2
  <2>3. ASSUME app'.status = "deploying" PROVE \E q \in Procs : Settling(q)'
    <3>1. Settling(p)' \/ (app.status = "deploying" /\ ~Settling(p))
      BY <1>0, <1>1, <2>3, SettlingStep DEF StatusInv
    <3>2. CASE app.status = "deploying" /\ ~Settling(p)
      <4>1. PICK q \in Procs \ {p} : Settling(q)
        BY <3>2 DEF StatusInv
      <4>2. Settling(q)'
        BY <2>1, <4>1 DEF Settling
      <4>3. QED
        BY <4>2
    <3>3. QED
      BY <3>1, <3>2
  <2>4. QED
    BY <2>2, <2>3 DEF StatusInv
<1>2. CASE Restart
  <2>1. app'.status # "deploying"
    BY <1>0, <1>2 DEF Restart, FailInterrupted, DbTyped, Row
  <2>2. QED
    BY <1>2, <2>1 DEF Restart, StatusInv, Errand, NoJob
<1>3. CASE UNCHANGED vars
  BY <1>3 DEF vars, db, proc, StatusInv, Errand, Settling
<1>4. QED
  BY <1>1, <1>2, <1>3 DEF Next, Step

\* As long as no move copies files, the status never stays "deploying": when
\* every request has been served, or the controller has restarted, it is a final
\* one, however handlers with stale rows raced with the operations.
THEOREM StatusSettles ==
  ASSUME FileMoves \subseteq {FALSE}
  PROVE  Spec => []NeverStuck
<1>1. Init => TypeInv /\ StatusInv
  <2>1. Init => TypeInv
    BY ConstantsAssumption, OpLabels, Labels, Empty
    DEF Init, TypeInv, TypeOK, ControlInv, ControlTyped, LockOwner,
        InOperation, CopyHasSource, Containers
  <2>2. Init => StatusInv
    BY DEF Init, StatusInv, Errand, NoApp, NoJob
  <2>3. QED
    BY <2>1, <2>2
<1>2. StatusInv => NeverStuck
  BY DEF StatusInv, NeverStuck, Quiescent, Settling
<1>3. QED
  BY <1>1, <1>2, TypeStep, StatusStep, PTL DEF Spec
=============================================================================
