-------------------------- MODULE SerializedProofs --------------------------
(***************************************************************************)
(* AppLifecycle implements Serialized: the proof that the operations of an *)
(* app, as they are coded, run one after the other, that only they touch   *)
(* the workers, and that nothing touches them once the app is deleted.     *)
(***************************************************************************)
EXTENDS AppLifecycleProofs

\* A process that may write back a row it read, or a status it remembers.
RowPCs  == {"patchCheck", "patchWrite", "editCheck", "editWrite",
            "rollbackSave", "moveSave"}
PrevPCs == {"moveMark", "copyOpen", "copyDown", "copyTar", "copyRestart",
            "moveFail", "moveRead", "moveSave"}

\* What a process holds was read from an existing row, and an operation that
\* has got past its first read still has its app.
Attends(p) ==
  /\ pc[p] \in RowPCs => job[p].row.status # "absent"
  /\ pc[p] \in PrevPCs => job[p].prev # "absent"
  /\ pc[p] \in OpPCs \ {"mark", "read"} => Exists

LifeInv ==
  /\ requests = 0 => ~Exists /\ \A p \in Procs : pc[p] = "idle"
  /\ \A p \in Procs : Attends(p)

---------------------------------------------------------------------------
(* The row: only Create makes it, only Forget deletes it.                  *)

\* A statement that stores a status other than "absent" leaves it to the row
\* whether there is an app.
LEMMA StatementsKeepApp ==
  ASSUME DbTyped
  PROVE  /\ \A s : s # "absent" /\ UpdateStatus(s) => (Exists' <=> Exists)
         /\ \A row : row.status # "absent" /\ Update(row)
                       => (Exists' <=> Exists)
BY DEF DbTyped, Row, UpdateStatus, Update, Exists

\* A step other than these two neither makes nor deletes the app.
LEMMA AppKept ==
  ASSUME DbTyped, NEW p \in Procs, Attends(p), Step(p), ~Create(p), ~Forget(p)
  PROVE  Exists' <=> Exists
<1> USE StatementsKeepApp DEF RowPCs, PrevPCs, Attends
<1>1. CASE Request(p)
  BY <1>1 DEF Request, Operate, DeployByGit, ClearDeployments, DeployWebRead,
              PatchRead, EditRead, db, Exists
<1>2. CASE Handle(p)
  <2>1. CASE DeployWebMark(p)
    BY <2>1 DEF DeployWebMark
  <2>2. CASE PatchWrite(p)
    BY <2>2 DEF PatchWrite
  <2>3. CASE EditWrite(p)
    BY <2>3 DEF EditWrite
  <2>4. QED
    BY <1>2, <2>1, <2>2, <2>3 DEF Handle, BusyCheck, GetRoutes, PutRoutes,
       EditGetRoutes, EditPutRoutes, db, Exists
<1>3. CASE Begin(p)
  BY <1>3, BeginControl DEF db, Exists
<1>4. CASE DeployStep(p)
  <2>1. CASE DeployMark(p)
    BY <2>1 DEF DeployMark
  <2>2. CASE DeployFinish(p)
    BY <2>2 DEF DeployFinish
  <2>3. CASE DeployFailStatus(p)
    BY <2>3 DEF DeployFailStatus
  <2>4. QED
    BY <1>4, <2>1, <2>2, <2>3 DEF DeployStep, DeployRead, DeployDown, DeployUp,
       DeployRoute, DeployRecord, DeployFailRecord, db, Exists
<1>5. CASE MoveStep(p)
  <2>1. CASE MoveMark(p)
    BY <2>1 DEF MoveMark
  <2>2. CASE MoveFail(p)
    BY <2>2 DEF MoveFail
  <2>3. CASE MoveSave(p)
    BY <2>3 DEF MoveSave, Exists
  <2>4. QED
    BY <1>5, <2>1, <2>2, <2>3 DEF MoveStep, CopyOpen, CopyDown, CopyTar,
       CopyRestart, MoveFailRecord, MoveRead, GetRoutes, PutRoutes, MoveCheck,
       CleanupFromServer, MoveRecord, db, Exists
<1>6. CASE OtherStep(p)
  <2>1. CASE RollbackSave(p)
    BY <2>1 DEF RollbackSave
  <2>2. CASE StopStartStatus(p)
    BY <2>2 DEF StopStartStatus
  <2>3. QED
    BY <1>6, <2>1, <2>2 DEF OtherStep, StopStartExec, UndeployRemote, db, Exists
<1>7. QED
  BY <1>1, <1>2, <1>3, <1>4, <1>5, <1>6 DEF Step, Work

\* Only a request counts as one.
LEMMA RequestsKept ==
  ASSUME NEW p \in Procs, Handle(p) \/ Begin(p) \/ Work(p)
  PROVE  UNCHANGED requests
<1>1. CASE Handle(p)
  BY <1>1 DEF bound, Handle, BusyCheck, DeployWebMark, PatchWrite, GetRoutes,
              PutRoutes, EditWrite, EditGetRoutes, EditPutRoutes
<1>2. CASE Begin(p)
  BY <1>2, BeginControl DEF bound
<1>3. CASE Work(p)
  BY <1>3 DEF bound, Work, DeployStep, MoveStep, OtherStep, DeployMark,
    DeployRead, DeployDown, DeployUp, DeployRoute, DeployFinish, DeployRecord,
    DeployFailRecord, DeployFailStatus, MoveMark, CopyOpen, CopyDown, CopyTar,
    CopyRestart, MoveFail, MoveFailRecord, MoveRead, MoveSave, GetRoutes,
    PutRoutes, MoveCheck, CleanupFromServer, MoveRecord, RollbackSave,
    StopStartExec, StopStartStatus, UndeployRemote, Forget
<1>4. QED
  BY <1>1, <1>2, <1>3

---------------------------------------------------------------------------
(* What the processes hold.                                                *)

\* A Patch or an edit keeps the status of the row it read.
LEMMA ChangeStatus ==
  ASSUME DbTyped, NEW c \in Composes, NEW to \in Servers \cup {None},
         NEW files, NEW purge \in BOOLEAN
  PROVE  Change(app, c, to, files, purge).row.status = app.status
<1>1. EditedRow(app, c, to, files).status = app.status
  BY DEF EditedRow, DbTyped, Row
<1>2. Change(app, c, to, files, purge).row = EditedRow(app, c, to, files)
  BY DEF Change, NoJob
<1>3. QED
  BY <1>1, <1>2

\* A request holds a row only if it has just read it.
LEMMA RequestAttends ==
  ASSUME DbTyped, JobTyped, ControlTyped, NEW p \in Procs, Attends(p),
         Request(p)
  PROVE  Attends(p)'
<1> USE DEF RowPCs, PrevPCs, Attends, ControlTyped, JobTyped
<1>0. \A l \in {"idle", "lock", "deployCheck", "patchCheck", "editCheck"} :
        l \notin OpPCs
  BY OpLabels DEF HandlerPCs
<1>1. CASE PatchRead(p)
  <2>1. PICK c \in Composes, to \in Servers \cup {app.server},
             files \in FileMoves, purge \in BOOLEAN :
          job' = [job EXCEPT ![p] = Change(app, c, to, files, purge)]
    BY <1>1 DEF PatchRead
  <2>2. to \in Servers \cup {None}
    BY DEF Row, DbTyped
  <2>3. job'[p].row.status = app.status
    BY <2>1, <2>2, ChangeStatus
  <2>4. QED
    BY <1>0, <1>1, <2>3 DEF PatchRead, Goto, Exists
<1>2. CASE EditRead(p)
  <2>1. PICK c \in Composes, to \in Servers \cup {None}, files \in FileMoves,
             purge \in BOOLEAN, doms \in SUBSET Domains :
          job' = [job EXCEPT ![p] =
                    WithDomains(Change(app, c, to, files, purge), doms)]
    BY <1>2 DEF EditRead
  <2>2. job'[p].row.status = app.status
    BY <2>1, ChangeStatus, ChangeTyped, DomainsErrand
  <2>3. QED
    BY <1>0, <1>2, <2>2 DEF EditRead, Goto, Exists
<1>3. CASE UNCHANGED proc
  BY <1>0, <1>3 DEF proc, Request, NewRequest, Create, Operate, DeployByGit,
     ClearDeployments, DeployWebRead, PatchRead, EditRead, Goto
<1>4. QED
  BY <1>0, <1>1, <1>2, <1>3 DEF Request, Create, Operate, DeployByGit,
     ClearDeployments, DeployWebRead, Goto, proc

\* A handler carries its row to the statement that writes it.
LEMMA HandleAttends ==
  ASSUME JobTyped, ControlTyped, NEW p \in Procs, Attends(p), Handle(p)
  PROVE  Attends(p)'
<1>0. \A l \in HandlerPCs \cup {"idle"} : l \notin OpPCs
  BY OpLabels
<1>1. pc'[p] \notin OpPCs
  BY <1>0, OutsideControl DEF Goto, ControlTyped
<1>2. pc'[p] \in RowPCs => pc[p] \in RowPCs /\ job'[p] = job[p]
  BY DEF RowPCs, Handle, BusyCheck, DeployWebMark, PatchWrite, GetRoutes,
         PutRoutes, EditWrite, EditGetRoutes, EditPutRoutes, Return, Goto,
         ControlTyped, JobTyped
<1>3. PrevPCs \subseteq OpPCs
  BY OpLabels DEF PrevPCs
<1>4. QED
  BY <1>1, <1>2, <1>3 DEF Attends

\* An operation starts with the row of an existing app, unless it deploys.
LEMMA BeginAttends ==
  ASSUME DbTyped, JobTyped, ControlTyped, NEW p \in Procs, Attends(p), Begin(p)
  PROVE  Attends(p)'
<1> USE DEF RowPCs, PrevPCs, Attends, ControlTyped, JobTyped, Acquire, Enter,
            GiveUp, Return, Goto
<1>0. "idle" \notin OpPCs /\ UNCHANGED Exists
  BY OpLabels, BeginControl DEF db, Exists
<1>1. CASE BeginDeploy(p) \/ BeginRedeploy(p)
  BY <1>0, <1>1 DEF BeginDeploy, BeginRedeploy
<1>2. CASE BeginRollback(p)
  BY <1>0, <1>2 DEF BeginRollback, Job, DbTyped, Row, Exists
<1>3. CASE BeginStopStart(p)
  BY <1>0, <1>3 DEF BeginStopStart
<1>4. CASE BeginUndeploy(p)
  BY <1>0, <1>4 DEF BeginUndeploy
<1>5. CASE BeginMove(p)
  <2>1. CASE Exists
    <3>1. pc'[p] = "moveMark"
      BY <1>5, <2>1 DEF BeginMove
    <3>2. job'[p].prev = app.status
      <4>1. job'[p] = [job[p] EXCEPT !.row = app, !.prev = app.status]
        BY <1>5, <2>1 DEF BeginMove
      <4>2. job[p] \in Job
        OBVIOUS
      <4>3. QED
        BY ONLY <4>1, <4>2 DEF Job
    <3>3. QED
      BY <1>0, <2>1, <3>1, <3>2 DEF Exists
  <2>2. CASE ~Exists
    BY <1>0, <1>5, <2>2 DEF BeginMove
  <2>3. QED
    BY <2>1, <2>2
<1>6. QED
  BY <1>1, <1>2, <1>3, <1>4, <1>5 DEF Begin

\* An operation that found its app keeps what it knows of it.
LEMMA WorkAttends ==
  ASSUME DbTyped, JobTyped, ControlTyped, NEW p \in Procs, Attends(p), Work(p)
  PROVE  Attends(p)'
<1>0. pc'[p] # "idle" => (Exists' <=> Exists)
  <2>1. ~Create(p)
    BY WorkControl, OpLabels DEF Create, NewRequest
  <2>2. CASE Forget(p)
    BY <2>2 DEF Forget, Release, ControlTyped
  <2>3. QED
    BY <2>1, <2>2, AppKept DEF Step
<1>1. pc'[p] \in RowPCs \cup PrevPCs => Attends(p)'
  <2> USE DEF RowPCs, PrevPCs, ControlTyped, JobTyped, Goto, Release
  <2>1. CASE DeployStep(p)
    BY <2>1 DEF DeployStep, DeployMark, DeployRead, DeployDown, DeployUp,
                DeployRoute, DeployFinish, DeployRecord, DeployFailRecord,
                DeployFailStatus, DeployReturns
  <2>2. CASE MoveRead(p)
    BY <1>0, <2>2, OpLabels DEF MoveRead, Attends, Job, DbTyped, Row, Exists
  <2>3. CASE MoveStep(p) /\ ~MoveRead(p)
    <3>1. pc'[p] \in PrevPCs => /\ pc[p] \in PrevPCs
                                /\ job'[p] = job[p]
                                /\ pc'[p] # "moveSave"
      BY <2>3 DEF MoveStep, MoveMark, CopyOpen, CopyDown, CopyTar, CopyRestart,
                  MoveFail, MoveFailRecord, MoveSave, GetRoutes, PutRoutes,
                  MoveCheck, CleanupFromServer, CleanupReturns, MoveRecord
    <3>2. pc'[p] \in RowPCs => pc'[p] = "moveSave"
      BY <2>3, WorkControl, OpLabels DEF Proceeds, MoveStep, MoveMark, CopyOpen,
         CopyDown, CopyTar, CopyRestart, MoveFail, MoveFailRecord, MoveSave,
         GetRoutes, PutRoutes, MoveCheck, CleanupFromServer, CleanupReturns,
         MoveRecord
    <3>3. QED
      BY <1>0, <3>1, <3>2, OpLabels DEF Attends
  <2>4. CASE OtherStep(p)
    BY <2>4 DEF OtherStep, RollbackSave, StopStartExec, StopStartStatus,
                UndeployRemote, Forget
  <2>5. QED
    BY <2>1, <2>2, <2>3, <2>4 DEF Work
<1>2. pc'[p] \in OpPCs \ {"mark", "read"} => Exists'
  <2>1. pc[p] \in {"mark", "read"} /\ pc'[p] \in OpPCs \ {"mark", "read"}
          => Exists
    <3>1. CASE DeployMark(p)
      BY <3>1 DEF DeployMark, Goto, ControlTyped
    <3>2. CASE DeployRead(p)
      BY <3>2, OpLabels DEF DeployRead, Release, ControlTyped
    <3>3. CASE ~DeployMark(p) /\ ~DeployRead(p)
      BY <3>3 DEF Work, DeployStep, MoveStep, OtherStep, DeployDown, DeployUp,
        DeployRoute, DeployFinish, DeployRecord, DeployFailRecord,
        DeployFailStatus, MoveMark, CopyOpen, CopyDown, CopyTar, CopyRestart,
        MoveFail, MoveFailRecord, MoveRead, MoveSave, GetRoutes, PutRoutes,
        MoveCheck, CleanupFromServer, MoveRecord, RollbackSave, StopStartExec,
        StopStartStatus, UndeployRemote, Forget
    <3>4. QED
      BY <3>1, <3>2, <3>3
  <2>2. pc[p] \in OpPCs /\ (pc'[p] \in OpPCs => pc'[p] # "idle")
    BY WorkControl, OpLabels
  <2>3. QED
    BY <1>0, <2>1, <2>2 DEF Attends
<1>3. QED
  BY <1>1, <1>2 DEF Attends

\* LifeInv is inductive: what a process holds is its own affair, except that
\* the app may go away, and then nobody else is inside an operation.
LEMMA LifeStep == TypeInv /\ LifeInv /\ [Next]_vars => LifeInv'
<1> SUFFICES ASSUME TypeInv, LifeInv, [Next]_vars PROVE LifeInv'
  OBVIOUS
<1>0. /\ DbTyped /\ JobTyped /\ ControlTyped /\ LockOwner
      /\ requests \in Nat
  BY DEF TypeInv, TypeOK, DbTyped, JobTyped, ControlTyped, ControlInv
<1>1. ASSUME NEW p \in Procs, Step(p) PROVE LifeInv'
  <2>0. Attends(p)
    BY DEF LifeInv
  <2>1. \A q \in Procs \ {p} : pc'[q] = pc[q] /\ job'[q] = job[q]
    BY <1>0, <1>1, Locality DEF ControlTyped, JobTyped
  <2>2. Attends(p)'
    BY <1>0, <1>1, <2>0, RequestAttends, HandleAttends, BeginAttends,
       WorkAttends DEF Step
  <2>3. ASSUME NEW q \in Procs \ {p} PROVE Attends(q)'
    <3>1. Attends(q)
      BY DEF LifeInv
    <3>2. CASE Exists => Exists'
      BY <2>1, <3>1, <3>2 DEF Attends
    <3>3. CASE Forget(p)
      <4>1. pc[p] \in OpPCs
        BY <3>3, OpLabels DEF Forget
      <4>2. pc[q] \notin OpPCs
        BY <1>0, <4>1 DEF LockOwner, InOperation
      <4>3. QED
        BY <2>1, <3>1, <4>2 DEF Attends
    <3>4. CASE Create(p)
      BY <3>2, <3>4 DEF Create, Exists
    <3>5. QED
      BY <1>0, <1>1, <2>0, <3>2, <3>3, <3>4, AppKept
  <2>4. requests' # 0
    <3>1. CASE Request(p)
      BY <1>0, <3>1 DEF Request, Create, Operate, DeployByGit,
         ClearDeployments, DeployWebRead, PatchRead, EditRead, NewRequest
    <3>2. CASE Handle(p) \/ Begin(p) \/ Work(p)
      <4>1. pc[p] # "idle"
        BY <3>2, BeginControl, WorkControl, OpLabels DEF Handle, BusyCheck,
           DeployWebMark, PatchWrite, GetRoutes, PutRoutes, EditWrite,
           EditGetRoutes, EditPutRoutes
      <4>2. QED
        BY <3>2, <4>1, RequestsKept DEF LifeInv
    <3>3. QED
      BY <1>1, <3>1, <3>2 DEF Step
  <2>5. QED
    BY <2>2, <2>3, <2>4 DEF LifeInv
<1>2. CASE Restart
  <2>1. \A p \in Procs : pc'[p] = "idle"
    BY <1>2 DEF Restart
  <2>2. "idle" \notin RowPCs \cup PrevPCs \cup OpPCs
    BY OpLabels DEF RowPCs, PrevPCs
  <2>3. requests' = 0 => ~Exists'
    BY <1>2 DEF Restart, FailInterrupted, LifeInv, Exists
  <2>4. QED
    BY <2>1, <2>2, <2>3 DEF LifeInv, Attends
<1>3. CASE UNCHANGED vars
  BY <1>3 DEF vars, db, proc, bound, LifeInv, Attends, Exists
<1>4. QED
  BY <1>1, <1>2, <1>3 DEF Next, Step

---------------------------------------------------------------------------
(* The implementation.                                                     *)

\* The mutex tells who is inside.
LEMMA InsideIs ==
  ASSUME LockOwner
  PROVE  /\ lock = Nobody => Inside = {}
         /\ \A p \in Procs : lock = p => Inside = {p}
BY ConstantsAssumption DEF LockOwner, Inside

\* Until it has found its app an operation runs no command.
LEMMA BlindWork ==
  ASSUME NEW p \in Procs, Work(p), pc[p] \in {"mark", "read"}
  PROVE  UNCHANGED world
BY DEF world, Work, DeployStep, MoveStep, OtherStep, DeployMark, DeployRead,
  DeployDown, DeployUp, DeployRoute, DeployFinish, DeployRecord,
  DeployFailRecord, DeployFailStatus, MoveMark, CopyOpen, CopyDown, CopyTar,
  CopyRestart, MoveFail, MoveFailRecord, MoveRead, MoveSave, GetRoutes,
  PutRoutes, MoveCheck, CleanupFromServer, MoveRecord, RollbackSave,
  StopStartExec, StopStartStatus, UndeployRemote, Forget

\* The steps of the abstract specification, or none.
Abstract == [Ser!Next]_<<Inside, world, Life>>

\* A request creates the app if it is the first one, else nothing happens.
LEMMA RequestAbstract ==
  ASSUME TypeInv, LifeInv, LockOwner', NEW p \in Procs, Request(p)
  PROVE  Abstract
<1>0. DbTyped /\ LockOwner /\ Attends(p) /\ requests \in Nat
  BY DEF TypeInv, TypeOK, DbTyped, ControlInv, LifeInv
<1>1. UNCHANGED <<Inside, world>>
  BY <1>0, OutsideControl DEF Inside, LockOwner
<1>2. requests' # 0
  BY <1>0 DEF Request, Create, Operate, DeployByGit, ClearDeployments,
              DeployWebRead, PatchRead, EditRead, NewRequest
<1>3. CASE Create(p)
  <2>1. Life = "new" /\ Life' = "alive"
    BY <1>2, <1>3 DEF Create, Life, Exists
  <2>2. Ser!Create
    BY <1>1, <2>1 DEF Ser!Create
  <2>3. QED
    BY <2>2 DEF Abstract, Ser!Next
<1>4. CASE ~Create(p)
  <2>1. Exists' <=> Exists
    BY <1>0, <1>4, AppKept, OpLabels, OutsideControl DEF Step, Forget
  <2>2. requests # 0
    BY <1>4 DEF LifeInv, Request, Operate, DeployByGit, ClearDeployments,
                DeployWebRead, PatchRead, EditRead, Exists
  <2>3. UNCHANGED Life
    BY <1>2, <2>1, <2>2 DEF Life
  <2>4. QED
    BY <1>1, <2>3 DEF Abstract
<1>5. QED
  BY <1>3, <1>4

\* A handler does nothing the abstract specification sees.
LEMMA HandleAbstract ==
  ASSUME TypeInv, LifeInv, LockOwner', NEW p \in Procs, Handle(p)
  PROVE  Abstract
<1>0. DbTyped /\ LockOwner /\ Attends(p)
  BY DEF TypeInv, TypeOK, DbTyped, ControlInv, LifeInv
<1>1. UNCHANGED <<Inside, world>>
  BY <1>0, OutsideControl DEF Inside, LockOwner
<1>2. ~Create(p) /\ ~Forget(p)
  BY OutsideControl, OpLabels DEF Forget, Create, NewRequest, Handle, BusyCheck,
     DeployWebMark, PatchWrite, GetRoutes, PutRoutes, EditWrite, EditGetRoutes,
     EditPutRoutes
<1>3. UNCHANGED Life
  BY <1>0, <1>2, AppKept, RequestsKept DEF Step, Life
<1>4. QED
  BY <1>1, <1>3 DEF Abstract

\* The first step of an operation enters, or gives up.
LEMMA BeginAbstract ==
  ASSUME TypeInv, LifeInv, LockOwner', NEW p \in Procs, Begin(p)
  PROVE  Abstract
<1>0. LockOwner
  BY DEF TypeInv, ControlInv
<1>1. Inside = {} /\ UNCHANGED <<world, Life>>
  BY <1>0, BeginControl, InsideIs DEF Life, Exists, db, bound
<1>2. CASE lock' = p
  <2>1. Inside' = {p}
    BY <1>2 DEF Inside, LockOwner
  <2>2. Ser!Enter(p)
    BY <1>1, <2>1 DEF Ser!Enter
  <2>3. QED
    BY <2>2 DEF Abstract, Ser!Next
<1>3. CASE UNCHANGED lock
  BY <1>0, <1>1, <1>3 DEF Abstract, Inside, LockOwner
<1>4. QED
  BY <1>2, <1>3, BeginControl

\* A step inside an operation is a command, or the operation leaves, and
\* Undeploy leaves with the app.
LEMMA WorkAbstract ==
  ASSUME TypeInv, LifeInv, LockOwner', NEW p \in Procs, Work(p)
  PROVE  Abstract
<1>0. DbTyped /\ LockOwner /\ Attends(p) /\ pc[p] \in OpPCs
  BY WorkControl DEF TypeInv, TypeOK, DbTyped, ControlInv, LifeInv
<1>1. lock = p /\ Inside = {p}
  BY <1>0, InsideIs DEF LockOwner, InOperation
<1>2. Life = IF Exists THEN "alive" ELSE "gone"
  BY <1>0, OpLabels DEF Life, LifeInv
<1>3. Life' = IF Exists' THEN "alive" ELSE "gone"
  BY <1>2, RequestsKept DEF Life
<1>4. Life = "gone" => UNCHANGED world
  BY <1>0, <1>2, BlindWork DEF Attends
<1>5. lock' = p \/ lock' = Nobody
  BY <1>1, WorkControl DEF Proceeds, Release
<1>6. /\ lock' = p => Inside' = {p}
      /\ lock' = Nobody => Inside' = {}
  BY ConstantsAssumption DEF Inside, LockOwner
<1>7. CASE Forget(p)
  <2>1. Life = "alive"
    BY <1>0, <1>2, <1>7 DEF Attends, Forget
  <2>2. Life' = "gone"
    BY <1>3, <1>7 DEF Forget, NoApp, Exists
  <2>3. Ser!Delete(p)
    BY <1>1, <1>6, <1>7, <2>1, <2>2 DEF Ser!Delete, Forget, Release
  <2>4. QED
    BY <2>3 DEF Abstract, Ser!Next
<1>8. CASE ~Forget(p)
  <2>1. ~Create(p)
    BY <1>0, OpLabels DEF Create, NewRequest
  <2>2. UNCHANGED Life
    BY <1>0, <1>2, <1>3, <1>8, <2>1, AppKept DEF Step
  <2>3. CASE lock' = p
    <3>1. Ser!Command
      BY <1>1, <1>4, <1>6, <2>2, <2>3 DEF Ser!Command
    <3>2. QED
      BY <3>1 DEF Abstract, Ser!Next
  <2>4. CASE lock' = Nobody
    <3>1. Ser!Leave(p)
      BY <1>1, <1>4, <1>6, <2>2, <2>4 DEF Ser!Leave
    <3>2. QED
      BY <3>1 DEF Abstract, Ser!Next
  <2>5. QED
    BY <1>5, <2>3, <2>4
<1>9. QED
  BY <1>7, <1>8

\* A restart ends the operation that runs, and touches the workers only through
\* the command that operation was running.
LEMMA RestartAbstract ==
  ASSUME TypeInv, LifeInv, LockOwner', Restart
  PROVE  Abstract
<1>0. /\ DbTyped /\ LockOwner /\ lock \in Procs \cup {Nobody}
      /\ ctr \in [Servers -> Containers]
  BY DEF TypeInv, TypeOK, DbTyped, ControlInv
<1>1. Inside' = {}
  BY ConstantsAssumption DEF Restart, Inside, LockOwner
<1>2. UNCHANGED Life
  BY <1>0 DEF Restart, FailInterrupted, Life, Exists, DbTyped, Row
<1>3. ASSUME \A s \in Servers : ~InUse(s) PROVE UNCHANGED world
  <2>1. ctr' = [s \in Servers |-> ctr[s]]
    BY <1>3 DEF Restart
  <2>2. QED
    BY <1>0, <2>1 DEF Restart, world
<1>4. CASE lock = Nobody
  <2>1. Inside = {}
    BY <1>0, <1>4, InsideIs
  <2>2. \A s \in Servers : ~InUse(s)
    BY <2>1, OpLabels DEF InUse, Inside, InOperation
  <2>3. QED
    BY <1>1, <1>2, <1>3, <2>1, <2>2 DEF Abstract
<1>5. CASE lock \in Procs
  <2> DEFINE p == lock
  <2>1. Inside = {p}
    BY <1>0, <1>5, InsideIs
  <2>2. ASSUME Life = "gone" PROVE UNCHANGED world
    <3>1. Attends(p) /\ ~Exists /\ pc[p] \in OpPCs
      BY <1>0, <1>5, <2>2 DEF LifeInv, Life, LockOwner, InOperation
    <3>2. pc[p] \in {"mark", "read"}
      BY <3>1 DEF Attends
    <3>3. \A q \in Procs : pc[q] \in OpPCs => pc[q] \in {"mark", "read"}
      BY <1>0, <3>2 DEF LockOwner, InOperation
    <3>4. \A s \in Servers : ~InUse(s)
      BY <3>3, OpLabels DEF InUse
    <3>5. QED
      BY <1>3, <3>4
  <2>3. Ser!Leave(p)
    BY <1>1, <1>2, <2>1, <2>2 DEF Ser!Leave
  <2>4. QED
    BY <1>5, <2>3 DEF Abstract, Ser!Next
<1>6. QED
  BY <1>0, <1>4, <1>5

\* The lifecycle operations of internal/app, with their handlers, races,
\* failures and restarts, implement the abstract serialized app: one operation
\* at a time, only it touches the workers, only it deletes the app, and nothing
\* touches the workers afterwards.
THEOREM Implements == Spec => Serializes
<1>1. Init => TypeInv /\ LifeInv /\ Ser!Init
  <2>1. Init => TypeInv
    BY ConstantsAssumption, OpLabels, Labels, Empty
    DEF Init, TypeInv, TypeOK, ControlInv, ControlTyped, LockOwner,
        InOperation, CopyHasSource, Containers
  <2>2. Init => LifeInv
    BY OpLabels DEF Init, LifeInv, Attends, RowPCs, PrevPCs, NoApp, Exists
  <2>3. Init => Ser!Init
    BY OpLabels DEF Init, Ser!Init, Inside, InOperation, Life
  <2>4. QED
    BY <2>1, <2>2, <2>3
<1>2. TypeInv /\ LifeInv /\ [Next]_vars => Abstract
  <2> SUFFICES ASSUME TypeInv, LifeInv, [Next]_vars PROVE Abstract
    OBVIOUS
  <2>1. LockOwner'
    BY TypeStep DEF TypeInv, ControlInv
  <2>2. CASE UNCHANGED vars
    BY <2>2 DEF vars, db, proc, bound, Abstract, Inside, InOperation, Life,
                Exists
  <2>3. QED
    BY <2>1, <2>2, RequestAbstract, HandleAbstract, BeginAbstract,
       WorkAbstract, RestartAbstract DEF Next
<1>3. QED
  BY <1>1, <1>2, TypeStep, LifeStep, PTL DEF Spec, Serializes, Ser!Spec, Abstract
=============================================================================
