------------------------------ MODULE Servers ------------------------------
(***************************************************************************)
(* The servers ("workers") of the controller: internal/server, and the     *)
(* host keys that internal/ssh pins in their rows.                         *)
(*                                                                         *)
(* A process is an HTTP handler and the goroutine it spawns, or a          *)
(* goroutine of the monitor.  Nothing excludes two processes that work on  *)
(* the same server: there is no mutex and no check for one in progress.    *)
(* A step is one statement, one file operation, one connection or one      *)
(* remote script.                                                          *)
(***************************************************************************)
EXTENDS Naturals, Sequences

CONSTANTS
  Servers,       \* ids of servers: an id is never used again (AUTOINCREMENT)
  Hosts,         \* addresses, host and port, with a machine behind each
  Procs,         \* concurrent handlers and goroutines
  Foreign,       \* the addresses where a caddy container not ours exists
  None,          \* no host key is pinned
  Kinds,         \* the kinds of request that may arrive
  Faults,        \* what may fail although the worker can be reached
  MaxRequests,   \* bound: requests in a behaviour
  MaxChanges,    \* bound: times a worker becomes reachable or unreachable
  MaxReinstalls, \* bound: times a machine is installed anew
  MaxCrashes     \* bound: restarts of the controller

AllKinds == {"patch", "edit", "init", "refresh", "delete"}

AllFaults == {"disk", "docker", "inspect", "caddy"}

\* The host key of a machine: a new one with every installation.
Keys == [host : Hosts, install : Nat]

ASSUME ServersAssumption ==
  /\ None \notin Keys \cup Hosts
  /\ Foreign \subseteq Hosts
  /\ Kinds \subseteq AllKinds
  /\ Faults \subseteq AllFaults
  /\ MaxRequests \in Nat
  /\ MaxChanges \in Nat
  /\ MaxReinstalls \in Nat
  /\ MaxCrashes \in Nat

VARIABLES
  row,       \* row[s]: the row of table servers
  pem,       \* pem[s]: the key file of s: none, whole, or cut off
  apps,      \* the servers that a row of table apps points at
  worker,    \* worker[h]: "up", "down", "locked": up, our key not installed, or
             \* "hung": it accepts a connection and then never answers
  install,   \* install[h]: how often the machine was installed anew
  proxy,     \* proxy[h]: the container named caddy: ours, foreign or none
  pc, job,   \* what each process does next, and its local variables
  requests, changes, crashes

db      == <<row, apps>>
machine == <<worker, install, proxy>>
proc    == <<pc, job>>
bound   == <<requests, changes, crashes>>
vars    == <<db, pem, machine, proc, bound>>

---------------------------------------------------------------------------
(* Types.                                                                  *)

Statuses == {"pending", "initializing", "online", "offline", "error"}

\* "unused": not inserted yet; "gone": deleted.  saved: ssh_key holds the path
\* of the key file, not "pending".
Row == [status : Statuses \cup {"unused", "gone"}, host : Hosts \cup {None},
        saved : BOOLEAN, hostKey : Keys \cup {None}]

Unused == [status |-> "unused", host |-> None, saved |-> FALSE,
           hostKey |-> None]

Exists(s) == row[s].status \in Statuses

KeyFile == {"none", "whole", "cut"}

Reach == {"up", "locked", "down", "hung"}

Contacts == {"test", "init", "refresh"}

Job == [kind : {"none", "create", "contact"} \cup AllKinds,
        server : Servers \cup {None}, row : Row, supplied : BOOLEAN,
        todo : Seq(Contacts), verdict : Statuses]

NoJob == [kind |-> "none", server |-> None, row |-> Unused, supplied |-> FALSE,
          todo |-> <<>>, verdict |-> "pending"]

PCs == {"idle", "saveKey", "update", "deleteRow", "deleteFiles",
        "get", "mark", "connect", "work", "report"}

TypeOK ==
  /\ row \in [Servers -> Row]
  /\ pem \in [Servers -> KeyFile]
  /\ apps \subseteq Servers
  /\ worker \in [Hosts -> Reach]
  /\ install \in [Hosts -> Nat]
  /\ proxy \in [Hosts -> {"none", "ours", "foreign"}]
  /\ pc \in [Procs -> PCs]
  /\ job \in [Procs -> Job]
  /\ requests \in Nat /\ changes \in Nat /\ crashes \in Nat

Init ==
  /\ row = [s \in Servers |-> Unused]
  /\ pem = [s \in Servers |-> "none"]
  /\ apps = {}
  /\ worker = [h \in Hosts |-> "up"]
  /\ install = [h \in Hosts |-> 0]
  /\ proxy = [h \in Hosts |-> IF h \in Foreign THEN "foreign" ELSE "none"]
  /\ pc = [p \in Procs |-> "idle"]
  /\ job = [p \in Procs |-> NoJob]
  /\ requests = 0 /\ changes = 0 /\ crashes = 0

---------------------------------------------------------------------------
(* The repository: one SQL statement each, without effect when the row is  *)
(* not there.                                                              *)

UpdateStatus(s, status) ==
  row' = IF Exists(s) THEN [row EXCEPT ![s].status = status] ELSE row

\* UPDATE servers SET every column: status and host key too.
Update(s, r) == row' = IF Exists(s) THEN [row EXCEPT ![s] = r] ELSE row

\* SELECT host_key ... LIMIT 1: of any of the rows with this address.
HostKey(h) ==
  LET same == {s \in Servers : Exists(s) /\ row[s].host = h}
  IN  IF same = {} THEN {None} ELSE {row[s].hostKey : s \in same}

SaveHostKey(h, key) ==
  row' = [s \in Servers |-> IF Exists(s) /\ row[s].host = h
                              THEN [row[s] EXCEPT !.hostKey = key]
                              ELSE row[s]]

---------------------------------------------------------------------------
(* Control.                                                                *)

Goto(p, label) == pc' = [pc EXCEPT ![p] = label]

Return(p) ==
  /\ pc' = [pc EXCEPT ![p] = "idle"]
  /\ job' = [job EXCEPT ![p] = NoJob]

\* The next contact with the worker, or the end of the goroutine.
Continue(p, todo) ==
  IF todo = <<>>
    THEN Return(p)
    ELSE /\ Goto(p, "get")
         /\ job' = [job EXCEPT ![p] = [NoJob EXCEPT !.kind = "contact",
                      !.server = job[p].server, !.todo = todo]]

\* The contact is over; its status is to be written.
Concludes(p, verdict) ==
  /\ Goto(p, "report")
  /\ job' = [job EXCEPT ![p].verdict = verdict]

NewRequest(p, kind) ==
  /\ pc[p] = "idle"
  /\ kind \in Kinds \cup {"create"}
  /\ requests < MaxRequests
  /\ requests' = requests + 1
  /\ UNCHANGED <<changes, crashes>>

---------------------------------------------------------------------------
(* Plausible slips: variants of the definitions below that the             *)
(* specification does not use; each breaks a property.                     *)

\* Only the check box forgets the host key, not a new address.
Edited_KeepsKey(r, h, clear) ==
  [r EXCEPT !.host = h, !.hostKey = IF clear THEN None ELSE r.hostKey]

\* The handler removes the key files although the DELETE was refused.
DeleteRow_FilesAlways(p) ==
  LET s == job[p].server
  IN  /\ pc[p] = "deleteRow"
      /\ row' = IF s \in apps THEN row
                ELSE [row EXCEPT ![s] = [Unused EXCEPT !.status = "gone"]]
      /\ Goto(p, "deleteFiles")
      /\ UNCHANGED <<job, apps, pem, machine, bound>>

\* The count alone guards the DELETE: apps.server_id has no foreign key.
DeleteRow_NoForeignKey(p) ==
  /\ pc[p] = "deleteRow"
  /\ row' = [row EXCEPT ![job[p].server] = [Unused EXCEPT !.status = "gone"]]
  /\ Goto(p, "deleteFiles")
  /\ UNCHANGED <<job, apps, pem, machine, bound>>

\* A status that no page and no query knows.
Unreached_Unknown(contact) ==
  IF contact = "init" THEN "error" ELSE "unreachable"

\* The monitor gives up on a server once it is offline.
RefreshAll_OnlineOnly(p) ==
  /\ pc[p] = "idle"
  /\ \E s \in Servers :
       /\ row[s].status = "online"
       /\ job' = [job EXCEPT ![p] = [NoJob EXCEPT !.kind = "contact",
                                       !.server = s, !.todo = <<"refresh">>]]
  /\ Goto(p, "get")
  /\ UNCHANGED <<db, pem, machine, bound>>

---------------------------------------------------------------------------
(* Requests.                                                               *)

\* Create: the INSERT, with ssh_key "pending"; supplied: the request brought a
\* private key that is already installed on the worker.
Create(p) ==
  /\ NewRequest(p, "create")
  /\ \E s \in Servers, h \in Hosts, supplied \in BOOLEAN :
       LET new == [status |-> "pending", host |-> h, saved |-> FALSE,
                   hostKey |-> None]
       IN  /\ row[s].status = "unused"
           /\ row' = [row EXCEPT ![s] = new]
           /\ job' = [job EXCEPT ![p] =
                [NoJob EXCEPT !.kind = "create", !.server = s, !.row = new,
                              !.supplied = supplied]]
           /\ Goto(p, "saveKey")
  /\ UNCHANGED <<pem, apps, machine>>

\* The row a PATCH or the edit form will save: another address, or the wish to
\* forget it, drops the pinned host key.
Edited(r, h, clear) ==
  [r EXCEPT !.host = h,
            !.hostKey = IF clear \/ h # r.host THEN None ELSE r.hostKey]

\* Update and ServerEditForm: the row is read and changed in memory.
Edit(p) ==
  /\ \E s \in Servers, h \in Hosts, clear, newKey \in BOOLEAN,
        kind \in {"patch", "edit"} :
       /\ NewRequest(p, kind)
       /\ Exists(s)
       /\ job' = [job EXCEPT ![p] =
            [NoJob EXCEPT !.kind = kind, !.server = s,
                          !.row = Edited(row[s], h, clear)]]
       /\ Goto(p, IF newKey THEN "saveKey" ELSE "update")
  /\ UNCHANGED <<db, pem, machine>>

\* saveKeyFile; if the file cannot be written the handler returns.  A write that
\* fails half way has already cut off the file that was there (os.WriteFile).
SaveKey(p) ==
  LET s == job[p].server
  IN  /\ pc[p] = "saveKey"
      /\ \/ /\ pem' = [pem EXCEPT ![s] = "whole"]
            /\ job' = [job EXCEPT ![p].row.saved = TRUE]
            /\ Goto(p, "update")
         \/ /\ "disk" \in Faults
            /\ pem' \in {pem, [pem EXCEPT ![s] = "cut"]}
            /\ Return(p)
      /\ UNCHANGED <<db, machine, bound>>

\* The whole row is saved.  A new server whose key was supplied is contacted
\* and initialized, an edited one is tested.
UpdateRow(p) ==
  /\ pc[p] = "update"
  /\ Update(job[p].server, job[p].row)
  /\ Continue(p, IF job[p].kind = "create" /\ job[p].supplied
                   THEN <<"test", "init", "refresh">>
                 ELSE IF job[p].kind = "edit" THEN <<"test">> ELSE <<>>)
  /\ UNCHANGED <<apps, pem, machine, bound>>

\* Init and Refresh, from the API or the web pages.
Contact(p) ==
  /\ \E s \in Servers, kind \in {"init", "refresh"} :
       /\ NewRequest(p, kind)
       /\ row[s].status # "unused"
       /\ job' = [job EXCEPT ![p] = [NoJob EXCEPT !.kind = "contact",
                                       !.server = s, !.todo = <<kind>>]]
  /\ Goto(p, "get")
  /\ UNCHANGED <<db, pem, machine>>

\* Delete counts the apps of the server and refuses if there are any.
Delete(p) ==
  /\ NewRequest(p, "delete")
  /\ \E s \in Servers :
       /\ Exists(s)
       /\ s \notin apps
       /\ job' = [job EXCEPT ![p] = [NoJob EXCEPT !.kind = "delete",
                                                  !.server = s]]
  /\ Goto(p, "deleteRow")
  /\ UNCHANGED <<db, pem, machine>>

\* DELETE: the foreign key of table apps refuses it when an app came meanwhile.
DeleteRow(p) ==
  LET s == job[p].server
  IN  /\ pc[p] = "deleteRow"
      /\ IF s \in apps
           THEN Return(p) /\ UNCHANGED row
           ELSE /\ row' = [row EXCEPT ![s] = [Unused EXCEPT !.status = "gone"]]
                /\ Goto(p, "deleteFiles")
                /\ UNCHANGED job
      /\ UNCHANGED <<apps, pem, machine, bound>>

DeleteFiles(p) ==
  /\ pc[p] = "deleteFiles"
  /\ pem' = [pem EXCEPT ![job[p].server] = "none"]
  /\ Return(p)
  /\ UNCHANGED <<db, machine, bound>>

---------------------------------------------------------------------------
(* Contacts: TestConnection, InitWorker and RefreshResources share their   *)
(* beginning (Get, connect) and their end (a status is written).           *)

\* The row is read; the address and the key file it names are used from here on.
Get(p) ==
  /\ pc[p] = "get"
  /\ IF Exists(job[p].server)
       THEN /\ job' = [job EXCEPT ![p].row.host = row[job[p].server].host,
                                 ![p].row.saved = row[job[p].server].saved]
            /\ Goto(p, IF Head(job[p].todo) = "init" THEN "mark"
                                                      ELSE "connect")
       ELSE Continue(p, Tail(job[p].todo))
  /\ UNCHANGED <<db, pem, machine, bound>>

Mark(p) ==
  /\ pc[p] = "mark"
  /\ UpdateStatus(job[p].server, "initializing")
  /\ Goto(p, "connect")
  /\ UNCHANGED <<apps, pem, machine, job, bound>>

\* What a contact reports when it cannot reach the worker.
Unreached(contact) == IF contact = "init" THEN "error" ELSE "offline"

PresentedKey(h) == [host |-> h, install |-> install[h]]

\* pinHostKey: the first key a machine presents is stored for its address.
PinHostKey(h, pinned) ==
  IF pinned = None THEN SaveHostKey(h, PresentedKey(h)) ELSE UNCHANGED row

\* ssh.Connect: the key file is read and parsed, the machine answers, its host
\* key is pinned or compared, and only then our key is tried.  The handshake has
\* no deadline: with a worker that hangs it waits.  HostKey's SELECT and
\* SaveHostKey's UPDATE are one step here: the key that is stored was presented
\* at that address, whoever stored one in between.
Connect(p) ==
  LET h == job[p].row.host
      readable == job[p].row.saved /\ pem[job[p].server] = "whole"
      answers == readable /\ worker[h] # "down"
  IN  /\ pc[p] = "connect"
      /\ readable => worker[h] # "hung"
      /\ \E pinned \in HostKey(h) :
           /\ IF answers THEN PinHostKey(h, pinned) ELSE UNCHANGED row
           /\ IF /\ answers /\ worker[h] = "up"
                 /\ pinned \in {None, PresentedKey(h)}
                THEN Goto(p, "work") /\ UNCHANGED job
                ELSE Concludes(p, Unreached(Head(job[p].todo)))
      /\ UNCHANGED <<apps, pem, machine, bound>>

\* What the scripts of InitWorker can do to a worker: <<status, caddy>>.  Caddy is
\* deployed when none runs, otherwise perhaps recreated, and a failure of that
\* is only logged; a failed inspect is taken for "no container named caddy".
InitOutcomes(h) ==
  LET kept      == {<<"error", proxy[h]>>}
      noCaddy   == IF "caddy" \in Faults THEN {"none"} ELSE {}
      deployed  == {<<"online", "ours">>} \cup ({"error"} \X noCaddy)
      recreated == {"online"} \X ({proxy[h], "ours"} \cup noCaddy)
      lostHalfWay == CASE proxy[h] = "none" -> {<<"error", "ours">>}
                       [] proxy[h] = "ours" -> recreated
                       [] proxy[h] = "foreign" -> {}
  IN  IF worker[h] # "up" THEN kept \cup lostHalfWay
      ELSE UNION {IF "docker" \in Faults \/ proxy[h] = "foreign"
                    THEN kept ELSE {},
                  IF proxy[h] # "foreign" \/ "inspect" \in Faults
                    THEN deployed ELSE {},
                  IF \/ proxy[h] = "ours"
                     \/ proxy[h] = "foreign" /\ "inspect" \in Faults
                    THEN recreated ELSE {}}

\* A command ends: its own timeout runs on the worker, and the backstop of the
\* controller closes the session and then waits for the worker all the same.
Answered(p) == worker[job[p].row.host] # "hung"

\* TestConnection runs one command.
RunUptime(p) ==
  /\ pc[p] = "work" /\ Head(job[p].todo) = "test" /\ Answered(p)
  /\ Concludes(p, IF worker[job[p].row.host] = "up" THEN "online"
                                                     ELSE "offline")
  /\ UNCHANGED <<db, pem, machine, bound>>

\* InitWorker installs Docker and Caddy.
Install(p) ==
  LET h == job[p].row.host
  IN  /\ pc[p] = "work" /\ Head(job[p].todo) = "init" /\ Answered(p)
      /\ \E o \in InitOutcomes(h) :
           /\ Concludes(p, o[1])
           /\ proxy' = [proxy EXCEPT ![h] = o[2]]
      /\ UNCHANGED <<db, pem, worker, install, bound>>

\* RefreshResources measures and ignores every error; the figures are left out.
Measure(p) ==
  /\ pc[p] = "work" /\ Head(job[p].todo) = "refresh" /\ Answered(p)
  /\ Concludes(p, "online")
  /\ UNCHANGED <<db, pem, machine, bound>>

\* The status is written, whatever it is by now.  InitWorker that succeeded
\* also spawns RefreshResources; here the same process runs it next.
Report(p) ==
  LET todo == job[p].todo
  IN  /\ pc[p] = "report"
      /\ UpdateStatus(job[p].server, job[p].verdict)
      /\ Continue(p, IF Head(todo) = "init" /\ job[p].verdict = "online"
                       THEN <<"refresh">> \o Tail(todo) ELSE Tail(todo))
      /\ UNCHANGED <<apps, pem, machine, bound>>

\* The monitor, every 10 seconds: a goroutine for every server that is online
\* or offline, whatever is in progress there.
RefreshAll(p) ==
  /\ pc[p] = "idle"
  /\ \E s \in Servers :
       /\ row[s].status \in {"online", "offline"}
       /\ job' = [job EXCEPT ![p] = [NoJob EXCEPT !.kind = "contact",
                                       !.server = s, !.todo = <<"refresh">>]]
  /\ Goto(p, "get")
  /\ UNCHANGED <<db, pem, machine, bound>>

---------------------------------------------------------------------------
(* The rest of the world.                                                  *)

\* Rows of table apps come and go; the foreign key wants their server to exist.
AppArrives(s) ==
  /\ Exists(s) /\ s \notin apps
  /\ apps' = apps \cup {s}
  /\ UNCHANGED <<row, pem, machine, proc, bound>>

AppLeaves(s) ==
  /\ s \in apps
  /\ apps' = apps \ {s}
  /\ UNCHANGED <<row, pem, machine, proc, bound>>

\* A worker that hangs may come back, or fall silent, which TCP notices: then
\* the contacts that wait for it go on.
WorkerChanges(h) ==
  /\ changes < MaxChanges
  /\ changes' = changes + 1
  /\ \E state \in Reach \ {worker[h]} :
       worker' = [worker EXCEPT ![h] = state]
  /\ UNCHANGED <<db, pem, install, proxy, proc, requests, crashes>>

Reinstall(h) ==
  /\ install[h] < MaxReinstalls
  /\ install' = [install EXCEPT ![h] = @ + 1]
  /\ proxy' = [proxy EXCEPT ![h] = "none"]
  /\ UNCHANGED <<db, pem, worker, proc, bound>>

\* The controller stops and starts: FailInterrupted looks at apps only, so a
\* server keeps the status it had.
Restart ==
  /\ crashes < MaxCrashes
  /\ crashes' = crashes + 1
  /\ pc' = [p \in Procs |-> "idle"]
  /\ job' = [p \in Procs |-> NoJob]
  /\ UNCHANGED <<db, pem, machine, requests, changes>>

---------------------------------------------------------------------------
Request(p) == Create(p) \/ Edit(p) \/ Contact(p) \/ Delete(p)

Step(p) == \/ SaveKey(p) \/ UpdateRow(p)
           \/ DeleteRow(p) \/ DeleteFiles(p)
           \/ Get(p) \/ Mark(p) \/ Connect(p)
           \/ RunUptime(p) \/ Install(p) \/ Measure(p) \/ Report(p)

Next ==
  \/ \E p \in Procs : Request(p) \/ Step(p) \/ RefreshAll(p)
  \/ \E s \in Servers : AppArrives(s) \/ AppLeaves(s)
  \/ \E h \in Hosts : WorkerChanges(h) \/ Reinstall(h)
  \/ Restart

Spec == Init /\ [][Next]_vars

\* Goroutines run, and the ticker of the monitor keeps firing.  A contact waits
\* for a worker that hangs, for ever if need be: then its step is not enabled.
\* Every other connection and command ends (TCP, timeouts on the worker).
FairSpec ==
  /\ Spec
  /\ \A p \in Procs : WF_vars(Step(p))
  /\ WF_vars(\E p \in Procs : RefreshAll(p))

---------------------------------------------------------------------------
(* Properties.                                                             *)

\* The pinned host key of a row is a key of the machine at the address in that
\* row.  Handlers save whole rows they read earlier, connections pin by address
\* and not by row, and the address may change in between: no worker may be
\* refused for the key of another machine.
KeyMatchesHost ==
  \A s \in Servers : row[s].hostKey # None => row[s].hostKey.host = row[s].host

\* A row that names a key file has one, if perhaps cut off, whatever Delete and
\* the handlers that save a key do at the same time: the page that shows its
\* public key and every connection read it.
KeyFileKept == \A s \in Servers : Exists(s) /\ row[s].saved => pem[s] # "none"

\* An app that arrives while Delete is between its count of the apps and the
\* DELETE is not left without its server.
NoOrphanApps == \A s \in apps : Exists(s)

\* Shorthand for MonitorTracks: s is at h and the monitor looks after it.
Watched(s, h) == row[s].status \in {"online", "offline"} /\ row[s].host = h

\* However many checks of a server overlap and whatever slow one writes last,
\* the monitor gets it right in the end: once the worker is down for good the
\* server is reported offline for good, once it is reachable for good, with our
\* key and the pinned host key, online for good.  Of a worker that hangs for good
\* nothing is promised: its checks never end, and its last status stays.
MonitorTracks ==
  \A s \in Servers, h \in Hosts :
    /\ <>[](Watched(s, h) /\ worker[h] = "down")
         => <>[](row[s].status = "offline")
    /\ <>[](/\ Watched(s, h) /\ worker[h] = "up"
            /\ row[s].saved /\ pem[s] = "whole"
            /\ HostKey(h) \subseteq {None, PresentedKey(h)})
         => <>[](row[s].status = "online")

=============================================================================
