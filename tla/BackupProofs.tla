---------------------------- MODULE BackupProofs ----------------------------
(***************************************************************************)
(* Backup, for every set of names, parts, passphrases and files, any       *)
(* number of exports and imports at a time, of requests and of faults.     *)
(***************************************************************************)
EXTENDS Backup, TLAPS

(* Where an import is: at the servers of the file, at a server that it has *)
(* inserted, at the apps.                                                  *)
ServerPhase  == {"server", "insert", "key", "setKey", "token", "setToken"}
WritesServer == {"key", "setKey", "token", "setToken"}
AppPhase     == {"app", "insertApp", "parts", "done"}

\* The tables: an id is given once, and an app's server exists.
Rows ==
  /\ nextId \in Nat \ {0}
  /\ \A s \in servers : s.id \in 1..(nextId - 1)
  /\ \A s, t \in servers : s.id = t.id => s = t
  /\ \A a \in apps : /\ a.id \in 1..(nextId - 1)
                     /\ a.server = 0 \/ \E s \in servers : s.id = a.server

\* What the entries at hand are, and when the process began.
Phase(p) ==
  /\ pc[p] \in ServerPhase \cup {"undeploy", "listServers", "delete"} =>
       job[p].todo \subseteq ExportServer
  /\ pc[p] \in {"undeploy", "listServers", "delete"} =>
       job[p].todo = job[p].file.servers
  /\ pc[p] \in {"insert"} \cup WritesServer => job[p].entry \in ExportServer
  /\ pc[p] \in AppPhase => job[p].todo \subseteq ExportApp
  /\ pc[p] = "insertApp" => job[p].entry \in ExportApp
  /\ pc[p] = "done" => job[p].todo = {}
  /\ pc[p] # "idle" => requests > 0
  /\ job[p].since <= nextId /\ job[p].at <= requests

\* A server that the import has inserted has the files that have been written,
\* unless its row has been deleted since: its id does not come back.
KeyStep(p) ==
  pc[p] \in WritesServer =>
    /\ job[p].id < nextId
    /\ (\E s \in servers : s.id = job[p].id) =>
         /\ pc[p] = "setKey" => job[p].id \in pem
         /\ pc[p] \in {"token", "setToken"} /\ job[p].entry.key => job[p].id \in pem
         /\ pc[p] = "setToken" => job[p].id \in tokens

\* What a replace import has still to remove is on its lists, and what it has
\* removed does not come back: new rows have new ids.
Emptied(p) ==
  /\ pc[p] = "undeploy" =>
       \A a \in apps : a.id < job[p].since => \E r \in job[p].rows : r.id = a.id
  /\ pc[p] = "delete" =>
       \A s \in servers : s.id < job[p].since => \E t \in job[p].listed : t.id = s.id
  /\ \/ pc[p] \in {"listServers", "delete"}
     \/ pc[p] \in ServerPhase \cup AppPhase /\ job[p].mode = "replace"
     => \A a \in apps : a.id >= job[p].since
  /\ pc[p] \in ServerPhase \cup AppPhase /\ job[p].mode = "replace" =>
       \A s \in servers : s.id >= job[p].since

\* An export has listed the servers of the apps it lists, except newer ones.
Listed(p) ==
  /\ pc[p] = "listApps" =>
       \A s \in servers : s.id < job[p].since => \E t \in job[p].listed : t.id = s.id
  /\ pc[p] \in {"readKeys", "readParts"} =>
       \A a \in job[p].rows : a.server \in 1..(job[p].since - 1) =>
         \E t \in job[p].listed : t.id = a.server
  /\ pc[p] \in {"listApps", "readKeys", "readParts"} =>
       job[p].found = {[name |-> s.name, id |-> s.id] : s \in job[p].listed}

\* A server that has been found keeps its name as long as it exists.
Found(p) ==
  \A f \in job[p].found :
    /\ f.id < nextId
    /\ \A s \in servers : s.id = f.id => s.name = f.name

\* What is still to be written for the app with id i.
Unwritten(p, i) == IF pc[p] = "parts" /\ i = job[p].id THEN job[p].part ELSE {}

\* The apps that an import has created: with what is still to be written they
\* have the parts of the file, and they are on the server the file names.
Made(p) ==
  /\ pc[p] = "insertApp" => \E f \in job[p].found : f.name = job[p].entry.server
  /\ pc[p] = "parts" => \E m \in job[p].made : m.id = job[p].id
  /\ \A m \in job[p].made :
       /\ m.id \in 1..(nextId - 1)
       /\ \A a \in AppWith(m.id) :
            /\ a.parts \cup Unwritten(p, m.id) = m.of.parts
            /\ \E s \in servers : s.id = a.server /\ s.name = m.of.server

\* No two imports have created the same app.
MadeApart ==
  \A p, q \in Procs : \A m \in job[p].made, n \in job[q].made : m.id = n.id => p = q

\* No other request since the import began, and none in progress then.
Alone(p) == pc[p] # "idle" /\ job[p].at = requests

\* Every server of the file is found or still to do; so is every app whose server
\* is in the file, if the import is alone.
Covered(p) ==
  /\ Alone(p) => \A q \in Procs \ {p} : pc[q] = "idle"
  /\ pc[p] \in ServerPhase => \A es \in job[p].file.servers :
       \/ es \in job[p].todo
       \/ pc[p] = "insert" /\ es = job[p].entry
       \/ \E f \in job[p].found : f.name = es.name
  /\ pc[p] \in AppPhase => \A es \in job[p].file.servers :
       \E f \in job[p].found : f.name = es.name
  /\ pc[p] \in AppPhase /\ Alone(p) => \A ea \in job[p].file.apps :
       (\E es \in job[p].file.servers : es.name = ea.server) =>
         \/ ea \in job[p].todo
         \/ pc[p] = "insertApp" /\ ea = job[p].entry
         \/ AppNamed(ea.name) # {}

Own(p) ==
  Phase(p) /\ KeyStep(p) /\ Emptied(p) /\ Listed(p) /\ Found(p) /\ Made(p)

BackupInv ==
  /\ TypeOK /\ Rows /\ KeysThere /\ MadeApart
  /\ \A p \in Procs : Own(p) /\ Covered(p)

---------------------------------------------------------------------------
(* What every step does to the tables, and what that means to a process    *)
(* that does not take it.                                                  *)

\* No row that is gone comes back, none is renamed or moved to another server, a
\* file is removed only with its row, and only the app with id i gets parts.
Keeps(i) ==
  /\ nextId <= nextId' /\ requests <= requests'
  /\ \A s \in servers' : s.id < nextId =>
       /\ \E t \in servers : t.id = s.id /\ t.name = s.name
       /\ s.id \in pem => s.id \in pem'
       /\ s.id \in tokens => s.id \in tokens'
  /\ \A a \in apps' : a.id < nextId =>
       \E b \in apps : /\ b.id = a.id /\ b.server = a.server
                       /\ a.id # i => b.parts = a.parts

\* The fields of a job.
LEMMA JobFields ==
  ASSUME NEW j \in Job
  PROVE  /\ j.mode \in {"none", "export", "merge", "replace"} /\ j.file \in ExportData
         /\ j.found \subseteq [name : ServerNames, id : Nat]
         /\ j.listed \subseteq Server /\ j.rows \subseteq App
         /\ j.todo \subseteq ExportServer \cup ExportApp
         /\ j.entry \in ExportServer \cup ExportApp \cup {None}
         /\ j.id \in Nat /\ j.part \subseteq Parts
         /\ j.made \subseteq [id : Nat, of : ExportApp]
         /\ j.since \in Nat /\ j.at \in Nat
BY DEF Job

\* A process that does nothing has found and made nothing.
LEMMA NoJobIs ==
  /\ NoJob \in Job
  /\ NoJob.found = {} /\ NoJob.made = {} /\ NoJob.since = 0 /\ NoJob.at = 0
BY DEF NoJob, NoFile, Job, ExportData

\* A process that does not take the step keeps its part of the invariant.
LEMMA OthersKeep ==
  ASSUME BackupInv, TypeOK', Rows', NEW i, Keeps(i),
         NEW q \in Procs, pc'[q] = pc[q], job'[q] = job[q],
         \A m \in job[q].made : m.id # i
  PROVE  Own(q)'
<1> DEFINE j == job[q]
<1>0. /\ j \in Job /\ job'[q] = j /\ pc'[q] = pc[q]
      /\ Own(q) /\ nextId \in Nat /\ nextId' \in Nat
      /\ requests \in Nat /\ requests' \in Nat
  BY DEF BackupInv, TypeOK
<1>1. /\ j.since \in Nat /\ j.at \in Nat /\ j.id \in Nat
      /\ j.since <= nextId /\ j.at <= requests
      /\ \A f \in j.found : f.id \in Nat
      /\ \A m \in j.made : m.id \in Nat
  BY <1>0, JobFields DEF Own, Phase
<1>2. /\ \A s \in servers : s.id \in Nat
      /\ \A s \in servers' : s.id \in Nat
      /\ \A a \in apps : a.id \in Nat /\ a.server \in Nat
      /\ \A a \in apps' : a.id \in Nat /\ a.server \in Nat
  BY DEF BackupInv, TypeOK, Server, App
<1>3. Phase(q)'
  BY <1>0, <1>1 DEF Own, Phase, Keeps
<1>4. KeyStep(q)'
  BY <1>0, <1>1 DEF Own, KeyStep, Keeps
<1>5. Emptied(q)'
  BY <1>0, <1>1, <1>2 DEF Own, Emptied, Keeps
<1>6. Listed(q)'
  BY <1>0, <1>1, <1>2 DEF Own, Listed, Keeps
<1>7. Found(q)'
  BY <1>0, <1>1, <1>2 DEF Own, Found, Keeps
<1>8. Made(q)'
  <2>1. ASSUME NEW m \in j.made, NEW a \in apps', a.id = m.id
        PROVE  /\ a.parts \cup Unwritten(q, m.id) = m.of.parts
               /\ \E s \in servers' : s.id = a.server /\ s.name = m.of.server
    <3>1. m.id < nextId /\ m.id # i
      BY <1>0, <1>1 DEF Own, Made
    <3>2. PICK b \in apps : b.id = a.id /\ b.server = a.server /\ b.parts = a.parts
      BY <2>1, <3>1 DEF Keeps
    <3>3. PICK s \in servers : s.id = a.server /\ s.name = m.of.server
      BY <1>0, <2>1, <3>2 DEF Own, Made, AppWith
    <3>4. s.id \in 1..(nextId - 1)
      BY DEF BackupInv, Rows
    <3>5. PICK u \in servers' : u.id = a.server
      BY <3>3, <3>4 DEF Rows
    <3>6. u.name = s.name
      BY <1>0, <3>3, <3>4, <3>5 DEF Keeps, BackupInv, Rows
    <3> QED BY <1>0, <2>1, <3>2, <3>3, <3>5, <3>6 DEF Own, Made, AppWith
  <2>2. \A m \in j.made : m.id \in 1..(nextId' - 1)
    BY <1>0, <1>1 DEF Own, Made, Keeps
  <2> QED BY <1>0, <2>1, <2>2 DEF Own, Made, AppWith, Unwritten
<1> QED BY <1>3, <1>4, <1>5, <1>6, <1>7, <1>8 DEF Own

\* An import that another process or request overtakes is not alone.
LEMMA OthersCovered ==
  ASSUME BackupInv, TypeOK', NEW q \in Procs, pc'[q] = pc[q], job'[q] = job[q],
         requests < requests' \/ (UNCHANGED requests /\ ~Alone(q))
  PROVE  Covered(q)'
<1>1. job[q].at \in Nat /\ requests \in Nat /\ requests' \in Nat
      /\ job[q].at <= requests /\ Covered(q)
  BY JobFields DEF BackupInv, TypeOK, Own, Phase
<1>2. ~Alone(q)'
  BY <1>1 DEF Alone
<1> QED BY <1>1, <1>2 DEF Covered

\* An ended job leaves nothing to ask for.
LEMMA Ended ==
  ASSUME TypeOK', Rows', NEW p \in Procs, pc'[p] = "idle", job'[p] = NoJob
  PROVE  Own(p)' /\ Covered(p)'
<1>1. requests' \in Nat /\ nextId' \in Nat
  BY DEF TypeOK
<1> QED BY <1>1, NoJobIs
        DEF Own, Phase, KeyStep, Emptied, Listed, Found, Made, Covered, Alone,
            ServerPhase, WritesServer, AppPhase

\* A step of process p: what is left to show is what it does to the tables and to
\* its own job.
LEMMA OneProcess ==
  ASSUME BackupInv, NEW p \in Procs, NEW i,
         \A q \in Procs \ {p} : pc'[q] = pc[q] /\ job'[q] = job[q],
         requests < requests' \/ (UNCHANGED requests /\ pc[p] # "idle"),
         i = 0 \/ \E m \in job[p].made : m.id = i,
         TypeOK', Rows', KeysThere', Keeps(i), MadeApart', Own(p)', Covered(p)'
  PROVE  BackupInv'
<1>1. ASSUME NEW q \in Procs, q # p PROVE Own(q)' /\ Covered(q)'
  <2>1. \A m \in job[q].made : m.id # i
    <3>1. CASE i = 0
      BY <3>1 DEF BackupInv, Own, Made
    <3>2. CASE \E m \in job[p].made : m.id = i
      BY <1>1, <3>2 DEF BackupInv, MadeApart
    <3> QED BY <3>1, <3>2
  <2>2. Own(q)'
    BY <1>1, <2>1, OthersKeep
  <2>3. pc'[q] = pc[q] /\ job'[q] = job[q]
    BY <1>1
  <2>4. pc[p] # "idle" => ~Alone(q)
    BY <1>1 DEF BackupInv, Covered
  <2>5. requests < requests' \/ (UNCHANGED requests /\ ~Alone(q))
    BY <2>4
  <2>6. Covered(q)'
    BY <2>3, <2>5, OthersCovered
  <2> QED BY <2>2, <2>6
<1> QED BY <1>1 DEF BackupInv

---------------------------------------------------------------------------
(* Steps of a process that leave tables and files on disk alone.           *)

\* Process p goes on at l, with job k.
Takes(p, l, k) ==
  pc' = [pc EXCEPT ![p] = l] /\ job' = [job EXCEPT ![p] = k]

\* A step of p changes the place and the locals of p only.
LEMMA Taken ==
  ASSUME TypeOK, NEW p \in Procs, NEW l \in PCs, NEW k \in Job, Takes(p, l, k)
  PROVE  /\ pc' \in [Procs -> PCs] /\ job' \in [Procs -> Job]
         /\ pc'[p] = l /\ job'[p] = k
         /\ \A q \in Procs \ {p} : pc'[q] = pc[q] /\ job'[q] = job[q]
BY DEF TypeOK, Takes

\* Without a new app the created ones stay apart.
LEMMA StayApart ==
  ASSUME MadeApart, \A q \in Procs : job'[q].made \subseteq job[q].made
  PROVE  MadeApart'
BY DEF MadeApart

\* A step that changes neither a table nor a file on disk: only p is at stake.
LEMMA Quiet ==
  ASSUME BackupInv, NEW p \in Procs, NEW l \in PCs, NEW k \in Job, Takes(p, l, k),
         UNCHANGED <<db, disk>>, files' \subseteq ExportData,
         requests' \in Nat, faults' \in Nat,
         requests < requests' \/ (UNCHANGED requests /\ pc[p] # "idle"),
         k.made \subseteq job[p].made,
         pc'[p] = l /\ job'[p] = k /\ TypeOK' /\ Rows' => Own(p)' /\ Covered(p)'
  PROVE  BackupInv'
<1>1. /\ pc' \in [Procs -> PCs] /\ job' \in [Procs -> Job]
      /\ pc'[p] = l /\ job'[p] = k
      /\ \A q \in Procs \ {p} : pc'[q] = pc[q] /\ job'[q] = job[q]
  BY Taken DEF BackupInv
<1>2. TypeOK'
  BY <1>1 DEF BackupInv, TypeOK, db, disk
<1>3. Rows' /\ KeysThere'
  BY DEF BackupInv, Rows, KeysThere, db, disk
<1>4. nextId \in Nat /\ requests \in Nat
  BY DEF BackupInv, TypeOK
<1>5. Keeps(0)
  BY <1>4 DEF Keeps, db, disk
<1>6. MadeApart'
  BY <1>1, StayApart DEF BackupInv
<1>7. Own(p)' /\ Covered(p)'
  BY <1>1, <1>2, <1>3
<1> QED BY <1>1, <1>2, <1>3, <1>5, <1>6, <1>7, OneProcess

\* An error, or the end of a handler.
LEMMA Returns ==
  ASSUME BackupInv, NEW p \in Procs, pc[p] # "idle", Return(p),
         UNCHANGED <<db, disk, requests>>, files' \subseteq ExportData, faults' \in Nat
  PROVE  BackupInv'
<1>1. Takes(p, "idle", NoJob) /\ "idle" \in PCs
  BY DEF Return, Goto, Set, Takes, PCs
<1>2. requests' \in Nat
  BY DEF BackupInv, TypeOK
<1> QED BY <1>1, <1>2, NoJobIs, Ended, Quiet

\* What a process may rely on.
LEMMA JobFacts ==
  ASSUME BackupInv, NEW p \in Procs
  PROVE  /\ TypeOK /\ Rows /\ KeysThere /\ Own(p) /\ Covered(p) /\ job[p] \in Job
         /\ files \subseteq ExportData /\ requests \in Nat /\ faults \in Nat
         /\ nextId \in Nat \ {0}
BY DEF BackupInv, TypeOK, Rows

\* The export begins with the list of the servers.
LEMMA ExportKeeps ==
  ASSUME BackupInv, NEW p \in Procs, NEW pass \in Passphrases \cup {None},
         Export(p, pass)
  PROVE  BackupInv'
<1> DEFINE F == {[name |-> s.name, id |-> s.id] : s \in servers}
           k == [NoJob EXCEPT !.mode = "export", !.file.pass = pass,
                   !.listed = servers, !.since = nextId, !.found = F]
<1>0. /\ TypeOK /\ Rows /\ files \subseteq ExportData /\ requests \in Nat
      /\ faults \in Nat /\ nextId \in Nat \ {0}
  BY JobFacts
<1>1. F \subseteq [name : ServerNames, id : Nat]
  BY <1>0 DEF TypeOK, Server
<1>2. \A f \in F : f.id < nextId /\ \A s \in servers : s.id = f.id => s.name = f.name
  BY <1>0 DEF Rows
<1>3. Takes(p, "listApps", k) /\ "listApps" \in PCs
  BY DEF Export, Set, Goto, Takes, PCs
<1> HIDE DEF F
<1>4. /\ k \in Job /\ k.found = F /\ k.made = {} /\ k.since = nextId /\ k.at = 0
      /\ k.listed = servers
  BY <1>0, <1>1 DEF NoJob, NoFile, Job, ExportData, TypeOK
<1> HIDE DEF k
<1>5. /\ requests' = requests + 1 /\ faults' = faults
      /\ UNCHANGED <<db, disk, files>>
  BY DEF Export, Request
<1>6. ASSUME pc'[p] = "listApps", job'[p] = k PROVE Own(p)' /\ Covered(p)'
  <2>1. servers' = servers /\ apps' = apps /\ nextId' = nextId
    BY <1>5 DEF db
  <2>2. Phase(p)' /\ KeyStep(p)' /\ Emptied(p)'
    BY <1>0, <1>4, <1>5, <1>6, <2>1
       DEF Phase, KeyStep, Emptied, ServerPhase, WritesServer, AppPhase
  <2>3. Listed(p)'
    BY <1>4, <1>6, <2>1 DEF Listed, F
  <2>4. Found(p)' /\ Made(p)'
    BY <1>2, <1>4, <1>6, <2>1 DEF Found, Made
  <2>5. Covered(p)'
    BY <1>0, <1>4, <1>5, <1>6 DEF Covered, Alone, ServerPhase, AppPhase
  <2> QED BY <2>2, <2>3, <2>4, <2>5 DEF Own
<1>7. /\ files' \subseteq ExportData /\ requests' \in Nat /\ faults' \in Nat
      /\ requests < requests' /\ UNCHANGED <<db, disk>>
      /\ k.made \subseteq job[p].made
  BY <1>0, <1>4, <1>5
<1>8. requests < requests' \/ (UNCHANGED requests /\ pc[p] # "idle")
  BY <1>7
<1>9. k \in Job
  BY <1>4
<1> QED BY <1>3, <1>6, <1>7, <1>8, <1>9, Quiet

\* The apps are listed after the servers: an app's server is on the list, or newer.
LEMMA ListAppsKeeps ==
  ASSUME BackupInv, NEW p \in Procs, ListApps(p)
  PROVE  BackupInv'
<1> DEFINE j == job[p]
           k == [j EXCEPT !.rows = apps]
<1>0. /\ TypeOK /\ Rows /\ Own(p) /\ Covered(p) /\ j \in Job
      /\ files \subseteq ExportData /\ requests \in Nat /\ faults \in Nat
  BY JobFacts
<1>1. /\ pc[p] = "listApps" /\ Takes(p, "readKeys", k) /\ "readKeys" \in PCs
      /\ UNCHANGED <<db, disk, files, bound>>
  BY DEF ListApps, Set, Goto, Takes, PCs
<1>2. /\ k \in Job /\ k.rows = apps
      /\ k.found = j.found /\ k.made = j.made /\ k.since = j.since /\ k.at = j.at
      /\ k.listed = j.listed /\ k.since \in Nat
  BY <1>0 DEF Job, TypeOK
<1> HIDE DEF k
<1>3. ASSUME pc'[p] = "readKeys", job'[p] = k PROVE Own(p)' /\ Covered(p)'
  <2>1. /\ servers' = servers /\ apps' = apps /\ nextId' = nextId
        /\ requests' = requests
    BY <1>1 DEF db, bound
  <2>2. Phase(p)' /\ KeyStep(p)' /\ Emptied(p)'
    BY <1>0, <1>1, <1>2, <1>3, <2>1
       DEF Own, Phase, KeyStep, Emptied, ServerPhase, WritesServer, AppPhase
  <2>3. Listed(p)'
    <3>1. ASSUME NEW a \in apps, a.server \in 1..(j.since - 1)
          PROVE  \E t \in j.listed : t.id = a.server
      <4>1. PICK s \in servers : s.id = a.server
        BY <1>0, <3>1 DEF Rows
      <4>2. s.id < j.since
        BY <1>2, <3>1, <4>1
      <4> QED BY <1>0, <1>1, <4>1, <4>2 DEF Own, Listed
    <3> QED BY <1>0, <1>1, <1>2, <1>3, <2>1, <3>1 DEF Own, Listed
  <2>4. Found(p)' /\ Made(p)'
    BY <1>0, <1>1, <1>2, <1>3, <2>1 DEF Own, Found, Made, Unwritten, AppWith
  <2>5. Covered(p)'
    <3>1. \A q \in Procs \ {p} : pc'[q] = pc[q]
      BY <1>0, <1>1, <1>2, Taken
    <3> QED BY <1>0, <1>1, <1>2, <1>3, <2>1, <3>1
            DEF Covered, Alone, ServerPhase, AppPhase
  <2> QED BY <2>2, <2>3, <2>4, <2>5 DEF Own
<1> QED BY <1>0, <1>1, <1>2, <1>3, Quiet DEF bound

\* The keys are read server by server.
LEMMA ReadKeysKeeps ==
  ASSUME BackupInv, NEW p \in Procs, ReadKeys(p)
  PROVE  BackupInv'
<1> DEFINE j == job[p]
           E == {[name |-> s.name, key |-> s.key, token |-> s.token] : s \in j.listed}
           k == [j EXCEPT !.file.servers = E]
<1>0. /\ TypeOK /\ Own(p) /\ Covered(p) /\ j \in Job
      /\ files \subseteq ExportData /\ requests \in Nat /\ faults \in Nat
  BY JobFacts
<1>1. pc[p] = "readKeys" /\ UNCHANGED <<db, disk, files, bound>>
  BY DEF ReadKeys
<1>2. CASE Return(p)
  BY <1>0, <1>1, <1>2, Returns DEF bound
<1>3. CASE Takes(p, "readParts", k)
  <2>1. E \subseteq ExportServer
    BY <1>0, JobFields DEF Server, ExportServer
  <2> HIDE DEF E
  <2>2. [j.file EXCEPT !.servers = E] \in ExportData
    BY <1>0, <2>1, JobFields DEF ExportData
  <2>3. /\ k \in Job /\ k.rows = j.rows
        /\ k.found = j.found /\ k.made = j.made /\ k.since = j.since /\ k.at = j.at
        /\ k.listed = j.listed /\ k.since \in Nat
    BY <1>0, <2>2 DEF Job
  <2> HIDE DEF k
  <2>4. ASSUME pc'[p] = "readParts", job'[p] = k PROVE Own(p)' /\ Covered(p)'
    <3>1. /\ servers' = servers /\ apps' = apps /\ nextId' = nextId
          /\ requests' = requests
      BY <1>1 DEF db, bound
    <3>2. Phase(p)' /\ KeyStep(p)' /\ Emptied(p)'
      BY <1>0, <1>1, <2>3, <2>4, <3>1
         DEF Own, Phase, KeyStep, Emptied, ServerPhase, WritesServer, AppPhase
    <3>3. Listed(p)'
      BY <1>0, <1>1, <2>3, <2>4 DEF Own, Listed
    <3>4. Found(p)' /\ Made(p)'
      BY <1>0, <1>1, <2>3, <2>4, <3>1 DEF Own, Found, Made, Unwritten, AppWith
    <3>5. \A q \in Procs \ {p} : pc'[q] = pc[q]
      BY <1>0, <1>3, <2>3, Taken DEF PCs
    <3>6. Covered(p)'
      BY <1>0, <1>1, <2>3, <2>4, <3>1, <3>5
         DEF Covered, Alone, ServerPhase, AppPhase
    <3> QED BY <3>2, <3>3, <3>4, <3>6 DEF Own
  <2> QED BY <1>0, <1>1, <1>3, <2>3, <2>4, Quiet DEF bound, PCs
<1> QED BY <1>2, <1>3 DEF ReadKeys, Goto, Set, Takes

\* The parts of the apps are read, and the file is written.
LEMMA ReadPartsKeeps ==
  ASSUME BackupInv, NEW p \in Procs, ReadParts(p)
  PROVE  BackupInv'
<1> DEFINE j == job[p]
           P(a) == UNION {b.parts : b \in AppWith(a.id)}
           E == {[name |-> a.name, server |-> NameOf(p, a), parts |-> P(a)] :
                   a \in j.rows}
<1>0. /\ TypeOK /\ j \in Job /\ files \subseteq ExportData /\ faults \in Nat
  BY JobFacts
<1>1. ASSUME NEW a \in j.rows
      PROVE  [name |-> a.name, server |-> NameOf(p, a), parts |-> P(a)] \in ExportApp
  <2>1. a.name \in AppNames
    BY <1>0, JobFields DEF App
  <2>2. P(a) \subseteq Parts
    BY <1>0 DEF TypeOK, App, AppWith
  <2>3. NameOf(p, a) \in ServerNames \cup {None}
    <3> DEFINE f == {x \in j.found : x.id = a.server}
    <3>1. \A x \in f : x.name \in ServerNames
      BY <1>0, JobFields
    <3>2. CASE f = {}
      BY <3>2 DEF NameOf
    <3>3. CASE f # {}
      <4>1. (CHOOSE x \in f : TRUE) \in f
        BY <3>3
      <4> QED BY <3>1, <3>3, <4>1 DEF NameOf
    <3> QED BY <3>2, <3>3
  <2> QED BY <2>1, <2>2, <2>3 DEF ExportApp
<1>2. E \subseteq ExportApp
  BY <1>1
<1>3. /\ files' = files \cup {[j.file EXCEPT !.apps = E]}
      /\ pc[p] = "readParts" /\ Return(p) /\ UNCHANGED <<db, disk, bound>>
  BY DEF ReadParts
<1> HIDE DEF E
<1>4. [j.file EXCEPT !.apps = E] \in ExportData
  BY <1>0, <1>2, JobFields DEF ExportData
<1> QED BY <1>0, <1>3, <1>4, Returns DEF bound

\* The import begins, with every server of the file still to do.
LEMMA ImportKeeps ==
  ASSUME BackupInv, NEW p \in Procs, NEW file \in files,
         NEW pass \in Passphrases \cup {None}, NEW mode \in {"merge", "replace"},
         Import(p, file, pass, mode)
  PROVE  BackupInv'
<1> DEFINE at == IF \A q \in Procs : pc[q] = "idle" THEN requests' ELSE 0
           rows == IF mode = "replace" THEN apps ELSE {}
           k == [NoJob EXCEPT !.mode = mode, !.file = file, !.since = nextId,
                   !.todo = file.servers, !.at = at, !.rows = rows]
           l == IF mode = "replace" THEN "undeploy" ELSE "server"
<1>0. /\ TypeOK /\ Rows /\ files \subseteq ExportData /\ requests \in Nat
      /\ faults \in Nat /\ nextId \in Nat \ {0}
  BY JobFacts
<1>1. Takes(p, l, k) /\ l \in PCs
  BY DEF Import, Set, Goto, Takes, PCs
<1>2. /\ requests' = requests + 1 /\ faults' = faults
      /\ UNCHANGED <<db, disk, files>>
  BY DEF Import, Request
<1>3. at \in Nat /\ at <= requests' /\ rows \subseteq App /\ file \in ExportData
  BY <1>0, <1>2 DEF TypeOK
<1>4. file.servers \subseteq ExportServer
  BY <1>3 DEF ExportData
<1>5. /\ at = requests' => \A q \in Procs : pc[q] = "idle"
      /\ mode = "replace" => rows = apps
  BY <1>0, <1>2
<1> HIDE DEF at, rows
<1>6. /\ k \in Job /\ k.found = {} /\ k.made = {} /\ k.since = nextId /\ k.at = at
      /\ k.rows = rows /\ k.todo = file.servers /\ k.file = file /\ k.mode = mode
  BY <1>0, <1>3, <1>4 DEF NoJob, NoFile, Job
<1> HIDE DEF k
<1>7. ASSUME pc'[p] = l, job'[p] = k PROVE Own(p)' /\ Covered(p)'
  <2>1. servers' = servers /\ apps' = apps /\ nextId' = nextId
    BY <1>2 DEF db
  <2>2. Phase(p)' /\ KeyStep(p)'
    BY <1>0, <1>2, <1>3, <1>4, <1>6, <1>7, <2>1
       DEF Phase, KeyStep, ServerPhase, WritesServer, AppPhase
  <2>3. Emptied(p)' /\ Listed(p)'
    BY <1>5, <1>6, <1>7, <2>1 DEF Emptied, Listed, ServerPhase, AppPhase
  <2>4. Found(p)' /\ Made(p)'
    BY <1>6, <1>7 DEF Found, Made
  <2>5. \A q \in Procs \ {p} : pc'[q] = pc[q]
    BY <1>0, <1>1, <1>6, Taken
  <2>6. Covered(p)'
    BY <1>5, <1>6, <1>7, <2>5 DEF Covered, Alone, ServerPhase, AppPhase
  <2> QED BY <2>2, <2>3, <2>4, <2>6 DEF Own
<1>8. /\ files' \subseteq ExportData /\ requests' \in Nat /\ faults' \in Nat
      /\ requests < requests' /\ UNCHANGED <<db, disk>>
      /\ k.made \subseteq job[p].made
  BY <1>0, <1>2, <1>6
<1> HIDE DEF l
<1> QED BY <1>1, <1>6, <1>7, <1>8, Quiet

\* After the undeployments the servers are listed for deletion.
LEMMA ListServersKeeps ==
  ASSUME BackupInv, NEW p \in Procs, ListServers(p)
  PROVE  BackupInv'
<1> DEFINE j == job[p]
           k == [j EXCEPT !.listed = servers]
<1>0. /\ TypeOK /\ Rows /\ Own(p) /\ Covered(p) /\ j \in Job
      /\ files \subseteq ExportData /\ requests \in Nat /\ faults \in Nat
  BY JobFacts
<1>1. /\ pc[p] = "listServers" /\ Takes(p, "delete", k) /\ "delete" \in PCs
      /\ UNCHANGED <<db, disk, files, bound>>
  BY DEF ListServers, Set, Goto, Takes, PCs
<1>2. /\ k \in Job /\ k.listed = servers /\ k.todo = j.todo /\ k.file = j.file
      /\ k.found = j.found /\ k.made = j.made /\ k.since = j.since /\ k.at = j.at
  BY <1>0 DEF Job, TypeOK
<1> HIDE DEF k
<1>3. ASSUME pc'[p] = "delete", job'[p] = k PROVE Own(p)' /\ Covered(p)'
  <2>1. /\ servers' = servers /\ apps' = apps /\ nextId' = nextId
        /\ requests' = requests
    BY <1>1 DEF db, bound
  <2>2. Phase(p)' /\ KeyStep(p)' /\ Emptied(p)' /\ Listed(p)'
    BY <1>0, <1>1, <1>2, <1>3, <2>1
       DEF Own, Phase, KeyStep, Emptied, Listed, ServerPhase, WritesServer, AppPhase
  <2>3. Found(p)' /\ Made(p)'
    BY <1>0, <1>1, <1>2, <1>3, <2>1 DEF Own, Found, Made, Unwritten, AppWith
  <2>4. \A q \in Procs \ {p} : pc'[q] = pc[q]
    BY <1>0, <1>1, <1>2, Taken
  <2>5. Covered(p)'
    BY <1>0, <1>1, <1>2, <1>3, <2>1, <2>4 DEF Covered, Alone, ServerPhase, AppPhase
  <2> QED BY <2>2, <2>3, <2>5 DEF Own
<1> QED BY <1>0, <1>1, <1>2, <1>3, Quiet DEF bound

\* A server of the file: found by its name, or to be inserted.
LEMMA FindServerKeeps ==
  ASSUME BackupInv, NEW p \in Procs, FindServer(p)
  PROVE  BackupInv'
<1> DEFINE j == job[p]
<1>0. /\ TypeOK /\ Rows /\ Own(p) /\ Covered(p) /\ j \in Job
      /\ files \subseteq ExportData /\ requests \in Nat /\ faults \in Nat
      /\ nextId \in Nat \ {0}
  BY JobFacts
<1>1. pc[p] = "server" /\ UNCHANGED <<db, disk, files, bound>>
  BY DEF FindServer
<1>2. /\ servers' = servers /\ apps' = apps /\ nextId' = nextId
      /\ requests' = requests /\ faults' = faults
  BY <1>1 DEF db, bound
<1>3. CASE j.todo = {} /\ Takes(p, "app", [j EXCEPT !.todo = j.file.apps])
  <2> DEFINE k == [j EXCEPT !.todo = j.file.apps]
  <2>1. j.file.apps \subseteq ExportApp
    BY <1>0, JobFields DEF ExportData
  <2>2. /\ k \in Job /\ k.todo = j.file.apps /\ k.file = j.file /\ k.mode = j.mode
        /\ k.found = j.found /\ k.made = j.made /\ k.since = j.since /\ k.at = j.at
    BY <1>0, <2>1 DEF Job
  <2> HIDE DEF k
  <2>3. ASSUME pc'[p] = "app", job'[p] = k PROVE Own(p)' /\ Covered(p)'
    <3>1. Phase(p)' /\ KeyStep(p)' /\ Emptied(p)' /\ Listed(p)'
      BY <1>0, <1>1, <1>2, <2>1, <2>2, <2>3
         DEF Own, Phase, KeyStep, Emptied, Listed, ServerPhase, WritesServer, AppPhase
    <3>2. Found(p)' /\ Made(p)'
      BY <1>0, <1>1, <1>2, <2>2, <2>3 DEF Own, Found, Made, Unwritten, AppWith
    <3>3. \A q \in Procs \ {p} : pc'[q] = pc[q]
      BY <1>0, <1>3, <2>2, Taken DEF PCs, k
    <3>4. Covered(p)'
      BY <1>0, <1>1, <1>2, <1>3, <2>2, <2>3, <3>3
         DEF Covered, Alone, ServerPhase, AppPhase
    <3> QED BY <3>1, <3>2, <3>4 DEF Own
  <2>4. Takes(p, "app", k) /\ "app" \in PCs
    BY <1>3 DEF k, PCs
  <2> QED BY <1>0, <1>1, <1>2, <2>2, <2>3, <2>4, Quiet
<1>4. ASSUME NEW es \in j.todo,
             LET same == ServerNamed(es.name)
             IN  /\ Set(p, [j EXCEPT !.todo = @ \ {es}, !.entry = es,
                    !.found = @ \cup {[name |-> es.name, id |-> s.id] : s \in same}])
                 /\ IF same = {} THEN Goto(p, "insert") ELSE UNCHANGED pc
      PROVE  BackupInv'
  <2> DEFINE same == ServerNamed(es.name)
             N == {[name |-> es.name, id |-> s.id] : s \in same}
             F == j.found \cup N
             k == [j EXCEPT !.todo = @ \ {es}, !.entry = es, !.found = F]
             l == IF same = {} THEN "insert" ELSE "server"
  <2>1. es \in ExportServer /\ es.name \in ServerNames
    BY <1>0, <1>1 DEF Own, Phase, ServerPhase, ExportServer
  <2>2. \A f \in N : /\ f \in [name : ServerNames, id : Nat]
                     /\ f.id < nextId
                     /\ \A s \in servers : s.id = f.id => s.name = f.name
    BY <1>0, <2>1 DEF ServerNamed, Rows, TypeOK, Server
  <2>3. ASSUME same # {} PROVE \E f \in N : f.name = es.name
    <3>1. PICK s \in same : TRUE
      BY <2>3
    <3>2. [name |-> es.name, id |-> s.id] \in N
      BY <3>1
    <3> QED BY <3>2
  <2>4. Takes(p, l, k) /\ l \in PCs
    BY <1>0, <1>1, <1>4 DEF Set, Goto, Takes, PCs, TypeOK
  <2> HIDE DEF N, same
  <2>5. F \subseteq [name : ServerNames, id : Nat] /\ j.found \subseteq F
    BY <1>0, <2>2, JobFields
  <2>6. \A f \in F : f.id < nextId /\ \A s \in servers : s.id = f.id => s.name = f.name
    BY <1>0, <2>2 DEF Own, Found
  <2>7. same # {} => \E f \in F : f.name = es.name
    BY <2>3
  <2> HIDE DEF F
  <2>8. /\ k \in Job /\ k.todo = j.todo \ {es} /\ k.entry = es /\ k.found = F
        /\ k.file = j.file /\ k.mode = j.mode
        /\ k.made = j.made /\ k.since = j.since /\ k.at = j.at
    BY <1>0, <2>1, <2>5 DEF Job
  <2> HIDE DEF k
  <2>9. l \in {"insert", "server"} /\ (l = "server" => same # {})
    OBVIOUS
  <2> HIDE DEF l
  <2>10. ASSUME pc'[p] = l, job'[p] = k PROVE Own(p)' /\ Covered(p)'
    <3>1. Phase(p)' /\ KeyStep(p)' /\ Listed(p)'
      BY <1>0, <1>1, <1>2, <2>1, <2>8, <2>9, <2>10
         DEF Own, Phase, KeyStep, Listed, ServerPhase, WritesServer, AppPhase
    <3>2. Emptied(p)'
      BY <1>0, <1>1, <1>2, <2>8, <2>9, <2>10
         DEF Own, Emptied, ServerPhase, WritesServer, AppPhase
    <3>3. Found(p)'
      BY <1>2, <2>6, <2>8, <2>10 DEF Found
    <3>4. Made(p)'
      BY <1>0, <1>1, <1>2, <2>8, <2>9, <2>10 DEF Own, Made, Unwritten, AppWith
    <3>5. \A q \in Procs \ {p} : pc'[q] = pc[q]
      BY <1>0, <2>4, <2>8, Taken
    <3>6. Covered(p)'
      BY <1>0, <1>1, <1>2, <2>5, <2>7, <2>8, <2>9, <2>10, <3>5
         DEF Covered, Alone, ServerPhase, AppPhase
    <3> QED BY <3>1, <3>2, <3>3, <3>4, <3>6 DEF Own
  <2> QED BY <1>0, <1>1, <1>2, <2>4, <2>8, <2>10, Quiet
<1> QED BY <1>1, <1>3, <1>4 DEF FindServer, Goto, Set, Takes

\* An app of the file: skipped, or to be inserted.
LEMMA FindAppKeeps ==
  ASSUME BackupInv, NEW p \in Procs, FindApp(p)
  PROVE  BackupInv'
<1> DEFINE j == job[p]
<1>0. /\ TypeOK /\ Rows /\ Own(p) /\ Covered(p) /\ j \in Job
      /\ files \subseteq ExportData /\ requests \in Nat /\ faults \in Nat
  BY JobFacts
<1>1. pc[p] = "app" /\ UNCHANGED <<db, disk, files, bound>>
  BY DEF FindApp
<1>2. /\ servers' = servers /\ apps' = apps /\ nextId' = nextId
      /\ requests' = requests /\ faults' = faults
  BY <1>1 DEF db, bound
<1>3. CASE j.todo = {} /\ Goto(p, "done") /\ UNCHANGED job
  <2>1. Takes(p, "done", j) /\ "done" \in PCs
    BY <1>0, <1>3 DEF Goto, Takes, PCs, TypeOK
  <2>2. ASSUME pc'[p] = "done", job'[p] = j PROVE Own(p)' /\ Covered(p)'
    <3>1. Phase(p)' /\ KeyStep(p)' /\ Emptied(p)' /\ Listed(p)'
      BY <1>0, <1>1, <1>2, <1>3, <2>2
         DEF Own, Phase, KeyStep, Emptied, Listed, ServerPhase, WritesServer, AppPhase
    <3>2. Found(p)' /\ Made(p)'
      BY <1>0, <1>1, <1>2, <2>2 DEF Own, Found, Made, Unwritten, AppWith
    <3>3. \A q \in Procs \ {p} : pc'[q] = pc[q]
      BY <1>0, <2>1, Taken
    <3>4. Covered(p)'
      BY <1>0, <1>1, <1>2, <1>3, <2>2, <3>3
         DEF Covered, Alone, ServerPhase, AppPhase, AppNamed
    <3> QED BY <3>1, <3>2, <3>4 DEF Own
  <2> QED BY <1>0, <1>1, <1>2, <2>1, <2>2, Quiet
<1>4. ASSUME NEW ea \in j.todo,
             Set(p, [j EXCEPT !.todo = @ \ {ea}, !.entry = ea]),
             IF Skips(p, ea) THEN UNCHANGED pc ELSE Goto(p, "insertApp")
      PROVE  BackupInv'
  <2> DEFINE k == [j EXCEPT !.todo = @ \ {ea}, !.entry = ea]
             l == IF Skips(p, ea) THEN "app" ELSE "insertApp"
  <2>1. ea \in ExportApp
    BY <1>0, <1>1 DEF Own, Phase, AppPhase
  <2>2. Takes(p, l, k) /\ l \in PCs
    BY <1>0, <1>1, <1>4 DEF Set, Goto, Takes, PCs, TypeOK
  <2>3. /\ k \in Job /\ k.todo = j.todo \ {ea} /\ k.entry = ea /\ k.found = j.found
        /\ k.file = j.file /\ k.mode = j.mode
        /\ k.made = j.made /\ k.since = j.since /\ k.at = j.at
    BY <1>0, <2>1 DEF Job
  <2> HIDE DEF k
  <2>4. /\ l \in {"app", "insertApp"}
        /\ l = "app" => \/ AppNamed(ea.name) # {}
                        \/ \A f \in j.found : f.name # ea.server
        /\ l = "insertApp" => \E f \in j.found : f.name = ea.server
    BY DEF Skips
  <2> HIDE DEF l
  <2>5. ASSUME pc'[p] = l, job'[p] = k PROVE Own(p)' /\ Covered(p)'
    <3>1. Phase(p)' /\ KeyStep(p)' /\ Listed(p)'
      BY <1>0, <1>1, <1>2, <2>1, <2>3, <2>4, <2>5
         DEF Own, Phase, KeyStep, Listed, ServerPhase, WritesServer, AppPhase
    <3>2. Emptied(p)'
      BY <1>0, <1>1, <1>2, <2>3, <2>4, <2>5
         DEF Own, Emptied, ServerPhase, WritesServer, AppPhase
    <3>3. Found(p)' /\ Made(p)'
      BY <1>0, <1>1, <1>2, <2>3, <2>4, <2>5 DEF Own, Found, Made, Unwritten, AppWith
    <3>4. \A q \in Procs \ {p} : pc'[q] = pc[q]
      BY <1>0, <2>2, <2>3, Taken
    <3>5. Covered(p)'
      BY <1>0, <1>1, <1>2, <2>3, <2>4, <2>5, <3>4
         DEF Covered, Alone, ServerPhase, AppPhase, AppNamed
    <3> QED BY <3>1, <3>2, <3>3, <3>5 DEF Own
  <2> QED BY <1>0, <1>1, <1>2, <2>2, <2>3, <2>5, Quiet
<1> QED BY <1>1, <1>3, <1>4 DEF FindApp

\* The import ends.
LEMMA DoneKeeps ==
  ASSUME BackupInv, NEW p \in Procs, Done(p)
  PROVE  BackupInv'
BY JobFacts, Returns DEF Done, bound

---------------------------------------------------------------------------
(* Steps of a process that change tables or files on disk.                 *)

\* A step that changes a table or a file on disk as Keeps allows: only p is at stake.
LEMMA Changes ==
  ASSUME BackupInv, NEW p \in Procs, NEW l \in PCs, NEW k \in Job, Takes(p, l, k),
         NEW i, Keeps(i), i = 0 \/ \E m \in job[p].made : m.id = i,
         servers' \subseteq Server, apps' \subseteq App,
         pem' \subseteq Nat, tokens' \subseteq Nat, UNCHANGED <<files, bound>>,
         Rows', KeysThere', pc[p] # "idle", k.made \subseteq job[p].made,
         pc'[p] = l /\ job'[p] = k => Own(p)' /\ Covered(p)'
  PROVE  BackupInv'
<1>1. /\ pc' \in [Procs -> PCs] /\ job' \in [Procs -> Job]
      /\ pc'[p] = l /\ job'[p] = k
      /\ \A q \in Procs \ {p} : pc'[q] = pc[q] /\ job'[q] = job[q]
  BY Taken DEF BackupInv
<1>2. TypeOK'
  BY <1>1 DEF BackupInv, TypeOK, Rows, bound
<1>3. MadeApart'
  BY <1>1, StayApart DEF BackupInv
<1>4. Own(p)' /\ Covered(p)'
  BY <1>1
<1>5. requests' = requests
  BY DEF bound
<1> QED BY <1>1, <1>2, <1>3, <1>4, <1>5, OneProcess

\* Undeploy takes an app off the list and out of the table.
LEMMA UndeployNextKeeps ==
  ASSUME BackupInv, NEW p \in Procs, UndeployNext(p)
  PROVE  BackupInv'
<1> DEFINE j == job[p]
<1>0. /\ TypeOK /\ Rows /\ KeysThere /\ Own(p) /\ Covered(p) /\ j \in Job
      /\ files \subseteq ExportData /\ requests \in Nat /\ faults \in Nat
      /\ nextId \in Nat \ {0}
  BY JobFacts
<1>1. pc[p] = "undeploy" /\ UNCHANGED <<servers, nextId, disk, files, bound>>
  BY DEF UndeployNext
<1>2. /\ servers' = servers /\ nextId' = nextId /\ pem' = pem /\ tokens' = tokens
      /\ requests' = requests /\ faults' = faults
  BY <1>1 DEF disk, bound
<1>3. \A a \in apps : a.id \in Nat
  BY <1>0 DEF TypeOK, App
<1>4. CASE j.rows = {} /\ Goto(p, "listServers") /\ UNCHANGED <<apps, job>>
  <2>1. Takes(p, "listServers", j) /\ "listServers" \in PCs
    BY <1>0, <1>4 DEF Goto, Takes, PCs, TypeOK
  <2>2. ASSUME pc'[p] = "listServers", job'[p] = j PROVE Own(p)' /\ Covered(p)'
    <3>1. Phase(p)' /\ KeyStep(p)' /\ Listed(p)'
      BY <1>0, <1>1, <1>2, <2>2
         DEF Own, Phase, KeyStep, Listed, ServerPhase, WritesServer, AppPhase
    <3>2. Emptied(p)'
      BY <1>0, <1>1, <1>2, <1>3, <1>4, <2>2, JobFields
         DEF Own, Emptied, ServerPhase, AppPhase
    <3>3. Found(p)' /\ Made(p)'
      BY <1>0, <1>1, <1>2, <1>4, <2>2 DEF Own, Found, Made, Unwritten, AppWith
    <3>4. \A q \in Procs \ {p} : pc'[q] = pc[q]
      BY <1>0, <2>1, Taken
    <3>5. Covered(p)'
      BY <1>0, <1>1, <1>2, <2>2, <3>4 DEF Covered, Alone, ServerPhase, AppPhase
    <3> QED BY <3>1, <3>2, <3>3, <3>5 DEF Own
  <2>3. UNCHANGED <<db, disk>> /\ j.made \subseteq job[p].made
    BY <1>1, <1>4 DEF db, disk
  <2> QED BY <1>0, <1>1, <1>2, <2>1, <2>2, <2>3, Quiet
<1>5. CASE Return(p) /\ UNCHANGED apps
  BY <1>0, <1>1, <1>2, <1>5, Returns DEF db
<1>6. ASSUME NEW a \in j.rows, apps' = apps \ AppWith(a.id),
             Set(p, [j EXCEPT !.rows = @ \ {a}]), UNCHANGED pc
      PROVE  BackupInv'
  <2> DEFINE k == [j EXCEPT !.rows = @ \ {a}]
  <2>1. Takes(p, "undeploy", k) /\ "undeploy" \in PCs
    BY <1>0, <1>1, <1>6 DEF Set, Takes, PCs, TypeOK
  <2>2. /\ k \in Job /\ k.rows = j.rows \ {a} /\ k.found = j.found
        /\ k.file = j.file /\ k.mode = j.mode /\ k.todo = j.todo
        /\ k.made = j.made /\ k.since = j.since /\ k.at = j.at
    BY <1>0 DEF Job
  <2> HIDE DEF k
  <2>3. apps' \subseteq apps /\ \A b \in apps' : b.id # a.id
    BY <1>6 DEF AppWith
  <2>4. Rows' /\ KeysThere' /\ Keeps(0)
    BY <1>0, <1>2, <2>3 DEF Rows, KeysThere, Keeps
  <2>5. ASSUME pc'[p] = "undeploy", job'[p] = k PROVE Own(p)' /\ Covered(p)'
    <3>1. Phase(p)' /\ KeyStep(p)' /\ Listed(p)'
      BY <1>0, <1>1, <1>2, <2>2, <2>5
         DEF Own, Phase, KeyStep, Listed, ServerPhase, WritesServer, AppPhase
    <3>2. Emptied(p)'
      BY <1>0, <1>1, <1>2, <2>2, <2>3, <2>5 DEF Own, Emptied, ServerPhase, AppPhase
    <3>3. Found(p)' /\ Made(p)'
      BY <1>0, <1>1, <1>2, <2>2, <2>3, <2>5 DEF Own, Found, Made, Unwritten, AppWith
    <3>4. \A q \in Procs \ {p} : pc'[q] = pc[q]
      BY <1>6
    <3>5. Covered(p)'
      BY <1>0, <1>1, <1>2, <2>2, <2>5, <3>4 DEF Covered, Alone, ServerPhase, AppPhase
    <3> QED BY <3>1, <3>2, <3>3, <3>5 DEF Own
  <2>6. /\ servers' \subseteq Server /\ apps' \subseteq App /\ pem' \subseteq Nat
        /\ tokens' \subseteq Nat
    BY <1>0, <1>2, <2>3 DEF TypeOK
  <2> QED BY <1>1, <2>1, <2>2, <2>4, <2>5, <2>6, Changes
<1> QED BY <1>4, <1>5, <1>6 DEF UndeployNext

\* Delete takes a server off the list and out of the table, unless it has apps.
LEMMA DeleteNextKeeps ==
  ASSUME BackupInv, NEW p \in Procs, DeleteNext(p)
  PROVE  BackupInv'
<1> DEFINE j == job[p]
<1>0. /\ TypeOK /\ Rows /\ KeysThere /\ Own(p) /\ Covered(p) /\ j \in Job
      /\ files \subseteq ExportData /\ requests \in Nat /\ faults \in Nat
      /\ nextId \in Nat \ {0}
  BY JobFacts
<1>1. pc[p] = "delete" /\ UNCHANGED <<apps, nextId, disk, files, bound>>
  BY DEF DeleteNext
<1>2. /\ apps' = apps /\ nextId' = nextId /\ pem' = pem /\ tokens' = tokens
      /\ requests' = requests /\ faults' = faults
  BY <1>1 DEF disk, bound
<1>3. \A s \in servers : s.id \in Nat
  BY <1>0 DEF TypeOK, Server
<1>4. CASE j.listed = {} /\ Goto(p, "server") /\ UNCHANGED <<servers, job>>
  <2>1. Takes(p, "server", j) /\ "server" \in PCs
    BY <1>0, <1>4 DEF Goto, Takes, PCs, TypeOK
  <2>2. ASSUME pc'[p] = "server", job'[p] = j PROVE Own(p)' /\ Covered(p)'
    <3>1. Phase(p)' /\ KeyStep(p)' /\ Listed(p)'
      BY <1>0, <1>1, <1>2, <2>2
         DEF Own, Phase, KeyStep, Listed, ServerPhase, WritesServer, AppPhase
    <3>2. Emptied(p)'
      BY <1>0, <1>1, <1>2, <1>3, <1>4, <2>2, JobFields
         DEF Own, Emptied, ServerPhase, AppPhase
    <3>3. Found(p)' /\ Made(p)'
      BY <1>0, <1>1, <1>2, <1>4, <2>2 DEF Own, Found, Made, Unwritten, AppWith
    <3>4. \A q \in Procs \ {p} : pc'[q] = pc[q]
      BY <1>0, <2>1, Taken
    <3>5. Covered(p)'
      BY <1>0, <1>1, <1>2, <2>2, <3>4
         DEF Own, Phase, Covered, Alone, ServerPhase, AppPhase
    <3> QED BY <3>1, <3>2, <3>3, <3>5 DEF Own
  <2>3. UNCHANGED <<db, disk>> /\ j.made \subseteq job[p].made
    BY <1>1, <1>4 DEF db, disk
  <2> QED BY <1>0, <1>1, <1>2, <2>1, <2>2, <2>3, Quiet
<1>5. CASE Return(p) /\ UNCHANGED servers
  BY <1>0, <1>1, <1>2, <1>5, Returns DEF db
<1>6. ASSUME NEW s \in j.listed, OnServer(s.id) = {},
             servers' = {t \in servers : t.id # s.id},
             Set(p, [j EXCEPT !.listed = @ \ {s}]), UNCHANGED pc
      PROVE  BackupInv'
  <2> DEFINE k == [j EXCEPT !.listed = @ \ {s}]
  <2>1. Takes(p, "delete", k) /\ "delete" \in PCs
    BY <1>0, <1>1, <1>6 DEF Set, Takes, PCs, TypeOK
  <2>2. /\ k \in Job /\ k.listed = j.listed \ {s} /\ k.found = j.found
        /\ k.file = j.file /\ k.mode = j.mode /\ k.todo = j.todo
        /\ k.made = j.made /\ k.since = j.since /\ k.at = j.at
    BY <1>0 DEF Job
  <2> HIDE DEF k
  <2>3. servers' \subseteq servers /\ \A t \in servers' : t.id # s.id
    BY <1>6
  <2>4. ASSUME NEW a \in apps, NEW t \in servers, t.id = a.server PROVE t \in servers'
    BY <1>6, <2>4 DEF OnServer
  <2>5. Rows'
    BY <1>0, <1>2, <2>3, <2>4 DEF Rows
  <2>6. KeysThere' /\ Keeps(0)
    BY <1>0, <1>2, <2>3 DEF KeysThere, Keeps
  <2>7. ASSUME pc'[p] = "delete", job'[p] = k PROVE Own(p)' /\ Covered(p)'
    <3>1. Phase(p)' /\ KeyStep(p)' /\ Listed(p)'
      BY <1>0, <1>1, <1>2, <2>2, <2>7
         DEF Own, Phase, KeyStep, Listed, ServerPhase, WritesServer, AppPhase
    <3>2. Emptied(p)'
      BY <1>0, <1>1, <1>2, <2>2, <2>3, <2>7 DEF Own, Emptied, ServerPhase, AppPhase
    <3>3. Found(p)' /\ Made(p)'
      BY <1>0, <1>1, <1>2, <2>2, <2>3, <2>4, <2>7
         DEF Own, Found, Made, Unwritten, AppWith
    <3>4. \A q \in Procs \ {p} : pc'[q] = pc[q]
      BY <1>6
    <3>5. Covered(p)'
      BY <1>0, <1>1, <1>2, <2>2, <2>7, <3>4 DEF Covered, Alone, ServerPhase, AppPhase
    <3> QED BY <3>1, <3>2, <3>3, <3>5 DEF Own
  <2>8. /\ servers' \subseteq Server /\ apps' \subseteq App /\ pem' \subseteq Nat
        /\ tokens' \subseteq Nat
    BY <1>0, <1>2, <2>3 DEF TypeOK
  <2> QED BY <1>1, <2>1, <2>2, <2>5, <2>6, <2>7, <2>8, Changes
<1> QED BY <1>4, <1>5, <1>6 DEF DeleteNext, DeleteRefused

\* A new server has no files yet, and its row says so.
LEMMA InsertServerKeeps ==
  ASSUME BackupInv, NEW p \in Procs, InsertServer(p)
  PROVE  BackupInv'
<1> DEFINE j == job[p]
           es == j.entry
           v == [id |-> nextId, name |-> es.name, key |-> FALSE, token |-> FALSE]
           f == [name |-> es.name, id |-> nextId]
           k == [j EXCEPT !.id = nextId, !.found = @ \cup {f}]
           l == IF es.key THEN "key" ELSE IF es.token THEN "token" ELSE "server"
<1>0. /\ TypeOK /\ Rows /\ KeysThere /\ Own(p) /\ Covered(p) /\ j \in Job
      /\ files \subseteq ExportData /\ requests \in Nat /\ faults \in Nat
      /\ nextId \in Nat \ {0}
  BY JobFacts
<1>1. pc[p] = "insert" /\ UNCHANGED <<apps, disk, files, bound>>
  BY DEF InsertServer
<1>2. /\ apps' = apps /\ pem' = pem /\ tokens' = tokens
      /\ requests' = requests /\ faults' = faults
  BY <1>1 DEF disk, bound
<1>3. CASE Return(p) /\ UNCHANGED <<servers, nextId>>
  BY <1>0, <1>1, <1>2, <1>3, Returns DEF db
<1>4. CASE ~(Return(p) /\ UNCHANGED <<servers, nextId>>)
  <2>1. servers' = servers \cup {v} /\ nextId' = nextId + 1 /\ Takes(p, l, k)
    BY <1>4 DEF InsertServer, InsertedKey, Set, Goto, Takes
  <2>2. es \in ExportServer /\ es.name \in ServerNames /\ l \in PCs
    BY <1>0, <1>1 DEF Own, Phase, ExportServer, PCs
  <2>3. v \in Server /\ v.id = nextId /\ ~v.key /\ ~v.token /\ v.name = es.name
    BY <1>0, <2>2 DEF Server
  <2>4. f \in [name : ServerNames, id : Nat] /\ f.id = nextId /\ f.name = es.name
    BY <1>0, <2>2
  <2> HIDE DEF v, f
  <2>5. /\ k \in Job /\ k.id = nextId /\ k.found = j.found \cup {f}
        /\ k.entry = es /\ k.file = j.file /\ k.mode = j.mode /\ k.todo = j.todo
        /\ k.made = j.made /\ k.since = j.since /\ k.at = j.at
    BY <1>0, <2>4 DEF Job
  <2> HIDE DEF k
  <2>6. l \in {"key", "token", "server"} /\ (l = "token" => ~es.key)
    OBVIOUS
  <2> HIDE DEF l
  <2>7. \A s \in servers : s.id \in 1..(nextId - 1)
    BY <1>0 DEF Rows
  <2>8. Rows'
    BY <1>0, <1>2, <2>1, <2>3, <2>7 DEF Rows
  <2>9. KeysThere' /\ Keeps(0)
    BY <1>0, <1>2, <2>1, <2>3 DEF KeysThere, Keeps
  <2>10. ASSUME pc'[p] = l, job'[p] = k PROVE Own(p)' /\ Covered(p)'
    <3>0. j.since \in Nat /\ j.since <= nextId
      BY <1>0, JobFields DEF Own, Phase
    <3>1. Phase(p)' /\ Listed(p)'
      BY <1>0, <1>1, <1>2, <2>1, <2>2, <2>5, <2>6, <2>10, <3>0
         DEF Own, Phase, Listed, ServerPhase, WritesServer, AppPhase
    <3>2. KeyStep(p)'
      BY <1>0, <2>1, <2>5, <2>6, <2>10 DEF KeyStep, WritesServer
    <3>3. Emptied(p)'
      BY <1>0, <1>1, <1>2, <2>1, <2>3, <2>5, <2>6, <2>10, <3>0
         DEF Own, Emptied, ServerPhase, AppPhase
    <3>4. Found(p)'
      <4>1. ASSUME NEW x \in k.found
            PROVE  x.id < nextId' /\ \A s \in servers' : s.id = x.id => s.name = x.name
        <5>1. CASE x = f
          BY <1>0, <2>1, <2>3, <2>4, <2>7, <5>1
        <5>2. CASE x \in j.found
          <6>1. /\ x.id < nextId /\ x.id \in Nat
                /\ \A s \in servers : s.id = x.id => s.name = x.name
            BY <1>0, <5>2, JobFields DEF Own, Found
          <6> QED BY <1>0, <2>1, <2>3, <6>1
        <5> QED BY <2>5, <4>1, <5>1, <5>2
      <4> QED BY <2>10, <4>1 DEF Found
    <3>5. Made(p)'
      BY <1>0, <1>1, <1>2, <2>1, <2>5, <2>6, <2>10
         DEF Own, Made, Unwritten, AppWith
    <3>6. \A q \in Procs \ {p} : pc'[q] = pc[q]
      BY <1>0, <2>1, <2>2, <2>5, Taken
    <3>7. Covered(p)'
      BY <1>0, <1>1, <1>2, <2>4, <2>5, <2>6, <2>10, <3>6
         DEF Covered, Alone, ServerPhase, AppPhase
    <3> QED BY <3>1, <3>2, <3>3, <3>4, <3>5, <3>7 DEF Own
  <2>11. /\ servers' \subseteq Server /\ apps' \subseteq App /\ pem' \subseteq Nat
         /\ tokens' \subseteq Nat
    BY <1>0, <1>2, <2>1, <2>3 DEF TypeOK
  <2> QED BY <1>1, <2>1, <2>2, <2>5, <2>8, <2>9, <2>10, <2>11, Changes
<1> QED BY <1>3, <1>4

\* The next step for a server that has been inserted: rows keep their ids and
\* names, files come and do not go.
LEMMA ServerWritten ==
  ASSUME BackupInv, NEW p \in Procs, pc[p] \in WritesServer,
         NEW l \in {"setKey", "token", "setToken", "server"}, Takes(p, l, job[p]),
         UNCHANGED <<apps, nextId, files, bound>>,
         servers' \subseteq Server,
         \A s \in servers' : \E t \in servers : t.id = s.id /\ t.name = s.name,
         \A t \in servers : \E s \in servers' : t.id = s.id /\ t.name = s.name,
         \A s, t \in servers' : s.id = t.id => s = t,
         pem \subseteq pem', pem' \subseteq Nat,
         tokens \subseteq tokens', tokens' \subseteq Nat,
         KeysThere', pc'[p] = l /\ job'[p] = job[p] => KeyStep(p)'
  PROVE  BackupInv'
<1> DEFINE j == job[p]
<1>0. /\ TypeOK /\ Rows /\ Own(p) /\ Covered(p) /\ j \in Job
      /\ requests \in Nat /\ nextId \in Nat \ {0}
  BY JobFacts
<1>1. apps' = apps /\ nextId' = nextId /\ requests' = requests /\ l \in PCs
  BY DEF bound, PCs
<1>2. Rows'
  <2>1. \A s \in servers' : s.id \in 1..(nextId - 1)
    BY <1>0 DEF Rows
  <2>2. \A a \in apps : a.server = 0 \/ \E s \in servers' : s.id = a.server
    BY <1>0 DEF Rows
  <2> QED BY <1>0, <1>1, <2>1, <2>2 DEF Rows
<1>3. Keeps(0)
  <2>1. \A a \in apps' : \E b \in apps :
          b.id = a.id /\ b.server = a.server /\ b.parts = a.parts
    BY <1>1
  <2>2. nextId <= nextId' /\ requests <= requests'
    BY <1>0, <1>1
  <2> QED BY <2>1, <2>2 DEF Keeps
<1>4. ASSUME pc'[p] = l, job'[p] = j PROVE Own(p)' /\ Covered(p)'
  <2>1. Phase(p)' /\ Listed(p)' /\ KeyStep(p)'
    BY <1>0, <1>1, <1>4
       DEF Own, Phase, Listed, ServerPhase, WritesServer, AppPhase
  <2>2. Emptied(p)'
    BY <1>0, <1>1, <1>4 DEF Own, Emptied, ServerPhase, WritesServer, AppPhase
  <2>3. Found(p)'
    BY <1>0, <1>1, <1>4 DEF Own, Found
  <2>4. Made(p)'
    <3>1. ASSUME NEW m \in j.made, NEW a \in AppWith(m.id)
          PROVE  \E s \in servers' : s.id = a.server /\ s.name = m.of.server
      <4>1. PICK t \in servers : t.id = a.server /\ t.name = m.of.server
        BY <1>0 DEF Own, Made
      <4> QED BY <4>1
    <3> QED BY <1>0, <1>1, <1>4, <3>1
            DEF Own, Made, Unwritten, AppWith, WritesServer
  <2>5. \A q \in Procs \ {p} : pc'[q] = pc[q]
    BY <1>0, <1>1, Taken
  <2>6. Covered(p)'
    BY <1>0, <1>1, <1>4, <2>5 DEF Covered, Alone, ServerPhase, WritesServer, AppPhase
  <2> QED BY <2>1, <2>2, <2>3, <2>4, <2>6 DEF Own
<1>5. apps' \subseteq App /\ pc[p] # "idle" /\ j.made \subseteq job[p].made
  BY <1>0, <1>1 DEF TypeOK, WritesServer
<1>6. UNCHANGED <<files, bound>>
  OBVIOUS
<1> QED BY <1>0, <1>1, <1>2, <1>3, <1>4, <1>5, <1>6, Changes

\* The key file is written before the row says so.
LEMMA WriteKeyKeeps ==
  ASSUME BackupInv, NEW p \in Procs, WriteKey(p)
  PROVE  BackupInv'
<1>0. /\ TypeOK /\ Rows /\ KeysThere /\ Own(p) /\ job[p] \in Job
      /\ files \subseteq ExportData /\ faults \in Nat
  BY JobFacts
<1>1. pc[p] = "key" /\ UNCHANGED <<db, tokens, files>>
  BY DEF WriteKey
<1>2. CASE Fault("disk") /\ Return(p) /\ UNCHANGED pem
  <2>1. UNCHANGED <<db, disk, requests>> /\ faults' \in Nat
    BY <1>0, <1>1, <1>2 DEF Fault, disk
  <2> QED BY <1>0, <1>1, <1>2, <2>1, Returns
<1>3. CASE pem' = pem \cup {job[p].id} /\ Goto(p, "setKey") /\ UNCHANGED <<job, bound>>
  <2>1. Takes(p, "setKey", job[p])
    BY <1>0, <1>3 DEF Goto, Takes, TypeOK
  <2>2. servers' = servers /\ UNCHANGED <<apps, nextId, files, bound>>
    BY <1>1, <1>3 DEF db
  <2>3. /\ pem \subseteq pem' /\ pem' \subseteq Nat /\ tokens \subseteq tokens'
        /\ tokens' \subseteq Nat /\ servers' \subseteq Server /\ KeysThere'
    BY <1>0, <1>1, <1>3, <2>2, JobFields DEF TypeOK, KeysThere
  <2>4. ASSUME pc'[p] = "setKey", job'[p] = job[p] PROVE KeyStep(p)'
    BY <1>0, <1>1, <1>3, <2>2, <2>4 DEF Own, KeyStep, WritesServer
  <2>5. \A s, t \in servers' : s.id = t.id => s = t
    BY <1>0, <2>2 DEF Rows
  <2> QED BY <1>1, <2>1, <2>2, <2>3, <2>4, <2>5, ServerWritten DEF WritesServer
<1> QED BY <1>2, <1>3 DEF WriteKey

\* The token file is written before the row says so.
LEMMA WriteTokenKeeps ==
  ASSUME BackupInv, NEW p \in Procs, WriteToken(p)
  PROVE  BackupInv'
<1>0. /\ TypeOK /\ Rows /\ KeysThere /\ Own(p) /\ job[p] \in Job
      /\ files \subseteq ExportData /\ faults \in Nat
  BY JobFacts
<1>1. pc[p] = "token" /\ UNCHANGED <<db, pem, files>>
  BY DEF WriteToken
<1>2. CASE Fault("disk") /\ Return(p) /\ UNCHANGED tokens
  <2>1. UNCHANGED <<db, disk, requests>> /\ faults' \in Nat
    BY <1>0, <1>1, <1>2 DEF Fault, disk
  <2> QED BY <1>0, <1>1, <1>2, <2>1, Returns
<1>3. CASE /\ tokens' = tokens \cup {job[p].id} /\ Goto(p, "setToken")
           /\ UNCHANGED <<job, bound>>
  <2>1. Takes(p, "setToken", job[p])
    BY <1>0, <1>3 DEF Goto, Takes, TypeOK
  <2>2. servers' = servers /\ UNCHANGED <<apps, nextId, files, bound>>
    BY <1>1, <1>3 DEF db
  <2>3. /\ pem \subseteq pem' /\ pem' \subseteq Nat /\ tokens \subseteq tokens'
        /\ tokens' \subseteq Nat /\ servers' \subseteq Server /\ KeysThere'
    BY <1>0, <1>1, <1>3, <2>2, JobFields DEF TypeOK, KeysThere
  <2>4. ASSUME pc'[p] = "setToken", job'[p] = job[p] PROVE KeyStep(p)'
    BY <1>0, <1>1, <1>3, <2>2, <2>4 DEF Own, KeyStep, WritesServer
  <2>5. \A s, t \in servers' : s.id = t.id => s = t
    BY <1>0, <2>2 DEF Rows
  <2> QED BY <1>1, <2>1, <2>2, <2>3, <2>4, <2>5, ServerWritten DEF WritesServer
<1> QED BY <1>2, <1>3 DEF WriteToken

\* The row names the key file after it has been written.
LEMMA SetKeyKeeps ==
  ASSUME BackupInv, NEW p \in Procs, SetKey(p)
  PROVE  BackupInv'
<1> DEFINE g(s) == IF s.id = job[p].id THEN [s EXCEPT !.key = TRUE] ELSE s
           l == IF job[p].entry.token THEN "token" ELSE "server"
<1>0. /\ TypeOK /\ Rows /\ KeysThere /\ Own(p) /\ job[p] \in Job
  BY JobFacts
<1>1. /\ pc[p] = "setKey" /\ UNCHANGED <<apps, nextId, disk, files, job, bound>>
      /\ servers' = {g(s) : s \in servers} /\ Goto(p, l)
  BY DEF SetKey
<1>2. Takes(p, l, job[p])
  BY <1>0, <1>1 DEF Goto, Takes, TypeOK
<1>3. l \in {"token", "server"}
  OBVIOUS
<1> HIDE DEF l
<1>4. \A s \in servers : /\ g(s) \in Server /\ g(s).id = s.id /\ g(s).name = s.name
                         /\ g(s).token = s.token
                         /\ s.id # job[p].id => g(s).key = s.key
  BY <1>0 DEF TypeOK, Server
<1> HIDE DEF g
<1>5. /\ servers' \subseteq Server
      /\ \A s \in servers' : \E t \in servers : t.id = s.id /\ t.name = s.name
      /\ \A t \in servers : \E s \in servers' : t.id = s.id /\ t.name = s.name
  BY <1>1, <1>4
<1>6. \A s, t \in servers' : s.id = t.id => s = t
  BY <1>0, <1>1, <1>4 DEF Rows
<1>7. /\ pem' = pem /\ tokens' = tokens /\ pem \subseteq pem' /\ pem' \subseteq Nat
      /\ tokens \subseteq tokens' /\ tokens' \subseteq Nat
  BY <1>0, <1>1 DEF disk, TypeOK
<1>8. (\E s \in servers : s.id = job[p].id) => job[p].id \in pem
  BY <1>0, <1>1 DEF Own, KeyStep, WritesServer
<1>9. KeysThere'
  BY <1>0, <1>1, <1>4, <1>7, <1>8 DEF KeysThere
<1>10. ASSUME pc'[p] = l, job'[p] = job[p] PROVE KeyStep(p)'
  BY <1>0, <1>1, <1>3, <1>5, <1>7, <1>8, <1>10 DEF Own, KeyStep, WritesServer
<1>11. UNCHANGED <<apps, nextId, files, bound>> /\ pc[p] \in WritesServer
       /\ l \in {"setKey", "token", "setToken", "server"}
  BY <1>1, <1>3 DEF WritesServer
<1> QED BY <1>2, <1>5, <1>6, <1>7, <1>9, <1>10, <1>11, ServerWritten

\* The row says what the files on disk are.
LEMMA SetTokenKeeps ==
  ASSUME BackupInv, NEW p \in Procs, SetToken(p)
  PROVE  BackupInv'
<1> DEFINE g(s) == IF s.id = job[p].id
                     THEN [s EXCEPT !.token = TRUE, !.key = job[p].entry.key]
                     ELSE s
<1>0. /\ TypeOK /\ Rows /\ KeysThere /\ Own(p) /\ job[p] \in Job
  BY JobFacts
<1>1. /\ pc[p] = "setToken" /\ UNCHANGED <<apps, nextId, disk, files, job, bound>>
      /\ servers' = {g(s) : s \in servers} /\ Goto(p, "server")
  BY DEF SetToken
<1>2. Takes(p, "server", job[p])
  BY <1>0, <1>1 DEF Goto, Takes, TypeOK
<1>3. job[p].entry.key \in BOOLEAN
  BY <1>0, <1>1 DEF Own, Phase, WritesServer, ExportServer
<1>4. \A s \in servers : /\ g(s) \in Server /\ g(s).id = s.id /\ g(s).name = s.name
                         /\ s.id # job[p].id => g(s) = s
                         /\ s.id = job[p].id => g(s).key = job[p].entry.key
  BY <1>0, <1>3 DEF TypeOK, Server
<1> HIDE DEF g
<1>5. /\ servers' \subseteq Server
      /\ \A s \in servers' : \E t \in servers : t.id = s.id /\ t.name = s.name
      /\ \A t \in servers : \E s \in servers' : t.id = s.id /\ t.name = s.name
  BY <1>1, <1>4
<1>6. \A s, t \in servers' : s.id = t.id => s = t
  BY <1>0, <1>1, <1>4 DEF Rows
<1>7. /\ pem' = pem /\ tokens' = tokens /\ pem \subseteq pem' /\ pem' \subseteq Nat
      /\ tokens \subseteq tokens' /\ tokens' \subseteq Nat
  BY <1>0, <1>1 DEF disk, TypeOK
<1>8. (\E s \in servers : s.id = job[p].id) =>
        /\ job[p].id \in tokens
        /\ job[p].entry.key => job[p].id \in pem
  BY <1>0, <1>1 DEF Own, KeyStep, WritesServer
<1>9. KeysThere'
  BY <1>0, <1>1, <1>4, <1>7, <1>8 DEF KeysThere
<1>10. ASSUME pc'[p] = "server" PROVE KeyStep(p)'
  BY <1>10 DEF KeyStep, WritesServer
<1>11. UNCHANGED <<apps, nextId, files, bound>> /\ pc[p] \in WritesServer
  BY <1>1 DEF WritesServer
<1> QED BY <1>2, <1>5, <1>6, <1>7, <1>9, <1>10, <1>11, ServerWritten

\* A new app is on the server the file names, and has still to get its parts.
LEMMA InsertAppKeeps ==
  ASSUME BackupInv, NEW p \in Procs, InsertApp(p)
  PROVE  BackupInv'
<1> DEFINE j == job[p]
           ea == j.entry
           f == CHOOSE x \in j.found : x.name = ea.server
           v == [id |-> nextId, name |-> ea.name, server |-> f.id,
                 status |-> ImportedStatus, parts |-> {}]
           n == [id |-> nextId, of |-> ea]
           k == [j EXCEPT !.id = nextId, !.part = ea.parts, !.made = @ \cup {n}]
<1>0. /\ TypeOK /\ Rows /\ KeysThere /\ Own(p) /\ Covered(p) /\ j \in Job
      /\ files \subseteq ExportData /\ requests \in Nat /\ faults \in Nat
      /\ nextId \in Nat \ {0}
  BY JobFacts
<1>1. pc[p] = "insertApp" /\ UNCHANGED <<servers, disk, files, bound>>
  BY DEF InsertApp
<1>2. /\ servers' = servers /\ pem' = pem /\ tokens' = tokens /\ files' = files
      /\ requests' = requests /\ faults' = faults
  BY <1>1 DEF disk, bound
<1>3. CASE Return(p) /\ UNCHANGED <<apps, nextId>>
  BY <1>0, <1>1, <1>2, <1>3, Returns DEF db
<1>4. CASE ~(Return(p) /\ UNCHANGED <<apps, nextId>>)
  <2>1. /\ apps' = apps \cup {v} /\ nextId' = nextId + 1 /\ Takes(p, "parts", k)
        /\ \E s \in servers : s.id = f.id
    BY <1>4 DEF InsertApp, Set, Goto, Takes
  <2>2. ea \in ExportApp /\ ea.name \in AppNames /\ ea.parts \subseteq Parts
    BY <1>0, <1>1 DEF Own, Phase, ExportApp
  <2>3. f \in j.found /\ f.name = ea.server
    BY <1>0, <1>1 DEF Own, Made
  <2>4. f.id \in Nat
    BY <1>0, <2>3, JobFields
  <2> HIDE DEF f
  <2>5. PICK s \in servers : s.id = f.id /\ s.name = ea.server
    BY <1>0, <2>1, <2>3 DEF Own, Found
  <2>6. /\ v \in App /\ v.id = nextId /\ v.server = s.id /\ v.parts = {}
        /\ v.name = ea.name
    BY <1>0, <2>2, <2>4, <2>5 DEF App, ImportedStatus
  <2>7. n \in [id : Nat, of : ExportApp] /\ n.id = nextId /\ n.of = ea
    BY <1>0, <2>2
  <2> HIDE DEF v, n
  <2>8. /\ k \in Job /\ k.id = nextId /\ k.part = ea.parts /\ k.made = j.made \cup {n}
        /\ k.found = j.found /\ k.file = j.file /\ k.mode = j.mode /\ k.todo = j.todo
        /\ k.since = j.since /\ k.at = j.at
    BY <1>0, <2>2, <2>7 DEF Job
  <2> HIDE DEF k
  <2>9. \A a \in apps : a.id \in 1..(nextId - 1)
    BY <1>0 DEF Rows
  <2>10. Rows'
    BY <1>0, <1>2, <2>1, <2>6, <2>9 DEF Rows
  <2>11. KeysThere' /\ Keeps(0)
    BY <1>0, <1>2, <2>1, <2>6 DEF KeysThere, Keeps
  <2>12. /\ pc' \in [Procs -> PCs] /\ job' \in [Procs -> Job]
         /\ pc'[p] = "parts" /\ job'[p] = k
         /\ \A q \in Procs \ {p} : pc'[q] = pc[q] /\ job'[q] = job[q]
    BY <1>0, <2>1, <2>8, Taken DEF PCs
  <2>13. TypeOK'
    BY <1>0, <1>2, <2>1, <2>6, <2>12 DEF TypeOK
  <2>14. Own(p)'
    <3>0. j.since \in Nat /\ j.since <= nextId
      BY <1>0, JobFields DEF Own, Phase
    <3>1. Phase(p)' /\ KeyStep(p)' /\ Listed(p)'
      BY <1>0, <1>1, <1>2, <2>1, <2>8, <2>12, <3>0
         DEF Own, Phase, KeyStep, Listed, ServerPhase, WritesServer, AppPhase
    <3>2. Emptied(p)'
      BY <1>0, <1>1, <1>2, <2>1, <2>6, <2>8, <2>12, <3>0
         DEF Own, Emptied, ServerPhase, AppPhase
    <3>3. Found(p)'
      BY <1>0, <1>2, <2>1, <2>8, <2>12, JobFields DEF Own, Found
    <3>4. Made(p)'
      <4>1. ASSUME NEW m \in k.made, NEW a \in apps', a.id = m.id
            PROVE  /\ m.id \in 1..nextId
                   /\ a.parts \cup (IF m.id = nextId THEN ea.parts ELSE {}) = m.of.parts
                   /\ \E t \in servers : t.id = a.server /\ t.name = m.of.server
        <5>1. CASE m = n
          BY <1>0, <2>1, <2>5, <2>6, <2>7, <2>9, <4>1, <5>1
        <5>2. CASE m \in j.made
          <6>1. m.id \in 1..(nextId - 1) /\ a \in apps
            BY <1>0, <2>1, <2>6, <4>1, <5>2 DEF Own, Made
          <6>2. /\ a.parts \cup Unwritten(p, m.id) = m.of.parts
                /\ \E t \in servers : t.id = a.server /\ t.name = m.of.server
            BY <1>0, <4>1, <5>2, <6>1 DEF Own, Made, AppWith
          <6> QED BY <1>0, <1>1, <6>1, <6>2 DEF Unwritten
        <5> QED BY <2>8, <4>1, <5>1, <5>2
      <4>2. \A m \in k.made : m.id \in 1..(nextId' - 1)
        BY <1>0, <2>1, <2>7, <2>8 DEF Own, Made
      <4>3. \E m \in k.made : m.id = k.id
        BY <2>7, <2>8
      <4> QED BY <1>2, <2>8, <2>12, <4>1, <4>2, <4>3 DEF Made, Unwritten, AppWith
    <3> QED BY <3>1, <3>2, <3>3, <3>4 DEF Own
  <2>15. Covered(p)'
    <3>1. ASSUME Alone(p), NEW e \in j.file.apps,
                 \E es \in j.file.servers : es.name = e.server
          PROVE  e \in j.todo \/ \E a \in apps' : a.name = e.name
      <4>1. e \in j.todo \/ e = ea \/ \E a \in apps : a.name = e.name
        BY <1>0, <1>1, <3>1 DEF Covered, AppPhase, AppNamed
      <4>2. \E a \in apps' : a.name = ea.name
        BY <2>1, <2>6
      <4> QED BY <2>1, <4>1, <4>2
    <3> QED BY <1>0, <1>1, <1>2, <2>8, <2>12, <3>1
            DEF Covered, Alone, ServerPhase, AppPhase, AppNamed
  <2>16. MadeApart'
    <3>1. \A q \in Procs : \A m \in job[q].made : m.id # n.id
      BY <1>0, <2>7 DEF BackupInv, Own, Made
    <3>2. \A q, r \in Procs : \A m \in job[q].made, x \in job[r].made :
            m.id = x.id => q = r
      BY DEF BackupInv, MadeApart
    <3>3. \A q \in Procs : job'[q].made = IF q = p THEN job[p].made \cup {n}
                                          ELSE job[q].made
      BY <2>8, <2>12
    <3> QED BY <3>1, <3>2, <3>3 DEF MadeApart
  <2> QED BY <1>1, <1>2, <2>10, <2>11, <2>12, <2>13, <2>14, <2>15, <2>16, OneProcess
<1> QED BY <1>3, <1>4

\* A part more is written, and one less to write.
LEMMA WritePartKeeps ==
  ASSUME BackupInv, NEW p \in Procs, WritePart(p)
  PROVE  BackupInv'
<1> DEFINE j == job[p]
<1>0. /\ TypeOK /\ Rows /\ KeysThere /\ Own(p) /\ Covered(p) /\ j \in Job
      /\ files \subseteq ExportData /\ requests \in Nat /\ faults \in Nat
      /\ nextId \in Nat \ {0}
  BY JobFacts
<1>1. pc[p] = "parts" /\ UNCHANGED <<servers, nextId, disk, files, bound>>
  BY DEF WritePart
<1>2. /\ servers' = servers /\ nextId' = nextId /\ pem' = pem /\ tokens' = tokens
      /\ requests' = requests /\ faults' = faults
  BY <1>1 DEF disk, bound
<1>3. CASE j.part = {} /\ Goto(p, "app") /\ UNCHANGED <<apps, job>>
  <2>1. Takes(p, "app", j) /\ "app" \in PCs
    BY <1>0, <1>3 DEF Goto, Takes, PCs, TypeOK
  <2>2. ASSUME pc'[p] = "app", job'[p] = j PROVE Own(p)' /\ Covered(p)'
    <3>1. Phase(p)' /\ KeyStep(p)' /\ Listed(p)'
      BY <1>0, <1>1, <1>2, <2>2
         DEF Own, Phase, KeyStep, Listed, ServerPhase, WritesServer, AppPhase
    <3>2. Emptied(p)' /\ Found(p)'
      BY <1>0, <1>1, <1>2, <1>3, <2>2 DEF Own, Emptied, Found, ServerPhase, AppPhase
    <3>3. Made(p)'
      BY <1>0, <1>1, <1>2, <1>3, <2>2 DEF Own, Made, Unwritten, AppWith
    <3>4. \A q \in Procs \ {p} : pc'[q] = pc[q]
      BY <1>0, <2>1, Taken
    <3>5. Covered(p)'
      BY <1>0, <1>1, <1>2, <1>3, <2>2, <3>4
         DEF Covered, Alone, ServerPhase, AppPhase, AppNamed
    <3> QED BY <3>1, <3>2, <3>3, <3>5 DEF Own
  <2>3. UNCHANGED <<db, disk>> /\ j.made \subseteq job[p].made
    BY <1>1, <1>3 DEF db, disk
  <2> QED BY <1>0, <1>1, <1>2, <2>1, <2>2, <2>3, Quiet
<1>4. CASE Return(p) /\ UNCHANGED apps
  BY <1>0, <1>1, <1>2, <1>4, Returns DEF db
<1>5. ASSUME NEW x \in j.part,
             apps' = {IF a.id = j.id THEN [a EXCEPT !.parts = @ \cup {x}] ELSE a :
                        a \in apps},
             Set(p, [j EXCEPT !.part = Remaining(p, x)]), UNCHANGED pc
      PROVE  BackupInv'
  <2> DEFINE g(a) == IF a.id = j.id THEN [a EXCEPT !.parts = @ \cup {x}] ELSE a
             k == [j EXCEPT !.part = j.part \ {x}]
  <2>1. Takes(p, "parts", k) /\ "parts" \in PCs
    BY <1>0, <1>1, <1>5 DEF Set, Takes, PCs, TypeOK, Remaining
  <2>2. /\ k \in Job /\ k.part = j.part \ {x} /\ k.found = j.found /\ k.id = j.id
        /\ k.file = j.file /\ k.mode = j.mode /\ k.todo = j.todo
        /\ k.made = j.made /\ k.since = j.since /\ k.at = j.at
    BY <1>0 DEF Job
  <2> HIDE DEF k
  <2>3. x \in Parts
    BY <1>0, <1>5, JobFields
  <2>4. \A a \in apps : /\ g(a) \in App /\ g(a).id = a.id /\ g(a).server = a.server
                        /\ g(a).name = a.name
                        /\ g(a).parts = IF a.id = j.id THEN a.parts \cup {x} ELSE a.parts
    BY <1>0, <2>3 DEF TypeOK, App
  <2>5. apps' = {g(a) : a \in apps}
    BY <1>5
  <2> HIDE DEF g
  <2>6. /\ apps' \subseteq App
        /\ \A a \in apps' : \E b \in apps :
             /\ a.id = b.id /\ a.server = b.server
             /\ a.parts = IF b.id = j.id THEN b.parts \cup {x} ELSE b.parts
        /\ \A b \in apps : \E a \in apps' : a.name = b.name
    <3>1. ASSUME NEW a \in apps'
          PROVE  /\ a \in App
                 /\ \E b \in apps :
                      /\ a.id = b.id /\ a.server = b.server
                      /\ a.parts = IF b.id = j.id THEN b.parts \cup {x} ELSE b.parts
      <4>1. PICK b \in apps : a = g(b)
        BY <2>5
      <4> QED BY <2>4, <4>1
    <3>2. ASSUME NEW b \in apps PROVE \E a \in apps' : a.name = b.name
      <4>1. g(b) \in apps'
        BY <2>5
      <4> QED BY <2>4, <4>1
    <3> QED BY <3>1, <3>2
  <2>7. Rows' /\ KeysThere'
    <3>1. ASSUME NEW a \in apps'
          PROVE  /\ a.id \in 1..(nextId - 1)
                 /\ a.server = 0 \/ \E s \in servers : s.id = a.server
      <4>1. PICK b \in apps : a.id = b.id /\ a.server = b.server
        BY <2>6
      <4> QED BY <1>0, <4>1 DEF Rows
    <3> QED BY <1>0, <1>2, <3>1 DEF Rows, KeysThere
  <2>8. Keeps(j.id)
    <3>1. \A a \in apps' : \E b \in apps : /\ b.id = a.id /\ b.server = a.server
                                           /\ a.id # j.id => b.parts = a.parts
      BY <2>6
    <3>2. nextId <= nextId' /\ requests <= requests'
      BY <1>0, <1>2
    <3> QED BY <1>2, <3>1, <3>2 DEF Keeps
  <2>9. ASSUME pc'[p] = "parts", job'[p] = k PROVE Own(p)' /\ Covered(p)'
    <3>1. Phase(p)' /\ KeyStep(p)' /\ Listed(p)'
      BY <1>0, <1>1, <1>2, <2>2, <2>9
         DEF Own, Phase, KeyStep, Listed, ServerPhase, WritesServer, AppPhase
    <3>2. Emptied(p)' /\ Found(p)'
      BY <1>0, <1>1, <1>2, <2>2, <2>6, <2>9
         DEF Own, Emptied, Found, ServerPhase, AppPhase
    <3>3. Made(p)'
      <4>1. ASSUME NEW m \in j.made, NEW a \in apps', a.id = m.id
            PROVE  /\ a.parts \cup (IF m.id = j.id THEN j.part \ {x} ELSE {})
                        = m.of.parts
                   /\ \E s \in servers : s.id = a.server /\ s.name = m.of.server
        <5>1. PICK b \in apps : /\ a.id = b.id /\ a.server = b.server
                 /\ a.parts = IF b.id = j.id THEN b.parts \cup {x} ELSE b.parts
          BY <2>6
        <5>2. /\ b.parts \cup Unwritten(p, m.id) = m.of.parts
              /\ \E s \in servers : s.id = a.server /\ s.name = m.of.server
          <6>1. b \in AppWith(m.id)
            BY <4>1, <5>1 DEF AppWith
          <6> QED BY <1>0, <5>1, <6>1 DEF Own, Made
        <5> QED BY <1>1, <1>5, <4>1, <5>1, <5>2 DEF Unwritten
      <4> QED BY <1>0, <1>1, <1>2, <2>2, <2>9, <4>1 DEF Own, Made, Unwritten, AppWith
    <3>4. \A q \in Procs \ {p} : pc'[q] = pc[q]
      BY <1>5
    <3>5. \A y : AppNamed(y) # {} => AppNamed(y)' # {}
      BY <2>6 DEF AppNamed
    <3>6. Covered(p)'
      BY <1>0, <1>1, <1>2, <2>2, <2>9, <3>4, <3>5
         DEF Covered, Alone, ServerPhase, AppPhase
    <3> QED BY <3>1, <3>2, <3>3, <3>6 DEF Own
  <2>10. /\ servers' \subseteq Server /\ pem' \subseteq Nat /\ tokens' \subseteq Nat
         /\ \E m \in job[p].made : m.id = j.id
    BY <1>0, <1>1, <1>2 DEF TypeOK, Own, Made
  <2> QED BY <1>1, <2>1, <2>2, <2>6, <2>7, <2>8, <2>9, <2>10, Changes
<1> QED BY <1>3, <1>4, <1>5 DEF WritePart

---------------------------------------------------------------------------
(* Other requests, and the specification.                                  *)

\* Any other request: every process is one that does not take the step.
LEMMA OtherRequest ==
  ASSUME BackupInv, Request, UNCHANGED <<files, pc, job>>,
         servers' \subseteq Server, apps' \subseteq App,
         pem' \subseteq Nat, tokens' \subseteq Nat, Rows', KeysThere', Keeps(0)
  PROVE  BackupInv'
<1>1. TypeOK'
  BY DEF BackupInv, TypeOK, Request, Rows
<1>2. requests < requests'
  BY DEF BackupInv, TypeOK, Request
<1>3. MadeApart'
  BY DEF BackupInv, MadeApart
<1>4. ASSUME NEW q \in Procs PROVE Own(q)' /\ Covered(q)'
  <2>1. \A m \in job[q].made : m.id # 0
    BY DEF BackupInv, Own, Made
  <2> QED BY <1>1, <1>2, <2>1, OthersKeep, OthersCovered
<1> QED BY <1>1, <1>3, <1>4 DEF BackupInv

\* Requests of other users meanwhile: new rows have new ids.
LEMMA RequestsKeep ==
  ASSUME BackupInv, AddServer \/ RemoveServer \/ AddApp \/ ChangeStatus \/ DeleteApp
  PROVE  BackupInv'
<1>0. /\ TypeOK /\ Rows /\ KeysThere /\ nextId \in Nat \ {0} /\ requests \in Nat
  BY DEF BackupInv, TypeOK, Rows
<1>1. CASE AddServer
  <2>1. PICK n \in ServerNames :
          servers' = servers \cup
            {[id |-> nextId, name |-> n, key |-> TRUE, token |-> FALSE]}
    BY <1>1 DEF AddServer
  <2> DEFINE v == [id |-> nextId, name |-> n, key |-> TRUE, token |-> FALSE]
  <2>2. v \in Server /\ v.id = nextId /\ ~v.token
    BY <1>0 DEF Server
  <2>3. servers' = servers \cup {v}
    BY <2>1
  <2> HIDE DEF v
  <2>4. /\ pem' = pem \cup {nextId} /\ nextId' = nextId + 1 /\ Request
        /\ apps' = apps /\ tokens' = tokens /\ UNCHANGED <<files, pc, job>>
    BY <1>1 DEF AddServer
  <2>5. Rows'
    BY <1>0, <2>2, <2>3, <2>4 DEF Rows
  <2>6. KeysThere' /\ Keeps(0)
    BY <1>0, <2>2, <2>3, <2>4 DEF KeysThere, Keeps, Request
  <2>7. /\ servers' \subseteq Server /\ apps' \subseteq App
        /\ pem' \subseteq Nat /\ tokens' \subseteq Nat
    BY <1>0, <2>2, <2>3, <2>4 DEF TypeOK
  <2> QED BY <2>4, <2>5, <2>6, <2>7, OtherRequest
<1>2. CASE RemoveServer
  <2>1. PICK s \in servers : /\ OnServer(s.id) = {} /\ servers' = servers \ {s}
                             /\ pem' = pem \ {s.id} /\ tokens' = tokens \ {s.id}
    BY <1>2 DEF RemoveServer
  <2>2. apps' = apps /\ nextId' = nextId /\ Request /\ UNCHANGED <<files, pc, job>>
    BY <1>2 DEF RemoveServer
  <2>3. \A t \in servers' : t \in servers /\ t.id # s.id
    BY <1>0, <2>1 DEF Rows
  <2>4. \A a \in apps : a.server # s.id
    BY <2>1 DEF OnServer
  <2>5. Rows'
    BY <1>0, <2>1, <2>2, <2>3, <2>4 DEF Rows
  <2>6. KeysThere' /\ Keeps(0)
    BY <1>0, <2>1, <2>2, <2>3 DEF KeysThere, Keeps, Request
  <2>7. /\ servers' \subseteq Server /\ apps' \subseteq App
        /\ pem' \subseteq Nat /\ tokens' \subseteq Nat
    BY <1>0, <2>1, <2>2 DEF TypeOK
  <2> QED BY <2>2, <2>5, <2>6, <2>7, OtherRequest
<1>3. CASE AddApp
  <2>1. PICK n \in AppNames, id \in {0} \cup {s.id : s \in servers} :
          apps' = apps \cup {[id |-> nextId, name |-> n, server |-> id,
                              status |-> "created", parts |-> Parts]}
    BY <1>3 DEF AddApp
  <2> DEFINE v == [id |-> nextId, name |-> n, server |-> id,
                   status |-> "created", parts |-> Parts]
  <2>2. id \in Nat /\ (id = 0 \/ \E s \in servers : s.id = id)
    BY <1>0, <2>1 DEF TypeOK, Server
  <2>3. v \in App /\ v.id = nextId /\ v.server = id
    BY <1>0, <2>2 DEF App
  <2>4. apps' = apps \cup {v}
    BY <2>1
  <2> HIDE DEF v
  <2>5. /\ nextId' = nextId + 1 /\ Request /\ servers' = servers /\ pem' = pem
        /\ tokens' = tokens /\ UNCHANGED <<files, pc, job>>
    BY <1>3 DEF AddApp, disk
  <2>6. Rows'
    BY <1>0, <2>2, <2>3, <2>4, <2>5 DEF Rows
  <2>7. KeysThere' /\ Keeps(0)
    BY <1>0, <2>3, <2>4, <2>5 DEF KeysThere, Keeps, Request
  <2>8. /\ servers' \subseteq Server /\ apps' \subseteq App
        /\ pem' \subseteq Nat /\ tokens' \subseteq Nat
    BY <1>0, <2>3, <2>4, <2>5 DEF TypeOK
  <2> QED BY <2>5, <2>6, <2>7, <2>8, OtherRequest
<1>4. CASE ChangeStatus
  <2>1. PICK a \in apps, status \in {"running", "stopped"} :
          apps' = (apps \ {a}) \cup {[a EXCEPT !.status = status]}
    BY <1>4 DEF ChangeStatus
  <2> DEFINE v == [a EXCEPT !.status = status]
  <2>2. v \in App /\ v.id = a.id /\ v.server = a.server /\ v.parts = a.parts
    BY <1>0 DEF TypeOK, App
  <2>3. apps' = (apps \ {a}) \cup {v}
    BY <2>1
  <2> HIDE DEF v
  <2>4. /\ nextId' = nextId /\ Request /\ servers' = servers /\ pem' = pem
        /\ tokens' = tokens /\ UNCHANGED <<files, pc, job>>
    BY <1>4 DEF ChangeStatus, disk
  <2>5. Rows'
    BY <1>0, <2>2, <2>3, <2>4 DEF Rows
  <2>6. KeysThere' /\ Keeps(0)
    BY <1>0, <2>2, <2>3, <2>4 DEF KeysThere, Keeps, Request
  <2>7. /\ servers' \subseteq Server /\ apps' \subseteq App
        /\ pem' \subseteq Nat /\ tokens' \subseteq Nat
    BY <1>0, <2>2, <2>3, <2>4 DEF TypeOK
  <2> QED BY <2>4, <2>5, <2>6, <2>7, OtherRequest
<1>5. CASE DeleteApp
  <2>1. apps' \subseteq apps
    BY <1>5 DEF DeleteApp
  <2>2. /\ nextId' = nextId /\ Request /\ servers' = servers /\ pem' = pem
        /\ tokens' = tokens /\ UNCHANGED <<files, pc, job>>
    BY <1>5 DEF DeleteApp, disk
  <2>3. Rows' /\ KeysThere' /\ Keeps(0)
    BY <1>0, <2>1, <2>2 DEF Rows, KeysThere, Keeps, Request
  <2>4. /\ servers' \subseteq Server /\ apps' \subseteq App
        /\ pem' \subseteq Nat /\ tokens' \subseteq Nat
    BY <1>0, <2>1, <2>2 DEF TypeOK
  <2> QED BY <2>2, <2>3, <2>4, OtherRequest
<1> QED BY <1>1, <1>2, <1>3, <1>4, <1>5

\* A restart ends every job where it is.
LEMMA RestartKeeps ==
  ASSUME BackupInv, Restart
  PROVE  BackupInv'
<1>1. /\ pc' = [p \in Procs |-> "idle"] /\ job' = [p \in Procs |-> NoJob]
      /\ UNCHANGED <<db, disk, files>> /\ faults' = faults + 1 /\ UNCHANGED requests
  BY DEF Restart, Fault
<1>2. TypeOK'
  BY <1>1, NoJobIs DEF BackupInv, TypeOK, db, disk, PCs
<1>3. Rows' /\ KeysThere'
  BY <1>1 DEF BackupInv, Rows, KeysThere, db, disk
<1>4. \A p \in Procs : pc'[p] = "idle" /\ job'[p] = NoJob
  BY <1>1
<1>5. MadeApart'
  BY <1>4, NoJobIs DEF MadeApart
<1> QED BY <1>2, <1>3, <1>4, <1>5, Ended DEF BackupInv

\* Every step keeps the invariant.
LEMMA BackupStep == BackupInv /\ [Next]_vars => BackupInv'
<1> SUFFICES ASSUME BackupInv, [Next]_vars PROVE BackupInv'
  OBVIOUS
<1>1. ASSUME NEW p \in Procs, Step(p) PROVE BackupInv'
  BY <1>1, ListAppsKeeps, ReadKeysKeeps, ReadPartsKeeps, UndeployNextKeeps,
     ListServersKeeps, DeleteNextKeeps, FindServerKeeps, InsertServerKeeps,
     WriteKeyKeeps, SetKeyKeeps, WriteTokenKeeps, SetTokenKeeps, FindAppKeeps,
     InsertAppKeeps, WritePartKeeps, DoneKeeps
     DEF Step
<1>2. ASSUME NEW p \in Procs, NEW pass \in Passphrases \cup {None}, Export(p, pass)
      PROVE  BackupInv'
  BY <1>2, ExportKeeps
<1>3. ASSUME NEW p \in Procs, NEW pass \in Passphrases \cup {None},
             NEW file \in files, NEW mode \in {"merge", "replace"},
             Import(p, file, pass, mode)
      PROVE  BackupInv'
  BY <1>3, ImportKeeps
<1>4. CASE UNCHANGED vars
  BY <1>4 DEF vars, db, disk, bound, BackupInv, TypeOK, Rows, KeysThere, MadeApart,
              Own, Phase, KeyStep, Emptied, Listed, Found, Made, Unwritten, AppWith,
              Covered, Alone, AppNamed
<1> QED BY <1>1, <1>2, <1>3, <1>4, RequestsKeep, RestartKeeps DEF Next

\* A new installation satisfies the invariant.
LEMMA BackupStart == Init => BackupInv
<1> SUFFICES ASSUME Init PROVE BackupInv
  OBVIOUS
<1>1. TypeOK
  <2>1. servers \subseteq Server /\ apps \subseteq App
    BY BackupAssumption DEF Init, Server, App
  <2>2. pc \in [Procs -> PCs] /\ job \in [Procs -> Job]
    BY NoJobIs DEF Init, PCs
  <2>3. files \subseteq ExportData
    BY BackupAssumption DEF Init
  <2> QED BY <2>1, <2>2, <2>3 DEF Init, TypeOK
<1>2. Rows /\ KeysThere
  BY DEF Init, Rows, KeysThere
<1>3. \A p \in Procs : pc[p] = "idle" /\ job[p] = NoJob
  BY DEF Init
<1>4. MadeApart
  BY <1>3, NoJobIs DEF MadeApart
<1>5. ASSUME NEW p \in Procs PROVE Own(p) /\ Covered(p)
  BY <1>1, <1>3, NoJobIs
     DEF TypeOK, Own, Phase, KeyStep, Emptied, Listed, Found, Made, Covered, Alone,
         ServerPhase, WritesServer, AppPhase
<1> QED BY <1>1, <1>2, <1>4, <1>5 DEF BackupInv

---------------------------------------------------------------------------
\* The tables, the files and what exports and imports hold stay well-formed.
THEOREM BackupTyped == Spec => []TypeOK
<1>1. BackupInv => TypeOK
  BY DEF BackupInv
<1> QED BY <1>1, BackupStart, BackupStep, PTL DEF Spec

\* Wherever imports fail, stop or overlap, and whatever servers other requests add
\* and remove meanwhile, a row names only files that exist.
THEOREM ImportsLeaveKeys == Spec => []KeysThere
<1>1. BackupInv => KeysThere
  BY DEF BackupInv
<1> QED BY <1>1, BackupStart, BackupStep, PTL DEF Spec

\* A complete replace import has removed all there was, although it lists apps and
\* servers at different times and other requests add to both.
THEOREM ReplaceIsTotal == Spec => []ReplaceRemovesAll
<1>1. ASSUME BackupInv PROVE ReplaceRemovesAll
  <2> SUFFICES ASSUME NEW p \in Procs, pc[p] = "done", job[p].mode = "replace"
               PROVE  /\ \A a \in apps : /\ a.id >= job[p].since
                                         /\ a.server = 0 \/ a.server >= job[p].since
                      /\ \A s \in servers : s.id >= job[p].since
    BY DEF ReplaceRemovesAll
  <2>1. /\ \A a \in apps : a.id >= job[p].since
        /\ \A s \in servers : s.id >= job[p].since
    BY <1>1 DEF BackupInv, Own, Emptied, AppPhase
  <2>2. \A a \in apps : a.server = 0 \/ \E s \in servers : s.id = a.server
    BY <1>1 DEF BackupInv, Rows
  <2> QED BY <2>1, <2>2
<1> QED BY <1>1, BackupStart, BackupStep, PTL DEF Spec

\* What a complete import has created is whole, whatever others did meanwhile, and
\* an import that ran alone has created all that the file asks for.
THEOREM ImportsAreWhole == Spec => []ImportedWhole
<1>1. ASSUME BackupInv PROVE ImportedWhole
  <2> SUFFICES ASSUME NEW p \in Procs, pc[p] = "done"
               PROVE  /\ \A m \in job[p].made : \A a \in AppWith(m.id) :
                           /\ a.parts = m.of.parts
                           /\ \E s \in servers : /\ s.id = a.server
                                                 /\ s.name = m.of.server
                      /\ job[p].at = requests =>
                           \A ea \in job[p].file.apps :
                             (\E es \in job[p].file.servers : es.name = ea.server)
                               => AppNamed(ea.name) # {}
    BY DEF ImportedWhole
  <2>1. Own(p) /\ Covered(p)
    BY <1>1 DEF BackupInv
  <2>2. \A m \in job[p].made : \A a \in AppWith(m.id) :
          /\ a.parts = m.of.parts
          /\ \E s \in servers : s.id = a.server /\ s.name = m.of.server
    BY <2>1 DEF Own, Made, Unwritten
  <2>3. ASSUME job[p].at = requests, NEW ea \in job[p].file.apps,
               \E es \in job[p].file.servers : es.name = ea.server
        PROVE  AppNamed(ea.name) # {}
    BY <2>1, <2>3 DEF Own, Phase, Covered, Alone, AppPhase
  <2> QED BY <2>2, <2>3
<1> QED BY <1>1, BackupStart, BackupStep, PTL DEF Spec

\* An exported app names a server of the file, although apps are listed after the
\* servers and either may be gone by then.
THEOREM ExportsAreClosed == Spec => ExportNamesServers
<1>1. ASSUME BackupInv, NEW p \in Procs, ReadParts(p), NEW a \in job[p].rows,
             a.server \in 1..(job[p].since - 1)
      PROVE  \E s \in job[p].listed : s.id = a.server /\ s.name = NameOf(p, a)
  <2> DEFINE f == {x \in job[p].found : x.id = a.server}
  <2>1. Listed(p) /\ pc[p] = "readParts"
    BY <1>1 DEF BackupInv, Own, ReadParts
  <2>2. PICK t \in job[p].listed : t.id = a.server
    BY <1>1, <2>1 DEF Listed
  <2>3. job[p].found = {[name |-> s.name, id |-> s.id] : s \in job[p].listed}
    BY <2>1 DEF Listed
  <2>4. [name |-> t.name, id |-> t.id] \in f
    BY <2>2, <2>3
  <2>5. PICK x \in f : NameOf(p, a) = x.name
    BY <2>4 DEF NameOf
  <2> QED BY <2>3, <2>5
<1>2. ASSUME BackupInv
      PROVE  \A p \in Procs : ReadParts(p) =>
               \A a \in job[p].rows : a.server \in 1..(job[p].since - 1) =>
                 \E s \in job[p].listed : s.id = a.server /\ s.name = NameOf(p, a)
  BY <1>1, <1>2
<1> QED BY <1>2, BackupStart, BackupStep, PTL DEF Spec, ExportNamesServers

=============================================================================
