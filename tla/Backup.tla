------------------------------- MODULE Backup -------------------------------
(***************************************************************************)
(* Export and import of the configuration: internal/backup.                *)
(*                                                                         *)
(* Neither takes a lock or a transaction: an export is a handful of        *)
(* queries, an import a statement or a file per entry, and other requests  *)
(* come in between.  Processes are the handlers of the two pages.  The     *)
(* entries of a file are handled in the order of the lists, here in any.   *)
(***************************************************************************)
EXTENDS Naturals, FiniteSets

CONSTANTS
  ServerNames, AppNames,
  Parts,         \* what an app has in tables of their own: routes, secrets, files
  Passphrases,
  Procs,
  FirstServer, FirstApp,   \* the names of what exists at first
  Uploads,       \* files exported by another instance
  None,
  Faults,        \* "disk": a key file cannot be written; "crash": a restart
  MaxRequests,   \* bound: requests in a behaviour
  MaxFaults      \* bound: things that go wrong in a behaviour

\* server is the name that the file gives; None where the app had no server, or
\* the server was not listed.
ExportServer == [name : ServerNames, key : BOOLEAN, token : BOOLEAN]
ExportApp == [name : AppNames, server : ServerNames \cup {None},
              parts : SUBSET Parts]
ExportData == [servers : SUBSET ExportServer, apps : SUBSET ExportApp,
               pass : Passphrases \cup {None}]

ASSUME BackupAssumption ==
  /\ None \notin ServerNames \cup AppNames \cup Passphrases
  /\ FirstServer \in ServerNames /\ FirstApp \in AppNames
  /\ Uploads \subseteq ExportData
  /\ Faults \subseteq {"disk", "crash"}
  /\ MaxRequests \in Nat /\ MaxFaults \in Nat

VARIABLES
  servers,   \* table servers
  apps,      \* table apps, with the rows of the other tables
  pem,       \* ids of the servers that have a key file
  tokens,    \* ids of the servers that have a file with a registry token
  nextId,    \* AUTOINCREMENT of both tables
  files,     \* the exported files at hand
  pc, job,
  requests, faults

db    == <<servers, apps, nextId>>
disk  == <<pem, tokens>>
bound == <<requests, faults>>
vars  == <<db, disk, files, pc, job, bound>>

---------------------------------------------------------------------------
(* Types.                                                                  *)

\* key, token: the row holds the path of the file.
Server == [id : Nat, name : ServerNames, key : BOOLEAN, token : BOOLEAN]

\* server = 0: a draft without one.
App == [id : Nat, name : AppNames, server : Nat,
        status : {"created", "stopped", "running"}, parts : SUBSET Parts]

\* found: the names and ids of servers known so far (serverNameMap, serverIDs);
\* listed, rows: servers and apps that were listed; todo: the entries still to
\* handle; part: what is still to be written for the app with this id.  History:
\* made: the apps that the import has created; since: the next id when it began;
\* at: the number of requests then, 0 if another one was in progress.
Job == [mode : {"none", "export", "merge", "replace"}, file : ExportData,
        found : SUBSET [name : ServerNames, id : Nat], listed : SUBSET Server,
        rows : SUBSET App, todo : SUBSET (ExportServer \cup ExportApp),
        entry : ExportServer \cup ExportApp \cup {None}, id : Nat,
        part : SUBSET Parts, made : SUBSET [id : Nat, of : ExportApp],
        since : Nat, at : Nat]

NoFile == [servers |-> {}, apps |-> {}, pass |-> None]

NoJob == [mode |-> "none", file |-> NoFile, found |-> {}, listed |-> {},
          rows |-> {}, todo |-> {}, entry |-> None, id |-> 0, part |-> {},
          made |-> {}, since |-> 0, at |-> 0]

PCs == {"idle", "listApps", "readKeys", "readParts",
        "undeploy", "listServers", "delete", "server", "insert", "key", "setKey",
        "token", "setToken", "app", "insertApp", "parts", "done"}

TypeOK ==
  /\ servers \subseteq Server /\ apps \subseteq App
  /\ pem \subseteq Nat /\ tokens \subseteq Nat /\ nextId \in Nat
  /\ files \subseteq ExportData
  /\ pc \in [Procs -> PCs]
  /\ job \in [Procs -> Job]
  /\ requests \in Nat /\ faults \in Nat

\* A server with its key and a stopped app on it.
Init ==
  /\ servers = {[id |-> 1, name |-> FirstServer, key |-> TRUE, token |-> FALSE]}
  /\ apps = {[id |-> 2, name |-> FirstApp, server |-> 1, status |-> "stopped",
              parts |-> Parts]}
  /\ pem = {1} /\ tokens = {} /\ nextId = 3
  /\ files = Uploads
  /\ pc = [p \in Procs |-> "idle"]
  /\ job = [p \in Procs |-> NoJob]
  /\ requests = 0 /\ faults = 0

---------------------------------------------------------------------------
(* Control and queries.                                                    *)

Goto(p, label) == pc' = [pc EXCEPT ![p] = label]

Set(p, j) == job' = [job EXCEPT ![p] = j]

\* An error ends the import: what was done stays done.
Return(p) == Goto(p, "idle") /\ Set(p, NoJob)

Request ==
  /\ requests < MaxRequests
  /\ requests' = requests + 1
  /\ UNCHANGED faults

Fault(kind) ==
  /\ kind \in Faults
  /\ faults < MaxFaults
  /\ faults' = faults + 1
  /\ UNCHANGED requests

ServerNamed(n) == {s \in servers : s.name = n}
AppNamed(n) == {a \in apps : a.name = n}
OnServer(id) == {a \in apps : a.server = id}
AppWith(id) == {a \in apps : a.id = id}

---------------------------------------------------------------------------
(* Plausible slips: variants of the definitions below that the             *)
(* specification does not use; each breaks a property.                     *)

\* The path of the key file goes into the row with the INSERT.
InsertedKey_Early(es) == es.key

\* A server that still has apps is left alone, and the import goes on.
DeleteRefused_GoesOn(p, s) ==
  /\ Set(p, [job[p] EXCEPT !.listed = @ \ {s}])
  /\ UNCHANGED pc

\* A return in the loop over the secrets.
Remaining_None(p, x) == {}

\* Every app is given to the server that was listed first.
NameOf_First(p, a) == (CHOOSE f \in job[p].found : TRUE).name

---------------------------------------------------------------------------
(* Other requests, each in one step here.                                  *)

AddServer ==
  /\ Request
  /\ \E n \in {n \in ServerNames : ServerNamed(n) = {}} :
       servers' = servers \cup
         {[id |-> nextId, name |-> n, key |-> TRUE, token |-> FALSE]}
  /\ pem' = pem \cup {nextId}
  /\ nextId' = nextId + 1
  /\ UNCHANGED <<apps, tokens, files, pc, job>>

\* The handler removes the files, too.
RemoveServer ==
  /\ Request
  /\ \E s \in servers :
       /\ OnServer(s.id) = {}
       /\ servers' = servers \ {s}
       /\ pem' = pem \ {s.id} /\ tokens' = tokens \ {s.id}
  /\ UNCHANGED <<apps, nextId, files, pc, job>>

AddApp ==
  /\ Request
  /\ \E n \in {n \in AppNames : AppNamed(n) = {}},
        id \in {0} \cup {s.id : s \in servers} :
       apps' = apps \cup {[id |-> nextId, name |-> n, server |-> id,
                           status |-> "created", parts |-> Parts]}
  /\ nextId' = nextId + 1
  /\ UNCHANGED <<servers, disk, files, pc, job>>

\* A deployment, Start or Stop.
ChangeStatus ==
  /\ Request
  /\ \E a \in apps, status \in {"running", "stopped"} :
       /\ a.server # 0 /\ a.status # status
       /\ apps' = (apps \ {a}) \cup {[a EXCEPT !.status = status]}
  /\ UNCHANGED <<servers, nextId, disk, files, pc, job>>

DeleteApp ==
  /\ Request
  /\ \E a \in apps : apps' = apps \ {a}
  /\ UNCHANGED <<servers, nextId, disk, files, pc, job>>

---------------------------------------------------------------------------
(* Export.                                                                 *)

Export(p, pass) ==
  /\ pc[p] = "idle"
  /\ Request
  /\ Set(p, [NoJob EXCEPT !.mode = "export", !.file.pass = pass,
               !.listed = servers, !.since = nextId,
               !.found = {[name |-> s.name, id |-> s.id] : s \in servers}])
  /\ Goto(p, "listApps")
  /\ UNCHANGED <<db, disk, files>>

ListApps(p) ==
  /\ pc[p] = "listApps"
  /\ Set(p, [job[p] EXCEPT !.rows = apps])
  /\ Goto(p, "readKeys")
  /\ UNCHANGED <<db, disk, files, bound>>

\* The key and token files of the listed servers; a missing one is an error.
ReadKeys(p) ==
  /\ pc[p] = "readKeys"
  /\ IF \A s \in job[p].listed : /\ s.key => s.id \in pem
                                 /\ s.token => s.id \in tokens
       THEN /\ Goto(p, "readParts")
            /\ Set(p, [job[p] EXCEPT !.file.servers =
                 {[name |-> s.name, key |-> s.key, token |-> s.token] :
                    s \in job[p].listed}])
       ELSE Return(p)
  /\ UNCHANGED <<db, disk, files, bound>>

\* serverNameMap[a.ServerID].
NameOf(p, a) ==
  LET f == {f \in job[p].found : f.id = a.server}
  IN  IF f = {} THEN None ELSE (CHOOSE x \in f : TRUE).name

\* Secrets, files and routes of the listed apps, as they are now; of an app that
\* has gone since, none.
ReadParts(p) ==
  /\ pc[p] = "readParts"
  /\ files' = files \cup {[job[p].file EXCEPT !.apps =
       {[name |-> a.name, server |-> NameOf(p, a),
         parts |-> UNION {b.parts : b \in AppWith(a.id)}] : a \in job[p].rows}]}
  /\ Return(p)
  /\ UNCHANGED <<db, disk, bound>>

---------------------------------------------------------------------------
(* Import: the file is decrypted and validated as a whole first.           *)

Accepts(file, pass) == file.pass \in {None, pass}

\* A replace import is refused unless every app is at rest.
Import(p, file, pass, mode) ==
  /\ pc[p] = "idle"
  /\ Request
  /\ Accepts(file, pass)
  /\ mode = "replace" => \A a \in apps : a.status # "running"
  /\ Set(p, [NoJob EXCEPT !.mode = mode, !.file = file, !.since = nextId,
               !.todo = file.servers,
               !.at = IF \A q \in Procs : pc[q] = "idle" THEN requests' ELSE 0,
               !.rows = IF mode = "replace" THEN apps ELSE {}])
  /\ Goto(p, IF mode = "replace" THEN "undeploy" ELSE "server")
  /\ UNCHANGED <<db, disk, files>>

\* Undeploy of each listed app; one that has gone since is an error.
UndeployNext(p) ==
  /\ pc[p] = "undeploy"
  /\ \/ /\ job[p].rows = {}
        /\ Goto(p, "listServers")
        /\ UNCHANGED <<apps, job>>
     \/ \E a \in job[p].rows :
          IF AppWith(a.id) = {}
            THEN Return(p) /\ UNCHANGED apps
            ELSE /\ apps' = apps \ AppWith(a.id)
                 /\ Set(p, [job[p] EXCEPT !.rows = @ \ {a}])
                 /\ UNCHANGED pc
  /\ UNCHANGED <<servers, nextId, disk, files, bound>>

ListServers(p) ==
  /\ pc[p] = "listServers"
  /\ Set(p, [job[p] EXCEPT !.listed = servers])
  /\ Goto(p, "delete")
  /\ UNCHANGED <<db, disk, files, bound>>

\* Delete refuses a server that has apps, and the import ends.
DeleteRefused(p, s) == Return(p)

\* The rows only: the files are left to the handler of the servers' page.
DeleteNext(p) ==
  /\ pc[p] = "delete"
  /\ \/ /\ job[p].listed = {}
        /\ Goto(p, "server")
        /\ UNCHANGED <<servers, job>>
     \/ \E s \in job[p].listed :
          IF OnServer(s.id) # {}
            THEN DeleteRefused(p, s) /\ UNCHANGED servers
            ELSE /\ servers' = {t \in servers : t.id # s.id}
                 /\ Set(p, [job[p] EXCEPT !.listed = @ \ {s}])
                 /\ UNCHANGED pc
  /\ UNCHANGED <<apps, nextId, disk, files, bound>>

---------------------------------------------------------------------------
(* The servers of the file.                                                *)

\* findServerByName: a server that exists is used as it is.
FindServer(p) ==
  /\ pc[p] = "server"
  /\ \/ /\ job[p].todo = {}
        /\ Set(p, [job[p] EXCEPT !.todo = job[p].file.apps])
        /\ Goto(p, "app")
     \/ \E es \in job[p].todo :
          LET same == ServerNamed(es.name)
          IN  /\ Set(p, [job[p] EXCEPT !.todo = @ \ {es}, !.entry = es,
                 !.found = @ \cup {[name |-> es.name, id |-> s.id] : s \in same}])
              /\ IF same = {} THEN Goto(p, "insert") ELSE UNCHANGED pc
  /\ UNCHANGED <<db, disk, files, bound>>

\* ssh_key is "pending" until the file is written.
InsertedKey(es) == FALSE

\* The name is unique: another request may have taken it.
InsertServer(p) ==
  LET es == job[p].entry
  IN  /\ pc[p] = "insert"
      /\ IF ServerNamed(es.name) # {}
           THEN Return(p) /\ UNCHANGED <<servers, nextId>>
           ELSE /\ servers' = servers \cup {[id |-> nextId, name |-> es.name,
                                key |-> InsertedKey(es), token |-> FALSE]}
                /\ nextId' = nextId + 1
                /\ Set(p, [job[p] EXCEPT !.id = nextId, !.found = @ \cup
                             {[name |-> es.name, id |-> nextId]}])
                /\ Goto(p, IF es.key THEN "key" ELSE
                           IF es.token THEN "token" ELSE "server")
      /\ UNCHANGED <<apps, disk, files, bound>>

WriteKey(p) ==
  /\ pc[p] = "key"
  /\ \/ /\ pem' = pem \cup {job[p].id}
        /\ Goto(p, "setKey")
        /\ UNCHANGED <<job, bound>>
     \/ Fault("disk") /\ Return(p) /\ UNCHANGED pem
  /\ UNCHANGED <<db, tokens, files>>

\* Update writes the row as the import knows it; none if it has gone.
SetKey(p) ==
  /\ pc[p] = "setKey"
  /\ servers' = {IF s.id = job[p].id THEN [s EXCEPT !.key = TRUE] ELSE s :
                   s \in servers}
  /\ Goto(p, IF job[p].entry.token THEN "token" ELSE "server")
  /\ UNCHANGED <<apps, nextId, disk, files, job, bound>>

WriteToken(p) ==
  /\ pc[p] = "token"
  /\ \/ /\ tokens' = tokens \cup {job[p].id}
        /\ Goto(p, "setToken")
        /\ UNCHANGED <<job, bound>>
     \/ Fault("disk") /\ Return(p) /\ UNCHANGED tokens
  /\ UNCHANGED <<db, pem, files>>

SetToken(p) ==
  /\ pc[p] = "setToken"
  /\ servers' = {IF s.id = job[p].id
                   THEN [s EXCEPT !.token = TRUE, !.key = job[p].entry.key]
                   ELSE s : s \in servers}
  /\ Goto(p, "server")
  /\ UNCHANGED <<apps, nextId, disk, files, job, bound>>

---------------------------------------------------------------------------
(* The apps of the file.                                                   *)

\* An app that exists, or whose server the file does not have, is skipped.
Skips(p, ea) ==
  \/ AppNamed(ea.name) # {}
  \/ \A f \in job[p].found : f.name # ea.server

FindApp(p) ==
  /\ pc[p] = "app"
  /\ \/ /\ job[p].todo = {}
        /\ Goto(p, "done")
        /\ UNCHANGED job
     \/ \E ea \in job[p].todo :
          /\ Set(p, [job[p] EXCEPT !.todo = @ \ {ea}, !.entry = ea])
          /\ IF Skips(p, ea) THEN UNCHANGED pc ELSE Goto(p, "insertApp")
  /\ UNCHANGED <<db, disk, files, bound>>

ImportedStatus == "created"

\* The name is unique, and server_id a foreign key.
InsertApp(p) ==
  LET ea == job[p].entry
      f  == CHOOSE f \in job[p].found : f.name = ea.server
  IN  /\ pc[p] = "insertApp"
      /\ IF AppNamed(ea.name) # {} \/ \A s \in servers : s.id # f.id
           THEN Return(p) /\ UNCHANGED <<apps, nextId>>
           ELSE /\ apps' = apps \cup {[id |-> nextId, name |-> ea.name,
                     server |-> f.id, status |-> ImportedStatus, parts |-> {}]}
                /\ nextId' = nextId + 1
                /\ Set(p, [job[p] EXCEPT !.id = nextId, !.part = ea.parts,
                             !.made = @ \cup {[id |-> nextId, of |-> ea]}])
                /\ Goto(p, "parts")
      /\ UNCHANGED <<servers, disk, files, bound>>

\* What the loops over domains, secrets and files have left.
Remaining(p, x) == job[p].part \ {x}

\* SaveRoute, SetSecretWithType and SetFile; app_id is a foreign key, and the app
\* may have been deleted.
WritePart(p) ==
  /\ pc[p] = "parts"
  /\ \/ /\ job[p].part = {}
        /\ Goto(p, "app")
        /\ UNCHANGED <<apps, job>>
     \/ \E x \in job[p].part :
          IF AppWith(job[p].id) = {}
            THEN Return(p) /\ UNCHANGED apps
            ELSE /\ apps' = {IF a.id = job[p].id
                               THEN [a EXCEPT !.parts = @ \cup {x}] ELSE a :
                               a \in apps}
                 /\ Set(p, [job[p] EXCEPT !.part = Remaining(p, x)])
                 /\ UNCHANGED pc
  /\ UNCHANGED <<servers, nextId, disk, files, bound>>

\* "Import complete".
Done(p) ==
  /\ pc[p] = "done"
  /\ Return(p)
  /\ UNCHANGED <<db, disk, files, bound>>

Restart ==
  /\ Fault("crash")
  /\ pc' = [p \in Procs |-> "idle"]
  /\ job' = [p \in Procs |-> NoJob]
  /\ UNCHANGED <<db, disk, files>>

---------------------------------------------------------------------------

Step(p) ==
  \/ ListApps(p) \/ ReadKeys(p) \/ ReadParts(p)
  \/ UndeployNext(p) \/ ListServers(p) \/ DeleteNext(p)
  \/ FindServer(p) \/ InsertServer(p) \/ WriteKey(p) \/ SetKey(p)
  \/ WriteToken(p) \/ SetToken(p)
  \/ FindApp(p) \/ InsertApp(p) \/ WritePart(p) \/ Done(p)

Next ==
  \/ \E p \in Procs :
       \/ Step(p)
       \/ \E pass \in Passphrases \cup {None} :
            \/ Export(p, pass)
            \/ \E file \in files, mode \in {"merge", "replace"} :
                 Import(p, file, pass, mode)
  \/ AddServer \/ RemoveServer \/ AddApp \/ ChangeStatus \/ DeleteApp
  \/ Restart

Spec == Init /\ [][Next]_vars

---------------------------------------------------------------------------
(* Properties.                                                             *)

\* A server whose row names a key or token file has that file, wherever an import
\* failed or stopped: without it no export would succeed any more.
KeysThere ==
  \A s \in servers : (s.key => s.id \in pem) /\ (s.token => s.id \in tokens)

\* When a replace import is complete nothing is left of what there was before it,
\* not even apps that other requests put on the old servers meanwhile.
ReplaceRemovesAll ==
  \A p \in Procs : pc[p] = "done" /\ job[p].mode = "replace" =>
    /\ \A a \in apps : a.id >= job[p].since /\ (a.server = 0
                                                \/ a.server >= job[p].since)
    /\ \A s \in servers : s.id >= job[p].since

\* An app that a complete import created has all that the file has of it, on the
\* server that the file names; and if no other request came in between, every app
\* of the file whose server is in the file is there.
ImportedWhole ==
  \A p \in Procs : pc[p] = "done" =>
    /\ \A m \in job[p].made : \A a \in AppWith(m.id) :
         /\ a.parts = m.of.parts
         /\ \E s \in servers : s.id = a.server /\ s.name = m.of.server
    /\ job[p].at = requests =>
         \A ea \in job[p].file.apps :
           (\E es \in job[p].file.servers : es.name = ea.server)
             => AppNamed(ea.name) # {}

\* An exported app names its server, and the file has that server, whatever was
\* moved or deleted during the export, unless the server was added during it.
ExportNamesServers ==
  [][\A p \in Procs : ReadParts(p) =>
       \A a \in job[p].rows : a.server \in 1..(job[p].since - 1) =>
         \E s \in job[p].listed : s.id = a.server /\ s.name = NameOf(p, a)]_vars

=============================================================================
