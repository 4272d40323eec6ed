---------------------------- MODULE Migrations ----------------------------
(***************************************************************************)
(* The database file and Open (internal/db/db.go): the baseline schema,    *)
(* which runs on every start, and the migrations, each in a transaction of *)
(* its own, on a fresh file, on one an earlier release left, and on one    *)
(* whose start was stopped half-way.  While the controller is up, rows     *)
(* come and go, under the constraints the file has by then.                *)
(*                                                                         *)
(* A table holds its rows by id.  Of the columns the four with a story of  *)
(* their own are kept; the others are added like host_key.                 *)
(***************************************************************************)
EXTENDS Naturals, FiniteSets, FiniteSetsExt

CONSTANTS
  History,      \* the tables that migrateForeignKeys rebuilds, routes among them
  Apps, Servers,    \* ids
  Names, Domains,
  MaxId,        \* bound: ids of rows of History
  MaxStops,     \* bound: stops of the controller
  MaxEdits,     \* bound: changes of rows while it is up
  Legacy        \* the files that earlier releases left

Tables  == {"servers", "apps"} \cup History
Latest  == 4                          \* len(migrations)
Columns == {"compose_mode", "unique_service_name", "webhook_secret", "host_key"}
TableOf(c) == IF c = "host_key" THEN "servers" ELSE "apps"
NULL    == 0

Row == [app : Apps, server : Servers \cup {NULL}, domain : Domains, active : BOOLEAN]
App == [name : Names, server : Servers \cup {NULL}, mode : {"simple", "advanced"},
        unique : BOOLEAN]             \* unique_service_name

Partial(S, T) == UNION {[D -> T] : D \in SUBSET S}

Files ==
  [version : 0..Latest, tables : SUBSET Tables, columns : SUBSET Columns,
   cascades : SUBSET History,         \* tables with the new foreign keys
   indexes : SUBSET {"routes", "apps", "servers"},
   apps : Partial(Apps, App), servers : Partial(Servers, Names),
   rows : [History -> Partial(1..MaxId, Row)],
   seq : [History -> 0..MaxId]]       \* sqlite_sequence

ASSUME MigrationsAssumption ==
  /\ "routes" \in History /\ {"servers", "apps"} \cap History = {}
  /\ Apps \cup Servers \subseteq Nat \ {0}
  /\ {MaxId, MaxStops, MaxEdits} \subseteq Nat
  /\ Legacy \subseteq {f \in Files : f.version = 0 /\ f.indexes = {}}

VARIABLES
  file,     \* what is on disk
  tx,       \* what the open transaction would commit (Fresh when there is none)
  pc,       \* "down", "schema", "migrate", "commit", "keys" or "up"
  keys,     \* foreign keys are enforced on the connection
  used,     \* the ids that rows of History have had
  stops, edits

bound == <<stops, edits>>
vars  == <<file, tx, pc, keys, used, bound>>

\* Functions whose domain shrinks or grows.
Without(f, x) == [y \in DOMAIN f \ {x} |-> f[y]]
With(f, x, v) == [y \in DOMAIN f \cup {x} |-> IF y = x THEN v ELSE f[y]]

\* foreign_key_check: a row that refers to a row that is not there.
Dangles(f) ==
  \/ \E a \in DOMAIN f.apps : f.apps[a].server \notin DOMAIN f.servers \cup {NULL}
  \/ \E t \in History : \E i \in DOMAIN f.rows[t] :
       \/ f.rows[t][i].app \notin DOMAIN f.apps
       \/ f.rows[t][i].server \notin DOMAIN f.servers \cup {NULL}

\* Two rows of apps, or of servers, share a name.
NameOf(f, t, x) == IF t = "apps" THEN f.apps[x].name ELSE f.servers[x]
Ids(f, t) == IF t = "apps" THEN DOMAIN f.apps ELSE DOMAIN f.servers
Duplicates(f, t) ==
  \E x, y \in Ids(f, t) : x # y /\ NameOf(f, t, x) = NameOf(f, t, y)

TypeOK ==
  /\ file \in Files /\ tx \in Files
  /\ pc \in {"down", "schema", "migrate", "commit", "keys", "up"}
  /\ keys \in BOOLEAN
  /\ used \in [History -> SUBSET (1..MaxId)]
  /\ stops \in 0..MaxStops /\ edits \in 0..MaxEdits

Fresh ==
  [version |-> 0, tables |-> {}, columns |-> {}, cascades |-> {}, indexes |-> {},
   apps |-> <<>>, servers |-> <<>>,
   rows |-> [t \in History |-> <<>>], seq |-> [t \in History |-> 0]]

Init ==
  /\ file \in Legacy \cup {Fresh}
  /\ tx = Fresh
  /\ pc = "down" /\ keys = FALSE
  /\ used = [t \in History |-> 1..file.seq[t]]
  /\ stops = 0 /\ edits = 0

---------------------------------------------------------------------------
(* Plausible slips: variants of the definitions below that the             *)
(* specification does not use; each breaks a property.                     *)

\* The version grows by the number of the migration.
Committed_Adds(f, v) == [f EXCEPT !.version = @ + v]

\* A file is taken to be current one version too early.
Current_Early(f) == f.version >= Latest - 1

\* The copied table starts a counter of its own.
Counter_Copied(f, t) == Max(DOMAIN f.rows[t] \cup {0})

\* One active route per domain, whichever the app.
SameRoute_Domain(r, s) == r.domain = s.domain

\* The index is created whatever the names are.
Indexed_Always(f) == {"apps", "servers"}

\* The connection is left as the migrations needed it.
KeysAfter_Off == FALSE

---------------------------------------------------------------------------
(* The migrations, as functions of the file.                               *)

AddColumn(f, c)  == [f EXCEPT !.columns = @ \cup {c}]
DropColumn(f, c) == [f EXCEPT !.columns = @ \ {c}]

\* 1: columns come and go; the flag becomes a mode.
MigrateLegacy(f) ==
  LET g == DropColumn(AddColumn(f, "compose_mode"), "webhook_secret")
      flagged(a) == "unique_service_name" \in f.columns /\ f.apps[a].unique
  IN [g EXCEPT !.apps = [a \in DOMAIN f.apps |->
        IF flagged(a) THEN [f.apps[a] EXCEPT !.mode = "simple"] ELSE f.apps[a]]]

\* The AUTOINCREMENT counter of a rebuilt table: that of the old one.
Counter(f, t) == f.seq[t]

\* 2: rebuildTable for each table of History: all rows, the new constraints.
MigrateForeignKeys(f) ==
  [f EXCEPT !.cascades = History, !.seq = [t \in History |-> Counter(f, t)]]

\* GROUP BY app_id, domain; MIN(id).
SameRoute(r, s) == r.app = s.app /\ r.domain = s.domain
Older(i, j) == i < j

Kept(routes) ==
  {i \in DOMAIN routes :
     /\ routes[i].active
     /\ ~\E j \in DOMAIN routes :
          Older(j, i) /\ routes[j].active /\ SameRoute(routes[i], routes[j])}

\* The tables whose names are unique get the index.
Indexed(f) == {t \in {"apps", "servers"} : ~Duplicates(f, t)}

\* 3: one active route per app and domain, and the unique indexes.
MigrateUnique(f) ==
  LET routes == f.rows["routes"]
  IN [f EXCEPT !.rows["routes"] = [i \in Kept(routes) |-> routes[i]],
               !.indexes = {"routes"} \cup Indexed(f)]

Migrated(f, v) ==
  CASE v = 1 -> MigrateLegacy(f)
    [] v = 2 -> MigrateForeignKeys(f)
    [] v = 3 -> MigrateUnique(f)
    [] v = 4 -> AddColumn(f, "host_key")

\* CREATE UNIQUE INDEX fails on an index that is there or on rows that collide.
Fails(f, v) ==
  v = 3 /\ \/ f.indexes # {}
           \/ \E t \in Indexed(f) : Duplicates(f, t)

---------------------------------------------------------------------------
(* Open.                                                                   *)

OpenFile ==
  /\ pc = "down"
  /\ pc' = "schema" /\ keys' = TRUE
  /\ UNCHANGED <<file, tx, used, bound>>

\* schema.sql, statement by statement: a table that is there stays as it is.
CreateTable ==
  /\ pc = "schema"
  /\ \E t \in Tables \ file.tables :
       file' = [file EXCEPT
                  !.tables = @ \cup {t},
                  !.columns = @ \cup {c \in {"compose_mode", "host_key"} : TableOf(c) = t},
                  !.cascades = @ \cup ({t} \cap History)]
  /\ UNCHANGED <<tx, pc, keys, used, bound>>

Current(f) == f.version >= Latest

\* A slip that the specification does not use: the legacy columns are converted on
\* every start, as they were before files had versions.
ReadVersion_Repeats ==
  /\ pc = "schema" /\ file.tables = Tables
  /\ file' = MigrateLegacy(file)
  /\ IF Current(file) THEN pc' = "up" /\ UNCHANGED keys
                      ELSE pc' = "migrate" /\ keys' = FALSE
  /\ UNCHANGED <<tx, used, bound>>

\* Nothing to do at the latest version; otherwise foreign keys are switched off.
ReadVersion ==
  /\ pc = "schema" /\ file.tables = Tables
  /\ IF Current(file)
       THEN pc' = "up" /\ UNCHANGED keys
       ELSE pc' = "migrate" /\ keys' = FALSE
  /\ UNCHANGED <<file, tx, used, bound>>

\* The next migration, in its transaction; an error rolls back and ends Open,
\* and main with it.
RunMigration ==
  /\ pc = "migrate"
  /\ LET v == file.version + 1 IN
       IF Fails(file, v)
         THEN pc' = "down" /\ UNCHANGED tx
         ELSE pc' = "commit" /\ tx' = Migrated(file, v)
  /\ UNCHANGED <<file, keys, used, bound>>

\* user_version is part of the transaction.
Committed(f, v) == [f EXCEPT !.version = v]

Commit ==
  /\ pc = "commit"
  /\ LET v == file.version + 1 IN
       IF Dangles(tx)
         THEN pc' = "down" /\ UNCHANGED file
         ELSE /\ file' = Committed(tx, v)
              /\ pc' = IF v = Latest THEN "keys" ELSE "migrate"
  /\ tx' = Fresh
  /\ UNCHANGED <<keys, used, bound>>

KeysAfter == TRUE

EnableKeys ==
  /\ pc = "keys"
  /\ pc' = "up" /\ keys' = KeysAfter
  /\ UNCHANGED <<file, tx, used, bound>>

\* The controller stops, or a statement fails: what is not committed is gone.
Stop ==
  /\ pc # "down" /\ stops < MaxStops
  /\ stops' = stops + 1
  /\ pc' = "down" /\ tx' = Fresh /\ keys' = FALSE
  /\ UNCHANGED <<file, used, edits>>

Opening == OpenFile \/ CreateTable \/ ReadVersion \/ RunMigration \/ Commit \/ EnableKeys

---------------------------------------------------------------------------
(* The controller at work.                                                 *)

\* Create of an app and of a server: the index refuses a name that is taken.
Taken(t, n) == t \in file.indexes /\ \E x \in Ids(file, t) : NameOf(file, t, x) = n

CreateApp ==
  /\ \E a \in Apps \ DOMAIN file.apps, n \in Names, s \in DOMAIN file.servers :
       /\ ~Taken("apps", n)
       /\ file' = [file EXCEPT !.apps = With(@, a,
            [name |-> n, server |-> s, mode |-> "advanced", unique |-> FALSE])]
  /\ UNCHANGED used

CreateServer ==
  /\ \E s \in Servers \ DOMAIN file.servers, n \in Names :
       /\ ~Taken("servers", n)
       /\ file' = [file EXCEPT !.servers = With(@, s, n)]
  /\ UNCHANGED used

\* A deployment, a route or a DNS record: the id follows the counter; an app has a
\* domain in routes once.
InsertRow ==
  \E t \in History, a \in DOMAIN file.apps, s \in DOMAIN file.servers, d \in Domains :
    LET i == file.seq[t] + 1
        r == [app |-> a, server |-> s, domain |-> d, active |-> TRUE]
    IN /\ i <= MaxId
       /\ t = "routes" => ~\E j \in DOMAIN file.rows[t] :
            file.rows[t][j].app = a /\ file.rows[t][j].domain = d
       /\ file' = [file EXCEPT !.rows[t] = With(@, i, r), !.seq[t] = i]
       /\ used' = [used EXCEPT ![t] = @ \cup {i}]

DeleteRoute ==
  /\ \E i \in DOMAIN file.rows["routes"] :
       file' = [file EXCEPT !.rows["routes"] = Without(@, i)]
  /\ UNCHANGED used

\* ON DELETE CASCADE.
DeleteApp ==
  /\ \E a \in DOMAIN file.apps :
       file' = [file EXCEPT !.apps = Without(@, a),
                  !.rows = IF ~keys THEN @ ELSE
                    [t \in History |->
                      [i \in {j \in DOMAIN file.rows[t] : file.rows[t][j].app # a} |->
                         file.rows[t][i]]]]
  /\ UNCHANGED used

\* ON DELETE SET NULL; refused while an app refers to the server.
DeleteServer ==
  /\ \E s \in DOMAIN file.servers :
       /\ keys => \A a \in DOMAIN file.apps : file.apps[a].server # s
       /\ file' = [file EXCEPT !.servers = Without(@, s),
                  !.rows = IF ~keys THEN @ ELSE
                    [t \in History |-> [i \in DOMAIN file.rows[t] |->
                      IF file.rows[t][i].server = s
                        THEN [file.rows[t][i] EXCEPT !.server = NULL]
                        ELSE file.rows[t][i]]]]
  /\ UNCHANGED used

\* The owner chooses the mode of an app; unique_service_name is no longer written.
ChooseMode ==
  /\ \E a \in DOMAIN file.apps, m \in {"simple", "advanced"} :
       file.apps[a].mode # m /\ file' = [file EXCEPT !.apps[a].mode = m]
  /\ UNCHANGED used

Working ==
  /\ pc = "up"
  /\ edits < MaxEdits /\ edits' = edits + 1
  /\ \/ CreateApp \/ CreateServer \/ InsertRow \/ DeleteRoute
     \/ DeleteApp \/ DeleteServer \/ ChooseMode
  /\ UNCHANGED <<tx, pc, keys, stops>>

Next == Opening \/ Working \/ Stop

Spec == Init /\ [][Next]_vars

\* systemd starts the controller again whenever it is down.
FairSpec == Spec /\ WF_vars(Opening)

---------------------------------------------------------------------------
(* Properties.                                                             *)

\* Whatever the file was and wherever earlier starts were stopped: when the
\* controller is up the schema is the current one.
Converged ==
  pc = "up" =>
    /\ file.version = Latest /\ file.tables = Tables
    /\ {"compose_mode", "host_key"} \subseteq file.columns
    /\ "webhook_secret" \notin file.columns
    /\ file.cascades = History
    /\ "routes" \in file.indexes

\* A controller that is up has no row that refers to a row that is gone, and no
\* two routes of an app for one domain.
Consistent ==
  pc = "up" =>
    /\ ~Dangles(file)
    /\ \A i, j \in DOMAIN file.rows["routes"] :
         LET r == file.rows["routes"][i]
             s == file.rows["routes"][j]
         IN r.app = s.app /\ r.domain = s.domain => i = j

\* An id that a row has had is never another row's, across the rebuild of its table.
IdsNotReused ==
  [][\A t \in History :
       used[t] \cap (DOMAIN file'.rows[t] \ DOMAIN file.rows[t]) = {}]_vars

\* Open loses no row but routes that are inactive or repeat an older active one,
\* and leaves one row to each domain that has an active route.
OpenKeepsRows ==
  [][pc # "up" =>
       /\ \A t \in History \ {"routes"} : file'.rows[t] = file.rows[t]
       /\ \A i \in DOMAIN file.rows["routes"] :
            LET r == file.rows["routes"][i] IN
            r.active => \E j \in DOMAIN file'.rows["routes"] :
              /\ j <= i
              /\ file.rows["routes"][j].app = r.app
              /\ file.rows["routes"][j].domain = r.domain]_vars

\* A mode is converted once: a start never takes back what the owner chose later.
ModeIsOwners ==
  [][pc # "up" /\ file.version > 0 =>
       \A a \in DOMAIN file.apps : file'.apps[a].mode = file.apps[a].mode]_vars

\* A file without dangling references comes up, however often a start was stopped:
\* a migration that has been rolled back can run again, and one that has been
\* committed does not.
ComesUp == (pc = "down" /\ ~Dangles(file)) ~> pc = "up"

=============================================================================
