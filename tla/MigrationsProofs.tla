-------------------------- MODULE MigrationsProofs --------------------------
(***************************************************************************)
(* Migrations, for every set of tables and legacy files, any number of     *)
(* rows, stops and changes.                                                *)
(***************************************************************************)
EXTENDS Migrations, WellFoundedInduction, TLAPS

\* What is a database file, as far as the proofs look into it.
Shape(f) ==
  /\ DOMAIN f = {"version", "tables", "columns", "cascades", "indexes", "apps",
                 "servers", "rows", "seq"}
  /\ f.version \in 0..Latest
  /\ DOMAIN f.rows = History
  /\ f.seq \in [History -> Nat]

\* What a file's version says of its schema.
Upgraded(f) ==
  /\ f.version >= 1 => /\ "compose_mode" \in f.columns
                       /\ "webhook_secret" \notin f.columns
  /\ f.version >= 2 => f.cascades = History
  /\ f.version >= 3 => "routes" \in f.indexes
  /\ f.version >= 4 => "host_key" \in f.columns

\* How far Open is.
Progress ==
  /\ pc \in {"down", "schema", "migrate", "commit", "keys", "up"}
  /\ pc \in {"migrate", "commit", "keys", "up"} => file.tables = Tables
  /\ pc \in {"migrate", "commit"} => file.version < Latest
  /\ pc \in {"keys", "up"} => file.version = Latest
  /\ pc = "commit" => tx = Migrated(file, file.version + 1)

\* No id beyond the counter has been given to a row.
Counted ==
  /\ DOMAIN used = History
  /\ \A t \in History : used[t] \subseteq 1..file.seq[t]

MigrationsInv == Shape(file) /\ Upgraded(file) /\ Progress /\ Counted

---------------------------------------------------------------------------
(* The migrations.                                                         *)

\* A migration keeps what a file is, its tables and its counters, and gives no
\* table of History a row; after the first it keeps the apps.
Carries(f, g) ==
  /\ DOMAIN g = DOMAIN f
  /\ g.version = f.version /\ g.tables = f.tables /\ g.seq = f.seq
  /\ DOMAIN g.rows = History
  /\ \A t \in History : DOMAIN g.rows[t] \subseteq DOMAIN f.rows[t]
  /\ f.version > 0 => g.apps = f.apps

\* Each migration carries the file over and does what its version says.
LEMMA MigratedFile ==
  ASSUME NEW f, Shape(f), Upgraded(f), f.version < Latest
  PROVE  LET v == f.version + 1
             g == Migrated(f, v)
         IN  Carries(f, g) /\ Upgraded(Committed(g, v)) /\ Shape(Committed(g, v))
<1> DEFINE v == f.version + 1
           g == Migrated(f, v)
<1>0. /\ f.version \in Nat /\ v \in 1..4
      /\ \A t \in History : f.seq[t] \in Nat
      /\ "routes" \in History
  BY MigrationsAssumption DEF Shape, Latest
<1>1. CASE v = 1
  <2> DEFINE h == DropColumn(AddColumn(f, "compose_mode"), "webhook_secret")
  <2>1. /\ g = MigrateLegacy(f)
        /\ f.version = 0
    BY <1>0, <1>1 DEF Migrated
  <2>2. /\ DOMAIN h = DOMAIN f
        /\ h.columns = (f.columns \cup {"compose_mode"}) \ {"webhook_secret"}
        /\ h.version = f.version /\ h.tables = f.tables /\ h.seq = f.seq
        /\ h.rows = f.rows
    BY DEF Shape, DropColumn, AddColumn
  <2>3. /\ DOMAIN g = DOMAIN f /\ g.columns = h.columns
        /\ g.version = f.version /\ g.tables = f.tables /\ g.seq = f.seq
        /\ g.rows = f.rows
    BY <2>1, <2>2 DEF Shape, MigrateLegacy
  <2>4. Carries(f, g)
    BY <2>1, <2>3 DEF Shape, Carries
  <2>5. Upgraded(Committed(g, v)) /\ Shape(Committed(g, v))
    BY <1>1, <2>2, <2>3 DEF Shape, Upgraded, Committed, Latest
  <2> QED BY <2>4, <2>5
<1>2. CASE v = 2
  <2>1. g = MigrateForeignKeys(f) /\ f.version = 1
    BY <1>0, <1>2 DEF Migrated
  <2>2. [t \in History |-> Counter(f, t)] = f.seq
    BY DEF Shape, Counter
  <2>3. /\ DOMAIN g = DOMAIN f /\ g.columns = f.columns /\ g.cascades = History
        /\ g.version = f.version /\ g.tables = f.tables /\ g.seq = f.seq
        /\ g.rows = f.rows /\ g.apps = f.apps
    BY <2>1, <2>2 DEF Shape, MigrateForeignKeys
  <2>4. Carries(f, g)
    BY <2>1, <2>3 DEF Shape, Carries
  <2>5. Upgraded(Committed(g, v)) /\ Shape(Committed(g, v))
    BY <1>2, <2>1, <2>3 DEF Shape, Upgraded, Committed, Latest
  <2> QED BY <2>4, <2>5
<1>3. CASE v = 3
  <2> DEFINE r == [i \in Kept(f.rows["routes"]) |-> f.rows["routes"][i]]
  <2>1. g = MigrateUnique(f) /\ f.version = 2
    BY <1>0, <1>3 DEF Migrated
  <2>2. /\ DOMAIN g = DOMAIN f /\ g.columns = f.columns /\ g.cascades = f.cascades
        /\ g.version = f.version /\ g.tables = f.tables /\ g.seq = f.seq
        /\ g.apps = f.apps /\ g.indexes = {"routes"} \cup Indexed(f)
        /\ g.rows = [f.rows EXCEPT !["routes"] = r]
    BY <2>1 DEF Shape, MigrateUnique
  <2>3. DOMAIN r \subseteq DOMAIN f.rows["routes"]
    BY DEF Kept
  <2>4. /\ DOMAIN g.rows = History
        /\ \A t \in History : g.rows[t] = IF t = "routes" THEN r ELSE f.rows[t]
    BY <1>0, <2>2 DEF Shape
  <2>5. Carries(f, g)
    BY <2>1, <2>2, <2>3, <2>4 DEF Shape, Carries
  <2>6. Upgraded(Committed(g, v)) /\ Shape(Committed(g, v))
    BY <1>3, <2>1, <2>2, <2>4 DEF Shape, Upgraded, Committed, Latest
  <2> QED BY <2>5, <2>6
<1>4. CASE v = 4
  <2>1. g = AddColumn(f, "host_key") /\ f.version = 3
    BY <1>0, <1>4 DEF Migrated
  <2>2. /\ DOMAIN g = DOMAIN f /\ g.columns = f.columns \cup {"host_key"}
        /\ g.cascades = f.cascades /\ g.indexes = f.indexes
        /\ g.version = f.version /\ g.tables = f.tables /\ g.seq = f.seq
        /\ g.rows = f.rows /\ g.apps = f.apps
    BY <2>1 DEF Shape, AddColumn
  <2>3. Carries(f, g)
    BY <2>1, <2>2 DEF Shape, Carries
  <2>4. Upgraded(Committed(g, v)) /\ Shape(Committed(g, v))
    BY <1>4, <2>1, <2>2 DEF Shape, Upgraded, Committed, Latest
  <2> QED BY <2>3, <2>4
<1> QED BY <1>0, <1>1, <1>2, <1>3, <1>4

---------------------------------------------------------------------------
(* Steps.                                                                  *)

\* What a step of Open does to the rows: it adds none, and once a file has a
\* version it leaves the apps alone.
OpensOnly ==
  /\ \A t \in History : DOMAIN file'.rows[t] \subseteq DOMAIN file.rows[t]
  /\ file.version > 0 => file'.apps = file.apps

\* What a step of the controller at work does: a new row has the next id.
WorksOnly ==
  /\ pc = "up"
  /\ \A t \in History :
       DOMAIN file'.rows[t] \subseteq DOMAIN file.rows[t] \cup {file.seq[t] + 1}

\* Open keeps the invariant, from wherever it is.
LEMMA OpeningKeeps ==
  ASSUME MigrationsInv, Opening
  PROVE  MigrationsInv' /\ OpensOnly
<1> USE DEF MigrationsInv
<1>1. CASE OpenFile
  BY <1>1 DEF OpenFile, OpensOnly, Shape, Upgraded, Progress, Counted
<1>2. CASE CreateTable
  <2>1. PICK t \in Tables \ file.tables :
          file' = [file EXCEPT
                     !.tables = @ \cup {t},
                     !.columns = @ \cup {c \in {"compose_mode", "host_key"} :
                                           TableOf(c) = t},
                     !.cascades = @ \cup ({t} \cap History)]
    BY <1>2 DEF CreateTable
  <2>2. /\ DOMAIN file' = DOMAIN file
        /\ file'.version = file.version /\ file'.indexes = file.indexes
        /\ file'.columns = file.columns \cup
             {c \in {"compose_mode", "host_key"} : TableOf(c) = t}
        /\ file'.cascades = file.cascades \cup ({t} \cap History)
        /\ file'.rows = file.rows /\ file'.seq = file.seq /\ file'.apps = file.apps
    BY <2>1 DEF Shape
  <2>3. Shape(file') /\ Upgraded(file')
    BY <2>2 DEF Shape, Upgraded
  <2>4. Progress' /\ Counted' /\ OpensOnly
    BY <1>2, <2>2 DEF CreateTable, Progress, Counted, OpensOnly
  <2> QED BY <2>3, <2>4
<1>3. CASE ReadVersion
  <2>1. Current(file) => file.version = Latest
    BY DEF Current, Shape, Latest
  <2>2. ~Current(file) => file.version < Latest
    BY DEF Current, Shape, Latest
  <2> QED BY <1>3, <2>1, <2>2
          DEF ReadVersion, OpensOnly, Shape, Upgraded, Progress, Counted
<1>4. CASE RunMigration
  <2>1. UNCHANGED <<file, used>> /\ pc = "migrate"
    BY <1>4 DEF RunMigration
  <2>2. \/ pc' = "down"
        \/ pc' = "commit" /\ tx' = Migrated(file, file.version + 1)
    BY <1>4 DEF RunMigration
  <2>3. Progress'
    BY <2>1, <2>2 DEF Progress
  <2> QED BY <2>1, <2>3 DEF OpensOnly, Shape, Upgraded, Counted
<1>5. CASE Commit
  <2> DEFINE v == file.version + 1
             g == Migrated(file, v)
  <2>1. pc = "commit" /\ tx = g /\ file.version < Latest /\ file.tables = Tables
    BY <1>5 DEF Commit, Progress
  <2>2. Carries(file, g) /\ Upgraded(Committed(g, v)) /\ Shape(Committed(g, v))
    BY <2>1, MigratedFile
  <2>3. CASE Dangles(tx)
    BY <1>5, <2>3 DEF Commit, OpensOnly, Shape, Upgraded, Progress, Counted
  <2>4. CASE ~Dangles(tx)
    <3>1. /\ file' = Committed(g, v)
          /\ pc' = IF v = Latest THEN "keys" ELSE "migrate"
          /\ UNCHANGED used
      BY <1>5, <2>1, <2>4 DEF Commit
    <3>2. /\ file'.version = v /\ file'.tables = Tables /\ file'.seq = file.seq
          /\ file'.rows = g.rows /\ file'.apps = g.apps
      BY <2>1, <2>2, <3>1 DEF Carries, Committed, Shape
    <3>3. OpensOnly
      BY <2>2, <3>2 DEF OpensOnly, Carries
    <3>4. Progress'
      BY <2>1, <3>1, <3>2 DEF Progress, Shape, Latest
    <3>5. Counted'
      BY <3>1, <3>2 DEF Counted
    <3> QED BY <2>2, <3>1, <3>3, <3>4, <3>5
  <2> QED BY <2>3, <2>4
<1>6. CASE EnableKeys
  BY <1>6 DEF EnableKeys, OpensOnly, Shape, Upgraded, Progress, Counted
<1> QED BY <1>1, <1>2, <1>3, <1>4, <1>5, <1>6 DEF Opening

\* The controller at work keeps the schema; only InsertRow moves a counter.
LEMMA WorkingKeeps ==
  ASSUME MigrationsInv, Working
  PROVE  MigrationsInv' /\ WorksOnly
<1> USE DEF MigrationsInv
<1> DEFINE Same == /\ file'.version = file.version /\ file'.tables = file.tables
                   /\ file'.columns = file.columns
                   /\ file'.cascades = file.cascades
                   /\ file'.indexes = file.indexes
                   /\ DOMAIN file' = DOMAIN file
<1>0. pc = "up" /\ UNCHANGED <<tx, pc>>
  BY DEF Working
<1>1. ASSUME Same, DOMAIN file'.rows = History, file'.seq = file.seq,
             UNCHANGED used,
             \A t \in History : DOMAIN file'.rows[t] \subseteq DOMAIN file.rows[t]
      PROVE  MigrationsInv' /\ WorksOnly
  <2>1. Shape(file') /\ Upgraded(file')
    BY <1>1 DEF Shape, Upgraded
  <2>2. Progress' /\ Counted'
    BY <1>0, <1>1 DEF Progress, Counted
  <2> QED BY <1>0, <1>1, <2>1, <2>2 DEF WorksOnly
<1>2. CASE CreateApp
  <2>1. Same /\ file'.rows = file.rows /\ file'.seq = file.seq /\ UNCHANGED used
    BY <1>2 DEF CreateApp, Shape
  <2> QED BY <1>1, <2>1 DEF Shape
<1>3. CASE CreateServer
  <2>1. Same /\ file'.rows = file.rows /\ file'.seq = file.seq /\ UNCHANGED used
    BY <1>3 DEF CreateServer, Shape
  <2> QED BY <1>1, <2>1 DEF Shape
<1>4. CASE InsertRow
  <2>1. PICK t \in History, a \in DOMAIN file.apps, s \in DOMAIN file.servers,
             d \in Domains :
          LET i == file.seq[t] + 1
              r == [app |-> a, server |-> s, domain |-> d, active |-> TRUE]
          IN /\ i <= MaxId
             /\ t = "routes" => ~\E j \in DOMAIN file.rows[t] :
                  file.rows[t][j].app = a /\ file.rows[t][j].domain = d
             /\ file' = [file EXCEPT !.rows[t] = With(@, i, r), !.seq[t] = i]
             /\ used' = [used EXCEPT ![t] = @ \cup {i}]
    BY <1>4 DEF InsertRow
  <2> DEFINE i == file.seq[t] + 1
             r == [app |-> a, server |-> s, domain |-> d, active |-> TRUE]
  <2>2. /\ Same
        /\ file'.rows = [file.rows EXCEPT ![t] = With(@, i, r)]
        /\ file'.seq = [file.seq EXCEPT ![t] = i]
    BY <2>1 DEF Shape
  <2>3. \A u \in History : file.seq[u] \in Nat
    BY DEF Shape
  <2>4. DOMAIN With(file.rows[t], i, r) = DOMAIN file.rows[t] \cup {i}
    BY DEF With
  <2>5. /\ DOMAIN file'.rows = History
        /\ \A u \in History : DOMAIN file'.rows[u] =
             IF u = t THEN DOMAIN file.rows[t] \cup {i} ELSE DOMAIN file.rows[u]
    BY <2>2, <2>4 DEF Shape
  <2>6. Shape(file') /\ Upgraded(file')
    BY <2>2, <2>3, <2>5 DEF Shape, Upgraded
  <2>7. /\ DOMAIN used' = History
        /\ \A u \in History : used'[u] = IF u = t THEN used[t] \cup {i} ELSE used[u]
    BY <2>1 DEF Counted
  <2>8. ASSUME NEW u \in History PROVE used'[u] \subseteq 1..file'.seq[u]
    <3>1. used[u] \subseteq 1..file.seq[u]
      BY DEF Counted
    <3>2. file'.seq[u] = IF u = t THEN file.seq[t] + 1 ELSE file.seq[u]
      BY <2>2 DEF Shape
    <3> QED BY <2>3, <2>7, <3>1, <3>2
  <2>9. Progress' /\ Counted'
    BY <1>0, <2>2, <2>7, <2>8 DEF Progress, Counted
  <2> QED BY <1>0, <2>5, <2>6, <2>9 DEF WorksOnly
<1>5. CASE DeleteRoute
  <2>1. PICK i \in DOMAIN file.rows["routes"] :
          file' = [file EXCEPT !.rows["routes"] = Without(@, i)]
    BY <1>5 DEF DeleteRoute
  <2>2. /\ Same /\ file'.seq = file.seq /\ UNCHANGED used
        /\ file'.rows = [file.rows EXCEPT !["routes"] = Without(@, i)]
    BY <1>5, <2>1 DEF DeleteRoute, Shape
  <2>3. DOMAIN Without(file.rows["routes"], i) \subseteq DOMAIN file.rows["routes"]
    BY DEF Without
  <2>4. /\ DOMAIN file'.rows = History
        /\ \A t \in History : DOMAIN file'.rows[t] \subseteq DOMAIN file.rows[t]
    BY <2>2, <2>3, MigrationsAssumption DEF Shape
  <2> QED BY <1>1, <2>2, <2>4
<1>6. CASE DeleteApp
  <2>1. PICK a \in DOMAIN file.apps :
          file' = [file EXCEPT !.apps = Without(@, a),
                     !.rows = IF ~keys THEN @ ELSE
                       [t \in History |->
                         [i \in {j \in DOMAIN file.rows[t] :
                                   file.rows[t][j].app # a} |->
                            file.rows[t][i]]]]
    BY <1>6 DEF DeleteApp
  <2>2. /\ Same /\ file'.seq = file.seq /\ UNCHANGED used
        /\ file'.rows = IF ~keys THEN file.rows ELSE
             [t \in History |->
                [i \in {j \in DOMAIN file.rows[t] : file.rows[t][j].app # a} |->
                   file.rows[t][i]]]
    BY <1>6, <2>1 DEF DeleteApp, Shape
  <2>3. /\ DOMAIN file'.rows = History
        /\ \A t \in History : DOMAIN file'.rows[t] \subseteq DOMAIN file.rows[t]
    BY <2>2 DEF Shape
  <2> QED BY <1>1, <2>2, <2>3
<1>7. CASE DeleteServer
  <2>1. PICK s \in DOMAIN file.servers :
          file' = [file EXCEPT !.servers = Without(@, s),
                     !.rows = IF ~keys THEN @ ELSE
                       [t \in History |-> [i \in DOMAIN file.rows[t] |->
                         IF file.rows[t][i].server = s
                           THEN [file.rows[t][i] EXCEPT !.server = NULL]
                           ELSE file.rows[t][i]]]]
    BY <1>7 DEF DeleteServer
  <2>2. /\ Same /\ file'.seq = file.seq /\ UNCHANGED used
        /\ file'.rows = IF ~keys THEN file.rows ELSE
             [t \in History |-> [i \in DOMAIN file.rows[t] |->
                IF file.rows[t][i].server = s
                  THEN [file.rows[t][i] EXCEPT !.server = NULL]
                  ELSE file.rows[t][i]]]
    BY <1>7, <2>1 DEF DeleteServer, Shape
  <2>3. /\ DOMAIN file'.rows = History
        /\ \A t \in History : DOMAIN file'.rows[t] \subseteq DOMAIN file.rows[t]
    BY <2>2 DEF Shape
  <2> QED BY <1>1, <2>2, <2>3
<1>8. CASE ChooseMode
  <2>1. Same /\ file'.rows = file.rows /\ file'.seq = file.seq /\ UNCHANGED used
    BY <1>8 DEF ChooseMode, Shape
  <2> QED BY <1>1, <2>1 DEF Shape
<1> QED BY <1>2, <1>3, <1>4, <1>5, <1>6, <1>7, <1>8 DEF Working

\* A step opens, works, or leaves the file alone.
LEMMA MigrationsStep ==
  ASSUME MigrationsInv, [Next]_vars
  PROVE  MigrationsInv' /\ (UNCHANGED file \/ OpensOnly \/ WorksOnly)
<1>1. CASE Stop
  BY <1>1 DEF Stop, MigrationsInv, Shape, Upgraded, Progress, Counted
<1>2. CASE UNCHANGED vars
  BY <1>2 DEF vars, MigrationsInv, Shape, Upgraded, Progress, Counted
<1> QED BY <1>1, <1>2, OpeningKeeps, WorkingKeeps DEF Next

\* A fresh file and those of earlier releases have version 0.
LEMMA MigrationsStart == Init => MigrationsInv
<1> SUFFICES ASSUME Init PROVE MigrationsInv
  OBVIOUS
<1>1. Shape(file) /\ file.version = 0
  <2>1. CASE file = Fresh
    BY <2>1 DEF Fresh, Shape, Latest
  <2>2. CASE file \in Legacy
    <3>1. file \in Files /\ file.version = 0
      BY <2>2, MigrationsAssumption
    <3>2. file.seq \in [History -> 0..MaxId] /\ MaxId \in Nat
      BY <3>1, MigrationsAssumption DEF Files
    <3> QED BY <3>1, <3>2 DEF Files, Shape, Latest
  <2> QED BY <2>1, <2>2 DEF Init
<1>2. Upgraded(file) /\ Progress
  BY <1>1 DEF Init, Upgraded, Progress
<1>3. Counted
  BY DEF Init, Counted
<1> QED BY <1>1, <1>2, <1>3 DEF MigrationsInv

---------------------------------------------------------------------------
(* Types.                                                                  *)

\* Every non-empty set of ids has a least one.
LEMMA LeastId ==
  ASSUME NEW T, T \subseteq Nat, T # {}
  PROVE  \E x \in T : \A y \in T : ~(y < x)
<1> DEFINE R == OpToRel(<, Nat)
<1>1. IsWellFoundedOn(R, Nat)
  BY NatLessThanWellFounded
<1>2. \A x, y \in Nat : y < x => <<y, x>> \in R
  BY DEF OpToRel
<1> HIDE DEF R
<1>3. \E x \in T : \A y \in T : ~(<<y, x>> \in R)
  BY <1>1, WFMin
<1> QED BY <1>2, <1>3

\* A table: ids of rows, and the rows.
LEMMA PartialIs ==
  ASSUME NEW S, NEW T, NEW f
  PROVE  f \in Partial(S, T) <=> DOMAIN f \subseteq S /\ f \in [DOMAIN f -> T]
BY DEF Partial

\* The fields of a file.
LEMMA FileFields ==
  ASSUME NEW f \in Files
  PROVE  /\ f.version \in 0..Latest /\ f.tables \subseteq Tables
         /\ f.columns \subseteq Columns /\ f.cascades \subseteq History
         /\ f.indexes \subseteq {"routes", "apps", "servers"}
         /\ f.apps \in Partial(Apps, App) /\ f.servers \in Partial(Servers, Names)
         /\ f.rows \in [History -> Partial(1..MaxId, Row)]
         /\ f.seq \in [History -> 0..MaxId]
         /\ DOMAIN f = {"version", "tables", "columns", "cascades", "indexes",
                        "apps", "servers", "rows", "seq"}
BY DEF Files

\* An empty file is a file.
LEMMA FreshIsFile == Fresh \in Files
<1>1. <<>> \in Partial(Apps, App) /\ <<>> \in Partial(Servers, Names)
      /\ <<>> \in Partial(1..MaxId, Row)
  <2>1. <<>> \in [{} -> App] /\ <<>> \in [{} -> Names] /\ <<>> \in [{} -> Row]
    OBVIOUS
  <2> QED BY <2>1 DEF Partial
<1>2. 0 \in 0..MaxId /\ 0 \in 0..Latest
  BY MigrationsAssumption DEF Latest
<1> QED BY <1>1, <1>2 DEF Fresh, Files

\* Every migration makes a file of a file.
LEMMA MigratedIsFile ==
  ASSUME NEW f \in Files, f.version < Latest
  PROVE  LET v == f.version + 1
             g == Migrated(f, v)
         IN  g \in Files /\ Committed(g, v) \in Files
<1> DEFINE v == f.version + 1
           g == Migrated(f, v)
<1>0. v \in 1..4 /\ v \in 0..Latest /\ "routes" \in History
  BY FileFields, MigrationsAssumption DEF Latest
<1>1. CASE v = 1
  <2> DEFINE as == [a \in DOMAIN f.apps |->
               IF "unique_service_name" \in f.columns /\ f.apps[a].unique
                 THEN [f.apps[a] EXCEPT !.mode = "simple"] ELSE f.apps[a]]
             h == DropColumn(AddColumn(f, "compose_mode"), "webhook_secret")
  <2>1. g = [h EXCEPT !.apps = as]
    BY <1>1 DEF Migrated, MigrateLegacy
  <2>2. h \in Files
    BY DEF DropColumn, AddColumn, Files, Columns
  <2>3. DOMAIN f.apps \subseteq Apps /\ f.apps \in [DOMAIN f.apps -> App]
    BY FileFields, PartialIs
  <2>4. as \in [DOMAIN f.apps -> App]
    BY <2>3 DEF App
  <2>5. as \in Partial(Apps, App)
    BY <2>3, <2>4, PartialIs
  <2> HIDE DEF h, as
  <2> QED BY <1>0, <2>1, <2>2, <2>5 DEF Files, Committed
<1>2. CASE v = 2
  <2>1. [t \in History |-> Counter(f, t)] \in [History -> 0..MaxId]
    BY FileFields DEF Counter
  <2>2. g = MigrateForeignKeys(f)
    BY <1>2 DEF Migrated
  <2> QED BY <1>0, <2>1, <2>2 DEF MigrateForeignKeys, Files, Committed
<1>3. CASE v = 3
  <2> DEFINE r == [i \in Kept(f.rows["routes"]) |-> f.rows["routes"][i]]
  <2>1. f.rows["routes"] \in Partial(1..MaxId, Row)
    BY <1>0, FileFields
  <2>2. /\ DOMAIN f.rows["routes"] \subseteq 1..MaxId
        /\ f.rows["routes"] \in [DOMAIN f.rows["routes"] -> Row]
    BY <2>1, PartialIs
  <2>3. Kept(f.rows["routes"]) \subseteq DOMAIN f.rows["routes"]
    BY DEF Kept
  <2>4. r \in [Kept(f.rows["routes"]) -> Row]
    BY <2>2, <2>3
  <2>5. r \in Partial(1..MaxId, Row)
    BY <2>2, <2>3, <2>4, PartialIs
  <2>6. g = [f EXCEPT !.rows["routes"] = r, !.indexes = {"routes"} \cup Indexed(f)]
    BY <1>3 DEF Migrated, MigrateUnique
  <2>7. {"routes"} \cup Indexed(f) \subseteq {"routes", "apps", "servers"}
    BY DEF Indexed
  <2> HIDE DEF r
  <2>8. [f.rows EXCEPT !["routes"] = r] \in [History -> Partial(1..MaxId, Row)]
    BY <2>5, FileFields
  <2>9. g = [f EXCEPT !.rows = [f.rows EXCEPT !["routes"] = r],
                      !.indexes = {"routes"} \cup Indexed(f)]
    BY <2>6 DEF Files
  <2> QED BY <1>0, <2>7, <2>8, <2>9 DEF Files, Committed
<1>4. CASE v = 4
  <2>1. g = AddColumn(f, "host_key")
    BY <1>4 DEF Migrated
  <2> QED BY <1>0, <2>1 DEF AddColumn, Files, Columns, Committed
<1> QED BY <1>0, <1>1, <1>2, <1>3, <1>4

---------------------------------------------------------------------------
(* Rows and references.                                                    *)

\* An app has a domain in routes once.
UniqueRoutes(f) ==
  \A i, j \in DOMAIN f.rows["routes"] :
    /\ f.rows["routes"][i].app = f.rows["routes"][j].app
    /\ f.rows["routes"][i].domain = f.rows["routes"][j].domain
    => i = j

\* A file that has been migrated has no dangling row, and after the third
\* migration no domain twice; foreign keys are enforced whenever rows change.
Sound ==
  /\ file.version >= 1 => ~Dangles(file)
  /\ file.version >= 3 => UniqueRoutes(file)
  /\ pc \in {"schema", "up"} => keys

RowsInv == MigrationsInv /\ TypeOK /\ Sound

\* What a migration does to the tables of History: the third drops routes that
\* are inactive or repeat an older one, the others nothing.
LEMMA MigratedRows ==
  ASSUME NEW f \in Files, f.version < Latest
  PROVE  LET v == f.version + 1
             g == Committed(Migrated(f, v), v)
             r == f.rows["routes"]
         IN  /\ g.version = v
             /\ v # 3 => g.rows = f.rows
             /\ v = 3 => g.rows = [f.rows EXCEPT !["routes"] = [i \in Kept(r) |-> r[i]]]
<1> DEFINE v == f.version + 1
           m == Migrated(f, v)
           r == f.rows["routes"]
           k == [i \in Kept(r) |-> r[i]]
<1>0. v \in 1..4 /\ "routes" \in History
  BY FileFields, MigrationsAssumption DEF Latest
<1>1. m \in Files
  BY MigratedIsFile
<1>2. Committed(m, v).version = v /\ Committed(m, v).rows = m.rows
  BY <1>1, FileFields DEF Committed
<1>3. CASE v = 1
  BY <1>2, <1>3 DEF Migrated, MigrateLegacy, AddColumn, DropColumn, Files
<1>4. CASE v = 2
  BY <1>2, <1>4 DEF Migrated, MigrateForeignKeys, Files
<1>5. CASE v = 3
  <2>1. m = [f EXCEPT !.rows["routes"] = k, !.indexes = {"routes"} \cup Indexed(f)]
    BY <1>5 DEF Migrated, MigrateUnique
  <2> HIDE DEF k
  <2>2. m.rows = [f.rows EXCEPT !["routes"] = k]
    BY <2>1, FileFields
  <2> QED BY <1>2, <1>5, <2>2 DEF k
<1>6. CASE v = 4
  BY <1>2, <1>6 DEF Migrated, AddColumn, Files
<1> QED BY <1>0, <1>3, <1>4, <1>5, <1>6

\* Of the routes of an app for a domain the third migration keeps one, and every
\* active one has an older or equal one that is kept.
LEMMA KeptRoutes ==
  ASSUME NEW r, DOMAIN r \subseteq Nat
  PROVE  /\ \A i, j \in Kept(r) :
              r[i].app = r[j].app /\ r[i].domain = r[j].domain => i = j
         /\ \A i \in DOMAIN r : r[i].active =>
              \E j \in Kept(r) : j <= i /\ SameRoute(r[i], r[j])
<1>1. ASSUME NEW i \in Kept(r), NEW j \in Kept(r),
             r[i].app = r[j].app, r[i].domain = r[j].domain
      PROVE  i = j
  <2>1. i \in Nat /\ j \in Nat /\ ~(i < j) /\ ~(j < i)
    BY <1>1 DEF Kept, Older, SameRoute
  <2> QED BY <2>1
<1>2. ASSUME NEW i \in DOMAIN r, r[i].active
      PROVE  \E j \in Kept(r) : j <= i /\ SameRoute(r[i], r[j])
  <2> DEFINE T == {j \in DOMAIN r : r[j].active /\ SameRoute(r[i], r[j])}
  <2>1. T \subseteq Nat /\ i \in T
    BY <1>2 DEF SameRoute
  <2>2. PICK j \in T : \A k \in T : ~(k < j)
    BY <2>1, LeastId
  <2>3. j \in Kept(r)
    BY <2>2 DEF Kept, Older, SameRoute
  <2>4. j <= i
    BY <2>1, <2>2
  <2> QED BY <2>2, <2>3, <2>4
<1> QED BY <1>1, <1>2

\* What a start does to the rows: see OpenKeepsRows.
KeepsRows ==
  /\ \A t \in History \ {"routes"} : file'.rows[t] = file.rows[t]
  /\ \A i \in DOMAIN file.rows["routes"] :
       LET r == file.rows["routes"][i] IN
       r.active => \E j \in DOMAIN file'.rows["routes"] :
         /\ j <= i
         /\ file.rows["routes"][j].app = r.app
         /\ file.rows["routes"][j].domain = r.domain

\* A step that leaves the rows alone keeps them.
LEMMA SameRows ==
  ASSUME TypeOK, file'.rows = file.rows
  PROVE  KeepsRows
<1>1. file.rows["routes"] \in Partial(1..MaxId, Row)
  BY FileFields, MigrationsAssumption DEF TypeOK
<1>2. DOMAIN file.rows["routes"] \subseteq 1..MaxId /\ MaxId \in Nat
  BY <1>1, PartialIs, MigrationsAssumption
<1> QED BY <1>2 DEF KeepsRows

\* Open keeps types, rows and references.
LEMMA OpeningSound ==
  ASSUME RowsInv, Opening
  PROVE  TypeOK' /\ Sound' /\ KeepsRows
<1> USE DEF RowsInv
<1>0. file \in Files /\ tx \in Files /\ Fresh \in Files
  BY FreshIsFile DEF TypeOK
<1>1. CASE OpenFile
  <2>1. UNCHANGED file /\ TypeOK' /\ Sound'
    BY <1>1 DEF OpenFile, TypeOK, Sound, Dangles, UniqueRoutes, bound
  <2> QED BY <2>1, SameRows
<1>2. CASE CreateTable
  <2>1. PICK t \in Tables \ file.tables :
          file' = [file EXCEPT
                     !.tables = @ \cup {t},
                     !.columns = @ \cup {c \in {"compose_mode", "host_key"} :
                                           TableOf(c) = t},
                     !.cascades = @ \cup ({t} \cap History)]
    BY <1>2 DEF CreateTable
  <2>2. file' \in Files
    BY <1>0, <2>1 DEF Files, Columns
  <2>3. /\ file'.version = file.version /\ file'.rows = file.rows
        /\ file'.apps = file.apps /\ file'.servers = file.servers
    BY <1>0, <2>1 DEF Files
  <2>4. Sound'
    BY <1>2, <2>3 DEF CreateTable, Sound, Dangles, UniqueRoutes
  <2>5. KeepsRows
    BY <2>3, SameRows
  <2> QED BY <1>2, <2>2, <2>4, <2>5 DEF CreateTable, TypeOK, bound
<1>3. CASE ReadVersion
  <2>1. /\ UNCHANGED <<file, tx, used, bound>> /\ pc = "schema"
        /\ \/ pc' = "up" /\ UNCHANGED keys
           \/ pc' = "migrate" /\ keys' = FALSE
    BY <1>3 DEF ReadVersion
  <2>2. TypeOK' /\ Sound'
    BY <2>1 DEF TypeOK, Sound, Dangles, UniqueRoutes, bound
  <2> QED BY <2>1, <2>2, SameRows
<1>4. CASE RunMigration
  <2> DEFINE g == Migrated(file, file.version + 1)
  <2>1. /\ UNCHANGED <<file, keys, used, bound>> /\ pc = "migrate"
        /\ \/ pc' = "down" /\ UNCHANGED tx
           \/ pc' = "commit" /\ tx' = g
    BY <1>4 DEF RunMigration
  <2>2. g \in Files
    BY <1>0, <2>1, MigratedIsFile DEF MigrationsInv, Progress
  <2> HIDE DEF g
  <2>3. TypeOK' /\ Sound'
    BY <2>1, <2>2 DEF TypeOK, Sound, Dangles, UniqueRoutes, bound
  <2> QED BY <2>1, <2>3, SameRows
<1>5. CASE Commit
  <2> DEFINE v == file.version + 1
             g == Committed(Migrated(file, v), v)
             r == file.rows["routes"]
  <2>1. /\ pc = "commit" /\ tx = Migrated(file, v) /\ file.version < Latest
        /\ tx' = Fresh /\ UNCHANGED <<keys, used, bound>>
    BY <1>5 DEF Commit, MigrationsInv, Progress
  <2>2. CASE Dangles(tx)
    <3>1. UNCHANGED file /\ pc' = "down"
      BY <1>5, <2>2 DEF Commit
    <3>2. TypeOK' /\ Sound'
      BY <1>0, <2>1, <3>1 DEF TypeOK, Sound, Dangles, UniqueRoutes, bound
    <3> QED BY <3>1, <3>2, SameRows
  <2>3. CASE ~Dangles(tx)
    <3>1. file' = g /\ pc' \in {"keys", "migrate"}
      BY <1>5, <2>1, <2>3 DEF Commit
    <3>2. file' \in Files /\ tx \in Files
      BY <1>0, <2>1, <3>1, MigratedIsFile
    <3>3. TypeOK'
      BY <1>0, <2>1, <3>1, <3>2 DEF TypeOK, bound
    <3>4. file'.rows = tx.rows /\ file'.apps = tx.apps /\ file'.servers = tx.servers
      BY <2>1, <3>1, <3>2, FileFields DEF Committed
    <3>5. ~Dangles(file')
      BY <2>3, <3>4 DEF Dangles
    <3>6. /\ file'.version = v
          /\ v # 3 => file'.rows = file.rows
          /\ v = 3 => file'.rows = [file.rows EXCEPT !["routes"] =
                                      [i \in Kept(r) |-> r[i]]]
      BY <1>0, <2>1, <3>1, MigratedRows
    <3>7. file.rows["routes"] \in Partial(1..MaxId, Row) /\ "routes" \in History
      BY <1>0, FileFields, MigrationsAssumption
    <3>8. DOMAIN r \subseteq Nat
      <4>1. DOMAIN r \subseteq 1..MaxId /\ MaxId \in Nat
        BY <3>7, PartialIs, MigrationsAssumption
      <4> QED BY <4>1
    <3>9. CASE v = 3
      <4>1. file'.rows["routes"] = [i \in Kept(r) |-> r[i]]
            /\ \A t \in History \ {"routes"} : file'.rows[t] = file.rows[t]
        BY <1>0, <3>6, <3>7, <3>9, FileFields
      <4>2. UniqueRoutes(file')
        BY <3>8, <4>1, KeptRoutes DEF UniqueRoutes
      <4>3. KeepsRows
        BY <3>8, <4>1, KeptRoutes DEF KeepsRows, SameRoute
      <4>4. Sound'
        BY <3>1, <3>5, <4>2 DEF Sound
      <4> QED BY <3>3, <4>3, <4>4
    <3>10. CASE v # 3
      <4>1. KeepsRows
        BY <3>6, <3>10, SameRows
      <4>2. file'.version >= 3 => UniqueRoutes(file')
        <5>1. file.version \in 0..Latest
          BY <1>0, FileFields
        <5>2. file'.version >= 3 => file.version >= 3
          BY <3>6, <3>10, <5>1 DEF Latest
        <5> QED BY <3>6, <3>10, <5>2 DEF Sound, UniqueRoutes
      <4>3. Sound'
        BY <3>1, <3>5, <4>2 DEF Sound
      <4> QED BY <3>3, <4>1, <4>3
    <3> QED BY <3>9, <3>10
  <2> QED BY <2>2, <2>3
<1>6. CASE EnableKeys
  <2>1. UNCHANGED file /\ TypeOK' /\ Sound'
    BY <1>6 DEF EnableKeys, KeysAfter, TypeOK, Sound, Dangles, UniqueRoutes, bound
  <2> QED BY <2>1, SameRows
<1> QED BY <1>1, <1>2, <1>3, <1>4, <1>5, <1>6 DEF Opening

\* No row refers to a row that is not there, said as what is true of every row.
LEMMA NotDangling ==
  ASSUME NEW f
  PROVE  ~Dangles(f) <=>
           /\ \A a \in DOMAIN f.apps : f.apps[a].server \in DOMAIN f.servers \cup {NULL}
           /\ \A t \in History : \A i \in DOMAIN f.rows[t] :
                /\ f.rows[t][i].app \in DOMAIN f.apps
                /\ f.rows[t][i].server \in DOMAIN f.servers \cup {NULL}
BY DEF Dangles

\* Rows come and go under the constraints, so no reference is left dangling and no
\* domain is given to an app twice.
LEMMA WorkingSound ==
  ASSUME RowsInv, Working
  PROVE  TypeOK' /\ Sound'
<1> USE DEF RowsInv
<1>0. /\ file \in Files /\ ~Dangles(file) /\ UniqueRoutes(file) /\ keys
      /\ "routes" \in History
  BY MigrationsAssumption
     DEF Working, TypeOK, Sound, MigrationsInv, Progress, Latest
<1>1. /\ DOMAIN file.apps \subseteq Apps /\ file.apps \in [DOMAIN file.apps -> App]
      /\ DOMAIN file.servers \subseteq Servers
      /\ file.servers \in [DOMAIN file.servers -> Names]
      /\ file.rows \in [History -> Partial(1..MaxId, Row)]
      /\ file.seq \in [History -> 0..MaxId]
  BY <1>0, FileFields, PartialIs
<1>2. \A t \in History : /\ DOMAIN file.rows[t] \subseteq 1..MaxId
                         /\ file.rows[t] \in [DOMAIN file.rows[t] -> Row]
  BY <1>1, PartialIs
<1>3. /\ \A a \in DOMAIN file.apps :
           file.apps[a].server \in DOMAIN file.servers \cup {NULL}
      /\ \A t \in History : \A i \in DOMAIN file.rows[t] :
           /\ file.rows[t][i].app \in DOMAIN file.apps
           /\ file.rows[t][i].server \in DOMAIN file.servers \cup {NULL}
  BY <1>0, NotDangling
<1>4. ASSUME file' \in Files, used' \in [History -> SUBSET (1..MaxId)],
             ~Dangles(file'), UniqueRoutes(file')
      PROVE  TypeOK' /\ Sound'
  <2>1. /\ edits' = edits + 1 /\ edits < MaxEdits
        /\ UNCHANGED <<tx, pc, keys, stops>>
    BY DEF Working
  <2>2. edits' \in 0..MaxEdits
    BY <2>1, MigrationsAssumption DEF TypeOK
  <2>3. TypeOK'
    BY <1>4, <2>1, <2>2 DEF TypeOK
  <2>4. Sound'
    BY <1>0, <1>4, <2>1 DEF Sound
  <2> QED BY <2>3, <2>4
<1>5. CASE CreateApp
  <2>1. PICK a \in Apps \ DOMAIN file.apps, n \in Names, s \in DOMAIN file.servers :
          file' = [file EXCEPT !.apps = With(@, a,
            [name |-> n, server |-> s, mode |-> "advanced", unique |-> FALSE])]
    BY <1>5 DEF CreateApp
  <2> DEFINE v  == [name |-> n, server |-> s, mode |-> "advanced", unique |-> FALSE]
             as == With(file.apps, a, v)
  <2>2. v \in App /\ v.server = s
    BY <1>1 DEF App
  <2> HIDE DEF v
  <2>3. /\ DOMAIN as = DOMAIN file.apps \cup {a} /\ as \in [DOMAIN as -> App]
        /\ \A b \in DOMAIN as : as[b] = IF b = a THEN v ELSE file.apps[b]
    BY <1>1, <2>2 DEF With
  <2>4. as \in Partial(Apps, App)
    BY <1>1, <2>3, PartialIs
  <2>5. file' = [file EXCEPT !.apps = as]
    BY <2>1 DEF v
  <2> HIDE DEF as
  <2>6. file' \in Files
    BY <1>0, <2>4, <2>5 DEF Files
  <2>7. file'.apps = as /\ file'.rows = file.rows /\ file'.servers = file.servers
    BY <1>0, <2>5 DEF Files
  <2>8. ~Dangles(file')
    BY <1>3, <2>2, <2>3, <2>7, NotDangling
  <2>9. UniqueRoutes(file') /\ used' \in [History -> SUBSET (1..MaxId)]
    BY <1>0, <1>5, <2>7 DEF UniqueRoutes, CreateApp, TypeOK
  <2> QED BY <1>4, <2>6, <2>8, <2>9
<1>6. CASE CreateServer
  <2>1. PICK s \in Servers \ DOMAIN file.servers, n \in Names :
          file' = [file EXCEPT !.servers = With(@, s, n)]
    BY <1>6 DEF CreateServer
  <2> DEFINE ss == With(file.servers, s, n)
  <2>2. DOMAIN ss = DOMAIN file.servers \cup {s} /\ ss \in [DOMAIN ss -> Names]
    BY <1>1 DEF With
  <2>3. ss \in Partial(Servers, Names)
    BY <1>1, <2>2, PartialIs
  <2>4. file' = [file EXCEPT !.servers = ss]
    BY <2>1
  <2> HIDE DEF ss
  <2>5. file' \in Files
    BY <1>0, <2>3, <2>4 DEF Files
  <2>6. file'.apps = file.apps /\ file'.rows = file.rows /\ file'.servers = ss
    BY <1>0, <2>4 DEF Files
  <2>7. ~Dangles(file')
    BY <1>3, <2>2, <2>6, NotDangling
  <2>8. UniqueRoutes(file') /\ used' \in [History -> SUBSET (1..MaxId)]
    BY <1>0, <1>6, <2>6 DEF UniqueRoutes, CreateServer, TypeOK
  <2> QED BY <1>4, <2>5, <2>7, <2>8
<1>7. CASE InsertRow
  <2>1. PICK t \in History, a \in DOMAIN file.apps, s \in DOMAIN file.servers,
             d \in Domains :
          LET i == file.seq[t] + 1
              r == [app |-> a, server |-> s, domain |-> d, active |-> TRUE]
          IN /\ i <= MaxId
             /\ t = "routes" => ~\E j \in DOMAIN file.rows[t] :
                  file.rows[t][j].app = a /\ file.rows[t][j].domain = d
             /\ file' = [file EXCEPT !.rows[t] = With(@, i, r), !.seq[t] = i]
             /\ used' = [used EXCEPT ![t] = @ \cup {i}]
    BY <1>7 DEF InsertRow
  <2> DEFINE i == file.seq[t] + 1
             r == [app |-> a, server |-> s, domain |-> d, active |-> TRUE]
             w == With(file.rows[t], i, r)
             rs == [file.rows EXCEPT ![t] = w]
  <2>2. i \in 1..MaxId /\ MaxId \in Nat
    BY <1>1, <2>1, MigrationsAssumption
  <2>3. r \in Row /\ r.app = a /\ r.server = s /\ r.domain = d
    BY <1>1 DEF Row
  <2>4. file' = [file EXCEPT !.rows[t] = w, !.seq[t] = i]
        /\ used' = [used EXCEPT ![t] = @ \cup {i}]
    BY <2>1
  <2>5. ~\E j \in DOMAIN file.rows[t] :
           t = "routes" /\ file.rows[t][j].app = r.app /\ file.rows[t][j].domain = r.domain
    BY <2>1, <2>3
  <2> HIDE DEF i, r
  <2>6. /\ DOMAIN w = DOMAIN file.rows[t] \cup {i} /\ w \in [DOMAIN w -> Row]
        /\ \A j \in DOMAIN w : w[j] = IF j = i THEN r ELSE file.rows[t][j]
    BY <1>2, <2>3 DEF With
  <2>7. w \in Partial(1..MaxId, Row)
    BY <1>2, <2>2, <2>6, PartialIs
  <2> HIDE DEF w
  <2>8. /\ rs \in [History -> Partial(1..MaxId, Row)]
        /\ \A u \in History : rs[u] = IF u = t THEN w ELSE file.rows[u]
    BY <1>1, <2>7
  <2>9. [file.seq EXCEPT ![t] = i] \in [History -> 0..MaxId]
    BY <1>1, <2>2
  <2>10. file' = [file EXCEPT !.rows = rs, !.seq = [file.seq EXCEPT ![t] = i]]
    BY <1>0, <2>4 DEF Files
  <2> HIDE DEF rs
  <2>11. file' \in Files
    BY <1>0, <2>8, <2>9, <2>10 DEF Files
  <2>12. file'.apps = file.apps /\ file'.rows = rs /\ file'.servers = file.servers
    BY <1>0, <2>10 DEF Files
  <2>13. ~Dangles(file')
    BY <1>3, <2>3, <2>6, <2>8, <2>12, NotDangling
  <2>14. UniqueRoutes(file')
    <3>1. CASE t = "routes"
      <4>1. file'.rows["routes"] = w
        BY <2>8, <2>12, <3>1
      <4> QED BY <1>0, <2>5, <2>6, <3>1, <4>1 DEF UniqueRoutes
    <3>2. CASE t # "routes"
      <4>1. file'.rows["routes"] = file.rows["routes"]
        BY <1>0, <2>8, <2>12, <3>2
      <4> QED BY <1>0, <4>1 DEF UniqueRoutes
    <3> QED BY <3>1, <3>2
  <2>15. used' \in [History -> SUBSET (1..MaxId)]
    BY <2>2, <2>4 DEF TypeOK
  <2> QED BY <1>4, <2>11, <2>13, <2>14, <2>15
<1>8. CASE DeleteRoute
  <2>1. PICK i \in DOMAIN file.rows["routes"] :
          file' = [file EXCEPT !.rows["routes"] = Without(@, i)]
    BY <1>8 DEF DeleteRoute
  <2> DEFINE w  == Without(file.rows["routes"], i)
             rs == [file.rows EXCEPT !["routes"] = w]
  <2>2. /\ DOMAIN w \subseteq DOMAIN file.rows["routes"] /\ w \in [DOMAIN w -> Row]
        /\ \A j \in DOMAIN w : w[j] = file.rows["routes"][j]
    BY <1>0, <1>2 DEF Without
  <2>3. w \in Partial(1..MaxId, Row)
    BY <1>0, <1>2, <2>2, PartialIs
  <2>4. file' = [file EXCEPT !.rows["routes"] = w]
    BY <2>1
  <2> HIDE DEF w
  <2>5. /\ rs \in [History -> Partial(1..MaxId, Row)]
        /\ \A u \in History : rs[u] = IF u = "routes" THEN w ELSE file.rows[u]
    BY <1>0, <1>1, <2>3
  <2>6. file' = [file EXCEPT !.rows = rs]
    BY <1>0, <2>4 DEF Files
  <2> HIDE DEF rs
  <2>7. file' \in Files
    BY <1>0, <2>5, <2>6 DEF Files
  <2>8. file'.apps = file.apps /\ file'.rows = rs /\ file'.servers = file.servers
    BY <1>0, <2>6 DEF Files
  <2>9. ~Dangles(file')
    BY <1>3, <2>2, <2>5, <2>8, NotDangling
  <2>10. UniqueRoutes(file') /\ used' \in [History -> SUBSET (1..MaxId)]
    BY <1>0, <1>8, <2>2, <2>5, <2>8 DEF UniqueRoutes, DeleteRoute, TypeOK
  <2> QED BY <1>4, <2>7, <2>9, <2>10
<1>9. CASE DeleteApp
  <2>1. PICK a \in DOMAIN file.apps :
          file' = [file EXCEPT !.apps = Without(@, a),
                     !.rows = IF ~keys THEN @ ELSE
                       [t \in History |->
                         [i \in {j \in DOMAIN file.rows[t] :
                                   file.rows[t][j].app # a} |->
                            file.rows[t][i]]]]
    BY <1>9 DEF DeleteApp
  <2> DEFINE as == Without(file.apps, a)
             D(t) == {j \in DOMAIN file.rows[t] : file.rows[t][j].app # a}
             rs == [t \in History |-> [i \in D(t) |-> file.rows[t][i]]]
  <2>2. /\ DOMAIN as = DOMAIN file.apps \ {a} /\ as \in [DOMAIN as -> App]
        /\ \A b \in DOMAIN as : as[b] = file.apps[b]
    BY <1>1 DEF Without
  <2>3. as \in Partial(Apps, App)
    BY <1>1, <2>2, PartialIs
  <2>4. \A t \in History : rs[t] = [i \in D(t) |-> file.rows[t][i]]
    OBVIOUS
  <2>5. \A t \in History : rs[t] \in [D(t) -> Row] /\ D(t) \subseteq 1..MaxId
    BY <1>2, <2>4
  <2>6. rs \in [History -> Partial(1..MaxId, Row)]
    BY <2>5 DEF Partial
  <2>7. file' = [file EXCEPT !.apps = as, !.rows = rs]
    BY <1>0, <2>1 DEF Files
  <2> HIDE DEF as, rs
  <2>8. file' \in Files
    BY <1>0, <2>3, <2>6, <2>7 DEF Files
  <2>9. file'.apps = as /\ file'.rows = rs /\ file'.servers = file.servers
    BY <1>0, <2>7 DEF Files
  <2>10. ~Dangles(file')
    <3>1. \A b \in DOMAIN file'.apps :
            file'.apps[b].server \in DOMAIN file'.servers \cup {NULL}
      BY <1>3, <2>2, <2>9
    <3>2. ASSUME NEW t \in History, NEW i \in DOMAIN file'.rows[t]
          PROVE  /\ file'.rows[t][i].app \in DOMAIN file'.apps
                 /\ file'.rows[t][i].server \in DOMAIN file'.servers \cup {NULL}
      <4>1. i \in D(t) /\ file'.rows[t][i] = file.rows[t][i]
        BY <2>4, <2>9, <3>2
      <4>2. i \in DOMAIN file.rows[t] /\ file.rows[t][i].app # a
        BY <4>1
      <4> HIDE DEF D
      <4> QED BY <1>3, <2>2, <2>9, <4>1, <4>2
    <3> QED BY <3>1, <3>2, NotDangling
  <2>11. UniqueRoutes(file') /\ used' \in [History -> SUBSET (1..MaxId)]
    BY <1>0, <1>9, <2>4, <2>9 DEF UniqueRoutes, DeleteApp, TypeOK
  <2> QED BY <1>4, <2>8, <2>10, <2>11
<1>10. CASE DeleteServer
  <2>1. PICK s \in DOMAIN file.servers :
          /\ keys => \A a \in DOMAIN file.apps : file.apps[a].server # s
          /\ file' = [file EXCEPT !.servers = Without(@, s),
                     !.rows = IF ~keys THEN @ ELSE
                       [t \in History |-> [i \in DOMAIN file.rows[t] |->
                         IF file.rows[t][i].server = s
                           THEN [file.rows[t][i] EXCEPT !.server = NULL]
                           ELSE file.rows[t][i]]]]
    BY <1>10 DEF DeleteServer
  <2> DEFINE ss == Without(file.servers, s)
             n(t, i) == IF file.rows[t][i].server = s
                          THEN [file.rows[t][i] EXCEPT !.server = NULL]
                          ELSE file.rows[t][i]
             rs == [t \in History |-> [i \in DOMAIN file.rows[t] |-> n(t, i)]]
  <2>2. DOMAIN ss = DOMAIN file.servers \ {s} /\ ss \in [DOMAIN ss -> Names]
    BY <1>1 DEF Without
  <2>3. ss \in Partial(Servers, Names)
    BY <1>1, <2>2, PartialIs
  <2>4. \A t \in History : rs[t] = [i \in DOMAIN file.rows[t] |-> n(t, i)]
    OBVIOUS
  <2>5. ASSUME NEW t \in History, NEW i \in DOMAIN file.rows[t]
        PROVE  /\ n(t, i) \in Row
               /\ n(t, i).app = file.rows[t][i].app
               /\ n(t, i).domain = file.rows[t][i].domain
               /\ n(t, i).server \in DOMAIN ss \cup {NULL}
    <3>1. file.rows[t][i] \in Row
      BY <1>2
    <3> QED BY <1>3, <2>2, <3>1 DEF Row
  <2> HIDE DEF n
  <2>6. \A t \in History : rs[t] \in [DOMAIN file.rows[t] -> Row]
    BY <2>4, <2>5
  <2>7. rs \in [History -> Partial(1..MaxId, Row)]
    BY <1>2, <2>6 DEF Partial
  <2>8. file' = [file EXCEPT !.servers = ss, !.rows = rs]
    BY <1>0, <2>1 DEF Files, n
  <2>9. \A a \in DOMAIN file.apps : file.apps[a].server # s
    BY <1>0, <2>1
  <2> HIDE DEF ss, rs
  <2>10. file' \in Files
    BY <1>0, <2>3, <2>7, <2>8 DEF Files
  <2>11. file'.apps = file.apps /\ file'.rows = rs /\ file'.servers = ss
    BY <1>0, <2>8 DEF Files
  <2>12. ~Dangles(file')
    <3>1. \A b \in DOMAIN file'.apps :
            file'.apps[b].server \in DOMAIN file'.servers \cup {NULL}
      BY <1>3, <2>2, <2>9, <2>11
    <3>2. ASSUME NEW t \in History, NEW i \in DOMAIN file'.rows[t]
          PROVE  /\ file'.rows[t][i].app \in DOMAIN file'.apps
                 /\ file'.rows[t][i].server \in DOMAIN file'.servers \cup {NULL}
      <4>1. i \in DOMAIN file.rows[t] /\ file'.rows[t][i] = n(t, i)
        BY <2>4, <2>11, <3>2
      <4> QED BY <1>3, <2>5, <2>11, <4>1
    <3> QED BY <3>1, <3>2, NotDangling
  <2>13. UniqueRoutes(file') /\ used' \in [History -> SUBSET (1..MaxId)]
    BY <1>0, <1>10, <2>4, <2>5, <2>11 DEF UniqueRoutes, DeleteServer, TypeOK
  <2> QED BY <1>4, <2>10, <2>12, <2>13
<1>11. CASE ChooseMode
  <2>1. PICK a \in DOMAIN file.apps, m \in {"simple", "advanced"} :
          file' = [file EXCEPT !.apps[a].mode = m]
    BY <1>11 DEF ChooseMode
  <2> DEFINE v  == [file.apps[a] EXCEPT !.mode = m]
             as == [file.apps EXCEPT ![a] = v]
  <2>2. v \in App /\ v.server = file.apps[a].server
    BY <1>1 DEF App
  <2>3. file' = [file EXCEPT !.apps = as]
    BY <1>0, <2>1 DEF Files
  <2> HIDE DEF v
  <2>4. /\ DOMAIN as = DOMAIN file.apps /\ as \in [DOMAIN file.apps -> App]
        /\ \A b \in DOMAIN as : as[b].server = file.apps[b].server
    BY <1>1, <2>2
  <2>5. as \in Partial(Apps, App)
    BY <1>1, <2>4, PartialIs
  <2> HIDE DEF as
  <2>6. file' \in Files
    BY <1>0, <2>3, <2>5 DEF Files
  <2>7. file'.apps = as /\ file'.rows = file.rows /\ file'.servers = file.servers
    BY <1>0, <2>3 DEF Files
  <2>8. ~Dangles(file')
    BY <1>3, <2>4, <2>7, NotDangling
  <2>9. UniqueRoutes(file') /\ used' \in [History -> SUBSET (1..MaxId)]
    BY <1>0, <1>11, <2>7 DEF UniqueRoutes, ChooseMode, TypeOK
  <2> QED BY <1>4, <2>6, <2>8, <2>9
<1> QED BY <1>5, <1>6, <1>7, <1>8, <1>9, <1>10, <1>11 DEF Working

\* Every step keeps the invariant, and a step of a controller that is not up keeps
\* the rows.
LEMMA RowsStep ==
  RowsInv /\ [Next]_vars => RowsInv' /\ (pc # "up" => KeepsRows)
<1> SUFFICES ASSUME RowsInv, [Next]_vars
             PROVE  TypeOK' /\ Sound' /\ (pc # "up" => KeepsRows)
  BY MigrationsStep DEF RowsInv
<1>1. CASE Opening
  BY <1>1, OpeningSound
<1>2. CASE Working
  BY <1>2, WorkingSound DEF Working
<1>3. CASE Stop
  <2>1. /\ UNCHANGED <<file, used, edits>> /\ pc' = "down" /\ tx' = Fresh
        /\ keys' = FALSE /\ stops' = stops + 1 /\ stops < MaxStops
    BY <1>3 DEF Stop
  <2>2. stops' \in 0..MaxStops
    BY <2>1, MigrationsAssumption DEF RowsInv, TypeOK
  <2>3. TypeOK' /\ Sound'
    BY <2>1, <2>2, FreshIsFile DEF RowsInv, TypeOK, Sound, Dangles, UniqueRoutes
  <2> QED BY <2>1, <2>3, SameRows DEF RowsInv
<1>4. CASE UNCHANGED vars
  <2>1. UNCHANGED file /\ TypeOK' /\ Sound'
    BY <1>4 DEF RowsInv, TypeOK, Sound, Dangles, UniqueRoutes, vars, bound
  <2> QED BY <2>1, SameRows DEF RowsInv
<1> QED BY <1>1, <1>2, <1>3, <1>4 DEF Next

\* Files of earlier releases have version 0, so nothing is asked of their rows.
LEMMA RowsStart == Init => RowsInv
<1> SUFFICES ASSUME Init PROVE TypeOK /\ Sound
  BY MigrationsStart DEF RowsInv
<1>1. file \in Files /\ file.version = 0
  <2>1. CASE file = Fresh
    BY <2>1, FreshIsFile DEF Fresh
  <2>2. CASE file \in Legacy
    BY <2>2, MigrationsAssumption
  <2> QED BY <2>1, <2>2 DEF Init
<1>2. file.seq \in [History -> 0..MaxId] /\ MaxId \in Nat
  BY <1>1, FileFields, MigrationsAssumption
<1>3. used \in [History -> SUBSET (1..MaxId)]
  BY <1>2 DEF Init
<1>4. TypeOK
  <2>1. 0 \in 0..MaxStops /\ 0 \in 0..MaxEdits
    BY MigrationsAssumption
  <2>2. file \in Files /\ tx \in Files
    BY <1>1, FreshIsFile DEF Init
  <2> QED BY <1>3, <2>1, <2>2 DEF Init, TypeOK
<1> QED BY <1>1, <1>4 DEF Init, Sound

---------------------------------------------------------------------------
\* Whatever file Open finds, and wherever earlier starts were stopped, the
\* controller comes up only on the current schema.
THEOREM SchemaConverges == Spec => []Converged
<1>1. MigrationsInv => Converged
  BY DEF MigrationsInv, Shape, Upgraded, Progress, Converged, Latest
<1> QED BY <1>1, MigrationsStart, MigrationsStep, PTL DEF Spec

\* The id of a deleted row is never given to another, although the tables are
\* copied into new ones.
THEOREM IdsStayUnique == Spec => IdsNotReused
<1>1. ASSUME MigrationsInv, [Next]_vars
      PROVE  \A t \in History :
               used[t] \cap (DOMAIN file'.rows[t] \ DOMAIN file.rows[t]) = {}
  <2>1. UNCHANGED file \/ OpensOnly \/ WorksOnly
    BY <1>1, MigrationsStep
  <2>2. \A t \in History : file.seq[t] \in Nat /\ used[t] \subseteq 1..file.seq[t]
    BY <1>1 DEF MigrationsInv, Shape, Counted
  <2> QED BY <2>1, <2>2 DEF OpensOnly, WorksOnly
<1> QED BY <1>1, MigrationsStart, MigrationsStep, PTL DEF Spec, IdsNotReused

\* The flag of an earlier release becomes a mode once; no later start takes back
\* what the owner chose.
THEOREM ModeConvertedOnce == Spec => ModeIsOwners
<1>1. ASSUME MigrationsInv, [Next]_vars
      PROVE  pc # "up" /\ file.version > 0 =>
               \A a \in DOMAIN file.apps : file'.apps[a].mode = file.apps[a].mode
  <2>1. UNCHANGED file \/ OpensOnly \/ WorksOnly
    BY <1>1, MigrationsStep
  <2> QED BY <2>1 DEF OpensOnly, WorksOnly
<1> QED BY <1>1, MigrationsStart, MigrationsStep, PTL DEF Spec, ModeIsOwners

\* The database file stays one, whatever a start or a request does to it.
THEOREM MigrationsTyped == Spec => []TypeOK
<1>1. RowsInv => TypeOK
  BY DEF RowsInv
<1> QED BY <1>1, RowsStart, RowsStep, PTL DEF Spec

\* Whatever the rows of an earlier release were: a controller that is up has no
\* dangling reference and no app with a domain twice, and no request brings one.
THEOREM NoDanglingRows == Spec => []Consistent
<1>1. RowsInv => Consistent
  BY DEF RowsInv, MigrationsInv, Progress, Sound, UniqueRoutes, Consistent, Latest
<1> QED BY <1>1, RowsStart, RowsStep, PTL DEF Spec

\* No start loses a row that is not a route, nor the last active route of an app
\* for a domain.
THEOREM StartKeepsRows == Spec => OpenKeepsRows
<1>1. ASSUME RowsInv, [Next]_vars PROVE pc # "up" => KeepsRows
  BY <1>1, RowsStep
<1> QED BY <1>1, RowsStart, RowsStep, PTL DEF Spec, OpenKeepsRows, KeepsRows

=============================================================================
