---------------------------- MODULE RoutesProofs ----------------------------
(***************************************************************************)
(* Routes, for every set of apps, workers and domains, any number of       *)
(* requests and of faults of every kind.  Apps may be given the same       *)
(* domain: what is proved of a domain is about those that are Apart.       *)
(***************************************************************************)
EXTENDS Routes, TLAPS

(* Where a deployment is: anywhere but in SaveConfig, which other operations *)
(* call too; knowing the record of its domain; waiting for the certificate;  *)
(* before the route of its domain is posted; before its record points home.  *)
DeployPCs == {"copy", "remove", "next", "unroute", "post", "list", "create",
              "record", "track", "point", "cert", "proxy", "flag", "finish"}
Known     == {"track", "point", "record", "cert", "proxy"}
Pending   == {"record", "cert", "proxy"}
Unserved  == {"unroute", "post"}
Unpointed == {"unroute", "post", "fetch", "write", "list", "create", "track",
              "point"}

\* Which operation runs, and what it was started with.
Ops(a) ==
  /\ pc[a] = "idle" => job[a] = NoJob
  /\ pc[a] \in DeployPCs => job[a].op = "deploy"
  /\ pc[a] = "takeDown" => job[a].op \in {"cleanup", "undeploy"}
  /\ pc[a] \in {"fetch", "write"} => job[a].op # "none"
  /\ pc[a] \in {"deleteDNS", "deleteRow"} => job[a].op = "undeploy"
  /\ job[a].op = "deploy" /\ pc[a] # "copy" =>
       job[a].worker = home[a] /\ job[a].old # home[a]
  /\ pc[a] = "copy" => job[a].worker # home[a] /\ job[a].old = home[a]
  /\ job[a].op = "cleanup" => job[a].worker # home[a]
  /\ job[a].op = "undeploy" => job[a].worker = home[a]
  /\ job[a].op # "none" => job[a].worker \in Workers
  /\ job[a].op # "none" \/ status[a] # "absent" \/ last[a] # "none" =>
       home[a] \in Workers
  /\ routes[a] \cup job[a].todo \cup job[a].removed \subseteq May[a]
  /\ job[a].op = "deploy" /\ pc[a] \notin {"copy", "remove", "next", "finish"} =>
       job[a].domain \in May[a]
  /\ pc[a] = "finish" => job[a].todo = {}
  /\ pc[a] = "track" => job[a].was # None
  /\ pc[a] = "proxy" => job[a].restore

\* A configuration leads a domain only to an app that may be given it.
Rightful(c) == \A d \in Domains : c[d] # None => d \in May[c[d]]

Placed ==
  /\ \A w \in Workers : Rightful(running[w]) /\ Rightful(saved[w])
  /\ \A a \in Apps : Rightful(job[a].cfg)

\* Identifiers are given once; a row has the name of its record.
Ids ==
  /\ nextId \in Nat \ {0}
  /\ \A r \in dns : r.id \in 1..(nextId - 1)
  /\ \A r, q \in dns : r.id = q.id => r = q
  /\ \A row \in rows : /\ row.id < nextId
                       /\ \A r \in dns : r.id = row.id => r.name = row.name
  /\ \A r \in dns, a \in Apps : r.by = a => r.name \in May[a]

\* The record that an operation works on is one of the app's domains.
Holds(a) ==
  /\ job[a].id < nextId
  /\ \A r \in dns : r.id = job[a].id =>
       /\ r.name \in May[a]
       /\ pc[a] \in Known => r.name = job[a].domain

\* Between the list and the creation nobody creates the record.
Vacant(a) ==
  pc[a] = "create" /\ job[a].domain \in Apart =>
    \A r \in dns : r.name # job[a].domain

\* The operation remembers the setting that the record is to have, and it has the
\* proxy off while the certificate is awaited.
Restoring(a) ==
  \A r \in dns : r.id = job[a].id /\ r.id \notin spoiled /\ r.name \in Apart =>
    /\ pc[a] \in Known => r.wanted = job[a].restore
    /\ pc[a] \in Pending => ~r.proxied

Awaits(a, i) == pc[a] \in Pending /\ job[a].id = i

Proxies ==
  \A r \in dns : r.name \in Apart =>
    \/ r.id \in spoiled
    \/ r.proxied = r.wanted
    \/ \E a \in Apps : Awaits(a, r.id)

\* A record that Dockify created has its row, or is about to; when the row of
\* the app is about to go, its records have gone.
HasRow(a, r) ==
  \E row \in rows : /\ row.app = a /\ row.id = r.id /\ row.name = r.name
                    /\ row.content \in Workers

Tracked(a) ==
  /\ \A r \in dns : r.by = a /\ r.id \notin spoiled =>
       \/ pc[a] = "record" /\ job[a].id = r.id
       \/ HasRow(a, r)
  /\ pc[a] = "deleteRow" /\ "kept" \notin mishap[a] /\ servers = Workers =>
       \A r \in dns : r.by = a /\ r.name \in routes[a] => r.id \in spoiled

\* The last deployment of the app was a success; one of it is under way and no
\* route has failed.
Resting(a) ==
  last[a] = "success" /\ primary[a] /\ (pc[a] = "idle" \/ job[a].op = "cleanup")
Deploying(a) ==
  /\ job[a].op = "deploy" /\ pc[a] \notin {"copy", "remove"} /\ ~job[a].failed
  /\ primary[a]

\* The domains of an app that the properties are about.
Ours(a) == routes[a] \cap Apart

Pointed(a, d) == \E r \in dns : r.name = d /\ r.content = home[a]

PointedInv(a) ==
  mishap[a] \cap {"dns", "crash"} = {} =>
    /\ Resting(a) => \A d \in Ours(a) : Pointed(a, d)
    /\ Deploying(a) => \A d \in Ours(a) :
         \/ d \in job[a].todo
         \/ d = job[a].domain /\ pc[a] \in Unpointed
         \/ Pointed(a, d)

\* The route is in the running configuration.
Served(a, d) == running[home[a]][d] = a

ServedInv(a) ==
  mishap[a] \cap {"reboot", "crash"} = {} =>
    /\ Resting(a) => \A d \in Ours(a) : Served(a, d)
    /\ Deploying(a) => \A d \in Ours(a) :
         \/ d \in job[a].todo
         \/ d = job[a].domain /\ pc[a] \in Unserved
         \/ Served(a, d)

\* It is in the file too.
Kept(a, d) == Served(a, d) /\ saved[home[a]][d] = a

\* Or on its way there: SaveConfig has not fetched yet, or has fetched it.
OnItsWay(a, d) ==
  /\ Served(a, d) /\ d = job[a].domain
  /\ pc[a] = "fetch" \/ (pc[a] = "write" /\ job[a].cfg[d] = a)

Loss == {"restart", "race", "save", "crash"}

KeptInv(a) ==
  mishap[a] \cap Loss = {} =>
    /\ Resting(a) => \A d \in Ours(a) : Kept(a, d)
    /\ Deploying(a) => \A d \in Ours(a) :
         \/ d \in job[a].todo
         \/ d = job[a].domain /\ pc[a] \in Unserved
         \/ OnItsWay(a, d)
         \/ Kept(a, d)

Reachable(a) == PointedInv(a) /\ ServedInv(a) /\ KeptInv(a)

Own(a) ==
  Ops(a) /\ Holds(a) /\ Vacant(a) /\ Restoring(a) /\ Tracked(a) /\ Reachable(a)

Records == Ids /\ NoDuplicates /\ Proxies

RoutesInv == TypeOK /\ Placed /\ Records /\ \A a \in Apps : Own(a)

---------------------------------------------------------------------------
(* What a step leaves to an app that does not take it.                     *)

\* A record keeps its name, and a new one has a new id.
NamesKept ==
  /\ nextId <= nextId'
  /\ \A q \in dns' : \/ q.id >= nextId
                     \/ \E r \in dns : r.id = q.id /\ r.name = q.name

\* A record that b created was there, and b's rows stay.
RowsStay(b) ==
  /\ \A q \in dns' : q.by = b =>
       \E r \in dns : r.id = q.id /\ r.name = q.name /\ r.by = b
  /\ \A row \in rows : row.app = b =>
       \E q \in rows' : /\ q.app = b /\ q.id = row.id /\ q.name = row.name
                        /\ q.content = row.content

\* A file that loses a route that is still running is a mishap of its app.
SavedStay(b) ==
  \A w \in Workers, d \in Apart \cap May[b] :
    running[w][d] = b /\ saved[w][d] = b =>
      saved'[w][d] = b \/ mishap'[b] \cap {"race", "save"} # {}

\* The app's own state; the records and the routes of its domains.
Spares(b) ==
  /\ pc'[b] = pc[b] /\ job'[b] = job[b] /\ status'[b] = status[b]
  /\ last'[b] = last[b] /\ primary'[b] = primary[b]
  /\ home'[b] = home[b] /\ routes'[b] = routes[b] /\ mishap[b] \subseteq mishap'[b]
  /\ servers' \subseteq servers /\ spoiled \subseteq spoiled'
  /\ \A r \in dns' \cup dns :
       r.name \in Apart \cap May[b] => (r \in dns <=> r \in dns')
  /\ RowsStay(b)
  /\ \A w \in Workers, d \in Apart \cap May[b] : running'[w][d] = running[w][d]
  /\ SavedStay(b)

\* The fields of a job.
LEMMA JobFields ==
  ASSUME NEW j \in Job
  PROVE  /\ j.op \in {"none", "deploy", "cleanup", "undeploy"}
         /\ j.worker \in Workers \cup {None} /\ j.old \in Workers \cup {None}
         /\ j.removed \subseteq Domains /\ j.todo \subseteq Domains
         /\ j.domain \in Domains \cup {None} /\ j.cfg \in Config /\ j.id \in Nat
         /\ j.was \in Workers \cup {Elsewhere, None}
         /\ j.restore \in BOOLEAN /\ j.failed \in BOOLEAN /\ j.prev \in Statuses
  BY DEF Job

\* A domain that is apart belongs to one app, and no other domain of any app has its
\* identifier.
LEMMA ApartIsOne ==
  ASSUME NEW d \in Apart
  PROVE  /\ d \in Domains
         /\ \A a, b \in Apps : d \in May[a] /\ d \in May[b] => a = b
         /\ \A a \in Apps : \A e \in May[a] : Id[e] = Id[d] => e = d
  BY DEF Apart

\* What is spared keeps its part of the invariant.
LEMMA Spared ==
  ASSUME TypeOK, TypeOK', Ids', NamesKept, NEW b \in Apps, Own(b), Spares(b)
  PROVE  Own(b)'
<1>1. May[b] \subseteq Domains /\ routes[b] \subseteq May[b]
  BY RoutesAssumption DEF Own, Ops
<1>2. Ops(b)'
  BY DEF Own, Ops, Spares
<1>3. Holds(b)'
  <2>1. job'[b].id < nextId'
    BY JobFields DEF Own, Holds, Spares, NamesKept, TypeOK
  <2>2. ASSUME NEW q \in dns', q.id = job'[b].id
        PROVE  \E r \in dns : r.id = q.id /\ r.name = q.name
    <3>1. job[b].id \in Nat /\ nextId \in Nat /\ job[b].id < nextId
      BY JobFields DEF Own, Holds, TypeOK
    <3>2. ~(q.id >= nextId)
      BY <2>2, <3>1 DEF Spares
    <3>. QED  BY <3>2 DEF NamesKept
  <2>. QED  BY <2>1, <2>2 DEF Own, Holds, Spares
<1>4. Vacant(b)'
  <2>. SUFFICES ASSUME pc'[b] = "create", job'[b].domain \in Apart,
                       NEW q \in dns', q.name = job'[b].domain
                PROVE  FALSE
    BY DEF Vacant
  <2>1. job[b].domain \in May[b]
    BY DEF Own, Ops, Spares, DeployPCs
  <2>2. q \in dns
    BY <2>1 DEF Spares
  <2>. QED  BY <2>2 DEF Own, Vacant, Spares
<1>5. Restoring(b)'
  <2>. SUFFICES ASSUME NEW q \in dns', q.id = job'[b].id, q.id \notin spoiled',
                       q.name \in Apart
                PROVE  /\ pc'[b] \in Known => q.wanted = job'[b].restore
                       /\ pc'[b] \in Pending => ~q.proxied
    BY DEF Restoring
  <2>1. q.name \in May[b]
    BY <1>3 DEF Holds
  <2>2. q \in dns
    BY <2>1 DEF Spares
  <2>. QED  BY <2>2 DEF Own, Restoring, Spares
<1>6. Tracked(b)'
  <2>1. servers' = Workers => servers = Workers
    BY DEF Spares, TypeOK
  <2>2. ASSUME NEW q \in dns', q.by = b, q.id \notin spoiled'
        PROVE  \/ pc'[b] = "record" /\ job'[b].id = q.id
               \/ HasRow(b, q)'
    <3>1. PICK r \in dns : r.id = q.id /\ r.name = q.name /\ r.by = b
      BY <2>2 DEF Spares, RowsStay
    <3>2. CASE pc[b] = "record" /\ job[b].id = q.id
      BY <3>2 DEF Spares
    <3>3. CASE HasRow(b, r)
      BY <3>1, <3>3 DEF HasRow, Spares, RowsStay
    <3>. QED  BY <2>2, <3>1, <3>2, <3>3 DEF Own, Tracked, Spares
  <2>3. ASSUME pc'[b] = "deleteRow", "kept" \notin mishap'[b], servers' = Workers,
               NEW q \in dns', q.by = b, q.name \in routes'[b]
        PROVE  q.id \in spoiled'
    <3>1. PICK r \in dns : r.id = q.id /\ r.name = q.name /\ r.by = b
      BY <2>3 DEF Spares, RowsStay
    <3>. QED  BY <2>1, <2>3, <3>1 DEF Own, Tracked, Spares
  <2>. QED  BY <2>2, <2>3 DEF Tracked
<1>7. /\ Ours(b)' = Ours(b) /\ Ours(b) \subseteq Apart \cap May[b]
      /\ Resting(b)' = Resting(b) /\ Deploying(b)' = Deploying(b)
  BY <1>1 DEF Ours, Spares, Resting, Deploying
<1>8. \A d \in Ours(b) : Pointed(b, d) => Pointed(b, d)'
  BY <1>7 DEF Pointed, Spares
<1>9. PointedInv(b)'
  BY <1>7, <1>8 DEF Own, Reachable, PointedInv, Spares
<1>10. Resting(b) \/ Deploying(b) => home[b] \in Workers
  BY DEF Own, Ops, Resting, Deploying
<1>11. \A d \in Ours(b) : home[b] \in Workers => (Served(b, d)' <=> Served(b, d))
  BY <1>7 DEF Served, Spares
<1>12. ServedInv(b)'
  BY <1>7, <1>10, <1>11 DEF Own, Reachable, ServedInv, Spares
<1>13. \A d \in Ours(b) : home[b] \in Workers /\ mishap'[b] \cap Loss = {} =>
         /\ Kept(b, d) => Kept(b, d)'
         /\ OnItsWay(b, d) => OnItsWay(b, d)'
  BY <1>7, <1>11 DEF Kept, OnItsWay, Served, Spares, SavedStay, Loss
<1>14. KeptInv(b)'
  BY <1>7, <1>10, <1>13 DEF Own, Reachable, KeptInv, Spares
<1>. QED  BY <1>2, <1>3, <1>4, <1>5, <1>6, <1>9, <1>12, <1>14 DEF Own, Reachable

---------------------------------------------------------------------------
(* What a step of app a does.                                              *)

\* It leaves the other apps' state alone, and touches the records and the routes
\* of no domain that is apart and not its own, except that it writes a
\* configuration that it has fetched before.
Within(a) ==
  /\ \A b \in Apps \ {a} :
       /\ pc'[b] = pc[b] /\ job'[b] = job[b] /\ status'[b] = status[b]
       /\ last'[b] = last[b] /\ primary'[b] = primary[b]
       /\ home'[b] = home[b] /\ routes'[b] = routes[b]
       /\ mishap[b] \subseteq mishap'[b]
       /\ RowsStay(b) /\ SavedStay(b)
  /\ servers' = servers /\ spoiled \subseteq spoiled'
  /\ \A r \in dns' \cup dns : r.name \in Apart \ May[a] => (r \in dns <=> r \in dns')
  /\ \A w \in Workers, d \in Apart \ May[a] : running'[w][d] = running[w][d]

\* It touches no record and no row, and begins and ends outside the work on a
\* record.
Calm(a) ==
  /\ UNCHANGED <<rows, dns, nextId, spoiled, servers>>
  /\ pc[a] \notin Pending /\ pc'[a] \notin Known \cup {"create", "deleteRow"}
  /\ job'[a].id \in {0, job[a].id}
  /\ \A b \in Apps \ {a} :
       /\ pc'[b] = pc[b] /\ job'[b] = job[b] /\ status'[b] = status[b]
       /\ last'[b] = last[b] /\ primary'[b] = primary[b]
       /\ home'[b] = home[b] /\ routes'[b] = routes[b]
       /\ mishap[b] \subseteq mishap'[b]

\* It is a step of a deployment at the record of its domain, and leaves every Caddy
\* alone.
AtRecord == {"list", "create", "record", "track", "point", "cert", "proxy", "flag"}

Lookup(a) ==
  /\ UNCHANGED <<servers, app, running, saved>>
  /\ pc[a] \in AtRecord /\ pc'[a] \in AtRecord \cup {"next"}
  /\ \A b \in Apps \ {a} :
       pc'[b] = pc[b] /\ job'[b] = job[b] /\ mishap'[b] = mishap[b]
  /\ mishap[a] \subseteq mishap'[a] /\ spoiled \subseteq spoiled'
  /\ job'[a].op = job[a].op /\ job'[a].worker = job[a].worker
  /\ job'[a].old = job[a].old /\ job'[a].todo = job[a].todo
  /\ job'[a].removed = job[a].removed /\ job'[a].domain = job[a].domain
  /\ job'[a].failed = job[a].failed /\ job'[a].cfg = job[a].cfg

\* The other apps are spared: a domain that is apart is given to one app.
LEMMA OthersSpared ==
  ASSUME NEW a \in Apps, Within(a), NEW b \in Apps, b # a
  PROVE  Spares(b)
<1>1. Apart \cap May[b] \subseteq Apart \ May[a]
  BY ApartIsOne
<1>. QED  BY <1>1 DEF Spares, Within

\* A step of a keeps the invariant if it keeps the part of a and of the records.
LEMMA StepKeeps ==
  ASSUME RoutesInv, NEW a \in Apps, Within(a), NamesKept,
         TypeOK', Placed', Records', Own(a)'
  PROVE  RoutesInv'
<1>1. ASSUME NEW b \in Apps, b # a  PROVE Own(b)'
  BY <1>1, OthersSpared, Spared DEF RoutesInv, Records
<1>. QED  BY <1>1 DEF RoutesInv

\* A calm step keeps the part of the records.
LEMMA CalmKeeps ==
  ASSUME RoutesInv, NEW a \in Apps, Calm(a)
  PROVE  /\ Records' /\ NamesKept
         /\ Holds(a)' /\ Vacant(a)' /\ Restoring(a)' /\ Tracked(a)'
<1>1. Records /\ Own(a) /\ nextId \in Nat
  BY DEF RoutesInv, TypeOK
<1>2. Ids' /\ NoDuplicates' /\ NamesKept
  BY <1>1 DEF Records, Ids, NoDuplicates, NamesKept, Calm
<1>3. Proxies'
  BY <1>1 DEF Records, Proxies, Awaits, Calm
<1>4. Holds(a)'
  BY <1>1 DEF Own, Holds, Calm, Records, Ids
<1>5. Vacant(a)' /\ Restoring(a)'
  BY <1>1 DEF Own, Vacant, Restoring, Calm, Pending, Known
<1>6. Tracked(a)'
  BY <1>1 DEF Own, Tracked, HasRow, Calm, Pending
<1>. QED  BY <1>2, <1>3, <1>4, <1>5, <1>6 DEF Records

\* A calm step that changes no Caddy of another's domains and no file stays within
\* its app.
LEMMA CalmWithin ==
  ASSUME NEW a \in Apps, Calm(a), UNCHANGED saved,
         \A w \in Workers, d \in Apart \ May[a] : running'[w][d] = running[w][d]
  PROVE  Within(a)
  BY DEF Calm, Within, RowsStay, SavedStay

\* No configuration changes.
LEMMA PlacedKept ==
  ASSUME Placed, UNCHANGED <<running, saved>>,
         \A b \in Apps : job'[b].cfg \in {job[b].cfg, NoRoutes}
  PROVE  Placed'
<1>1. Rightful(NoRoutes)
  BY DEF Rightful, NoRoutes
<1>2. ASSUME NEW b \in Apps  PROVE Rightful(job'[b].cfg)
  BY <1>1, job'[b].cfg \in {job[b].cfg, NoRoutes} DEF Placed
<1>. QED  BY <1>2 DEF Placed

---------------------------------------------------------------------------
(* The steps that touch no record.                                         *)

\* The job of an operation that begins, and the one that is none.
LEMMA NoJobTyped == NoJob \in Job /\ NoRoutes \in Config
  BY DEF NoJob, Job, NoRoutes, Config, Statuses

\* What is left is to look at a itself.
LEMMA CalmStep ==
  ASSUME RoutesInv, NEW a \in Apps, Calm(a), Within(a), TypeOK', Placed', Ops(a)',
         Reachable(a)'
  PROVE  RoutesInv'
<1>1. /\ Records' /\ NamesKept
      /\ Holds(a)' /\ Vacant(a)' /\ Restoring(a)' /\ Tracked(a)'
  BY CalmKeeps
<1>2. Own(a)'
  BY <1>1 DEF Own
<1>. QED  BY <1>1, <1>2, StepKeeps

\* Nothing is required of an app that does not rest and is not being deployed.
LEMMA NothingRequired ==
  ASSUME NEW a \in Apps, ~Resting(a)', ~Deploying(a)'
  PROVE  Reachable(a)'
  BY DEF Reachable, PointedInv, ServedInv, KeptInv

\* An operation begins or ends: no configuration changes, and nothing is required
\* of the app.
LEMMA BeginOrEnd ==
  ASSUME RoutesInv, NEW a \in Apps, Calm(a), TypeOK', UNCHANGED caddy,
         job'[a].cfg = NoRoutes, Ops(a)', ~Resting(a)', ~Deploying(a)'
  PROVE  RoutesInv'
<1>1. Within(a)
  BY CalmWithin DEF caddy
<1>2. Placed'
  <2>1. \A b \in Apps : job'[b].cfg \in {job[b].cfg, NoRoutes}
    BY DEF Calm
  <2>. QED  BY <2>1, PlacedKept DEF RoutesInv, caddy
<1>. QED  BY <1>1, <1>2, NothingRequired, CalmStep

\* A deployment that fails early has touched no route and no record.
LEMMA DeployFailsKeeps ==
  ASSUME RoutesInv, NEW a \in Apps, DeployFails(a)
  PROVE  RoutesInv'
<1>. USE DEF DeployFails, Fault, Return, Goto, Set, flare, past
<1>1. TypeOK /\ Ops(a)
  BY DEF RoutesInv, Own
<1>2. TypeOK'
  BY <1>1, NoJobTyped DEF TypeOK, PCs, Statuses, caddy
<1>3. /\ pc'[a] = "idle" /\ job'[a] = NoJob /\ status'[a] = "failed"
      /\ last'[a] = "failed" /\ home'[a] = home[a] /\ routes'[a] = routes[a]
  BY <1>1 DEF TypeOK
<1>4. Calm(a)
  BY <1>1, <1>3 DEF Calm, TypeOK, Pending, Known, NoJob
<1>5. job[a].op = "deploy"
  BY <1>1 DEF Ops, DeployPCs
<1>6. Ops(a)'
  BY <1>1, <1>3, <1>5 DEF Ops, NoJob, DeployPCs
<1>7. ~Resting(a)' /\ ~Deploying(a)' /\ job'[a].cfg = NoRoutes
  BY <1>3 DEF Resting, Deploying, NoJob
<1>. QED  BY <1>2, <1>4, <1>6, <1>7, BeginOrEnd

\* The edit names the server and the domains that the deployment is about.
LEMMA EditKeeps ==
  ASSUME RoutesInv, NEW a \in Apps, NEW ds \in SUBSET May[a], NEW p \in BOOLEAN,
         NEW w \in servers, pc[a] = "idle", Requested, Edit(a, ds, p, w)
  PROVE  RoutesInv'
<1>. USE DEF Edit, Goto, Set, flare, Requested
<1>1. TypeOK /\ Ops(a) /\ ds \subseteq Domains /\ w \in Workers
  BY RoutesAssumption DEF RoutesInv, Own, TypeOK
<1>. DEFINE j == [NoJob EXCEPT !.op = "deploy", !.worker = w,
                    !.old = IF home[a] = w THEN None ELSE home[a],
                    !.removed = routes[a] \ ds]
<1>2. /\ j.op = "deploy" /\ j.worker = w /\ j.old # w /\ j.removed = routes[a] \ ds
      /\ j.todo = {} /\ j.id = 0 /\ j.cfg = NoRoutes
  BY <1>1, RoutesAssumption DEF NoJob
<1>3. j \in Job
  BY <1>1, NoJobTyped DEF Job, TypeOK
<1>4. job' = [job EXCEPT ![a] = j]
  OBVIOUS
<1>. HIDE DEF j
<1>5. /\ pc'[a] = "remove" /\ job'[a] = j /\ status'[a] = "deploying"
      /\ home'[a] = w /\ routes'[a] = ds /\ pc[a] = "idle"
  BY <1>1, <1>4 DEF TypeOK
<1>6. TypeOK'
  <2>1. job' \in [Apps -> Job]
    BY <1>1, <1>3, <1>4 DEF TypeOK
  <2>2. /\ status' \in [Apps -> Statuses] /\ primary' \in [Apps -> BOOLEAN]
        /\ home' \in [Apps -> Workers \cup {None}]
        /\ routes' \in [Apps -> SUBSET Domains]
        /\ mishap' \in [Apps -> SUBSET Mishaps] /\ pc' \in [Apps -> PCs]
        /\ requests' \in Nat
    BY <1>1 DEF TypeOK, PCs, Statuses
  <2>. QED  BY <1>1, <2>1, <2>2 DEF TypeOK, caddy
<1>7. Calm(a)
  BY <1>1, <1>2, <1>4, <1>5 DEF Calm, TypeOK, Pending, Known
<1>8. Ops(a)'
  BY <1>1, <1>2, <1>5 DEF Ops, DeployPCs
<1>9. ~Resting(a)' /\ ~Deploying(a)'
  BY <1>2, <1>5 DEF Resting, Deploying
<1>. QED  BY <1>2, <1>5, <1>6, <1>7, <1>8, <1>9, BeginOrEnd

\* Until the files are there the row names the old server.
LEMMA MoveKeeps ==
  ASSUME RoutesInv, NEW a \in Apps, NEW ds \in SUBSET May[a], NEW p \in BOOLEAN,
         NEW w \in servers, pc[a] = "idle", Requested, Move(a, ds, p, w)
  PROVE  RoutesInv'
<1>. USE DEF Move, Goto, Set, flare, Requested
<1>1. TypeOK /\ Ops(a) /\ ds \subseteq Domains /\ w \in Workers
  BY RoutesAssumption DEF RoutesInv, Own, TypeOK
<1>. DEFINE j == [NoJob EXCEPT !.op = "deploy", !.worker = w, !.old = home[a],
                               !.prev = status[a]]
<1>2. /\ j.op = "deploy" /\ j.worker = w /\ j.old = home[a] /\ j.removed = {}
      /\ j.todo = {} /\ j.id = 0 /\ j.cfg = NoRoutes
  BY DEF NoJob
<1>3. j \in Job
  <2>1. status[a] \in Statuses /\ home[a] \in Workers \cup {None}
    BY <1>1 DEF TypeOK
  <2>. QED  BY <1>1, <2>1, NoJobTyped DEF Job
<1>4. job' = [job EXCEPT ![a] = j]
  OBVIOUS
<1>. HIDE DEF j
<1>5. /\ pc'[a] = "copy" /\ job'[a] = j /\ status'[a] = "deploying"
      /\ home'[a] = home[a] /\ routes'[a] = ds /\ pc[a] = "idle"
  BY <1>1, <1>4 DEF TypeOK
<1>6. TypeOK'
  <2>1. job' \in [Apps -> Job]
    BY <1>1, <1>3, <1>4 DEF TypeOK
  <2>2. /\ status' \in [Apps -> Statuses] /\ primary' \in [Apps -> BOOLEAN]
        /\ routes' \in [Apps -> SUBSET Domains]
        /\ mishap' \in [Apps -> SUBSET Mishaps] /\ pc' \in [Apps -> PCs]
        /\ requests' \in Nat
    BY <1>1 DEF TypeOK, PCs, Statuses
  <2>. QED  BY <1>1, <2>1, <2>2 DEF TypeOK, caddy
<1>7. Calm(a)
  BY <1>1, <1>2, <1>4, <1>5 DEF Calm, TypeOK, Pending, Known
<1>8. Ops(a)'
  BY <1>1, <1>2, <1>5 DEF Ops, DeployPCs
<1>9. ~Resting(a)' /\ ~Deploying(a)'
  BY <1>2, <1>5 DEF Resting, Deploying
<1>. QED  BY <1>2, <1>5, <1>6, <1>7, <1>8, <1>9, BeginOrEnd

\* The row names the new server, or the move has failed.
LEMMA CopyKeeps ==
  ASSUME RoutesInv, NEW a \in Apps, Copy(a)
  PROVE  RoutesInv'
<1>. USE DEF Goto, Set, flare, past
<1>1. TypeOK /\ Ops(a) /\ job[a] \in Job /\ Placed
  BY DEF RoutesInv, Own, TypeOK
<1>2. /\ pc[a] = "copy" /\ job[a].op = "deploy" /\ job[a].worker \in Workers
      /\ job[a].worker # home[a] /\ job[a].old = home[a] /\ home[a] \in Workers
      /\ job[a].prev \in Statuses
      /\ UNCHANGED <<cf, servers, primary, routes, rows, caddy, flare, past, requests>>
  BY <1>1, JobFields DEF Ops, DeployPCs, Copy
<1>3. CASE /\ home' = [home EXCEPT ![a] = job[a].worker]
           /\ Goto(a, "remove")
           /\ UNCHANGED <<status, last, job, faults>>
  <2>1. /\ pc'[a] = "remove" /\ job'[a] = job[a] /\ home'[a] = job[a].worker
        /\ routes'[a] = routes[a] /\ status'[a] = status[a] /\ last'[a] = last[a]
    BY <1>1, <1>2, <1>3 DEF TypeOK
  <2>2. TypeOK'
    BY <1>1, <1>2, <1>3 DEF TypeOK, PCs, caddy
  <2>3. Calm(a)
    BY <1>1, <1>2, <1>3, <2>1 DEF Calm, TypeOK, Pending, Known
  <2>4. Ops(a)'
    BY <1>1, <1>2, <2>1 DEF Ops, DeployPCs
  <2>5. ~Resting(a)' /\ ~Deploying(a)'
    BY <1>2, <2>1 DEF Resting, Deploying
  <2>6. Within(a)
    BY <1>2, <2>3, CalmWithin DEF caddy
  <2>7. Placed'
    BY <1>1, <1>2, <1>3, PlacedKept DEF caddy
  <2>. QED  BY <2>2, <2>3, <2>4, <2>5, <2>6, <2>7, NothingRequired, CalmStep
<1>4. CASE /\ Fault("copy")
           /\ status' = [status EXCEPT ![a] = job[a].prev]
           /\ last' = [last EXCEPT ![a] = "failed"]
           /\ Return(a)
           /\ UNCHANGED home
  <2>. USE DEF Return, Fault
  <2>1. /\ pc'[a] = "idle" /\ job'[a] = NoJob /\ home'[a] = home[a]
        /\ routes'[a] = routes[a] /\ last'[a] = "failed"
    BY <1>1, <1>2, <1>4 DEF TypeOK
  <2>2. TypeOK'
    <3>1. status' \in [Apps -> Statuses] /\ faults' \in Nat
      BY <1>1, <1>2, <1>4 DEF TypeOK
    <3>. QED  BY <1>1, <1>2, <1>4, <3>1, NoJobTyped DEF TypeOK, PCs, caddy
  <2>3. Calm(a)
    BY <1>1, <1>2, <1>4, <2>1 DEF Calm, TypeOK, Pending, Known, NoJob
  <2>4. Ops(a)'
    BY <1>1, <1>2, <2>1 DEF Ops, DeployPCs, NoJob
  <2>5. ~Resting(a)' /\ ~Deploying(a)' /\ job'[a].cfg = NoRoutes
    BY <2>1 DEF Resting, Deploying, NoJob
  <2>. QED  BY <1>2, <2>2, <2>3, <2>4, <2>5, BeginOrEnd
<1>. QED  BY <1>3, <1>4 DEF Copy

\* Stop and Start change nothing that is required of an app at rest.
LEMMA StopStartKeeps ==
  ASSUME RoutesInv, NEW a \in Apps, NEW to \in {"running", "stopped"},
         StopStart(a, to)
  PROVE  RoutesInv'
<1>. USE DEF StopStart, flare, past, Requested
<1>1. TypeOK /\ Ops(a) /\ Reachable(a) /\ Placed
  BY DEF RoutesInv, Own
<1>2. /\ pc[a] = "idle" /\ pc'[a] = "idle" /\ job'[a] = job[a] /\ job[a] = NoJob
      /\ UNCHANGED <<last, primary, home, routes, caddy, dns, mishap, job>>
  BY <1>1 DEF Ops
<1>3. TypeOK'
  BY <1>1 DEF TypeOK, caddy, Statuses
<1>4. Calm(a)
  BY <1>1, <1>2 DEF Calm, TypeOK, Pending, Known
<1>5. Within(a)
  BY <1>2, <1>4, CalmWithin DEF caddy
<1>6. Placed'
  BY <1>1, <1>2, PlacedKept DEF caddy
<1>7. Ops(a)'
  BY <1>1, <1>2 DEF Ops, DeployPCs
<1>8. ~Deploying(a)' /\ (Resting(a)' <=> Resting(a))
  BY <1>2 DEF Deploying, Resting, NoJob
<1>9. Reachable(a)'
  BY <1>1, <1>2, <1>8
     DEF Reachable, PointedInv, ServedInv, KeptInv, Ours, Pointed, Served, Kept, caddy
<1>. QED  BY <1>3, <1>4, <1>5, <1>6, <1>7, <1>9, CalmStep

\* The undeployment is about the server of the row.
LEMMA UndeployKeeps ==
  ASSUME RoutesInv, NEW a \in Apps, Undeploy(a)
  PROVE  RoutesInv'
<1>. USE DEF Undeploy, Goto, Set, db, app, flare, past
<1>1. TypeOK /\ Ops(a)
  BY DEF RoutesInv, Own
<1>. DEFINE j == [NoJob EXCEPT !.op = "undeploy", !.worker = home[a]]
<1>2. /\ j.op = "undeploy" /\ j.worker = home[a] /\ j.removed = {}
      /\ j.todo = {} /\ j.id = 0 /\ j.cfg = NoRoutes
  BY DEF NoJob
<1>3. j \in Job
  BY <1>1, NoJobTyped DEF Job, TypeOK
<1>4. job' = [job EXCEPT ![a] = j]
  OBVIOUS
<1>. HIDE DEF j
<1>5. pc'[a] = "takeDown" /\ job'[a] = j /\ pc[a] = "idle"
  BY <1>1, <1>4 DEF TypeOK
<1>6. TypeOK'
  BY <1>1, <1>3, <1>4 DEF TypeOK, PCs, caddy, bound
<1>7. Calm(a)
  BY <1>1, <1>2, <1>4, <1>5 DEF Calm, TypeOK, Pending, Known
<1>8. Ops(a)'
  BY <1>1, <1>2, <1>5 DEF Ops, DeployPCs
<1>9. ~Resting(a)' /\ ~Deploying(a)'
  BY <1>2, <1>5 DEF Resting, Deploying
<1>. QED  BY <1>2, <1>5, <1>6, <1>7, <1>8, <1>9, BeginOrEnd

\* What is removed from a configuration, and what is added.
LEMMA WithoutDoes ==
  ASSUME NEW c \in Config, NEW ds \in SUBSET Domains
  PROVE  /\ Without(c, ds) \in Config
         /\ Rightful(c) => Rightful(Without(c, ds))
         /\ \A a \in Apps, d \in Apart :
              ds \subseteq May[a] /\ d \notin ds => Without(c, ds)[d] = c[d]
<1>1. Without(c, ds) \in Config
  BY DEF Without, Config
<1>2. Rightful(c) => Rightful(Without(c, ds))
  BY DEF Without, Rightful
<1>3. ASSUME NEW a \in Apps, NEW d \in Apart, ds \subseteq May[a], d \notin ds
      PROVE  Without(c, ds)[d] = c[d]
  BY <1>3, ApartIsOne DEF Without
<1>. QED  BY <1>1, <1>2, <1>3

\* A route that is posted replaces those with its identifier.
LEMMA WithDoes ==
  ASSUME NEW c \in Config, NEW a \in Apps, NEW d \in May[a]
  PROVE  /\ With(c, d, a) \in Config /\ With(c, d, a)[d] = a
         /\ Rightful(c) => Rightful(With(c, d, a))
         /\ \A e \in Apart : e # d => With(c, d, a)[e] = c[e]
<1>1. d \in Domains /\ {d} \in SUBSET Domains /\ {d} \subseteq May[a]
  BY RoutesAssumption
<1>. DEFINE b == Without(c, {d})
<1>2. /\ b \in Config
      /\ Rightful(c) => Rightful(b)
      /\ \A e \in Apart : e # d => b[e] = c[e]
  BY <1>1, WithoutDoes
<1>3. With(c, d, a) = [b EXCEPT ![d] = a]
  BY DEF With
<1>. HIDE DEF b
<1>4. With(c, d, a) \in Config /\ With(c, d, a)[d] = a
  BY <1>1, <1>2, <1>3 DEF Config
<1>5. \A e \in Domains \ {d} : With(c, d, a)[e] = b[e]
  BY <1>2, <1>3 DEF Config
<1>6. Rightful(c) => Rightful(With(c, d, a))
  BY <1>2, <1>4, <1>5 DEF Rightful
<1>7. \A e \in Apart : e # d => With(c, d, a)[e] = c[e]
  BY <1>2, <1>5, ApartIsOne
<1>. QED  BY <1>4, <1>6, <1>7

\* What requests to the Caddy of w by an operation of a leave.
Touches(a, w) ==
  /\ running' \in [Workers -> Config]
  /\ \A v \in Workers : Rightful(running[v]) => Rightful(running'[v])
  /\ \A v \in Workers \ {w} : running'[v] = running[v]
  /\ \A v \in Workers, d \in Apart \ May[a] : running'[v][d] = running[v][d]

\* Requests to remove routes of a: at most these routes go, on this worker.
LEMMA RemoveRoutesDo ==
  ASSUME TypeOK, NEW a \in Apps, NEW w \in Workers, NEW ds \in SUBSET May[a],
         RemoveRoutes(w, ds)
  PROVE  Touches(a, w) /\ faults' \in Nat
<1>1. PICK kept \in SUBSET ds :
        /\ IF kept = {} THEN UNCHANGED faults ELSE Fault("caddy")
        /\ running' = [running EXCEPT ![w] = Without(@, ds \ kept)]
  BY DEF RemoveRoutes
<1>2. faults' \in Nat
  BY <1>1 DEF TypeOK, Fault
<1>. DEFINE c == Without(running[w], ds \ kept)
<1>3. running[w] \in Config /\ ds \ kept \in SUBSET Domains
  BY RoutesAssumption DEF TypeOK
<1>4. /\ c \in Config
      /\ Rightful(running[w]) => Rightful(c)
      /\ \A d \in Apart \ May[a] : c[d] = running[w][d]
  BY <1>3, WithoutDoes
<1>5. running' = [running EXCEPT ![w] = c]
  BY <1>1
<1>. HIDE DEF c
<1>6. running \in [Workers -> Config]
  BY DEF TypeOK
<1>7. running' \in [Workers -> Config]
  BY <1>4, <1>5, <1>6
<1>8. \A v \in Workers : running'[v] = IF v = w THEN c ELSE running[v]
  BY <1>5, <1>6
<1>. QED  BY <1>2, <1>4, <1>7, <1>8 DEF Touches

\* A calm step at one Caddy, by an operation with no other configuration in hand.
LEMMA TouchesKeeps ==
  ASSUME RoutesInv, NEW a \in Apps, NEW w \in Workers, Calm(a), Touches(a, w),
         UNCHANGED saved, job'[a].cfg \in {job[a].cfg, NoRoutes}
  PROVE  Within(a) /\ Placed'
<1>1. Within(a)
  BY CalmWithin DEF Touches
<1>2. Rightful(NoRoutes)
  BY DEF Rightful, NoRoutes
<1>3. \A b \in Apps : job'[b].cfg \in {job[b].cfg, NoRoutes}
  BY DEF Calm
<1>4. Placed'
  BY <1>2, <1>3 DEF Placed, RoutesInv, Touches
<1>. QED  BY <1>1, <1>4

\* Every domain of the app is still to do.
LEMMA RemoveOldKeeps ==
  ASSUME RoutesInv, NEW a \in Apps, RemoveOld(a)
  PROVE  RoutesInv'
<1>. USE DEF RemoveOld, NextDomain, Goto, Set, db, app, flare, past
<1>1. TypeOK /\ Ops(a) /\ job[a] \in Job
  BY DEF RoutesInv, Own, TypeOK
<1>2. /\ job[a].op = "deploy" /\ job[a].worker \in Workers
      /\ routes[a] \subseteq May[a] /\ job[a].removed \subseteq May[a]
  BY <1>1 DEF Ops, DeployPCs
<1>. DEFINE j == [job[a] EXCEPT !.removed = {},
                                !.todo = IF primary[a] THEN routes[a] ELSE {}]
<1>3. /\ j.op = "deploy" /\ j.worker = job[a].worker /\ j.removed = {}
      /\ j.todo \subseteq routes[a] /\ (primary[a] => j.todo = routes[a])
      /\ j.id = job[a].id /\ j.old = job[a].old /\ j.cfg = job[a].cfg /\ j \in Job
  BY <1>1, <1>2 DEF Job, TypeOK
<1>4. job' = [job EXCEPT ![a] = j]
  OBVIOUS
<1>. HIDE DEF j
<1>5. pc'[a] = "next" /\ job'[a] = j
  BY <1>1, <1>4 DEF TypeOK
<1>6. Touches(a, job[a].worker) /\ faults' \in Nat
  BY <1>1, <1>2, RemoveRoutesDo
<1>7. TypeOK'
  BY <1>1, <1>2, <1>3, <1>4, <1>6 DEF TypeOK, PCs, Touches
<1>8. Calm(a)
  BY <1>1, <1>3, <1>4, <1>5 DEF Calm, TypeOK, Pending, Known
<1>9. Within(a) /\ Placed'
  BY <1>2, <1>3, <1>5, <1>6, <1>8, TouchesKeeps
<1>10. Ops(a)'
  BY <1>1, <1>2, <1>3, <1>5 DEF Ops, DeployPCs
<1>11. ~Resting(a)' /\ (Deploying(a)' => Ours(a)' \subseteq job'[a].todo)
  BY <1>3, <1>5 DEF Resting, Deploying, Ours
<1>12. Reachable(a)'
  BY <1>11 DEF Reachable, PointedInv, ServedInv, KeptInv
<1>. QED  BY <1>7, <1>8, <1>9, <1>10, <1>12, CalmStep

\* The next domain is at hand, and not yet served.
LEMMA SetupDomainKeeps ==
  ASSUME RoutesInv, NEW a \in Apps, SetupDomain(a)
  PROVE  RoutesInv'
<1>. USE DEF Goto, Set, db, app, caddy, flare, past, bound
<1>1. TypeOK /\ Ops(a) /\ job[a] \in Job /\ Reachable(a) /\ Placed
  BY DEF RoutesInv, Own, TypeOK
<1>2. /\ pc[a] = "next" /\ job[a].op = "deploy" /\ job[a].worker \in Workers
      /\ UNCHANGED <<cf, db, caddy, flare, past, bound>>
  BY <1>1 DEF Ops, DeployPCs, SetupDomain
<1>3. /\ pc'[a] \in {"finish", "unroute"} /\ pc' = [pc EXCEPT ![a] = pc'[a]]
      /\ job' = [job EXCEPT ![a] = job'[a]] /\ job'[a] \in Job
      /\ job'[a].op = "deploy" /\ job'[a].worker = job[a].worker
      /\ job'[a].id = job[a].id /\ job'[a].old = job[a].old
      /\ job'[a].failed = job[a].failed /\ job'[a].removed = job[a].removed
      /\ job'[a].todo \subseteq job[a].todo /\ job'[a].cfg = job[a].cfg
      /\ pc'[a] = "finish" => job[a].todo = {}
      /\ pc'[a] = "unroute" => /\ job'[a].domain \in job[a].todo
                               /\ job'[a].todo = job[a].todo \ {job'[a].domain}
  <2>1. CASE job[a].todo = {} /\ Goto(a, "finish") /\ UNCHANGED job
    BY <1>1, <1>2, <2>1 DEF TypeOK
  <2>2. CASE \E d \in job[a].todo :
               /\ Set(a, [job[a] EXCEPT !.todo = @ \ {d}, !.domain = d])
               /\ Goto(a, "unroute")
    <3>1. PICK d \in job[a].todo :
            /\ Set(a, [job[a] EXCEPT !.todo = @ \ {d}, !.domain = d])
            /\ Goto(a, "unroute")
      BY <2>2
    <3>. DEFINE j == [job[a] EXCEPT !.todo = @ \ {d}, !.domain = d]
    <3>2. /\ j.op = job[a].op /\ j.worker = job[a].worker /\ j.id = job[a].id
          /\ j.old = job[a].old /\ j.failed = job[a].failed
          /\ j.removed = job[a].removed /\ j.domain = d /\ j.cfg = job[a].cfg
          /\ j.todo = job[a].todo \ {d} /\ j \in Job
      BY <1>1 DEF Job
    <3>3. job' = [job EXCEPT ![a] = j]
      BY <3>1
    <3>. HIDE DEF j
    <3>. QED  BY <1>1, <1>2, <3>1, <3>2, <3>3 DEF TypeOK
  <2>. QED  BY <2>1, <2>2 DEF SetupDomain
<1>4. TypeOK'
  BY <1>1, <1>2, <1>3 DEF TypeOK, PCs
<1>5. Calm(a)
  BY <1>1, <1>2, <1>3 DEF Calm, TypeOK, Pending, Known
<1>6. Within(a)
  BY <1>2, <1>5, CalmWithin
<1>7. Placed'
  <2>1. \A b \in Apps : job'[b].cfg \in {job[b].cfg, NoRoutes}
    BY <1>3, <1>5 DEF Calm
  <2>. QED  BY <1>1, <1>2, <2>1, PlacedKept
<1>8. Ops(a)'
  BY <1>1, <1>2, <1>3 DEF Ops, DeployPCs
<1>9. ~Resting(a)' /\ Deploying(a)' = Deploying(a) /\ Ours(a)' = Ours(a)
  BY <1>2, <1>3 DEF Resting, Deploying, Ours
<1>10. PointedInv(a)'
  BY <1>1, <1>2, <1>3, <1>9
     DEF Reachable, PointedInv, Pointed, Unpointed
<1>11. ServedInv(a)'
  BY <1>1, <1>2, <1>3, <1>9
     DEF Reachable, ServedInv, Served, Unserved
<1>12. KeptInv(a)'
  BY <1>1, <1>2, <1>3, <1>9
     DEF Reachable, KeptInv, Served, Kept, OnItsWay, Unserved
<1>. QED  BY <1>4, <1>5, <1>6, <1>7, <1>8, <1>10, <1>11, <1>12, CalmStep
             DEF Reachable

\* Of the domains that are apart, only the route of the one at hand goes.
LEMMA UnrouteKeeps ==
  ASSUME RoutesInv, NEW a \in Apps, Unroute(a)
  PROVE  RoutesInv'
<1>. USE DEF Unroute, Goto, db, app, flare, past
<1>1. TypeOK /\ Ops(a) /\ job[a] \in Job /\ Reachable(a)
  BY DEF RoutesInv, Own, TypeOK
<1>2. /\ job[a].op = "deploy" /\ job[a].worker \in Workers
      /\ job[a].worker = home[a] /\ job[a].domain \in May[a]
      /\ {job[a].domain} \in SUBSET Domains /\ routes[a] \subseteq May[a]
  BY <1>1, RoutesAssumption DEF Ops, DeployPCs
<1>. DEFINE c == Without(running[job[a].worker], {job[a].domain})
<1>3. /\ c \in Config
      /\ Rightful(running[job[a].worker]) => Rightful(c)
      /\ \A d \in Apart : d # job[a].domain => c[d] = running[job[a].worker][d]
  <2>1. running[job[a].worker] \in Config
    BY <1>1, <1>2 DEF TypeOK
  <2>. QED  BY <1>2, <2>1, WithoutDoes
<1>4. \/ running' = [running EXCEPT ![job[a].worker] = c]
      \/ running' = running
  OBVIOUS
<1>. HIDE DEF c
<1>5. /\ Touches(a, job[a].worker)
      /\ \A d \in Apart : d # job[a].domain =>
           running'[home[a]][d] = running[home[a]][d]
  BY <1>1, <1>2, <1>3, <1>4 DEF TypeOK, Touches
<1>6. pc'[a] = "post" /\ faults' \in Nat
  BY <1>1 DEF TypeOK, Fault
<1>7. TypeOK'
  BY <1>1, <1>5, <1>6 DEF TypeOK, PCs, Touches
<1>8. Calm(a)
  BY <1>1, <1>6 DEF Calm, TypeOK, Pending, Known
<1>9. Within(a) /\ Placed'
  BY <1>2, <1>5, <1>8, TouchesKeeps
<1>10. Ops(a)'
  BY <1>1, <1>2, <1>6 DEF Ops, DeployPCs
<1>11. ~Resting(a)' /\ Deploying(a)' = Deploying(a) /\ Ours(a)' = Ours(a)
  BY <1>2, <1>6 DEF Resting, Deploying, Ours
<1>12. PointedInv(a)'
  BY <1>1, <1>6, <1>11 DEF Reachable, PointedInv, Pointed, Unpointed
<1>13. \A d \in Ours(a) : d # job[a].domain /\ Served(a, d) => Served(a, d)'
  BY <1>5 DEF Served, Ours
<1>14. ServedInv(a)'
  BY <1>1, <1>6, <1>11, <1>13 DEF Reachable, ServedInv, Unserved
<1>15. KeptInv(a)'
  BY <1>1, <1>6, <1>11, <1>13 DEF Reachable, KeptInv, Unserved, Kept, OnItsWay
<1>. QED  BY <1>7, <1>8, <1>9, <1>10, <1>12, <1>14, <1>15, CalmStep DEF Reachable

\* The route is posted, or there was one with its identifier: for a domain that is
\* apart, its own.  When the answer is lost the deployment has failed.
LEMMA PostRouteKeeps ==
  ASSUME RoutesInv, NEW a \in Apps, PostRoute(a)
  PROVE  RoutesInv'
<1>. USE DEF Goto, Set, NextDomain, db, app, flare, past
<1>1. TypeOK /\ Ops(a) /\ job[a] \in Job /\ Reachable(a) /\ Placed
  BY DEF RoutesInv, Own, TypeOK
<1>2. /\ pc[a] = "post"
      /\ UNCHANGED <<cf, db, saved, flare, past, requests>>
      /\ job[a].op = "deploy" /\ job[a].worker \in Workers
      /\ job[a].worker = home[a] /\ job[a].domain \in May[a]
      /\ job[a].domain \in Domains /\ running[job[a].worker] \in Config
  BY <1>1, RoutesAssumption DEF Ops, DeployPCs, PostRoute, TypeOK
<1>. DEFINE c      == With(running[job[a].worker], job[a].domain, a)
            posted == [running EXCEPT ![job[a].worker] = c]
            found  == Without(running[job[a].worker], {job[a].domain})
                        # running[job[a].worker]
            lost   == [job[a] EXCEPT !.failed = TRUE]
<1>3. /\ c \in Config /\ c[job[a].domain] = a
      /\ Rightful(running[job[a].worker]) => Rightful(c)
      /\ \A d \in Apart : d # job[a].domain => c[d] = running[job[a].worker][d]
  BY <1>2, WithDoes
<1>4. /\ lost \in Job /\ lost.failed /\ lost.op = "deploy" /\ lost.id = job[a].id
      /\ lost.worker = job[a].worker /\ lost.old = job[a].old /\ lost.cfg = job[a].cfg
      /\ lost.todo = job[a].todo /\ lost.removed = job[a].removed
  BY <1>1, <1>2 DEF Job
<1>5. ASSUME found, job[a].domain \in Apart
      PROVE  running[job[a].worker][job[a].domain] = a
  <2>1. PICK e \in Domains : /\ Id[e] = Id[job[a].domain]
                             /\ running[job[a].worker][e] # None
    BY <1>2, <1>5 DEF Without, Config
  <2>2. running[job[a].worker][e] \in Apps /\ e \in May[running[job[a].worker][e]]
    BY <1>1, <1>2, <2>1 DEF Placed, Rightful, Config
  <2>3. e = job[a].domain
    BY <1>5, <2>1, <2>2, ApartIsOne
  <2>. QED  BY <1>2, <1>5, <2>2, <2>3, ApartIsOne
<1>6. /\ faults' \in Nat
      /\ \/ /\ running' = posted \/ (running' = running /\ found)
            /\ job' = job /\ pc' = [pc EXCEPT ![a] = "fetch"]
         \/ /\ running' = posted \/ running' = running
            /\ job' = [job EXCEPT ![a] = lost]
            /\ pc' = [pc EXCEPT ![a] = "next"]
  BY <1>1 DEF PostRoute, AfterRoute, Fault, TypeOK
<1>. HIDE DEF c, lost, found
<1>7. running' = posted \/ running' = running
  BY <1>6
<1>8. /\ Touches(a, job[a].worker)
      /\ \A d \in Apart : d # job[a].domain =>
           running'[home[a]][d] = running[home[a]][d]
  BY <1>1, <1>2, <1>3, <1>7 DEF TypeOK, Touches
<1>9. TypeOK'
  BY <1>1, <1>2, <1>4, <1>6, <1>8 DEF TypeOK, PCs, Touches
<1>10. Calm(a)
  BY <1>1, <1>2, <1>4, <1>6 DEF Calm, TypeOK, Pending, Known
<1>11. job'[a].cfg = job[a].cfg
  BY <1>1, <1>4, <1>6 DEF TypeOK
<1>12. Within(a) /\ Placed'
  BY <1>2, <1>8, <1>10, <1>11, TouchesKeeps
<1>13. CASE /\ running' = posted \/ (running' = running /\ found)
            /\ job' = job /\ pc' = [pc EXCEPT ![a] = "fetch"]
  <2>1. pc'[a] = "fetch"
    BY <1>1, <1>13 DEF TypeOK
  <2>2. Ops(a)'
    BY <1>1, <1>2, <1>13, <2>1 DEF Ops, DeployPCs
  <2>3. ~Resting(a)' /\ Deploying(a)' = Deploying(a) /\ Ours(a)' = Ours(a)
    BY <1>2, <1>13, <2>1 DEF Resting, Deploying, Ours
  <2>4. PointedInv(a)'
    BY <1>1, <1>2, <1>13, <2>1, <2>3 DEF Reachable, PointedInv, Pointed, Unpointed
  <2>5. job[a].domain \in Apart => running'[home[a]][job[a].domain] = a
    BY <1>1, <1>2, <1>3, <1>5, <1>13 DEF TypeOK
  <2>6. \A d \in Ours(a) : d = job[a].domain \/ Served(a, d) => Served(a, d)'
    BY <1>2, <1>8, <2>5 DEF Served, Ours
  <2>7. ServedInv(a)'
    BY <1>1, <1>2, <1>13, <2>3, <2>6 DEF Reachable, ServedInv
  <2>8. KeptInv(a)'
    BY <1>1, <1>2, <1>13, <2>1, <2>3, <2>6
       DEF Reachable, KeptInv, Kept, OnItsWay
  <2>. QED  BY <1>9, <1>10, <1>12, <2>2, <2>4, <2>7, <2>8, CalmStep DEF Reachable
<1>14. CASE job' = [job EXCEPT ![a] = lost] /\ pc' = [pc EXCEPT ![a] = "next"]
  <2>1. pc'[a] = "next" /\ job'[a] = lost
    BY <1>1, <1>14 DEF TypeOK
  <2>2. Ops(a)'
    BY <1>1, <1>2, <1>4, <2>1 DEF Ops, DeployPCs
  <2>3. ~Resting(a)' /\ ~Deploying(a)'
    BY <1>4, <2>1 DEF Resting, Deploying
  <2>. QED  BY <1>9, <1>10, <1>12, <2>2, <2>3, NothingRequired, CalmStep
<1>. QED  BY <1>6, <1>13, <1>14

\* Where an operation goes on after SaveConfig, and with what.
LEMMA SavedDoes ==
  ASSUME TypeOK, NEW a \in Apps, job[a].op # "none", Saved(a)
  PROVE  /\ pc' = [pc EXCEPT ![a] = pc'[a]] /\ job' = [job EXCEPT ![a] = job'[a]]
         /\ job'[a] \in Job /\ pc'[a] \in {"list", "idle", "deleteDNS"}
         /\ job'[a].cfg = NoRoutes
         /\ job[a].op = "deploy" => pc'[a] = "list"
         /\ job[a].op = "cleanup" => pc'[a] = "idle" /\ job'[a] = NoJob
         /\ job[a].op = "undeploy" => pc'[a] = "deleteDNS"
         /\ job[a].op # "cleanup" =>
              /\ job'[a].op = job[a].op /\ job'[a].worker = job[a].worker
              /\ job'[a].old = job[a].old /\ job'[a].todo = job[a].todo
              /\ job'[a].removed = job[a].removed
              /\ job'[a].domain = job[a].domain /\ job'[a].id = job[a].id
              /\ job'[a].failed = job[a].failed
         /\ job'[a].id \in {0, job[a].id}
<1>1. job[a] \in Job /\ job[a].op \in {"deploy", "cleanup", "undeploy"}
  BY JobFields DEF TypeOK
<1>. DEFINE j == [job[a] EXCEPT !.cfg = NoRoutes]
<1>2. /\ j \in Job /\ j.op = job[a].op /\ j.worker = job[a].worker
      /\ j.old = job[a].old /\ j.todo = job[a].todo /\ j.removed = job[a].removed
      /\ j.domain = job[a].domain /\ j.id = job[a].id /\ j.failed = job[a].failed
      /\ j.cfg = NoRoutes
  BY <1>1, NoJobTyped DEF Job
<1>3. job' = [job EXCEPT ![a] = IF job[a].op = "cleanup" THEN NoJob ELSE j]
  BY DEF Saved, Set
<1>. HIDE DEF j
<1>4. pc' = [pc EXCEPT ![a] = AfterSave(a)]
  BY DEF Saved, Goto
<1>5. /\ job[a].op = "deploy" => AfterSave(a) = "list"
      /\ job[a].op = "cleanup" => AfterSave(a) = "idle"
      /\ job[a].op = "undeploy" => AfterSave(a) = "deleteDNS"
  BY DEF AfterSave
<1>6. NoJob.id = 0 /\ NoJob.cfg = NoRoutes
  BY DEF NoJob
<1>. QED  BY <1>1, <1>2, <1>3, <1>4, <1>5, <1>6, NoJobTyped DEF TypeOK

\* After SaveConfig: a route of a that runs and was in the file is still there, and
\* so is the one that a's deployment had fetched, or it is a mishap.
LEMMA SavedKeeps ==
  ASSUME RoutesInv, NEW a \in Apps, Saved(a), TypeOK', Placed', Within(a),
         pc[a] \in {"fetch", "write", "takeDown"},
         UNCHANGED <<db, flare, spoiled>>,
         mishap[a] \subseteq mishap'[a],
         \A d \in Ours(a) : Resting(a) \/ Deploying(a) =>
            running'[home[a]][d] = running[home[a]][d],
         SavedStay(a),
         job[a].op = "deploy" =>
           \/ "save" \in mishap'[a]
           \/ pc[a] = "write" /\ \A d \in Domains :
                                   saved'[home[a]][d] = job[a].cfg[d]
  PROVE  RoutesInv'
<1>. USE DEF db, app, flare
<1>1. TypeOK /\ Ops(a) /\ job[a] \in Job /\ Reachable(a)
  BY DEF RoutesInv, Own, TypeOK
<1>2. /\ job[a].op \in {"deploy", "cleanup", "undeploy"}
      /\ job[a].worker \in Workers /\ home[a] \in Workers
      /\ Ours(a) \subseteq Apart \cap May[a] /\ Ours(a) \subseteq Domains
  BY <1>1, JobFields, RoutesAssumption DEF Ops, TypeOK, Ours
<1>3. /\ job[a].op = "deploy" => pc'[a] = "list"
      /\ job[a].op = "cleanup" => pc'[a] = "idle" /\ job'[a] = NoJob
      /\ job[a].op = "undeploy" => pc'[a] = "deleteDNS"
      /\ pc'[a] \in {"list", "idle", "deleteDNS"} /\ job'[a].id \in {0, job[a].id}
      /\ job[a].op # "cleanup" =>
           /\ job'[a].op = job[a].op /\ job'[a].worker = job[a].worker
           /\ job'[a].old = job[a].old /\ job'[a].todo = job[a].todo
           /\ job'[a].removed = job[a].removed /\ job'[a].domain = job[a].domain
           /\ job'[a].failed = job[a].failed
  BY <1>1, <1>2, SavedDoes
<1>4. Calm(a)
  BY <1>3 DEF Calm, Within, Pending, Known
<1>5. Ops(a)'
  <2>1. CASE job[a].op = "cleanup"
    BY <1>1, <1>2, <1>3, <2>1 DEF Ops, NoJob, DeployPCs
  <2>2. CASE job[a].op = "deploy"
    BY <1>1, <1>2, <1>3, <2>2 DEF Ops, DeployPCs
  <2>3. CASE job[a].op = "undeploy"
    BY <1>1, <1>2, <1>3, <2>3 DEF Ops, DeployPCs
  <2>. QED  BY <1>2, <2>1, <2>2, <2>3
<1>6. Resting(a)' => Resting(a)
  BY <1>1, <1>2, <1>3 DEF Resting, Ops
<1>7. Deploying(a)' => Deploying(a) /\ job[a].op = "deploy" /\ pc[a] # "takeDown"
  BY <1>1, <1>2, <1>3 DEF Deploying, Ops, NoJob
<1>8. Ours(a)' = Ours(a) /\ home'[a] = home[a]
  BY DEF Ours
<1>9. PointedInv(a)'
  BY <1>1, <1>3, <1>6, <1>7, <1>8 DEF Reachable, PointedInv, Pointed, Unpointed
<1>10. \A d \in Ours(a) : (Resting(a) \/ Deploying(a)) /\ Served(a, d) =>
         Served(a, d)'
  BY <1>8 DEF Served
<1>11. ServedInv(a)'
  BY <1>1, <1>3, <1>6, <1>7, <1>8, <1>10 DEF Reachable, ServedInv, Unserved
<1>12. ASSUME NEW d \in Ours(a), Kept(a, d), Resting(a) \/ Deploying(a),
              mishap'[a] \cap Loss = {}
       PROVE  Kept(a, d)'
  <2>1. saved'[home[a]][d] = a
    BY <1>2, <1>12 DEF Kept, Served, SavedStay, Loss
  <2>. QED  BY <1>8, <1>10, <1>12, <2>1 DEF Kept
<1>13. ASSUME NEW d \in Ours(a), OnItsWay(a, d), Deploying(a),
              mishap'[a] \cap Loss = {}
       PROVE  Kept(a, d)'
  <2>1. pc[a] = "write" /\ saved'[home[a]][d] = job[a].cfg[d]
    BY <1>2, <1>13 DEF Deploying, Loss
  <2>. QED  BY <1>8, <1>10, <1>13, <2>1 DEF Kept, OnItsWay
<1>14. KeptInv(a)'
  <2>. SUFFICES ASSUME mishap'[a] \cap Loss = {}
                PROVE  /\ Resting(a)' => \A d \in Ours(a) : Kept(a, d)'
                       /\ Deploying(a)' => \A d \in Ours(a) :
                            d \in job'[a].todo \/ Kept(a, d)'
    BY <1>8 DEF KeptInv
  <2>1. mishap[a] \cap Loss = {}
    OBVIOUS
  <2>2. Resting(a)' => \A d \in Ours(a) : Kept(a, d)'
    BY <1>1, <1>6, <1>12, <2>1 DEF Reachable, KeptInv
  <2>3. ASSUME Deploying(a)', NEW d \in Ours(a)
        PROVE  d \in job'[a].todo \/ Kept(a, d)'
    <3>1. Deploying(a) /\ job'[a].todo = job[a].todo /\ pc[a] \notin Unserved
      BY <1>3, <1>7, <2>3 DEF Unserved
    <3>2. d \in job[a].todo \/ OnItsWay(a, d) \/ Kept(a, d)
      BY <1>1, <2>1, <3>1 DEF Reachable, KeptInv
    <3>. QED  BY <1>12, <1>13, <3>1, <3>2
  <2>. QED  BY <2>2, <2>3
<1>. QED  BY <1>4, <1>5, <1>9, <1>11, <1>14, CalmStep DEF Reachable

\* The configuration that was fetched has every route that Caddy has.
LEMMA FetchConfigKeeps ==
  ASSUME RoutesInv, NEW a \in Apps, FetchConfig(a)
  PROVE  RoutesInv'
<1>. USE DEF Goto, Set, db, app, caddy, flare
<1>1. TypeOK /\ Ops(a) /\ job[a] \in Job /\ Reachable(a) /\ Placed
  BY DEF RoutesInv, Own, TypeOK
<1>2. /\ pc[a] = "fetch" /\ UNCHANGED <<cf, db, caddy, flare, spoiled, requests>>
      /\ job[a].op # "none" /\ job[a].worker \in Workers
  BY <1>1, RoutesAssumption DEF Ops, FetchConfig
<1>. DEFINE j == [job[a] EXCEPT !.cfg = running[job[a].worker]]
<1>3. CASE Fault("save") /\ Notes(a, {"save"}) /\ Saved(a)
  <2>1. /\ pc' = [pc EXCEPT ![a] = pc'[a]] /\ job' = [job EXCEPT ![a] = job'[a]]
        /\ job'[a] \in Job /\ pc'[a] \in {"list", "idle", "deleteDNS"}
        /\ job'[a].cfg = NoRoutes
    BY <1>1, <1>2, <1>3, SavedDoes
  <2>2. /\ mishap' \in [Apps -> SUBSET Mishaps] /\ "save" \in mishap'[a]
        /\ \A b \in Apps : mishap[b] \subseteq mishap'[b]
    BY <1>1, <1>3 DEF Notes, TypeOK, Mishaps
  <2>3. TypeOK'
    <3>1. faults' \in Nat
      BY <1>1, <1>3 DEF Fault, TypeOK
    <3>2. pc' \in [Apps -> PCs] /\ job' \in [Apps -> Job]
      BY <1>1, <2>1 DEF TypeOK, PCs
    <3>. QED  BY <1>1, <1>2, <2>2, <3>1, <3>2 DEF TypeOK
  <2>4. /\ \A b \in Apps \ {a} : pc'[b] = pc[b] /\ job'[b] = job[b]
        /\ \A b \in Apps : job'[b].cfg \in {job[b].cfg, NoRoutes}
    BY <1>1, <2>1 DEF TypeOK
  <2>5. Within(a) /\ SavedStay(a)
    BY <1>2, <2>2, <2>4 DEF Within, RowsStay, SavedStay
  <2>6. Placed'
    BY <1>1, <1>2, <2>4, PlacedKept
  <2>. QED  BY <1>2, <1>3, <2>2, <2>3, <2>5, <2>6, SavedKeeps
<1>4. CASE Set(a, j) /\ Goto(a, "write") /\ UNCHANGED <<mishap, faults>>
  <2>1. /\ j \in Job /\ j.op = job[a].op /\ j.worker = job[a].worker
        /\ j.old = job[a].old /\ j.todo = job[a].todo /\ j.removed = job[a].removed
        /\ j.domain = job[a].domain /\ j.id = job[a].id
        /\ j.failed = job[a].failed /\ j.cfg = running[job[a].worker]
    BY <1>1, <1>2 DEF Job, TypeOK
  <2>2. job' = [job EXCEPT ![a] = j] /\ pc' = [pc EXCEPT ![a] = "write"]
    BY <1>4
  <2>. HIDE DEF j
  <2>3. job'[a] = j /\ pc'[a] = "write"
    BY <1>1, <2>2 DEF TypeOK
  <2>4. TypeOK'
    BY <1>1, <1>2, <1>4, <2>1, <2>2 DEF TypeOK, PCs
  <2>5. Calm(a)
    BY <1>1, <1>2, <1>4, <2>1, <2>2, <2>3 DEF Calm, TypeOK, Pending, Known
  <2>6. Within(a)
    BY <1>2, <2>5, CalmWithin
  <2>7. Placed'
    BY <1>1, <1>2, <2>1, <2>3, <2>5 DEF Placed, Calm
  <2>8. Ops(a)'
    BY <1>1, <1>2, <2>1, <2>3 DEF Ops, DeployPCs
  <2>9. /\ Resting(a)' = Resting(a) /\ Deploying(a)' = Deploying(a)
        /\ Ours(a)' = Ours(a)
    BY <1>2, <2>1, <2>3 DEF Resting, Deploying, Ours
  <2>10. PointedInv(a)'
    BY <1>1, <1>2, <1>4, <2>1, <2>3, <2>9
       DEF Reachable, PointedInv, Pointed, Unpointed
  <2>11. ServedInv(a)'
    BY <1>1, <1>2, <1>4, <2>1, <2>3, <2>9 DEF Reachable, ServedInv, Served, Unserved
  <2>12. job[a].op = "deploy" => job[a].worker = home[a]
    BY <1>1, <1>2 DEF Ops
  <2>13. KeptInv(a)'
    BY <1>1, <1>2, <1>4, <2>1, <2>3, <2>9, <2>12
       DEF Reachable, KeptInv, Served, Kept, OnItsWay, Unserved, Deploying
  <2>. QED  BY <2>4, <2>5, <2>6, <2>7, <2>8, <2>10, <2>11, <2>13, CalmStep
               DEF Reachable
<1>. QED  BY <1>3, <1>4 DEF FetchConfig

\* An app whose route goes from the file is noted.
LEMMA WriteConfigKeeps ==
  ASSUME RoutesInv, NEW a \in Apps, WriteConfig(a)
  PROVE  RoutesInv'
<1>. USE DEF db, app, flare
<1>1. TypeOK /\ Ops(a) /\ job[a] \in Job /\ Placed
  BY DEF RoutesInv, Own, TypeOK
<1>2. /\ job[a].op # "none" /\ job[a].worker \in Workers /\ job[a].cfg \in Config
      /\ pc[a] = "write" /\ UNCHANGED <<cf, db, running, flare, spoiled, requests>>
      /\ job[a].op = "deploy" => job[a].worker = home[a]
      /\ Saved(a)
  BY <1>1, JobFields DEF Ops, WriteConfig
<1>3. /\ pc' = [pc EXCEPT ![a] = pc'[a]] /\ job' = [job EXCEPT ![a] = job'[a]]
      /\ job'[a] \in Job /\ pc'[a] \in {"list", "idle", "deleteDNS"}
      /\ job'[a].cfg = NoRoutes
  BY <1>1, <1>2, SavedDoes
<1>4. \/ /\ saved' = [saved EXCEPT ![job[a].worker] = job[a].cfg]
         /\ mishap' = [b \in Apps |-> IF Outdated(b, job[a].worker, job[a].cfg)
                         THEN mishap[b] \cup {"race"} ELSE mishap[b]]
         /\ UNCHANGED faults
      \/ /\ Fault("save")
         /\ saved' = [saved EXCEPT ![job[a].worker] = NoRoutes]
         /\ mishap' = [b \in Apps |-> mishap[b] \cup {"save"}]
  BY DEF WriteConfig
<1>5. /\ mishap' \in [Apps -> SUBSET Mishaps] /\ faults' \in Nat
      /\ \A b \in Apps : mishap[b] \subseteq mishap'[b]
  BY <1>1, <1>4 DEF TypeOK, Mishaps, Fault
<1>6. TypeOK'
  <2>1. saved' \in [Workers -> Config]
    BY <1>1, <1>2, <1>4, NoJobTyped DEF TypeOK
  <2>2. pc' \in [Apps -> PCs] /\ job' \in [Apps -> Job]
    BY <1>1, <1>3 DEF TypeOK, PCs
  <2>. QED  BY <1>1, <1>2, <1>5, <2>1, <2>2 DEF TypeOK
<1>7. \A b \in Apps \ {a} : pc'[b] = pc[b] /\ job'[b] = job[b]
  BY <1>1, <1>3 DEF TypeOK
<1>8. Placed'
  <2>1. Rightful(NoRoutes)
    BY DEF Rightful, NoRoutes
  <2>2. \A b \in Apps : job'[b].cfg \in {job[b].cfg, NoRoutes}
    BY <1>3, <1>7
  <2>3. \A w \in Workers : saved'[w] \in {saved[w], job[a].cfg, NoRoutes}
    BY <1>1, <1>4 DEF TypeOK
  <2>. QED  BY <1>1, <1>2, <2>1, <2>2, <2>3 DEF Placed
<1>9. ASSUME NEW b \in Apps  PROVE SavedStay(b)
  <2>. SUFFICES ASSUME NEW w \in Workers, NEW d \in Apart \cap May[b],
                       running[w][d] = b, saved[w][d] = b, saved'[w][d] # b
                PROVE  mishap'[b] \cap {"race", "save"} # {}
    BY DEF SavedStay
  <2>1. d \in Domains
    BY ApartIsOne
  <2>2. w = job[a].worker
    BY <1>1, <1>4 DEF TypeOK
  <2>3. CASE /\ saved' = [saved EXCEPT ![job[a].worker] = job[a].cfg]
             /\ mishap' = [c \in Apps |-> IF Outdated(c, job[a].worker, job[a].cfg)
                             THEN mishap[c] \cup {"race"} ELSE mishap[c]]
    <3>1. job[a].cfg[d] # b
      BY <1>1, <1>2, <2>2, <2>3 DEF TypeOK
    <3>2. Outdated(b, job[a].worker, job[a].cfg)
      BY <2>1, <2>2, <3>1 DEF Outdated
    <3>. QED  BY <2>3, <3>2
  <2>4. CASE mishap' = [c \in Apps |-> mishap[c] \cup {"save"}]
    BY <2>4
  <2>. QED  BY <1>4, <2>3, <2>4
<1>10. Within(a)
  BY <1>2, <1>5, <1>7, <1>9 DEF Within, RowsStay
<1>11. job[a].op = "deploy" =>
         \/ "save" \in mishap'[a]
         \/ pc[a] = "write" /\ \A d \in Domains :
                                 saved'[home[a]][d] = job[a].cfg[d]
  BY <1>1, <1>2, <1>4 DEF TypeOK
<1>. QED  BY <1>2, <1>5, <1>6, <1>8, <1>9, <1>10, <1>11, SavedKeeps

\* Routes are removed from the old server, or by an undeployment.
LEMMA TakeDownKeeps ==
  ASSUME RoutesInv, NEW a \in Apps, TakeDown(a)
  PROVE  RoutesInv'
<1>. USE DEF db, app, flare, past
<1>1. TypeOK /\ Ops(a) /\ job[a] \in Job /\ Reachable(a) /\ Placed
  BY DEF RoutesInv, Own, TypeOK
<1>2. /\ pc[a] = "takeDown"
      /\ UNCHANGED <<cf, db, saved, flare, past, requests>>
      /\ job[a].op \in {"cleanup", "undeploy"} /\ job[a].worker \in Workers
      /\ job[a].op = "cleanup" => job[a].worker # home[a]
      /\ routes[a] \in SUBSET May[a] /\ home[a] \in Workers
  BY <1>1, RoutesAssumption DEF Ops, TakeDown
<1>3. Touches(a, job[a].worker) /\ faults' \in Nat
  <2>1. CASE RemoveRoutes(job[a].worker, routes[a])
    BY <1>1, <1>2, <2>1, RemoveRoutesDo
  <2>2. CASE Fault("caddy") /\ UNCHANGED running
    BY <1>1, <2>2 DEF Fault, TypeOK, Touches
  <2>. QED  BY <2>1, <2>2 DEF TakeDown
<1>4. (Resting(a) \/ Deploying(a)) => running'[home[a]] = running[home[a]]
  BY <1>2, <1>3 DEF Resting, Deploying, Touches
<1>5. CASE Saved(a)
  <2>1. /\ pc' = [pc EXCEPT ![a] = pc'[a]] /\ job' = [job EXCEPT ![a] = job'[a]]
        /\ job'[a] \in Job /\ pc'[a] \in {"list", "idle", "deleteDNS"}
        /\ job'[a].cfg = NoRoutes /\ job'[a].id \in {0, job[a].id}
    BY <1>1, <1>2, <1>5, SavedDoes
  <2>2. TypeOK'
    BY <1>1, <1>2, <1>3, <2>1 DEF TypeOK, PCs, Touches
  <2>3. Calm(a)
    BY <1>1, <1>2, <2>1 DEF Calm, TypeOK, Pending, Known
  <2>4. Within(a) /\ Placed'
    BY <1>2, <1>3, <2>1, <2>3, TouchesKeeps
  <2>5. SavedStay(a)
    BY <1>2 DEF SavedStay
  <2>. QED  BY <1>2, <1>4, <1>5, <2>2, <2>4, <2>5, SavedKeeps
<1>6. CASE Goto(a, "fetch") /\ UNCHANGED job
  <2>1. pc'[a] = "fetch" /\ \A b \in Apps \ {a} : pc'[b] = pc[b]
    BY <1>1, <1>6 DEF Goto, TypeOK
  <2>2. TypeOK'
    BY <1>1, <1>2, <1>3, <1>6 DEF TypeOK, PCs, Goto, Touches
  <2>3. Calm(a)
    BY <1>2, <1>6, <2>1 DEF Calm, Pending, Known
  <2>4. Within(a) /\ Placed'
    BY <1>2, <1>3, <1>6, <2>3, TouchesKeeps
  <2>5. Ops(a)'
    BY <1>1, <1>2, <1>6, <2>1 DEF Ops, DeployPCs
  <2>6. /\ Resting(a)' = Resting(a) /\ Ours(a)' = Ours(a)
        /\ ~Deploying(a)'
    BY <1>2, <1>6, <2>1 DEF Resting, Deploying, Ours
  <2>7. Reachable(a)'
    BY <1>1, <1>2, <1>4, <1>6, <2>6
       DEF Reachable, PointedInv, ServedInv, KeptInv, Pointed, Served, Kept
  <2>. QED  BY <2>2, <2>3, <2>4, <2>5, <2>7, CalmStep
<1>. QED  BY <1>5, <1>6 DEF TakeDown

\* No domain is left to do: the app is at rest, served and pointed at.
LEMMA FinishKeeps ==
  ASSUME RoutesInv, NEW a \in Apps, Finish(a)
  PROVE  RoutesInv'
<1>. USE DEF Goto, Set, Return, caddy, flare, past, bound
<1>1. TypeOK /\ Ops(a) /\ job[a] \in Job /\ Reachable(a) /\ Placed
  BY DEF RoutesInv, Own, TypeOK
<1>2. /\ pc[a] = "finish" /\ job[a].op = "deploy" /\ job[a].todo = {}
      /\ job[a].old # home[a] /\ job[a].failed \in BOOLEAN
      /\ status' = [status EXCEPT ![a] = Outcome(job[a])]
      /\ last' = [last EXCEPT ![a] =
                    IF Outcome(job[a]) = "running" THEN "success" ELSE "failed"]
      /\ UNCHANGED <<cf, servers, primary, home, routes, rows, caddy, flare, past,
                     bound>>
      /\ home[a] \in Workers
  BY <1>1, JobFields DEF Ops, DeployPCs, Finish
<1>. DEFINE j == [NoJob EXCEPT !.op = "cleanup", !.worker = job[a].old]
<1>3. /\ j.op = "cleanup" /\ j.worker = job[a].old /\ j.todo = {}
      /\ j.removed = {} /\ j.id = 0 /\ j.cfg = NoRoutes
  BY DEF NoJob
<1>4. j \in Job
  BY <1>1, NoJobTyped DEF Job
<1>5. /\ NoJob.op = "none" /\ NoJob.id = 0 /\ NoJob.todo = {} /\ NoJob.removed = {}
      /\ NoJob.cfg = NoRoutes
  BY DEF NoJob
<1>6. \/ /\ pc' = [pc EXCEPT ![a] = "idle"] /\ job' = [job EXCEPT ![a] = NoJob]
      \/ /\ ~job[a].failed /\ job[a].old \in Workers
         /\ pc' = [pc EXCEPT ![a] = "takeDown"] /\ job' = [job EXCEPT ![a] = j]
  BY <1>1, <1>2 DEF Finish, TypeOK, Outcome
<1>. HIDE DEF j
<1>7. last'[a] = "success" => ~job[a].failed
  BY <1>1, <1>2 DEF TypeOK, Outcome
<1>8. \/ pc'[a] = "idle" /\ job'[a] = NoJob
      \/ /\ pc'[a] = "takeDown" /\ job'[a] = j
         /\ ~job[a].failed /\ job[a].old \in Workers
  BY <1>1, <1>6 DEF TypeOK
<1>9. TypeOK'
  <2>1. /\ status' \in [Apps -> Statuses]
        /\ last' \in [Apps -> {"none", "success", "failed"}]
    BY <1>1, <1>2 DEF TypeOK, Outcome, Statuses
  <2>2. pc' \in [Apps -> PCs] /\ job' \in [Apps -> Job]
    BY <1>1, <1>4, <1>6, NoJobTyped DEF TypeOK, PCs
  <2>. QED  BY <1>1, <1>2, <2>1, <2>2 DEF TypeOK
<1>10. Calm(a)
  BY <1>1, <1>2, <1>3, <1>5, <1>6, <1>8 DEF Calm, TypeOK, Pending, Known
<1>11. Within(a)
  BY <1>2, <1>10, CalmWithin
<1>12. Placed'
  <2>1. \A b \in Apps : job'[b].cfg \in {job[b].cfg, NoRoutes}
    BY <1>3, <1>5, <1>8, <1>10 DEF Calm
  <2>. QED  BY <1>1, <1>2, <2>1, PlacedKept
<1>13. Ops(a)'
  BY <1>1, <1>2, <1>3, <1>5, <1>8 DEF Ops, DeployPCs
<1>14. /\ ~Deploying(a)' /\ (Resting(a)' => Deploying(a))
       /\ Ours(a)' = Ours(a)
  BY <1>2, <1>3, <1>5, <1>7, <1>8 DEF Deploying, Resting, Ours
<1>15. PointedInv(a)'
  BY <1>1, <1>2, <1>14 DEF Reachable, PointedInv, Pointed, Unpointed
<1>16. ServedInv(a)'
  BY <1>1, <1>2, <1>14 DEF Reachable, ServedInv, Served, Unserved
<1>17. KeptInv(a)'
  BY <1>1, <1>2, <1>14 DEF Reachable, KeptInv, Served, Kept, OnItsWay, Unserved
<1>. QED  BY <1>9, <1>10, <1>11, <1>12, <1>13, <1>15, <1>16, <1>17, CalmStep
             DEF Reachable

---------------------------------------------------------------------------
(* The steps of a deployment at the records.                               *)

\* Between the lemmas below only the record, its row and the outcome are at stake.
LEMMA LookupKeeps ==
  ASSUME RoutesInv, NEW a \in Apps, Lookup(a), NamesKept, TypeOK', Records',
         \A r \in dns' \cup dns :
           r.name \in Apart \ May[a] => (r \in dns <=> r \in dns'),
         \A b \in Apps \ {a} : RowsStay(b),
         pc'[a] = "track" => job'[a].was # None,
         pc'[a] = "proxy" => job'[a].restore,
         Holds(a)', Vacant(a)', Restoring(a)', Tracked(a)',
         \A d \in Ours(a) : Pointed(a, d) => Pointed(a, d)',
         "dns" \notin mishap'[a] /\ pc[a] \in Unpointed =>
           pc'[a] \in Unpointed \/ Pointed(a, job[a].domain)'
  PROVE  RoutesInv'
<1>. USE DEF app
<1>1. TypeOK /\ Ops(a) /\ Reachable(a) /\ Placed
  BY DEF RoutesInv, Own
<1>2. job[a].op = "deploy" /\ job'[a].op = "deploy"
  BY <1>1 DEF Ops, DeployPCs, Lookup, AtRecord
<1>3. Within(a)
  BY DEF Within, Lookup, SavedStay
<1>4. Placed'
  <2>1. \A b \in Apps : job'[b].cfg \in {job[b].cfg, NoRoutes}
    BY DEF Lookup
  <2>. QED  BY <1>1, <2>1, PlacedKept DEF Lookup
<1>5. Ops(a)'
  BY <1>1, <1>2 DEF Ops, Lookup, AtRecord, DeployPCs
<1>6. /\ ~Resting(a)' /\ (Deploying(a)' => Deploying(a))
      /\ Ours(a)' = Ours(a) /\ home'[a] = home[a]
  BY <1>2 DEF Resting, Deploying, Lookup, AtRecord, Ours
<1>7. PointedInv(a)'
  BY <1>1, <1>6 DEF Reachable, PointedInv, Lookup
<1>8. ServedInv(a)'
  BY <1>1, <1>6 DEF Reachable, ServedInv, Lookup, AtRecord, Unserved, Served
<1>9. KeptInv(a)'
  BY <1>1, <1>6
     DEF Reachable, KeptInv, Lookup, AtRecord, Unserved, Served, Kept, OnItsWay
<1>10. Own(a)'
  BY <1>5, <1>7, <1>8, <1>9 DEF Own, Reachable
<1>. QED  BY <1>3, <1>4, <1>10, StepKeeps

\* While a works on a record, no other app does: the proxies of the other records
\* are as before.
LEMMA ProxiesKeep ==
  ASSUME RoutesInv, NEW a \in Apps, spoiled \subseteq spoiled',
         \A b \in Apps \ {a} : pc'[b] = pc[b] /\ job'[b] = job[b],
         \A s \in dns' : s.name \in Apart =>
           \/ s \in dns /\ ~Awaits(a, s.id)
           \/ s.id \in spoiled' \/ s.proxied = s.wanted \/ Awaits(a, s.id)'
  PROVE  Proxies'
<1>. SUFFICES ASSUME NEW s \in dns', s.name \in Apart, s.id \notin spoiled',
                     s.proxied # s.wanted, ~Awaits(a, s.id)'
              PROVE  \E b \in Apps : Awaits(b, s.id)'
  BY DEF Proxies
<1>1. s \in dns /\ ~Awaits(a, s.id) /\ s.id \notin spoiled
  OBVIOUS
<1>2. PICK b \in Apps : Awaits(b, s.id)
  BY <1>1 DEF RoutesInv, Records, Proxies
<1>. QED  BY <1>1, <1>2 DEF Awaits

\* UpdateRecord: one record changes its address and its proxy setting.
LEMMA PointsDo ==
  ASSUME RoutesInv, NEW a \in Apps, pc[a] \in Known, UNCHANGED <<rows, nextId>>,
         NEW r \in dns, r.id = job[a].id, NEW w \in Workers, NEW p \in BOOLEAN,
         dns' = Points(r, w, p)
  PROVE  \E q \in Record :
           /\ dns' = (dns \ {r}) \cup {q}
           /\ q.id = r.id /\ q.name = r.name /\ q.content = w /\ q.proxied = p
           /\ q.by = r.by /\ q.wanted = r.wanted
           /\ r.name = job[a].domain
           /\ dns' \subseteq Record
           /\ Ids' /\ NoDuplicates' /\ NamesKept /\ Holds(a)
           /\ \A s \in dns' \cup dns :
                s.name \in Apart \ May[a] => (s \in dns <=> s \in dns')
           /\ \A b \in Apps : RowsStay(b)
<1>1. TypeOK /\ Ids /\ NoDuplicates /\ Holds(a) /\ r \in Record
  BY DEF RoutesInv, Records, Own, TypeOK
<1>. DEFINE q == [r EXCEPT !.content = w, !.proxied = p]
<1>2. /\ q \in Record /\ q.id = r.id /\ q.name = r.name /\ q.content = w
      /\ q.proxied = p /\ q.by = r.by /\ q.wanted = r.wanted
  BY <1>1 DEF Record
<1>3. dns' = (dns \ {r}) \cup {q}
  BY DEF Points
<1>. HIDE DEF q
<1>4. r.name \in May[a] /\ r.name = job[a].domain
  BY <1>1 DEF Holds
<1>5. Ids'
  BY <1>1, <1>2, <1>3 DEF Ids
<1>6. NoDuplicates'
  BY <1>1, <1>2, <1>3 DEF NoDuplicates
<1>7. NamesKept
  BY <1>1, <1>2, <1>3 DEF NamesKept, TypeOK
<1>8. \A s \in dns' \cup dns :
        s.name \in Apart \ May[a] => (s \in dns <=> s \in dns')
  BY <1>2, <1>3, <1>4
<1>9. dns' \subseteq Record
  BY <1>1, <1>2, <1>3 DEF TypeOK
<1>10. \A b \in Apps : RowsStay(b)
  BY <1>2, <1>3 DEF RowsStay
<1>. QED  BY <1>1, <1>2, <1>3, <1>4, <1>5, <1>6, <1>7, <1>8, <1>9, <1>10

\* There is none; or it points home; or it is remembered with its proxy setting.
LEMMA ListRecordsKeeps ==
  ASSUME RoutesInv, NEW a \in Apps, ListRecords(a)
  PROVE  RoutesInv'
<1>. USE DEF Goto, Set, NextDomain, db, app, caddy, flare
<1>1. /\ TypeOK /\ Ids /\ NoDuplicates /\ Proxies /\ Own(a)
      /\ job[a] \in Job /\ dns \subseteq Record
  BY DEF RoutesInv, Records, TypeOK
<1>2. /\ pc[a] = "list" /\ UNCHANGED <<cf, db, caddy, flare, spoiled, requests>>
      /\ job[a].op = "deploy" /\ job[a].domain \in May[a]
  BY <1>1 DEF Own, Ops, DeployPCs, ListRecords
<1>3. ASSUME NEW s \in dns, s.name = job[a].domain, s.name \in Apart
      PROVE  s.id \in spoiled \/ s.proxied = s.wanted
  <2>1. ASSUME NEW b \in Apps, Awaits(b, s.id)  PROVE FALSE
    <3>1. s.name \in May[b]
      BY <2>1 DEF RoutesInv, Own, Holds, Awaits
    <3>2. b = a
      BY <1>2, <1>3, <3>1, ApartIsOne
    <3>. QED  BY <1>2, <2>1, <3>2 DEF Awaits, Pending
  <2>. QED  BY <1>1, <1>3, <2>1 DEF Proxies
<1>4. \A b \in Apps : RowsStay(b)
  BY <1>2 DEF RowsStay
<1>5. CASE \/ /\ Existing(a) = {} /\ pc' = [pc EXCEPT ![a] = "create"]
              /\ UNCHANGED <<job, mishap, faults>>
           \/ /\ pc' = [pc EXCEPT ![a] = "next"] /\ UNCHANGED job
              /\ \/ /\ \E r \in Existing(a) : ~Differs(a, r)
                    /\ UNCHANGED <<mishap, faults>>
                 \/ /\ IF cf THEN Fault("cloudflare") ELSE UNCHANGED faults
                    /\ Notes(a, {"dns"})
  <2>1. /\ pc'[a] \in {"create", "next"} /\ UNCHANGED job
        /\ \A b \in Apps \ {a} : pc'[b] = pc[b] /\ mishap'[b] = mishap[b]
        /\ mishap[a] \subseteq mishap'[a]
    BY <1>1, <1>5 DEF TypeOK, Notes
  <2>2. TypeOK'
    BY <1>1, <1>2, <1>5 DEF TypeOK, PCs, Notes, Fault, Mishaps
  <2>3. Lookup(a)
    BY <1>2, <2>1 DEF Lookup, AtRecord
  <2>4. NamesKept /\ Records'
    <3>1. Proxies'
      BY <1>2, <2>1, ProxiesKeep, <1>1 DEF Awaits, Pending
    <3>. QED  BY <1>1, <1>2, <3>1 DEF NamesKept, Records, Ids, NoDuplicates, TypeOK
  <2>5. Holds(a)' /\ Restoring(a)'
    BY <1>1, <1>2, <2>1 DEF Own, Holds, Restoring, Known, Pending
  <2>6. Vacant(a)'
    BY <1>1, <1>2, <1>5, <2>1 DEF Vacant, Existing, Listed, TypeOK
  <2>7. Tracked(a)'
    BY <1>1, <1>2, <2>1 DEF Own, Tracked, HasRow
  <2>8. "dns" \notin mishap'[a] =>
          \/ pc'[a] \in Unpointed
          \/ Pointed(a, job[a].domain)'
    BY <1>1, <1>2, <1>5
       DEF Unpointed, Pointed, Existing, Listed, Differs, Notes, TypeOK
  <2>9. \A d \in Ours(a) : Pointed(a, d) => Pointed(a, d)'
    BY <1>2 DEF Pointed
  <2>. QED
    BY <1>2, <1>4, <2>1, <2>2, <2>3, <2>4, <2>5, <2>6, <2>7, <2>8, <2>9, LookupKeeps
<1>6. ASSUME NEW r \in Existing(a), pc' = [pc EXCEPT ![a] = "track"],
             Set(a, [job[a] EXCEPT !.id = r.id, !.was = r.content,
                                   !.restore = Restores(r)]),
             UNCHANGED <<mishap, faults>>
      PROVE  RoutesInv'
  <2>1. /\ r \in dns /\ r.name = job[a].domain /\ r.id \in Nat
        /\ r.content \in Workers \cup {Elsewhere} /\ r.proxied \in BOOLEAN
    BY <1>1, <1>6 DEF Existing, Listed, Record
  <2>. DEFINE j == [job[a] EXCEPT !.id = r.id, !.was = r.content,
                                  !.restore = Restores(r)]
  <2>2. /\ j \in Job /\ j.op = job[a].op /\ j.worker = job[a].worker
        /\ j.old = job[a].old /\ j.todo = job[a].todo /\ j.removed = job[a].removed
        /\ j.domain = job[a].domain /\ j.failed = job[a].failed /\ j.cfg = job[a].cfg
        /\ j.id = r.id /\ j.was = r.content /\ j.restore = r.proxied
    BY <1>1, <2>1 DEF Job, Restores
  <2>3. job' = [job EXCEPT ![a] = j]
    BY <1>6
  <2>. HIDE DEF j
  <2>4. job'[a] = j /\ pc'[a] = "track"
    BY <1>1, <1>6, <2>3 DEF TypeOK
  <2>5. TypeOK'
    BY <1>1, <1>2, <1>6, <2>2, <2>3 DEF TypeOK, PCs
  <2>6. \A b \in Apps \ {a} : pc'[b] = pc[b] /\ job'[b] = job[b]
    BY <1>1, <1>6, <2>3 DEF TypeOK
  <2>7. Lookup(a)
    BY <1>2, <1>6, <2>2, <2>4, <2>6 DEF Lookup, AtRecord
  <2>8. NamesKept /\ Records'
    <3>1. Proxies'
      BY <1>1, <1>2, <2>6, ProxiesKeep DEF Awaits, Pending
    <3>. QED  BY <1>1, <1>2, <3>1 DEF NamesKept, Records, Ids, NoDuplicates, TypeOK
  <2>9. Holds(a)' /\ Vacant(a)'
    BY <1>1, <1>2, <2>1, <2>2, <2>4 DEF Holds, Vacant, Ids
  <2>10. Restoring(a)'
    BY <1>1, <1>2, <1>3, <2>1, <2>2, <2>4 DEF Restoring, Ids, Pending
  <2>11. Tracked(a)'
    BY <1>1, <1>2, <2>4 DEF Own, Tracked, HasRow
  <2>12. j.was # None
    BY <2>1, <2>2, RoutesAssumption
  <2>13. \A d \in Ours(a) : Pointed(a, d) => Pointed(a, d)'
    BY <1>2 DEF Pointed
  <2>. QED
    BY <1>2, <1>4, <2>4, <2>5, <2>7, <2>8, <2>9, <2>10, <2>11, <2>12, <2>13, LookupKeeps
       DEF Unpointed
<1>7. \/ /\ Existing(a) = {} /\ pc' = [pc EXCEPT ![a] = "create"]
         /\ UNCHANGED <<job, mishap, faults>>
      \/ /\ pc' = [pc EXCEPT ![a] = "next"] /\ UNCHANGED job
         /\ \/ /\ \E r \in Existing(a) : ~Differs(a, r)
               /\ UNCHANGED <<mishap, faults>>
            \/ /\ IF cf THEN Fault("cloudflare") ELSE UNCHANGED faults
               /\ Notes(a, {"dns"})
      \/ \E r \in Existing(a) :
           /\ pc' = [pc EXCEPT ![a] = "track"]
           /\ Set(a, [job[a] EXCEPT !.id = r.id, !.was = r.content,
                                    !.restore = Restores(r)])
           /\ UNCHANGED <<mishap, faults>>
  BY DEF ListRecords
<1>. QED  BY <1>5, <1>6, <1>7

\* The rows change: every record that had its row has it still.
LEMMA RowsKeep ==
  ASSUME RoutesInv, NEW a \in Apps, Lookup(a), TypeOK',
         UNCHANGED <<dns, nextId, job, mishap, spoiled>>,
         \A row \in rows' : /\ row.id < nextId
                            /\ \A r \in dns : r.id = row.id => r.name = row.name,
         \A row \in rows :
           \E q \in rows' : /\ q.app = row.app /\ q.id = row.id
                            /\ q.name = row.name /\ q.content = row.content,
         pc'[a] \in Known => pc[a] \in Known,
         pc'[a] \in Pending <=> pc[a] \in Pending,
         pc'[a] \notin {"record", "create"},
         pc[a] = "record" => \A r \in dns : r.id = job[a].id /\ r.by = a =>
                               HasRow(a, r)',
         pc'[a] = "track" => pc[a] = "track", pc'[a] = "proxy" => pc[a] = "proxy",
         pc[a] \in Unpointed => pc'[a] \in Unpointed
  PROVE  RoutesInv'
<1>1. TypeOK /\ Ids /\ NoDuplicates /\ Own(a)
  BY DEF RoutesInv, Records
<1>2. NamesKept /\ Records'
  <2>1. Proxies'
    BY ProxiesKeep DEF Lookup, Awaits
  <2>. QED  BY <1>1, <2>1 DEF NamesKept, Records, Ids, NoDuplicates, TypeOK
<1>3. Holds(a)' /\ Vacant(a)' /\ Restoring(a)'
  BY <1>1 DEF Own, Holds, Vacant, Restoring
<1>4. \A r : HasRow(a, r) => HasRow(a, r)'
  BY DEF HasRow
<1>5. Tracked(a)'
  BY <1>1, <1>4 DEF Own, Tracked, Lookup, AtRecord, app
<1>6. /\ pc'[a] = "track" => job'[a].was # None
      /\ pc'[a] = "proxy" => job'[a].restore
  BY <1>1 DEF Own, Ops
<1>7. \A d \in Ours(a) : Pointed(a, d) => Pointed(a, d)'
  BY DEF Pointed, Lookup, app
<1>8. \A b \in Apps : RowsStay(b)
  BY DEF RowsStay
<1>. QED  BY <1>2, <1>3, <1>5, <1>6, <1>7, <1>8, LookupKeeps

\* The row has the name of the record.
LEMMA TrackRecordKeeps ==
  ASSUME RoutesInv, NEW a \in Apps, TrackRecord(a)
  PROVE  RoutesInv'
<1>. USE DEF TrackRecord, app, Goto, caddy, flare, past, bound
<1>1. TypeOK /\ Ids /\ Own(a) /\ job[a] \in Job
  BY DEF RoutesInv, Records, TypeOK
<1>2. /\ job[a].op = "deploy" /\ job[a].domain \in Domains /\ job[a].id \in Nat
      /\ job[a].was \in Workers \cup {Elsewhere} /\ job[a].id < nextId
      /\ \A r \in dns : r.id = job[a].id => r.name = job[a].domain
  BY <1>1, JobFields, RoutesAssumption DEF Own, Ops, DeployPCs, Holds, Known
<1>. DEFINE new == [app |-> a, id |-> job[a].id, name |-> job[a].domain,
                    content |-> job[a].was, proxied |-> FALSE]
<1>3. new \in DNSRow /\ new.id = job[a].id /\ new.name = job[a].domain
  BY <1>2 DEF DNSRow
<1>4. rows' = rows \/ rows' = rows \cup {new}
  OBVIOUS
<1>. HIDE DEF new
<1>5. pc'[a] = "point" /\ \A b \in Apps \ {a} : pc'[b] = pc[b]
  BY <1>1 DEF TypeOK
<1>6. TypeOK'
  BY <1>1, <1>3, <1>4 DEF TypeOK, PCs
<1>7. Lookup(a)
  BY <1>5 DEF Lookup, AtRecord
<1>8. \A row \in rows' : /\ row.id < nextId
                         /\ \A r \in dns : r.id = row.id => r.name = row.name
  BY <1>1, <1>2, <1>3, <1>4 DEF Ids
<1>. QED  BY <1>4, <1>5, <1>6, <1>7, <1>8, RowsKeep DEF Known, Pending, Unpointed

\* The record that was created has its row.
LEMMA SaveDNSRecordKeeps ==
  ASSUME RoutesInv, NEW a \in Apps, SaveDNSRecord(a)
  PROVE  RoutesInv'
<1>. USE DEF SaveDNSRecord, app, Goto, caddy, flare, past, bound
<1>1. TypeOK /\ Ids /\ Own(a) /\ job[a] \in Job
  BY DEF RoutesInv, Records, TypeOK
<1>2. /\ job[a].op = "deploy" /\ job[a].domain \in Domains /\ job[a].id \in Nat
      /\ home[a] \in Workers /\ job[a].id < nextId
      /\ \A r \in dns : r.id = job[a].id => r.name = job[a].domain
  BY <1>1, JobFields, RoutesAssumption DEF Own, Ops, DeployPCs, Holds, Known
<1>. DEFINE new == [app |-> a, id |-> job[a].id, name |-> job[a].domain,
                    content |-> home[a], proxied |-> FALSE]
<1>3. /\ new \in DNSRow /\ new.id = job[a].id /\ new.name = job[a].domain
      /\ new.app = a /\ new.content = home[a]
  BY <1>2 DEF DNSRow
<1>4. rows' = rows \cup {new}
  OBVIOUS
<1>. HIDE DEF new
<1>5. pc'[a] = "cert" /\ \A b \in Apps \ {a} : pc'[b] = pc[b]
  BY <1>1 DEF TypeOK
<1>6. TypeOK'
  BY <1>1, <1>3, <1>4 DEF TypeOK, PCs
<1>7. Lookup(a)
  BY <1>5 DEF Lookup, AtRecord
<1>8. \A row \in rows' : /\ row.id < nextId
                         /\ \A r \in dns : r.id = row.id => r.name = row.name
  BY <1>1, <1>2, <1>3, <1>4 DEF Ids
<1>9. \A r \in dns : r.id = job[a].id => HasRow(a, r)'
  BY <1>2, <1>3, <1>4 DEF HasRow
<1>. QED
  BY <1>4, <1>5, <1>6, <1>7, <1>8, <1>9, RowsKeep DEF Known, Pending, Unpointed

\* Rows of any app with this id: only their flag changes.
LEMMA UpdateDNSRecordProxiedKeeps ==
  ASSUME RoutesInv, NEW a \in Apps, UpdateDNSRecordProxied(a)
  PROVE  RoutesInv'
<1>. USE DEF UpdateDNSRecordProxied, app, NextDomain, Goto, caddy, flare, past, bound
<1>1. TypeOK /\ Ids /\ rows \subseteq DNSRow
  BY DEF RoutesInv, Records, TypeOK
<1>. DEFINE Flagged(r) == IF r.id = job[a].id THEN [r EXCEPT !.proxied = TRUE] ELSE r
<1>2. \A r \in rows : /\ Flagged(r) \in DNSRow /\ Flagged(r).app = r.app
                      /\ Flagged(r).id = r.id /\ Flagged(r).name = r.name
                      /\ Flagged(r).content = r.content
  BY <1>1 DEF DNSRow
<1>3. rows' = {Flagged(r) : r \in rows}
  OBVIOUS
<1>. HIDE DEF Flagged
<1>4. pc'[a] = "next" /\ pc[a] = "flag" /\ \A b \in Apps \ {a} : pc'[b] = pc[b]
  BY <1>1 DEF TypeOK
<1>5. TypeOK'
  BY <1>1, <1>2, <1>3 DEF TypeOK, PCs
<1>6. Lookup(a)
  BY <1>4 DEF Lookup, AtRecord
<1>7. \A row \in rows' : /\ row.id < nextId
                         /\ \A r \in dns : r.id = row.id => r.name = row.name
  BY <1>1, <1>2, <1>3 DEF Ids
<1>8. \A row \in rows :
        \E q \in rows' : /\ q.app = row.app /\ q.id = row.id
                         /\ q.name = row.name /\ q.content = row.content
  BY <1>2, <1>3
<1>. QED  BY <1>4, <1>5, <1>6, <1>7, <1>8, RowsKeep DEF Known, Pending, Unpointed

\* The proxy is to be given back, or was off before, or the wait timed out.
LEMMA WaitForCertificateKeeps ==
  ASSUME RoutesInv, NEW a \in Apps, WaitForCertificate(a)
  PROVE  RoutesInv'
<1>. USE DEF Goto, NextDomain, db, app, caddy, flare
<1>1. TypeOK /\ Ids /\ NoDuplicates /\ Proxies /\ Own(a) /\ job[a] \in Job
  BY DEF RoutesInv, Records, TypeOK
<1>2. /\ pc[a] = "cert" /\ UNCHANGED <<cf, db, caddy, flare, job, mishap, requests>>
      /\ job[a].restore \in BOOLEAN /\ job[a].id \in Nat
  BY <1>1, JobFields DEF WaitForCertificate
<1>3. /\ pc' = [pc EXCEPT ![a] = pc'[a]] /\ pc'[a] \in {"proxy", "next"}
      /\ pc'[a] = "proxy" => job[a].restore
      /\ spoiled \subseteq spoiled'
      /\ pc'[a] = "next" => ~job[a].restore \/ job[a].id \in spoiled'
      /\ spoiled' \subseteq Nat /\ faults' \in Nat
  <2>1. CASE /\ pc' = [pc EXCEPT ![a] = IF job[a].restore THEN "proxy" ELSE "next"]
             /\ UNCHANGED <<spoiled, faults>>
    BY <1>1, <1>2, <2>1 DEF TypeOK
  <2>2. CASE /\ Fault("timeout") /\ spoiled' = spoiled \cup {job[a].id}
             /\ pc' = [pc EXCEPT ![a] = "next"]
    <3>1. pc'[a] = "next" /\ pc' = [pc EXCEPT ![a] = pc'[a]]
      BY <1>1, <2>2 DEF TypeOK
    <3>2. faults' \in Nat /\ spoiled \subseteq Nat
      BY <1>1, <2>2 DEF TypeOK, Fault
    <3>3. spoiled' \subseteq Nat
      BY <1>2, <2>2, <3>2
    <3>. QED  BY <2>2, <3>1, <3>2, <3>3
  <2>. QED  BY <2>1, <2>2 DEF WaitForCertificate
<1>4. \A b \in Apps \ {a} : pc'[b] = pc[b]
  BY <1>1, <1>3 DEF TypeOK
<1>5. TypeOK'
  BY <1>1, <1>2, <1>3 DEF TypeOK, PCs
<1>6. Lookup(a)
  BY <1>2, <1>3, <1>4 DEF Lookup, AtRecord
<1>7. NamesKept /\ Records'
  <2>1. ASSUME NEW s \in dns, s.id = job[a].id, s.name \in Apart
        PROVE  s.id \in spoiled' \/ s.proxied = s.wanted \/ Awaits(a, s.id)'
    <3>1. s.wanted \in BOOLEAN /\ s.proxied \in BOOLEAN
      BY <1>1 DEF TypeOK, Record
    <3>. QED  BY <1>1, <1>2, <1>3, <2>1, <3>1
                 DEF Own, Restoring, Awaits, Known, Pending
  <2>2. \A s \in dns' : s.name \in Apart =>
          \/ s \in dns /\ ~Awaits(a, s.id)
          \/ s.id \in spoiled' \/ s.proxied = s.wanted
          \/ Awaits(a, s.id)'
    BY <1>2, <2>1 DEF Awaits
  <2>3. Proxies'
    BY <1>2, <1>3, <1>4, <2>2, ProxiesKeep
  <2>. QED  BY <1>1, <1>2, <2>3 DEF NamesKept, Records, Ids, NoDuplicates, TypeOK
<1>8. Holds(a)' /\ Vacant(a)' /\ Restoring(a)'
  BY <1>1, <1>2, <1>3 DEF Own, Holds, Vacant, Restoring, Known, Pending
<1>9. Tracked(a)'
  BY <1>1, <1>2, <1>3 DEF Own, Tracked, HasRow
<1>10. \A d \in Ours(a) : Pointed(a, d) => Pointed(a, d)'
  BY <1>2 DEF Pointed
<1>11. \A b \in Apps : RowsStay(b)
  BY <1>2 DEF RowsStay
<1>. QED  BY <1>2, <1>3, <1>5, <1>6, <1>7, <1>8, <1>9, <1>10, <1>11, LookupKeeps
             DEF Unpointed

\* UpdateRecord at Cloudflare, with the proxy off or on: it is done, and with the
\* proxy on the record has what it is to have; or the record is spoiled.
LEMMA UpdateKeeps ==
  ASSUME RoutesInv, NEW a \in Apps, NEW p \in BOOLEAN,
         UNCHANGED <<cf, db, caddy, nextId, job, requests>>,
         pc' = [pc EXCEPT ![a] = pc'[a]],
         mishap' \in [Apps -> SUBSET Mishaps], mishap[a] \subseteq mishap'[a],
         \A b \in Apps \ {a} : mishap'[b] = mishap[b],
         spoiled \subseteq spoiled', spoiled' \subseteq Nat, faults' \in Nat,
         \/ dns' = dns /\ pc'[a] = "next"
         \/ \E r \in dns : r.id = job[a].id /\ dns' = Points(r, home[a], p),
         \/ pc[a] = "point" /\ ~p /\ pc'[a] \in {"cert", "next"}
         \/ pc[a] = "proxy" /\ p /\ pc'[a] \in {"flag", "next"},
         pc'[a] = "next" =>
           job[a].id \in spoiled' /\ (pc[a] = "point" => "dns" \in mishap'[a])
  PROVE  RoutesInv'
<1>. USE DEF db, app, caddy
<1>1. /\ TypeOK /\ Ids /\ NoDuplicates /\ Proxies /\ Own(a) /\ job[a] \in Job
      /\ dns \subseteq Record /\ pc[a] \in Known
  BY DEF RoutesInv, Records, TypeOK, Known
<1>2. home[a] \in Workers /\ job[a].restore \in BOOLEAN
  BY <1>1, JobFields DEF Own, Ops, Known, DeployPCs
<1>3. \A b \in Apps \ {a} : pc'[b] = pc[b]
  BY <1>1 DEF TypeOK
<1>4. Lookup(a)
  BY <1>3 DEF Lookup, AtRecord
<1>5. CASE dns' = dns /\ pc'[a] = "next"
  <2>1. TypeOK'
    BY <1>1, <1>5 DEF TypeOK, PCs
  <2>2. Proxies'
    <3>1. \A s \in dns' : \/ s \in dns /\ ~Awaits(a, s.id)
                          \/ s.id \in spoiled'
      BY <1>5 DEF Awaits
    <3>. QED  BY <1>3, <3>1, ProxiesKeep
  <2>3. NamesKept /\ Records'
    BY <1>1, <1>5, <2>2 DEF NamesKept, Records, Ids, NoDuplicates, TypeOK
  <2>4. Holds(a)' /\ Vacant(a)' /\ Restoring(a)'
    BY <1>1, <1>5 DEF Own, Holds, Vacant, Restoring, Known, Pending
  <2>5. Tracked(a)'
    BY <1>1, <1>5 DEF Own, Tracked, HasRow
  <2>6. \A d \in Ours(a) : Pointed(a, d) => Pointed(a, d)'
    BY <1>5 DEF Pointed
  <2>7. \A b \in Apps : RowsStay(b)
    BY <1>5 DEF RowsStay
  <2>. QED  BY <1>4, <1>5, <2>1, <2>3, <2>4, <2>5, <2>6, <2>7, LookupKeeps
               DEF Unpointed
<1>6. ASSUME NEW r \in dns, r.id = job[a].id, dns' = Points(r, home[a], p)
      PROVE  RoutesInv'
  <2>1. PICK q \in Record :
          /\ dns' = (dns \ {r}) \cup {q}
          /\ q.id = r.id /\ q.name = r.name /\ q.content = home[a] /\ q.proxied = p
          /\ q.by = r.by /\ q.wanted = r.wanted
          /\ r.name = job[a].domain
          /\ dns' \subseteq Record
          /\ Ids' /\ NoDuplicates' /\ NamesKept /\ Holds(a)
          /\ \A s \in dns' \cup dns :
               s.name \in Apart \ May[a] => (s \in dns <=> s \in dns')
          /\ \A b \in Apps : RowsStay(b)
    BY <1>1, <1>2, <1>6, PointsDo
  <2>2. TypeOK'
    BY <1>1, <2>1 DEF TypeOK, PCs
  <2>3. r.id \notin spoiled /\ r.name \in Apart => r.wanted = job[a].restore
    BY <1>1, <1>6 DEF Own, Restoring
  <2>4. pc[a] = "proxy" => job[a].restore = TRUE
    BY <1>1, <1>2 DEF Own, Ops
  <2>5. \A s \in dns' : s # q => s \in dns /\ s.id # job[a].id
    BY <1>1, <1>6, <2>1 DEF Ids
  <2>6. Proxies'
    <3>1. q.name \in Apart =>
            q.id \in spoiled' \/ q.proxied = q.wanted \/ Awaits(a, q.id)'
      BY <1>6, <2>1, <2>3, <2>4 DEF Awaits, Pending
    <3>2. \A s \in dns' : s.name \in Apart =>
            \/ s \in dns /\ ~Awaits(a, s.id)
            \/ s.id \in spoiled' \/ s.proxied = s.wanted
            \/ Awaits(a, s.id)'
      BY <2>5, <3>1 DEF Awaits
    <3>. QED  BY <1>3, <3>2, ProxiesKeep
  <2>7. Holds(a)' /\ Vacant(a)'
    BY <1>6, <2>1, <2>5 DEF Holds, Vacant, Known
  <2>8. Restoring(a)'
    BY <1>6, <2>1, <2>3, <2>5 DEF Restoring, Known, Pending
  <2>9. Tracked(a)'
    <3>1. \A s \in dns' : \E t \in dns : t.id = s.id /\ t.by = s.by /\ t.name = s.name
      BY <2>1
    <3>2. ASSUME NEW s \in dns', s.by = a, s.id \notin spoiled'
          PROVE  HasRow(a, s)'
      <4>1. PICK t \in dns : t.id = s.id /\ t.by = s.by /\ t.name = s.name
        BY <3>1
      <4>2. HasRow(a, t)
        BY <1>1, <3>2, <4>1 DEF Own, Tracked
      <4>. QED  BY <4>1, <4>2 DEF HasRow
    <3>. QED  BY <3>2 DEF Tracked
  <2>10. \A d \in Ours(a) : Pointed(a, d) => Pointed(a, d)'
    BY <1>6, <2>1 DEF Pointed
  <2>11. Pointed(a, job[a].domain)'
    BY <2>1 DEF Pointed
  <2>12. Records'
    BY <2>1, <2>6 DEF Records
  <2>. QED  BY <1>4, <2>1, <2>2, <2>4, <2>7, <2>8, <2>9, <2>10, <2>11, <2>12,
               LookupKeeps
<1>. QED  BY <1>5, <1>6

\* The record points home, with the proxy off.
LEMMA PointRecordKeeps ==
  ASSUME RoutesInv, NEW a \in Apps, PointRecord(a)
  PROVE  RoutesInv'
<1>. USE DEF Goto, NextDomain, past
<1>1. TypeOK /\ job[a].id \in Nat
  BY JobFields DEF RoutesInv, TypeOK
<1>2. pc[a] = "point" /\ UNCHANGED <<cf, db, caddy, nextId, job, requests>>
  BY DEF PointRecord
<1>3. CASE \E r \in {r \in dns : r.id = job[a].id} :
             /\ dns' = Points(r, home[a], FALSE)
             /\ Goto(a, "cert")
             /\ UNCHANGED <<past, faults>>
  <2>1. pc'[a] = "cert" /\ pc' = [pc EXCEPT ![a] = pc'[a]]
    BY <1>1, <1>3 DEF TypeOK
  <2>2. UNCHANGED <<mishap, spoiled, faults>>
    BY <1>3
  <2>3. \E r \in dns : r.id = job[a].id /\ dns' = Points(r, home[a], FALSE)
    BY <1>3
  <2>4. /\ mishap \in [Apps -> SUBSET Mishaps] /\ spoiled \subseteq Nat
        /\ faults \in Nat
    BY <1>1 DEF TypeOK
  <2>. QED  BY <1>2, <2>1, <2>2, <2>3, <2>4, UpdateKeeps
<1>4. CASE /\ IF {r \in dns : r.id = job[a].id} = {}
                THEN UNCHANGED faults ELSE Fault("cloudflare")
           /\ dns' \in {dns} \cup {Points(r, home[a], FALSE) :
                                     r \in {r \in dns : r.id = job[a].id}}
           /\ Notes(a, {"dns"})
           /\ spoiled' = spoiled \cup {job[a].id}
           /\ NextDomain(a)
  <2>1. pc'[a] = "next" /\ pc' = [pc EXCEPT ![a] = pc'[a]]
    BY <1>1, <1>4 DEF TypeOK
  <2>2. /\ mishap' \in [Apps -> SUBSET Mishaps] /\ mishap[a] \subseteq mishap'[a]
        /\ \A b \in Apps \ {a} : mishap'[b] = mishap[b]
        /\ "dns" \in mishap'[a]
    BY <1>1, <1>4 DEF TypeOK, Notes, Mishaps
  <2>3. \/ dns' = dns
        \/ \E r \in dns : r.id = job[a].id /\ dns' = Points(r, home[a], FALSE)
    BY <1>4
  <2>4. faults' \in Nat /\ spoiled \subseteq Nat
    BY <1>1, <1>4 DEF TypeOK, Fault
  <2>5. /\ spoiled' \subseteq Nat /\ spoiled \subseteq spoiled'
        /\ job[a].id \in spoiled'
    BY <1>1, <1>4, <2>4
  <2>. QED  BY <1>2, <2>1, <2>2, <2>3, <2>4, <2>5, UpdateKeeps
<1>. QED  BY <1>3, <1>4 DEF PointRecord

\* The record has its proxy again.
LEMMA EnableProxyKeeps ==
  ASSUME RoutesInv, NEW a \in Apps, EnableProxy(a)
  PROVE  RoutesInv'
<1>. USE DEF Goto, NextDomain
<1>1. /\ TypeOK /\ job[a].id \in Nat
      /\ mishap \in [Apps -> SUBSET Mishaps] /\ spoiled \subseteq Nat
  BY JobFields DEF RoutesInv, TypeOK
<1>2. pc[a] = "proxy" /\ UNCHANGED <<cf, db, caddy, nextId, job, mishap, requests>>
  BY DEF EnableProxy
<1>3. CASE \E r \in {r \in dns : r.id = job[a].id} :
             /\ dns' = Points(r, home[a], TRUE)
             /\ Goto(a, "flag")
             /\ UNCHANGED <<spoiled, faults>>
  <2>1. pc'[a] = "flag" /\ pc' = [pc EXCEPT ![a] = pc'[a]]
    BY <1>1, <1>3 DEF TypeOK
  <2>2. UNCHANGED <<spoiled, faults>> /\ faults \in Nat
    BY <1>1, <1>3 DEF TypeOK
  <2>3. \E r \in dns : r.id = job[a].id /\ dns' = Points(r, home[a], TRUE)
    BY <1>3
  <2>. QED  BY <1>1, <1>2, <2>1, <2>2, <2>3, UpdateKeeps
<1>4. CASE /\ IF {r \in dns : r.id = job[a].id} = {}
                THEN UNCHANGED faults ELSE Fault("cloudflare")
           /\ dns' \in {dns} \cup {Points(r, home[a], TRUE) :
                                     r \in {r \in dns : r.id = job[a].id}}
           /\ spoiled' = spoiled \cup {job[a].id}
           /\ NextDomain(a)
  <2>1. pc'[a] = "next" /\ pc' = [pc EXCEPT ![a] = pc'[a]]
    BY <1>1, <1>4 DEF TypeOK
  <2>2. \/ dns' = dns
        \/ \E r \in dns : r.id = job[a].id /\ dns' = Points(r, home[a], TRUE)
    BY <1>4
  <2>3. faults' \in Nat
    BY <1>1, <1>4 DEF TypeOK, Fault
  <2>4. /\ spoiled' \subseteq Nat /\ spoiled \subseteq spoiled'
        /\ job[a].id \in spoiled'
    BY <1>1, <1>4
  <2>. QED  BY <1>1, <1>2, <2>1, <2>2, <2>3, <2>4, UpdateKeeps
<1>. QED  BY <1>3, <1>4 DEF EnableProxy

\* Nobody else has created it since the list, and its id is new.
LEMMA CreateRecordKeeps ==
  ASSUME RoutesInv, NEW a \in Apps, CreateRecord(a)
  PROVE  RoutesInv'
<1>. USE DEF Goto, Set, NextDomain, db, app, caddy, flare, past
<1>1. /\ TypeOK /\ Ids /\ NoDuplicates /\ Proxies /\ Own(a) /\ job[a] \in Job
      /\ dns \subseteq Record /\ nextId \in Nat /\ spoiled \subseteq Nat
  BY DEF RoutesInv, Records, TypeOK
<1>2. /\ pc[a] = "create" /\ UNCHANGED <<cf, db, caddy, requests>>
      /\ job[a].op = "deploy" /\ home[a] \in Workers /\ job[a].domain \in May[a]
      /\ job[a].domain \in Domains /\ job[a].id < nextId /\ job[a].id \in Nat
      /\ job[a].domain \in Apart => \A r \in dns : r.name # job[a].domain
  BY <1>1, JobFields, RoutesAssumption
     DEF Own, Ops, DeployPCs, Holds, Vacant, CreateRecord
<1>. DEFINE new == [id |-> nextId, name |-> job[a].domain, content |-> home[a],
                    proxied |-> FALSE, by |-> a, wanted |-> TRUE]
            j   == [job[a] EXCEPT !.id = nextId, !.restore = TRUE]
<1>3. /\ new \in Record /\ new.id = nextId /\ new.name = job[a].domain
      /\ new.content = home[a] /\ new.proxied = FALSE /\ new.by = a
      /\ new.wanted = TRUE
  BY <1>1, <1>2 DEF Record
<1>4. /\ j \in Job /\ j.op = job[a].op /\ j.worker = job[a].worker
      /\ j.old = job[a].old /\ j.todo = job[a].todo /\ j.removed = job[a].removed
      /\ j.domain = job[a].domain /\ j.failed = job[a].failed
      /\ j.id = nextId /\ j.restore = TRUE /\ j.cfg = job[a].cfg
  BY <1>1 DEF Job
<1>5. /\ \/ dns' = dns \cup {new} /\ nextId' = nextId + 1
         \/ dns' = dns /\ nextId' = nextId /\ pc'[a] = "next"
      /\ pc' = [pc EXCEPT ![a] = pc'[a]] /\ job' = [job EXCEPT ![a] = job'[a]]
      /\ \/ pc'[a] = "record" /\ job'[a] = j /\ UNCHANGED <<mishap, spoiled>>
         \/ /\ pc'[a] = "next" /\ job'[a] = job[a] /\ Notes(a, {"dns"})
            /\ spoiled' = spoiled \cup {nextId}
      /\ faults' \in Nat
  <2>1. CASE /\ dns' = dns \cup {new} /\ nextId' = nextId + 1
             /\ Set(a, j) /\ Goto(a, "record") /\ UNCHANGED <<past, faults>>
    <3>. HIDE DEF j, new
    <3>. QED  BY <1>1, <2>1 DEF TypeOK
  <2>2. CASE /\ Fault("cloudflare")
             /\ UNCHANGED flare \/ (dns' = dns \cup {new} /\ nextId' = nextId + 1)
             /\ Notes(a, {"dns"}) /\ spoiled' = spoiled \cup {nextId}
             /\ NextDomain(a) /\ UNCHANGED job
    <3>. HIDE DEF j, new
    <3>1. pc'[a] = "next" /\ pc' = [pc EXCEPT ![a] = pc'[a]]
      BY <1>1, <2>2 DEF TypeOK
    <3>2. job'[a] = job[a] /\ job' = [job EXCEPT ![a] = job'[a]]
      BY <1>1, <2>2 DEF TypeOK
    <3>3. faults' \in Nat
      BY <1>1, <2>2 DEF TypeOK, Fault
    <3>. QED  BY <2>2, <3>1, <3>2, <3>3
  <2>. QED  BY <2>1, <2>2 DEF CreateRecord
<1>. HIDE DEF j, new
<1>6. /\ mishap' \in [Apps -> SUBSET Mishaps] /\ mishap[a] \subseteq mishap'[a]
      /\ \A b \in Apps \ {a} : mishap'[b] = mishap[b]
      /\ pc'[a] = "next" => "dns" \in mishap'[a]
  BY <1>1, <1>5 DEF TypeOK, Notes, Mishaps
<1>7. /\ spoiled \subseteq spoiled' /\ spoiled' \subseteq Nat
      /\ pc'[a] = "next" => nextId \in spoiled'
  BY <1>1, <1>5
<1>8. dns' \subseteq Record /\ nextId' \in Nat /\ nextId <= nextId'
  BY <1>1, <1>3, <1>5
<1>9. TypeOK'
  <2>1. pc'[a] \in PCs /\ job'[a] \in Job
    BY <1>1, <1>4, <1>5 DEF PCs
  <2>. QED  BY <1>1, <1>2, <1>5, <1>6, <1>7, <1>8, <2>1 DEF TypeOK
<1>10. \A b \in Apps \ {a} : pc'[b] = pc[b] /\ job'[b] = job[b]
  BY <1>1, <1>5 DEF TypeOK
<1>11. Lookup(a)
  BY <1>2, <1>4, <1>5, <1>6, <1>7, <1>10 DEF Lookup, AtRecord
<1>12. \A s \in dns' : s \in dns \/ (s = new /\ nextId' = nextId + 1)
  BY <1>5
<1>13. NamesKept
  BY <1>1, <1>3, <1>8, <1>12 DEF NamesKept
<1>14. Ids'
  <2>1. nextId' \in Nat \ {0}
    BY <1>1, <1>5 DEF Ids
  <2>2. \A s \in dns' : s.id \in 1..(nextId' - 1)
    BY <1>1, <1>3, <1>8, <1>12 DEF Ids
  <2>3. \A s, t \in dns' : s.id = t.id => s = t
    BY <1>1, <1>3, <1>12 DEF Ids
  <2>4. \A row \in rows' : /\ row.id < nextId'
                           /\ \A s \in dns' : s.id = row.id => s.name = row.name
    <3>1. \A row \in rows : row.id \in Nat /\ row.id < nextId
      BY <1>1 DEF Ids, TypeOK, DNSRow
    <3>. QED  BY <1>1, <1>2, <1>3, <1>8, <1>12, <3>1 DEF Ids
  <2>5. \A s \in dns', b \in Apps : s.by = b => s.name \in May[b]
    BY <1>1, <1>2, <1>3, <1>12 DEF Ids
  <2>. QED  BY <2>1, <2>2, <2>3, <2>4, <2>5 DEF Ids
<1>15. NoDuplicates'
  BY <1>1, <1>2, <1>3, <1>12 DEF NoDuplicates
<1>16. Proxies'
  <2>1. new.id \in spoiled' \/ (pc'[a] \in Pending /\ job'[a].id = new.id)
    BY <1>3, <1>4, <1>5, <1>7 DEF Pending
  <2>2. \A s \in dns' : \/ s \in dns /\ ~Awaits(a, s.id)
                        \/ s.id \in spoiled' \/ Awaits(a, s.id)'
    BY <1>2, <1>12, <2>1 DEF Awaits, Pending
  <2>. QED  BY <1>7, <1>10, <2>2, ProxiesKeep
<1>17. \A s \in dns : s.id < nextId /\ s.id \in Nat
  BY <1>1 DEF Ids
<1>18. Holds(a)'
  BY <1>1, <1>2, <1>3, <1>4, <1>5, <1>8, <1>12, <1>17 DEF Own, Holds, Known
<1>19. Vacant(a)' /\ Restoring(a)'
  <2>1. pc'[a] = "record" => \A s \in dns' : s.id = job'[a].id => s = new
    BY <1>1, <1>4, <1>5, <1>12, <1>17
  <2>2. pc'[a] \in {"record", "next"} /\ (pc'[a] = "record" => job'[a].restore = TRUE)
    BY <1>4, <1>5
  <2>3. Vacant(a)'
    BY <2>2 DEF Vacant
  <2>4. ASSUME NEW s \in dns', s.id = job'[a].id, pc'[a] = "record"
        PROVE  s.wanted = job'[a].restore /\ ~s.proxied
    <3>1. s = new
      BY <2>1, <2>4
    <3>. QED  BY <1>3, <2>2, <2>4, <3>1
  <2>5. Restoring(a)'
    BY <2>2, <2>4 DEF Restoring, Known, Pending
  <2>. QED  BY <2>3, <2>5
<1>20. Tracked(a)'
  <2>1. \A s \in dns : HasRow(a, s) => HasRow(a, s)'
    BY <1>2 DEF HasRow
  <2>. QED  BY <1>1, <1>2, <1>3, <1>4, <1>5, <1>7, <1>12, <2>1 DEF Own, Tracked
<1>21. \A d \in Ours(a) : Pointed(a, d) => Pointed(a, d)'
  BY <1>2, <1>5 DEF Pointed
<1>22. pc'[a] = "record" => Pointed(a, job[a].domain)'
  BY <1>2, <1>3, <1>4, <1>5 DEF Pointed
<1>23. /\ \A r \in dns' \cup dns :
             r.name \in Apart \ May[a] => (r \in dns <=> r \in dns')
       /\ \A b \in Apps \ {a} : RowsStay(b)
  BY <1>2, <1>3, <1>5 DEF RowsStay
<1>24. Records' /\ pc'[a] \in {"next", "record"}
  BY <1>5, <1>14, <1>15, <1>16 DEF Records
<1>. QED  BY <1>2, <1>6, <1>9, <1>11, <1>13, <1>18, <1>19, <1>20, <1>21, <1>22,
             <1>23, <1>24, LookupKeeps

---------------------------------------------------------------------------
(* The end of Undeploy.                                                    *)

\* What an undeployment requires of a itself.
LEMMA UndeployOwn ==
  ASSUME NEW a \in Apps,
         Ops(a)', Holds(a)', Vacant(a)', Restoring(a)', Tracked(a)',
         job'[a].op \in {"none", "undeploy"},
         pc'[a] # "idle" \/ last'[a] # "success"
  PROVE  Own(a)'
<1>1. ~Resting(a)' /\ ~Deploying(a)'
  BY DEF Resting, Deploying
<1>. QED  BY <1>1, NothingRequired DEF Own

\* Every record that was created for the app has its row, and goes.
LEMMA DeleteDNSRecordsKeeps ==
  ASSUME RoutesInv, NEW a \in Apps, DeleteDNSRecords(a)
  PROVE  RoutesInv'
<1>. USE DEF Goto, db, app, caddy
<1>1. /\ TypeOK /\ Placed /\ Ids /\ NoDuplicates /\ Proxies /\ Own(a)
      /\ dns \subseteq Record
  BY DEF RoutesInv, Records, TypeOK
<1>2. /\ pc[a] = "deleteDNS" /\ pc' = [pc EXCEPT ![a] = "deleteRow"]
      /\ UNCHANGED <<cf, db, caddy, nextId, job, spoiled, requests>>
      /\ job[a].op = "undeploy" /\ routes[a] \subseteq May[a]
  BY <1>1 DEF Own, Ops, DeleteDNSRecords
<1>. DEFINE ids == {r.id : r \in Deletable(a)}
<1>3. PICK kept \in SUBSET ids :
        /\ UNCHANGED faults \/ Fault("cloudflare")
        /\ dns' = {r \in dns : r.id \notin ids \ kept}
        /\ Notes(a, IF kept = {} THEN {} ELSE {"kept"})
  BY DEF DeleteDNSRecords, Deleted
<1>4. \A r \in dns : r.id \in ids => r.name \in May[a]
  BY <1>1, <1>2 DEF Deletable, Ids
<1>5. \A r \in dns : servers = Workers /\ HasRow(a, r) /\ r.name \in routes[a] =>
        r.id \in ids
  BY DEF HasRow, Deletable
<1>. HIDE DEF ids
<1>6. /\ mishap' \in [Apps -> SUBSET Mishaps] /\ mishap[a] \subseteq mishap'[a]
      /\ \A b \in Apps \ {a} : mishap'[b] = mishap[b]
      /\ kept # {} => "kept" \in mishap'[a]
  BY <1>1, <1>3 DEF TypeOK, Notes, Mishaps
<1>7. pc'[a] = "deleteRow" /\ \A b \in Apps \ {a} : pc'[b] = pc[b]
  BY <1>1, <1>2 DEF TypeOK
<1>8. TypeOK'
  <2>1. faults' \in Nat /\ dns' \subseteq Record
    BY <1>1, <1>3 DEF TypeOK, Fault
  <2>. QED  BY <1>1, <1>2, <1>6, <2>1 DEF TypeOK, PCs
<1>9. dns' \subseteq dns
  BY <1>3
<1>10. NamesKept /\ Ids' /\ NoDuplicates'
  BY <1>1, <1>2, <1>9 DEF NamesKept, Ids, NoDuplicates, TypeOK
<1>11. Proxies' /\ Placed'
  BY <1>1, <1>2, <1>7, <1>9, ProxiesKeep DEF Awaits, Pending, Placed
<1>12. Within(a)
  BY <1>2, <1>3, <1>4, <1>6, <1>7, <1>9 DEF Within, RowsStay, SavedStay
<1>13. Ops(a)' /\ Holds(a)' /\ Vacant(a)' /\ Restoring(a)'
  BY <1>1, <1>2, <1>7, <1>9
     DEF Own, Ops, Holds, Vacant, Restoring, Known, Pending, DeployPCs
<1>14. Tracked(a)'
  <2>1. ASSUME NEW r \in dns', r.by = a, r.id \notin spoiled
        PROVE  HasRow(a, r)
    BY <1>1, <1>2, <1>9, <2>1 DEF Own, Tracked
  <2>2. \A r : HasRow(a, r) => HasRow(a, r)'
    BY <1>2 DEF HasRow
  <2>3. ASSUME "kept" \notin mishap'[a], servers = Workers,
               NEW r \in dns', r.by = a, r.name \in routes[a]
        PROVE  r.id \in spoiled
    BY <1>3, <1>5, <1>6, <2>1, <2>3
  <2>. QED  BY <1>2, <2>1, <2>2, <2>3 DEF Tracked
<1>15. Own(a)'
  BY <1>2, <1>7, <1>13, <1>14, UndeployOwn
<1>. QED  BY <1>8, <1>10, <1>11, <1>12, <1>15, StepKeeps DEF Records

\* The app is gone; what is left was created for nobody.
LEMMA ForgetKeeps ==
  ASSUME RoutesInv, NEW a \in Apps, Forget(a)
  PROVE  RoutesInv'
<1>. USE DEF Forget, Return, Goto, Set, caddy, past, bound
<1>1. /\ TypeOK /\ Placed /\ Ids /\ NoDuplicates /\ Proxies /\ Own(a)
      /\ dns \subseteq Record
  BY DEF RoutesInv, Records, TypeOK
<1>. DEFINE Left(r) == IF r.by = a THEN [r EXCEPT !.by = None] ELSE r
<1>2. \A r \in dns : /\ Left(r) \in Record /\ Left(r).id = r.id
                     /\ Left(r).name = r.name /\ Left(r).proxied = r.proxied
                     /\ Left(r).wanted = r.wanted /\ Left(r).by # a
                     /\ Left(r).by \in Apps => Left(r) = r
  BY <1>1, RoutesAssumption DEF Record
<1>3. dns' = {Left(r) : r \in dns}
  OBVIOUS
<1>4. \A r \in dns : r.name \notin May[a] => Left(r) = r
  BY <1>1 DEF Ids
<1>. HIDE DEF Left
<1>5. /\ pc'[a] = "idle" /\ job'[a] = NoJob /\ status'[a] = "absent"
      /\ last'[a] = "none" /\ routes'[a] = {} /\ pc[a] = "deleteRow"
      /\ \A b \in Apps \ {a} :
           /\ pc'[b] = pc[b] /\ job'[b] = job[b] /\ status'[b] = status[b]
           /\ last'[b] = last[b] /\ primary'[b] = primary[b]
           /\ home'[b] = home[b] /\ routes'[b] = routes[b]
           /\ mishap'[b] = mishap[b]
  BY <1>1 DEF TypeOK
<1>6. TypeOK'
  <2>1. dns' \subseteq Record /\ rows' \subseteq DNSRow
    BY <1>1, <1>2, <1>3 DEF TypeOK
  <2>2. status' \in [Apps -> Statuses]
    BY <1>1 DEF TypeOK, Statuses
  <2>. QED  BY <1>1, <2>1, <2>2, NoJobTyped DEF TypeOK, PCs
<1>7. \A s \in dns' : \E r \in dns :
        s = Left(r) /\ s.id = r.id /\ s.name = r.name
  BY <1>2, <1>3
<1>8. Ids'
  <2>1. \A s, t \in dns' : s.id = t.id => s = t
    BY <1>1, <1>7 DEF Ids
  <2>2. \A s \in dns', b \in Apps : s.by = b => s.name \in May[b]
    BY <1>1, <1>2, <1>7 DEF Ids
  <2>3. \A s \in dns' : s.id \in 1..(nextId - 1)
    BY <1>1, <1>7 DEF Ids
  <2>4. \A row \in rows' : /\ row.id < nextId
                           /\ \A s \in dns' : s.id = row.id => s.name = row.name
    BY <1>1, <1>7 DEF Ids
  <2>. QED  BY <1>1, <2>1, <2>2, <2>3, <2>4 DEF Ids
<1>9. NamesKept /\ NoDuplicates'
  BY <1>1, <1>7 DEF NamesKept, NoDuplicates, TypeOK
<1>10. Proxies'
  <2>. SUFFICES ASSUME NEW s \in dns', s.name \in Apart, s.id \notin spoiled,
                       s.proxied # s.wanted
                PROVE  \E b \in Apps : Awaits(b, s.id)'
    BY DEF Proxies
  <2>1. PICK r \in dns : /\ r.id = s.id /\ r.proxied = s.proxied
                         /\ r.wanted = s.wanted /\ r.name = s.name
    BY <1>2, <1>7
  <2>2. PICK b \in Apps : Awaits(b, r.id)
    BY <1>1, <2>1 DEF Proxies
  <2>. QED  BY <1>5, <2>1, <2>2 DEF Awaits, Pending
<1>11. Within(a)
  <2>1. \A r \in dns' \cup dns : r.name \notin May[a] => (r \in dns <=> r \in dns')
    BY <1>3, <1>4, <1>7
  <2>2. \A b \in Apps \ {a} : RowsStay(b) /\ SavedStay(b)
    BY <1>2, <1>7 DEF RowsStay, SavedStay
  <2>. QED  BY <1>5, <2>1, <2>2 DEF Within
<1>12. Ops(a)' /\ Vacant(a)' /\ Restoring(a)'
  <2>1. NoJob.op = "none" /\ NoJob.todo = {} /\ NoJob.removed = {}
    BY DEF NoJob
  <2>2. Ops(a)'
    BY <1>5, <2>1 DEF Ops, DeployPCs
  <2>. QED  BY <1>5, <2>2 DEF Vacant, Restoring, Known, Pending
<1>13. Holds(a)'
  BY <1>1, <1>5, <1>7 DEF Holds, Ids, NoJob
<1>14. Tracked(a)'
  BY <1>2, <1>5, <1>7 DEF Tracked
<1>15. Own(a)'
  BY <1>5, <1>12, <1>13, <1>14, UndeployOwn DEF NoJob
<1>16. Placed'
  BY <1>1, <1>5, PlacedKept DEF NoJob
<1>. QED  BY <1>6, <1>8, <1>9, <1>10, <1>11, <1>15, <1>16, StepKeeps DEF Records

---------------------------------------------------------------------------
(* The world.                                                              *)

\* Nothing of an app is touched.
LEMMA WorldKeeps ==
  ASSUME RoutesInv, TypeOK', servers' \subseteq servers,
         UNCHANGED <<app, rows, running, saved, flare, pc, job, past>>
  PROVE  RoutesInv'
<1>. USE DEF app, flare, past
<1>1. TypeOK /\ Placed /\ Ids /\ NoDuplicates /\ Proxies
  BY DEF RoutesInv, Records
<1>2. Ids' /\ NoDuplicates' /\ Proxies' /\ NamesKept /\ Placed'
  BY <1>1 DEF Ids, NoDuplicates, Proxies, Awaits, NamesKept, TypeOK, Placed
<1>3. ASSUME NEW b \in Apps  PROVE Own(b)'
  <2>1. Spares(b)
    BY DEF Spares, RowsStay, SavedStay
  <2>. QED  BY <1>1, <1>2, <2>1, Spared DEF RoutesInv
<1>. QED  BY <1>2, <1>3 DEF RoutesInv, Records

\* A server without an app goes.
LEMMA DeleteServerKeeps ==
  ASSUME RoutesInv, NEW w \in Workers, DeleteServer(w)
  PROVE  RoutesInv'
<1>. USE DEF DeleteServer, Requested, caddy, flare, past
<1>1. TypeOK'
  BY DEF RoutesInv, TypeOK, app
<1>. QED  BY <1>1, WorldKeeps

\* The running routes are those of the file: as good, for an app at rest.
LEMMA RestartCaddyKeeps ==
  ASSUME RoutesInv, NEW w \in Workers, RestartCaddy(w)
  PROVE  RoutesInv'
<1>. USE DEF RestartCaddy, Fault, db, app, flare
<1>1. TypeOK /\ Placed /\ Ids /\ NoDuplicates /\ Proxies
  BY DEF RoutesInv, Records
<1>2. /\ mishap' \in [Apps -> SUBSET Mishaps]
      /\ \A b \in Apps : /\ mishap[b] \subseteq mishap'[b] /\ "reboot" \in mishap'[b]
                         /\ pc[b] # "idle" => "restart" \in mishap'[b]
  BY <1>1 DEF TypeOK, Mishaps
<1>3. TypeOK'
  BY <1>1, <1>2 DEF TypeOK
<1>4. Records' /\ Placed'
  BY <1>1 DEF Records, Ids, NoDuplicates, Proxies, Awaits, Placed, TypeOK
<1>5. ASSUME NEW b \in Apps  PROVE Own(b)'
  <2>1. Own(b)
    BY DEF RoutesInv
  <2>2. Ops(b)' /\ Holds(b)' /\ Vacant(b)' /\ Restoring(b)'
    BY <2>1 DEF Own, Ops, Holds, Vacant, Restoring
  <2>3. Tracked(b)'
    BY <1>2, <2>1 DEF Own, Tracked, HasRow
  <2>4. PointedInv(b)'
    BY <1>2, <2>1
       DEF Own, Reachable, PointedInv, Resting, Deploying, Pointed, Ours
  <2>5. ServedInv(b)'
    BY <1>2 DEF ServedInv
  <2>6. KeptInv(b)'
    <3>. SUFFICES ASSUME mishap'[b] \cap Loss = {},
                         Resting(b)' \/ Deploying(b)', NEW d \in Ours(b)
                  PROVE  Kept(b, d)'
      BY DEF KeptInv, Ours
    <3>1. pc[b] = "idle" /\ job[b] = NoJob
      BY <1>2, <2>1 DEF Own, Ops, Loss
    <3>2. Resting(b) /\ home[b] \in Workers
      BY <2>1, <3>1 DEF Resting, Deploying, NoJob, Own, Ops
    <3>3. Kept(b, d)
      BY <1>2, <2>1, <3>2 DEF Own, Reachable, KeptInv
    <3>. QED  BY <1>1, <3>2, <3>3 DEF Kept, Served, TypeOK
  <2>. QED  BY <2>2, <2>3, <2>4, <2>5, <2>6 DEF Own, Reachable
<1>. QED  BY <1>3, <1>4, <1>5 DEF RoutesInv

\* FailInterrupted: every operation is cut off, and the records that it held are
\* spoiled.
LEMMA RestartKeeps ==
  ASSUME RoutesInv, Restart
  PROVE  RoutesInv'
<1>. USE DEF Restart, Fault, caddy, flare
<1>1. TypeOK /\ Placed /\ Ids /\ NoDuplicates /\ Proxies
  BY DEF RoutesInv, Records
<1>2. \A b \in Apps :
        /\ mishap[b] \subseteq mishap'[b]
        /\ pc[b] # "idle" => "crash" \in mishap'[b]
        /\ pc'[b] = "idle" /\ job'[b] = NoJob
        /\ last'[b] # "none" => last[b] # "none" \/ status[b] # "absent"
        /\ last'[b] = "success" => last[b] = "success"
        /\ status'[b] # "absent" => status[b] # "absent"
  BY <1>1 DEF TypeOK
<1>3. TypeOK'
  <2>1. /\ mishap' \in [Apps -> SUBSET Mishaps]
        /\ status' \in [Apps -> Statuses]
        /\ last' \in [Apps -> {"none", "success", "failed"}]
    BY <1>1 DEF TypeOK, Mishaps, Statuses
  <2>2. spoiled' \subseteq Nat
    <3>1. \A b \in Apps : job[b].id \in Nat
      BY <1>1, JobFields DEF TypeOK
    <3>. QED  BY <1>1, <3>1 DEF TypeOK
  <2>3. faults' \in Nat
    BY <1>1 DEF TypeOK
  <2>. QED  BY <1>1, <2>1, <2>2, <2>3, NoJobTyped DEF TypeOK, PCs
<1>4. spoiled \subseteq spoiled'
  OBVIOUS
<1>5. \A b \in Apps : pc[b] \in Pending => job[b].id \in spoiled'
  BY DEF Pending
<1>6. Records'
  <2>1. Proxies'
    BY <1>1, <1>4, <1>5 DEF Proxies, Awaits
  <2>. QED  BY <1>1, <2>1 DEF Records, Ids, NoDuplicates
<1>7. ASSUME NEW b \in Apps  PROVE Own(b)'
  <2>1. Own(b)
    BY DEF RoutesInv
  <2>2. NoJob.op = "none" /\ NoJob.todo = {} /\ NoJob.removed = {} /\ NoJob.id = 0
    BY DEF NoJob
  <2>3. Ops(b)'
    BY <1>2, <2>1, <2>2 DEF Own, Ops, DeployPCs
  <2>4. Holds(b)' /\ Vacant(b)' /\ Restoring(b)'
    BY <1>1, <1>2, <2>2 DEF Holds, Vacant, Restoring, Ids, Known, Pending
  <2>5. Tracked(b)'
    BY <1>2, <1>4, <1>5, <2>1 DEF Own, Tracked, HasRow, Pending
  <2>6. ASSUME "crash" \notin mishap'[b], Resting(b)' \/ Deploying(b)'
        PROVE  Resting(b) /\ ~Deploying(b)'
    BY <1>2, <2>2, <2>6 DEF Resting, Deploying
  <2>7. PointedInv(b)'
    BY <1>2, <2>1, <2>6 DEF Own, Reachable, PointedInv, Pointed, Ours
  <2>8. ServedInv(b)'
    BY <1>2, <2>1, <2>6 DEF Own, Reachable, ServedInv, Served, Ours
  <2>9. KeptInv(b)'
    BY <1>2, <2>1, <2>6 DEF Own, Reachable, KeptInv, Served, Kept, Ours, Loss
  <2>. QED  BY <2>3, <2>4, <2>5, <2>7, <2>8, <2>9 DEF Own, Reachable
<1>8. Placed'
  <2>1. \A b \in Apps : job'[b].cfg \in {job[b].cfg, NoRoutes}
    BY <1>2 DEF NoJob
  <2>. QED  BY <1>1, <2>1, PlacedKept
<1>. QED  BY <1>3, <1>6, <1>7, <1>8 DEF RoutesInv

\* The owner's choice is what the record is to have from now on.
LEMMA OwnerEditsKeeps ==
  ASSUME RoutesInv, OwnerEdits
  PROVE  RoutesInv'
<1>. USE DEF db, app, caddy
<1>1. TypeOK /\ Placed /\ Ids /\ NoDuplicates /\ Proxies /\ dns \subseteq Record
  BY DEF RoutesInv, Records, TypeOK
<1>2. UNCHANGED <<cf, db, caddy, nextId, pc, job, requests>> /\ faults' \in Nat
  <2>1. Fault("owner") /\ UNCHANGED <<cf, db, caddy, nextId, pc, job, requests>>
    BY DEF OwnerEdits
  <2>2. faults' \in Nat
    BY <1>1, <2>1 DEF Fault, TypeOK
  <2>. QED  BY <2>1, <2>2
<1>3. PICK r \in dns :
        /\ \/ dns' = dns \ {r}
           \/ \E p \in BOOLEAN :
                dns' = (dns \ {r}) \cup {[r EXCEPT !.content = Elsewhere,
                                            !.proxied = p, !.wanted = p]}
        /\ mishap' = [b \in Apps |-> IF r.name \in routes[b]
                        THEN mishap[b] \cup {"dns"} ELSE mishap[b]]
        /\ spoiled' = spoiled \cup (IF \E b \in Apps : job[b].id = r.id
                                      THEN {r.id} ELSE {})
  BY DEF OwnerEdits
<1>4. \A s \in dns' : \/ s \in dns /\ s # r
                      \/ /\ s \in Record /\ s.id = r.id /\ s.name = r.name
                         /\ s.by = r.by /\ s.proxied = s.wanted
                         /\ \A t \in dns' : t.id = s.id => t = s
  <2>1. CASE dns' = dns \ {r}
    BY <2>1
  <2>2. ASSUME NEW p \in BOOLEAN,
               dns' = (dns \ {r}) \cup {[r EXCEPT !.content = Elsewhere,
                                           !.proxied = p, !.wanted = p]}
        PROVE  \A s \in dns' : \/ s \in dns /\ s # r
                               \/ /\ s \in Record /\ s.id = r.id /\ s.name = r.name
                                  /\ s.by = r.by /\ s.proxied = s.wanted
                                  /\ \A t \in dns' : t.id = s.id => t = s
    <3>. DEFINE q == [r EXCEPT !.content = Elsewhere, !.proxied = p, !.wanted = p]
    <3>1. /\ q \in Record /\ q.id = r.id /\ q.name = r.name /\ q.by = r.by
          /\ q.proxied = q.wanted
      BY <1>1 DEF Record
    <3>2. dns' = (dns \ {r}) \cup {q}
      BY <2>2
    <3>. HIDE DEF q
    <3>. QED  BY <1>1, <3>1, <3>2 DEF Ids
  <2>. QED  BY <1>3, <2>1, <2>2
<1>5. \A s \in dns : s # r => s \in dns'
  BY <1>3
<1>6. \A s \in dns' : \E t \in dns : s.id = t.id /\ s.name = t.name /\ s.by = t.by
  BY <1>4
<1>7. /\ mishap' \in [Apps -> SUBSET Mishaps]
      /\ \A b \in Apps : /\ mishap[b] \subseteq mishap'[b]
                         /\ r.name \in routes[b] => "dns" \in mishap'[b]
  BY <1>1, <1>3 DEF TypeOK, Mishaps
<1>8. /\ spoiled \subseteq spoiled' /\ spoiled' \subseteq Nat
      /\ \A b \in Apps : job[b].id = r.id => r.id \in spoiled'
  BY <1>1, <1>3 DEF TypeOK, Record
<1>9. TypeOK'
  <2>1. dns' \subseteq Record
    BY <1>1, <1>4
  <2>. QED  BY <1>1, <1>2, <1>7, <1>8, <2>1 DEF TypeOK
<1>10. Ids'
  <2>1. \A s, t \in dns' : s.id = t.id => s = t
    BY <1>1, <1>4 DEF Ids
  <2>2. \A s \in dns', b \in Apps : s.by = b => s.name \in May[b]
    BY <1>1, <1>6 DEF Ids
  <2>3. \A s \in dns' : s.id \in 1..(nextId - 1)
    BY <1>1, <1>6 DEF Ids
  <2>4. \A row \in rows : \A s \in dns' : s.id = row.id => s.name = row.name
    BY <1>1, <1>6 DEF Ids
  <2>. QED  BY <1>1, <1>2, <2>1, <2>2, <2>3, <2>4 DEF Ids
<1>11. NoDuplicates'
  BY <1>1, <1>4, <1>10 DEF NoDuplicates, Ids
<1>12. Proxies'
  BY <1>1, <1>2, <1>4, <1>8 DEF Proxies, Awaits
<1>13. ASSUME NEW b \in Apps  PROVE Own(b)'
  <2>1. Own(b)
    BY DEF RoutesInv
  <2>2. Ops(b)'
    BY <1>2, <2>1 DEF Own, Ops
  <2>3. Holds(b)' /\ Vacant(b)'
    BY <1>2, <1>6, <2>1 DEF Own, Holds, Vacant
  <2>4. Restoring(b)'
    BY <1>2, <1>4, <1>8, <2>1 DEF Own, Restoring
  <2>5. Tracked(b)'
    <3>1. ASSUME NEW s \in dns', s.by = b, s.id \notin spoiled'
          PROVE  \/ pc'[b] = "record" /\ job'[b].id = s.id
                 \/ HasRow(b, s)'
      <4>1. PICK t \in dns : s.id = t.id /\ s.name = t.name /\ s.by = t.by
        BY <1>6
      <4>2. \/ pc[b] = "record" /\ job[b].id = t.id
            \/ HasRow(b, t)
        BY <1>8, <2>1, <3>1, <4>1 DEF Own, Tracked
      <4>. QED  BY <1>2, <4>1, <4>2 DEF HasRow
    <3>2. ASSUME pc[b] = "deleteRow", "kept" \notin mishap'[b], servers = Workers,
                 NEW s \in dns', s.by = b, s.name \in routes[b]
          PROVE  s.id \in spoiled'
      <4>1. PICK t \in dns : s.id = t.id /\ s.name = t.name /\ s.by = t.by
        BY <1>6
      <4>. QED  BY <1>7, <1>8, <2>1, <3>2, <4>1 DEF Own, Tracked
    <3>. QED  BY <1>2, <3>1, <3>2 DEF Tracked
  <2>6. ASSUME "dns" \notin mishap'[b], NEW d \in Ours(b), Pointed(b, d)
        PROVE  Pointed(b, d)'
    BY <1>2, <1>5, <1>7, <2>6 DEF Pointed, Ours
  <2>7. /\ Resting(b)' = Resting(b) /\ Deploying(b)' = Deploying(b)
        /\ Ours(b)' = Ours(b)
    BY <1>2 DEF Resting, Deploying, Ours
  <2>8. PointedInv(b)'
    BY <1>2, <1>7, <2>1, <2>6, <2>7 DEF Own, Reachable, PointedInv
  <2>9. ServedInv(b)'
    BY <1>2, <1>7, <2>1, <2>7 DEF Own, Reachable, ServedInv, Served
  <2>10. KeptInv(b)'
    BY <1>2, <1>7, <2>1, <2>7
       DEF Own, Reachable, KeptInv, Served, Kept, OnItsWay
  <2>. QED  BY <2>2, <2>3, <2>4, <2>5, <2>8, <2>9, <2>10 DEF Own, Reachable
<1>14. Placed'
  BY <1>1, <1>2 DEF Placed
<1>. QED  BY <1>9, <1>10, <1>11, <1>12, <1>13, <1>14 DEF RoutesInv, Records

---------------------------------------------------------------------------
(* The invariant, and what follows from it.                                *)

\* A new installation satisfies the invariant.
LEMMA RoutesStart == Init => RoutesInv
<1>. SUFFICES ASSUME Init  PROVE RoutesInv
  OBVIOUS
<1>. USE DEF Init
<1>1. /\ nextId \in {1, 2}
      /\ \A r \in dns : /\ r \in Record /\ r.id = 1 /\ nextId = 2 /\ r.by = None
                        /\ r.proxied = r.wanted
                        /\ \A q \in dns : q = r
  <2>1. CASE dns = {} /\ nextId = 1
    BY <2>1
  <2>2. ASSUME NEW o \in Owned, nextId = 2,
               dns = {[id |-> 1, name |-> o[1], content |-> Elsewhere,
                       proxied |-> o[2], by |-> None, wanted |-> o[2]]}
        PROVE  <1>1!1 /\ <1>1!2
    <3>1. o[1] \in Domains /\ o[2] \in BOOLEAN
      BY RoutesAssumption
    <3>. QED  BY <2>2, <3>1 DEF Record
  <2>. QED  BY <2>1, <2>2
<1>2. TypeOK
  BY <1>1, NoJobTyped DEF TypeOK, PCs, Statuses
<1>3. Ids /\ NoDuplicates /\ Proxies
  BY <1>1, RoutesAssumption DEF Ids, NoDuplicates, Proxies
<1>4. ASSUME NEW a \in Apps  PROVE Own(a)
  <2>1. NoJob.op = "none" /\ NoJob.todo = {} /\ NoJob.removed = {} /\ NoJob.id = 0
    BY DEF NoJob
  <2>2. Ops(a)
    BY <2>1 DEF Ops, DeployPCs
  <2>3. Holds(a) /\ Vacant(a) /\ Restoring(a)
    BY <1>1, <2>1 DEF Holds, Vacant, Restoring, Known, Pending
  <2>4. Tracked(a)
    BY <1>1, RoutesAssumption DEF Tracked
  <2>5. ~Resting(a) /\ ~Deploying(a)
    BY <2>1 DEF Resting, Deploying
  <2>6. Reachable(a)
    BY <2>5 DEF Reachable, PointedInv, ServedInv, KeptInv
  <2>. QED  BY <2>2, <2>3, <2>4, <2>6 DEF Own
<1>5. Placed
  BY DEF Placed, Rightful, NoRoutes, NoJob
<1>. QED  BY <1>2, <1>3, <1>4, <1>5 DEF RoutesInv, Records

\* Every step keeps the invariant.
LEMMA RoutesStep == RoutesInv /\ [Next]_vars => RoutesInv'
<1>. SUFFICES ASSUME RoutesInv, [Next]_vars  PROVE RoutesInv'
  OBVIOUS
<1>1. ASSUME NEW a \in Apps, Step(a)  PROVE RoutesInv'
  BY <1>1, CopyKeeps, DeployFailsKeeps, RemoveOldKeeps, SetupDomainKeeps, UnrouteKeeps,
     PostRouteKeeps, FetchConfigKeeps, WriteConfigKeeps, ListRecordsKeeps,
     TrackRecordKeeps, PointRecordKeeps, CreateRecordKeeps, SaveDNSRecordKeeps,
     WaitForCertificateKeeps, EnableProxyKeeps, UpdateDNSRecordProxiedKeeps,
     FinishKeeps, TakeDownKeeps, DeleteDNSRecordsKeeps, ForgetKeeps
     DEF Step
<1>2. ASSUME NEW a \in Apps, Stop(a) \/ Start(a)  PROVE RoutesInv'
  BY <1>2, StopStartKeeps DEF Stop, Start
<1>3. ASSUME UNCHANGED vars  PROVE RoutesInv'
  <2>1. TypeOK'
    BY <1>3 DEF vars, db, app, caddy, flare, past, bound, RoutesInv, TypeOK
  <2>. QED  BY <1>3, <2>1, WorldKeeps DEF vars, db, caddy
<1>4. ASSUME NEW a \in Apps, Request(a)  PROVE RoutesInv'
  BY <1>4, EditKeeps, MoveKeeps DEF Request
<1>. QED  BY <1>1, <1>2, <1>3, <1>4, UndeployKeeps, DeleteServerKeeps,
             RestartCaddyKeeps, OwnerEditsKeeps, RestartKeeps DEF Next

\* Every reachable state satisfies the invariant.
THEOREM RoutesInvariant == Spec => []RoutesInv
  BY RoutesStart, RoutesStep, PTL DEF Spec

\* The tables, the configurations and the records keep their shape.
THEOREM RoutesTyped == Spec => []TypeOK
<1>1. RoutesInv => TypeOK
  BY DEF RoutesInv
<1>. QED  BY <1>1, RoutesInvariant, PTL

\* setupRouteAndDNSForDomain never leaves two A records for a domain that one app
\* only may be given: between its list and its creation nobody creates one, a
\* creation whose answer is lost is found by the next list, and a record that is
\* pointed elsewhere or given back its proxy is not a new one.
THEOREM OneRecordPerDomain == Spec => []NoDuplicates
<1>1. RoutesInv => NoDuplicates
  BY DEF RoutesInv, Records
<1>. QED  BY <1>1, RoutesInvariant, PTL

\* The proxy that is switched off for the certificate is switched on again, for
\* exactly the records that had it or that Dockify created, whatever the other
\* apps do meanwhile.
THEOREM ProxyIsGivenBack == Spec => []ProxyGivenBack
<1>1. RoutesInv => ProxyGivenBack
  BY DEF RoutesInv, Records, Proxies, Awaits, ProxyGivenBack
<1>. QED  BY <1>1, RoutesInvariant, PTL

\* At rest after a deployment that succeeded, without an error of Cloudflare's, each
\* domain of the app has a record at its server, after any number of moves,
\* completed or aborted, of stops and of starts.
THEOREM RecordsPointHome == Spec => []PointsHome
<1>1. RoutesInv => PointsHome
  BY DEF RoutesInv, Own, Reachable, PointedInv, Resting, Ours, Pointed, PointsHome,
         Settled
<1>. QED  BY <1>1, RoutesInvariant, PTL

\* At rest after a deployment that succeeded each domain leads to the app at its
\* server: what other operations remove and post there, whether with the same
\* identifiers or not, is never its route.
THEOREM RoutesLead == Spec => []RoutesServed
<1>1. RoutesInv => RoutesServed
  BY DEF RoutesInv, Own, Reachable, ServedInv, Resting, Ours, Served, RoutesServed,
         Settled
<1>. QED  BY <1>1, RoutesInvariant, PTL

\* And it is in the file that Caddy starts with, although SaveConfig of any app
\* writes the whole file from what it fetched before, but for the writes that
\* are older than the file.
THEOREM RoutesStay == Spec => []RoutesSurvive
<1>1. RoutesInv => RoutesSurvive
  BY DEF RoutesInv, Own, Reachable, KeptInv, Resting, Ours, Kept, Served, Loss,
         RoutesSurvive, Settled
<1>. QED  BY <1>1, RoutesInvariant, PTL

\* The rows of dns_records are enough to find what was created: deleteDNSRecords
\* has removed it all before the app's row goes.
THEOREM UndeployLeavesNoRecord == Spec => CreatedRecordsGone
<1>1. ASSUME RoutesInv
      PROVE  [\A a \in Apps :
                Forget(a) /\ "kept" \notin mishap[a] /\ servers = Workers =>
                  \A r \in dns : r.by = a /\ r.name \in routes[a] =>
                                   r.id \in spoiled]_vars
  <2>. SUFFICES ASSUME NEW a \in Apps, Forget(a), "kept" \notin mishap[a],
                       servers = Workers
                PROVE  \A r \in dns : r.by = a /\ r.name \in routes[a] =>
                                        r.id \in spoiled
    OBVIOUS
  <2>. QED  BY <1>1 DEF RoutesInv, Own, Tracked, Forget
<1>. QED  BY <1>1, RoutesInvariant, PTL DEF CreatedRecordsGone

=============================================================================
