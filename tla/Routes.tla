------------------------------- MODULE Routes -------------------------------
(***************************************************************************)
(* The ways by which a domain reaches an app: the routes of the workers'   *)
(* Caddy (internal/caddy), running and saved, and the DNS records at       *)
(* Cloudflare (internal/cloudflare) with the rows that track them.         *)
(*                                                                         *)
(* There is one process per app: AppLifecycle shows that the operations of *)
(* an app exclude one another.  Operations of two apps interleave, and     *)
(* meet in the Caddy of a worker; they may also be given the same domain,  *)
(* or domains with the same identifier in Caddy.  A step is one SQL        *)
(* statement, one request to Caddy's admin API or one to Cloudflare.       *)
(* Drafts are left out: nothing of a draft is outside the database.        *)
(***************************************************************************)
EXTENDS Naturals

CONSTANTS
  Apps,
  Workers,       \* Dockify's servers, as the address in host
  Elsewhere,     \* an address that is not Dockify's
  Domains,
  May,           \* May[a]: the domains that app a may be given
  Id,            \* Id[d]: the identifier of the route of d in Caddy (sanitizeID)
  Owned,         \* the domains that may have a record of their owner at first,
                 \* each with its proxy setting
  None,
  Faults,        \* what may fail
  MaxRequests,   \* bound: requests but Undeploy in a behaviour
  MaxFaults      \* bound: things that go wrong in a behaviour

\* A deployment, the copy of a move, requests to Caddy, SaveConfig and requests to
\* Cloudflare fail, a certificate does not arrive in time, a Caddy restarts, the
\* owner of a domain changes its records, the controller stops.
AllFaults == {"deploy", "copy", "caddy", "save", "cloudflare", "timeout",
              "restart", "owner", "crash"}

ASSUME RoutesAssumption ==
  /\ Elsewhere \notin Workers
  /\ None \notin Apps \cup Workers \cup Domains \cup {Elsewhere}
  /\ May \in [Apps -> SUBSET Domains]
  /\ DOMAIN Id = Domains
  /\ Faults \subseteq AllFaults
  /\ Owned \subseteq Domains \X BOOLEAN
  /\ MaxRequests \in Nat /\ MaxFaults \in Nat

VARIABLES
  servers,   \* the workers with a row in table servers
  cf,        \* the controller was started with an account at Cloudflare
  status,    \* status[a]: apps.status, "absent" without a row
  last,      \* last[a]: the status of its newest row in table deployments
  primary,   \* primary[a]: apps.domain is not empty
  home,      \* home[a]: the worker of apps.server_id
  routes,    \* routes[a]: the domains of a in table routes
  rows,      \* table dns_records
  running,   \* running[w]: the routes of Caddy's running configuration
  saved,     \* saved[w]: those of the file that Caddy starts with
  dns,       \* the A records at Cloudflare
  nextId,    \* the identifier of the next record
  pc, job,   \* what each operation does next, and its local variables
  mishap,    \* mishap[a]: what went wrong in the last operation (history)
  spoiled,   \* the records whose proxy setting was not given back (history)
  requests, faults

app    == <<status, last, primary, home, routes>>
db     == <<servers, app, rows>>
caddy  == <<running, saved>>
flare  == <<dns, nextId>>
past   == <<mishap, spoiled>>
bound  == <<requests, faults>>
vars   == <<cf, db, caddy, flare, pc, job, past, bound>>

---------------------------------------------------------------------------
(* Types.                                                                  *)

\* A route leads from its domain to an app: its target names the app's service.
Config == [Domains -> Apps \cup {None}]

\* by: the app for which Dockify created it; wanted: the proxy setting that it
\* is to have (both history).
Record == [id : Nat, name : Domains, content : Workers \cup {Elsewhere},
           proxied : BOOLEAN, by : Apps \cup {None}, wanted : BOOLEAN]

DNSRow == [app : Apps, id : Nat, name : Domains,
           content : Workers \cup {Elsewhere}, proxied : BOOLEAN]

Mishaps == {"reboot", "restart", "race", "save", "dns", "kept", "crash"}

Statuses == {"absent", "deploying", "running", "stopped", "failed"}

Job == [op : {"none", "deploy", "cleanup", "undeploy"},
        worker : Workers \cup {None}, old : Workers \cup {None},
        removed : SUBSET Domains, todo : SUBSET Domains,
        domain : Domains \cup {None}, cfg : Config, id : Nat,
        was : Workers \cup {Elsewhere, None},    \* the address the record had
        restore : BOOLEAN, failed : BOOLEAN, prev : Statuses]

NoRoutes == [d \in Domains |-> None]

NoJob == [op |-> "none", worker |-> None, old |-> None, removed |-> {},
          todo |-> {}, domain |-> None, cfg |-> NoRoutes, id |-> 0, was |-> None,
          restore |-> FALSE, failed |-> FALSE, prev |-> "absent"]

PCs == {"idle", "copy", "remove", "next", "unroute", "post", "fetch", "write", "list",
        "create", "record", "track", "point", "cert", "proxy", "flag",
        "finish", "takeDown", "deleteDNS", "deleteRow"}

TypeOK ==
  /\ cf \in BOOLEAN
  /\ servers \subseteq Workers
  /\ status \in [Apps -> Statuses]
  /\ last \in [Apps -> {"none", "success", "failed"}]
  /\ primary \in [Apps -> BOOLEAN]
  /\ home \in [Apps -> Workers \cup {None}]
  /\ routes \in [Apps -> SUBSET Domains]
  /\ rows \subseteq DNSRow
  /\ running \in [Workers -> Config] /\ saved \in [Workers -> Config]
  /\ dns \subseteq Record /\ nextId \in Nat
  /\ pc \in [Apps -> PCs] /\ job \in [Apps -> Job]
  /\ mishap \in [Apps -> SUBSET Mishaps] /\ spoiled \subseteq Nat
  /\ requests \in Nat /\ faults \in Nat

\* An owned domain may have a record already, pointing elsewhere.
Init ==
  /\ cf \in BOOLEAN
  /\ servers = Workers
  /\ last = [a \in Apps |-> "none"]
  /\ primary = [a \in Apps |-> FALSE]
  /\ status = [a \in Apps |-> "absent"]
  /\ home = [a \in Apps |-> None]
  /\ routes = [a \in Apps |-> {}]
  /\ rows = {}
  /\ running = [w \in Workers |-> NoRoutes]
  /\ saved = [w \in Workers |-> NoRoutes]
  /\ \/ dns = {} /\ nextId = 1
     \/ \E o \in Owned :
          /\ dns = {[id |-> 1, name |-> o[1], content |-> Elsewhere,
                     proxied |-> o[2], by |-> None, wanted |-> o[2]]}
          /\ nextId = 2
  /\ pc = [a \in Apps |-> "idle"]
  /\ job = [a \in Apps |-> NoJob]
  /\ mishap = [a \in Apps |-> {}]
  /\ spoiled = {}
  /\ requests = 0 /\ faults = 0

---------------------------------------------------------------------------
(* Control and history.                                                    *)

Goto(a, label) == pc' = [pc EXCEPT ![a] = label]

Set(a, j) == job' = [job EXCEPT ![a] = j]

Return(a) == Goto(a, "idle") /\ Set(a, NoJob)

\* The next domain of the loop.
NextDomain(a) == Goto(a, "next")

Fault(kind) ==
  /\ kind \in Faults
  /\ faults < MaxFaults
  /\ faults' = faults + 1

Notes(a, what) == mishap' = [mishap EXCEPT ![a] = @ \cup what]

\* The A records that ListRecords returns for a domain.
Listed(d) == {r \in dns : r.name = d}

Points(r, content, proxied) ==
  (dns \ {r}) \cup {[r EXCEPT !.content = content, !.proxied = proxied]}

---------------------------------------------------------------------------
(* Plausible slips: variants of the definitions below that the             *)
(* specification does not use; each breaks a property.                     *)

\* routeFailed is not looked at.
Outcome_Always(j) == "running"

\* The configuration is not saved after a route was added.
AfterRoute_NoSave == "list"

\* Any record with the name will do, wherever it points.
Differs_Never(a, r) == FALSE

\* The proxy is enabled for records that Dockify created, and only for them.
Restores_Never(r) == FALSE

\* Only records whose tracked address is the app's present server.
Deletable_Home(a) ==
  {r \in rows : r.app = a /\ r.name \in routes[a] /\ r.content = home[a]}

\* A record that points elsewhere does not count as existing.
Existing_Ours(a) == {r \in Listed(job[a].domain) : r.content \in Workers}

---------------------------------------------------------------------------
(* Requests.                                                               *)

Requested == requests < MaxRequests /\ requests' = requests + 1

\* What Create, the edit form and the requests that change neither domains nor
\* the primary one leave in the tables: only Create, over the API, accepts
\* domains without a primary one.
Accepted(a, ds, p) ==
  \/ status[a] = "absent" /\ (p => ds # {})
  \/ p = (ds # {})
  \/ status[a] # "absent" /\ ds = routes[a] /\ p = primary[a]

\* SaveRoute and DeleteRouteByDomain for the domains, the server in the app's row;
\* then Redeploy or MoveWithoutFiles is spawned.
Edit(a, ds, p, w) ==
  /\ Accepted(a, ds, p)
  /\ routes' = [routes EXCEPT ![a] = ds]
  /\ primary' = [primary EXCEPT ![a] = p]
  /\ home' = [home EXCEPT ![a] = w]
  /\ status' = [status EXCEPT ![a] = "deploying"]
  /\ Set(a, [NoJob EXCEPT !.op = "deploy", !.worker = w,
               !.old = IF home[a] = w THEN None ELSE home[a],
               !.removed = routes[a] \ ds])
  /\ Goto(a, "remove")
  /\ mishap' = [mishap EXCEPT ![a] = {}]
  /\ UNCHANGED <<cf, servers, last, rows, caddy, flare, spoiled, faults>>

\* With the files: MoveApp, while the row still names the old server.
Move(a, ds, p, w) ==
  /\ status[a] # "absent" /\ home[a] # w
  /\ Accepted(a, ds, p)
  /\ routes' = [routes EXCEPT ![a] = ds]
  /\ primary' = [primary EXCEPT ![a] = p]
  /\ status' = [status EXCEPT ![a] = "deploying"]
  /\ Set(a, [NoJob EXCEPT !.op = "deploy", !.worker = w, !.old = home[a],
                          !.prev = status[a]])
  /\ Goto(a, "copy")
  /\ mishap' = [mishap EXCEPT ![a] = {}]
  /\ UNCHANGED <<cf, servers, last, home, rows, caddy, flare, spoiled, faults>>

\* A request that ends in a deployment, with the domains, the primary one and the
\* server that it asks for.
Request(a) ==
  /\ pc[a] = "idle"
  /\ Requested
  /\ \E ds \in SUBSET May[a], p \in BOOLEAN, w \in servers :
       Edit(a, ds, p, w) \/ Move(a, ds, p, w)

\* CopyAppFiles, and the row is switched to the new server.  A move that fails,
\* perhaps because that server is gone by then, restores the status it found.
Copy(a) ==
  LET w == job[a].worker
  IN  /\ pc[a] = "copy"
      /\ \/ /\ w \in servers
            /\ home' = [home EXCEPT ![a] = w]
            /\ Goto(a, "remove")
            /\ UNCHANGED <<status, last, job, faults>>
         \/ /\ Fault("copy")
            /\ status' = [status EXCEPT ![a] = job[a].prev]
            /\ last' = [last EXCEPT ![a] = "failed"]
            /\ Return(a)
            /\ UNCHANGED home
      /\ UNCHANGED <<cf, servers, primary, routes, rows, caddy, flare, past,
                     requests>>

\* Stop and Start: the containers and the status; neither Caddy nor Cloudflare.
StopStart(a, to) ==
  /\ pc[a] = "idle" /\ status[a] # "absent"
  /\ Requested
  /\ status' = [status EXCEPT ![a] = to]
  /\ UNCHANGED <<cf, servers, last, primary, home, routes, rows, caddy, flare,
                 pc, job, past, faults>>

Stop(a) == StopStart(a, "stopped")

Start(a) == StopStart(a, "running")

\* Undeploy: the routes of the app are removed from its worker.
Undeploy(a) ==
  /\ pc[a] = "idle" /\ status[a] # "absent"
  /\ Set(a, [NoJob EXCEPT !.op = "undeploy", !.worker = home[a]])
  /\ Goto(a, "takeDown")
  /\ UNCHANGED <<cf, db, caddy, flare, past, bound>>

\* DELETE FROM servers: refused while an app points at it.
DeleteServer(w) ==
  /\ Requested
  /\ w \in servers /\ \A a \in Apps : home[a] # w
  /\ servers' = servers \ {w}
  /\ UNCHANGED <<cf, app, rows, caddy, flare, pc, job, past, faults>>

---------------------------------------------------------------------------
(* The Caddy of a worker, through its admin API.                           *)

\* A configuration c without the routes that have the identifier of one of ds.
Without(c, ds) ==
  [e \in Domains |-> IF \E d \in ds : Id[e] = Id[d] THEN None ELSE c[e]]

\* c with a route from d to a.
With(c, d, a) == [Without(c, {d}) EXCEPT ![d] = a]

\* RemoveRoute, for each of ds; one that fails may or may not have had its effect,
\* and the error is logged only.
RemoveRoutes(w, ds) ==
  \E kept \in SUBSET ds :
    /\ IF kept = {} THEN UNCHANGED faults ELSE Fault("caddy")
    /\ running' = [running EXCEPT ![w] = Without(@, ds \ kept)]

\* The deployment fails before it comes to the routes.
DeployFails(a) ==
  /\ pc[a] = "remove"
  /\ Fault("deploy")
  /\ status' = [status EXCEPT ![a] = "failed"]
  /\ last' = [last EXCEPT ![a] = "failed"]
  /\ Return(a)
  /\ UNCHANGED <<cf, servers, primary, home, routes, rows, caddy, flare, past,
                 requests>>

\* The routes of the domains that the edit removed.  Without a primary domain the
\* app is an internal service: it is given no route.
RemoveOld(a) ==
  /\ pc[a] = "remove"
  /\ RemoveRoutes(job[a].worker, job[a].removed)
  /\ Set(a, [job[a] EXCEPT !.removed = {},
                           !.todo = IF primary[a] THEN routes[a] ELSE {}])
  /\ NextDomain(a)
  /\ UNCHANGED <<cf, db, saved, flare, past, requests>>

\* setupRouteAndDNSForDomain of the next domain, in the order of GetRoutes.
SetupDomain(a) ==
  /\ pc[a] = "next"
  /\ \/ /\ job[a].todo = {}
        /\ Goto(a, "finish")
        /\ UNCHANGED job
     \/ \E d \in job[a].todo :
          /\ Set(a, [job[a] EXCEPT !.todo = @ \ {d}, !.domain = d])
          /\ Goto(a, "unroute")
  /\ UNCHANGED <<cf, db, caddy, flare, past, bound>>

\* postRoute first removes the route with the same identifier.
Unroute(a) ==
  LET j == job[a]
  IN  /\ pc[a] = "unroute"
      /\ \/ /\ running' = [running EXCEPT ![j.worker] = Without(@, {j.domain})]
            /\ UNCHANGED faults
         \/ Fault("caddy") /\ UNCHANGED running
      /\ Goto(a, "post")
      /\ UNCHANGED <<cf, db, saved, flare, job, past, requests>>

\* After AddRoute the configuration is saved.
AfterRoute == "fetch"

\* The POST.  When it fails or its answer is lost, a GET of the identifier tells
\* whether a route with it is there, be it another one; a route that could not be
\* added fails the deployment, and DNS is skipped.
PostRoute(a) ==
  LET j == job[a]
      added == [running EXCEPT ![j.worker] = With(@, j.domain, a)]
      found == Without(running[j.worker], {j.domain}) # running[j.worker]
  IN  /\ pc[a] = "post"
      /\ \/ /\ running' = added
            /\ Goto(a, AfterRoute)
            /\ UNCHANGED <<job, faults>>
         \/ /\ Fault("caddy") /\ found
            /\ Goto(a, AfterRoute)
            /\ UNCHANGED <<running, job>>
         \/ /\ Fault("caddy")
            /\ running' \in {running, added}
            /\ Set(a, [j EXCEPT !.failed = TRUE])
            /\ NextDomain(a)
      /\ UNCHANGED <<cf, db, saved, flare, past, requests>>

\* Where SaveConfig returns to.
AfterSave(a) ==
  CASE job[a].op = "deploy"   -> "list"
    [] job[a].op = "cleanup"  -> "idle"
    [] job[a].op = "undeploy" -> "deleteDNS"

Saved(a) ==
  /\ Goto(a, AfterSave(a))
  /\ Set(a, IF job[a].op = "cleanup" THEN NoJob
            ELSE [job[a] EXCEPT !.cfg = NoRoutes])

\* SaveConfig: docker inspect finds the file, curl gets the running configuration
\* and then writes it; any of it may fail, a warning.
FetchConfig(a) ==
  /\ pc[a] = "fetch"
  /\ \/ /\ Set(a, [job[a] EXCEPT !.cfg = running[job[a].worker]])
        /\ Goto(a, "write")
        /\ UNCHANGED <<mishap, faults>>
     \/ /\ Fault("save")
        /\ Notes(a, {"save"})
        /\ Saved(a)
  /\ UNCHANGED <<cf, db, caddy, flare, spoiled, requests>>

\* The configuration c is older than the file on w, which another app wrote
\* meanwhile: b loses a saved route that it still has.
Outdated(b, w, c) ==
  \E d \in Domains : saved[w][d] = b /\ running[w][d] = b /\ c[d] # b

\* The write is in place: one that fails leaves a file cut off, with no routes.
WriteConfig(a) ==
  LET w == job[a].worker
      c == job[a].cfg
  IN  /\ pc[a] = "write"
      /\ \/ /\ saved' = [saved EXCEPT ![w] = c]
            /\ mishap' = [b \in Apps |-> IF Outdated(b, w, c)
                            THEN mishap[b] \cup {"race"} ELSE mishap[b]]
            /\ UNCHANGED faults
         \/ /\ Fault("save")
            /\ saved' = [saved EXCEPT ![w] = NoRoutes]
            /\ mishap' = [b \in Apps |-> mishap[b] \cup {"save"}]
      /\ Saved(a)
      /\ UNCHANGED <<cf, db, running, flare, spoiled, requests>>

---------------------------------------------------------------------------
(* DNS.  A request to Cloudflare that fails may have had its effect.       *)

\* ListRecords, then the first A record of that name; without an account at
\* Cloudflare nothing is done about DNS.
Existing(a) == Listed(job[a].domain)

\* The record points at another address than the app's server.
Differs(a, r) == r.content # home[a]

\* The proxy was enabled before, so it will be enabled again.
Restores(r) == r.proxied

ListRecords(a) ==
  /\ pc[a] = "list"
  /\ \/ /\ cf /\ Existing(a) = {}
        /\ Goto(a, "create")
        /\ UNCHANGED <<job, mishap, faults>>
     \/ /\ cf
        /\ \E r \in Existing(a) :
             IF Differs(a, r)
               THEN /\ Goto(a, "track")
                    /\ Set(a, [job[a] EXCEPT !.id = r.id, !.was = r.content,
                                             !.restore = Restores(r)])
               ELSE NextDomain(a) /\ UNCHANGED job
        /\ UNCHANGED <<mishap, faults>>
     \/ /\ IF cf THEN Fault("cloudflare") ELSE UNCHANGED faults
        /\ Notes(a, {"dns"})
        /\ NextDomain(a)
        /\ UNCHANGED job
  /\ UNCHANGED <<cf, db, caddy, flare, spoiled, requests>>

\* The record is given to the app's rows, unless it has it already: with the
\* address that it had until now.
TrackRecord(a) ==
  /\ pc[a] = "track"
  /\ IF \E row \in rows : row.app = a /\ row.id = job[a].id
       THEN UNCHANGED rows
       ELSE rows' = rows \cup {[app |-> a, id |-> job[a].id,
                                name |-> job[a].domain, content |-> job[a].was,
                                proxied |-> FALSE]}
  /\ Goto(a, "point")
  /\ UNCHANGED <<cf, servers, app, caddy, flare, job, past, bound>>

\* UpdateRecord: the new address, with the proxy off, for the certificate.
PointRecord(a) ==
  LET known == {r \in dns : r.id = job[a].id}
  IN  /\ pc[a] = "point"
      /\ \/ \E r \in known :
              /\ dns' = Points(r, home[a], FALSE)
              /\ Goto(a, "cert")
              /\ UNCHANGED <<past, faults>>
         \/ /\ IF known = {} THEN UNCHANGED faults ELSE Fault("cloudflare")
            /\ dns' \in {dns} \cup {Points(r, home[a], FALSE) : r \in known}
            /\ Notes(a, {"dns"})
            /\ spoiled' = spoiled \cup {job[a].id}
            /\ NextDomain(a)
      /\ UNCHANGED <<cf, db, caddy, nextId, job, requests>>

\* CreateRecord, with the proxy off.
CreateRecord(a) ==
  LET new == [id |-> nextId, name |-> job[a].domain, content |-> home[a],
              proxied |-> FALSE, by |-> a, wanted |-> TRUE]
  IN  /\ pc[a] = "create"
      /\ \/ /\ dns' = dns \cup {new} /\ nextId' = nextId + 1
            /\ Set(a, [job[a] EXCEPT !.id = nextId, !.restore = TRUE])
            /\ Goto(a, "record")
            /\ UNCHANGED <<past, faults>>
         \/ /\ Fault("cloudflare")
            /\ \/ UNCHANGED flare
               \/ dns' = dns \cup {new} /\ nextId' = nextId + 1
            /\ Notes(a, {"dns"})
            /\ spoiled' = spoiled \cup {nextId}
            /\ NextDomain(a)
            /\ UNCHANGED job
      /\ UNCHANGED <<cf, db, caddy, requests>>

SaveDNSRecord(a) ==
  /\ pc[a] = "record"
  /\ rows' = rows \cup {[app |-> a, id |-> job[a].id, name |-> job[a].domain,
                         content |-> home[a], proxied |-> FALSE]}
  /\ Goto(a, "cert")
  /\ UNCHANGED <<cf, servers, app, caddy, flare, job, past, bound>>

\* WaitForCertificate: until Caddy has one, or two minutes have passed.  Which of
\* the two is up to Caddy and the authority: either may happen.
WaitForCertificate(a) ==
  /\ pc[a] = "cert"
  /\ \/ /\ IF job[a].restore THEN Goto(a, "proxy") ELSE NextDomain(a)
        /\ UNCHANGED <<spoiled, faults>>
     \/ /\ Fault("timeout")
        /\ spoiled' = spoiled \cup {job[a].id}
        /\ NextDomain(a)
  /\ UNCHANGED <<cf, db, caddy, flare, job, mishap, requests>>

\* UpdateRecord: the proxy on again.
EnableProxy(a) ==
  LET known == {r \in dns : r.id = job[a].id}
  IN  /\ pc[a] = "proxy"
      /\ \/ \E r \in known :
              /\ dns' = Points(r, home[a], TRUE)
              /\ Goto(a, "flag")
              /\ UNCHANGED <<spoiled, faults>>
         \/ /\ IF known = {} THEN UNCHANGED faults ELSE Fault("cloudflare")
            /\ dns' \in {dns} \cup {Points(r, home[a], TRUE) : r \in known}
            /\ spoiled' = spoiled \cup {job[a].id}
            /\ NextDomain(a)
      /\ UNCHANGED <<cf, db, caddy, nextId, job, mishap, requests>>

UpdateDNSRecordProxied(a) ==
  /\ pc[a] = "flag"
  /\ rows' = {IF r.id = job[a].id THEN [r EXCEPT !.proxied = TRUE] ELSE r :
                r \in rows}
  /\ NextDomain(a)
  /\ UNCHANGED <<cf, servers, app, caddy, flare, job, past, bound>>

---------------------------------------------------------------------------
(* The end of a deployment, and Undeploy.                                  *)

Outcome(j) == IF j.failed THEN "failed" ELSE "running"

\* The status and the record; after a successful move CleanupFromServer visits the old server.
Finish(a) ==
  LET j == job[a]
  IN  /\ pc[a] = "finish"
      /\ status' = [status EXCEPT ![a] = Outcome(j)]
      /\ last' = [last EXCEPT ![a] =
                    IF Outcome(j) = "running" THEN "success" ELSE "failed"]
      /\ IF Outcome(j) = "failed" \/ j.old \notin servers
           THEN Return(a)
           ELSE /\ Set(a, [NoJob EXCEPT !.op = "cleanup", !.worker = j.old])
                /\ Goto(a, "takeDown")
      /\ UNCHANGED <<cf, servers, primary, home, routes, rows, caddy, flare, past,
                     bound>>

\* CleanupFromServer and Undeploy: RemoveRoute for the app's routes, then
\* SaveConfig if there were any; without a connection neither.
TakeDown(a) ==
  /\ pc[a] = "takeDown"
  /\ \/ /\ RemoveRoutes(job[a].worker, routes[a])
        /\ IF routes[a] # {}
             THEN Goto(a, "fetch") /\ UNCHANGED job
             ELSE Saved(a)
     \/ /\ Fault("caddy")
        /\ Saved(a)
        /\ UNCHANGED running
  /\ UNCHANGED <<cf, db, saved, flare, past, requests>>

\* The rows whose record Undeploy deletes.
Deletable(a) ==
  {r \in rows : r.app = a /\ r.name \in routes[a] /\ r.content \in servers}

\* DeleteRecord, for each of ids.
Deleted(ids) == {r \in dns : r.id \notin ids}

\* deleteDNSRecords; without an account nothing is deleted, and each failure is a
\* warning.
DeleteDNSRecords(a) ==
  LET ids == {r.id : r \in Deletable(a)}
  IN  /\ pc[a] = "deleteDNS"
      /\ \E kept \in IF cf THEN SUBSET ids ELSE {ids} :
           /\ IF kept = {} \/ ~cf THEN UNCHANGED faults ELSE Fault("cloudflare")
           /\ dns' = Deleted(ids \ kept)
           /\ Notes(a, IF kept = {} THEN {} ELSE {"kept"})
      /\ Goto(a, "deleteRow")
      /\ UNCHANGED <<cf, db, caddy, nextId, job, spoiled, requests>>

\* DELETE FROM apps: routes and DNS rows go by cascade.  The next app of this name
\* has another id, and created none of the records that are left (history).
Forget(a) ==
  /\ pc[a] = "deleteRow"
  /\ status' = [status EXCEPT ![a] = "absent"]
  /\ last' = [last EXCEPT ![a] = "none"]
  /\ primary' = [primary EXCEPT ![a] = FALSE]
  /\ home' = [home EXCEPT ![a] = None]
  /\ routes' = [routes EXCEPT ![a] = {}]
  /\ rows' = {r \in rows : r.app # a}
  /\ dns' = {IF r.by = a THEN [r EXCEPT !.by = None] ELSE r : r \in dns}
  /\ mishap' = [mishap EXCEPT ![a] = {}]
  /\ Return(a)
  /\ UNCHANGED <<cf, servers, caddy, nextId, spoiled, bound>>

---------------------------------------------------------------------------
(* The world.                                                              *)

\* Caddy, or the worker, restarts: it reads the saved file.  A route that was
\* posted and not fetched yet is gone.
RestartCaddy(w) ==
  /\ Fault("restart")
  /\ running' = [running EXCEPT ![w] = saved[w]]
  /\ mishap' = [a \in Apps |-> mishap[a] \cup
       IF pc[a] # "idle" THEN {"reboot", "restart"} ELSE {"reboot"}]
  /\ UNCHANGED <<cf, db, saved, flare, pc, job, spoiled, requests>>

\* The owner changes or removes a record at Cloudflare.
OwnerEdits ==
  /\ Fault("owner")
  /\ \E r \in dns :
       /\ \/ dns' = dns \ {r}
          \/ \E p \in BOOLEAN :
               dns' = (dns \ {r}) \cup {[r EXCEPT !.content = Elsewhere,
                                           !.proxied = p, !.wanted = p]}
       /\ mishap' = [a \in Apps |-> IF r.name \in routes[a]
                       THEN mishap[a] \cup {"dns"} ELSE mishap[a]]
       /\ spoiled' = spoiled \cup (IF \E a \in Apps : job[a].id = r.id
                                     THEN {r.id} ELSE {})
  /\ UNCHANGED <<cf, db, caddy, nextId, pc, job, requests>>

\* The controller stops and starts, perhaps with another configuration of
\* Cloudflare: FailInterrupted.
Restart ==
  /\ Fault("crash")
  /\ cf' \in BOOLEAN
  /\ status' = [a \in Apps |-> IF status[a] = "deploying" THEN "failed"
                               ELSE status[a]]
  /\ last' = [a \in Apps |-> IF status[a] = "deploying" THEN "failed"
                             ELSE last[a]]
  /\ spoiled' = spoiled \cup {job[a].id : a \in {a \in Apps :
                                pc[a] \in {"record", "cert", "proxy"}}}
  /\ mishap' = [a \in Apps |-> IF pc[a] # "idle" THEN mishap[a] \cup {"crash"}
                               ELSE mishap[a]]
  /\ pc' = [a \in Apps |-> "idle"]
  /\ job' = [a \in Apps |-> NoJob]
  /\ UNCHANGED <<servers, primary, home, routes, rows, caddy, flare, requests>>

---------------------------------------------------------------------------

Step(a) ==
  \/ Copy(a) \/ DeployFails(a) \/ RemoveOld(a) \/ SetupDomain(a) \/ Unroute(a) \/ PostRoute(a)
  \/ FetchConfig(a) \/ WriteConfig(a)
  \/ ListRecords(a) \/ TrackRecord(a) \/ PointRecord(a) \/ CreateRecord(a)
  \/ SaveDNSRecord(a) \/ WaitForCertificate(a) \/ EnableProxy(a)
  \/ UpdateDNSRecordProxied(a)
  \/ Finish(a) \/ TakeDown(a) \/ DeleteDNSRecords(a) \/ Forget(a)

Next ==
  \/ \E a \in Apps :
       Step(a) \/ Request(a) \/ Undeploy(a) \/ Stop(a) \/ Start(a)
  \/ \E w \in Workers : DeleteServer(w) \/ RestartCaddy(w)
  \/ OwnerEdits
  \/ Restart

Spec == Init /\ [][Next]_vars

---------------------------------------------------------------------------
(* Properties.                                                             *)

\* The domains of which no two apps can have a route or a record: nothing in the
\* code keeps two apps from the same domain, or from two with one identifier, and
\* the properties say nothing of those.
Apart ==
  {d \in Domains :
     /\ \A a, b \in Apps : d \in May[a] /\ d \in May[b] => a = b
     /\ \A a \in Apps : \A e \in May[a] : Id[e] = Id[d] => e = d}

\* At rest after a deployment that succeeded.  An app is also "running" when Start
\* follows a deployment whose route failed, after a move that was aborted, and
\* as an internal service: then it need not be reachable.
Settled(a) ==
  /\ status[a] = "running" /\ last[a] = "success" /\ primary[a]
  /\ pc[a] = "idle"

\* After a deployment or a move that succeeded every domain of the app leads to it
\* at its server, whatever was removed and posted there for others and whichever
\* requests failed, until the Caddy restarts or an Undeploy was cut off.
RoutesServed ==
  \A a \in Apps :
    Settled(a) /\ mishap[a] \cap {"reboot", "crash"} = {}
      => \A d \in routes[a] \cap Apart : running[home[a]][d] = a

\* Such routes are also in the file that Caddy starts with, and so survive its
\* restarts, unless Caddy restarted before the deployment had ended, a save
\* failed, or an older configuration was written over a newer one.
RoutesSurvive ==
  \A a \in Apps :
    Settled(a) /\ mishap[a] \cap {"restart", "race", "save", "crash"} = {}
      => \A d \in routes[a] \cap Apart :
           running[home[a]][d] = a /\ saved[home[a]][d] = a

\* After a deployment or a move that succeeded every domain of the app has a
\* record that points at its server, if Cloudflare is configured and answered and
\* the owner did not interfere.
PointsHome ==
  \A a \in Apps :
    Settled(a) /\ mishap[a] \cap {"dns", "crash"} = {}
      => \A d \in routes[a] \cap Apart :
           \E r \in dns : r.name = d /\ r.content = home[a]

\* A domain has at most one A record, whatever was interrupted: none is created
\* beside one that is there, not even after a request whose answer was lost.
NoDuplicates ==
  \A r, q \in dns : r.name = q.name /\ r.name \in Apart => r = q

\* The proxy is given back: outside the wait for the certificate a record has
\* the setting its owner chose, or the proxy if Dockify created it, unless the
\* wait timed out or was cut off.
ProxyGivenBack ==
  \A r \in dns : /\ r.name \in Apart /\ r.id \notin spoiled
                 /\ \A a \in Apps : job[a].id # r.id
                 => r.proxied = r.wanted

\* When the app's row goes, so have the records that Dockify created for its
\* domains, moves and interrupted deployments in between, if Cloudflare answered
\* and no server was deleted.
CreatedRecordsGone ==
  [][\A a \in Apps : Forget(a) /\ "kept" \notin mishap[a] /\ servers = Workers =>
       \A r \in dns : r.by = a /\ r.name \in routes[a] => r.id \in spoiled]_vars

=============================================================================
