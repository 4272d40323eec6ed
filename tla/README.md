# Verification of dockify

dockify is a small deployment controller. It keeps servers ("workers") and apps
in an SQLite database, and for every app writes a compose file to a worker over
SSH, starts its containers there, and gives its domains a route in the worker's
Caddy and a DNS record at Cloudflare. Requests come from a JSON API, from web
forms and from push webhooks; lifecycle operations run in goroutines.

This directory holds TLA+ models of the controller, the TLC runs that check
them on small instances and the TLAPS proofs for all instances. `PROJECT.json`
maps every definition to the lines it models.

    tlc -workers 2 -config MCMoves.cfg MCAppLifecycle     # a run
    tlapm AppLifecycleProofs.tla                          # proofs

## Inventory

| Part | State | Operations | What makes it correct |
|---|---|---|---|
| App lifecycle (`internal/app/service.go`) | one mutex per app, the app's folder, containers, volumes and Caddy routes on the workers | Deploy, DeployByGit, Redeploy, Rollback, Stop, Start, Undeploy, MoveApp, MoveWithoutFiles | operations of an app run one after the other; the status in the database tells what runs; a failed operation leaves something usable; nothing stays "deploying" |
| App requests (`internal/app/handler.go`) | none (local copies of rows) | Create, Patch, edit form, deploy, redeploy (all), rollback, stop, start, delete, clear history | a request accepted with a stale row does not undo what happened since |
| App repository (`internal/app/repository.go`) | tables apps, routes, deployments, secrets, files, DNS records, statistics | one SQL statement per method; `FailInterrupted` is one transaction | rows of a deleted app go with it |
| Servers (`internal/server`) | table servers: status, resources, host key | create, update, test, init, refresh, prune, delete; a monitor loop | a status is not overwritten by a slower check; no app without its server |
| Scheduler (`internal/scheduler`) | none | PickServer | picks a best online server |
| DNS and Caddy (`service.go` setupRouteAndDNSForDomain, `internal/cloudflare`, `internal/caddy`) | DNS rows and records; Caddy's running and saved config | add, update, track, remove; wait for a certificate | a domain has one record, it leads to the app's server, gets its proxy back and goes with the app; routes survive a Caddy restart |
| SSH client (`internal/ssh`) | connections, pinned host keys | run with timeout, pipes, streams | a command returns, unless the worker accepts the connection and then hangs (`client.go:139`, `231`); a changed host key is refused |
| Login (`internal/http/auth.go`) | sessions, failed attempts | login, logout, check | attempts are bounded |
| Websockets (`internal/http/console.go`, `stats_ws.go`, `app_stats_ws.go`) | three to seven goroutines per socket and the channels between them | stream, keystrokes, change of range, exit, close | no send on a closed channel; the goroutines end with the session |
| Backup (`internal/backup`) | the tables servers and apps, key and token files, exported files | export, import (merge, replace) | what an import leaves half-way is usable; a complete one is whole |
| Migrations (`internal/db`) | the database file: version, schema, rows, id counters | the baseline schema and four migrations at startup | a stop in between is repaired by the next start; rows and ids are kept |
| Compose files, validation, statistics arithmetic | none | pure functions | |
| Settings, configuration, router, templates | key-value | | |

Parts interact by calls (handlers to services to repositories), through the
database (one connection, `db.go:40`, so a statement is atomic and nothing
longer is, except `FailInterrupted` and each migration), through the mutex
of each app, and through what they leave on the workers.

The hard behaviours: handlers read, check `Busy` and write without the mutex,
so what they write may be stale; every remote command may fail or be cut off
half-way; an operation consists of several statements and commands and the
controller may stop between any two; moves touch two workers; requests queue up
behind the mutex with parameters read earlier. `hazards` in `PROJECT.json`
lists them line by line.

## Modules

| Module | Content |
|---|---|
| `AppState` | constants, variables, types, `Init`, the repository's statements |
| `AppLifecycle` | requests, handlers, operations, restarts; `Spec`, `FairSpec`; the properties; before them plausible slips, variants of its definitions that the specification does not use and that show each property can fail |
| `AppClaims` | a claim of the source that the code refutes |
| `Serialized` | the abstract specification: one operation at a time |
| `MCAppLifecycle`, `MCServers` | symmetry for TLC |
| `AppLifecycleProofs` | theorems about one app: mutex, types, status |
| `SerializedProofs` | `AppLifecycle` implements `Serialized` |
| `WorkerProofs` | theorems about what an app has on the workers |
| `Servers` | rows, key files and host keys of the servers, the contacts with them, the monitor; slips and properties as above |
| `ServersProofs` | theorems about `Servers` |
| `Routes`, `MCRoutes` | routes of the workers' Caddy and DNS records of several apps, over deployments, edits, moves and deletions |
| `Backup`, `MCBackup` | export and import beside other requests |
| `BackupClaims` | a claim about the replace import that the code refutes |
| `Streams` | the goroutines and channels of a websocket session |
| `Migrations`, `MCMigrations` | `Open`: schema and migrations, with stops; legacy files for TLC |
| `RoutesProofs`, `BackupProofs`, `MigrationsProofs`, `StreamsProofs` | theorems about these components |

`Routes`, `Backup`, `Streams` and `Migrations` have slips and properties in the
same layout. `AppLifecycle` shows that operations of an app exclude one
another; `Routes` builds on that with one process per app, refines the single
step in which `AppLifecycle` routes an app, and adds what that leaves out.

### AppState and AppLifecycle

One app, any number of workers, processes, domains and compose files. A process
is a request: the HTTP handler and then the goroutine it spawns (`Stop`,
`Start` and `Rollback` run in the handler). Operations of two apps share no
mutex, no row and no folder, so one app is enough. What two apps do to one
Caddy, with domains or Caddy identifiers in common too, is in `Routes`.

| Variable | In the code |
|---|---|
| `app` | the row of `apps`: status, `server_id`, compose file, whether `domain` is set; "absent" when there is no row |
| `routes` | the domains in `routes` (nothing reads the table's `server_id`) |
| `snapshot`, `lastRec` | what `GetLastSuccessfulDeployment` and the history page see of `deployments` |
| `disk`, `ctr`, `caddy`, `vols` | per worker: the compose file in `/opt/dockify/apps/app-N`, the containers, the Caddy routes, the Docker volumes |
| `lock` | `appLocks[id]` |
| `pc`, `job` | where each process is, and its local variables (the row it read, the servers it moves between, the domains it removed, the status it will restore) |
| `requests`, `crashes` | count up to the bounds `MaxRequests` and `MaxCrashes` |

A step is one SQL statement or one remote command; the reads at the start of an
operation belong to the step that takes the mutex, since no other operation can
come in between and handlers' writes commute with them. Handlers take one step
per statement where the order matters: `PatchRead`, `BusyCheck`, `PatchWrite`,
`GetRoutes`, `PutRoutes`, and likewise for the edit form. The loops over
domains (`SaveRoute`, `setupRouteAndDNSForDomain`) are one step each.

A command named in `Faults` may fail at any time. `compose up` that fails, and
any command the controller dies in, leaves containers in the state "unknown";
a failed `stop`, `start` or `down` does so only where there were containers. A
Caddy request that fails may or may not have had its effect. `down --volumes`
removes the volumes of the compose file on disk. These facts about Docker are
the external part of the map. Errors of the database are modelled where the
code reacts to them in a way of its own (`MoveSave`).

Left out of the app model: env vars and config files (written by every
deployment, read by none), git commits, logs, registry login as a step of its
own (it fails like a pull), DNS and Caddy's saved configuration (in `Routes`), and `created_at` ties between two deployments of
the same second.

### Serialized

Says what the mutex is for: `inside` has at most one process, workers change
only while it has one, only the process inside deletes the app and leaves with
it, and after that the workers do not change. `AppLifecycle` implements it with
`inside` the processes at a label of an operation, `workers` the worker
variables and `life` derived from the row and the number of requests.

### Servers

Any number of servers, machines (an address, that is host and port, with a
machine behind it) and processes. Nothing serializes what happens to a server:
two initializations, a refresh of the monitor and an edit may overlap.

| Variable | In the code |
|---|---|
| `row` | the rows of `servers`: status, address, whether `ssh_key` holds the path of the key file (`saved`), pinned host key. An id is "unused", then a row, then "gone": `AUTOINCREMENT` never reuses it |
| `pem` | `keys/N.pem`: none, whole, or cut off by a write that failed |
| `apps` | the servers that rows of `apps` point at; the foreign key (`schema.sql:31`) guards both directions |
| `worker`, `install`, `proxy` | per machine: reachable, reachable without our key, not reachable, or hung (it accepts connections and says nothing more); how often it was reinstalled (each time with a new host key); the container named `caddy` |
| `pc`, `job` | where each handler or goroutine is and what it holds: the row it read, the contacts still to make, the status it is about to write |

`TestConnection`, `InitWorker` and `RefreshResources` are "contacts" and share
`Get` (read the row), `Connect` (key file, host key, authentication) and
`Report` (write the status); `RunUptime`, `Install` and `Measure` are what each
does in between. `connectAndInit` makes three contacts in a row. The refresh
that a successful `InitWorker` spawns is run by the same process next; two
refreshes at a time come from the monitor. A machine's own host key is the pair
of its address and the number of its installation.

Left out: registry credentials, the measured resources (only `PickServer` reads
them), `server_stats`, `PruneWorker` (changes no row).

### Routes

| Variable | In the code |
|---|---|
| `servers`, `cf` | the table `servers`; whether Cloudflare is configured |
| `status`, `primary`, `home`, `routes` | `apps.status`, whether `apps.domain` is set, `apps.server_id`, the rows of `routes` per app |
| `last` | the status of the app's newest row in `deployments` |
| `rows` | `dns_records`: app, record id, name, the address and proxied flag as first saved |
| `running`, `saved` | per worker: which app each domain leads to in Caddy's running configuration, and in the file it starts with |
| `dns` | the A records at Cloudflare |
| `pc`, `job` | where the operation of each app is, and its locals; `job.cfg` is the configuration `SaveConfig` has fetched and not yet written |
| `mishap`, `spoiled` | history: what went wrong in the app's last operation, and whose proxy was not given back |

A request edits the domains and the primary one and deploys (`Edit`), moves the
app with its files (`Move`, `Copy`, with the abort that restores the status it
found), stops, starts or undeploys. An operation goes through the domains one
after the other as `setupRouteAndDNSForDomain` does: remove the route with that
identifier, post the route, fetch and save the configuration, list the records,
then create or track and re-point one, wait for the certificate, enable the
proxy, note it in the row. An app without a primary domain gets no routes
(`service.go:320`), whatever rows it has. Every request to Caddy or Cloudflare
may fail with or without effect, a save may cut the file off, Caddy restarts
from the file, the owner of a domain edits or removes records, the controller
stops anywhere and may come back with another configuration of Cloudflare.

A configuration is a function from domains to apps. `Id` is `sanitizeID`: two
domains may have one identifier (`a.b` and `a-b`), and removing the one removes
the other; posting first removes, so an identifier has one route. `May` says
which domains each app may be given. Nothing in the code keeps two apps from
the same domain, or from domains with one identifier: they then take each
other's routes and records, in the model as in the code. The properties speak
of the domains that are `Apart`, which one app only may be given and whose
identifier no other domain of any app has, and say that they are safe from all
the rest, the quarrels over the other domains included.

"running" is not only what a deployment ends with: `Start` stores it after a
deployment whose route failed, an aborted move restores it, and an internal
service has it. `Settled` therefore asks for a newest record that is a success
and a primary domain.

Left out: basic auth (part of a route's content), record types other than A,
drafts (nothing of a draft is outside the database), and the certificates
themselves: whether one comes in time is open.

A record's `by` (history) is the app for which it was created. `Forget` clears
it: the ids of apps are not reused, so a later app of the same name is another
app, and what an undeployment left behind is nobody's. Without that
`CreatedRecordsGone` would blame the second app for the first one's leftovers;
it takes two deletions, more requests than the run has, and was found by the
proof.

### Backup

`servers` and `apps` are the tables, with an app's routes, secrets and files as
its `parts`; `pem` and `tokens` the files on disk by server id; `files` the
exports at hand, those of this instance and `Uploads` from another. A process
is an export or an import and takes a step per query, statement or file. Other
requests (add and remove a server, add, deploy, stop and delete an app) are
single steps: their own interleavings are the subject of the other modules. A
file carries the passphrase it needs; one that does not decrypt or validate is
refused as a whole, before anything is written, and has no action. The names of
servers and apps are unique, as they are in every file without colliding names:
the third migration leaves out that index where they collide. Undeploy
inside a replace import is one step, since its failures are ignored by
`Undeploy` itself.

### Streams

One session of one kind. Each goroutine has a label in `pc`; channels are
counters or sequences with a capacity and a closed flag. `conn`, `cancelled`
and `session` are our end of the websocket, the context and our end of the SSH
session: when the handler returns its deferred calls end all three. The browser
(`peer`) may read, stall or be gone, the command on the worker (`remote`) run,
stop reading its input or exit. The request's own context does not end when the
peer goes away, because the connection was hijacked, so only reads, writes and
the deferred cancel end anything. The channels' capacities (16, 64, 256) are
constants and 1 in the run: a full channel is what matters. The statistics of
an app start `docker stats` again and again; `MaxStreams` bounds it.

### Migrations

`file` is what is on disk: version (`user_version`), tables, the columns with a
story of their own, which tables have the new foreign keys, indexes, the rows
of apps and servers and of the tables with a history, and the counters of
`AUTOINCREMENT`. `tx` is what an open migration would commit, `keys` whether
the connection enforces foreign keys. `Open` is a step per statement of the
schema, then one per migration and one per commit; `Stop` discards `tx`. While
the controller is up rows come and go under the constraints that the file has:
what the migrations must keep. `Legacy` is any set of files without a version.
The mode and the flag of an app are values even where the file has no such
column (`columns` says which it has): a legacy app counts as "advanced", the
column's default.

## Runs

Every run ends in states where all requests are served, so `CHECK_DEADLOCK` is
off: an idle controller is not an error.

| Run | Instance | Shows |
|---|---|---|
| `one_server` | 1 worker, 2 processes, 2 compose files, 4 requests of every kind, the commands of deployments, stops and starts failing | `RunsWhatRowSays`, `RunningIsRouted`, `StoppedMeansDown`, `NothingLeft`: whatever two requests race, when they are done the row tells the truth |
| `moves` | 2 workers, 1 process, 4 requests, drafts, both moves, all failures of a command | `RunningMeansUp`, `DraftHasNothing`, `AbortedMoveStays`, `FolderSurvives`, `OldServerUntouched` |
| `serialized` | 2 workers, 2 processes, 3 requests, every fault, 1 restart | `TypeOK`, `LockOwner`, and that `AppLifecycle` implements `Serialized` |
| `liveness` | 2 workers, 2 processes, 3 requests, connections failing, 1 restart, no move that copies files | `NeverStuck`: nothing is left "deploying", wherever the controller stopped; `EveryRequestReturns`, `DeployingEnds` under fairness |
| `servers` | 2 servers, 2 machines, 2 processes, 3 requests, failing disk and scripts, 1 restart | `TypeOK`, `KeyMatchesHost`, `KeyFileKept`, `NoOrphanApps` |
| `monitor` | 1 server, 1 machine that changes twice (up, locked, down, hung) and may be reinstalled, 2 processes, 2 requests, any number of ticks | `MonitorTracks` under fairness: overlapping checks converge to the truth |
| `routes` | 2 apps, one domain that both may be given and one of the first app's own, 2 workers, 2 requests and any number of undeployments, 1 fault of any kind at any point | `RoutesServed`, `RoutesSurvive`, `PointsHome`, `NoDuplicates`, `ProxyGivenBack`, `CreatedRecordsGone` |
| `backup` | 2 servers, 2 apps, 2 kinds of parts, 2 processes, 3 requests, a failing write or a restart | `KeysThere`, `ReplaceRemovesAll`, `ImportedWhole`, `ExportNamesServers` |
| `streams` | a console, a server's and an app's statistics; 3 messages, 3 pieces of output, `docker stats` started twice | `NoSendOnClosed`; `EveryGoroutineEnds`, `ExitEndsSession` under fairness |
| `migrations` | fresh file and 40 legacy files, 2 apps, 2 servers, 2 tables with history, 2 stops, 5 changes of rows | `TypeOK`, `Converged`, `Consistent`, `IdsNotReused`, `OpenKeepsRows`, `ModeIsOwners`; `ComesUp` under fairness |
| `claim_volumes`, `claim_replace` | the smallest instance that shows it | refuted, see Disagreements |

`TypeOK` of `Routes`, `Backup` and `Streams` holds in these instances as well;
it documents the types and is in no run's list.

Bounds. The first request creates the app, so three requests are one for the
app and two that race, four leave a further request that finds what a race
left (a rollback needs an earlier deployment, a move a deployed app). Two
workers are all a move names, two processes all that a race of handlers needs,
since operations exclude one another; `TypeCorrect`, `Serial` and
`StatusSettles` hold for any number. Two compose files tell new from old. In
`moves` one has volumes and one has not. One restart is enough, because a
restart puts every process back to the start. `one_server`
leaves out restarts: between the status and the record of a deployment a
restart makes the history older than the row. `moves` has a single process
because two requests that race around a move can break its properties (see
Disagreements, Rollback); its five properties say nothing of such races.
`one_server` leaves out connections that fail and clean-ups that fail, after
which something may stay behind (Disagreements, Apps).

For servers: two rows may name one machine, which is when the lookup of a key
by address (`LIMIT 1`) differs from a lookup by row; three requests are two
creations and an edit, or a creation, an edit and a deletion; two machines make
a change of address possible. `monitor` needs one server, since servers meet
only in the host keys and the monitor starts a goroutine per server; two changes
take a worker down, or let it hang, and up again.

For routes: two apps meet in one Caddy and in the domain they share. Two
requests are an app beside the other, or two of one app: a deployment and a
move, an edit that removes a domain, a stop or a start; `Undeploy` does not
count, so each of these may be followed by a deletion and a new app. One fault,
at every point and of every kind (a second one, or a third request, takes the
run past its time). The instance has one identifier per domain; colliding
identifiers are covered by the proofs. For backup: two kinds of parts make an app half-imported, two names make
"exists" and "does not exist" happen at once, three requests are two racing
imports and a change between their steps. For streams: with capacities of 1
every channel is full after one message, and three messages fill the channel,
the hand of the receiver and the hand of the sender. For migrations: ids up to
4 leave room to insert after the rows that a legacy file has, a deletion and an
insertion show a reused id, two stops hit two different starts.

Fairness. `WF(Handle \/ Work)` of each process: handlers and goroutines are
scheduled and their commands return. A command has a timeout on the worker; the
SSH handshake (`ssh/client.go:139`) and the wait for the end of a session
(`231`) have none, so the liveness of `AppLifecycle` assumes that no worker
accepts a connection and then hangs. `SF(Begin)`: `sync.Mutex` hands the mutex
to a waiter that has starved for a millisecond, so a waiter that finds it free
again and again gets it. Requests and restarts are not fair. In `Servers` such
a worker is part of the model: the step that waits for it is not enabled, and
`WF(Step)` of each process asks nothing of it; `WF` of the monitor, because its
ticker fires every 10 seconds.
In `Streams`, `WF` of each goroutine; for the reads because the pong deadline
(`console.go:32`) fails the read of a silent peer; for writes only while the peer is
not stalled, since they have no deadline; `SF(RangeReceived)` because Go's
`select` picks among ready cases at random, so a tick cannot win for ever;
`WF(PeerCloses)` because browsers answer a close frame. Nothing is assumed of
the command on the worker. In `Migrations`, `WF(Opening)`: systemd starts the
controller again (`scripts/install.sh:98`).

## Disagreements

Two runs refute what a comment or a document says:

- `claim_volumes`: a move with `purge_old` whose new compose file declares no
  volumes removes the volumes of the old one, which were not copied
  (`service.go:768`).
- `claim_replace`: a replace import checks that every app is at rest and then
  undeploys all of them; an app that is started in between is taken down with
  its volumes (`backup.go:465`, against `README.md:494`).

Others are visible in the same models and have no run of their own.

Apps:

- With moves that copy files, the status can stay "deploying" although nothing
  runs: two Patches pass `Busy`, the first starts and marks the app, and the
  second `MoveApp` or a stale row restores that status (`service.go:732`,
  `handler.go:286`).
- Rollback saves the row it read; if a Patch changed the server in between, the
  app is deployed on the old server again and the waiting `MoveWithoutFiles`
  then takes it down there (`service.go:796`).
- `Stop` leaves the Caddy route although `README.md:311` says it is removed.
- A restart between the status "running" and the deployment record leaves
  nothing to roll back to (`SPEC.md:379-381` has the other order).
- An edit that removes a domain and moves the app with its files leaves the
  domain's route on the old server, because `MoveApp` is not told.
- A failed `MoveApp` of a stopped app restores the status "stopped" and has
  started the app again on the source, because `upOnServer` does not ask what
  ran before (`service.go:585`).
- When the deployment after a copy fails, the old server is not "untouched" as
  `service.go:763` logs: its containers are down.
- `Undeploy` ignores the failure of every remote command, and of the connection,
  and deletes the row: what it could not remove stays on the worker
  (`service.go:437`).
- A Patch that read a draft before it was deployed makes it a draft again, and
  Undeploy then skips the worker; and a Patch that moves an app can bring back
  a domain an edit just removed.

Servers:

- The connection test that follows an edit, and that precedes the first
  initialization, makes a pending server "online" although its worker has
  neither Docker nor Caddy (`server/service.go:117`).
- A `docker inspect caddy` that fails for another reason than a missing
  container, a timeout for example, is taken for one, and the container is
  replaced (`server/service.go:202`).
- A server whose status was "initializing" when a PATCH read it, or when the
  controller stopped, keeps that status with nothing in progress
  (`README.md:327`), and the monitor skips it.
- A worker that accepts a connection and then hangs keeps every check of it
  waiting, a further goroutine every 10 seconds, and the server keeps its last
  status, "online" for ever (`ssh/client.go:139` has no deadline; line 231 waits
  for the session after the backstop, whose comment says "in case the connection
  itself hangs"). For the same reason an operation on such a worker keeps the
  app's mutex.
- A failed write of a new key spoils the old one, which was truncated first
  (`server/handler.go:318`): the row still names it and every connection fails.
- `InitWorker` on an initialized worker recreates Caddy, which `README.md:194`
  says it skips, and reports "online" when that failed.

Routes (the exceptions in the properties of `Routes`):

- Two apps may be given the same domain (the table is unique per app and domain
  only), or two domains with one identifier: the later deployment takes the
  route, and the deletion or move of either app removes it. Their first
  deployments may both find no record and create two.
- `Start` after a deployment whose route failed, and the abort of a move, say
  "running" of an app that no domain leads to (`service.go:1103`, `732`).
- A DNS row keeps the address that a record had when it was first tracked. A
  record created on one server is deleted with the app only as long as that
  server's row exists: after a move and the deletion of the old server it stays
  (`service.go:459`). Likewise a record of the owner's that was tracked while it
  pointed at a Dockify server is deleted with the app.
- When the certificate does not arrive within two minutes, or the controller
  stops during the wait, the proxy stays off, also for a record that had it
  before (`README.md:468`); the next deployment sees a record that already
  points home and leaves it so.
- `SaveConfig` fetches and writes in two commands: with two apps on a worker the
  one that fetched first may write last, and that write takes the other's saved
  route away until the next save (`caddy/client.go:175`, `SPEC.md:378`). The edit
  that removes an app's last domain saves nothing at all.

Backup:

- A replace import deletes rows of servers and not their key files.
- An import that failed half-way leaves an app without its parts, and importing
  again skips that app because it exists.
- An app on a server that was added during the export is exported without a
  server name, and an import then skips it; so it does with drafts that have no
  server.

Streams (`Held` in the module):

- The reader of the statistics can block for ever on `rangeCh` after its handler
  has returned (`stats_ws.go:80`).
- A command that reads no input keeps the console's goroutines: the reader
  waits on the full `inCh`, and no longer sees that the browser is gone.
- A stalled browser holds the handler in a write without a deadline.

## Proofs

Unless a theorem names a hypothesis: for every number of apps, workers,
processes, domains, compose files, servers, machines, tables, requests and
restarts, and every set of faults, from
`ConstantsAssumption`, `ServersAssumption`, `MigrationsAssumption`,
`StreamsAssumption`, `BackupAssumption` and `RoutesAssumption` alone. Each inductive invariant was an invariant of TLC's on the instance of
the component's run before it was proved.

`AppLifecycleProofs`:

- `Serial`: `Spec => []LockOwner`. Inductive with the types of `pc` and `lock`
  (`ControlInv`). Three lemmas say what any step does to control: a step inside
  an operation stays inside or releases (`WorkControl`), a first step takes the
  free mutex or gives up (`BeginControl`), requests and handlers stay outside
  (`OutsideControl`).
- `TypeCorrect`: `Spec => []TypeOK`. Needs `ControlInv` and `CopyHasSource`: a
  process about to copy has a source server, without which the target's folder
  would get a value out of nowhere.
- `StatusSettles`: if `FileMoves` has only FALSE, `Spec => []NeverStuck`. The
  inductive invariant says that while the status is "deploying" some process is
  bound to replace it (`Settling`), and what a handler may carry around
  (`Errand`): in particular, one that read "deploying" will spawn a deployment.
  `MoveApp` is excluded because with it the property is false (first item under
  Disagreements, Apps).

`SerializedProofs`:

- `Implements`: `Spec => Serializes`, the refinement of `Serialized`. The
  inductive invariant `LifeInv` is what makes the life of the app go one way: a
  row or status that a handler or operation holds was read from an app that
  existed, so writing it back cannot turn an app into an absent one, and an
  operation past its first read still has its app, because only the holder of
  the mutex deletes it. One lemma per kind of step (`RequestAbstract`,
  `HandleAbstract`, `BeginAbstract`, `WorkAbstract`, `RestartAbstract`) maps it
  to a step of `Serialized` or a stutter.

`WorkerProofs`, the properties of `one_server` and `moves`. With every race,
failure and restart at once they are false, so each theorem names what it
excludes; dropping any one of the hypotheses gives TLC a counterexample (for
`StoppedMeansDown` with drafts, a stopped app without a server). Everything else
is free: requests, compose files, domains, faults, and where the table does not
limit them workers, processes and restarts.

| Theorems | Properties | Hypotheses |
|---|---|---|
| `WorkerRunsTheRow`, `WorkerServesTheRoutes` | `RunsWhatRowSays`, `RunningIsRouted` | one worker, no drafts, no restart |
| `StoppedAppIsDown` | `StoppedMeansDown` | no drafts, no move that copies files, no restart |
| `UndeployLeavesNothing` | `NothingLeft` | one worker that can always be reached, no drafts |
| `DraftsHaveNothing`, `FolderIsKept`, `OldServerIsSpared` | `DraftHasNothing`, `FolderSurvives`, `OldServerUntouched` | one request at a time |
| `RunningAppIsUp`, `FailedMoveStays` | `RunningMeansUp`, `AbortedMoveStays` | one request at a time, no restart, the source of a failed move comes up again |

- Why they are there: with two workers a Patch can change the server between
  Rollback's read and its write, or while Undeploy waits for the mutex; a Patch
  that read a draft stores that status over a deployed app; a restart comes
  between a command and the statement that records it, or ends a deployment
  that was accepted and had not begun; an Undeploy without connection skips the
  worker; a failed `MoveApp` starts a stopped app.
- `BaseInv` holds without hypotheses: the types, `LifeInv`, and `CourseInv`: a
  process at a label has an operation that goes there, a move names two
  different servers, and only a row with a compose file is ever stored. Without
  drafts `PlacedInv` adds that every row, stored or held, names a server.
- `TruthInv` (`WorkerRunsTheRow`, `WorkerServesTheRoutes`): the worker agrees
  with row, routes and snapshot (`Faithful`), or a process has yet to read the
  row it will deploy (`Ahead`), or one is deploying what the row still says
  (`Fresh`). Whoever writes row or routes is `Ahead` afterwards
  (`WritersDeploy`), which is why a stale write does no lasting harm here.
- `DownInv` (`StoppedAppIsDown`): nobody is bound to replace the status
  (`Settling`, from `StatusSettles`) and "stopped" is true, or will be
  overwritten by the Start that has just run its command (`Halted`).
- `LeftInv` (`UndeployLeavesNothing`): a worker without the app's folder runs
  nothing, and from the moment Undeploy has been there nothing runs.
- `HoldingInv` (the theorems about one request at a time): what a handler holds
  is the row (`Intends`), until `MoveApp` stores the new server the row names
  the source, whose folder is still there (`Stays`), from then on the target,
  and "running" is stored only when the app is up there (`Arrives`); a draft has
  nothing on any worker. It survives restarts. `TrustInv` adds that a status
  about to be stored, by Start or by a move that failed, is true (`Restores`).

`ServersProofs`:

- `PinnedKeyIsOurs`, `KeyFileStays`, `AppsKeepServers`, `ServersTyped`: `Spec`
  implies `[]KeyMatchesHost`, `[]KeyFileKept`, `[]NoOrphanApps`, `[]TypeOK`. One
  inductive invariant,
  `ServersInv`: the tables are sound (`RowsOK`) and every process `Attends`: the
  row a handler is about to save matches its address and names a key file that
  exists while the server does, only files of a deleted server are removed, a
  contact has an address. A process is disturbed by others only through
  `Frame`: deleted servers stay deleted, unused ids are named by nobody, key
  files go only with deleted servers (`AttendsKept`).

`MigrationsProofs`:

- `SchemaConverges`, `IdsStayUnique`, `ModeConvertedOnce`: `Spec` implies
  `[]Converged`, `IdsNotReused`, `ModeIsOwners`, for any legacy files, tables,
  stops and changes. The inductive invariant `MigrationsInv` has four parts:
  `Shape` (types), `Upgraded` (what a file of version v has: the columns after
  1, the foreign keys after 2, the index after 3), `Progress` (an open
  transaction is the next migration of the file on disk, and past the schema
  all tables are there) and `Counted` (every id that was handed out is at most
  its table's counter, on disk and in the transaction). `MigratedFile` says
  what each migration does to each part; `OpeningKeeps` and `WorkingKeeps`
  cover the steps of `Open` and of the controller at work.
- `NoDanglingRows`, `StartKeepsRows`, `MigrationsTyped`: `Spec` implies
  `[]Consistent`, `OpenKeepsRows`, `[]TypeOK`. `RowsInv` adds `Sound`: from
  version 1 on no row dangles, because `foreign_key_check` refuses the commit of
  a file in which one does (`db.go:116`; such a file never comes up) and foreign
  keys are enforced whenever the controller changes rows; from
  version 3 on no domain is twice. That the third migration keeps a route for
  each domain with an active one (`KeptRoutes`) rests on the least id of a set
  (`LeastId`, from the well-foundedness of the numbers).

`BackupProofs`:

- `ImportsLeaveKeys`, `ReplaceIsTotal`, `ImportsAreWhole`, `ExportsAreClosed`,
  `BackupTyped`: `Spec` implies `[]KeysThere`, `[]ReplaceRemovesAll`,
  `[]ImportedWhole`, `ExportNamesServers`, `[]TypeOK`, for any number of exports
  and imports at a time. The inductive invariant `BackupInv`: ids are given once
  (`Rows`), and of each process what it has written (`KeyStep`), what a replace
  has still to remove (`Emptied`), what an export has listed (`Listed`), what it
  has found and made (`Found`, `Made`), and that an import that is alone loses no
  entry of its file (`Covered`). No two imports make the same app (`MadeApart`).
  Processes disturb one another only through `Keeps`: ids do not come back, no
  row is renamed, files go only with their row (`OthersKeep`).

`RoutesProofs`:

- `RoutesLead`, `RoutesStay`, `RecordsPointHome`, `OneRecordPerDomain`,
  `ProxyIsGivenBack`, `UndeployLeavesNoRecord`, `RoutesTyped`: `Spec` implies
  `[]RoutesServed`, `[]RoutesSurvive`, `[]PointsHome`, `[]NoDuplicates`,
  `[]ProxyGivenBack`, `CreatedRecordsGone`, `[]TypeOK`, for any number of apps
  that share any domains and identifiers; only what is concluded is about the
  domains that are `Apart`.
- The inductive invariant `RoutesInv`: identifiers are given once (`Ids`), and of
  each app what its operation was started with (`Ops`), the record it holds
  (`Holds`, `Restoring`), that nobody creates a record between its list and its
  creation (`Vacant`), that what was created has its row (`Tracked`), and which
  of its domains are pointed at and served so far (`PointedInv`, `ServedInv`).
- `Placed`: a configuration, running, saved or fetched, leads a domain only to an
  app that may be given it (`Rightful`). Without it a POST that fails and then
  finds "the" identifier could have found somebody else's route.
- `KeptInv` and `OnItsWay` are about the file: a running route is in it, or in
  the configuration that its app is about to save; a write that takes one away
  is a mishap of its app (`SavedStay`).
- A step of one app spares the domains of the others that are apart, so each
  action's lemma is about the app that takes it.

`StreamsProofs`:

- `NeverSendsOnClosed`: `Spec => []NoSendOnClosed`. Not inductive by itself: the
  waiter closes `outCh` in the step after the one that saw the copier end, so
  the invariant says that a waiter with its last message in hand has no copier
  left (`WaiterIsLast`), and that before the handler starts its goroutines no
  channel is closed and no waiter or reader there is (`NotStarted`), else
  starting them would undo it.

Only model-checked: liveness (`EveryRequestReturns`, `DeployingEnds`,
`MonitorTracks`, `EveryGoroutineEnds`, `ExitEndsSession`, `ComesUp`: out of the
prover's reach). Every other property that a passing run checks is a theorem,
`NeverStuck` and those of `WorkerProofs` under the hypotheses given.

## Not modelled, and the plan

In this order:

1. `Login`: throttle and sessions. `HandleLogin` asks and records in two steps.
2. Registry credentials in `Servers`: the token file against the row.
3. `PickServer` against its reference; commands that outlive their timeout.

Statistics are modelled as far as their goroutines go. The averages and history
queries are arithmetic over measurements; of the cache of latest samples it is
only worth noting that overlapping ticks may write it out of order, and that a
network rate is taken from two samples whatever time lies between them.

Not planned: templates, router, compression, settings and configuration (no
interaction), the text of compose files (validated and rewritten in one pass
over one string), signatures and payloads of webhooks, and the arithmetic of
statistics.
