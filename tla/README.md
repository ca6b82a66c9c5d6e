# HivePulse: a TLA+ verification project

HivePulse is an uptime monitor: a Go server that checks services on a schedule,
records heartbeats and outages in Postgres, notifies people, publishes status
pages and feeds a React dashboard. This directory holds TLA+ models of the parts
of it where interleaving, failure and order matter, the TLC configurations that
check them on small instances, and theorems about them that TLAPS checks for
every value of the constants.

The reference is the code. `PROJECT.json` maps every definition that models
code to the lines it translates, and lists the hazards of the code with the
properties that cover them.

## 1. The system

| Part | State | Operations | Interacts with |
|---|---|---|---|
| **Monitor checks** `usecase/checker_usecase.go` | rows of `monitors` (`last_status`), `heartbeats`, `incidents`; the locals of each `RunCheck` under way | `RunCheck`: load, check with retries, save heartbeat, ask for maintenance, compare, write status, open or resolve an incident, start the notifier, broadcast | started by cron entries; writes the database; starts `Notify` goroutines; calls the hub |
| **Incident log** `repo/incident_repo.go` | `incidents`: at most one open row per monitor (a unique index) | Create, Resolve, lists | written by checks; read by statistics, status pages, the incident list |
| **Maintenance windows** `repo/maintenance_window_repo.go` | `maintenance_windows` | Create, Delete, IsMonitorInMaintenance, daily clean-up | asked by each check about the time of its heartbeat |
| **Scheduler and monitor life cycle** `infrastructure/scheduler.go`, `usecase/monitor_usecase.go` | cron entries, `jobs` under a mutex, the `monitors` table | Create, Update, Delete of a monitor; Add and Remove of its entry; rebuilding at start | REST handlers run at the same time; deleting a user cascades to monitors behind the scheduler's back |
| **Websocket hub** `infrastructure/websocket_hub.go` | the set of clients, the broadcast queue, a queue per client | Broadcast, register, unregister, ReadPump, WritePump, eviction | called by checks; one pair of goroutines per connection |
| **Notifications and reminders** `usecase/notification_usecase.go`, `repo/notification_repo.go` | channels, assignments with their triggers, the notification log | Notify, NotifyReminders, edits of channels and assignments | goroutines started by checks; the aggregator's tick; the certificate checker |
| **Certificate checker** `infrastructure/ssl_checker.go` | none of its own: the notification log | Tick | the notifications |
| **Statistics aggregator, retention** `infrastructure/aggregator.go` | minutely, hourly and daily tables | Tick: upserts over sliding windows, deletes | reads heartbeats; ends by sending reminders |
| **Statistics queries** `usecase/stats_usecase.go`, `repo/stats_repo.go` | none | GetStats, GetOverview, the uptime of a day | read the tables, incidents, heartbeats |
| **Sessions and set-up** `usecase/auth_usecase.go`, `repo/token_repo.go` | users, refresh tokens | Setup, Login, Refresh, Logout | used by the dashboard's session |
| **Users, roles and tags** `usecase/user_usecase.go`, `repo/tag_repo.go` | users, tags, their assignment | edits, deletes with their cascades | sessions, monitors, status pages |
| **Dashboard session** `ui/src/infrastructure/apiClient.ts`, `useAuth.ts`, `PrivateRoute.tsx` | access token, the queue of requests that wait for a refresh | interceptors, first refresh, login, logout, guard of private pages | the server's sessions |
| **Status pages** `usecase/status_page_usecase.go` | pages and their tags | edits, the public view | monitors, tags, incidents |
| **Settings and SMTP** `handler/settings_handler.go` | a row, and one shared configuration in memory | Get, Put, load at start | read by the mail sender without a lock |
| **Transports**, **dashboard screens**, **bootstrap** | none that outlives a call | network I/O, rendering, wiring | everything |

What is hard in it:

* **Stale reads.** `RunCheck` compares its result with a status it read before a
  check that may take a minute, and cron does not wait for the previous run.
  Reminders go to targets read at the beginning of a tick. An access token keeps
  a role that may have been taken away. A visit to a status page is five queries.
* **Several stores, no transaction.** A status and its incident, a monitor's row
  and its cron entry, a message and its log row, an old refresh token and the new
  one, a page and its tags, the saved settings and those in memory are written one
  after the other, with other requests, failing calls and restarts in between.
* **Memory lost at a restart.** Cron entries, `jobs`, goroutines and queues go;
  tables stay.
* **Sliding windows.** Every tick replaces counts of buckets that its window
  may cover in part, of heartbeats that are deleted at an age of their own, and
  ticks are dropped while reminders are sent.
* **Bounded queues and blocking channels.** The hub must not wait for a client,
  a client must not lose messages unnoticed, no channel may be closed twice.
* **One refresh for many requests.** A refresh token is good once, and a page
  sends many requests whose answers come in any order.
* **Liveness.** An outage that lasts must be recorded, an enabled monitor must
  go on being checked, a monitor that stays down must be reminded of, the
  hub's queue must be emptied, no request of a page may wait for ever.

## 2. The modules

| Module | Models | Built on it |
|---|---|---|
| `IncidentLedger` | abstract: what the incidents table promises its readers | implemented by `MonitorCheck` |
| `MonitorCheck` | `RunCheck` call by call, incidents, maintenance windows | `MCMonitorCheck`, `MonitorCheck_proofs` |
| `Scheduler` | REST requests against table, cron and `jobs`; start-up | `MCScheduler`, `Scheduler_proofs` |
| `Hub` | `Run`, the pumps, queues, eviction, connections | `MCHub`, `Hub_proofs` |
| `Notification` | `Notify`, reminders, certificate warnings, log, edits | `MCNotification`, `Notification_proofs` |
| `Statistics` | the aggregator's ticks, retention, the queries | `MCStatistics`, `Statistics_proofs` |
| `Session` | users, roles, refresh tokens, set-up | `MCSession`, `Session_proofs` |
| `Dashboard` | a page, its access token and its requests | `MCDashboard`, `Pages_proofs` |
| `StatusPage` | pages, tags, assignments, the public view | `MCStatusPage`, `Pages_proofs` |
| `Settings` | the configuration of the mail server, the zone | `MCSettings`, `Settings_proofs` |

Each module is a component with the database calls of its handlers as actions;
what other components do to its tables is in it as far as it matters: statuses
in `Notification`, heartbeats in `Statistics`, incidents in `StatusPage`.

### MonitorCheck

`run[m][s]` is a call of `RunCheck(m)`; its `pc` names the database call or
other effect that comes next, `prev` is `monitor.LastStatus` as read by
`FindByID`, `left` the retries left, `checkedAt` and `result` the heartbeat.
Each call that another goroutine can come between is an action: `LoadMonitor`,
`BeginCheck` and `EndCheck` (an attempt takes time; the heartbeat is stamped at
its beginning), `SaveHeartbeat`, `QueryMaintenance`, `Suppress`, `WriteStatus`,
`OpenIncident`, `ResolveIncident`, `SpawnNotify`, `BroadcastStatus`. A failing
call is a disjunct of the action, and does what the code does then: a heartbeat
that cannot be saved ends the run, an incident that cannot be written is only
logged. `incidents[m]` is the list of the monitor's rows in the order of their
ids, with the unique index on open rows and the foreign key to the monitor.
Handlers (`UpdateMonitor`, `DeleteMonitor`, `CreateWindow`, `DeleteWindow`), the
daily job and `Restart` come at any point. `target` is the monitored service;
`announced` and `shown` remember what the notifier and the dashboards were told
last. Only the status of a heartbeat is kept: response times, messages and
protocols are left out. What differs between monitor types is network I/O.

### Scheduler

A request is a record of what it still has to do. The mutex is taken where the
code takes it: `Remove` holds it throughout and is one step; `Add` calls
`cron.AddFunc` without it and takes it only to write `jobs`, so it is two
(`AddFunc`, `SetJob`). Requests overlap in every way. `disturbed` are the monitors
whose requests overlapped or failed, and all of them after a start that could not
read the table, until a request that meets no other for the monitor or a start that
went well; `leaky` are those whose requests overlapped since the last start.
`Restart` empties the memory and rebuilds it from the table as `main` does before it
serves.

### Hub

`Run` is one goroutine: `TakeMessage` and then one `Offer` per client; its other
cases are `Register` and `Unregister`, whose sender is blocked until `Run` is at
its select. `pump[c]` is where the two goroutines of a connection are, `held[c]`
the message a writer has taken and is writing. `taken`, `joined` and `received`
are history variables, to state what a client has seen.

### Notification

`worker[w]` is a goroutine: those that `RunCheck` starts (`Goroutines`), the
`reminder` part of the aggregator's tick and the `ssl` tick. All go through the
same labels, one for each query or send of `notifyChannel`. The log is never
read except for how long ago the newest row of a kind was written, so it is
kept as ages; `told` remembers in the same way what was really accepted by a
transport, so that properties can compare the two. `hour` is the hour of the
week in the zone of the settings. `RecordStatus` stands for the part of
`RunCheck` that starts a notification, where `MonitorCheck` has all of it; runs
of one monitor do not overlap here. `EditChannel` and `EditAssignment` are the
edits; `ListMonitorChannels` and `Remindable` the two queries that decide who is
told. Certificates are read over the network: `expiring` are the monitors for
which that finds fewer than 30 days, and each tick may fail to read any of them.

### Statistics

A check is stamped (`Check`) and saved later (`Create`). The aggregator's loop
is `Tick` (one transaction: the upserts of three tables and the deletes; it may
fail as a whole), then `RemindersSent` after any time; `ticked` is the ticker's
channel, which holds one tick and drops others. `BucketOf`, `Grouped` and
`Upserted` are the SQL: buckets are cut at multiples of their length, the window
at `clock - Window[l]`, which is in general inside a bucket. `GetStats`,
`GetOverview` and the two counts of the uptime (`Get` or `List`, `CountTotal`,
`CountUpSince`) read between any two steps. `recorded`, `seen`, `lastTick` and
`longest` are history. Ping times are averaged beside the counts and left out.

### Session

A request is a row of `request` whose `pc` names the next database call of
`Setup`, `Login`, `Refresh` or `Logout`; `Refresh` finds the token and goes on with
`FindUser`, `DeleteToken` and `IssueRefreshToken`, after which the answer
(`SetRefreshCookie`) sets the cookie that all tabs of a browser share. `Dropped` ends a request after
any call: a call failed, the process stopped or the answer was lost. A token
carries the login it descends from (`line`), which the code does not store: it
only serves the properties. Access tokens are claims with a role, valid until
they expire. `UpdateRole` and `DeleteUser` are guarded as the routes are, by the
role in the token; nothing else can change a token, so guard and statement are one
step.

### Dashboard

JavaScript runs one callback at a time: an action is a callback. A request is
`new`, `sent`, `waiting` in `queue` for another's refresh, `asking` for a refresh
itself, `answered` or `rejected`. `InitAuth` is the answer to the refresh a page
begins with; `Ask`, `Login` and the logout send; `QuerySucceeds`,
`LoginSucceeds`, `LogoutSucceeds`, `Reject` and `Refuse` (a 401) are the answers;
`RefreshSucceeds` sends the request and the queue again, `RefreshFails` rejects the
request, leaves the queue as it is and sends the browser to `/login`, which
discards the page (`Unload`), though answers that are there already are still
looked at. The server is left to chance but for two
things: it lets no request with an expired token pass, and refreshes only while the
session lives. It may refuse a good token too (`Refusable`): `/auth/me` answers 401
when its user was deleted or cannot be read. The websocket client is not modelled:
`useWebSocket`, which would connect it, is used by no screen.

### StatusPage

`Create` and `Update` of a page are two or three calls (`SlugExists`, `InsertPage`
or `SavePage`, then the transaction `ClearTags`, `SetTags`); two transactions may
interleave, and neither sees what the other has not committed. A request that names
a tag twice violates the key of the table, which undoes the transaction, while the
request is answered as if it were done. `disturbed` are the pages that such a request,
an overlap or a failure has left as a mixture, until a transaction that has the page
for itself. Tags are created, assigned, unassigned and deleted, monitors deleted. A
check that changes a status is two calls (`UpdateLastStatus`, `UpdateIncidents`) and may find its monitor in
maintenance, which leaves the incidents alone. A visit is five queries:
`FindBySlug`, `ReadTags`, `ReadMonitors`, `ReadActive`, `ReadRecent`, with the
limits the code puts on the last two; `computeOverallStatus` is the banner.
`SPInit`, `SPNext`, `SPSpec` and a few other names differ from those of `Dashboard`,
so that one module, `Pages_proofs`, can extend both.

### Settings

`PutSMTP` saves the row and then assigns five fields one by one, without a lock;
the mail sender reads seven times, without a lock. A string is two words, so a
field that is read while it is written may be neither value (`Torn`), which is
what Go's memory model allows; a port is one word. The handler that is submitted the
stars reads the password in the same way, beside another that may be writing it, and
saves what it read, torn or not. Port 0 becomes 587 and a negative one passes.
At a start a saved string replaces that of the environment if it is not empty, and a
saved port if it is above zero (`Loads`, `Loaded`); if the row cannot be read or
decoded the environment stays (`RestartUnread`). `mixed` remembers that two requests
overlapped, `unloaded` that the start could not read the row, and for both that
no request came alone since.

## 3. What the runs check

| Run | Instance | Shows |
|---|---|---|
| `serial` | 2 monitors, 1 run each, 1 retry, 3 changes of the services | `UpHasNoIncident`, `AnnouncedMatchesIncident`: between runs status, incident and notification agree. `RecoveryIsRecorded`: a service back for good has no open incident in the end. |
| `maintenance` | 1 monitor, 1 window at a time, clock 0..3, 4 changes | `DownHasIncident`, `DashboardIsCurrent`, `NoIncidentInsideWindow`, `OutagesInOrder`; `OutageIsRecorded` whatever maintenance came before. |
| `overlap` | 1 monitor, 2 overlapping runs, 1 failing call, 1 restart | `OneOpenIncident`, `NoOrphans`, and `LedgerSpec`: `MonitorCheck` implements `IncidentLedger`. |
| `maintenance_leak` | as small as shows it | what the code does otherwise than its test says: section 6. |
| `sched` | 2 monitors, 2 handlers, 3 requests, 1 failing call, 1 restart | `JobsAreLive`: a key of `jobs` never dangles. `ScheduleMatchesTable`: between its requests a monitor is scheduled as the table has it; what overlaps and failures leave ends with the next request that meets no other, and a second entry, which only overlaps leave, with a restart. `EnabledIsChecked`: a monitor that stays enabled is checked again and again. |
| `hub` | 2 clients, queues of 1, 2 messages | `ClosedOnce`, `NoGaps`, `QueueIsEmptied`, `NothingLeaks`. |
| `notify` | 1 monitor, 2 channels, three workers, four set-ups | `RemindersAreRouted`, `LogCoversMessages`, `RemindersAreSpaced`, `WarningsAreSpaced`, `KeepsReminding`. |
| `stats` | three tables, 2 monitors; three budgets | `RowsAreSound`: no count is ever too high, in the overview neither. `CoveredRowsAreExact`: a bucket the window covered is right. `AnswersCoverTheRange`: no check is lost to a range that reaches back to it. `UptimeIsBounded`: an uptime exceeds 100 % by no more than the checks saved between its two counts. |
| `session` | 2 users, 2 browsers, 2 requests at a time; three budgets | `OneTokenPerSession`, `LogoutEnds`, `StaleRoleIsBounded`, `SetupIsOneTime`. |
| `page` | 3 requests of a page, 1 token that expires | `RefreshesDoNotOverlap`, `RetriedOnceWithNewToken`, `LoggedOutStaysOut`, `EveryRequestEnds`. |
| `pages` | 2 pages, 2 tags, 2 monitors, 2 requests at a time, 1 visit; three budgets | `PageIsAsAnswered`: a page has what was answered for it, and a mixture that overlaps or failures leave ends with the next request that meets no other. `OutageIsExplained`: an outage on a page comes with its incident. `IncidentsAreListed`: none falls between the queries. |
| `settings` | 2 administrators, 1 mail, a negative port and blank fields among what is submitted, starts that cannot read the row; two budgets | `MemoryMatchesTable`: what is used is what was saved, or the environment whole after such a start. `MailUsesOneConfiguration`. |

For every property `PROJECT.json` names a mutant, a plausible bug in one
definition, with which the same run finds the property violated. The type
invariants (`TypeOK`) are proved, where a module has theorems, and not run.

**Bounds and why they are enough.** Two overlapping runs show every
interference that `RunCheck` is exposed to, since a run reads the status once
and writes it once. Three changes of a service give up, down, up and down
again; the fourth in `maintenance` lets an outage begin, end, and begin again
around a window. A clock of 0..3 has room for a window announced before it
begins, a check inside it, and a query after its end. One failure and one
restart suffice where the property is about their consequence, for each is
examined at every point of a run. For the schedule, two requests that overlap
on one monitor and a third after them are what the anomalies need. The
hub's queues hold one element, so that full and empty are one step apart, and
two clients show that one is not hurt by the other; the proofs hold for any
sizes.

Where everything at once would be too many states, a constant `Budgets` (in
`Notification`, `Setups`) gives sets of bounds, one of which `Init` chooses. In
`notify` each set-up has its own bound on disturbances (edits, missed
attempts, failing calls and restarts, counted together): one for a global channel
with reminders beside a channel that may be created, one for an assignment with a
cooldown and certificate warnings, two for an assignment with a schedule, and none
where both channels have reminders and the monitor has a cooldown and a certificate
at once. Ages stop at `Never`, the largest period in use, beyond which the code
does not tell them apart; two attempts stand for three, the first, which may be
followed by another, and the last; two days of two hours tell being outside by day
from being outside by hour. In `stats` the proportions are those of the code: the
minutely window is two periods of the ticker and more than two of its buckets,
the others are two buckets, and what is kept outlasts windows and ranges; nine
units of time are three ticks, so that a bucket is counted, counted again in part
and left behind. In `session` two requests are under way at once, each a
sequence of up to five calls; one budget stresses set-up and users, one
three refreshes over the life of two tokens, one two logins with a lost answer.
In `pages` one budget has three requests and their tags, one five checks around a
visit, one a mixture. Limits of one and two for the incidents of a visit let them be
reached. In `settings` seven reads are one mail from its first field to its last.
In `page` three requests are the one that refreshes, one that waits and one whose
answer comes late; a second token is issued for the one that expires.
All runs have `CHECK_DEADLOCK FALSE`: the bounds on requests, time and
messages let every instance come to an end.

**Fairness.** `MonitorCheck`: a run that has begun goes on (every call has a
timeout or returns), the cron entry starts another, and time passes;
nothing is assumed of handlers, failures or the service. `Scheduler`: a request
that was accepted is served to its end and cron fires an entry that it has.
`Hub`: `Run` never stops, and Go's `select` chooses at random among the
cases that are ready, so none is passed over for ever (strong fairness of each
case); `QueueIsEmptied` needs nothing else, and in particular nothing of the
clients. `NothingLeaks` states what more it needs as a premise, `PumpsAreFair`:
the pumps are scheduled, and a write returns once the connection is gone; a write
to a peer that is there and does not read may block for ever, as
it does in the code, which sets no deadline. `Notification`: the aggregator's
ticker goes on, its calls return, time passes. `Dashboard`: the browser ends every
request it sent, with an answer or an error, and leaves a page when it is told to;
nothing is assumed of what the answers say. The other modules have safety
properties only.

## 4. What is proved

The theorems hold for any monitors, slots, retries, handlers, clients, queue
sizes, windows, users, requests, pages, visits and bounds that satisfy the
`ASSUME` of the module. Most assumptions only give constants their types. Those
that say more: `Statistics` has no window longer than heartbeats are kept (the
code: two days and 30), and no range that `GetStats` accepts reaches further back
than its table keeps rows (`RangesAssumption`; the code: a day of 7 days, 15
days of 90, 90 days of 90). `Settings` keeps the special values apart, lets
only the password be submitted as stars, and takes any of the values as negative
ports. `Notification` keeps its goroutines apart
from the names of what they send, and `StatusPage` its slugs from the marks of a
page that does not exist yet or any more.

Some theorems of `MonitorCheck` assume more of its constants, each time what
the property needs: `OneAtATime` (one slot: the runs of a monitor follow one
another) and `NoFailures` or `MaxFaults = 0` (no call fails, and, for the former,
no restart). Without them TLC finds the anomalies of section 6.

* `MonitorCheck_proofs`
  * `TypeCorrect`.
  * `OneOpen`, `ImplementsLedger`: under any overlap, failure and restart.
    At most one row is open and it is the newest: an insert needs the log to have no
    open row (the unique index), and a resolve closes the one there is. From that,
    each step appends an open row, closes the newest one, forgets the log of a
    deleted monitor, or leaves it alone: the refinement is the identity on
    `incidents`.
  * `NoOrphanRows`: foreign key and cascade, against runs that are under way.
  * `DownIsRecorded` and `UpIsRecorded`: when the runs of a monitor follow one
    another and no call fails, status and incident agree between runs; for `up`
    there must be no maintenance either, which is what the finding is about. Neither
    is inductive. `SerialInv` adds what holds in the middle of a run: the status
    it compares with is still the one recorded, and only a run about to open the
    incident may see `down` without one. `NoWindowInv` is its counterpart for `up`.
  * `WindowsAreRespected` (`NoIncidentInsideWindow`), under any overlap and restart
    if no call fails. `WindowInv`: a run that is about to write its status or to
    open an incident has found its own stamp outside the windows that were announced
    before the stamp; a window that is created later is younger than every stamp
    there is, so it takes nothing back.
  * `OutagesDoNotOverlap` (`OutagesInOrder`), when runs follow one another, with
    failures and restarts. `OrderInv`: no row of the log begins or ends after the
    stamp of the run that may write the next one. Both ends of an outage are stamps of
    checks (`checker_usecase.go:113` and `:122`), which are written later.
  * `DashboardsAgree` (`DashboardIsCurrent`) and `NotifierAgrees`
    (`AnnouncedMatchesIncident`), when runs follow one another and no call fails,
    through any maintenance. `ShownInv`: from the write of a status to its broadcast,
    what will be shown is what was written. `AnnouncedInv`: an incident is open
    exactly if the notifier was last told `down`, or is about to be.
* `Scheduler_proofs`
  * `TypeCorrect`; `KeysNeverDangle` (`JobsAreLive`). The inductive invariant adds
    to `JobsAreLive` that an entry between `AddFunc` and `SetJob` is alive and
    belongs to that request's monitor, that no two pending or recorded ids are
    equal, and that all ids are older than `nextId`: without them an overlapping
    `Remove` could take the entry from under a request.
  * `ScheduleFollowsTable` (`ScheduleMatchesTable`). The invariant `Tidy` has three
    parts. `Orderly`: a monitor that is not disturbed has one request at most, and
    without one its schedule follows the table, or else what is already done and
    what is not depends on the stage of that request. `Tight`: a monitor that is not
    leaky has no entry but the one `jobs` names and, for a moment, the one its
    request is about to record. `Untouched`: one that was never stored has neither.
    A request that meets no other is orderly from its first step whatever it finds,
    which is why it repairs what others left, unless that is out of reach.
  * `RestartRepairsTheSchedule`: an action property, from any reachable state.
* `Hub_proofs`
  * `TypeCorrect`, with the bounds on queues of any size.
  * `ChannelsCloseOnce` (`ClosedOnce`). The invariant relates the message in hand to
    the queue and says that a client that left the set had its channel closed
    exactly then.
  * `ClientsSeeEveryMessage` (`NoGaps`). `StreamInv` says that what a client was
    written, what is being written and what waits for it continue one another as
    parts of the messages `Run` took, from its registration on, and that, while
    it is registered, nothing is missing but the message in hand. A client with a
    full queue loses its registration, so the gap is never followed by a message.
* `Notification_proofs`
  * `TypeCorrect`; `RoutedReminders`: two queries written apart agree in every state.
  * `MessagesAreCovered` (`LogCoversMessages`). Its invariant
    `CoverInv` says that a message the log does not cover yet is in the hands of a
    worker about to write its row, and, because a channel may be created at any
    time, that a channel not created yet was told nothing and is known to no worker.
  * `SpacedReminders` (`RemindersAreSpaced`) and `SpacedWarnings`
    (`WarningsAreSpaced`), action properties. The log is read when a tick begins and
    written after each message, with edits and other goroutines in between.
    `SpaceInv` says for the one goroutine that sends the kind: what it has in hand
    names each channel once, every channel it may still get to has not heard of the
    monitor for long enough (`Ready`), and what the log says of a stored channel is no
    older than what the channel heard, but for the row about to be written
    (`Remembered`).
* `Statistics_proofs`
  * `TypeCorrect`.
  * `CoveredRows` (`CoveredRowsAreExact`). `KeptInv`: nothing that lies in a window
    was deleted, since heartbeats are kept longer than any window; so the count
    over a covered bucket is that of all heartbeats recorded.
  * `UptimeOfADay` (`UptimeIsBounded`). `CountInv` bounds what the second count
    may find by what the first found and what was saved since: both use the
    same lower bound, and a delete only takes away.
  * `NoCheckIsLost` (`AnswersCoverTheRange`). `SavedInv`: a check that no tick has
    found is not older than the last tick by more than a check may take; one that was
    found has a row in each table until the row is deleted, if ticks were close
    enough.
  * `StatisticsAreSound` (`RowsAreSound`). `SoundInv` bounds the counts of a row by the
    checks of its bucket that were ever counted, also after a partial count. The
    overview adds rows up with a fold: `SumExists` builds the recursive function that
    `MapThenSumSet` stands for, by the least set size without one, and `SumIsCovered`
    shows by the least counterexample that a sum over rows with disjoint groups of
    checks is no larger than the number of checks.
* `Session_proofs`
  * `TypeCorrect`.
  * `SetupHappensOnce` (`SetupIsOneTime`): unless two set-ups overlapped, the only user
    is the one that a set-up created or is about to create; no route lets an
    administrator delete itself, so that it stays and no set-up opens again.
  * `LogoutEndsTheSession` (`LogoutEnds`) and `SessionsKeepOneToken`
    (`OneTokenPerSession`), from `LinesAreOrderly`: for every login, which of its
    tokens are in the table, in the cookie and in the hands of a request, stage by
    stage; and that tokens of the future are in none of them.
  * `RolesAreNotOld` (`StaleRoleIsBounded`). `RoleInv`: a token or a request that is
    about to sign one carries a role that its user had when the row was read, and
    a role that is taken away leaves the moment behind.
* `Pages_proofs`, of `Dashboard`: `TypeCorrect`; `OneRefreshAtATime`
  (`RefreshesDoNotOverlap`), `SentTwiceAtMost` (`RetriedOnceWithNewToken`),
  `LogoutLasts` (`LoggedOutStaysOut`).
  `PageInv` has four parts: the store agrees with the router; every request is
  sound for its stage (how often it was sent, with which token, older than which);
  `isRefreshing` holds exactly while one request asks, and who is in the queue
  waits; and after a logout every request that may still be refused carries a token
  of a session that has ended, so its refresh fails.
* `Pages_proofs`, of `StatusPage`
  * `PagesAreKept` (`PageIsAsAnswered`). `AnswerInv`: a page that is not disturbed has
    one writer at most, and without one has the tags that were answered; the rows
    that its transaction deletes are all the page has, whatever is left there from
    before, which is why a request that meets no other repairs the page; the pages
    of others are left alone. The slug is the one answered in every state.
  * `OutagesAreExplained` (`OutageIsExplained`) and `NoIncidentIsMissed`
    (`IncidentsAreListed`). `CheckInv`: unless a check is about to change its
    incidents, a monitor that is down has an open one, and an open one belongs to
    a monitor that is down or came under maintenance. `VisitInv`:
    for each stage of a visit, what the queries so far say of the moment they were
    made; while no check touches the page's monitors, of this moment too; and an
    incident that was known is among the open rows read, or was closed since, in
    which case the second query finds it. That the limits were not reached is
    counted in the cardinalities of finite sets.
* `Settings_proofs`
  * `TypeCorrect`.
  * `MemoryFollowsTable` (`MemoryMatchesTable`). A request that none met so far finds
    nobody else busy (`Alone`); what it writes is what it saved, and memory has it up
    to the next field (`Written`); and where nobody writes and nothing is mixed,
    memory agrees with the table as far as the last start could and would load it
    (`Agree`).
  * `MailsAreOfOneKind` (`MailUsesOneConfiguration`): a clean mail that is not over
    has read what memory holds now, because a request that begins meets it.

**Only model-checked**: the liveness properties (`RecoveryIsRecorded`,
`OutageIsRecorded`, `EnabledIsChecked`, `QueueIsEmptied`, `NothingLeaks`,
`KeepsReminding`, `EveryRequestEnds`), since liveness under fairness is beyond this
prover. Every other property of the runs that pass is a theorem.

## 5. What is not modelled, and why

* Response and ping times, messages, logs, layouts, titles, query parameters: nothing
  here depends on them.
* The protocols of checks and messages, the UI's rendering and routing, CORS,
  rate limits, configuration: I/O and wiring without a state of their own.
* The websocket client of the dashboard, which no screen connects; connections as
  the server sees them are in `Hub`.
* Passwords, hashes and device fingerprints: a login is given the right password or
  fails.
* A test message (`TestChannel`) is sent and forgotten; list queries read only.
* Postgres is taken at its word: a statement is atomic, an index and a foreign
  key hold. Clocks do not jump; the server's and the database's are one clock.
* `cmd/oss/main.go` starts the scheduler a little before `SetNotifier`; the first
  tick of an entry comes one interval later, so the models start with both.
* A negative number of retries, which validation lets pass
  (`checker_usecase.go:66`), makes the loop of attempts empty; `MonitorCheck` has
  retries in the natural numbers.

## 6. Findings

`maintenance_leak` is a run that TLC refutes against what a test of the repository
says: a monitor is down, a window covers a check (`last_status` becomes
`maintenance`), the service comes back. `RunCheck` resolves only on down to up, so
the incident stays open while the monitor is up, until the next outage and recovery.

The models also show what the properties therefore except, or what they allow:

* **An outage without an incident.** Two overlapping runs loaded the same status; one
  records up and resolves, the other then records down from the same old status
  and opens nothing. Later runs see down to down. A restart or a failing call
  between the status and the incident has the same effect.
* **A leaked entry** (`scheduler.go:37`). Two overlapping updates of one monitor both pass
  `AddFunc` before either writes `jobs`; the entry that loses is out of reach of
  `Remove` and fires until the process restarts; no later request repairs it.
* **A stale schedule** (`monitor_usecase.go:158`). Two overlapping updates win in the
  table and in the schedule in different order; an enabled monitor is left at the
  other interval or without an entry, until the next update that meets no other.
* **A shrinking bucket** (`aggregator.go:49`). The oldest bucket of a window is
  replaced by a count of the part that the window still covers: the row of an
  hour or a day ends up with fewer checks than took place.
  The tests of the aggregator (`aggregator_integration_test.go:79`) look at fresh
  buckets only.
* **A recovery held back** (`notification_usecase.go:50`). The cooldown of a channel
  looks at any message, so the message of an outage holds back that of its
  recovery, unless it lasted longer. Two workers may both pass the cooldown
  before either has logged its message.
* **A setting that does not survive** (`settings_handler.go:90`, `:168`). A negative
  port is accepted, saved and used, for only 0 is replaced by 587, but at the next
  start it gives way to the port of the environment, as do fields that were saved
  blank. `MemoryMatchesTable` excepts these fields.
* **A start without the saved settings** (`settings_handler.go:158`). If the row cannot
  be read or decoded at start nobody is told: mail is sent with the environment until
  the configuration is saved again.
* **Tags lost without a word** (`status_page_usecase.go:101`, `:128`). If `SetTags` fails,
  for instance because a request names a tag twice, the page keeps the tags it had,
  and the request is answered as a success.
* **A window ignored** (`checker_usecase.go:84`). If the query for maintenance
  fails, the check counts as outside maintenance and may open an incident.
* **A refresh without an end.** A refresh that fails after the old token was deleted
  leaves the session without any; two tabs that refresh with the same cookie leave a
  token that no browser holds. `DeleteExpired`, which would clear such tokens
  away, is called by nobody.
* **A login error nobody sees.** A wrong password is answered 401, which the
  interceptor takes for an expired token: it refreshes, fails, and loads `/login`
  anew, so that the error that `LoginPage.test.tsx:28` expects is gone. A logout
  beside a refresh under way leaves the page with the new token.
* **A comment that is not so** (`settings_handler.go:94`): the mail password is
  said to be encrypted before that point, and is saved as it was submitted.

## 7. Order of the work

`MonitorCheck` with `IncidentLedger` came first (the program's purpose, and its
longest handler), then `Scheduler`, `Hub`, `Notification`, `Statistics`, `Session`,
`StatusPage`, `Settings` and `Dashboard`, each followed by its proofs.

What could follow: a composition of `Scheduler` and `MonitorCheck`, for a check
that is under way while its monitor is rescheduled, and of `Session` and
`Dashboard`, for two tabs of one browser.
