# Sentinel: the backend in TLA+

Sentinel shows players of EVE Online an intel feed over region maps. Its backend is one Go program on
PocketBase (SQLite, a realtime broker and an HTTP router in one library). This directory specifies the parts of
it in which several goroutines, requests or jobs meet in one table, one queue or one registry, checks them with
TLC on small instances and proves what matters most for every instance with TLAPS.

Paths are relative to `backend/internal/` unless they begin with another directory of the repository.

- [The system](#the-system): components, their state, operations and hazards
- [Modules](#modules): which module models which part, and how
- [What is checked](#what-is-checked): runs, properties, [bounds](#bounds), [fairness](#fairness)
- [What is proved](#what-is-proved)
- [Where the code and its documents differ](#where-the-code-and-its-documents-differ)
- [What is not modelled](#what-is-not-modelled)
- [Plan](#plan)

## The system

### How the parts interact

Everything runs in one process. HTTP handlers (one goroutine per request), cron jobs (one goroutine per firing),
the zKillboard worker and the publisher's goroutine share four things:

- **the database**, through PocketBase (v0.37.5, external). `Save` of a loaded record writes the columns that differ
  from what was loaded, and no others; an update or deletion of a row that is gone succeeds and changes nothing;
  `Save` rejects a value outside the schema and a relation to a row that is not there; a row that a required relation
  refers to cannot be deleted. A query is a snapshot. No code here opens a
  transaction, so **between any two statements anything else may happen**, and few tables have a unique index
  (`intel_report_hashes`, `uploader_tokens`, `intel_uploaders`, `job_runs` and `jumpbridges` have none that
  would help).
- **the registry of cancel handles** (`jobs/registry.go`), from job id to the function that cancels its context.
- **the publisher's queue** (`realtime/topics.go`), which every part with news writes to.
- **memory behind a pointer**: the route planner's graph, the ESI throttle and caches, login flows in the app's
  store.

The process may stop at any point; rows stay, everything else is gone. External services (the game's ESI,
zKillboard, the OAuth platforms, GitHub) answer late, with errors or never.

### Inventory

| Component | State | Operations | What is hard | What makes it correct |
|---|---|---|---|---|
| Job runner (`jobs`) | `job_runs` rows, the run's counters and flags, the registry | Run with its steps, partial and skipped marks, finalization; IsRunning; CancelJob; the stale sweep | run, canceling request, deadline, sweep and process stop meet in one row; saves whose errors are dropped | a record says running only while somebody will close it; one run per key; the verdict follows the documented rules; a canceled run ends |
| Intel reports (`intel`, `api/intel`) | `intel_report_hashes`, `intel_reports` | submit, scan the slots, claim one, create; hourly removal | the same line submitted several times at once; query, claim and creation apart; cleanup below a row | a rejected report is not lost; a line gets one report; a full table drains |
| zKillboard worker (`zkill`) | sequence number, recent killmails, stored checkpoint | bootstrap, fetch, handle, publish, save checkpoint, tick | each call may fail, the number is read again; restart; publisher full | nothing is passed over, repeated or reordered; progress |
| Realtime publisher (`realtime`) | bounded queue, client subscriptions (PocketBase) | PublishJSON, run, deliver, Stop | never waits for room; clients come and go during delivery | order, completeness for those subscribed, delivery of what was accepted |
| Uploader tokens, sessions (`intel`, `middleware`) | `uploader_tokens`, `uploader_realtime_sessions` | regenerate, rotate, revoke; issue and renew sessions; cleanup | loops of row updates that overlap; updates that fail; sessions keep revoked rows in place | what was revoked is dead; the user keeps access unless revoked; rows go in the end |
| Jumpbridges (`jumpbridges`) | `jumpbridges`, two rows per pair | add, remove, replace, import, validate, discover | minutes between the read and the save; two rows without a transaction; answers that settle nothing | both directions or none; one partner per system; a pair goes only when its structures do |
| Route planner (`intel/route_planner.go`, `api/maps`) | cached graph, hash, time of the last rebuild; the autopilot | find a route, rebuild, give it to the autopilot, clear it | shared without a lock; a hash decides whether to rebuild; a goroutine nobody waits for | routes use bridges that exist; none shorter; one route at a time |
| Timers (`timers`, `api/timers`, `api/timerwebhook`) | `timers`, sync metadata, cursor and ETags of the notifications | staff's edits; sovereignty and skyhook synchronisation; webhook | saves of copies loaded before; memories stored before the work they stand for | the table follows the game; a notification is not lost or doubled; every character has its turn |
| Login and accounts (`auth`, `api/auth`, `api/admin`) | login flows in memory; `users`, `characters` | login, link, refresh, remove, move, merge, crown, revoke | refresh tokens that the provider replaces at every use; loads and saves apart; rows that go meanwhile | one main; a valid mark tells the truth; what was revoked stays away |
| ESI (`esi`), organisations (`store`) | throttles, the affiliation cache; `corporations`, `alliances` | requests with retries; lookups, searches, marks of closed organisations | answers that overtake each other, refuse, get lost; a mark hides for good | waits are kept; answers are recent; only the gone are hidden |
| Map data (`mapdata`) | map tables, hashes of imported files, ETag of the archive | import file by file, optional files, layouts | what lets a run skip its work is stored apart from the work; runs overlap | a mark stands for work done; every release comes in |
| Cron, server (`server`) | lifecycle context | start jobs, shut down | order of shutdown | jobs are told to stop |
| Other admin and staff endpoints (`api/admin`, `api/staff`), `middleware`, `audit`, `logging`, `config`, `oidc`, `uploaderrelease`, `web`, helpers, `frontend`, `taskutil` | little or none | single-record edits, lists, static files | | |

`PROJECT.json` lists the components with their files and the hazards with their lines.

## Modules

```
 JobLifecycle  <== refined by ==  JobRuns                        MC_JobRuns
 IntelReports                                                    MC_IntelReports
 RealtimePublisher  <== extended by ==  ZkillFeed                MC_ZkillFeed
 UploaderAccess                                                  MC_UploaderAccess
 JumpbridgePairs, StructureSearch                                MC_JumpbridgePairs
 Timers                                                          MC_Timers
 SkyhookWatch                                                    MC_SkyhookWatch
 MapImport                                                       MC_MapImport
 RoutePlanner                                                    MC_RoutePlanner
 CharacterAccounts                                               MC_CharacterAccounts
 EsiClient  <== extended by ==  OrgCache                         MC_OrgCache
```

A module with a name in `_proofs` holds the theorems of the module before it; `ZkillFeed_proofs` also holds those of
`RealtimePublisher`, `OrgCache_proofs` those of `EsiClient`, `JumpbridgePairs_proofs` those of `StructureSearch`,
`Timers_proofs` those of `SkyhookWatch`, `IntelReports_proofs` those of `UploaderAccess`; those of `MapImport` and
`RoutePlanner` are in `MapAndRoutes_proofs`. An action is what the code does between two points where
somebody else can act: between two statements, or before a call that takes time. A failing call is an
alternative of its action. Variables called *history* in a declaration are not in the code: they remember what
the properties speak of and no guard reads them. Where the same step of several handlers differs, the operator that
tells them apart is one of its own.

### JobRuns, JobLifecycle

`jobs/runner.go`, `tracker.go`, `registry.go`, with `CancelJob` (`api/admin/handler.go`), the sweep
(`MarkStaleRunningAsTimeout`) and the lifecycle context.

| In the module | In the code |
|---|---|
| `pc[r]` | where `Runner.Run` stands: check, start, body, step, decide, finish, unregister |
| `rec[r][i]` | the status column of the job's own row (`i = 0`) and of its steps' rows |
| `ctx[r]` | `ctx.Err()`: canceled or past its deadline; the first reason stays |
| `handles` | the map of cancel functions |
| `tally`, `flags`, `critical` | `stepState`'s counters (zero or not), `partialErr`, the skip mark and the body's error |
| `Launch`, `CheckUnique`, `StartJob` | `NewRunner` to `Start`; a failing query or insert returns |
| `StepStart`, `StepEnd`, `StepPanic`, `SkipStep`, `Partial`, `SkipParent`, `BodyReturn` | the `Stepper`; a panic unwinds to `runWithRecover` |
| `Decide`, `FinishJob`, `Unregister` | the order of checks after the body, the closing save, the deferred unregister |
| `CancelFind`, `CancelCall`, `CancelSave` | the three statements of `CancelJob`; the last saves the copies of the first |
| `SweepLoad`, `SweepSkip`, `SweepCancel`, `SweepTimeout` | the sweep record by record |
| `Deadline`, `CallerDone`, `Crash` | context timers, shutdown, stop of the process |

What a body does is open: any sequence of steps, critical or not, and marks. `DateReadsAsTime` is what `record.Get`
yields for a date: with PocketBase's `types.DateTime` the sweep's `recordTime` falls back to the present and no record
is ever stale; the run takes the value with which the sweep does find records. `JobLifecycle` is the promise to
readers of the table: records are begun by an admitted run, closed once, and changed later only to a cancellation.

### IntelReports

`api/intel/reports.go`, `intel/intel.go` (`ShouldCreateReport`, `CreateReport`), `cleanup/cleanup.go`. A
fingerprint is author and text; fingerprints do not interact, so one is followed. `Submit` is the handler up to the
scan, `LookUp` one iteration of the loop, `Claim` the insertion of the row, `Create` the report. A slot that holds
two rows returns either. `Expire`, `RemoveExpired` and `RemoveOldReport` are time and the hourly cleanup.

### RealtimePublisher, ZkillFeed

`realtime/topics.go` and `zkill/feed.go`. The publisher's specification (`PublisherSpec`) stands alone: any producer
may offer any message at any time. `ZkillFeed` extends it with the worker as one producer, other producers as noise,
and the lifecycle; its steps are the publisher's own or leave it alone by the way they are written, so what is proved
of the publisher holds beside the worker. `Take` removes a message and fixes the list of clients,
`Hand` is one client of `deliver`. In the worker, a step ends before each call that takes time: `Bootstrap`,
`FetchOK`, `Handle` (the checks and the mark *seen*), `Publish`, `SaveOK` (the checkpoint and the next number), each
with its failure. `recent` is the LRU list; the code's `Seen` moves nothing to the front, so it is a queue.
A report refused by a full queue is not offered again: its killmail is already marked as seen.

### UploaderAccess

`intel/intel.go` and `uploader_sessions.go`, the two middlewares, and the cleanup, for one user. A request
(`Kind[r]`) is an administrator's regeneration, the user's rotation (which needs a valid token) or a
revocation. `Kick`, `Load`, `Sweep` (one row), `Stamp`, `Insert` are the statements of
`regenerateUploaderToken` and `RevokeUploaderTokensForUser`, in the order each has them. `Admit` is the middleware that
reads the token, `Issue` the insertion of the session with the token read before; `Renew` and `Renewed` likewise.
`created_date` has milliseconds: two tokens may share one unless one request loaded the other's row.

### JumpbridgePairs

`jumpbridges/jumpbridges.go`, `validation.go`, `discovery.go` and the handlers of `api/staff/jumpbridges.go`. A row
is a direction; `op[w]` is what a goroutine is doing and what it still knows of the rows it read. `AddPair`,
`UpdatePair`, `RemovePair`, `Import` are requests up to the first write, `Validate` and `Discover` the two halves
of the job; `Resolve` is the long conversation with the game; `SaveFirst` and `SaveSecond` are `savePair`; `Scan`
and `DeleteRow` are `RemovePair` and `deleteExistingJumpbridgeRows`. Each has its failure. What the game answers
(a pair is confirmed, rejected, proposed) is an input.

### StructureSearch

`jumpbridges/validation.go` and `discovery.go` from the other side: what the job learns of structures, call by call,
and what it concludes. `BeginValidation` and `BeginDiscovery` begin a run; `Fetch`, `Search`, `JudgeAsked`,
`GlobalSearch`, `NameSearch` are the calls, answered by one character after another; `Remove`, `Fill` and `Save`
write. `Eve` is what changes meanwhile: structures go, owners change alliance, access and tokens are lost. An error is
known by its message only: one that `isNonAuthoritativeStructureLookupError` names settles nothing (`unsure`), a 404
is `gone`, any other is taken for an answer. The module shares no state with `JumpbridgePairs`, whose input its
conclusions are.

### Timers, SkyhookWatch

`Timers` is the table with its writers: the synchronisation (`FetchCampaigns`, `LoadExisting`, `Apply`, `CancelStale`,
one save each), staff's requests (`Create`, `StaffLoads` and `Saves`, `Delete`), the webhook (`HookLooks`,
`HookInserts`, `HookFinds`, `HookLoads`) and the cleanup. A row keeps whose it is, which version of the game's facts it
shows and its status; staff may write words of their own over the facts, and may give a timer of their making, or any
they edit, the reference of a campaign (`Entered`, `Changes`). `LookForRun` is the job that the cron starts every minute, unless a record says
it is running; `left` says that such a record stayed behind, of a process that stopped or a closing save that was lost.
`Restart` may change `TIMER_SOURCE`.

`SkyhookWatch` is `skyhook_notification_sync.go`: the turns (`Begin`, `StoreCursor` with `Selection` and `NextTurn`),
the poll that stores the ETag of a list before its notifications are worked on (`Poll`), one notification after another
(`Look`, `Make`), and what ends a list early (`GiveUpTheList`, `TimesOut`, `Crash`). Requests per run and the cutoff
are computed as in the code from its three windows.

### MapImport

`mapdata/map_data_update.go`, `sde_check.go`, `sde_import*.go`, `job_triggers.go`. A run's `queue` is what it has still
to do. `Check` and `FetchTag` decide whether to begin, `Download` fetches the archive as it is then; `SkipFile` or
`WriteFirst` and `WriteLast` are a file, its rows and its hash; `SaveMeta` the ETag; `LoadLayout` and `SaveLayout` a
layout; `CompareOptional` and `FetchOptional` the files fetched again one by one. A file has two rows, so that an
import may stop or meet another half way. A crash between the last row and the hash is a hash whose save failed.

### RoutePlanner

`intel/route_planner.go`, `top_routes.go` and the two handlers of `api/maps/handler.go`. `EnsureGraph`, `LoadBridges`,
`BuildGraph`, `StoreHash` are the rebuild, each a point where another request may be; `Search` is
`bfsShortestPath` edge by edge in the order of the rows (`Visit`), `LookUp` the jumpgates of the leg, `SetFirst` and
`AppendNext` the calls that give a route to the autopilot. A bridge row is a structure, its twin and their systems;
`Hash` sorts the identifiers of all rows together, as the code does. The rounds of the search and the edges of a round
are recursive functions over their number, so that a proof can follow them.

### CharacterAccounts

`auth/eve.go`, `character_refresh.go`, and the handlers of `api/auth` and `api/admin` that move rows of `characters` and
`users`. A handler is a record in `ops[s]`: what it does, where it stands, the row as loaded (`orig`) and as changed
(`cur`). Login and linking: `BeginCallback` (the exchange of the code), `Affiliation`, `FindAccount`, `InsertMain`,
`UpsertRow`, `EnsureMain`, `RefreshMainAffiliation`, `NameAccount`; `CheckLink`, `StoreLink`. `LookForMain` is the
lookup of an account's main, which the code takes for "none" when it fails. Refresh, by the job (tried
again after a failure) and within a request (once): `ExchangeToken`, `ResolveRefresh`, `SaveRefresh`, `MarkInvalid`.
Removal: `DeleteRow`, `CloseAccount`. Administrators: `BeginMove`, `BeginSetMain`, `SaveListed`, `ClearTokens`,
`SweepUploads`. `GiveUp` ends a handler anywhere: a lookup or save failed, or the process stopped. A row
that cannot be read counts as none in a callback, and a query of an account's other characters that fails lets its
main be removed. `Save` writes the columns that differ from `orig` if the row is the one that was loaded. Tokens are
numbers; a number nobody holds any more is used again.

### EsiClient, OrgCache

`EsiClient` is a call: `LookAtThrottle`, `SendWith` (answered now, heard later), `Receive` with its retries, `GiveUp`,
and the affiliation cache with its ETags (`AskAffiliation`, `SendAffiliation`, `ReceiveAffiliation`). There are two
clients with a throttle each. `OrgCache` extends it with the operations on corporations and alliances that wait for
such calls: the lookup of an organisation (`LookUp`, `AnswerToLookup`), of a structure's corporation and parent
alliance (`ToParent`), of an owner by the discovery of jumpbridges, and staff's search with the counting of members
(`SearchAnswered` to `UpsertCorporations`). `FindRow` and `SaveRow` are two steps. A row keeps whether it has a name,
is marked as closed, and was counted. Reads fail like saves do, and the code takes a row it could not read for one that
is not there or not marked (`Misread`, `Without`); an operation carries the marks it missed in `unaware`.

## What is checked

| Run | Instance | What it shows |
|---|---|---|
| `jobs` | one run, two steps, one CancelJob, one stop, one lost save, fairness | records, registry and verdict are consistent (`RunningMeansLive`, `WorkingRunHoldsItsKey`, `FinalizationRules`); the table refines `JobLifecycle`; a canceled run ends (`CanceledRunsStop`) |
| `job_unique` | two unique runs of one key | they do overlap, which `docs/BACKEND.md` denies |
| `intel_reports` | three submissions, two slots, fairness | what a rejection relies on (`RejectedReportIsHeld`), how twins arise (`NearTwinsHaveACause`), that a full table drains |
| `zkill` | three feeds of three numbers, one client, restart, shutdown, fairness | `NoNumberIsPassedOver`, `RepeatsAreFarApart`, `SubscribersMissNothing`; the worker catches up (`FeedAdvances`) |
| `uploader` | regeneration, rotation and revocation at once, one session, fairness | `RevocationHolds`, `AccessIsLostForACause`, `RevokedTokensAreRemoved` |
| `jumpbridges` | two writers, three systems, two operations; or one run of the search over five structures and two characters | half pairs and double partners have a cause; ids are of their systems; a pair is removed, kept or added for a reason (`RemovalsHaveACause`, `CalmRunsDropGoneBridges`, `AddedBridgesAreOurs`) |
| `timer_campaigns` | one campaign, one webhook id, two synchronisations, two requests, fairness | where twins come from; a calm run settles the table; the table follows the game |
| `skyhook_polls` | three characters, two notifications, two runs | what is never acted upon (`MissedHaveACause`); how long a character waits (`EveryoneHasATurn`) |
| `map_import` | two files, an optional one, a layout, two runs, two releases, fairness | marks are not ahead of the rows; what is left behind has a cause; every release comes in |
| `routes` | four systems, three bridge tables, two requests, a clear | how old the graph may be, that legs are shortest, what the autopilot holds |
| `accounts` | two characters, two accounts, two handlers; three operations or failures, one after another or overlapping | accounts have one main and its name, or a cause why not; a valid mark has a token behind it or a cause; what was revoked stays away |
| `esi` | two callers, one corporation, one alliance, two operations | waits are kept, affiliations recent, closed organisations hidden and no others, with one failure of the network or the database |

Properties are of two kinds. Some are what one would hope for (`NoNumberIsPassedOver`, `RevocationHolds`,
`LegsAreShortest`, `OnlyTheGoneAreClosed`). Where the code does not promise the hoped-for fact, because a save may fail
or two requests may overlap, the property states exactly the exceptions: `NearTwinsHaveACause` says *in which ways* one
line can get two reports, `HalfPairsHaveACause` in which ways a pair can be half stored, `ValidMarkHasACause` what
leaves a mark over a dead token. Another way, introduced by a change of the code, violates them. Every property is kept
honest by a mutant, an operator next to the one it replaces with a comment that begins with *Mutant*, under which TLC
finds it violated.

### Bounds

- `jobs`: `MaxSteps = 2` gives a step that succeeded beside one that failed and the skipped one inside another; the
  counters matter only as zero or not. `MaxCrashes`, `MaxLost` are one: a second stop finds nothing the first does
  not, and a save is lost or it is not. One CancelJob request suffices, since the handle it takes is never registered
  again, and one run, since runs meet only in the uniqueness check, which `job_unique` and the theorems have for more.
- `intel_reports`: a row, its twin, and a third that fills the table or hides a row; report times `0`, `2` and one of
  `0, 1, 4` with a window of 2, so the third matches the first, both, or none.
- `zkill`: numbers `1..3` with a list of one recent killmail, so that a killmail can leave the list and come again; the
  feeds hold a repetition in a row and one after others, a number without a killmail and one that cannot be read. The
  tick's limit is two, the queue holds one, so both limits are met. One client that comes and goes at any point stands
  for all, since `deliver` treats them one by one.
- `uploader`: one request of each kind and one session. `clock` moves at most once per insertion.
- `jumpbridges`: every pair of operations overlaps in every way, from a table that is empty or holds a pair; three
  systems are the fewest with two pairs that share one. The search has a structure and its replacement, one that is no
  bridge and one that leads elsewhere, three starting worlds, one failure and one change, and tables that are empty,
  complete, half filled, or name two structures for one end; but for the last of these, 144 starting worlds and two
  failures (9.2 million states) pass as well. One behaviour is about the table or about the search, never
  both.
- `timer_campaigns`: a second version of the facts is not needed, since staff's words differ from the one there is; the
  webhook gets two requests, because in its mode nothing synchronises. Staff has one, a creation or an edit, with any
  reference; that one may follow the other is in the proof.
- `skyhook_polls`: windows of 30, 45 and 10 seconds make a run poll two of three characters, so that a turn wraps round.
  Two minutes and two runs let a run begin while an earlier one is under way. With more time the histories repeat.
- `map_import`: two releases and two runs are what an older version over a newer one needs; `MaxFaults = 1` is spent on
  any download, save or crash.
- `routes`: tables of two pairs, the same identifiers re-paired, and one pair less. Two changes of tables (1.8
  million states) and three routes (2.1 million) pass as well.
- `accounts`: operations and failures are counted together, up to `MaxAlone` while handlers come one after another and
  up to `MaxEvents` once two have overlapped; both are 3. A main that is removed, and linked to another account while
  the lookup of that account's main fails, cannot give the account its name: every refusal and every failure is met
  within three. Six without overlap (5.9 million states), and four without and three with (1 million), pass as well.
- `esi`: a tick is the life time of an affiliation, of a wait and of a flight; three of them let each run out while
  another begins.
- Runs, writers, requests, handlers and callers are interchangeable where a run checks no liveness (symmetry).
  Deadlock is not checked: operations are bounded, and the system rests when all are done.

### Fairness

No property assumes that a call succeeds at once. `FairSpec` of `JobRuns` lets a goroutine that can go on do so
and a body, finitely many steps, return; nothing makes anyone cancel. In `ZkillFeed` a step of the worker ends, and
calls that are tried again at every tick succeed now and then (strong fairness of `Bootstrap`, `FetchOK`, `SaveOK`),
which is the retry loop of `Run` against a service that is not down for ever; clients read what they are sent. In
`IntelReports` and `UploaderAccess` time passes and the database does not refuse to delete the same row for ever;
sessions may be renewed as often as their holders like, until the token they hold is revoked. In `Timers` the cron
looks every minute and starts a synchronisation if none is under way and no record was left (`CronStarts`), and what
was begun goes on; after a record was left nothing is asked of the table. In `MapImport` likewise with the update of every six hours. Failures
are bounded in both, and nothing makes the game or staff act. `SkyhookWatch`, `RoutePlanner`, `CharacterAccounts`,
`EsiClient`, `OrgCache`, `JumpbridgePairs` and `StructureSearch` check safety only.

## What is proved

The theorems hold for every number of runs, steps, submissions, slots, clients, topics, feeds, requests, sessions,
writers, systems, structures, campaigns, notifications, files, handlers, characters, callers and organisations, and
for every bound, under the `ASSUME`s of the modules only. These give the constants their types, say that bounds are
not negative, and that names of different things differ; TLC evaluates them in every run. Each module names its
inductive invariant `IInv` (`PublisherInv` in `RealtimePublisher`, `AccessInv` in `UploaderAccess`, `SearchInv` in
`StructureSearch`, `WatchInv` in `SkyhookWatch`, `PlannerInv` in `RoutePlanner`; `CInv` and `OInv` in
`OrgCache_proofs`); TLC confirmed it on the run's instance before it was proved.

- **JobRuns** (`JobRuns_proofs`). `TypeCorrect`, `RunningIsLive`, `WorkingRunIsVisible`, `RegistryIsLive`,
  `VerdictsAreBornOut`, and `ImplementsLifecycle`: initial states and every step map to `JobLifecycle`. The properties
  are not inductive: a CancelJob request may save its copy over a row only because nobody registers a handle twice,
  and the run's verdict may replace only what the lifecycle allows. `Fresh` (no rows before their time), `Held`
  (nobody but the run closes its record, others cancel it) and `Requests` (a request that got the handle is the last to
  have it) say so. For the verdict `Reckoned` carries what the counters and flags say of the steps' records while the
  body runs. One lemma per conjunct, one step per action; the lemmas `...Effect` give what an action does to the table.
- **IntelReports** (`IntelReports_proofs`). `RejectionLosesNothing` and `TwinsAreExplained`. What is to be carried is
  what a scan has established of slots it has passed while they change behind it: `Passed` and `Found` for the
  scan, `Slotted` for the table, `Claimed` for the order of row, report and answer.
- **RealtimePublisher** (in `ZkillFeed_proofs`). `InboxesAreInOrder`, `NothingIsMissed`, by
  `LineInv` (the queue is the end of what was accepted), `InboxInv` (nobody was sent a later message than the one being
  handed out) and `SinceInv`.
- **ZkillFeed** (`ZkillFeed_proofs`). Worker and noise offer messages through the publisher's actions, so its lemmas are cited,
  not repeated. `NothingIsPassedOver` by
  `WorkerInv`; `RepeatsStayFarApart` by `Remembered`, which places an attempt in the list of recent killmails by the
  number of additions since; `FeedOrderIsKept` by `OrderInv` and the order of inboxes; `CheckpointOnlyAdvances`
  by where the worker stands against the stored number.
- **UploaderAccess** (`IntelReports_proofs`). `SweptTokensStayDead`, `RevocationIsKept`, `AccessIsKept`. `TokenInv`
  ties a dead token to the request that swept it, `RequestInv` orders the stamps of what a request loaded and what it
  inserts, `MarkInv` says that a quiet revocation has loaded every live token.
- **JumpbridgePairs** (`JumpbridgePairs_proofs`). `HalfPairs` and `SecondPartners`. Both speak of two rows and of
  writers that read them at different times. `OpInv` says what a writer remembers and which rows are its own, `OwnInv`
  that nobody else has a row whose writer is between its two saves, `MirrorInv` why a row has no mirror, `ViewInv`
  what a writer that looked at the table cannot have seen.
- **StructureSearch** (`JumpbridgePairs_proofs`). `RemovalsAreCaused`, `AdditionsAreOurs`, `IdsStayOfTheirSystems` and
  `CalmRunsAreThorough`.
  What a run does in the end rests on answers it had many calls before, while the game changes. `BeenInv` says that
  what the run or a row knows of a corporation was said of it since the run began; `GotInv` that ids found or cached are
  of bridges in their systems; `ConcludeInv` what a verdict on one owner is worth while the other is asked about;
  `ProposeInv` that what is proposed was seen by one of the run's characters, and as long as nothing happens can be
  seen again by one who is still to ask. The proof is about jobs in order (`Good`) and what becomes of them (`Follows`),
  so that the operators which several steps share have one lemma each. It holds for a table whose ids are, at first,
  of bridges in their systems (`StructureSearchAssumption`). `CalmInv` is about a validation that nothing disturbs: the
  tokens of its characters work; what it found or cached can be seen by one of them; the ids it confirms are those of
  the pair at hand, and what it is told of them is so; and each pair is still to do, at hand, or standing. The attempt
  to prove it corrected the property: the two rows of a pair may name different structures for one end, since filling
  in replaces no id, and of these `loadUniquePairs` takes one; so it is one of those named that is there, not each.
- **Timers** (`Timers_proofs`). `TwinsAreOfBlindWriters` and `CalmRunsSettle`. Only an insertion, or a save that sets
  it, gives a timer a reference (`Inserted`, `Saved`, `Removed`); so what counts is what the giver knew, for which a
  clock counts the references given: `LoadInv` says that the timers of a campaign of which a synchronisation holds none
  were given their reference after it had loaded the table, `CopyInv` that its saves change no reference, `HookInv`
  that the webhook's rows have one id each. For a calm run `Progress` follows each campaign through its turn: what the
  run still has to do is what the row it loaded still says, and what it has done is in the table. The assumption on the
  name *stray* only says that it is no campaign's reference and no identifier.
- **SkyhookWatch** (`Timers_proofs`). `NothingIsMissed` and `EveryoneIsPolled`. `HiddenInv`: a list whose ETag is
  stored is hidden from all later runs, so what is on it was handled, or is too old for those under way and those to
  come. `TurnInv` is a measure: what a character has waited, times the number polled in a run, and the number of those
  before it in turn, are less than the number of the eligible. The proof is arithmetic of remainders by a number that
  is not known (`NextTurnPasses`), and of ranks in the order of ids (`RankIsItsOwn`, `OrderType`), without induction.
- **MapImport** (`MapAndRoutes_proofs`). `MarksStandForRows` and `NothingElseIsLeft`. The rows of a file that no two
  runs wrote against each other never get older. With that, `TagInv` says that a run that holds a release's ETag has
  its files in or still ahead, `GotInv` and `PlaceInv` what it downloaded and where in its queue it stands, and
  `LayoutInv` and `OptionalInv` that whatever is still to be drawn or brought in has a run that will do it or a mark
  of why not.
- **RoutePlanner** (`MapAndRoutes_proofs`). `ShortestLegs`, `RecentGraph` and `OneRoute`. The search is a recursive
  function over rounds and, within a round, over edges, both unrolled (`RoundsUnroll`, `VisitUnrolls`) and followed
  upwards by induction over a set of numbers (`ByInduction`, from the library's `WFMin`), which takes no operator as a
  parameter. Each system found has a depth: its parent is found, one less deep and joined by an edge; who is done has
  all its neighbours found, at most one deeper; the queue holds the others in the order of depth. So no walk is
  shorter than its end is deep (`WalksAreLonger`), every walk's end is found (`ParentsFound`), and the path back is as
  long as the depth (`PathFound`). For the graph's age `RecentInv` names who will store one of the tables since: a
  request about to load, the one that rebuilds, or else the planner; for the autopilot `CourseInv` says that what is
  still to be appended is the end of what was given last. `SolarSystems` is assumed finite, which a table's rows are,
  and no request avoids its own waypoint, which `parseRoutePayload` ensures.
- **CharacterAccounts** (`CharacterAccounts_proofs`). `Revocation`, `MarksHaveACause`, `AccountsStayInOrder`. `OpsFilled` says what a
  handler has filled in where it stands; `RevokedInv` that after a revocation every handler at work on the character
  had begun before it or holds no token. For the marks, `UnstoredInv` says that a token nobody has stored is known to
  one handler only, `LoadedInv` that a refresher whose token is still the row's loaded the row with its mark,
  `MarkInv` that a marked row over a dead token has a refresher that will store the new token or take the mark away.
  The attempt to prove `MarkInv` corrected the model: a save of a copy whose row had been replaced counted as storing
  the token. `AccountsStayInOrder`: `OrderInv` says that rows name accounts that exist and that accounts have names of
  their own, whoever overlaps; and of a handler alone at work, for every place it may stand at, that it knows its rows
  as they are, if it could read them, and the account by its name, and that the main it is about to name the account
  after is the only one. A history variable (`astray`) names the accounts that left this order for a known cause: an
  administrator crowned a character; a naming failed, was refused because another account has the name, or did not
  happen because the process stopped after the row was saved; a lookup of the main failed when a character was made
  main. The attempt to prove it without the refusals showed that such an account keeps the name of a former main, who
  may then become main beside the new one. A new account takes an identifier afresh, and is in order again.
- **EsiClient, OrgCache** (`OrgCache_proofs`). `WaitsKept` by `WaitsInv`, what a waiting caller has read of its client's
  throttle; `RecentAffiliations` by `RecentInv`, which ties an entry's expiry and every answer under way to the
  time its value was left. `MarksAreTrue` and `MarksAreKept`: `AskedInv` says that an answer to an operation was true
  of the organisation asked about when it was given, `Informed` that what an operation will open is not marked, but for
  the marks written since it began and those it failed to read (`unaware`).

Left to TLC, and why: liveness and everything under fairness (`CanceledRunsStop`, `FullTableDrains`, `FeedAdvances`,
`RevokedTokensAreRemoved`, `TimersFollowTheCampaigns`, `ReleasesComeIn`), which the prover does not do. Every invariant
and every action property that a passing run checks has its theorem.

## Where the code and its documents differ

- **Unique runs overlap** (`job_unique`). `docs/BACKEND.md` says `Unique: true` prevents overlapping runs. `Run`
  queries and inserts later, so two can pass together; and a run that was canceled says so in the table while its
  body still works.

Two more such sentences are not kept, and shown by `TypeCorrect` (no stored status ever says `timeout`) rather than by a
run of their own. `docs/BACKEND.md:239` promises the status `timeout`: the runner closes a run past its deadline with
`FinishPartial`. And the sweep, which is to close what a stopped process left, saves `timeout`, which the schema of
`job_runs` rejects (`jobs/tracker.go:200`): such records stay running and block every later unique run of their key. As
`record.Get` really returns `types.DateTime`, the sweep does not even find one old enough.

### What the models show that no document mentions

Each of these is the exception some property names, or a consequence of a rule the models state.

- *Reports and feed.* A fingerprint whose report could not be stored turns the retry away
  (`api/intel/reports.go:167`). A killmail refused by a full queue is lost although its number is read again
  (`zkill/feed.go:527`); what is queued when the publisher stops is dropped.
- *Jumpbridges.* A pair that another bridge of its system vouches for keeps the id of the structure that is gone, since
  filling in never replaces an id; so its two rows may come to name different structures for one end, of which a
  validation looks at one. The first candidate a character may not see keeps a gone pair for ever. A 420, a 500,
  a closed connection and a corporation that cannot be looked up count as "not allowed" when an owner is judged; a
  corporation's row with an old alliance is never asked about again. A pair with a missing id is never removed.
- *Timers.* Staff's cancellation of a campaign's timer is undone by the next synchronisation while the campaign is
  listed. Staff may give several timers one campaign's reference, of which a synchronisation then updates any one. After
  a process stopped during a synchronisation its record says running: the sweep cannot close it (see above), an
  administrator cannot cancel what this process does not know, and no synchronisation starts again. Losing the webhook's race for an id answers 500 instead of 409. With `n` eligible characters of whom `R` are
  polled a minute, each is polled every `n/R` minutes, and what is older than two minutes then is dropped.
- *Map data.* A file of the import proper that an administrator imports alone, or a run that stops after the ETag was
  stored, leaves layouts and optional files that no later run makes up for until the next release.
- *Routes.* Bridges re-paired among the same structures hash alike, so the graph keeps the old pairs. Changed gates
  are not read until the bridges change. Two rebuilds at once may leave the older graph under the newer hash. The tail
  of one route may be appended to the next.
- *Accounts.* Crowning another character leaves the account named after the former main: removed and logged in again,
  that one becomes a second main. An account that lost its last character but was kept (it has an uploader token) keeps
  its name, and the account the character is main of now can neither be named after it nor log in; that account keeps
  the name of its former main, who becomes a second main by logging in without a row. So does one whose user record
  could not be saved, or whose process stopped, after the new main's row was (`auth/eve.go:236`, `318`, `335`, `649`).
  A lookup of the main that fails is taken for none (`auth/eve.go:210`, `343`), so that one login or link gives the
  account a second main. A query of the other characters that fails lets a main go while they remain
  (`api/auth/handler.go:382`, `api/admin/handler.go:592`). A character whose row cannot be read gets a new account of
  its name when it logs in, which stays, although its row is not inserted. A refresh within a
  request that fails after the exchange leaves a mark over a dead token. A revocation is undone by a refresher that
  loaded the row before.
- *ESI.* An answer that nothing has changed may prolong an older answer that overtook it, so an affiliation may be old
  by a life time and a flight. Throttles are per client although the limit is per address; a refused location does not
  move its client's throttle (`esi/direct.go:76`). The discovery of jumpbridges opens corporations that are marked as
  closed. A mark that cannot be read counts as none (`store/org_cache.go:80`, `118`): ESI is asked, still knows the
  corporation without members, and the mark is taken away.

## What is not modelled

Payload: texts, names, standings, positions, dates of timers, wording and logs, unless a property is about them.
Read-only endpoints, single-record edits, audit, configuration, static files, the frontend and the build tools, which
keep no state that others wait for. The map layouts are floating point: that one is drawn, and from which systems, is
in `MapImport`, its coordinates are not. Of the outside, only what the code sees of it is modelled: PocketBase's rows
and broker, zKillboard's numbers, the game's answers.

Within the modelled parts: the alternative login provider (`auth/testauth*.go`) and the flows kept in memory before a
callback; the presence rows of uploaders and the count shown to clients; the order in which configurations reach
clients; `StructureSearch`'s distances, its limit of 50 characters and the ids the import and staff's requests look up
(one lookup of an owner is one step); a gate whose system is unknown, which the import drops although it stores the
hash; counters of popular routes; the limiter all ESI requests share, which only delays them; the code paths for
alliance profiles and corporation details that nothing calls. In `SkyhookWatch` two runs that look for a record at once
may make two, which is not counted. `CharacterAccounts` takes who is allowed as fixed.

## Plan

Done, in this order: JobLifecycle and JobRuns (everything long-lived runs in them), IntelReports (the program's
purpose), RealtimePublisher and ZkillFeed composed (order and delivery), UploaderAccess (who may report),
JumpbridgePairs and StructureSearch (the table routes depend on), Timers and SkyhookWatch, MapImport, RoutePlanner,
CharacterAccounts, EsiClient and OrgCache composed; the theorems above.

Next:

1. The parser of chat lines as functions against a reference definition over short lines.
2. The realtime side of the server over `PublisherSpec`: presence rows, the uploader count, configurations published
   after their commits.
