# AlertLoop: a TLA+ verification project

AlertLoop receives reports from monitoring sources, keeps incidents, and tells
people about them over notification channels until the message has arrived or
is visibly given up on. This directory models the parts of it in which the
order of events, a failure or a boundary decides, checks them with TLC on small
instances, and proves with TLAPS, for every instance, the guarantees of the
delivery queue, that the running system and its PostgreSQL transactions keep
them, and the safety of most other parts.

## 1. Inventory of the system

| Part (under `src/`) | State | Operations | Talks to |
|---|---|---|---|
| `internal/domain` | none | the states of an event and of a delivery attempt, severity ranks, `ApplyAction` | everyone |
| `internal/storage` (`sql_store.go`, `claim.go`) | tables `events`, `delivery_attempts`, `worker_heartbeat` (SQLite or PostgreSQL) | create, refresh, transition, claim, mark result, queue fallback, replay, requeue, delete, record a tick | services, workers, retention |
| `internal/storage` (`users.go`, `migrate.go`) | tables `users`, `sessions`; the schema version | first account, sign-in, sessions, passwords; migrate | console, start |
| `internal/service` (ingest, events, recovery, delivery) | none of its own; what a request has read | `IngestFor` (create / refresh / resolve, under the sources of an API key), `Apply`, `Replay` | store, router |
| `internal/delivery` (`worker.go`) | slots in flight per channel, copies of claimed rows, the last tick | `Run`, `fill`, `process`, `save`, `reap`, `recordTick`, `shutdown` | store, channels |
| `internal/routing`, `internal/channels` | compiled rules, the registry of channels | `Route`, `Send` | ingest, worker |
| `internal/api`, `internal/auth` | failed sign-ins, slots for password checks, token buckets | setup, sign-in, sessions, accounts, limits | services, store |
| `internal/config` | the settings of the process | `Load`, `Validate` | start |
| `internal/app`, `cmd/alertloop` | the processes | `RunServer`, `RunWorker`, `RunAll`, retention, `user` | all |
| `integrations/monit` | the spool directory and its lock | send, spool, flush | the API |
| `web` | none the server relies on | the console in the browser | the API |

What is hard about it:

* **Requests interleave between transactions.** A report looks the key up,
  then inserts, or refreshes what it read; a resolve or an action reads a
  state and updates conditionally; a session is read, then touched. Whatever
  was read may be stale when used.
* **Several workers and one queue.** A row is claimed, sent and recorded in
  three steps. A crash, a shutdown, a lost answer or a failed save may hit
  between any two; the reaper of any worker takes back what looks abandoned.
* **Order of two messages about one incident.** The recovery must not overtake
  its alert, although alerts are retried, dead-lettered, replayed and
  redirected to a fallback channel. In the spool of the Monit integration a
  `resolved` must not overtake its `firing`.
* **Mute and resolve race deliveries** that are in flight at that moment.
* **One channel that hangs** must not hold up the others or the shutdown.
* **Bounded tables** (failed sign-ins, buckets, the spool) drop entries while
  others use them; clocks are read before locks are taken.
* **A configuration that is wrong in a quiet way**: a variable that is empty, a
  key nobody reads, a list that is null.

The properties that make each part correct are listed with the runs in section
4, and the hazards they are aimed at, each at its line, in `PROJECT.json`.

## 2. Modules

```
Announcements
     ^  (implements)
StoreAnnounces
     |
Domain <- Store <- AlertLoop      Scheduler  Heartbeat  SignIn     Spool
   ^        ^
   |      Locks                   Accounts  RateLimit
   +- Routing, Ownership
                                  Configuration  Statements  Migrations  Lifecycle
```

**Domain** - pure definitions: `ApplyAction`, `SeverityRank`, the state sets.

**Store** - the two tables of the queue and one action per transaction of
`sqlStore`. A row keeps the columns a condition of the code reads: an event its
key, type, severity and state; an attempt its event, channel, kind, state,
count of tries, retry time, `fallback_of` and `recovery_for`. `StoreNext` is the
most general client: any service may call any transaction at any time with any
argument it can form. `StoreSpec` is therefore the abstract specification of
the store, and everything proved of it holds for any scheduling of its clients.

**Announcements** - the contract above the queue: incidents, and notices that
are owed, told, lost or withdrawn. Closing announces to everyone alerted or to
nobody; a recovery is told only where its alert was told; a lost alert is copied
at most once. **StoreAnnounces** maps Store to it; `KeepsPromises` says that
every transaction is one step of the contract or none.

**AlertLoop** - the running system: requests that proceed one transaction at a
time and carry what they read (`requests`), workers with claimed copies
(`sends`), what reached the channels (`heard`), crashes, shutdowns, lost
answers, the reaper, retention and time. It implements `StoreSpec` with the
tables themselves as the refinement mapping; `StoreSpec` is a PROPERTY of two
of its runs.

**Locks** - the transactions of several statements (`TransitionEvent`,
`RefreshOpenEvent`, `MarkResult` with `queueFallback`, `RequeueStuckSending`)
statement by statement on PostgreSQL under READ COMMITTED: each session keeps
what it read and the rows it locked, other sessions commit in between, and a
broken connection rolls back anywhere. Writes become visible at the commit.
An `UPDATE` over several rows visits them in the order of the table; PostgreSQL
does not promise that, but two requeues that visited them in different orders
would be a deadlock it detects, and the next round of the reaper repeats the
one it aborts. Replays are not in this module (section 4), nor is retention,
whose batches are single statements; AlertLoop interleaves it with requests and
workers.

**Ownership** - the requests of callers whose API key is limited to sources,
on the events of one dedupe key: every way in which `IngestFor` and `resolve`
meet an event, with `checkOwner` where the code has it, and what the answer
shows.

**Scheduler** - `Worker.Run` and `scheduler` of one worker in detail: rounds of
`fill`, `skipChannels`, the batch size, collection of finished sends, and the
shutdown with its grace period. **Heartbeat** - `recordTick` of several workers
and the upsert of the single row that monitoring reads.

**Accounts** - console accounts and sessions: setup of the first account with
its lock, sign-in, the session query and its touch as two statements, sign-out,
passwords, disabling and enabling, the host's `user` commands, the sweep of
sessions. **SignIn** - `Throttle` and the slots for password checks under
concurrent sign-ins. **RateLimit** - token buckets per client, the clock each
request reads before it takes the locks, and the sweep of idle buckets.

What the properties compare these parts with is recorded beside their state, and
no guard reads it: `used` of a session is its latest use, so that an earlier
request that finishes late does not move it back; `tally` of a pair counts its
failures since a success or since they were forgotten; `served` and `dropped` of
an address are the requests let in, and how many of them came before its bucket
was last dropped.

**Configuration** - `Load` and the checks at a start: substitution of
variables, the check of keys, aliases and merges, decoding over the built-in settings,
completion, validation; an operator who is refused does what the refusal asks
for and starts again. **Routing** - from the channels and the routing section to
the channels of an event: `Validate`, the registry, `BuildRouter` (compiled
matchers and patterns), `LogRoutingTable` with its warnings, and `RouteEvent`.
**Statements** - the scanner that cuts a migration file into statements, one
round of its loop per step. **Migrations** - processes of several releases that
migrate one database at once. **Lifecycle** - one process from start to exit:
listener, `RunServer` with requests in flight, `RunWorker` with sends, reaper
and retention, `RunAll`, and main closing the database. `net/http` is external.

**Spool** - `alertloop-send` of the Monit integration: runs that overlap, the
lock of the spool directory, `flush`, `post`, `spool`, the time-out on the lock,
lost answers and killed runs.

**Proof modules** (section 5) - theorems about the modules they extend:
**StoreProofs** (Store), **AnnounceProofs** (StoreAnnounces),
**AlertLoopProofs** (AlertLoop), **LocksProofs** (Locks), **ProcessProofs**
(Migrations, Lifecycle, Routing, Configuration), **WorkerProofs** (Heartbeat,
Scheduler, SignIn), **ConsoleProofs** (Accounts, RateLimit, Ownership),
**SpoolProofs** (Spool). AnnounceProofs and LocksProofs extend StoreProofs, and
AlertLoopProofs extends AnnounceProofs.

**MC modules** give TLC routes, files, channels and backlogs. Four of them
compose parts that share no state, so that a behaviour is about one of them
while the others rest: **MCProcess** (Configuration, Routing, Statements,
Migrations, Lifecycle: the stages of a process), **MCConsole** (Accounts,
RateLimit, Ownership: what stands before the API), **MCScheduler** (Scheduler,
Heartbeat, SignIn: what concurrent parties share within bounds), **MCLocks**
(Locks, Spool: the two places where a lock makes the order).

### How the model abstracts the code

* *Transactions are atomic* in Store, AlertLoop, Ownership and Accounts. SQLite
  has one connection; on PostgreSQL the conditional `UPDATE`s and row locks
  serialise those of the queue, which is what Locks shows. Setup of the first
  account, several statements under an advisory lock, is taken apart in Accounts.
* *Time.* In the queue, `next_retry_at` is `null`, `due` or `later`, and
  `RetryTimeComes` lets it arrive; ages for retention are not tracked: any set
  of events may be old enough. Accounts and SignIn keep ages that stop counting
  where no comparison tells them apart. Accounts and RateLimit assume that a
  request is not suspended between reading its clock and using it for longer
  than `MaxDelay` and `Lag`; the real limits (minutes against a request's
  milliseconds) leave ample room. RateLimit needs twice `Lag` to be less than the
  ten minutes after which an idle bucket is dropped, and nothing of rate and
  burst beyond what `newTokenBucket` sees to, that both are positive.
* *Ids.* UUIDs are numbers that are never reused. A transaction that may insert
  several rows reserves a range (a close reserves one id per id given out so
  far), so that ids need no counting; gaps mean nothing.
* *Routing* is a constant of Store and AlertLoop: for each type and severity, a
  sequence of channels. How it comes about is module Routing.
* *Callers* of AlertLoop are unrestricted; Ownership restricts them. Only
  events with a key are refreshed, since a report finds an event by its key.
* *Files* of Configuration are sets of lines; a key is the sequence of its
  words, so that a dotted key differs from a path. Decoding by yaml.v3 is
  external: a null line keeps the built-in value, a null list becomes no list.
  `WellFormed` says what a parsed file is: no key twice at a place, keys stand in
  sections, a section has at most one merge, and references (aliases and merges)
  are one deep: none on an anchor or below it. The walk over keys follows every
  reference, the decoder takes a merge as yaml.v3 does, shallowly: a key of the
  section's own hides the whole value merged under that key (`Hidden`). A
  refusal names `MaxReportedKeys` unknown keys (50 in the code, 1 in the run);
  which ones is left open, where the code takes the first in the file. `Texts` are the texts that scalars and variables may hold.
  Texts of Routing are letters; a flag marks stray spaces or capitals.
* *A run of `alertloop-send`* is idle until it has the lock or gave up on it;
  its event takes its place in the order then. A name is taken before the file
  is written, and both may be far apart. Status and severity are one value. A
  request that the server handles after the client gave up on it counts as
  having arrived when it was posted.
* *Message, payload, log lines* are left out: no condition of the modelled code
  reads them.
* *Upgraded databases* may hold recoveries without `recovery_for`;
  `Deliverable` keeps that disjunct, but `StoreInit` is the empty database.

Definitions under a comment `Fault:` are deliberate mistakes; each one, put in
place of the definition that follows it, must make a named property fail.

## 3. Correspondence

The map from definitions to source lines is in `PROJECT.json`. In short: an
action of Store is the function of the same name in `sql_store.go` or
`claim.go`; `Report`, `InsertReported`, `ReadConflict`, `Refresh`,
`LookupAgain` are the transactions of `IngestFor`; `ReportResolved`,
`ReadLatest`, `Act`, `Update`, `Reread` those of `resolve`, `Apply` and
`transition`; `Claim`, `SendOK`, `SendFails`, `SendCut`, `Save`, `SaveLost`,
`Reap` are `fill`, `deliver`, `process`/`save` and `reap`. A failed send of the
model may have reached the channel (a timeout after the message went through).
Actions of the other modules carry the name of the function they model, or say
in a comment which part of it they are.

## 4. Runs

| Run | Checks | Instance, and why it is enough |
|---|---|---|
| `store` | `StoreTypeOK`, `EveryAlertRecoveredOnce`, `MutedIsQuiet`, `RecoveryAfterAlert`, `DeadLetterRedirected`, `BudgetKept`, refinement `KeepsPromises` | one incident, two severities with a channel each, mail falls back to pager, two tries, every action: rise, mute, retry, dead letter, redirect, replay, requeue and close in every order |
| `loop_workers` | `AlertHeardBeforeRecovery`, `NoAlertAfterItsRecovery`, `ClaimIsExclusive`, `RiseAlertsRoute`, refinement `StoreSpec` | two workers of two slots, one client, a severity that starts to alert, one crash, stop, lost claim, lost save or replay (`MaxRare`) |
| `loop_requests` | `OneOpenPerKey`, refinement `StoreSpec` | two concurrent requests on one key, two events, incidents and business events, retention, no worker |
| `loop_live` | `AllSettle` | one worker, two tries, one crash or other rare step, fairness below |
| `locks` | `NoLockCycle`, refinement `StoreSpec`; `KeptIsKept`, `SentInOrder`, `SpoolGoesOut` | two sessions, one incident, two tries, fallback, a severity that starts to alert; two runs of the sender beside the timer, two reports (firing, firing refused, resolved), a spool of one file, one retry, one kill or failed write |
| `scheduler` | `SlotsBalance`, `OthersGoOut`, `StopEnds`; `PollsAreSeen`; `HeldUpForCause`, `EveryBlockEnds` | three slots, three channels of which one hangs with the oldest attempts, five attempts, two tries; two workers and six ticks; two sign-ins from two addresses, one slot, a table of one entry, durations of four bits, so that an unbounded shift would overflow |
| `process` | `SettingsHold`, `NothingUnmentioned`; `ValidatedBuilds`, `RoutedAsWritten`; `SplitAsWritten`; `AppliedOnceInOrder`, `EveryStartSettles`; `ClosedAfterUse`, `EndsTogether` | files that combine every form of token with every two of retention, log level and source list, and two variables in up to five states each, anchors merged beside a line or section that hides a part of them or under an `x-` key, aliases of a scalar, a list, a null and a section, and refusals that name one unknown key of up to three; every section of two rules over conditions in each field and in two, lists of three channels with every mistake in names and fallbacks, 16 events; every script of up to five characters over the six kinds the scanner tells apart (an escaped quote before a semicolon takes five); two processes of the new release and one of the old, three migrations, two crashes; each mode with two requests and two sends |
| `console` | `OneFirstUser`, `UsedSessionsLast`, `EndedStaysEnded`; `RateKept`; `OthersUntouched` | two requests at once in each part; two accounts and sessions; two addresses, a burst of two, five requests over seven ticks, so that buckets run out, refill and are swept (where they refill before the drop, `RefillsInTime`; the other case is proved); two sources, one limited key, two events |
| `rise_race` (violated) | `RiseAlertsRoute` | two concurrent requests |
| `late_result` (violated) | `LateResultDiscarded` | a worker slower than the reaper |
| `driver_inferred` (violated) | `DriverFollowsDSN` | the files of `process` with their databases |
| `spool_overtaken` (violated) | `ResolvedNeverOvertakes` | two runs of the sender and the timer, no kill |

A property that has several parts belongs to one promise: `KeepsPromises` also
says that a rise alerts only channels that had no alert of the incident, that an
incident closed quietly stays quiet and that what is final stays final (a route
that names a channel twice alerts it twice: neither `config.Validate` nor
`routing.New` refuses it); `SlotsBalance`
that no channel exceeds its share and that a stopped worker leaves no send
behind; `HeldUpForCause` that the table of failures and the password checks keep
their bounds and that the delay doubles to its cap without overflow. The comment
on each property names the parts.

One incident is enough for the properties of the queue because no transaction
reads the attempts of another event, and no property relates two events except
`OneOpenPerKey`, whose run has two.

Deadlock is checked in the `loop_` runs. Elsewhere the part really may stop:
with `MaxEvents` reached and every row final and retained, the bounded store and
its sessions have nothing to do; a worker is stopped for good after a shutdown;
a process has exited, a configuration is refused, a scan is finished, every
process serves; a bounded clock or number of requests is used up.

Locks leaves replays out because its mapping is the commit: a replay may commit
after a mute looked for rows to cancel and before the mute commits. That is the
mute followed by the replay, which no mapping of single commits expresses. The
replay itself is one conditional `UPDATE` and needs no lock.

### The four disagreements

`rise_race`: the README of the repository says that a `firing` with a higher
severity alerts the channels the new severity routes to, and the comment on
`refresh` that the store decides the rise against the severity it holds. The
alerts, however, are built before the transaction, against the severity read
then (`ingest.go:240`). Open incident at critical; `info` and `warning` arrive
together and both read critical; `info` is stored; `warning` is stored over
`info`, a rise, with no alerts to queue. With one request at a time the
property holds (`loop_workers`).

`late_result`: the comment on `MarkResult` says the row is only ours while it
is still `sending`. When the reaper took a row back and a second worker claimed
it, it is `sending` again, and the first worker's late result is stored. It
takes a worker that is slower than `StaleAfter`, at least twice the longest
send (`NewWorker`): a suspended process or machine. With timely workers a claim
is exclusive (`loop_workers`).

`driver_inferred`: a comment and the example file say that an empty driver is
inferred from the dsn. `Default()` sets the driver to `sqlite`, and a line
without a value (`driver:`, or a variable with an empty fallback) is null, which
keeps it, so nothing is left to infer and a `postgres://` dsn is opened as a
SQLite file. Only `driver: ""` infers.

`spool_overtaken`: the README of the Monit integration says that a `resolved`
never overtakes its `firing`. A run that waits in vain for the lock writes its
event into the spool without it. The run that takes the lock next may have
listed the spool before the file was there, and its `resolved` goes out before
the `firing`. Or the other way round: a `resolved` is spooled without the lock,
then the post of the `firing` that holds it fails and is spooled behind. Among
runs that had the lock the order is kept, repeated arrivals included
(`SentInOrder`).

A fifth has no run of its own: the comment on `checkNullSources` says that it
"refuses an api_keys entry whose sources key is there with no value". It looks at
scalars only (`config.go:496`), so `sources: *none` with `x-none: &none` left
empty is accepted, decodes as no list, and the key serves every source.
`SettingsHold` states it as it is: a key written with sources serves every
source exactly when they are an alias of a null.

One bound of the configuration file is not checked by anything: with a rate so
low that ten minutes do not refill the burst, a client whose idle bucket is
dropped gets a full burst again. The defaults are far from it. `RateKept` bounds
what a client gets since the drop for every rate and burst, and over any time
where ten minutes are enough.

Two things that the code accepts and no document denies: two administrators who
disable each other at the same moment both succeed (`api/auth.go:593`), after
which only the host's `user` command helps; and a run that gave up on the lock
compares its event with the spool only, not with the event that the holder of
the lock is about to send.

### Fairness

`loop_live` assumes weak fairness of claiming, of sends ending, of saving, of
the reaper, of retry times arriving, and of workers stopping and being started
again. `Run` polls on a ticker, every send has a timeout, `save` follows it
unconditionally, `runReaper` ticks, and the deployment restarts a dead worker
(`docker-compose.yml`, `deploy/systemd`). No fairness is assumed of clients,
operators, retention, crashes or success. A recovery whose alert is
dead-lettered is held on purpose and is not owed (`Owed`).

`process`: in Lifecycle goroutines run, sends and statements end (they have
deadlines), the shutdown of the server ends (ten seconds), and a loop of
`select` sees a done context sometime; requests may never end. In Migrations the
deployment restarts what stopped.

`scheduler`: weak fairness of the loop and of sends to channels that answer;
strong fairness of `fill` (a claim that can fail now and then must succeed
sometime), of collecting a finished send, and of noticing the stop: Go's
`select` picks at random among its ready cases, so none is passed over forever.
In SignIn a request that was accepted is served to its end, and time passes.

`locks`: every step of a sender's run has a time limit, so runs go on; cron
calls `--flush` every minute, and neither the lock, nor AlertLoop, nor the disk
fails it for ever (strong fairness of the timer's lock, accepted and refused
posts, and removals).

## 5. Proofs

The theorems hold for every value of the constants that satisfies the ASSUMEs
of the modules; the ASSUMEs state what the types of Go, `config.go` or the
migrations guarantee, and TLC evaluates them in the runs.

### The queue

*StoreProofs.* `QueueInv` is the inductive invariant of
`StoreSpec`: the seven invariants of Store together with the links between
rows. None of the seven is inductive as it stands.

* `StoreTypeOK` makes new ids fresh, so that an insert never overwrites the
  row that another points to, although retention removes rows.
* `RecoveryLinked`, `CopyLinked`, `AttemptsOwned`: a recovery, or a copy, and
  the alert it names belong to the same event, and that event is there. So the
  cascade of retention removes both or neither.
* With these, each of `RecoveryAfterAlert`, `EveryAlertRecoveredOnce`,
  `MutedIsQuiet`, `DeadLetterRedirected`, `BudgetKept` and `OneOpenPerKey` is
  kept by every step.

The argument goes in two parts. First each transaction gets an effect: it
creates an event with its alerts, refreshes one, moves one, moves rows,
redirects a dead letter, or removes events (`StoreStepEffects`). Each invariant
is then proved from the six effects alone. `RecoveryAfterAlert`, the first one
proved, has its own relation between a table and its successor.

*AnnounceProofs.* `StoreImplementsAnnouncements`: `StoreSpec => KeepsPromises`.
Each of the six effects is shown to be one step of the contract, or one that
leaves incidents and notices as they are. `QueueInv` supplies what the contract
asks for: that a recovery is claimed only after its alert, that a copy goes to
another channel, and that an open incident has no recovery.

*AlertLoopProofs.* `LoopImplementsStore`: `Spec => StoreSpec` for the running
system, with any number of clients, workers and rare failures. Most of it is
about stale state. `LoopInv` says of each request what it still relies on
(`RequestOK`) and of each send what its copy of the row still tells (`HeldOK`:
it had a try left, it was due, and the alert of a recovery was heard). These
facts are chosen to survive what others do: an event keeps its key and type, its
id is never given out again, what was heard stays heard. The state, by contrast,
may change, and `TransitionEvent` and `MarkResult` look at it again. So
`LoopKeepsPromises` and every invariant of Store hold of the system as well, and
`HeardBeforeRecovery` follows.

`ClaimsAreExclusive` and `NoAlertAfterRecovery` have the hypothesis
`TimelyWorkers`: no send outlives `StaleAfter`. The code arranges that, except
for a process that is suspended; without it both fail (`late_result`). With it a
row leaves `sending` only by the save of the worker that holds it, or by the
reaper when nobody does.

*LocksProofs.* `LocksImplementStore`: `Spec => StoreSpec` for the transactions
statement by statement on PostgreSQL, with any number of sessions, and
`LocksNeverCycle`. `LocksInv` says what a transaction knows at each of its
statements (`Knows`): the state, the alerts, the channels or the mute it read
earlier are still what the tables say, thanks to the locks it holds, and locks
of two sessions are compatible. A commit respects locks (`Respects`): it changes
an event only under its own exclusive lock, and rows of alerts only of events it
has locked. That leaves the knowledge of the others true (`KnowledgeKept`),
which is why the commit is a single step of Store, as if everything had been
read at that moment. A circle of waiting sessions cannot be: one that holds the
lock of an event for itself waits for nobody, so a circle would consist of
reaper statements only, each waiting for a row above every row it has; the rows
waited for would rise all the way around it, which they cannot.

### The other parts

*ProcessProofs.* `MigratedOnceInOrder`: what a process has read of the ledger is
a prefix of it (`ReadsPrefix`), so the version it adds is the next one or the
insert fails. `DatabaseClosedAfterUse`: in `RunInv` a half that has returned
has left nothing behind and stays returned (`ServerLeft`, `WorkerLeft`), `RunAll`
has the error of the server and no other (`ErrorsKept`), and main has waited for
both before it closes the database (`MainWaited`).

`ValidatedAlwaysBuilds`, `RoutesAsWritten`: for any configurations whose rules
and channels have the types of `config.go`. `StartInv` says what each step of
the start leaves for the next. A compiled condition accepts what the written one
admits, because `Validate` let through only a `*` at the end and known
severities (spaces and capitals are normalised on both sides); with unique names
the registry is the list of channels in order; and a rule that decides never
stands below a catch-all, so that no warning calls it unreachable, nor any
channel it sends to unused.

`SettingsAlwaysHold`, `NothingGoesUnmentioned`: for any well-formed files and
environments. `LoadInv` ties the settings to what the file says under the
environment. Above every line, written, merged or aliased, stand sections
(`OwnAbove`, `BroughtAbove`), so the walk over keys either reaches a line or
stops at one that is refused or does not fit (`LineAccounted`); of all that is
written and brought in one line is decoded for a path (`OneTaken`), because what
a merge brings beside an own key is hidden; and a file and an environment
corrected as the report asks leave nothing to report but keys it did not name
(`CorrectLeavesUnnamed`), so that with no more than `MaxReportedKeys` unknown
keys one refusal is all there is. What an anchor brings in is not a setting where
an `x-` key keeps it, nor where a key of the section's own hides it. The one way
past `checkNullSources` is an alias of a null (`SourcesKept`,
`AliasServesAll`).

*WorkerProofs.* `PollsAlwaysSeen`: no worker remembers a tick later than the
stored one, which never falls, so a write that is skipped is covered by it
(`BeatInv`). `SlotsAlwaysBalance`: the counts per channel and in total equal the
number of sends in flight or finished and not collected (`SlotsInv`), for any
channels, attempts and limits. `AlwaysHeldUpForCause`: an entry of the throttle
counts failures of its own pair since it was last cleared or forgotten, the table never
exceeds its size, and the shift of the delay cannot overflow at any width of a
duration that holds the base delay doubled `ShiftLimit - 1` times (`SignInInv`).

*ConsoleProofs.* `FirstUserOnce`: whoever is between the check and the insert
holds the lock, and at its commit there is still no account (`SetupInv`).
`SessionsInUseLast`: `last_seen_at` is less than `TouchEvery` behind the latest
use (`UseRecorded`), whichever request finishes last. `EndedForGood`: ids of sessions are not reused.
`LimitedKeysStayHome`: a request knows the source of every event it has read,
and events keep their source, so a check made earlier still holds at the write
(`OwnInv`). `RateAlwaysKept`, for every rate and burst: any stretch of the
requests let in since a bucket was made keeps to burst and rate, stretches across
a sweep as well where an idle bucket refills before it is dropped
(`RefillsInTime`), and a refused client had its burst but for one request and the
refill of the lag. `RateInv` compares contents of a bucket at different
times by what each would have been at time 0 (`Level`): every stretch of
requests up to now has been paid for (`Paid`), nothing else has (`OnlyPaid`),
stretches that are over keep to the rate (`NoMore`), and a bucket is never
behind what the time it was last seen has refilled (`Recent`), so that one which
is swept would be full if it refills in time, even for a request that read its
clock up to `Lag` earlier. If it does not, the new bucket raises the level, and
`Paid` and `NoMore` speak of the requests since (`Counts`).

*SpoolProofs.* `KeptStaysKept`: what a run reported as kept arrived, or was
accounted for, or is still in the spool (`NothingLost`), since a run is about to
remove only what is accounted for (`LeavesNoGap`); and trimming never takes the
newest file. `LockOrdersArrivals`: `SpoolInv` says that the files of runs that
held the lock lie in the order of their events, behind what arrived (`InOrder`),
that the listing of the holder has them all and is sent first (`FilesFirst`),
and that the holder's own event comes after them (`ComesAfter`). Both hold for
any number of runs, keys and kills and any size of the spool.

### Only model-checked

* Liveness (`AllSettle`, `OthersGoOut`, `StopEnds`, `EveryBlockEnds`,
  `EveryStartSettles`, `EndsTogether`, `SpoolGoesOut`): the prover does not
  reason about fairness.
* `SplitAsWritten`: the scanner of `Statements` is a recursive function over the
  characters of a script, so that the claim needs induction over data.
* `RiseAlertsRoute` holds with one request at a time and fails with two
  (`rise_race`): there is no general theorem.

## 6. Plan

1. (done) Domain, Store, AlertLoop, Locks, Scheduler, Routing, Lifecycle,
   Migrations, Statements; first theorems.
2. (done) Announcements and the refinement; Ownership, Heartbeat, Accounts,
   SignIn, RateLimit, Configuration, channels in Routing, Spool; compositions.
3. (done) Theorems about Store, its refinement to Announcements, AlertLoop and
   Locks as refinements of Store, Migrations, Lifecycle, Heartbeat, Scheduler,
   SignIn, Accounts, Ownership.
4. (done) Theorems about Routing, Configuration, RateLimit and Spool. What has
   no theorem is listed at the end of section 5.

## 7. Not modelled

* HTTP decoding and encoding, status codes, filters and cursors, and how a
  client's address is found behind proxies: stateless conversions.
* Of the configuration: the checks of URLs, proxies and log format, the hint for
  a misspelt key, the defaults of channel fields, a second YAML document,
  references on or below an anchor, several merges in one section (`<<: [*a, *b]`)
  or a mapping merged in place, and aliases as items of a list.
* Message formatting and the transports of the channels: I/O around one call
  that succeeds, fails or is cut short. The length of a backoff.
* Hashes, tokens, cookies and the cross-site check of the console.
* Of the Monit integration: arguments, the configuration file, the payload, the
  wrapper, a rejected file moved back by hand, and runs that cannot use the
  spool directory (they post past it).
* The web console and the parsing of command-line flags: no protocol state.
