# A TLA+ model of my-home-index-server (port-manager)

port-manager is a one-binary dashboard: it lists the programs of its own user
that listen on a range of TCP ports, and lets a logged-in browser label, kill
and restart them. It is small, but it does things that are hard to test: it
signals processes by pid while the operating system reuses pids, it keeps its
memory in a JSON file that must survive crashes, and every HTTP request runs
concurrently with every other.

This directory models that behaviour in TLA+, checks it with TLC and proves
part of it with TLAPS. Paths below are relative to `src/` unless they name a
module. The code at one commit is the reference: each definition in `map` of
`PROJECT.json` names the lines it was translated from.

## 1. The system

| part | code | state | operations |
|---|---|---|---|
| startup, configuration | `cmd/port-manager/main.go`, `internal/config` | `.env`, `.env.tmp`, the configuration | `Load` (read, generate secrets, persist, print), bind, shutdown |
| login and rate limit | `internal/auth`, `internal/server/middleware.go` | `Auth.failures`: map IP -> failure times | `RateLimitCheck`, `RateLimitRecordFailure`, `RateLimitRecordSuccess` |
| session and routing | `internal/auth`, `internal/server/middleware.go`, `router.go`, `handlers.go` | none: a cookie is a signed time stamp; the token and the secret are the configuration's | cookie issue and check, `authenticate`, the middleware of each route, `/login`, `/logout` |
| scanner | `internal/scanner` | none (reads the OS) | `Scan`: libproc walk on darwin, `lsof -F` elsewhere |
| inspector | `internal/inspector` | none (reads the OS) | `Inspect`: argv, cwd, start time, uid, environment of a pid |
| view models | `internal/model` | none | `BuildViewModels`: up to 8 inspections at a time, labels |
| ports page | `internal/server/ports_handler.go` | `snapshotCache` | `/ports`, `/ports.json`, `writePortsFragment` |
| mutations | `internal/server/mutation_handlers.go`, `handlers.go` | none of their own | `/kill/{port}`, `/rename/{port}`, `/restart/{id}` |
| process manager | `internal/process` | escalation goroutines, reaper goroutines, open `/dev/null`s | `Kill`, `escalate`, `SpawnDetached`, `reap`, `Restart` |
| store | `internal/store` | `s.data` under `s.mu`, `state.json`, `state.json.tmp` | `SetLabel`, `Remember`, `DeleteRemembered`, four reads, `Open` |
| browser | `web/static/app.js`, templates | the page | polls `/ports`, posts mutations |

How they interact: a mutation handler calls the scanner (port to pid), the
inspector (pid to command line), the process manager (which scans *again*
before it signals) and the store, one after the other and under no common
lock. The process manager starts a goroutine per kill that outlives the
request. The ports page calls scanner, inspector and store, and falls back on
a cache that all requests share. Everything reads the operating system's
process table, which other programs change at any moment. `.env` and
`state.json` are the only things that survive a restart.

What is hard, and what makes each part correct:

* **store**: a crash or power failure at any step of a write, a failing file
  operation, two goroutines, retention caps compared at boundaries. Correct
  when the file is always whole, an acknowledged call survives a restart, every
  visible copy respects the caps, and eviction takes the oldest.
* **process manager**: the pid is looked at, verified, signalled and signalled
  again at four moments. Correct when it never signals itself or init, signals
  only what a scan listed, waits the whole grace window before SIGKILL, ends
  what it started ending, and leaks neither descriptors nor zombies.
* **mutations**: any step may fail after an earlier one took effect, and
  requests for one port overlap, and what is remembered is only what an inspection
  read. Correct when a remembered entry means a kill and a kill an entry (as far as
  retention leaves it room), when what a request does concerns the port it named, when
  nothing is started but what was read from a killed process, and when every request
  is answered.
* **rate limit**: check and record are separate critical sections; the map is
  bounded; time passes. Correct when wrong tokens are bounded per window,
  refusals are earned and end, and a full map forgets the right counter.
* **session**: secrets outlive the process that made them, clocks are set, a
  request may carry a token, a cookie or both. Correct when a restart logs nobody
  out, only who is authorised reaches a handler, and redirects end.
* **scanner, inspector**: neither is one look at the process table but many
  system calls, between which it changes. Correct when nothing is made up, and
  what was there all the time is found.
* **ports page**: overlapping builds, time-outs in the middle. Correct when an
  unmarked answer is complete and true, a failure shows the last good rows and no
  build gets stuck.
* **startup**: a crash between persisting and printing a secret, a second start
  beside the first. Correct when the user's lines survive, what is printed is
  durable and what is served is what a restart reads.

The hazards are listed one by one, each at its line, in `PROJECT.json`.

## 2. The modules

```
StoreTypes <- StoreAbs            what a store promises: atomic calls, retention
     ^           ^  ^
     +--- Store -+  |             s.mu, memory, writeAtomic step by step (refines StoreAbs)
            ^       |
       StoreProofs  |
                    |
ProcessManager <-- Dashboard      handlers over processes and a StoreAbs
     ^                 ^
ProcessManagerProofs <-- DashboardProofs
Startup <-- Session               a browser's login across starts and restarts
     ^           ^
StartupProofs <-- SessionProofs
Scanner <-- Inspector             a scan, then an inspection, call by call
                 ^
            InspectorProofs
RateLimit <-- RateLimitProofs     on its own
Snapshot  <-- SnapshotProofs      on its own
```

`MC<Module>` instantiates `<Module>` for TLC and `MC<Module>_<run>.cfg` gives
one run its constants. Beside some definitions stand variants (`SkipVerify`,
`WakeEarly`, ...): plausible slips of the code that no specification uses.
Each property has one that breaks it, so that a property that could not fail is
noticed.

**StoreTypes** has what a label, a remembered entry and the persisted state
are. A `LabelKey` (a digest of cwd and argv) is a model value, a ULID is its
position in creation order, and an entry has a size, because the file limit
adds sizes up. **StoreAbs** is the store as its callers may see it: `view` (memory
between calls), `saved` (what a restart loads) and `hard` (what a power failure
leaves); a call changes `view` and, if it succeeds, `saved`; retention keeps the
newest.

**Store** is `store.go`. A mutating call is `BeginCall`, then its critical section
(`SetLabel`, `Remember`, `DeleteRemembered`: lock and change memory), then one
action per turn of `persistLocked`'s eviction loop, `Marshal`, and one action
per file operation of `writeAtomic` (`OpenTmp`, `WriteTmp`, `SyncTmp`,
`CloseTmp`, `Rename`), each of which may fail and lead to `RemoveTmp`;
`Return` unlocks. A file is its body and whether it is synced; `Crash` and
`PowerLoss` may come between any two steps, and `Open` reads what is left. An
unsynced file is `Torn` after a power failure. The rename itself may be lost
(the code does not sync the directory), which is why `hard` is separate.

**ProcessManager** is `process.go` over a process table. A process has a program,
a *birth* number (what tells apart two processes that hold one pid), whether it
listens, whether it is a zombie, its parent and session. `Start`, `Bind` and
`Exit` are other programs. `Kill` (the guard), `verifyLive` (the scan), `SigTerm`,
`Wake` (sleep over, `isAlive`) and `SigKill` are the steps of one kill; a slot
is a caller with its escalation goroutine. `SpawnDetached`, `OpenDevNullR/W`,
`StartFails`, `StartChild` and `reap` are the steps of a spawn. `Shutdown` ends the
dashboard: goroutines vanish, children are inherited by init, and everything in
its session gets the terminal's interrupt.

**Dashboard** EXTENDS ProcessManager and INSTANCEs StoreAbs. One handler per slot:
`Request`, `Resolve` (scan, first pid on the port), `InspectTarget`, `CallKill`,
`KillReturns`, `RememberKilled`, `SetLabel`, `Restart`, `Spawning`, with the HTTP
status of every early return. The steps of ProcessManager and of the world
interleave between them (`Killing`, `Elsewhere`), and `Exits` ends all of it in
the middle of anything. An inspection fails or returns one of the `Readings` of a program: the
program, no command line at all (`EmptyApp`), or what `Misread` takes it for, because the cwd came out
empty (`internal/inspector/inspector.go:104-110`) or argv was split from the joined command
line (lines 230-267). Entries, labels and restarts are filed under and made of the reading,
so a restart may spawn a command that no process ever ran, as in the code. `S` is the store with all its
limits, both caps and the file's. The history `killed` holds each SIGTERM with its birth and what
the inspection before it had read, and `handed` the bytes that the store was ever given.

**RateLimit** is the login path: `Admit` or `Refuse` (the check), then `BadForm`,
`WrongToken` or `RightToken` (the end of the same request, any number of others
in between). A failure is represented by its age, so time needs no bound. `RetryAfter` is
the header of a refusal, in whole seconds of `Second` ticks; `Restart` forgets the map.

**Snapshot** is the ports page. A `Poll`, or a `Rename` from its `SetLabel` on, scans
(`Scan`, which may leave listeners out, as an lsof that failed and passes for good does) and builds its rows: `Dispatch` is a turn of `BuildViewModels`' loop, which takes a
slot of the semaphore, `Inspect` and `Label` are the two steps of `buildOne` in a goroutine
per listener, `Join` is `wg.Wait` and the look at `ctx.Err`. Then `Set` fills the cache, or
`Fallback` shows it when a step failed or the budget was spent (`Expire`, at any point).
Programs start, exit and take over pids meanwhile (`Change`). Labels hang on the program, which stands for
cwd and argv; an inspection may take it for another (`Readings`, as in Dashboard). The histories `held`
and `meant` record what each pid was, and which
labels each program had, while a request was built, and `lost` what its scan left out: that is what an answer is
measured by.

**Startup** is `config.Load` and the bind. `.env` is a sequence of lines, each a key
with or without `export`; every `.env` of up to `MaxLines` lines is an initial
state, including duplicates and empty and too short secrets, with or without an
AUTH_TOKEN in the environment. Files are inodes, so
that two processes that open `.env.tmp` share what they write, as they do in
reality. `Load`, `ReadAgain` (persistGenerated reads the file a second time),
`OpenTmp` ... `SyncDir`, `Banner`, `Listen` are its steps; `Stop` and `PowerLoss` come
between any two.

**Session** EXTENDS Startup with a browser and a wall clock that may be set
forward or back (`SetClock`). A cookie is the secret it was signed with and its time stamp.
`handleLoginPost` and `handleLogout` are the actions; the middleware, which changes nothing,
is a chain of operators from an answer to an answer, put together per route by
`buildHandler` as the router does. `authenticate` keeps the order of the code: a bearer
token, right or wrong, hides the cookie. So the properties quantify over all
requests in all states. The histories `token` and `onDisk` remember the last login.

**Scanner** is one scan of a process table that other programs change between its system
calls (`Change`: fork, exec, exit, open, close). `ListSize` and `ListFill` are the two calls of
`listAllPIDs`, `FdSize` and `FdFill` those for the descriptors of a pid, each with its
spare slots (`Slots`) and cut at its buffer (`Lists`); `NextPid` and `NextFd` are the turns of the two
loops. The other scanner is a program (`Probe`, external) that prints lines, may skip a
process, fail or be killed, also in the middle of a line, so that a port loses its last
digits (`Halves`), and `EndLsof` with `parseLsofF`, a fold over the lines that
carries pid and protocol as the code does. `seen` is the history of tables since the
call began: what a scan returns is measured by it. Which addresses are the same, their
grouping by port and their order are left out.

**Inspector** EXTENDS Scanner and goes on where a scan ended, for a pid it
returned: `NewProcess`, `ReadArgv`, `ReadCmdline`, `ReadCwd`, `ReadStart`, `ReadUids` and
`ReadEnv` are the separate calls, each of which may find another process. `parseProcargs`
walks the kernel's buffer: `Procargs` (external) lays argv and environment out
in it, or argv alone, for macOS 26 withholds the environment from other processes
(`internal/inspector/inspector.go:14-18`), with characters as numbers; an image with an empty first argument and an
empty entry is among those checked. Arguments with spaces, which `splitCmdline` takes apart, and
argc = 0 are left out.

## 3. The runs

| run | checks | instance and bounds |
|---|---|---|
| `store_crash` | `TypeOK`, `FileIsWhole`, `AckIsDurable`, `CallsReturn`, refinement `ImplementsStoreAbs` | 2 goroutines, 3 calls, one crash or power failure, caps of 2, room for 2 entries |
| `store_retention` | `EveryCopyBounded`, `OldestGoFirst` | 1 goroutine, 2 keys, 4 calls, clock of 2 readings in any order, caps 2 and 3, file limit 5 |
| `pm_safety` | `TypeOK`, `SelfIsNeverTargeted`, `KillOnlyAfterGrace`, `TermFollowsScan`, `FdsFollowChildren`, `ChildrenOutliveDashboard` | 2 kills and a spawn at a time, 4 pids (one is 1, one the dashboard's), 2 births, pids reused |
| `pm_pid_reuse` | `KilledWasListed` is **violated** | the same with one kill |
| `dashboard_safety` | `DashTypeOK`, `EntriesMatchKills`, `ActsOnAskedPorts`, `ChildrenWereKilled` | 2 handlers, 2 requests, 2 ports, 2 programs of which one may be misread as the other, 2 births, no pid reuse; caps of 1, entries of 1 or 3 and labels of 2 bytes in a file of 2 |
| `dashboard_live` | `RequestsAnswered`, `TermedGoesAway`, `ZombiesAreReaped` | 1 handler, the same world, entries of 1 byte |
| `ratelimit` | `TypeOK`, `GuessesBounded`, `RefusalsAreHonest`, `StalestGoesFirst`, `LockoutEnds` | 3 IPs, a map of 2, capacity 3, window of 4 ticks, seconds of 2, 2 requests in flight |
| `ratelimit_sixth` | `SixthIsRefused` is **violated** | 1 IP, 2 requests in flight |
| `snapshot_safety` | `TypeOK`, `UnmarkedIsComplete`, `UnmarkedIsTrue`, `FailureShowsLastGood`, `NobodyWaitsForEver` | 2 requests, a rename, 2 pids, 2 programs of which one may be misread as the other, 1 slot, a change, listings cut anywhere |
| `startup_single` | `SessionTypeOK`, `UserLinesSurvive`, `PrintedTokenHolds`, `SessionsSurvive`, `HandledIsAuthorised`, `RedirectsEnd` | every `.env` of up to 2 lines, 3 starts, 2 deaths or power failures, one instance; one browser, a clock of 3 readings, cookies of 2 |
| `startup_twice` | `ServedIsPersisted` is **violated** | 2 instances, first run |
| `scanner` | `TypeOK`, `RowsAreTrue`, `NothingMissed`, `InspectionIsTrue` | the dashboard and 3 pids, 3 descriptors each, 2 users, 2 programs, 3 sockets, one spare slot, 2 changes at any point, a range in which a port cut short still lies |

Why these bounds are enough to be interesting:

* *Store.* Two goroutines and three calls let one call wait for the mutex while
  another fails, and let a third see what that left behind. Caps of 2 and a file limit of 2 or 3
  entries are passed by 3 calls. Four calls pass the per-key cap, the global cap and the file limit, and
  clock readings may tie or go back. No call depends on more than the entries of
  its own key and the total.
* *ProcessManager.* Two births on one pid are one reuse, and the code never
  looks further back than one pid. Two slots are two kills of one target or of
  two. `Grace` is one tick and `MaxClock` two, so a kill may start at two different times; the
  bound `TimeLeft` only stops kills that could not finish.
* *Dashboard.* Two requests cover every pair (kill/kill of one port,
  kill/rename, kill/restart), and a kill followed by a restart. Three or more
  on one port only repeat what a pair does: handlers share nothing but the OS and the store.
  With caps of 1 the second kill passes both caps, and the file of 2 bytes refuses an entry of 3 altogether
  and a label beside an entry: every way an entry can go is taken. One program that may be misread as the
  other is enough for an entry under a wrong key and for two programs that share one.
* *RateLimit.* One IP more than the map holds, one request more than one, and a
  window long enough for live and expired failures to stand side by side. 5 failures,
  15 minutes and 10 000 IPs enter the code only as these constants.
* *Snapshot.* Two requests cover an overlap as well as a failure after a success; a
  change may be an exit, a start, or a pid that passes to another program between the scan and the
  inspection; one slot for two listeners makes the loop wait. `NobodyWaitsForEver` is the safety form of
  termination: a build that is not over has a step to take, and every step brings it nearer its end.
* *Startup.* Two lines are enough for a duplicate key and for a foreign line; three
  starts for one that fails, one that persists and one that reads. With cookies of two ticks, a clock of three
  readings has all of a cookie's ages: fresh, live, expired, and issued in the future.
* *Scanner and Inspector.* Two changes between two system calls are a pid that goes and comes
  back as another process, a descriptor that is closed and opened again, or one more birth
  than the one spare slot has room for; 128 and 16 enter the code only as these spare slots. Both
  users and both kinds of program are in the first tables.

Fairness: `Store` assumes weak fairness of each step of a goroutine and strong
fairness of acquiring `s.mu` (sync.Mutex hands over to a starving waiter).
`Dashboard` assumes weak fairness of handler steps, of the clock and of the
escalation and reaper goroutines: the Go scheduler runs every runnable
goroutine, and scans and inspections end by the request's budget. `RateLimit`
assumes only that time passes. Nothing obliges a program to start or end, a
client to ask, or a dashboard to stay up.

Environment assumptions are named constants or said in the modules:
`PidsAreReused` (the kernel hands out a pid twice within the life of a grace
window; FALSE in the Dashboard runs), `dirSyncs` (a directory can be synced;
both values are explored), one port per program in Dashboard and Snapshot and no `exec` in Dashboard, an
empty state that fits the file limit (`EmptyStateFits`), a kernel that answers one
system call from one state of the table and gives a process's environment whole or not at all.

Dashboard, ProcessManager and Snapshot take a scan, and an inspection, as one step. The run `scanner`
is what justifies it: a row of a real scan was true at some moment between call and return (`RowsAreTrue`), a
socket open all along is among the rows (`NothingMissed`), and an inspection reports
only what processes under that pid were meanwhile (`InspectionIsTrue`). What the single step
hides is that two rows, or two fields, may be of different moments: when a pid passes to another
process in the middle of an inspection, cwd, argv and environment may come from both, and in Snapshot a row
never has the port of one and the program of the other. Dashboard's scans do not lose listeners to a failing
lsof (a handler would answer 404 where the model has the 502 of a failed scan, and do as little), and in both modules argv is
misread only as `Misread` says.

## 4. What is proved

TLAPS checks these for every value of the constants: any number of goroutines,
requests, pids, IPs, lines, starts, failures and stops, and any caps, windows and sizes.
Together they state every safety invariant and every action property of the passing runs.

| theorem | module | property |
|---|---|---|
| `TypeCorrect` | StoreProofs | `TypeOK` |
| `CommittedFileIsWhole` | StoreProofs | `FileIsWhole` |
| `AcknowledgedIsDurable` | StoreProofs | `AckIsDurable` |
| `RetentionHolds` | StoreProofs | `EveryCopyBounded` |
| `EvictionIsByAge` | StoreProofs | `OldestGoFirst` |
| `StoreImplementsAbs` | StoreProofs | the refinement `ImplementsStoreAbs` |
| `TypeCorrect` | ProcessManagerProofs | `TypeOK` |
| `SelfIsSafe` | ProcessManagerProofs | `SelfIsNeverTargeted` |
| `EscalationIsPatient` | ProcessManagerProofs | `KillOnlyAfterGrace` |
| `TermsAreListed` | ProcessManagerProofs | `TermFollowsScan` |
| `KillsAreListed` | ProcessManagerProofs | `KilledWasListed`, if pids are not reused |
| `DescriptorsAreClosed` | ProcessManagerProofs | `FdsFollowChildren` |
| `ChildrenSurvive` | ProcessManagerProofs | `ChildrenOutliveDashboard` |
| `DashTypeCorrect` | DashboardProofs | `DashTypeOK`, the numbering of SIGTERMs included |
| `PortsWereAsked` | DashboardProofs | `ActsOnAskedPorts`, if pids are not reused |
| `EntriesArePaidFor` | DashboardProofs | `EntriesMatchKills`, if pids are not reused |
| `OnlyKilledAreRestarted` | DashboardProofs | `ChildrenWereKilled`, if pids are not reused |
| `TypeCorrect` | RateLimitProofs | `TypeOK`, the map's cap included |
| `GuessesAreBounded` | RateLimitProofs | `GuessesBounded` |
| `RefusalsTellTheTruth` | RateLimitProofs | `RefusalsAreHonest` |
| `EvictionTakesTheStalest` | RateLimitProofs | `StalestGoesFirst` |
| `TypeCorrect` | SnapshotProofs | `TypeOK`, the number of inspections at a time included |
| `BuildsNeverStall` | SnapshotProofs | `NobodyWaitsForEver` |
| `LastGoodIsShown` | SnapshotProofs | `FailureShowsLastGood` |
| `AnswersAreTrue` | SnapshotProofs | `UnmarkedIsTrue` |
| `AnswersAreComplete` | SnapshotProofs | `UnmarkedIsComplete` |
| `TypeCorrect` | StartupProofs | `TypeOK` |
| `UserKeepsEnv` | StartupProofs | `UserLinesSurvive`, if there is one instance |
| `BannerIsLasting` | StartupProofs | `PrintedTokenHolds`, if there is one instance |
| `LoneServesWhatEnvHas` | StartupProofs | `ServedIsPersisted`, if there is one instance |
| `SessionTypeCorrect` | SessionProofs | `SessionTypeOK` |
| `StrangersAreKeptOut` | SessionProofs | `HandledIsAuthorised` |
| `NoCircle` | SessionProofs | `RedirectsEnd` |
| `RestartsLogNobodyOut` | SessionProofs | `SessionsSurvive`, if there is one instance |
| `TypeCorrect` | InspectorProofs | `TypeOK`, the buffers' lengths included |
| `ScansMakeNothingUp` | InspectorProofs | `RowsAreTrue` |
| `NothingIsMissed` | InspectorProofs | `NothingMissed` |
| `InspectionsAreTrue` | InspectorProofs | `InspectionIsTrue` |

### Assumptions

The constants are constrained only by the named ASSUMEs of the modules, which TLC evaluates in
the runs: `StoreConstants`, `SizesAreNaturals`, `EmptyStateFits`, `ProcessConstants`,
`NoProcessIsNone`, `DashboardConstants`, `RateLimitConstants`, `SnapshotConstants`, `NilIsNoTable`,
`StartupConstants`, `TornIsNoFile`, `SessionConstants`, `ScannerConstants`, `ScannerTables`,
`InspectorConstants`. They say that numbers are naturals, that caps and windows are not 0 (as in the code),
that what is counted is finite (`Instances`, `Slots`, `Apps`, `IPs`, `Requests`, `Pids`, `Fds`),
and that a null value is none of the values it stands beside. `ScannerConstants` says besides that no socket's host is
the text `*`, which only lsof writes, for a wildcard.

Two hypotheses are part of theorems, because the property is false without them or
the code does not promise it:

* `OneInstance` (at most one dashboard process loads `.env`): two starts share
  `.env.tmp`, and `startup_twice` shows what comes of it. `LoneServesWhatEnvHas` is the other half of that run: the
  second start is the only way to its counterexample.
* `~PidsAreReused`: a pid is resolved, inspected, verified and signalled at different moments, and no check of the code
  can see that it changed hands in between; `pm_pid_reuse` shows it for the SIGKILL. `KillsAreListed` is the other half
  of that run. For Dashboard nothing is claimed of what happens when the kernel
  hands a pid out again within one request.

### The arguments

**Store.** `FileIsWhole` and `AckIsDurable` are not inductive: that a rename commits
a whole file depends on what happened three steps earlier. `DurableInv` adds that
only the holder of `s.mu` is past the lock (`Exclusive`), what `state.json.tmp` and the buffer hold at each
point of `writeAtomic` (`WriteProgress`: written after the write, synced after
the sync, equal to memory throughout), and that the
committed file was synced when it was renamed (`Committed`). `RetentionHolds` needs, in
`RetentionInv`, that ids are handed out in order and that the state in memory is over
its caps by nothing once the critical section ended. Its core is a pair
of lemmas about the helpers: the newest n of a finite ordered set are at most n
(`CappedSubset`), so that `evictPerKeyLocked` and
`evictGlobalLocked` restore the caps that one new entry exceeded (`EvictionRestoresCaps`).
`AgeInv` compares memory with `prev`, the state as the call began, after each eviction: what went is older than
what stays of the same key, and labels go only when no entry is left, the oldest first.

*Refinement.* From its lock to its rename, the mapping shows memory as the call found it (`View`): no reader can tell,
for it would wait for the mutex. `CallInv` says of each program counter how far the call has come: in the eviction loop, memory is
what evictions of the oldest left of a target that StoreAbs allows from `prev`; while it writes, it is one of the
outcomes that StoreAbs allows. A call then takes effect for StoreAbs at its rename or, if it failed, as it returns the
error. `Crash`, `PowerLoss`, `Open` and the kernel's write-back are steps of StoreAbs of their own, and everything else is a stutter.

**ProcessManager.** `SignalInv` strengthens the two signal properties with what
each program counter knows: a pid past the guard is not untouchable, and a
sleeping or killing escalation has its SIGTERM in the history, sent a grace
window before `due`. `ScanInv` adds that what a scan listed is
not younger than what holds the pid now; it rests on `TableEvolves`, which
says what a step of anybody can do to one pid: free it, keep its process, or
give it one that is younger than all. `KillsInv` adds, when pids are not
reused, that a pid determines the birth. `ChildInv` says which descriptors a spawner has open at each step of
`SpawnDetached`, that two spawners never wait for one child, that a child is the dashboard's until it is reaped, and that nothing but the
dashboard is in the dashboard's session; the last conjunct makes `ChildrenSurvive` a property of one step.

**Dashboard.** `BaseInv` is ProcessManager's invariants, the types, what each handler step knows (a
target past `Resolve` is a pid, a `snap` is a reading or none), and `RoomInv`: what lies in the store takes no more
bytes than the store was handed, so that the file limit evicts only once that is passed. `CountInv` numbers the
SIGTERMs: each request sends at most one. Three layers stand on it. *Where:* without reuse
a pid determines a birth and a birth a program, so that what a handler read is a reading of the program it resolved
(`ReadInv`), and every target, key, label, entry and signal can be traced to a port in `asked`. *How many:* `BookInv` bounds, for
each command, the entries together with the kills that have sent SIGTERM and still owe one by the SIGTERMs sent with that reading;
it needs no assumption about pids, which come in only to say that the reading was of the process that got the
signal (`Paid`). An answered kill stays in memory unless eviction took it (`AnswerInv`): the per-key cap leaves the command
another entry, the global cap needs more entries than it allows, hence more kills, and the file
limit more bytes than `RoomInv` permits. *What:* a command in the store, in a restart or in a child was read from a process that
was terminated after it (`SpawnInv`).

**RateLimit.** `Shape`: the failures of an IP stand in the order of time and their live part is the history
`guesses`. Because of the order, what `pruned` cuts off is a prefix (`PruneIsTheLoop` in MCRateLimit checks that
the definition is the loop of the code). `Limits`: live failures and requests past the check
are together at most `MaxGuesses`, since a request is admitted only below the capacity, and the map never
exceeds its cap. `EvictionTakesTheStalest` is about `Sweep` and the eviction that follows it; `RefusalsTellTheTruth` is
arithmetic of the cut to whole seconds over a sorted slice.

**Snapshot.** `Jobs`: the semaphore of a build counts exactly its goroutines, and no pid is at two points of the build at
a time. That gives `BuildsNeverStall`. For the answers (`Witnessed`, `True`),
each pid listed, program inspected (or what it was taken for, `ReadOf`) and label looked up is a member of the histories `held` and `meant` of its request, which only grow
while it is built, and a program that listened all along and is not in `lost` is to do, in inspection, found or a row (`Covered`). Rows cut
short exist only once the budget is spent, so that `Join` fails and they are neither cached nor shown (`LastGood`).

**Startup and Session.** The file operations of `atomicWriteFile` follow the pattern of the store
(`Writes`, `OnDisk`, over inodes), and `Handles` says which inode a process may write to. On top of them are lemmas about what
`persistGenerated` makes of a file: it keeps the user's lines and overrides every line of a secret it generated, so that
`Lookup` finds the new value in the result however often the key stood there. `Holds` says what a
load knows of the file it read, `Printed` that a printed token is in every outcome. `HandledIsAuthorised` and `RedirectsEnd` need hardly
any invariant: they hold in every well-typed state, by the order in which the middleware is composed.
`RestartsLogNobodyOut` adds that the secrets of the last login are on disk as long as `onDisk` says so (`LoggedIn`).

**Scanner and Inspector.** All of it is about `seen`, the tables since the call began. For *nothing is
made up*, every pid, descriptor, line and address at hand comes from one of them (`RowsInv`, `LinesInv`; `IsSound` is the
form it takes for the output of lsof, half of it included, and parsing keeps it). For *nothing is missed*,
processes alive plus spare slots are at most the size that was asked for plus the births since (`PidsCounted`, and `FdsCounted` for
descriptors): while births do not use up the spare slots no list is cut, and a socket that was open all along is either in the part of the walk
that is done or in the part that is to come (`WalkProgress`, `LsofProgress`). For *inspections*, `Laid`
describes the kernel's buffer, and the walks of `parseProcargs` over it are followed one by one (padding, a string, argc strings,
the environment): for an image without an empty first argument and empty entries it returns the environment, or none where the kernel
laid none out, and for every
other image nothing that is not in it (`EnvironmentIsRead`).

Recursive functions and folds (`FoldSet`, `FoldLeft`, `SumSet`, `FlattenSeq`, the walks of
`parseProcargs`) are reasoned about with induction made by hand: the set of
counterexamples, if any, has a least element, and the step to it is contradicted. The library's
induction theorems, which take an operator, are not used.

### Only model-checked

* Liveness: `CallsReturn`, `RequestsAnswered`, `TermedGoesAway`, `ZombiesAreReaped`, `LockoutEnds`. Fairness and
  ENABLED are outside the prover's reach.
* The three disagreements (`KilledWasListed`, `SixthIsRefused`, `ServedIsPersisted`): they are counterexamples.
* Dashboard with pids that are reused: nothing is claimed, see above.

## 5. Where the code and its documents disagree

Three of these are runs with a counterexample (`findings` in `PROJECT.json`):

1. `pm_pid_reuse`: `escalate` re-checks only that *some* process has the pid; one
   that took it over within the grace window gets SIGKILL.
2. `ratelimit_sixth`: check and record are not atomic, so requests in flight
   together compare more wrong tokens than the capacity. `GuessesBounded` is what does hold:
   capacity - 1 + the number in flight.
3. `startup_twice`: two first starts share `.env.tmp`, and the one that serves may do
   so with secrets that `.env` does not hold.

Others were met while modelling and have no run of their own:

4. Nothing in the program deletes a remembered entry when its program is restarted
   (`internal/process/process.go:229`; `DeleteRemembered` is called by tests only), although
   `.tenet/spec/scenarios-2026-04-17-port-manager.md:35` says the row "is removed from `remembered`".
5. `internal/server/mutation_handlers.go:29-30` says the entry is persisted and
   then the kill dispatched; the code and its later comment (102-104) have
   the opposite order, so a crash in between loses the entry.
6. The error of `Remember` is dropped (line 106): the kill answers 200 although
   `state.json` lacks the entry. `EntriesMatchKills` holds of memory. Nor does memory have to keep it: an entry that does not
   fit the file limit beside what is there, or by itself, is evicted in the same call
   (`internal/store/store.go:368-374`), as later entries and labels may evict it.
7. `internal/auth/auth.go:159-160` says making room never resets a live counter;
   with a map full of live counters it does. `StalestGoesFirst` says which.
8. `Retry-After` is what is left of the oldest failure, cut to seconds
   (`internal/server/middleware.go:268`): a client that waits exactly so long is refused for up
   to a second more, and longer if overlapping requests left more failures than the capacity.
   `RefusalsAreHonest` has both exceptions.
9. `internal/server/ports_handler.go:18` calls the cache the most recent build; it is the one
   stored last, and overlapping builds may be stored in the other order.
10. `internal/store/store.go:270` calls `DeleteRemembered` idempotent; after a failed
    write a retry answers nil without writing, and the entry comes back on the next `Open`.
11. A death between the rename in `persistGenerated` and the banner leaves a
    token in service that was never printed, against "exactly once" (`README.md:107-111`).
12. A start that dies between the rename and the directory sync
    (`internal/config/config.go:352-361`) leaves an `.env` that the next start reads and serves
    from without a sync; until the kernel writes the directory back, a power failure takes
    token and sessions away. `SessionsSurvive` excepts logins to such a start.
13. A wrong bearer token beside a good cookie is unauthorised on `/` and logged in on `/login`
    (`internal/server/middleware.go:241`, `handlers.go:38`): the two redirect to each other. `RedirectsEnd`
    holds for requests without such a token, as browsers send them.
14. `internal/scanner/lsof.go:113-114` says a signal kill of lsof is surfaced as an error; an
    `ExitError` of a signal has exit code -1, which `code <= 1` takes for benign, so that an
    empty or cut listing is returned as a good one. (Only the expiry of the budget is checked before.)
15. `parseProcargs` skips every Nul after `exec_path` as padding (`internal/inspector/envp_darwin.go:148`):
    an empty first argument goes with it and the first entry of the environment is then skipped in
    its place. `InspectionIsTrue` says that nothing false gets in (`ReadAs`).
16. macOS 26 withholds the environment of other processes, of the same user too (`internal/inspector/inspector.go:14-18`,
    `.tenet/knowledge/2026-04-17_macos-26-stripped-envp-crossprocess.md`). A kill nevertheless remembers what a live
    inspection reads, "so the Remembered entry keeps the restart-time environment"
    (`internal/server/mutation_handlers.go:26-28`), while `inspector.go:17-18` asks for a snapshot "from Store at remember-time, not
    from a live inspect". There `Env` is then nil, and a restart runs with the dashboard's
    environment (`internal/process/process.go:262-264`). `Procargs` has both kernels, and `InspectionIsTrue` allows
    the whole environment or none.
17. A restart uses "the stored argv/cwd/env verbatim" (`internal/process/process.go:215-217`), but what is stored may be a reading that lost its
    cwd or its argument boundaries (`internal/inspector/inspector.go:104-110`, 222-243), which makes the restart run in the dashboard's directory, or run
    a command that never ran before. The inspector calls the split "still useful for labels and logs"
    (line 247); it ends in a restart all the same. `ChildrenWereKilled` claims no more than that it was read
    from a process that was killed.
18. When lsof fails half way, its last line may be half a line: a port that lost its last
    digits is reported if it is still in the range, which takes a `PORT_MIN` of at most a tenth of
    `PORT_MAX` (`internal/config/config.go:236-241` allows it). `RowsAreTrue` excepts that port.
19. `refresh` in `web/static/app.js:290-295` triggers an event that `#ports-body` does not listen
    for (`web/templates/dashboard.html:49`), and the poll of every 2 s replaces the list that the
    button "restart history" loads into the same place.

## 6. What is not modelled, and the plan

Not modelled:

* The browser front end (`app.js`, templates, htmx). It holds one thing that could go stale,
  the port in an open dialog; `/kill` promises no more than a port (`ActsOnAskedPorts`), and the
  rest is DOM.
* Rendering, embedding, server construction, request ids, logging, recovery: no state after `New`.
* HMAC, constant-time comparison, JSON, HTTP parsing: library code, replaced by what it promises.
* The settings of `config.Load` that are no secrets (ports, grace, flags): parsing and range checks, which
  only make `Load` fail.
* Two dashboards with one `STATE_DIR`: `state.json.tmp` is shared as `.env.tmp` is in
  `startup_twice`, with the same outcome, and Store's proofs are for one process.

The plan:

1. **Done**: Store with StoreAbs; ProcessManager; Dashboard; RateLimit; Snapshot; Startup with
   Session; Scanner with Inspector. Each has its runs, and proofs of all its safety and action properties.
2. **Next.** What reuse of a pid can and cannot do in Dashboard: a weaker form of `ActsOnAskedPorts` that
   holds with it (a signal goes to what was asked for, or to what took over its pid), as
   `TermFollowsScan` is for ProcessManager. An abstract login limiter that RateLimit refines. Two processes on one state directory,
   which Store and its proofs leave out.
