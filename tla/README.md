# Mihani Security: verification

Mihani Security is a Windows anti-malware program in Go: a service that watches
processes, files, sockets and token stores, scores what it sees and quarantines
what it is sure of, and a GUI that talks to the service over a named pipe. This
directory holds TLA+ models of the parts of it that keep state and interact,
the TLC configurations that check them on small instances, and the theorems
about each of them that TLAPS proves for every size.

All paths are relative to the repository; `quarantine.go:130` means line 130 of
`src/internal/quarantine/quarantine.go`. `PROJECT.json` maps every definition to
its lines and lists, for every checked property, a change of the code that TLC
finds with it.

- [1 The system](#1-the-system)
- [2 The modules](#2-the-modules)
- [3 The runs](#3-the-runs)
- [4 Bounds](#4-bounds)
- [5 Fairness](#5-fairness)
- [6 What is proved](#6-what-is-proved)
- [7 Where the code and its documents disagree](#7-where-the-code-and-its-documents-disagree)
- [8 What is not modelled](#8-what-is-not-modelled)
- [9 Plan](#9-plan)

## 1 The system

Two processes. The **service** (`internal/service`) owns the configuration, the
detection engine, the monitors, the scanner, the signature database and the
quarantine store. The **GUI** (`main.go`, `internal/app`, `frontend`) has a pipe
client and a page. They exchange JSON lines: requests with an id and their
replies, and messages the service broadcasts (verdicts, progress).

```
 page --bindings--> App --> ipc.Client ==pipe==> ipc.Server --> handleClient (one goroutine per connection)
                                                                   |         |          |
                       monitors --events--> detectors         config.Store   |     quarantine.Store
                                               |                   |         |          ^   |
                                               v              ApplyConfig    |          |   | OnRestored, under Store.mu
                          OnDemandScanner --> Engine <-------------+---------+          |   v
                                               +------------- enforce -----------------+  excludePaths --> config, Engine
```

### Components, their state, operations and hard behaviour

| Component | State | Operations | What is hard |
|---|---|---|---|
| Quarantine store (`internal/quarantine`) | `index` in memory and `index.json`, one encrypted copy per entry (`<id>.bin`), the DPAPI-wrapped key | `Open`, `Add`, `Delete`, `Restore`, `PurgeOld`, `List` and the limits after each change | the original is removed before the index is saved; writes that fail; crashes between effects; other programs writing the same paths; a key that cannot be unwrapped; the size and age limits; one lock that is not reentrant |
| Service control (`internal/service`, `internal/config`) | `config.Store` and `config.json`, `monCtx`, `monStop`, the running monitors, the engine's cached configuration | messages `settings_get`, `settings_set`, `toggle_realtime`, allow, exclude (by a restore); `ApplyConfig`, `startMonitors`, `reconcileMonitors`; stop and restart | several handlers and `run()` read the configuration, start and stop the monitors, with no lock over the two; the client's copy of the settings is old; defaults are merged at load |
| Detection engine (`internal/detector/engine.go`) | whitelist and exclusions under `Engine.mu`, `recent` (suppression), counters | `Report`, `enforce`, `ApplyScanResult`, `ApplyConfig` | a verdict checks the lists in one critical section and acts in another; in between the user restores or allows the file; `Store.mu` and `Engine.mu` are both needed |
| On-demand scanner (`ondemand.go`, `runScan`) | the exclusions it copied, the roots and files to come, the verdicts found, its context, a ticker, `program.scans` | folder and smart scan, progress, cancel, time limit, apply the result | the tree changes under the walk; cancel, limit and end race; its exclusions and verdicts are up to half an hour old when they are applied; scan, ticker and page share one pipe |
| IPC (`internal/ipc`) and its use by `internal/app` | the client's current connection, pending map and channels, a read loop per connection; the server's set of clients | `Call`, `Send`, `Connect`, `ConnectRetry`, `Close`, the read loop, `drop`; `Serve`, `handle`, `Broadcast`, `Close` | the registration of a call and its write may fall on two connections; timeouts, replies and drops race for a channel; two goroutines connect |
| Detectors (`detector.go`, `fileinspect.go`, `sigadapter.go`) | beaconing window, pattern tables | `Evaluate(event)` | the beaconing window; which verdict ends a process; otherwise scoring over tables |
| Signature database (`pkg/signatures`, `seedSignaturesFromBundle`) | the list in memory, `signatures.db`, the installed pack | start, seed, `Open`, import, reload, match | an import or a reload between another's read and its installation; failed writes and crashes in the copy; the pack overwriting what was imported |
| Monitors (`internal/monitor`) | process ids already seen, times of the last report of each sighting, suspects, last sweep of each process | poll, look, report, flag, sweep | process ids that are used again between the list and the look; several passes over one table of sightings; a suspect that was swept a moment ago |
| GUI bridge (`internal/app`, tray) | the client, the tray's state | one method per message | connect and reconnect (in the IPC model) |
| Front end (`frontend/index.html`) | its copy of the settings, lists it has rendered | user interface | the stale copy (in the service model), the id of the scan it follows (in the scan model) |
| Logger, Windows bindings, token path tables, installer | none that is read back | | |

### What makes each component correct

- **Store.** No file that has been removed from its place is lost before somebody
  asked for that; an entry always has a copy of the bytes whose hash it records;
  `index.json` says what memory says; the limits hold; calls return.
- **Service control.** What the engine decides by is what the configuration
  says; protection that is off has no monitor left, protection that is on runs
  the monitors whose flags were set when it was switched on, under a context that
  can be cancelled; a restart brings back what the loader makes of the file.
- **Engine.** A file the user has got back or allowed is not taken by a verdict
  whose checks begin afterwards; a verdict and a restore, which need the same
  two locks, never wait for each other for ever.
- **Scanner.** A result that does not say it was cut short has every file the scan
  could read down to; the newest of those come first; what is excluded is left
  alone; a cancel ends the scan it names and no other; every scan ends and its
  result arrives, as long as the store returns.
- **Signature database.** What an import was acknowledged for stays on file and
  known; the list holds nothing that was never imported; a scan uses it; a pack
  is loaded whatever happened to an earlier copy.
- **Monitors and detectors.** Who is terminated did what the verdict says; a
  sighting is reported once per interval whoever sees it; a process is announced
  once; a suspect has its memory read; alerts about a connection are spaced.
- **IPC.** A call's channel is used once; a call that waits is known to somebody
  who will answer it, whatever becomes of its connection; an error that says "not
  connected" means the request was never handled; a verdict is written to every
  connection that stays open, whatever becomes of the others; the GUI reconnects.

## 2 The modules

| Module | Models | Composes |
|---|---|---|
| `Quarantine` | the store, cut at every effect on disk, with its environment | |
| `QuarantineProofs` | its inductive invariant and theorems | extends `Quarantine` |
| `Vault` | what the store promises: copies, a catalogue, ids taken and condemned | |
| `QuarantineRefinement` | the proof that the store implements the vault | extends `QuarantineProofs`; `Quarantine` has the instance `V` |
| `Preferences` | what the service promises of the user's settings | |
| `Requests` | what the pipe promises of a request | |
| `ServiceControl`, `ServiceControlProofs` | configuration, its handlers, monitors, stop and restart | service + `config.Store` + the engine's cached configuration; has the instance `P` of `Preferences` |
| `Ipc`, `IpcProofs` | the pipe, both ends, and who connects | `ipc.Client` + `ipc.Server` + `App.Connect`; has the instance `R` of `Requests` |
| `Engine`, `EngineProofs` | verdicts, scans, and the user's decisions | engine + the results of scans + restore hook + the store reduced to its entries; has an instance `P` of `Preferences` |
| `Signatures`, `SignaturesProofs` | the database, its file and its start | `signatures.DB` + `seedSignaturesFromBundle` + handlers + scans that match |
| `Scan`, `ScanProofs` | scans, their tickers, the page that follows them | `OnDemandScanner` + `runScan` + the pipe as a bounded queue + the page |
| `Monitors`, `MonitorsProofs` | the polling monitors, what they find, and termination | `internal/monitor` + detectors + `Engine.Handle`, `Process`, `enforce` + the processes of the machine |
| `MC*` | values of the constants for TLC | each extends its module |

Definitions named in a comment as "Mutant of X" are X with a plausible mistake;
no specification uses them.

### Quarantine

State: `index` is `Store.index`, `disk` is `index.json`, `blobs` are the files
`<id>.bin` (bytes and the key that encrypted them), `key` is the key the running
service holds, `files` are the files the outside world sees. `holder` is who
holds `Store.mu`, `pc` and `job` where that operation is and its local
variables, `calls` what each caller is waiting for. `taken` and `condemned` are
history: ids whose original the store has removed, and ids a `Delete` or a limit
has chosen to drop.

An operation is one action up to its first effect on disk and one per effect
after that, because a crash or another program may come between two effects:
`Add` is `AddRecent` or `AddEnter`, `AddMissing`/`AddOpen`, `AddCapture`,
`AddVerified` or `AddRetry` or `AddAbort`, `AddRemove`, `AddRecord`,
`EnforceLimits`, `SaveLimits`. `Restore` is `RestoreRefused`, `RestoreAlready`
(the file is still in place) or `RestoreEnter`, `RestoreCreate`, `RestoreCopy` or
`RestoreDamaged`, `Forget`. `AppWrite` and `AppRemove` are other programs, `Tick`
the clock, `CrashRestart` the end of the process at any moment followed by
`Open`, which may find that the key cannot be unwrapped and makes a new one.

Choices:

- Ids are ordered by the time they were made, as the code's are
  (`20060102-150405` and a counter), so the order in which the limits look at
  entries is the order of ids.
- A copy is `[data, key]`: decryption gives `data` if the key is the one the
  service holds and fails otherwise. `Init` may contain one copy an older
  version stored in the clear (`Plain`). New copies are always encrypted because
  `mergeDefaults` keeps the default of that setting.
- `insideDir` and `restorableTarget` are true of every entry `Add` makes and are
  left out, as are notes, names and severities, which nothing decides by.
- `AddRemove` stands for all three ways `Add` has to get the original out of
  the way (remove, remove with retries, rename to `.quarantine.pending`).
- `persistLocked` writes a temporary file and renames it, so `disk` is either the
  old index or the new one; a failed write leaves the old one.

### Vault

What somebody who hands files to the store relies on, without the lock, the
index in memory, the steps or the crashes: `copies` under their ids, a
`catalogue` that a restart finds, the ids `taken` and `condemned`. A file is taken
only when its copy is there (`Take`); a copy that something relies on never
changes and goes only when its id is condemned (`Drop`); the catalogue is
replaced as a whole and claims nothing the vault does not hold (`Publish`);
copies nobody relies on may be written and abandoned (`Capture`, `Abandon`).
`Quarantine` maps `copies` to the bytes of `blobs`, `catalogue` to `index.json`, and
its history variables to the other two. Failed writes, crashes, restores and
lost keys are stutters of the vault.

### Preferences

What a user who changes settings relies on: `wanted` in memory, `kept` on file, and
`decided`, what the engine decides by. One message changes the settings at a
time (`Change`), on file too unless the save fails; the engine then moves to the
settings as they are (`Adopt`) before the next change, and may miss a change only if it
was not saved or does not concern it; a restart (`Restart`) brings back what the
loader makes of the file (`Loaded`). That is not what was saved: an emptied
whitelist or list of domains is the default one again (`config.go:393`, 396), token
guard is on again because its flag is combined with the default (`config.go:361`), and so is
encryption, which is not read from the file at all. Everything else that the page can
change is as it was saved. Token guard and the behaviour flags are read from the
configuration at each event (`engine.go:227`) and are no part of `decided`. It is the contract between two modules of
different grain: `ServiceControl` has every handler, both phases of `ApplyConfig`
and the monitors, `Engine` has the verdicts and the restore hook, and both
implement it. So `LateVerdictSpares`, which `Engine` shows with handlers reduced to
what they do to the lists, does not lean on a reduction the service breaks.

### Requests

What a caller of `Client.Call` relies on: a request is handled once at most
(`Handle`), an answer means that it has been, "not connected" and a write that
failed mean that it has not been and never will be, and "disconnected" and
"timeout" leave it open (`Return`). The pipe, its connections, both ends' goroutines
and the restarts of the service are invisible.

### ServiceControl

State: `cfg` and `disk` are `config.Store` and `config.json`, `engine` is what
`ApplyConfig` caches, `monCtx` and `monStop` are numbers of contexts,
`goroutines` the monitors that run, with the context each has read (None until
it has). `copy` is the page's copy of the settings. A configuration has the fields the
loader and the monitors tell apart: `enabled` and the monitors' `flags`, `guard` (token guard),
`encrypt`, and the lists `white`, `domains` and `excl`; `Merged` is
`mergeDefaults` on them. `switched` is history: the flags when protection was last
switched on, which are the monitors `startMonitors` started.

A handler changes the configuration in one action (`Store.Set` and `Update` are
locked) and then goes through `ApplyRead`, `ApplyLists`, `ApplyFlag`, `Decide`,
`Check`, `Start`, `SetStop`, `StopMonitors`, `ClearCtx`, `ClearStop`: every read
or write of a field that two goroutines share is its own action. `Boot` is the
monitor goroutine of `run()`. `Begin` is a monitor's first step, which reads
`p.monCtx` when it gets to run. `Stop` and `Restart` are the service's.

`EarlyClient = FALSE` says the first message comes after `run()` has started the
monitors. With TRUE a `toggle_realtime` at that moment leaves the monitors
running with protection off (`OffMeansOff` fails, two goroutines in
`startMonitors`); no document promises anything there, so it is listed as a
hazard and not as a finding.

### Ipc

State: `conn`, `closed`, `pending` are the client's fields, `chan` the channel of
each call (capacity one), `link`, `toServer` and `toClient` what each connection
carries and who has closed it, `reader` and `hand` the read loop of each
connection and the channels it has taken from `pending` but not used yet. `call`,
`on` and `result` say where a call is, which connection it writes to and what it
returns. `out` is the connections each broadcast has still to write to.

Everything between two acquisitions of `Client.mu` is one action. So the
registration of a call (`Register`), the choice of the connection (`SendTo`) and
the write (`Write`, `WriteFails`) are three, and a read loop's removal of a call
from the map (`ReadReply`, `Drop`) and its use of the channel (`Deliver`,
`CloseChannels`) are two. `CloseChannels` closes all channels it took in one
step, and `Install` is the critical section of `Connect`. A broadcast copies the
set of clients under `Server.mu` (`Broadcast`) and writes to each of them without it
(`Push`), in any order, so a connection may be accepted, dropped or closed between
two writes; a write that reaches its deadline closes its connection
(`PushFails`). Authentication of a peer
(`auth_windows.go`) looks at its image path when it connects and has no later
effect; it is left out.

`wanted = 2` at the start because `OnStartup` (`main.go:56`) and the page's boot
(`index.html:1780`) both call `App.Connect`; every drop the page is told of adds
one. `Connectors` are the goroutines that may be inside it at one time, two in the
run: both may find no connection and dial, after which two connections are open
and two read loops share one map of calls.

### Engine

State: `engine` is the lists under `Engine.mu`, `recent` the suppression window,
`reading` the goroutines that hold `Engine.mu` for reading, `holder` who holds
`Store.mu` from one step to the next: the handler whose restore is under way, or a
goroutine whose `Store.Add` has called itself (`Relock`, `quarantine.go:130`), which
keeps it for ever. `present` are the files that exist, `vault` the
store's entries. A reporter (a monitor's goroutine or a scan) goes through
`Look`, `Whitelisted`, `Suppressed`, `Mark`, `Look`, `Excluded`, `Enforce`, `Add` in
the order of `Report`, and a scan, in the order of `ApplyScanResult`, without the
suppression. A handler that restores goes through `RestoreEnter`, `Hook` (the
configuration), `Install` (the engine) and `RestoreWrite`, and holds `Store.mu`
throughout.

`Lock` and the action that follows it are the two ends of `Engine.mu`'s read lock;
a handler that waits to write (`locking`) keeps new readers out, as Go's
`sync.RWMutex` does, and gets in when the last reader has left.

Left out: counters, the log and the sinks, the termination of processes (module
`Monitors`), and what `Quarantine` has. The suppression window and the minute of
`recentByPath` are untimed: `WindowPasses` may happen at any moment. An `Add` may
also fail to remove the file, or find it protected, or, when the file is there to
be captured, not return.

### Signatures

State: `memory` is the list under `DB.mu`, `file` the signatures in `signatures.db`,
`exists` whether there is such a file, `bundle` the pack beside the program.
`svc` is where the start of the service is: comparing the pack (`down`), copying it
(`copy`), opening, seeding, loading, `up`. `batch`, `asked` and `read` are the local
variables of `AppendFile` and `reload` of each connection, `scan` the copy of the
list a scan works on. `acked`, `lost` and `overlapped` are history.

The copy of the pack is two steps, since `os.WriteFile` truncates first
(`SyncTruncate`, `SyncWrite`); so is the seed (`OpenMissing`, `WriteSeed`). An
import grows the list (`ImportMemory`) and then appends line by line, each of
which may fail unnoticed (`ImportAppend`); a reload reads the file
(`ReloadRead`) and installs what it has read later (`ReloadInstall`). `Stop` may
come at any step. `Hits` says which signature finds which file, by size and type.

A file is the set of its valid lines: the order of lines, comments and a line cut
in two by a crash are not modelled.

### Scan

State: `present` and `excl` are the tree and the exclusions, which change while a
scan runs; per scan `phase`, `skips` (its copy of the exclusions), `roots` and `todo`
(what the walk has still to visit), `cands` (what a smart scan has collected),
`scanned`, `ctx`, `canceled`, `ticker`; `scans` is `program.scans`, `inbox` the pipe.
`missed` is history: what the scan could not read.

`Walk` and `Collect` visit one node, `Newest` scans one candidate, so that a
cancel, the time limit, a file that goes or a new exclusion may come between any
two files. `Rest` is what remains to visit: a directory that is excluded, or whose
name is in `skipDir`, is left out with everything in it, an excluded file alone.
A directory is read when the walk comes to it, so what appears later in it is not
visited. A read may fail (`Misses`): the node's own, or the listing of a directory
from some entry on; the code drops the error and goes on (`ondemand.go:333`, 345, 270, 282),
and so do `Walk` and `Collect`. `Apply` is `ApplyScanResult`, which returns or, when
the store's `Add` has called itself, does not (`stuck`). The ticker is a goroutine of its own that may still send after the
result. A sender waits while the pipe is full and drops its message when the
client has gone.

The tree is given by `Parent`, `Above` and `Order` (the order of `filepath.WalkDir`),
which `TreeAssumption` ties together. The numbers in a progress report are
display and left out, and with them the walk of `countCandidates` (`Count` is its
end, after which the ticker starts).

### Monitors

State: `proc` and `life` say which program has an id and how many have had it;
`signs` and `conn` what a process shows: an open handle on the credential store, a
suspicious module or thread, a connection. Per monitor `pc`, `listed` (what
`listProcesses` returned to this pass), `work` (ids still to look at), `at` and
`todo` (the event it reports and its verdicts). `reported`, `suspects`, `scanned` are
the maps of the package with the age of each entry, `hits` the beaconing history.

A pass is `Begin` or `Poll`, one step per process it looks at (`Sight`, `Overlook`,
`Examine`, `PassOver`, `Announce`, `Connected`), and for each event `Report` once per
verdict. Between any two of them processes start, exit and act, and `Tick` lets
time pass. Ages are kept up to the longest interval an entry is compared
with, since the code does not tell older ones from a missing entry.

`TokenTheft`, `Behavior` and `Beacon` are the detectors: who is trusted, which
severity a verdict has, and which verdict makes `enforce` end a process
(`ShouldTerminate`). The rules about command lines are absent because no event has
one (see 7). Credential stores, modules and remote endpoints are one each.

## 3 The runs

| Run | Result | Shows |
|---|---|---|
| `quarantine_safety` | holds | Through failed writes, a crash in any step, a lost key and other programs: nothing taken is lost (`TakenIsKept`), every entry has its bytes (`ListedIsBacked`), a restart between calls forgets nothing (`DiskFollowsMemory`); the store implements the vault (`ImplementsVault`). |
| `quarantine_liveness` | holds | Two callers compete for the lock as time passes: each gets its answer unless `Add` is in its retry (`CallsReturn`); age and size limits hold (`LimitsHold`). |
| `quarantine_retry` | violated | `AddReturns`: the retry of `Add` takes its own lock. |
| `quarantine_evicted` | violated | `AddKeepsItsCopy`: the size limit drops the entry `Add` has just made. |
| `service_one_client` | holds | After every message protection that is off has no monitor left (`OffMeansOff`), and protection that is on runs the log janitor and each monitor whose flag was set when it was switched on (`OnMeansOn`); monitors end when they are stopped (`MonitorsEnd`); settings, file and engine are as `Preferences` promises, through a failed save and a restart that loads the file over the defaults (`ImplementsPreferences`). |
| `service_stale_settings` | violated | `RestoredStaysExcluded`: saving settings that were read before a restore removes its exclusion. |
| `ipc_calls` | holds | One call and one verdict, two goroutines that connect, a stop of the service or a write that reaches its deadline: the channel is used once (`ChannelUsedOnce`), the waiting call is never forgotten (`WaiterIsKnown`, `PendingHasReader`), a written call returns without its timeout (`CallsReturn`); a request is handled once at most and its caller told what is true (`ImplementsRequests`); a verdict is written to every connection it was made for that stays open (`VerdictsAreSent`); the GUI reconnects unless it gives up (`Reconnects`). |
| `engine_verdicts` | holds | A monitor, a scan and a client that restores, allows and withdraws, beside a store whose `Add` may call itself and keep `Store.mu`: a verdict whose checks begin after the user's decision spares the file (`LateVerdictSpares`); who waits for `Engine.mu` never waits for ever, and who waits for `Store.mu` only for such an `Add`, also when a write of `config.json` fails (`NoDeadlock`, `VerdictsEnd`, `RestoresEnd`); the engine's lists are as `Preferences` promises (`ImplementsPreferences`). |
| `signatures_safety` | holds | Two connections import and reload beside a scan, with a pack and without, through a failed write and two stops at any step: acknowledged imports are on file (`AckedIsOnFile`) and, while handlers have not overlapped, known (`AckedIsKnown`) and used (`ScanKnowsImports`); nothing else is in the list (`ListIsExplained`); a pack is loaded, whatever overlaps (`PackIsLoaded`). |
| `signatures_seeded` | violated | `ImportsSurvive`: the start of the service writes the pack over the database and with it over what was imported. |
| `scan_one` | holds | One scan of either kind over a tree that changes or is not all readable, with its ticker, a cancel, the time limit, an exclusion and a client that goes: a result that is not cut short has every file it could read down to (`CompleteIsWhole`), a smart scan the newest of those (`SmartTakesNewest`), and nothing that was excluded (`ExcludedIsLeft`); it ends and its result arrives, unless the store does not return (`ScansEnd`, `ResultsArrive`). |
| `monitors_polls` | holds | Each kind of monitor, and two handle monitors or the handle and the memory monitor together, while processes come and go under one id: `OffendersOnly`, `ToldOncePerInterval`, `AnnouncedOnce`, `SuspectsAreExamined`, `AlertsAreSpaced`. |

`faults = 0` in a property means that it is promised only as long as no write
has failed: after a failed write `Store.Set` and `persistLocked` leave memory ahead
of the file, and the code logs that and goes on.

`CHECK_DEADLOCK FALSE` is set where the modelled run may come to rest: a client
has sent its last message, the calls are done, a service has stopped or
panicked, a scan's result is shown. The runs of the store, the database and the
monitors check for deadlock, and have none because other programs, clients or
the clock can always act; that callers do not wait for ever is `CallsReturn`.

The type invariant of each module was checked in the same instances before it was
proved, and is left to the proofs (`TypeCorrect`). So is `EngineFollowsConfig`,
which `ImplementsPreferences` implies: while nothing is due and no save has failed,
the contract leaves the engine nothing but the settings.

## 4 Bounds

| Constant | Values | Why enough |
|---|---|---|
| `Workers` | 1 for safety, 2 for liveness | every operation of the store runs under one lock; what others can change in between is in the environment. A second caller matters only for who gets the lock. |
| `Paths`, `Siblings` | a file and its side-by-side name, or the file alone | `pickRestoreTarget` tries the original and then its side-by-side names; with one it may succeed or find both taken. |
| `Contents`, `Size` | empty and one unit, or one and two units; a partial capture | size 0 is refused by `Restore`; sizes 1 and 2 against a limit of 2 let the new entry fit or not; the safety run has a limit of 1, so the second entry always evicts one. |
| `MaxEntries`, `MaxTime`, `MaxAge`, `RecentWindow` | 2; 0 to 2; 1 or 2; 0 or 1 | two entries are what the limits have to choose between; one is inside and one outside each window. |
| `MaxFaults`, `MaxCrashes`, `MaxKeys` | 1, 1, 2 | one failure or crash in any step of any operation, the key lost once. The proofs have no such bound. |
| `Conns` of the service, `MaxCalls`, `MaxFaults`, `MaxRestarts` | 1, 3, 1, 1 | switch off, on and off again is the longest chain of `monCtx`; the restart follows any of them, or a list that was emptied or a flag that was cleared. |
| `Monitors`, names, domains, paths of the service | 1, 2, 1, 1 | a monitor with a flag beside the janitor, which has none; a name of the default list and one that is not, a list of domains that is empty or not. |
| `Calls`, `Verdicts`, `Connectors`, `MaxConns`, `MaxFaults` of the pipe | 1, 1, 2, 2, 1 | both goroutines dial, or one dials again after the fault: a call that registers on one connection and writes on the next, a read loop that ends while the other connection lives, a broadcast with two clients of which one is not read. What two calls could do to each other, and a third connection, is in the proofs, which have any number. |
| `Monitors`, `Scans`, `Users`, `MaxAsks` of the engine | one each, 2 messages | withdraw and restore are the two messages a verdict has to race with; a monitor and a scan are the two orders in which the lists are checked. |
| `Clients`, `Scanners`, `MaxRequests`, `MaxRestarts`, `MaxFaults` of the database | 2, 1, 3, 2, 1 | two handlers overlap at every step while a third request follows; one stop in the copy of the pack and one after it. Update files have one of each kind of line, a line that is too short and one of an unknown kind. |
| `Scans`, `Nodes`, `MaxFiles`, `MaxChanges`, `MaxInbox` | 1, 5, 3, 1, 1 | a directory, one in it with two files and one that is skipped; overlapping roots, so files are met twice; one change of the tree or the exclusions or one failed read at any step; a pipe that is full after one message. Scans share only `program.scans`, the exclusions and the pipe; two of them exceed what TLC finishes. What one does to another is in the proofs, which have any number: that a cancel hits the scan it names is a theorem and no property of this run. |
| `Pids`, `MaxLives`, `Watchers` of the monitors | 1, 2, 3 | the id is used by two processes in turn, one of the owner, a shell the user named and an unknown program. Tables are kept by id and no step looks at two ids at once, except that it lists them together. |
| `ReportInterval`, `SuspectRescan`, `MemRescan`, `BeaconWindow`, `Threshold`, `MaxPass`, `MaxHits` | 2, 1, 3, 2, 2, 1, 3 | each interval can be missed and met by a tick, a pass can take one; the short window is shorter than the long one; a history can grow beyond the threshold. |

The action that restarts the service in `ServiceControl` keeps goroutine numbers
bounded by `Ctxs`, which grows with `MaxCalls` and `MaxRestarts`: the bound is
never what stops a behaviour. In `Ipc` a connection number is never reused, and a
goroutine that has to dial when both are used dials for ever: `OutOfConns`, which
`Reconnects` excepts. With one connection per goroutine and one fault that happens
only after the second goroutine has dialled too.

## 5 Fairness

Safety runs use `Spec`, with none. The liveness runs assume

- *goroutines that can run do run*: weak fairness of each goroutine's own
  steps. Go's scheduler is preemptive and every one of these steps is a few
  instructions or a local file operation;
- *a waiter for a lock gets it*: strong fairness of taking `Store.mu`
  (`Enter(w)`, `Add(r)`). Go's `sync.Mutex` switches to hand-over after a waiter
  has starved for a millisecond. The writer of `Engine.mu` needs only weak
  fairness: once it waits, no new reader gets in, which is part of the model;
- *a broadcast goes on*: weak fairness of its writes (`Pushing(v)`), each of which
  ends, at the latest with its deadline;
- *a sender gets room in the pipe*: strong fairness of a scan's steps
  (`Running(s)`), since its ticker may fill the pipe each time the page has
  emptied it; writers wait for the pipe's lock in turn, as above;
- *the memory monitor's goroutine runs*: one weak fairness condition for all
  its steps, which are those of one goroutine and never wait. The other
  monitors need none, their properties are about what a step may do.

Nothing is assumed of the user, the clock, other programs, failures, timeouts,
restarts, or the detection of anything. `CallsReturn` of the pipe does not lean on
the call's timeout, which has no fairness.

## 6 What is proved

Every theorem is about every value of the constants that meets the named
assumptions of its module; TLC evaluates those in the runs. None of the bounds of
section 4 is left, apart from being some number.

### The store

`QuarantineProofs`, for any number of callers, paths, contents, entries, failed
writes, crashes and keys:

| Theorem | States |
|---|---|
| `TypeCorrect` | `Spec => []TypeOK` |
| `TakenFilesAreKept` | `Spec => []TakenIsKept` |
| `EntriesAreBacked` | `Spec => []ListedIsBacked` |
| `RestartForgetsNothing` | `Spec => []DiskFollowsMemory` |
| `LimitsAreKept` | `Spec => LimitsHold` |
| `StoreImplementsVault` (`QuarantineRefinement`) | `Spec => ImplementsVault` |

Assumptions: `QuarantineAssumption` (the bounds are naturals, sizes are naturals,
side-by-side names are sequences of paths) and `NoneAssumption` (the values that
stand for "no file", "no entry", ... are none of the real ones). TLC evaluates
both in the runs of `MCQuarantine`.

None of the properties is inductive. The invariant is
`IInv == TypeOK, LockInv, SourceInv, CopyInv, FreshInv, UnusedInv, SavedInv,
TakenIsKept, ListedIsBacked`:

- `LockInv`: an operation is in progress exactly while the lock is held. Without
  it a second caller could enter while the first is between two effects.
- `SourceInv`, `CopyInv`: while `Add` has its source open the file cannot go, and
  from the capture to the record the copy exists; a restore's copy exists while
  it is read. That is why the removal of the original (`AddRemove`) preserves
  `TakenIsKept`.
- `FreshInv`, `UnusedInv`: the id of an `Add` in progress is listed nowhere and not
  taken, and ids not handed out have left no trace. So a capture that is dropped
  (`AddAbort`, `AddRetry`) is nobody's copy, and a crash in the middle of an `Add`
  leaves a copy no entry refers to, never an entry without a copy.
- `SavedInv`: only between the limits and their save is memory ahead of the file
  while nothing has failed. `DiskFollowsMemory` follows with `LockInv`.

The proof has one lemma per action (`AddCaptureKeeps`, `ForgetKeeps`,
`CrashRestartKeeps`, ...), each split into the conjuncts that the action can
disturb; `NextInv` collects them, `Invariance` is the temporal step, and the
theorems follow.

`LimitsAreKept` is about a sum over any number of entries. `RunningTotal` is a
recursive function on the entries in the order of their ids, and
`RunningTotalDef` its defining equation. `UpToMaxEntries` shows
a statement for every number of entries by its least counterexample (the order of
the naturals is well-founded), where the library's induction theorem cannot be
instantiated; with it `WhatIsLeftFits`: the entries that stay are the ones whose running
total was within the limit, and what stays adds up to no more. The code's
total goes on counting what it drops, so at every entry the sum of what stays is
at most the limit and at most that total.

`QuarantineRefinement` has one lemma per kind of step: which steps of the store are
stutters of the vault (`Quiet` ones, restores, failed writes) and which are
`Capture`, `Abandon`, `Take`, `Drop` or `Publish`. `IInv` before and after the step
supplies what the abstract guards ask for: that an abandoned copy is loose, and
that what is published is sound.

### The signature database

`SignaturesProofs`: `TypeCorrect`, `ImportsStayOnFile` (`AckedIsOnFile`),
`ListComesFromFile` (`ListIsExplained`), `ImportsStayKnown` (`AckedIsKnown`),
`ScansKnowImports` (`ScanKnowsImports`), `PacksAreLoaded` (`PackIsLoaded`), for any number
of connections and scans and any lines, packs, failures and restarts. The invariant adds to the properties where
a batch is (on file, lost, or still to write), that the file is empty while it is
seeded, that what a reload has read is still on file, and, while handlers have not
overlapped, that what it has read is all there is. `PackInv` follows a pack: as long as
no write has failed it is on file once compared or copied, in what a reload has read,
and in the list, whatever overlaps.

### The pipe

`IpcProofs`: `TypeCorrect`, `ChannelsAreUsedOnce`, `WaitersAreKnown`,
`PendingCallsHaveReaders`, `RequestsAreHandledOnce` (`ImplementsRequests`), for any number of calls,
connections, connecting goroutines, stops and faults. The invariant says
that a connection is dialled by one goroutine and read by one loop (`DialInv`), that the
connection calls are given is read (`ConnInv`), that the calls in the map are
unanswered (`PendingInv`), that a call that is new is nowhere (`CallInv`), and that what
is on the wire was written by a call that had a connection (`QueueInv`). Nothing
in it asks that only one connection is open.

`RequestsAreHandledOnce` says that every behaviour of the pipe is one of `Requests`, with
no hypothesis on who connects either. `OnceInv` says that a request is in one place: not
written yet, on one connection once, or handled once; `AnswerInv` that a reply in a
channel, on the wire or in a read loop's hand is one to a request that was handled;
`QueueInv` that what is on the wire or was handled belongs to no call that was told
it had not been sent. A drop, a stop
of the service, a timeout and a reconnection are stutters of the contract.

### The engine

`EngineProofs`: `TypeCorrect`, and under `SoleUser`, one client's handlers taking turns,
`LateVerdictsSpare` (`LateVerdictSpares`) for any number of monitors, scans, files and
messages. The invariant ties the engine's lists to the configuration except while a
handler is on its way to install them (`ListInv`), says that what the user vouches
for is on a list and stays on the next one (`VouchInv`), and where a verdict that
checks such a path can be (`WarnInv`): it never gets past the list the path is on.

`ListsAreAsPromised` (`ImplementsPreferences`), under `SoleUser` too, adds `SeenInv`: what
`ApplyConfig` has read is still the configuration when it comes to install it, also
after failed writes. `ElsewhereQuiet` and `HandlerSteps` say what every step is to the
configuration: nothing, a change that finds the last one installed, the read, or the
installation.

`LocksNeverDeadlock` (`NoDeadlock`) needs no hypothesis on the number of clients.
`LockInv` says that who reads the lists is between `Lock` and the end of its look, and
that `Store.mu` belongs to the handler whose restore is under way or to a `Store.Add`
that has called itself, and to nobody else. So a
reader waits for nothing, a writer waits for readers, a restore for the writer and
a verdict for either, which has no cycle. An `Add` that has called itself holds
`Store.mu` alone and neither lock of the others: only those who wait for the store wait
for it, and they are what `NoDeadlock` excepts. That each of the others goes on is
fairness, and left to the runs.

### Scans

`ScanProofs`: `TypeCorrect`, `CompleteScansAreWhole`, `SmartScansTakeNewest`,
`ExclusionsAreKept`, `CancelsHitTheirOwn`, for any number of scans over any tree
that meets `TreeAssumption`, whatever reads fail. What a scan owes (`Owed`) is what it
could read down to: no node above a file is in `missed`. `Folder` and `Smart` say of each phase that every file a
scan owes is done or below a node that is still to come, with nothing skipped in
between (`Pending`); a read that fails removes from the debt what it hides, and
nothing else; `PresentInv` that whatever has been there all along has
been there with its directories, so the walk comes to it.

### The monitors

`MonitorsProofs`: `TypeCorrect`, `OffendersAreTerminated` (`OffendersOnly`),
`SightingsAreSpaced` (`ToldOncePerInterval`), `AlertsComeSpaced` (`AlertsAreSpaced`), and
under `SoleProcMon`, one process monitor, `ProcessesAreAnnouncedOnce` (`AnnouncedOnce`).
`PassInv` says that a verdict about token theft in hand was found about a guilty
process that is listed, `ListedInv` that what is listed is the process that has the
id, or an earlier one; `ToldInv` that the age in the table of sightings is within one
pass of the age of the last event; `AlertInv` that a history has its threshold since
an alert; `NewsInv` that what was announced and runs is known to the monitor.

### The service

`ServiceControlProofs`, under `SoleClient` (one connection, used once `run()` has
started the monitors): `TypeCorrect`, `EngineIsToldOfChanges` (`EngineFollowsConfig`),
`OffStopsAll` (`OffMeansOff`), `OnIsOn` (`OnMeansOn`), for any number of monitors, messages,
failures and restarts. `SoloInv` says that one of the handlers and `run()` is on its way
at most; `CountInv` that each message makes one context at most, so a context is never
made twice; `WayInv` what somebody who is on his way has read; `StepInv` that `monCtx`
and `monStop` are in step but between their two assignments; `GoroutineInv` that every
monitor waits for a context that is cancelled or can be; `EngineInv` and `EnabledInv`
who still owes the engine and the monitors a change. `StepInv` also says that each
monitor of `switched` has a goroutine that has read `monCtx` or will.

`SettingsAreAsPromised` (`ImplementsPreferences`): every behaviour is one of
`Preferences`. The engine is told in two phases, lists and then the flag, and the
refinement mapping (`Decided`) counts the flag as installed with the lists; so
`ApplyLists` is the step that adopts, and `ApplyFlag` a stutter. A message is
split into whether it is saved and where it goes next (`Message`), each kind of
which is a `Change`; a restart is a `Restart` because `Merged` is what `Loaded` says. `SoloInv` and `WayInv` supply that a change is the only one that is
due. Saves may fail: the contract then lets the engine miss the
change, and `EngineInv` no longer asks that none has.

The assumptions `SoleUser` and `SoleClient` are about one connection, whose
messages one goroutine of the service handles in turn. That is the ordinary case and
not every one: the GUI calls over one connection at a time, but may have two open
(section 7), and one it has left may still have a message under way when the next one
speaks. Without the assumptions the properties do not hold; section 7 says what happens then.

### Only model-checked

All liveness properties (`CallsReturn` of the store and of the pipe, `Reconnects`,
`VerdictsAreSent`, `MonitorsEnd`, `VerdictsEnd`, `RestoresEnd`, `ScansEnd`, `ResultsArrive`, and
`SuspectsAreExamined`), as fairness and ENABLED are beyond the prover. Every other
property of a passing run is a theorem.

## 7 Where the code and its documents disagree

Four disagreements have a run of their own; `findings` in `PROJECT.json` quotes
the lines.

1. **`Add` deadlocks on its retry** (`quarantine.go:130`). It calls itself while it
   holds `Store.mu`; every later call of the store waits too. Trace: a file grows
   between the capture and the second look at its size.
2. **The size limit drops the newest entry** (`quarantine.go:420`). Sizes are added up
   from the oldest entry, so in a full vault the copy `Add` has just made is
   deleted and the original is gone.
3. **Saved settings undo a restore's exclusion** (`service.go:291`). `settings_set`
   replaces the whole configuration with the copy the client read earlier.
4. **The pack replaces what was imported** (`service.go:594`). An import makes the
   database differ from the pack, so the next start writes the pack over it, while
   `README.md:93` says it is seeded "on first run".

Races that the models contain and whose property holds only on the other side of a
named assumption or exception:

- *two connections* (`app.go:126`): `App.Connect` checks and then dials; with two
  goroutines in it (`main.go:56`, `index.html:1780`) both install a connection, both
  read loops deliver every verdict, so it is shown twice, and the end of either
  fails the calls of both (`ipc.go:360`). The run and the theorems on the pipe contain all
  of that; no property says that a verdict is shown once, or that a call fails only
  with its own connection, since neither is so;
- *a restored file is quarantined again* (`engine.go:203`): a verdict that passed the
  exclusions before the restore's hook waits for the store and takes the file once
  the restore is done; and a restore that finds the same bytes in place calls no
  hook at all. `LateVerdictSpares` is about verdicts that begin to check later;
- *two handlers* (`engine.go:82`, `service.go:380`): with two connections the later
  handler may install older lists, start the monitors twice, or leave a context
  nobody can cancel. Excluded by `SoleUser` and `SoleClient`;
- *an early message* (`service.go:198`): a toggle handled before `run()` has started
  the monitors is undone. Excluded by `EarlyClient = FALSE`;
- *a monitor that starts late* (`service.go:214`): its goroutine reads `monCtx` when it
  gets to run; if protection has been switched off by then it reads nil and the
  service panics (`Begin`), which the properties of a running service do not
  speak of;
- *a reload beside an import* (`signatures.go:420`): what was imported in between
  is on file and in no list until the next reload. `AckedIsKnown` excepts it;
- *an id that is used again* (`engine.go:366`, `monitor.go:104`): the newcomer is
  terminated for its predecessor, or taken for it and never announced.
  `OffendersOnly` excepts the first, and no property forbids the second;
- *a GUI that has given up* (`index.html:1640`): `Reconnects` excepts it (see below);
- *a collection that was cut* (`ondemand.go:287`): `SmartTakesNewest` excepts it (see below);
- *an `Add` that never returns* (`quarantine.go:130`): `CallsReturn` of the store,
  `NoDeadlock`, `VerdictsEnd`, `ScansEnd` and `ResultsArrive` except those it keeps waiting. A scan
  that is one of them stays in `program.scans` for ever (`service.go:430`);
- *suspects and a failed list* (`procscan_windows.go:70`): the set is emptied before
  `listProcesses` may fail. `SuspectsAreExamined` excepts failures.

Met while modelling, without a run of their own:

- a restored entry's copy stays in the vault and no limit walks it any more,
  while `README.md:37` speaks of automatic purging (`quarantine.go:279`);
- settings that do not survive a restart: token guard that was switched off is on
  again (`config.go:361`), plain-text quarantine is encrypted again (the field is
  never loaded), an emptied whitelist or list of domains is the default one
  (`config.go:393`, 396). No document promises otherwise, so the model's contract says what the
  code does;
- `README.md:27` says every monitor can be toggled from the settings; while
  protection is on a changed flag starts and stops nothing
  (`service.go:377`). `OnMeansOn` is about the flags as they were when it was
  switched on;
- a directory or file that cannot be read is left out of a scan without a word,
  and the result is not marked (`ondemand.go:270`, 282, 333, 345);
- the page tries to reconnect once per drop and ignores the failure
  (`index.html:1640`, against `mihani-security-analysis.md:224`);
- a file dropped again at a path within a minute of its quarantine is left in
  place, since `recentByPath` answers with the old entry (`quarantine.go:71`);
- `suppressed` marks a verdict as reported before `excluded` drops it, so removing
  an exclusion does not bring the alert back within the window
  (`engine.go:203`);
- an error of the restore hook is logged and the restore goes on
  (`service.go:94`);
- `listProcesses` fills in no command line, so the rules of `detector.go:311` to 399
  never match, and the rule at 412, which asks for an empty one, matches every
  event of a shell (against `README.md:26` and 30);
- `EventTokenString` and `EventModuleLoad` are evaluated by no detector apart from that
  rule, so what the memory monitor finds never becomes a verdict of token theft;
- `decideAction` never answers `ActionBlock`, which `engine.go:402` waits for;
- when the image path of a process cannot be read the verdict's path is the
  credential store itself, and that is what enforcement quarantines
  (`detector.go:182`, against `README.md:23`);
- `scanHandles` passes over processes by name and place before any signature is
  verified (`handles_windows.go:59`);
- `NetMonitor` reports a connection again on every poll while it lasts, so
  one long connection reaches the beaconing threshold (`detector.go:505`);
- at `smartFileLimit` `filepath.SkipDir` leaves out the rest of one directory and
  the collection goes on (`ondemand.go:287`);
- a crash in `writeSeed` leaves an empty database that later starts find and open
  (`signatures.go:388`), and an append to a file whose last line has no line feed
  joins two signatures (`signatures.go:426`);
- the page learns a scan's id from its first progress report, so an earlier cancel
  sends nothing (`index.html:1732`); a report may arrive after the result
  (`ondemand.go:157`). Of two scans at once it knows the one that reported last
  (`index.html:1624`), and the first result makes it forget both (1628), after which the
  other cannot be cancelled;
- `README.md:89` writes a `[YARA-LITE]` line with the substring last; `parseLine`
  (`signatures.go:252`) takes the first field as what to match in every kind, so such
  a line matches its own name. `Documented` in `Signatures` has the two kinds whose match
  the documents state without exception, `HASH` and `PE-IMPORT`;
- what is broadcast while the GUI reconnects, and the result of a scan whose client
  has gone, are shown nowhere (`ipc.go:213`, `service.go:431`).

## 8 What is not modelled

- **Detectors**: the scores of `fileinspect.go` and the pattern tables are data and
  string matching; what any of them finds is an input of `Engine`. The
  rules about registry keys and command lines are left out.
- **Monitors**: `FsMonitor` hands on what the system tells it, without state;
  `RegistryMonitor` compares the values of a key with those it read before
  (`monitor_windows.go:170`: a failed read counts as an empty key).
- **Service**: `status`, `log_tail` and the registration with the Security Center,
  which only answer.
- **IPC**: a line cut in two. A write that reaches its deadline is modelled as not
  written at all (`ipc.go:391`); the line feed comes last, so a request of which
  only a part was written is never handled, as the model says, but the part
  would spoil the next request on that connection, which the client does not
  close.
- **Engine**: counters, log and sinks. `rollDay` (`engine.go:330`) and the two steps of
  `suppressed` (`engine.go:312`; modelled) can miscount or repeat a report.
- **GUI bridge** beyond connecting, **front end** beyond its copy of the settings,
  its scan and its reconnection; **tray** and notifications.
- **Token tables, Windows bindings**: they read the system and keep nothing.
  **Logger**: nothing reads it back. **Installer, icons**: packaging.

## 9 Plan

Done, in this order because the store is where a mistake loses a user's file:
`Quarantine` with its proofs, `ServiceControl`, `Ipc`, `Engine`; then `Vault` and the
refinement, `Signatures`, `Scan`, `Monitors`, and the proofs of all of them.

After that the contracts `Preferences` and `Requests` with the proofs that the
service, the engine and the pipe implement them, and the theorems on the limits of the
store and on the locks of the engine.

Next:

1. Contracts for a scan's result and for the signature database (what a list
   reader may rely on), as `Preferences` is for the settings.
2. `SuspectsAreExamined` has a safety part (a suspect stays in the set until it is
   drained, and a drained one is swept or dated) that can be a theorem.
3. `RegistryMonitor` and the page's reconnection with `onopen` state, if either
   gains state that something decides by.
