# RC Launcher: formal models

RC Launcher is a Minecraft launcher for Android: a Rust core (`src/rust/crates/rc-launcher-core`, called *core* below; `core/x.rs` stands for its `src/x.rs`) that downloads, installs, launches and supervises the game, a JNI bridge (`src/core`) and a Compose user interface (`src/app`). This directory holds TLA+ models of the core and of the screens that keep state, the TLC configurations that check them, and proofs checked by TLAPS.

Contents: [1 inventory](#1-the-system-and-its-components) · [2 modules](#2-the-modules-and-the-code-they-model) · [3 runs](#3-what-each-run-checks) · [4 fairness](#4-fairness) · [5 proofs](#5-what-is-proved) · [6 divergences](#6-where-code-and-documentation-part) · [7 not modelled](#7-what-is-not-modelled) · [8 plan](#8-plan)

To repeat a check: `tlc -config MCJobs.cfg MCJobs` (the configuration and the module of each run are in `PROJECT.json`), `tlapm AppProofs.tla`.

## 1. The system and its components

Status: **M** modelled, **P** partly, **–** not modelled.

| Component | State it keeps | Operations | Talks to | What is hard | |
|---|---|---|---|---|---|
| Chunked download (`download/manager.rs`) | `.part`, `.part.meta`, destination; completed set, permits, retries, persist gate, progress counter in memory | `download`, chunk tasks, `finalize` | HTTP source, disk (blocking pool), progress callback | parallel tasks, kills between any two disk operations, writes that outlive the task that made them, retry after a partial body | M |
| Batch and single-shot download (same file) | semaphore, one task per file, answers | `download_all_concurrent`, `download_single`, `retry_fetch_into` | as above | permits, independent failure, shared destinations, retry into an open file | M |
| Network client and mirrors (`net/client.rs`, `mirror.rs`) | pinned mirror; candidates, tries, last error of a call | `build`, `get`, `auto_select_mirror`, `send_range`, `fetch_range` | reqwest, mirrors, DNS | a speed test that re-pins while a request walks its candidates; which error of several counts | M |
| DNS and proxy (`net/dns.rs`, `proxy.rs`) | the overrides given to the connector | resolution of the protected hosts, parsing of an answer | DoH servers | one upstream or one record type failing | P: not the proxy's URL |
| Offline cache (`robust/cache.rs`, `retry.rs`) | body and metadata file per URL | `fetch_cached`, `put`, `get`, `contains` | network client, disk | two files written one after the other by several callers, kills, degradation | P: not `evict`, `clear` |
| Event bus (`event.rs`, `capi.rs`) | current sink, sequence counter | `subscribe`, `unsubscribe`, `publish` | every publisher; the JNI and C callbacks | callbacks that publish, sinks replaced while an event is on its way | M |
| Jobs (`jobs.rs`) | cancellation flags by scope | `spawn_job`, the task, `cancel_job` | bus, tokio | cancel at any moment, shared scopes, every path must report its outcome | M |
| Accounts (`auth/`, `ffi.rs`) | account manager under a global mutex, sealed store file | list, add, remove, sign in by device code, refresh, `ensure_fresh`, `authInit` | Microsoft services, disk | memory against disk when a step fails, polls that hold the mutex, another key | P: not the cryptography |
| Runtime supply (`runtime/`) | JRE homes and marker files | `ensure`, `install`, `release`, `release_unused` | download, extraction | a kill inside an install or a removal, a removal that fails, a new manifest | M |
| Versions and dependencies (`game/`) | none | rules, inheritance, download plan, asset plan | download | precedence, cycles, two readings of one rule | P: not the JSON |
| Launch command (`launch/classpath.rs`, `args.rs`, `env.rs`, ...) | none | class path, arguments, environment | versions, options, bundle | order of layers, pruning, one jar per artifact | P: not memory and GC flags |
| Launch engine (`launch/engine.rs`, `options.rs`) | the ring of recent lines | `prepare`, `dry_run`, `launch`, `launch_and_wait` | command, process, reporter | files lost between two checks, a future dropped between two awaits | P: not builders and presets |
| Game process (`launch/process.rs`) | child, two pipes, channel, log buffer, `stop_requested` | `next_line`, `wait_with`, `stop`, `kill`, drop | the JVM, the owner | exit against last lines, dropped futures, escalation, children that keep the pipes open | M |
| Crash diagnosis (`launch/crash.rs`) | none | `diagnose` | game process | several causes in one log, bounded evidence | M |
| Crash reporter (`robust/reporter.rs`) | crash logs on disk, log ring | `report_crash`, `write_crash_log`, `emit_crash_event` | engine, bus, disk | the event after the log, no log on a full disk | P: not the panic hook |
| AWT bridge (`launch/awt.rs`, `fakefx.rs`, `awt_host.rs`) | canvas with dirty tiles, input translator, outbox, two pump threads | `input`, `submit_frame`, `poll_frame`, `drain_events`, `attach`, `stop_and_join` | the JVM through two pipes, the UI | shedding under overload, key state on both sides, shutdown of blocked pumps | P: not coordinates |
| Mods (`mods/`) | files in a directory | `scan`, `install`, `set_enabled`, `remove`, `resolve` | disk | name collisions, version ranges, conflicts | P: not the manifests' text |
| Plugins (`plugins/`) | registry, trust store | `register`, `validate`, `resolve_native_lib_dirs`, inventory | disk | checked earlier than used | P: catalogues reduced |
| Buffer pool (`util/bufpool.rs`) | idle buffers by size, idle objects | `acquire`, `into_inner`, drop of a lease | all | buffers that grow while leased, what an earlier lease wrote | M |
| JNI and C interface (`ffi.rs`, `capi.rs`) | global bus, AWT sessions, account manager | argument conversion, `catch_unwind` | Kotlin | lifetime of a callback, locks over awaits | P: bus, job, AWT, account entry points |
| Error model (`error.rs`) | tables | `is_transient`, `is_retryable` | all | what is retried | P |
| Localisation, runtime payload, build | tables, packaged files | lookups | all | nothing that changes state | – |
| Kotlin bridge (`src/core`) | the subscriber | external declarations | JNI | – | P |
| Account screen (`src/app`: `AccountViewModel.kt`, `AccountRepository.kt`, `AccountsScreen.kt`) | list, selection, dialog; the kept uuid | list, add, remove, refresh, sign-in in two taps | accounts | coroutines nothing orders, late and cancelled answers | M |
| Layout editor and settings (`ControlLayoutViewModel.kt`, `ControlLayoutRepository.kt`, `SettingsViewModel.kt`, ...) | layout, selection, mark; index and bodies, preferences | edit, save, copy, delete, reset, settings | SharedPreferences | two edits per save and a kill, two writers of one file | M |
| Instances (`InstallViewModel.kt`, `InstanceRepository.kt`, `InstanceDetailViewModel.kt`, `DashboardViewModel.kt`, ...) | instances; request and step; detail copy; launch state | wizard, create, edit, delete, launch, stop | one executor | stale compositions, stale copies, one gate for all | M |
| Rest of the interface | framebuffer; theme, language, resource figures | AWT surface, selections, probes | AWT bridge | framebuffer against canvas | framebuffer P, rest – |

How they interact: the user interface calls the core through JNI; long work is a *job* that answers through the *event bus*. Installing asks *versions* for a plan, which the *download manager* fetches through the *network client* (mirrors, retries), with the *cache* as the fallback for metadata. Launching assembles a *command* from the merged version, the options and what *runtime supply* and the bundle put on the disk, and hands it to *process supervision*, whose last lines and exit status feed the *diagnosis* and the *reporter*.

What makes each correct (the hazards, with their lines, are in `PROJECT.json`):

* download: no wrong file under a destination that has a checksum, but for a wrong body still on its way when the file is hashed; the resume state claims no chunk that was not fetched; every attempt ends; the end is reported last.
* batch: never more files in flight than the limit; failures stay with their task; the batch returns.
* network, DNS and cache: nothing that might have helped is passed over, nothing is asked more often than allowed; a 404 is not hidden by an old copy; a whole stored copy is served whenever degradation is in order.
* bus and jobs: no event lost or doubled by subscribing at a bad moment; a job is heard in order and its outcome is heard; cancellation is prompt; registry does not grow.
* accounts: what was answered is on the disk; a token is never replaced by an older one; a store that cannot be opened is never written over; every call returns.
* runtime: a home taken for installed is whole, unless its removal was left half-done.
* versions and command: the nearest declaration wins; what the plan fetched is what the class path looks for; a prepared command finds what it names.
* process and diagnosis: lines are heard once and in order up to the exit; a stop is effective and not diagnosed as a crash; a crash log holds what its verdict rests on.
* AWT bridge: the JVM ends up with the buttons and modifiers the launcher believes held; motion never costs a press; a stale pixel is dirty; a session that closes is rid of its pumps, unless one is stuck in a write to a JVM that reads no more.
* mods: a loadout is reported clean exactly when it works; toggling loses no archive but one whose name the toggled one takes.
* plugins: what was reported safe resolves, unless a library went away since.
* screens: each agrees with what it shows and with what is kept, however its coroutines, kills and late taps fall; no tap replaces a layout, an element or an instance it does not show; a dialog that spins has a call that will answer it.
* buffer pool: buffers lie where their size belongs; no lease shows what an earlier one wrote.

## 2. The modules and the code they model

`PROJECT.json` maps every definition to its lines. A definition whose comment says *mutant* is a plausible bug in the definition that follows it; no specification uses it: it serves to confirm that the property named in `PROJECT.json` notices. A property that is a conjunction has a mutant for several of its conjuncts.

### ChunkedDownload, FileDelivery, AppProofs

One destination, attempt after attempt. A file is `[there, exact, good]`: does it exist, has it the expected length, which chunks hold the right bytes. `main` walks through `download_chunked` and `finalize` (`load` the side-car, `presize`, `spawn` behind the semaphore, `join`, final `flush`, `verify`, `rename`, `unlink`); `task[c]` walks through `download_chunk` for one chunk (`fetch` with retries, count, gate, snapshot, report). Three choices carry the difficulty:

* **Disk work has a life of its own.** A snapshot of the resume state is a member of `writers` from the call of `spawn_blocking` until `WriteMeta`; it is opened (truncated) and filled in two steps, two of them may be open at once, and `abort_all` in `JoinFails` does not stop it. tokio's `File` completes a write when the buffer is accepted and only the next write of that file waits for it, and `download_chunk` (`download/manager.rs:617-663`) neither flushes nor syncs: so the last write of every body is `late`. `Land` brings it to the file at any later time, also after the chunk was counted and claimed, after the hash, and after the rename, where it follows the file to its new name; a kill may keep it from the file for good.
* **Kills.** `Crash` may come between any two steps; what survives is `part`, `dest`, `meta`. A write lost with the process leaves a chunk that the side-car may claim and the file does not hold.
* **Wrong answers.** `FetchFails` (transport error or a length mismatch found after writing), `FetchBad` (right length, wrong bytes), `FetchWhole` (a server that answers a ranged request with the whole body, which is written from the chunk's offset over its neighbours before the length is compared; its last buffer is late like any other).

`strayed` and `lost` are history: whether a wrong body reached a file after it was hashed, and which chunks had right bytes on their way at a kill. The properties name with them exactly what the code gives up.

`FileDelivery` is the promise to a caller with a checksum: absent or whole, never back from whole, "ok" only when whole. `KeepsPromise` states that `ChunkedDownload` implements it under `asked <- main # "idle"`, `answer <- result`, `delivered <- dest.there /\ (strayed \/ dest = Intact)`: a delivered file counts as kept also when a stray write damaged it since.

### BatchDownload, TaskProofs

`download_all_concurrent` over tasks whose server ignores ranges. `Enqueue` is `acquire_owned` plus `spawn`; the task gives the permit back in `EndWith`, on every path. `handle[t]` names a *file*, `temp[d]` and `dest[d]` are *names*, so a task that opened a file before another renamed it writes to the renamed file, as on Linux. A file is the sequence of pieces it holds: `FetchFails` keeps what the failed attempt wrote, which is how the size divergence of section 6 arises.

### NetCache, NetProofs

`fetch_cached` from its call to its answer: candidates and per-candidate retries (`send_range`), whole-fetch retries (`retry_with_policy`), the decision of what to do with the last error, `put` in four steps, each of which may fail (`PutFails`: the call answers all the same), `contains` and `get` as two looks at the directory. Several callers share the entry; `Crash` may cut a `put` anywhere. `met` and `sent` are history: what a call's requests met and how many there were. `NetProofs` has the proofs about this module and the next.

### NetworkClient

`NetworkClientBuilder::build` asks the DoH servers for each protected host, one record type after the other (`building`), and keeps the addresses of the first server that told any (`overrides`). Without a host to resolve or an upstream to ask (`Resolving`) the build is ready at once. `get` (`GetUrl`) walks the candidates of a host (origin, mirrors that list it, the pinned one first), retries each, and fetches the chosen URL again (`GetAgain`). `SpeedTest` measures one mirror after the other and `PinBest` pins the fastest at the end; both run at the same time. An answer of an upstream is one of the shapes `ParseDohJson` distinguishes. `told` is history: which upstream told what of a host, by name, since a host may be listed twice.

### Accounts, AccountsProofs

The JNI calls on accounts. `Call` starts one, `Enter` takes the global mutex, which the call keeps over every await until `Return`; sign-in and refresh go request by request (`poll`, grant, XBL chain, profile), and each may fail. `Store` writes the file beside itself (`WriteTemp`) and renames it; `DiskFails` may hit any of it, `Kill` any moment, and `Configure` (`authInit`) opens the store again with the right key, another or none. A token is the number of the grant that made it; `told` is history: what the last answer said of a uuid.

### RuntimeSupply, ServiceProofs

A home is a map from files to the build they come from (0: absent), a marker, and whether `bin/java` is executable. `Ensure`, `InstallRuntime`, `ReleaseRuntime` and `ReleaseUnused` start a call; `Unlink` removes one file of a tree at a time, in no order; `Fetch`, `Unpack`, `Chmod`, `CheckRequired`, `Mark` (creates the marker file empty) and `Fill` are the steps of an install. `Update` is a new release with other archives. `RemovalFails` is `remove_dir_all` with an I/O error, which ends the call where the tree is; `WriteFails` one while the home is made executable or marked. A removal that failed, or that a kill cut, puts the home in `torn`, until a later one completes. `ServiceProofs` has the proofs about this module, the pools, the plugins and the game process.

### ModRules, ModFolder

`ModRules` are operators: which loader and which parser a manifest entry selects and which edges each parser keeps (`EdgesKept`, `MinecraftOf`), version ranges, and the conflict report (`ResolveIssues`). A range is written as a bare or pinned version, with a comparison (`=`, `<`, `>`, `<=`, `>=`, `~`, `^`), as `*`, as an interval, or as a list; `Parse` makes of the last, and of bounds with more than three numbers, no constraint at all, as `VersionConstraint::parse(..).ok()` does. `Convert` is `convert_maven_range`, `Compare` what the semver crate makes of it. `ModFolder` is a folder whose archives are installed (a copy in place, `copying`), toggled by a rename, removed, scanned and resolved; `shown` is the caller's last scan. `Works` and `Within` are the declarative reading the report is compared with: they go by the ends of a range (the versions that begin with 1.16 are those from 1.16.0 on and before 1.17.0; `^0.3.1` ends before 0.4.0), not by comparisons. `ServiceProofs` shows that the two agree.

### Plugins

`Register`, `Validate`, `ResolveDirs` as in `plugins/`, over libraries that `Provide` and `Withdraw` bring and take between two calls, in the right size or another. `HasUnsafeName` is the first check of `validate`, which forbids a library whose name is a path (`Pathlike`); `IntegrityHash` is what the trust store knows a descriptor by, hence two descriptors that differ in what the hash leaves out are one to it. `report` and `resolved` are the last answers.

### BufPool

A buffer is its capacity, its length and how many of its first bytes an earlier lease wrote. `Acquire` takes from the bucket of the request, `Fit` and `Grow` are what a lessee does with a `Vec`, `PutBack` files by the capacity the buffer has then. `ObjectPool` keeps objects, reset when they return.

### GameVersion, LaunchPlan, GameLaunch, MCLaunch, LaunchProofs

`GameVersion` and `LaunchPlan` are operators over the data of a `version.json` and the launch options: rules and patterns of OS versions, `MergeChain`, `BuildPlan`, `BuildClasspath`, `JvmArgs`, `GameArgs` with `Prune`, the layers of arguments, the environment of a renderer. A path is a tuple (`<<"libraries", ga, v, ...>>`). `GameLaunch` is the sequence around them: resolve the chain file by file, download the plan, `prepare` check by check (`PreflightRuntime`, class path, options, natives), and files lost between any two steps. `MCLaunch` holds the six versions and six option sets of the run. `LaunchProofs` proves the four properties for any published versions and options.

### GameProcess, CrashDiagnosis, GameSession

`game`, `writers` (who holds the write ends: the game, or a process it left, `heir` if it is silent and `chatterer` if it writes on without a pause) and `signal` are the operating system's side; `pumped`, `open`, `channel` are the pumps; `owner` is the one `&mut GameProcess`. `wait_with` is `watch` (biased select: a waiting line wins over the status), `drain` after the exit, `reap` when the channel closed first. `WatchDropped` drops its future at any await, as a caller does that wants to call `stop`. `Timely` states that a line lying in a pipe is pumped within `DRAIN_AFTER_EXIT` (500 ms). `DrainEnds` needs a silence of that length, which a `chatterer` never grants.

`CrashDiagnosis` is `diagnose` over texts that carry the categories they match. `GameSession` adds `launch_and_wait` (`supervised`): it waits, may be dropped at any await, keeps a ring of the last lines, and on a crash writes the log and then publishes the event, or neither when the disk refuses.

### EventBus, Jobs, TaskProofs

A publish call is a frame on the stack of its thread (`called`, `numbered` with the `seq` mutex held, `captured`, `inside` the callback), so that a callback that publishes is a second frame on the same stack. `Jobs` EXTENDS the bus: each job is a thread of it, and `pc[j]` is where `spawn_job` or the task is. `registry` maps a scope to the job whose flag is stored there.

### AwtSession, AwtHost, AwtProofs

`AwtSession` is the state behind the session's mutex: the translator (`held`, `origin`), the outbox with its shedding, and the canvas; each of its actions is one call made under that mutex. The desktop is a row of tiles, `Hull` stands for the union of rectangles; whether a point lies inside the desktop and whether a release is near its press are choices. `buffer` is the `IntArray` of `AwtSurfaceViewModel`: `stale` are the tiles that differ from the canvas, `skewed` says that a poll wrote it with the stride of another desktop. `lost` is history: the inputs whose newest record was shed (`adrift`), whether anything but motion was shed, whether `reset_input` was called, and how many records other than motion were queued since the last drain (`burst`).

`AwtHost` adds the two pump threads, the stop flag, and `stop_and_join` under the FFI's slot: from `Close` to `Closed` no input and no poll runs, the pumps do. `Drain` takes the whole outbox in one step under the mutex and `WriteRecord` writes it without the mutex, one record at a time, blocking while the FIFO is full. The JVM is external: it reads records, paints at a `view` of its own, sends frames that do not decode (`invalid`) or that end the stream (`desync`), or exits. A frame of another size is adopted, and sends the JVM a resize in turn.

### AccountScreen

`job[s]` is a coroutine of `Dispatchers.IO` and where it is in `AccountViewModel`; each read or write of a `StateFlow` is a step, and a call of the bridge is one step, since the core's mutex serialises the calls (`Accounts`). `TapSelect` and `CancelLogin` run on the main thread in one step. `cut` marks the coroutines of a screen that was left: their next call throws, whether or not the core carries it out. `settled` is history: the last coroutine that stored the selection ran alone and its calls succeeded; only then `Agreement` can be asked of what it leaves.

### ControllerEditor

All on the main thread, so a tap is one action. `saved` and `prefs` are the two preference files in memory, `savedOnDisk` and `prefsOnDisk` what a kill would leave of them: `apply()` reaches the disk later and in order, hence `Apply` lets the disk have any prefix of the edits of a call. The two files are independent of each other. `KillEditor` starts the process again from the disk. An element's position, size and keys are one `look`; a body that does not parse is `Nil`. `ChangeSettings` is `SettingsViewModel.commit`, which writes its whole copy.

### InstanceScreens

`drawn` is the wizard's last composition: which step's buttons there are, whether *next* is enabled and which builds are offered. `Recompose` draws anew at any later time, so taps in between meet stale buttons. A build is remembered with the version it was listed for (`of`). `Open`, `Edit` and `DeleteDetail` work on the copy of the detail screen. The dashboards of the three screens share the repository and the executor; `barrier` holds the dashboards whose run awaits its one gate, and a coroutine that is cancelled or whose gate opens goes on within the call that does so (`Main.immediate`). Only the home screen offers to stop. The executor is the simulated one the code installs.

### Subsequences, SubsequenceLemmas

`Subsequence(s, I)` keeps of `s` the elements whose places are in `I`, in order: what `filter`, `retain` and `drain` do to a list. `Accounts`, `GameProcess`, `AwtSession`, `NetworkClient` and `Plugins` use it in place of `SelectSeq`, whose definition is a recursive operator local to a `LET`, about which nothing can be proved. It is built on a recursive *function* (`upto`), and `SubsequenceLemmas` shows once what it returns: how it grows with the sequence and that it picks just those elements in just that order.

### MCServices, MCScreens

Runtime supply, mod folder, pools, plugins and network client share no state, so one run checks them: one of them moves in a behaviour and the others stay where they started. `MCScreens` does the same for a download without a checksum and the three groups of screens (`app` chooses): its states are the sum of theirs, not their product. `AppSpec` starts every group in any of its states; `MCAppSpec`, which the run checks, starts those that do not move in one state only.

## 3. What each run checks

| Run | Instance | Shows |
|---|---|---|
| `download_verified` | 3 chunks, 2 permits, 1 retry, persist every 3rd, checksum, late writes, every kind of fault, at most 2 faults | `VerifiedDelivery`, `FinishedIsLast`, refinement `KeepsPromise` |
| `download_and_screens` | download: 3 chunks, 2 permits, 1 retry, persist every 2nd, no checksum, late writes, transport faults, failed unlink, kills, at most 2; account screen: 1 premium and 1 offline account, 2 coroutines at once, 3 in all; editor: 2 shipped layouts, 2 names, 3 elements, 3 changes, 1 kill; instances: 2 modded families, 2 versions, 2 dashboards, 9 taps | `ResumeSound`, `FirstDeliveryComplete`; `ScreensSound` (no spinner without a call, list and selection agree with the core, ids are unique, an unmarked layout is what is stored, index and bodies differ by kills only, every instance has the build its version needs, the detail screen edits what is stored, an idle dashboard runs nothing); `ScreensKeep` |
| `download_liveness` | 2 chunks, 1 permit, 1 retry, late writes, at most 3 transport faults, fairness | `AttemptsDeliver`: every attempt ends, and repeated attempts deliver |
| `download_stale_meta` | 2 chunks, one kill | violation: `OkMeansIntact` (section 6) |
| `batch_download` | 3 tasks, two of them with one destination, limit 2, 1 retry, 2 pieces, at most 2 faults | `BatchInv` (limit, failures, wholeness), `BatchReturns` |
| `net_cache` | 2 callers, 2 candidates, 1 retry, 2 attempts, 2 calls, 1 kill | `RequestsBounded`, `EndsHonestly`, `EveryCallEnds` |
| `jobs` | 2 jobs under one scope, one of which fails; 2 subscribers, one of which publishes from its callback; 1 change of subscriber | `JobsInv` (nothing lost, doubled or left behind), `StreamInOrder`, `CancelIsPrompt`, `JobEnds` |
| `accounts` | 2 callers, 1 offline and 1 online account, 3 calls, 1 kill, 2 grants, 1 pending poll, 1 disk fault | `AnsweredIsStored`, `TokensOnlyAdvance`, `ForeignStoreUntouched`, `EveryCallEnds` |
| `launch` | 6 version files, 6 option sets, with and without preflight, 1 lost file, 2 tries | `ChildOverrides`, `PreparedIsWhole`, `InstalledIsAccepted`, `CommandIsSound` |
| `game_process` | 2 lines per stream, pipes of 1 line, log of 2, ring and evidence of 1, a silent or a chattering process that keeps the pipes, supervised or not | `LogIsFaithful`, `NothingLostAtExit`, `StoppedIsNoCrash`, `ReportExplainsItself`, `StopEndsGame`, `ExitIsReported` |
| `awt_host` | 1 button, 1 modifier, 1 plain key, outbox of 2, FIFOs of 1, desktops of 2 and 3 tiles, 4 scenarios | `AwtInv` (type, input converges, modifiers, stale is dirty), `MotionCostsNoPress`, `StopReturns` (unless a write stalls), `NothingStaysPressed` |
| `services` | 2 homes of 4 files, 2 builds, 3 calls, 1 kill; 5 archives, 5 operations; 2 workers, 2 buckets of 1; 2 foreign plugins; 3 mirrors, 2 DoH servers, 2 users, 2 uses | `InstalledIsWhole`, `PoolIsSound`, `FolderIsSound` (the report is exact, a toggle loses only what it overwrites), `SafeResolves`, `NothingPassedOver` |

Why the bounds are enough. *Chunks*: with 3 chunks and 2 permits one chunk waits for a permit while two run, a whole body written from the middle chunk damages a neighbour on one side and spares the other, and `PersistEvery` of 3 or 2 leaves completions that no snapshot covers. *Faults*: the ways to lose data that are known need one kill, a kill and a failed unlink, or two wrong bodies; the proofs bound none of it. *Batch*: three tasks and two permits make the loop wait; the shared destination puts two handles on one file. *Cache*: two callers put both a writer and a reader, and two writers, on the entry. *Jobs*: two jobs are all a scope's entry can confuse, and the re-entrant echo is bounded by `MaxEcho` because a sink that answers every event with an event never returns, whatever the bus does. *Accounts*: the second caller is the one that waits for the mutex; a third call comes after a kill and another key; two grants are an old and a new token. *Launch*: the six versions differ in what the code treats apart (flat arguments and natives; rules and features; a loader that overrides libraries of its parent; inheriting itself; a missing parent); one lost file is enough for every check, since each stops at the first it misses. *Process*: a log of 2 overflows with 4 lines; a pipe of 1 blocks the game; evidence of 1 is at its limit with two lines that match. *AWT*: the scenarios divide the work, since input and pixels meet only in a resize: three inputs, each of which may queue two records, overflow an outbox of 2 while the pump holds a batch and the FIFO is full; a JVM that paints 3 tiles on a desktop of 2 while a button is down makes a frame release the button; two frames and one resize put a frame of the old size in the FIFO of a resized desktop; two inputs and a resize put a gesture on both sides of it. One button and one modifier suffice for what a record says of the other; the order among several buttons in `release_all` is not exercised. *Supply*: three calls are an install, one over what it left, and a release; two homes are needed for `release_unused` to keep one; two builds make one stale. *Mods*: two archives share a lower-cased name and two an id; the ranges of the archives use each notation, and one that is not read. *Pools*: a buffer of one worker comes back to a full bucket and is leased by the other. *Client*: a speed test of one user changes the pin between two candidates of the other. *Screens*: two coroutines are any interleaving of two taps, and the third follows on what they left; a name whose id is what a copy of the other would get makes ids collide, a version likewise; three changes create, edit and delete a layout around a kill; nine taps take the wizard through all its steps with one tap more on a stale button, and fewer create twice.

`CHECK_DEADLOCK FALSE` stands where the system really may stop: all jobs over (`MCJobs`), the process reported and dropped (`MCGameProcess`), the session closed (`MCAwt`).

## 4. Fairness

* `ChunkedDownload`: the runtime polls every task (`WF` on the steps of each chunk, on the attempt), the blocking pool runs every job (`Persist`, `LandOne`), and the caller asks again after a failure (`Start`; only the second part of `AttemptsDeliver` needs it). Faults are never forced; after at most `MaxFaults` they stop, which is what "faults that stop" means.
* `BatchDownload`, `NetCache`: the executor runs the loop and every task; a request ends because the client sets connect and read timeouts.
* `Accounts`: a request ends by its timeout, and a pending sign-in by the deadline of its device code (`MaxPolls`), so a call that holds the mutex moves (`WF` on its steps). A caller that waits gets the mutex when it is free again and again (`SF` on `Enter`): `std::sync::Mutex` gives no order, yet starving for ever would need an endless stream of other calls. No call is ever forced to begin, and the user is never forced to confirm.
* `Jobs`: tokio polls every task, a callback returns (the contract of the C and JNI subscribers), and a waiting publisher gets the mutex in the same sense (`SF` on its bus steps).
* `GameProcess`, `GameSession`: pumps and what the owner awaits are polled, timers fire, SIGKILL works. Nothing makes the game exit, write or obey SIGTERM, nor the owner call anything.
* `AwtHost`: the operating system schedules both pump threads and the thread that closes. Nothing makes the JVM start, read, paint or exit, nor the user touch anything or the surface poll. Therefore `StopReturns` sets apart the pump that stays inside `write_all` because the JVM reads no more (`StalledWrite`: it does not look at the stop flag there), and `NothingStaysPressed` records that the JVM leaves unread.
* The parts of `MCServices` and `GameLaunch` have safety and action properties only.

## 5. What is proved

For every value of the constants that the named `ASSUME` of the module allows. The download (`AppProofs`):

| Theorem | Assumption | Argument |
|---|---|---|
| `TypeCorrect` | – | `TypeInv` adds to `TypeOK` that a task that may still fetch has not used up its retries (`RetriesOK`), without which `retries` leaves its range. |
| `VerifiedDeliveryHolds` | – | `VerifiedInv`: as long as no wrong body landed since the hash (`~strayed`), the part file is `Intact` while `main = "rename"` and the destination absent or whole; every other write that lands then carries right bytes and ends within the file (`LongIsWrong`: what is too long is wrong). No new write comes after `verify` because no task runs (`Discipline`: `Quiet` says that tasks run only while the attempt spawns or joins, `FlushOwner` that an open final flush belongs to the attempt that awaits it). |
| `KeepsPromiseHolds` | a checksum | each step maps to a step of `FileDelivery` or to a stutter (`PromiseStep`), from the same invariant. |
| `ResumeSoundHolds` | bodies are right and land in their own range (`ResumeSetting`: no fault of kind `badbytes` or `fullbody`; kills, transport errors and failed unlinks as you like) | `ResumeInv`: what `meta`, `completed` and every pending snapshot claim is a subset of what the part file holds, is on its way to it, or was at a kill (`Accounted`), as long as the destination does not exist. `FilesInv` ties the absence of the destination to the shape of the part file. `Accounted` only grows until the rename (`AccountedGrows`). |
| `FirstDeliveryCompleteHolds` | the same | with `CountInv`: at `rename` every chunk is completed, hence accounted for, hence good, under way or lost in a kill. |
| `FinishedIsLastHolds` | – | `LastInv`: a finished report implies that the attempt is over; a chunk's report needs a running task (`Quiet`). |

Invariants such as `VerifiedDelivery` are not inductive: a state where the destination is absent but a verified part file is about to be damaged by a running task satisfies them and leads to one that does not. `Discipline` excludes it, and is where the proof uses the structure of the code (`join_next` on every task before the flush, the flush awaited before `finalize`).

The other components:

| Theorem | Argument |
|---|---|
| `AppProofs!ScreensSoundHolds` | `ScreensInv`, the conjunction of one invariant per group of screens. *Accounts* (`AccountInv`): a coroutine that runs alone has so far found what the others left, list after selection (`AloneSoFar`), so the one that stores the selection alone stores one that is in the list it showed. *Editor* (`EditorInv`): index and bodies are the same sets but for `Odd`, which has at most one member per kill in memory and one more on the disk, where half a save or half a deletion may lie (`StorageInv`); an unmarked layout is what would be loaded (`ShownInv`). *Instances* (`InstanceInv`): `WizardInv` relates what was drawn last to the request, so that a stale *next* or *create* still meets a request its page was drawn from; the detail screen's copy differs from a stored instance by its time of play only (`DetailInv`). |
| `AppProofs!ScreensKeepHolds` | of the same invariant, step by step: every edit of the preference file keeps the bodies of the other ids (`Bodies`), and an id a copy, a new element or a new instance takes is none that is taken. That `UniqueId` finds one is a counting argument: of `Len + 1` candidates two would have to be the same member of the list. |
| `TaskProofs!BusDelivers` | `BusInv`: only the innermost publish call of a thread is at work (`InsideBelow`), the one that numbers owns the lock and has the next number (`LockHeld`), a captured event has a number of its own that was given (`InHand`), and what was delivered is in no hand (`Given`). Hence no number is delivered twice, and the subscriber misses none published since it came. For any threads, sinks and depth of re-entrance. |
| `TaskProofs!JobsAreBusThreads` | `JobsSpec => BusSpec`: each step of a job is a publish, a step of a call under way, an echo from a callback, or nothing to the bus. So `BusInv` holds of the jobs too. |
| `TaskProofs!JobsHold`, `StreamsInOrder`, `CancelsArePrompt` | `JobsSound`: an echo sits on the job's own call and never replaces it (`Depth`, `OwnCall`); what any sink has heard of a job is behind where the job is, one stage further once the call under way delivered (`HeardSoFar`, over `Before` and `After`); a cancel found the job before the step it may still report (`AskedInTime`); as long as the subscriber did not change it is given every outcome (`Attentive`). |
| `NetProofs!RequestsBoundedHolds` | `NetInv` counts: what was sent is what full attempts, full candidates and tries of the current one amount to, so a call that may go on has room for one more request. |
| `NetProofs!EndsHonestlyHolds` | of the same invariant, `WhyDegraded`: only a request that met a transport error or a broken body ends with the error that degrades, and a call that looks at the cache was told to or failed with that error. |
| `NetProofs!NothingPassedOverHolds` | `ClientInv`. Of each call (`CallInv`): what it asked and what it has left to ask are together all that serve its host, and what it sent is at most what it left behind times the tries (`Left`, `NextTimes`). Of the build (`DohInv`): a host behind the cursor has the addresses of an upstream that told some, or all told none; the one under the cursor was told none by those before. A speed test that speaks for a mirror measured it as answering (`SomeBest`, `BestAnswered`). |
| `AccountsProofs!ForeignStoreUntouchedHolds` | `StoreInv`: a call past the mutex owns it (`Mutex`); a manager with a key is that of the store or of no store, and what lies beside the store is sealed with the manager's key while a rename is due (`OneKey`). |
| `AccountsProofs!AnsweredIsStoredHolds` | `BookInv`: the store, and memory while there is a key, are as the callers were told (`Agree`); a call that is to save has in memory what it was asked for, and beside the store what it has in memory when a rename is due (`Saves`). |
| `AccountsProofs!TokensOnlyAdvanceHolds` | of the same invariant, `Issued` and `Holds`: no list has a token that was not granted, and the grant a call holds is the newest, since no other call can pass the mutex to obtain one. |
| `ServiceProofs!InstalledIsWholeHolds` | `SupplyInv`: while a call is under way the marker of its home is not filled (`Unmarked`), a marker never names a build to come (`NoMarkerAhead`), and each step of an install has the files of the steps before it (`InTurn`). |
| `ServiceProofs!PoolIsSoundHolds` | `PoolInv`: an idle buffer is empty and filed by its capacity; `BucketIsNear` shows what `BucketOf` returns for any ladder of doubling capacities; an idle object is reset (`IdleIsReset`). |
| `ServiceProofs!SafeResolvesHolds` | `PluginInv`: a report calls safe only a plugin whose libraries have bare names (`SafeIsBare`) and were there in their sizes (`SafeOrGone`: or were withdrawn since), which is what `ResolveDirs` looks for; for any list of libraries a plugin declares, and those of the five presets. |
| `ServiceProofs!GameInvariant` | types and `LogIsTail`: the log buffer is the end of what was heard (`EndOf`), which a push keeps whether or not it evicts (`AppendToEnd`, `TailOfEnd`). |
| `ServiceProofs!LogIsFaithfulHolds`, `NothingLostAtExitHolds` | `FlowInv`: what the caller heard and what lies in the channel are, stream by stream, the first `pumped` lines in order (`Counted`), since a pump appends to the channel's end only what comes next of its stream (`OfAppend`); a pump that ended pumped all (`Drained`); the exit is reported from `drain` or `reap` only, after the game ended (`Exited`). |
| `ServiceProofs!StoppedIsNoCrashHolds` | of the same invariant as `GameInvariant`, `Marked`: a signal was asked for or comes from a drop, and a wait for the effect of one was asked for. `AskedIsNoCrash` is the verdict. |
| `ServiceProofs!ReportExplainsItselfHolds` | `ReportInv`: a crash log is the diagnosis of a text that some lines of the game made, and its event names its category; `Explains` then follows from `diagnose` itself, for any number of lines and any limit of the evidence. |
| `AwtProofs!AwtInvHolds` | `Believed` is what a reader takes for down after `n` records: per input, the newest record that names it decides. It is followed through every way the stream changes: one more record (`BelievedNext`), one shed from the middle (`BelievedCut`: the belief changes only of an input whose newest record it was, which goes `adrift`), the first one read (`BelievedRead`). `InputInv`: for a living JVM the stream ends with `held` (`Converges`) and, if nothing but motion was shed, each record tells what is believed at its place (`Truthful`); every handler sends a run of records each of which `Tells` what is held after it (`EnqueueKeeps`), `release_all` included, for any order in which it visits all buttons and modifiers. `PixelInv` adds to `StaleIsDirty` that, while the framebuffer has another size and no poll skewed it, the whole desktop is dirty: without that a refresh would break it. |
| `AwtProofs!MotionCostsNoPressHolds` | of the same invariant, `Bounded`: the records other than motion in the outbox (`Costly`) are at most `burst`, so one of them is shed only when `MaxPending` of them were queued since the last drain. |
| `TaskProofs!BatchInvHolds` | `Sound`: permits and tasks under way add up to the limit (`Permits`); a file belongs to the destination it was made for (`OwnFiles`), so a task alone with its destination writes only its own file (`Private`); only a fault makes a task `Hurt`, and each fault pays for one (`FaultPays`, `OthersKeep`); `Lengths` bounds the offset of a retried fetch by the bodies tried. |
| `ServiceProofs!FolderIsSoundHolds` | `FolderInv`: the folder holds archives, whole or torn, under finitely many names. `WellStated`: what the parsers keep are ranges with bounds of one to three numbers (`ParseIsRange`). `MatchesIsWithin`: for each of these the comparisons `Convert` makes of it hold of exactly the versions between its ends (`Comparisons`, for bounds of one, two and three numbers; `KeptByTilde` and `KeptByCaret` for the upper ends that `~` and `^` imply). `NoIssues`: the report is empty when each of its parts is, part by part against `Works`; `ScanIsLoadout`: what the check is given are the enabled archives, each once, in any order. |
| `LaunchProofs!ChildOverridesHolds` | `LaunchInv` keeps the chain a list of published versions (`ChainInv`). What a fold computes is the end of a run over the list (`FoldRuns`), and what every step of a run keeps holds at its end (`RunKeeps`): a merge keeps the names different and the declarations of the nearer version (`MergedSoFar`). |
| `LaunchProofs!PreparedIsWholeHolds` | `LaunchInv` and a finite disk (`DiskInv`). `ChecksHold`: as long as nothing is lost since the checks began, each check that passed still holds at every later step, and the class path is what the chain, the options and the disk give. The run of `Collapse` has, for every jar so far, one of its artifact that is no older, and one only. |
| `LaunchProofs!InstalledIsAcceptedHolds` | of the same invariant: each entry of the class path comes from a library that the rules use, from the bundle or the client (`WhereEntriesAreFrom`); the plan has an item at its place, of that URL or of another declaration of the same jar, or the servers have none. |
| `LaunchProofs!CommandIsSoundHolds` | `CommandInv`, of what `Build` returns for any merged version. *Game*: templates taken from a well-formed manifest are `Paired` whichever of its rules hold, join a server in one place, and do not use the flag the launcher would not use for that manifest (`Unused`); what `Prune` leaves of any such list is `PrunedTo`: a flag in need of a value has it behind it, or is gone; the launcher's additions keep that (`GoodGame`), as a join is added only where there is none. *JVM*: each layer appends texts of a set of its own to a `Clean` list, a manifest's argument only if its key is new, the user's in any case. *Environment*: by cases of the renderer. |

The assumptions are those the modules declare, and each is what the code has by its types or by its configuration: counts are numbers; the mirrors have ids of their own, none of which is that of the origin, as in `mirror.rs`'s table (`ClientAssumption`); a plugin's descriptor lists its libraries (`ForeignAssumption`); the bucket capacities double (`PoolAssumption`); job events are events of the bus (`EventAssumption`). Hosts and upstreams may repeat. Of the screens (`ScreensAssumption`): there is an offline account to begin with (`AccountAssumption`); the shipped layouts have ids of their own and are not editable, names are sequences of words (`EditorAssumption`); vanilla is no modded family, versions are not blank, the home screen is one of the dashboards (`InstanceAssumption`).

Four theorems have hypotheses of their own, named in `GameLaunch` and `ModFolder`. They speak of the data that the launcher is given, without which the property need not hold of the code, and `MCData` of `MCLaunch` and `MCMods` of `MCServices` make TLC evaluate each on the data of the run:

* `PreparedIsWholeHolds`: the versions declared of one artifact are ordered (`VersionsOrdered`). `compare_maven_versions` (`launch/classpath.rs:316`) is not an order on all that can be written (1-rc < 1 < 1-final < 1-rc), and on a cycle no jar is the newest.
* `InstalledIsAcceptedHolds`: rules of libraries ask for no feature (`RulesArePlain`), because the plan judges them without features; and a jar that one declaration gives no URL of is served under its name (`JarsServed`).
* `CommandIsSoundHolds`: a flag of the manifest that needs a value has it behind it in the same entry, and a manifest joins a server in one place (`ManifestsWellFormed`), since `Prune` looks at neighbours only; the renderer is of the enumeration and what the user adds is labelled so (`OptionsWellFormed`).
* `FolderIsSoundHolds`: versions and bounds are lists of numbers, and each range has a form a manifest can give it (`ModsWellFormed`). Ranges that do not parse are among them: the theorem takes them for no constraint, as the code does (section 6).

`ChildOverridesHolds` has none.

*Lists.* The prover has no induction over data, but it has the least element of a set of numbers (`Least`, from the well-foundedness of `<` on `Nat`). `UpTo` turns it into induction over a length, with the set of good lengths in the place of the predicate, and the lemmas on `Subsequence` rest on it. This is what the proofs about accounts, lines of a stream, candidates and plugin libraries use. `LaunchProofs` does the same for the folds of the community modules: `FoldRuns` gives the list of intermediate results of a fold, and `RunKeeps` carries a set of good results along it.

Only model-checked: all liveness (`AttemptsDeliver`, `JobEnds`, `StopEndsGame`, `ExitIsReported`, `BatchReturns`, `EveryCallEnds`, `StopReturns`, `NothingStaysPressed`), since fairness and `ENABLED` are beyond the prover. Every invariant and action property that a run finds to hold has a theorem.

## 6. Where code and documentation part

One run exhibits a disagreement (quoted in `PROJECT.json`): `download_stale_meta`, where a kill between the rename and the removal of the side-car makes the next download answer Ok with a file of zeros, if the task has no checksum.

Others were met while modelling. The models behave as the code does, and no property claims otherwise:

* *Chunked download*. After a checksum mismatch `finalize` fails with a complete resume state (`download/manager.rs:529`), so every retry fetches nothing and fails again; `AttemptsDeliver` is therefore checked with transport faults only. No chunk is flushed or synced before it is counted, hashed and renamed (617–663, 537), unlike a single-shot file, which gets a `sync_all` (479); so the hash may be computed before a wrong body's last buffer lands, which then damages the verified, even the delivered file (`strayed`); Ok may be answered while right bytes are still on their way; and a kill may lose bytes of a chunk that the side-car claims (`lost`): the next attempt skips it, which a checksum finds and which without one is delivered as a hole. A whole body for chunk 0 is longer than asked but right; any other chunk's damages its neighbours before the length check refuses it.
* *Batch*. Answers come in order of completion; the doc says input order (`download/manager.rs:268`). A retried single-shot fetch appends to what the failed try wrote, and the size answered is that of the last fetch (486–495). Two tasks with one destination share the `.part` file. A `.part.meta` of an earlier chunked attempt is ignored and finally removed by a single-shot one, which never reports `finished`.
* *Cache*. The 404 of the last mirror hides the transport errors before it, and the cache is not consulted (`net/client.rs:465`). An entry whose body another `put` is filling is served empty or torn (`robust/cache.rs:193`); `contains` accepts an empty file though its doc says non-empty (77); the key ignores the range (131); HTTP 429 and 5xx become a non-transient error though `error.rs:36` counts them as transient; `suggested_backoff` and `fetch_cached` have no caller in the app.
* *Network client*. `max_retries` is called "Max attempts per candidate URL" (`net/client.rs:55`) and is one less than the attempts made (449). `get` requests the chosen URL a second time, without retry or a look at the status, so `fetch_bytes` may hand out an error page though its doc says "first successful response" (`net/client.rs:183`). A speed test that reaches nothing keeps the old pin; the measured latencies are never read; a mirror listed twice under the pinned id is skipped.
* *Bus and jobs*. Events of two publishers may arrive in another order than their numbers (`event.rs:75` says monotonic); the callback may be entered after `rc_event_bus_unsubscribe` returned (`capi.rs:60`); JNI subscribe answers TRUE always; `cancel_job` answers true after the last poll of a job; the end of a job removes the flag of a newer one under the same scope, which can then not be cancelled (`jobs.rs:48`).
* *Accounts*. A `remove` whose save failed has changed memory: the retry answers that nothing was removed, and the file keeps the account (`auth/manager.rs:98`). A second sign-in of an account appends a duplicate, while lookups use the first (118–135, 76–78). A new refresh token is lost if the XBL chain fails after the grant (`auth/microsoft.rs:354`). Polls ignore the doubled interval. The mutex is held over a sign-in for up to 900 s (`ffi.rs:331`); `authInit` reads the store before it takes the lock (240–246); after a failed `authInit` the default manager takes accounts without storing them.
* *Runtime*. A `remove_dir_all` that fails, or is cut by a kill, may spare the marker and take other files, although `runtime/manager.rs:15` says that the marker vouches for a complete home; two installs of one home at once wipe each other; a stale home is removed before its successor is downloaded (153–160); `release_unused` never frees stale or partial homes.
* *Versions and plan*. `javaVersion` is never read from the file (`game/version.rs:57`, 104), so the Java check at `launch/engine.rs:57` never fires. The logging configuration is stored as `<id>.xml` under an id that ends in `.xml`, and looked for elsewhere (`game/resolve.rs:262`, `launch/command.rs:461`). A library of natives only gets a made-up URL of a main jar (`game/library.rs:164`). `^10\.` without `$` keeps the `^` as a character (`game/platform.rs:180`). The leaf's `arguments` replace its parent's wholly (`game/version.rs:180`). The plan judges rules without features, the class path with them (`game/resolve.rs:205`, `launch/classpath.rs:210`); a second item for one destination lends its checksum to the first's URL (`game/resolve.rs:75`).
* *Command*. LWJGL is dropped from the class path without a bundle, though `launch/engine.rs:281` warns of the opposite. The zink profile sets error checking (`launch/render.rs:229`) and the options turn it off (`launch/options.rs:354`). `Prune` drops any dashed neighbour of an unresolved argument (`launch/args.rs:241`). The order of Maven versions is not transitive. A single-player quick play with a server adds both quick-play flags. Secrets of eight characters are not redacted. A user argument with `${` makes the build fail. Files may go between the check and the start.
* *Process and report*. `stop` signals the cached pid also after the child was reaped (`launch/process.rs:446`); `kill_on_drop` does not act when the launcher itself is killed (315); a pump slower than the drain time loses lines, although the module says "Output is never lost at exit" (27); a process the game left that writes without a pause keeps `wait` from returning, since every line starts the timeout of the draining again (416); the channel is unbounded though the module promises bounded memory (17). The evidence ends at 12 lines and may miss the line that decided (`launch/crash.rs:456`); `crashed` is true for a game the user stopped (345), so it gets a crash log and an error event; there is no event when the log cannot be written (`robust/reporter.rs:168`); `CrashLog.logs` is filled oldest first though its doc says newest first (`launch/engine.rs:431`). The app calls neither `launch_and_wait` nor `install_crash_reporter`.
* *AWT, input*: a close waits for ever when the JVM has stopped reading and the FIFO is full (`launch/awt_host.rs:367`), with the session slot held, although `launch/awt_host.rs:37` and `docs/awt.md:92` say that stopping never hangs; after a focus loss plain keys stay down in the JVM, since only buttons and modifiers are tracked, although `docs/awt.md:137` says all keys are released; `reset_input` forgets what is held without telling the JVM, so `InputConverges` (of `AwtInv`) counts everything adrift after it. A right button released on the surface is reported with the button of the touch, `event.buttons` being empty by then (`AwtCanvasSurface.kt`).
* *AWT, pixels*: a frame still in flight at the old size undoes a resize and sends the JVM that size back (`launch/fakefx.rs:363`); after a resize by the JVM the framebuffer keeps its old size until a refresh: polls fail when it is too small, and write skewed rows when it is too large (`skewed`), after which the framebuffer of the refresh stays empty where nothing is damaged.
* *AWT, end*: the frame pump may record "stopped" as the error of its channel before anyone else states a reason; after the JVM exits the link stays attached until the next record is written.
* *Account screen*. A list call that fails or is cancelled counts as an empty list: it empties the screen, and `reconcileActive` then forgets the selection that was kept (`AccountViewModel.kt:50`, 57–62). A dismissed sign-in comes back when its call answers (88, 100). A second sign-in of an account makes a duplicate (above), whose uuid keys two rows of one `LazyColumn` (`AccountsScreen.kt:163`).
* *Layout editor*. `ControlLayoutViewModel.kt:32` says that `controllerLayoutId` is kept in sync, but the next `commit` of an open settings screen writes its stale value back (`SettingsViewModel.kt:43`). After a kill between the two edits of a save or a deletion, index and bodies differ for good: `load` reconciles only a body that does not parse, although `ControlLayoutRepository.kt:58` says the index is. A corrupt layout that is picked leaves the index, but stays in `_savedLayouts` until the next save.
* *Instances*. `setLoader` says "Drop a now-irrelevant loader version when switching families" (`InstallViewModel.kt:37`), and drops it for vanilla only: an instance of one family can be created with a build of another. The detail screen writes its copy back and with it the time of play it loaded (`InstanceDetailViewModel.kt:36`). Stopping the home dashboard's game ends the one of another dashboard, if that one placed its gate later (`DashboardViewModel.kt:53`). A second tap on *create* before the navigation creates a second instance.
* *Mods*. `scan` skips `.disabled` files (`mods/mod.rs:196`), so a disabled mod vanishes from the list, though the doc (29–33) lists it; a toggle lower-cases the name and may overwrite a namesake (83–99); an install copies in place; only a file's first metadata counts; files without a manifest share the id ""; one duplicate is reported, whatever else is doubled (`mods/conflict.rs:219`). A list of comparisons (`>=1.14,<1.17`, `>=1.14 <1.17`), alternatives (`||`), a union of intervals, and a bound of four numbers do not parse (`mods/constraint.rs:135`), and the parsers drop what does not parse (`metadata.rs:253`): such a range is no constraint, without a word, while the readers of Fabric and Quilt require every range of an array, where the loaders take any. `mcmod.info` keeps its edge on `forge` (422–429), and Fabric mods theirs on `fabricloader` and `java`, which no archive provides: where the edge is required it is reported as missing, which `metadata.rs:359` avoids for `mods.toml`.
* *Plugins*. `load_order` is ignored, `resolve` looks neither at the ABIs supported nor at a report, `expected_sha256` is never compared. The hash the trust store knows a plugin by is said to pin "a known-good plugin" and to serve "tamper detection" (`plugins/renderer.rs:188-191`); it leaves out what is optional, whether validation is required, the trust, and the sizes and digests expected of the libraries. The resolver does not repeat the check of names, and asks of a library only whether it exists.
* *Buffer pool*. `acquire` may return a buffer smaller than the request, when one was fitted to a size between two powers of two, though the comment says it satisfies it (`util/bufpool.rs:107`); `PoolIsSound` therefore promises more than half.

## 7. What is not modelled

* In the downloads: two concurrent chunked downloads of one destination, disk errors other than the failed unlink (a failed late write, which `tokio` reports to nobody, included), a changed chunk size between attempts, a progress callback of an aborted task still running, panics of tasks; time (backoff, freshness of cache entries); the content of bodies beyond right and wrong.
* In the AWT bridge: the text of reasons and diagnostics, statistics, scaling and letterboxing of coordinates, where the click of a release goes, the byte format of records and frames beyond its three outcomes, the choice among backends.
* In accounts: encryption, derivation of uuids, the fields of the HTTP answers. In runtime supply: two calls on one home at the same time (the app makes none). In versions and mods: the parsing of JSON, TOML and the objects of the asset index. In the launch: memory and GC flags, the shell rendering, redaction, presets, serialisation of options.
* In the user interface: `MainViewModel` (two probes), theme and language selection, the resource monitor and the HUD, the downloads screen (a placeholder), icons, notes and colours of an instance, Java versions, and how anything is drawn. A launch that fails, since the simulated executor never does.
* Whole components: those marked – above, with the reason in `PROJECT.json`. Text formats, tables, cryptography, packaged binaries and third-party trees stay out for good.

## 8. Plan

Done, in this order: download core and its proofs; bus and jobs; game process; batch; network and cache; AWT bridge; accounts; runtime supply; versions, plan, command and launch; diagnosis and report; mods; plugins; pools; network client with DNS; account screen, layout editor and instances; proofs for cache, pools, supply, accounts (keys), process and batch; lemmas on subsequences; proofs for bus and jobs, accounts (answers and tokens), the flow of lines and the crash report, network client with DNS, plugins; proofs for the AWT bridge; proofs for the screens; proofs for the launch; proofs for the mods.

Left, most important first:

1. **Two installs of one home**, once the app runs them at the same time.
2. **The launch of the app over the real engine**, once it replaces the simulated executor.
