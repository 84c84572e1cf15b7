# A TLA+ development of procherd

`procherd` starts long-running commands, watches over them and reports on them.
There is no daemon: every run has a detached *supervisor* process of its own,
and all other commands (`start`, `status`, `wait`, `stop`, `gc`, ...) are short
processes that meet the supervisor only in the files of the run's directory and
in the locks on them. Nearly everything that can go wrong lies between these
processes, which is what these modules are about.

Paths below are relative to the repository: `src/` is its Rust source, `docs/`
its documents, `tests/` its tests.

## 1. The system

### Components

| Component | Source | State it keeps | Operations |
|---|---|---|---|
| Supervisor | `src/supervisor.rs` | its own `RunState`, the `OwnedChild` guard, `Option<Stopping>`, the deadlines; durably `state.json` and `supervisor.lock` | launch, claim the run, acquire leases, spawn, supervise (drain, control, reap), stop, finish, fail |
| Run commands | `src/cli.rs` | none; loops around observations | `start`, `status`, `list`, `wait`, `stop`, `logs`, `gc`, `doctor` |
| Observation | `cli.rs` `observe_state_and_activity`, `store.rs` `supervisor_active`, `model.rs` `RunView` | the pair of a state read and a lock probe | observe, classify as orphaned or settled |
| Run store | `src/store.rs` | the state root: one directory per run with `spec.json`, `state.json`, `owner.token`, `stop.request.json`, `logs.ndjson` | create, load, save, request a stop, remove |
| Port leases | `src/leases.rs` | `port-leases.json` under `port-leases.lock`, shared by all runs of a state root; listeners | reserve, hand off, release, prune |
| Log capture | `src/logs.rs`, drain functions of `supervisor.rs` | two reader threads, a channel of 64 chunks, `LogWriter`'s cursor, budget and digests, `logs.ndjson` | append, snapshot, finish, read |
| Readiness | `src/readiness.rs` | the checks' evidence, the tail of each stream, the probe in turn, a deadline | observe a chunk, poll, settle at the child's exit |
| Documents | `src/model.rs` | the shapes of `RunSpec`, `RunState` and the answers | serialisation |
| Windows launch, errors, hex, entry points | `src/windows_detach.rs`, `error.rs`, `hex.rs`, `lib.rs`, `main.rs` | none | - |

### How they interact

`start` creates the directory with `state.json` in status `created`, spawns the
supervisor, and watches `state.json` and the lock until the run has got past its
startup. The supervisor holds `supervisor.lock` from its first step to its last;
while it does, only it writes `state.json`. A command that finds the lock free
concludes that no supervisor is there; to find out it *takes* the lock for a
moment, so probes disturb each other and may delay the supervisor. A stop is a
file that the supervisor polls for. Supervisors meet each other only in the
registry of port leases, where they judge by each other's locks whether an
entry is stale. The child is the leader of a process group (a job on Windows);
descendants may stay in it or leave it, and keep the output pipes open.

### What is hard

* the order of durable writes, signals, lease releases and the lock's release on
  the many error paths of `supervise_locked`, which end in destructors;
* observations that are not atomic: state, then lock, then perhaps state again;
* crashes of the supervisor between any two steps, with a child that survives it;
* the child ending by itself while a stop, a runtime limit or a grace period is
  under way, and descendants that outlive the leader;
* a registry written by several processes, with ports that are bound by nobody
  between the handoff and the child's own `bind`;
* backpressure: output must neither starve control nor be lost silently.

`PROJECT.json` lists each of these as a hazard at the line where it bites, with
the properties that watch it, or the reason why none does yet.

### What makes each component correct

* *Supervisor*: a terminal state is final; it is not recorded over a live process
  group; ports are given back, but not before the group is killed; a live status
  without a supervisor is a fault's doing; grace periods are respected and every
  stop and limit leads to the end.
* *Commands*: what they answer is true of the run (ended, orphaned, ready,
  started), and what they ask for happens.
* *Store*: `gc` removes only what is over, and all of it; a directory that is being
  created or deleted by somebody else is never taken for a run that may go.
* *Port leases*: no port is given to two active runs; the registry names what is
  held, and nobody waits for ever.
* *Log capture*: cursors are dense, the budget counts every byte once, a reader
  never sees beyond the committed boundary and never misses a committed record.
* *Readiness*: ready only when all checks hold, by bytes that were retained;
  decided at the latest at the deadline or the child's exit.

## 2. The modules

| Module | What it is | Relation |
|---|---|---|
| `RunContract` | the abstract protocol of a run's status and lock | implemented by `Supervisor`, by `ProcHerd`, and for each run by `RunStore` |
| `Supervisor` | the supervisor, its process tree, the clock; other processes as an environment | instantiates `RunContract` |
| `SupervisorProofs` | theorems about `Supervisor` | extends it |
| `ProcHerd` | the supervisor together with commands | extends `Supervisor`, implements its environment |
| `ProcHerdProofs` | theorems about `ProcHerd` | extends it and `SupervisorProofs` |
| `LeaseContract` | abstract: each run's ports, as the registry lists them | implemented by `PortLeases` |
| `PortLeases` | the lease registry and the supervisors of several runs around it | instantiates `LeaseContract` |
| `PortLeasesProofs` | theorems about `PortLeases` | extends it |
| `LogContract` | abstract: an append-only log, its committed boundary, a reader that follows it | implemented by `LogCapture` and `Monitoring` |
| `LogCapture` | reader threads, channel, `LogWriter`, the supervisor's loop as far as it concerns output, a `procherd logs` that pages through the file | instantiates `LogContract` |
| `LogCaptureProofs` | theorems about `LogCapture` | extends it |
| `Readiness` | the operations of `ReadinessTracker`, and the services it probes | called by `Monitoring` |
| `Monitoring` | the loop of the supervisor with both: what it records it also looks at | extends `LogCapture`, instantiates `Readiness` |
| `MonitoringProofs` | theorems about `Monitoring`: it implements `LogCapture`, what it retains, completes and takes for evidence | extends it and `LogCaptureProofs` |
| `SequenceLemmas` | facts about numbers and sequences for proofs | extended by `LogCaptureProofs` |
| `RunStore` | the state root: several runs being created, supervised, scanned and deleted by several commands | instantiates `RunContract` for each run |
| `RunStoreProofs` | theorems about `RunStore` | extends it |
| `MCSupervisor`, `MCProcHerd`, `MCPortLeases`, `MCMonitoring`, `MCRunStore` | instances for TLC | one per component |

### RunContract

A run's status as `state.json` shows it and the life of its lock: `pending` until
the supervisor takes it, `held`, `done`. A live status advances
`created` -> `starting` -> `running` -> `stopping`; `exited` follows only a
durable `running`, `stopped` only a durable `stopping`, `failed` any of them;
terminal statuses stay. `GiveUpLock` may leave a live status behind (an orphan);
which faults it takes is the business of `OrphanOnlyByFault`.

### LeaseContract and LogContract

`LeaseContract` knows of a run only whether it waits for its ports, is active or is
over. `Grant` lists all its ports in one step, none of them listed for anybody else,
and may with that drop entries, some or all, of runs that are over; `Withdraw` is such
a run taking back its own, all of them. `PortLeases` needs many
steps for each, under a lock, with copies, probes, failures and crashes in between;
its `Listed` is what the registry's file says.

`LogContract` is a sequence of records that only grows, numbered from 1, and a
boundary that moves to its end (`Commit`) until the log is complete or abandoned. A
reader has, after each page, the records it asked for up to its cursor, all of them
committed; only an abandoned log may be refused. In `LogCapture`, `records` is
`logs.ndjson` and `boundary` the `next_cursor` in `state.json`; chunks, channel,
budget, torn lines and the writer's own summary have no counterpart.

### Supervisor

One action is one step between two points at which another process can see or
disturb the supervisor. The program counter `pc` names the point reached in the
code:

| `pc` | In `supervisor.rs` |
|---|---|
| `absent`, `launched` | before and after `launch`; blocked on `open_supervisor_lock` (store.rs) |
| `claim` | `read_spec`, `read_state`, removal of `spec.json`, `Starting` recorded |
| `acquire`, `record_leases` | `LeaseAllocation::acquire` and the write that follows |
| `spawn`, `record_running` | handoff and spawn under `OwnedChild`; the write of `running` |
| `release_unspawned`, `record_unspawned` | the spawn failed |
| `drain` | `drain_log_batch`, readiness poll |
| `control`, `confirm` | `read_stop_request` (the read, then `!path.exists()`), runtime limit, force after the grace period |
| `record_stopping`, `record_force` | the writes after a signal |
| `reap` | `try_wait`; the periodic snapshot |
| `drain_closed`, `release`, `record_final` | `drain_until_closed`, `release`, the final state |
| `unwind`, `unwind_leases`, `mark` | an error: `OwnedChild::drop`, `LeaseAllocation::drop`, `mark_supervisor_failed` |
| `unlock`, `gone` | the process ends and the lock goes |

`durable` is `state.json`, `mem` the supervisor's own copy: both are a `RunState`
cut down to the fields on which control or evidence depends (`reason`,
`failure`, whether `pid` is recorded, `readiness`, a stamp that stands for all
leases, and the flags `limited`, `forced`, `swept` for
`runtime_limit_triggered_at_ms`, `force_used`, `descendant_cleanup_triggered`).
`tree` is the child's process tree: its leader, whether other members of its
group live, whether a descendant has escaped, whether the group has been sent
the kill, and whether the system refuses signals to it. Log contents and
readiness probes appear as the outcomes the loop acts on. Time is two Booleans:
the runtime deadline has passed, the grace period has passed. `ending` and `err`
are history, respectively the error on its way out.

What other processes do is `Environment`: they ask for a stop, probe the lock, and
prune (`PruneEntries`): another run that reserves ports drops this run's entries when
it finds nobody behind the lock, also if the group lives on as an orphan. So what
`registry` owes the group ends with the supervisor's lock. `PruneEntries` asks that the
supervisor does not hold the lock; the probe that takes an error for a free lock is
the matter of `PortLeases` and `leases_probe`. On Windows the child is in a job, which
`start_kill` terminates as a whole; but the code wraps a plain `JobObject` and nothing
makes the job kill its members when its handle is closed, so `Crash` leaves `tree`
alone on both systems.

The constant `Faults` selects what may go wrong: `io` (any file operation, before
or after its effect; `try_wait` fails), `crash`, `denied` (signals refused),
`escape` (a descendant leaves the group). `Unix` selects the build. Constants
satisfy `ConstantsAssumption`: known fault kinds, a Boolean `Unix`, and observer
names different from the two other values of `lock`.

### ProcHerd

Extends `Supervisor` with commands, one per element of `Observers`; `Command` says
which command each is. A command reads the state, probes the lock (taking it if
it is free), gives it up, rereads a live state, then decides: `ReadState`,
`ProbeFree`/`ProbeHeld`, `Unprobe`, `RereadState` are `observe_state_and_activity`
and `supervisor_active`, `Orphaned` and `Settled` are the classification of
`RunView`, and the deciding actions (`StartAnswers`, `StartWatches`,
`StatusAnswers`, `WaitDecides`, `StopDecides`, ...) are the bodies of the loops
in `cli.rs`. A timeout may strike at any point where the code looks at the
clock. `gc` rechecks lock and state as `remove_terminal_run` does before the
directory is removed. What a view keeps of the state is what the decisions read.

### PortLeases

Several supervisors and the registry: `LockRegistry`, `LoadRegistry`, one
`PruneStale` per entry of the registry (each is a probe of its run's lock, and the
world goes on in between, so of a run whose supervisor goes meanwhile one entry may
stay and another go), one `ReservePort` per name, `CommitEntries`; then
`Handoff`, `SpawnChild`, `EndRun`, `RemoveEntries`, `Exit`. Failures strike before
or after the registry is replaced; a failed release is tried again by
`LeaseAllocation::drop`. Children bind the ports they were given, orphans keep
them, other programs take any port that is free. Probing a lock that nobody
holds may still find it held, because somebody else probes it: then a stale
entry stays.

### LogCapture

`Capture` is one `read` of `spawn_reader` and the `send` that follows (a chunk that is
read but finds the channel full is as good as unread), `ReaderEnds` its end of file
or its error. `stage` is where the supervisor stands: `spawn` and `create` around
`LogWriter::create`, `drain` (`drain_available`, at most `Batch` chunks), `poll`
(readiness), `wait` (`try_wait`, and perhaps the periodic snapshot), `close`
(`drain_until_closed`), `mark` (`mark_supervisor_failed`). Recording a chunk has two
steps: `BeginRecord` takes it from the channel and may leave an incomplete line in
the file (`torn`), `FlushRecord` completes line and summary. `summary` is the
writer's own, `durable.logs` the one in `state.json`, which the supervisor writes in
`StillRunning` (or not), in `Finish`, and never in `MarkFailed`. `LookAtState` and
`ReadFile` are the two reads of `procherd logs`: the file may grow between them.
`Selected`, `HasMore`, `Page`, `NextAfter` and `Damaged` are the loop of `read_logs`.

### Readiness and Monitoring

`ObserveLog`, `PollDue`/`PollEarly`, `Probe`, `ProcessExited` are the methods of
`ReadinessTracker`; a log check is a literal (a sequence of bytes), any other check a
service that would answer now or not (`serving`). `Monitoring` puts them where the
supervisor calls them: `RecordChunk` shows readiness exactly the bytes that the
budget lets through, `PollReadiness` polls and publishes, `FinishRun` settles the
verdict before the final state. `published` is the readiness in `state.json`.

### RunStore

Runs are numbered in the order of their ULIDs, which is the order of `list_run_ids`.
`CreateDir` to `FillState` are the steps of `Store::create_run` (its other files are
read by no scan); `state.json` is created in place by `write_new_json`, so for a
moment it is there and incomplete. `ListRunIds`, `ReadState`, `Probe`,
`ProbeDisturbed`, `ReloadState`, `DeleteFile`, `RemoveDir` are a scan by `list` or
`gc`: for each run it reads the state, probes the lock, rereads a live state, and a
`gc` rechecks lock and state (`remove_terminal_run`) before the files go one by one.
The first run that cannot be read ends the scan, with the error that the code
returns. `ProbeDisturbed` is the probe that finds another probe's lock: the run
looks active, and a `gc` that has already chosen it answers `gc_live_run`.
`due` and `abandoned` are history.

## 3. The runs

Every invariant, action property and liveness property of a passing run has a
mutant in `PROJECT.json`: a seeded fault (the definitions named `X_Y`, next to the
definition `X` they vary) with which TLC finds the property violated.

| Run | Instance | Shows |
|---|---|---|
| `supervisor_unix` | all faults, one prober | the type invariant, the inductive invariant, every safety property and the refinement of `RunContract` on Unix; a stop ends for the reason it was announced with; a stop request and a passed runtime limit lead to the supervisor's exit, and a terminal state to the end of the group |
| `procherd_commands` | a `start` together with a `stop`, a `status`, a `wait` for each condition, or a `wait --for exit` and a `gc`; crashes, and failing files beside the `stop` | answers are true; readiness once reported stays on record; only ended runs are removed; the commands stay within the environment that `Supervisor` assumes (`RunIsSupervised`) |
| `procherd_live` | a `start` and a `stop`, crashes | a start that gave up waiting leaves no run behind |
| `leases_two` | two runs, one with two ports, `io` and crashes | exclusive ports, a truthful registry, partial reservations, failing releases; the registry implements `LeaseContract`; updates of it end |
| `monitoring` | two streams, all faults, with a client or with checks | log capture implements `LogContract`; what is retained, summarised, paged through and taken for evidence agrees; verdicts are final; output moves on, readiness is decided |
| `store` | a run that is under way and one that is started, a `gc` beside a `list` or a `gc`, all faults | nothing is deleted too early; a `gc` that succeeds has done its work; without faults that leave something behind, repeated `gc`s clear the root and every scan succeeds in the end |

### Runs that find a violation

| Run | The code | The document |
|---|---|---|
| `procherd_late_orphan` | `start`'s first read says `created`, its probe comes before the supervisor takes the lock, its second read says `running`: it answers `supervisor_exit` for a run that goes on (with a terminal second read it reports an end while the supervisor still runs) | `docs/ARCHITECTURE.md`, observation |
| `supervisor_readiness` | a drain that times out skips `process_exited`: readiness stays `pending` | `docs/READINESS-AND-LEASES.md` |
| `supervisor_graceful` | a stop request that appears between the failed read and `path.exists()` is an error: the group is killed without grace and the run is `failed` | `docs/ARCHITECTURE.md`, process ownership |
| `logs_unreadable` | a drain that times out has flushed records that the last snapshot does not count; the failed state keeps that snapshot, and `read_logs` takes the records beyond it for damage | `docs/CONTRACT.md`, logs |
| `supervisor_windows` | a supervisor that is killed leaves the job's processes running: `supervisor.rs:130` wraps a plain `JobObject`, and neither code nor `Cargo.toml` asks for a job that kills on close | `docs/PLATFORM-SUPPORT.md`, guarantees; `docs/ARCHITECTURE.md`, process ownership |
| `leases_probe` | a lock file that cannot be opened counts as free, so an active run's entries are pruned and its port is leased again | `docs/READINESS-AND-LEASES.md`, named ports |

The passing runs state the same properties with the premise under which the code
keeps them: `OrphanAnswersAreTrue` and `EndAnswersAreSettled` ask that the first
read already showed a run past `created`; `EndIsComplete` asks for an orderly end of
the run; `OnlyFailedRunsLookDamaged` lets a failed run's log look damaged;
`GraceRespected` excepts a supervisor that is failing; `NoLiveTreeAtTerminal` lets a
failure be recorded over a group that the system refuses to signal (no run is `exited`
or `stopped` over one); `PortsOutliveTree` speaks of a supervisor that holds its lock,
since once it has gone anybody may prune; `leases_two` has no `probe`
among its faults.

### Bounds

* The passing run of `Supervisor` is a Unix one, where a stop has a grace period. Windows,
  where it kills at once, has fewer behaviours and is covered by the theorems of
  section 4, which hold for both values of `Unix`.
* One prober suffices for `Supervisor`: a second would find the lock held, which
  the first can bring about as well, and nothing counts probers.
* `ProcHerd` runs have two or three commands at a time (`Together` in `MCProcHerd`; an
  initial state says which are given), each once; a command's answer depends on
  one observation at a time, and two commands are enough for one to disturb the
  other's probe. The runs have no port leases (`PortLeases` has them, and
  `supervisor_unix` has their effect on the supervisor, where alone `PruneEntries` has
  something to drop), no descendants
  (`NoDescendants`) and, in `procherd_commands`, no runtime limit (`NoLimit`) and no
  failing files but beside a `stop` (`FilesWork`): commands see neither the process
  tree nor why a run ends, and `supervisor_*` explores all of that without bound.
  `procherd_live` is bounded by `NoDescendants` too; it says nothing of runs that
  fork, whose end the liveness properties of `supervisor_unix` cover.
* `PortLeases` runs each run once, as in the code (a run identifier is never reused).
  Of two runs one may have crashed and be pruned by the other, or compete for its
  ports; two ports for one run make a reservation that fails half way; ports that
  other programs take make refusal and reuse happen. `Wanted` stands for the list of
  names, and the 128 attempts for "all attempts hit a listed port".
* `monitoring`: the child writes `aab` and `b`, or `b` alone, with a budget of three
  bytes, chunks of one or two, a channel of two and batches of one: literals are cut
  by chunks, by the budget and across the streams, the budget ends inside a chunk,
  the channel is full while the supervisor polls, and a page (one record) ends
  before the next record of the stream. A client and checks do not meet in one
  behaviour (`Followed`, `Checked`): neither reads what the other writes.
* `store`: the second run starts with the scans already going; the first is
  running when they begin, ends, grows old and is deleted. Of two commands the first
  is a `gc` (two lists only read). A scan of two runs has a current run and one to
  come, which is what the order of a scan is about.
* Runs of the lease model with a third run would add one that prunes for two others;
  the theorems of section 4 cover any number.
* No symmetry is used.
* Deadlock is not checked, except in `store`, whose commands are given again and
  again: a run that is over is the end of the other models.

### Fairness

* `WF(SupervisorStep)`: a supervisor that can step does. Its loop sleeps a bounded
  time and waits for nobody; the drain has a timeout.
* `SF(AcquireLock)`: the supervisor waits in a blocking `lock`, and probers hold the
  lock only for a moment, so it is free again and again. Weak fairness would let a
  prober take it every time; the kernel queues waiters.
* `WF(GracePasses)`: time passes. There is no fairness on the runtime limit, which a
  run need not have, none on the child's exit, and none on commands being called.
* `WF(killed /\ LeaderExits)`, `WF(killed /\ GroupExits)`: a process that got a
  forced kill dies. A process that got only the graceful signal may ignore it.
* `WF(UnprobeLock)`, `WF(ClientStep)`: commands go on.
* `PortLeases`: `WF` of what the registry lock's holder does, `SF(LockRegistry)` for
  the same reason as above, `WF(Exit)`. Nothing makes a child end.
* `Monitoring`: `WF(LoopSteps)` (the supervisor goes on, it waits for nobody and the
  last drain has a timeout), `SF` of a poll that is due (250 ms pass again and again
  between two polls of a loop that sleeps). The child need not write, end or close
  its pipes, services need not answer, the deadline need not exist; faults need not
  stop, so `OutputMovesOn` and `ReadinessIsDecided` allow the end of the supervisor.
* `RunStore`: `WF` of each start, supervisor and clock step and of each command, which
  is given again and again (an assumption about the user, not the code), and `SF` of
  the undisturbed probe: two scans do not meet at the same run every time.

## 4. The proofs

Every invariant and every action property of section 3 that a run expects to hold is
stated by a theorem here; what stays with TLC alone is named at the end.

`SupervisorProofs` holds, for every set of observers, every set of faults and both
builds (assumption: `ConstantsAssumption`):

| Theorem | States |
|---|---|
| `TypeCorrect` | `SafeSpec => []TypeOK` |
| `SupervisionCorrect` | `SafeSpec => [](TypeOK /\ SupervisionInv)` |
| `NoLiveTree` | `[]NoLiveTreeAtTerminal` |
| `PortsReleased` | `[]ReleasedAtTerminal` |
| `PortsHeldLongEnough` | `[]PortsOutliveTree`, with other runs pruning |
| `TerminalStays` | `TerminalIsFinal` |
| `OrphansComeFromFaults` | `[]OrphanOnlyByFault` |
| `CauseIsKept` | `CauseStands` |
| `KillsAreRecorded` | `[]KillIsRecorded` |
| `GraceIsRespected` | `[]GraceRespected` |
| `SupervisorKeepsContract` | `SafeSpec => ContractSpec`, the refinement of `RunContract` |

None of the properties is inductive: whether the failure path may record a
terminal state depends on whether the guard was dropped first, which depends on
where the supervisor stands and what it has in memory. `SupervisionInv` says for
every program point what the code takes for granted there. Its parts are
`LockInv` (who holds the lock), `DurableInv` (what `state.json` says), `MemInv` (what
the supervisor believes), `TreeInv` (when the guard is armed, and that a tree
without a guard is dead, killed or out of reach, and never out of reach under a run that
`exited` or `stopped`), `LeaseInv` (registry against
stamps), `EndingInv` (how one gets to the end). Each has a lemma `...Step` with one
step per action of `Next`, and they use each other only where the statement of the
lemma says so: `TreeInv` and `LeaseInv` rest on `DurableInv` and `MemInv`, for
instance. `PortsOutliveTree` is inductive relative to `SupervisionInv`
(`PortsStep`), of which it needs `LockInv`: a step that gives the entries up under the
lock has the group killed before it, and `PruneEntries` does not step there.
`CauseInv` ties `limited`, in memory and on disk, to the reason kept in `stopping`, and
that to the final state about to be written (`CauseIsKept`). `EvidenceInv` follows the evidence of a kill from memory
to the disk, and relies on `SupervisionInv` for what is written when. The refinement maps each
action to a step of the contract or a stutter, using `DurableInv` and `LockInv` for the guards.

`PortLeasesProofs` holds for any runs, ports, numbers of leases and faults
(assumption: `PortLeasesAssumption`); those marked with a star also assume that
`probe` is not among the faults, without which `leases_probe` refutes them:

| Theorem | States |
|---|---|
| `LeasesTypeCorrect` | `SafeSpec => []TypeOK` |
| `RegistryCorrect` * | `SafeSpec => [](TypeOK /\ RegistryInv)` |
| `ExclusivePorts` * | `[]PortsAreExclusive` |
| `ListedPorts` * | `[]HeldPortsAreListed` |
| `ReleasedPorts` * | `[]ReleasedRunsAreUnlisted` |
| `PortsListedOnce` | `[]PortsAreListedOnce` |
| `HeldReservations` | `[]ReservedPortsAreHeld` |
| `ExclusiveUpdates` | `[]UpdatesAreExclusive` |
| `LeasesImplementContract` * | `SafeSpec => LeasesKeepContract`, the refinement of `LeaseContract` |

That two runs never have the same port cannot be seen from what they hold: it
follows from the file naming what each holds (`DiskInv`) and no port twice. The
file in turn is replaced by the copy that the lock's holder works on, so
`SeenInv` says how far that copy may be from the file while others go on: it has
the holder's new ports besides, and of other runs it may only lack entries, those
of runs that no longer have their own lock (`AliveInv`) and will never hold ports
again. `OwnerInv` keeps anybody else from writing the file meanwhile, and
`ListenInv` ties the new ports to the listeners. Only the last step of pruning needs
the assumption on `probe`. `PortsListedOnce` has an invariant of its own (`TwoOnce`),
because it outlives a wrong pruning. The refinement needs no more: what `SeenInv` lets the
copy lack are entries of runs that are over, which is what `Grant` may drop. A step
either leaves the file (`UnwrittenStep`), replaces it by a copy with new ports
(`WrittenStep`, a `Grant`) or by one without those of a run that is over (`RemovedStep`).

`ProcHerdProofs` holds for any number of commands of any kind, all at the same time,
each at any of its steps, for every set of faults and both builds (assumptions:
`ConstantsAssumption`, and `CommandAssumption`: only one `start` creates the run):

| Theorem | States |
|---|---|
| `CommandsKeepToTheEnvironment` | `ProcHerdSafeSpec => RunIsSupervised`, that is `Supervisor`'s `SafeSpec` |
| `HerdKeepsContract` | `ProcHerdSafeSpec => ContractSpec`, the refinement of `RunContract` with commands around |
| `CommandsTypeCorrect` | `[]ClientTypeOK` |
| `CommandsCorrect` | `[](TypeOK /\ SupervisionInv /\ RecordedInv /\ ClientTypeOK /\ HerdInv)` |
| `OrphansAreOrphans` | `[]OrphanAnswersAreTrue` |
| `EndsAreSettled` | `[]EndAnswersAreSettled` |
| `StartsAreTrue` | `[]StartAnswersAreTrue` |
| `ReadyIsTrue` | `[]ReadyAnswersAreTrue` |
| `GcSparesOthers` | `[]GcRemovesOnlyEndedRuns` |

Each step of a command is a step of `Supervisor`'s environment or leaves its variables
alone, so `SupervisionInv` carries over. A command then compares things it read at
different times. That this is sound rests on two facts. What it read stays so
(`StepsGoOnward`): a terminal state, a recorded process and a readiness verdict are
never taken back, a run never returns to `created`, nothing follows the
supervisor's exit. For this `RecordedInv` is needed, that `state.json` claims no more
than the supervisor has in memory, since the next write replaces it from there. And a
lock that is free once the run has left `created` is free for good (`FreeLock`, from
`LockInv` and `DurableInv`): before that the supervisor may still be on its way, which is
why `OrphanAnswersAreTrue` and `EndAnswersAreSettled` ask that the first read showed more
than `created`, and what `procherd_late_orphan` refutes without. `HerdInv` says of each
command what its view still guarantees (`ViewInv`), what a free lock meant
(`InactiveInv`), what a settling `stop` and a `gc` past its recheck rely on (`EndedInv`)
and what has been answered (`AnswerInv`), true when given and ever after. The lemmas
follow the commands' loops: observation, `start`, `status` and `wait`, `stop`, `gc`; for
all other commands and the supervisor, `CommandKept` needs `Onward` alone.

`LogCaptureProofs` holds for any outputs, retention budget, channel, batch, chunk and
page size and any faults (assumption: `LogCaptureAssumption`):

| Theorem | States |
|---|---|
| `RecordingTypeCorrect` | `LogSpec => []RecordingTypeOK`; the channel never exceeds its capacity |
| `RecordingInvariant` | `LogSpec => []RecordingInv` |
| `SummaryIsAlwaysWritten` | `[]SummaryIsWritten` |
| `DamageMeansFailure` | `[]OnlyFailedRunsLookDamaged` |
| `LogTypeCorrect` | `[]LogTypeOK`, the client's pages included |
| `PagesFollowTheLog` | `[]ReadersFollowTheLog` |
| `CaptureKeepsContract` | `LogSpec => LogKeepsContract`, the refinement of `LogContract` |

`RecordingInv` is `FileInv` (the file is numbered from 1, the writer's summary counts
exactly its records until an error, the durable one never more), `StageInv` (what
the supervisor's place says of status, file and chunk in hand), `EndInv` (an orderly
end covers the whole file) and `ViewInv` (a client's view of an orderly end is still
the state of the run). That a reader reports damage only of a failed run needs all
four: with an orderly end in view, neither torn line nor a later record can exist.
`RecordingInv` needs no more of the client's type than `ClientShape`.

That the pages a client has read are what the file holds up to its cursor speaks of all
of a file that grows meanwhile. `Between`, the records of a stream between two cursors,
is a flattening of one short sequence per record; `Follows` says how it grows when
the upper cursor moves on, and `NumberedFollows` shows it for every file that is
numbered from 1. What is new in a page then follows what was read before, and what
another append adds lies beyond both.

The refinement of `LogContract` needs two facts more. `ServedInv`: the reader's cursor and
the boundary in the view it took are not beyond the durable one, and an end in its view
is still the status, so that a page filled from an old view and a newer file holds
nothing uncommitted. And `WantedIsBetween`: what the contract
calls the first `n` records that were asked for is `Between(file, ..., 0, n + 1)`, which
`ReadersFollowTheLog` gives. A record is an `Extend` when `FlushRecord` completes its
line; `StillRunning` and `Finish` commit; `MarkFailed` and `Crash` abandon what is left,
and only after these can `Damaged` hold (`OnlyFailedRunsLookDamaged`).

Such proofs are inductions over sequences. The library's induction theorems take an
operator, so `SequenceLemmas` states induction over the *set* of the numbers, or of the
sequences, of which something holds (`Induction`, `SequenceInduction`), and derives it
from the least element that a non-empty set of numbers has (`Least`), which is
`WFMin` of the library. A set is a value, and the provers can instantiate it.

`MonitoringProofs` shows first that every step of `Monitoring` is a step of `LogCapture`
or leaves it alone, and so carries over what is proved there. It holds for any outputs
and lists of checks, any budget, sizes and faults (assumptions: `LogCaptureAssumption`
and `MonitoringAssumption`: a log check is a sequence of bytes):

| Theorem | States |
|---|---|
| `MonitoringRecords` | `SafeSpec => LogSpec` |
| `MonitoringKeepsLogContract` | `SafeSpec => LogKeepsContract` |
| `MonitoredSummaryIsWritten`, `MonitoredDamageMeansFailure`, `MonitoredPagesFollowTheLog`, `MonitoredRetainedIsAPrefix` | the properties of `LogCapture`, of a supervisor with checks |
| `PublishedVerdictIsFinal` | `SafeSpec => VerdictIsFinal` |
| `RetainedIsAPrefix` | `LogSpec => []RetainedIsPrefix` |
| `MonitoringTypeCorrect` | `[]TypeOK` |
| `OrderlyEndIsComplete` | `[]EndIsComplete` |
| `EvidenceIsAlwaysRetained` | `[]EvidenceIsRetained` |

*Verdicts.* `PublishedInv` says that what is published of a verdict is what the tracker
has, `Tracked` that the tracker never leaves a verdict.

*Retention.* What a reader thread took from a stream is either on the way (`Unrecorded`:
in the supervisor's hands or in the channel) or done with (`Done`: recorded or dropped).
`BudgetInv` says, until the supervisor fails, that what is on the way are the bytes of the
output that follow those done with, that a stream has as many bytes retained as
done with unless the budget is used up, and that the summary's two counts add up to
that over both streams. `PrefixInv`, that what is retained of a stream are its first
bytes, is what is left of this after a failure. An end is orderly only by `FinishRun`
(`OnlyFinishRunEnds`), after which nothing changes (`GoneSteps`); there the channel is
empty and the readers have closed, hence read everything (`ReaderInv`), and the counts
cover the whole output.

*Evidence.* `EvidenceInv` says that a log check that has passed occurs in what was shown
of a stream, and `TailInv`, while the verdict is open, that one that has not passed
does not, and that the tail kept for the next chunk is an end of what was shown, at least
as long as the literal without its last byte, or all of it. A literal that appears
with a chunk but was not there before must then lie within tail and chunk
(`OccursAcross`), so cutting the stream loses none; what occurs in the tail occurs in
the stream (`OccursInEnd`) and goes on occurring as it grows (`OccursLonger`).
`TailIsLongEnough` is the computation of the tail's length over the checks still
open. What is shown of a stream is what is retained, and `PublishedEvidence` keeps that
for what `state.json` has said, also when the supervisor fails later. `NextCheckExists`
shows that the search for the next probe finds one.

`RunStoreProofs` holds for any number of runs and of commands and any faults
(assumption: `RunStoreAssumption`; that sets of runs have a newest one says that
there are finitely many):

| Theorem | States |
|---|---|
| `StoreTypeCorrect` | `SafeSpec => []TypeOK` |
| `StoreCorrect` | `SafeSpec => [](TypeOK /\ StoreInv)` |
| `OnlyOldRunsDeleted` | `DeletesOnlyOldRuns` |
| `ThoroughGc` | `[]GcIsThorough` |
| `StoreKeepsContracts` | `SafeSpec => RunsKeepContract`: `RunContract` for each run |

`StoreInv` carries what a `gc` found out at one step to the step that relies on it:
a run that is `Past` stays so, whatever others do, because nobody starts or
supervises a run whose end is on record (`RunInv`); from the recheck on the current
run is past, from the reload on its lock is free (`ScanInv`); what is due is still
ahead of the scan, and would be recognised (`DueInv`). `TypeOK` itself needs `ScanInv`:
a directory must not vanish under a start. Each scan step is first cut down to what
it means for the scan (`Progress`: begins, reads, fails, finds, moves on, ...), so that the
invariant has one case per kind and not one per branch of the code.

`RunStore` knows a run's status only as live or ended, so `StoreKeepsContracts` reads
every live status as `created` and every end as `failed`. What it says is about the
order of things between commands and runs: a run whose document is gone counts as
ended only if nobody holds or will take its lock (`Status`), so that the deletion of
anything else would be a step that `RunContract` does not have, and the deletions
that `gc` does make are no steps of the run at all. It needs `LiveInv`: a document is
there, and live, from before the launch until the end is recorded.

What TLC checks and TLAPS does not are the liveness properties (`StopSettles`,
`TerminalIsQuiet`, `GivenUpStartsEnd`, `OutputMovesOn`, `ReadinessIsDecided`, `UpdatesEnd`,
`GcCatchesUp`): fairness and `ENABLED` are beyond the prover. They hold of the instances
of section 3.

Theorems whose property no run checks are the invariants behind the others
(`RegistryCorrect`, `RecordingInvariant` and `RecordingTypeCorrect`, `LogTypeCorrect`,
`CommandsCorrect`, `StoreCorrect`, `MonitoringRecords`, `LeasesTypeCorrect`), speak of
formulas that are part of those the runs check or follow from them (`PortsListedOnce`,
`HeldReservations`, `ExclusiveUpdates`, `SummaryIsAlwaysWritten` and
`MonitoredSummaryIsWritten`), or quantify over the runs of a temporal formula, which TLC
does not take (`StoreKeepsContracts`).

## 5. What is not modelled

* Option parsing and validation, `doctor`, `schema`, completions, rendering, the
  Windows command line and Win32 calls, error values, hexadecimal: no state and no
  order of events.
* The digests, encodings and line lengths of the log; `finish` reads the same bytes
  that `read_logs` does. The parsing of addresses, URLs and HTTP status lines:
  a probe succeeds or not. Port checks are TCP checks before the tracker sees them.
* Ownership tokens, permissions, symbolic links, document limits and the validation
  of fields: they guard against a state root that other programs write to.
* Data of a lease other than its port: names, environment, placeholders, temporary
  directories.
* Age in `RunStore` is a single step from ended to old; a `gc` measures it from its own
  start, so with a minimal age above zero the code deletes less than the model.
* Power loss: `docs/ARCHITECTURE.md` puts it outside the transactional boundary.
* Scheduling finer than the steps above. `state.json` is replaced by a rename, so
  reading it is one step, except for the very first write: `create_run` creates it in
  place, which `RunStore` has in two steps although `docs/ARCHITECTURE.md` calls JSON
  state writes atomic replacements. `ProcHerd` begins after that: `start` alone knows
  the run's name by then.
* A child that the supervisor spawned and could not record before it was killed:
  nothing in the state root names it, so no property could.

## 6. Plan

Done: all components with state and order of events; abstract specifications of a
run, its leases and its log, each implemented by the detailed module; proofs of every
safety invariant, action property and refinement that a run checks. Possible next
steps:

1. An abstract specification of what a single command promises, implemented by each
   element of `Observers` in `ProcHerd`.
2. Shorter proofs of `MonitoringProofs`: the lemmas about occurrences of a literal would
   serve any log with a tail.
