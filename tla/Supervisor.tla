----------------------------- MODULE Supervisor -----------------------------
(***************************************************************************)
(* The detached supervisor of one run (src/supervisor.rs), from its launch *)
(* to the release of supervisor.lock, with the process tree it owns, the   *)
(* durable state.json that every other command reads, the stop request it  *)
(* polls for, and its entries in the port-lease registry.                  *)
(*                                                                         *)
(* One action is one step of the supervisor between two points at which    *)
(* another process can see or disturb it: a durable write, a registry      *)
(* update, a signal, a poll of the stop request or of the child.  A crash  *)
(* can happen between any two of them.  Time appears only as "the runtime  *)
(* deadline has passed" and "the grace period has passed"; log contents    *)
(* and readiness probes appear as the outcomes the loop acts on.           *)
(***************************************************************************)

CONSTANTS
  Observers,  \* processes that may probe supervisor.lock
  Unix,       \* TRUE: cfg!(unix), a graceful signal exists; FALSE: Windows
  Faults      \* what the environment may do wrong: see FaultKinds

(* "io":     a file operation of the supervisor or its launch fails         *)
(* "crash":  the supervisor process is killed                               *)
(* "denied": the operating system refuses to signal the child               *)
(* "escape": a descendant leaves the process group, keeping the pipes open  *)
FaultKinds == {"io", "crash", "denied", "escape"}

ASSUME ConstantsAssumption ==
  /\ Unix \in BOOLEAN
  /\ Faults \subseteq FaultKinds
  /\ Observers \cap {"free", "supervisor"} = {}

VARIABLES
  pc,         \* where the supervisor is
  err,        \* the AppError kind it is returning with
  ending,     \* history: how the supervisor went away
  lock,       \* the holder of supervisor.lock
  durable,    \* state.json
  mem,        \* the supervisor's own RunState
  stopFile,   \* stop.request.json is there
  stopping,   \* the loop's Option<Stopping>: its reason, or "none"
  forceSent,  \* Stopping::force_sent
  graceDue,   \* Instant::now() >= Stopping::deadline
  limitDue,   \* now_ms() >= runtime_deadline_at_ms
  tree,       \* the child's process tree
  armed,      \* OwnedChild still holds the child
  registry    \* port-leases.json has entries of this run

supVars == <<pc, err, ending, lock, durable, mem, stopFile, stopping,
             forceSent, graceDue, limitDue, tree, armed, registry>>

-----------------------------------------------------------------------------
LiveStatuses == {"created", "starting", "running", "stopping"}
TerminalStatuses == {"exited", "failed", "stopped"}

IsLive(s) == s.status \in LiveStatuses
IsTerminal(s) == s.status \in TerminalStatuses

StopReasons == {"stop_requested", "runtime_limit"}
ReadinessStatuses ==
  {"not_configured", "pending", "ready", "timed_out", "failed"}
ErrorKinds == {"io", "port_lease", "process_spawn", "log_drain_timeout"}

(* RunState, cut down to what the lifecycle and its evidence depend on:     *)
(* reason and failure are exit.reason and failure.kind, pid says that       *)
(* process_pid is recorded, lease is the stamp of every requested lease,    *)
(* limited, forced and swept are runtime_limit_triggered_at_ms, force_used  *)
(* and descendant_cleanup_triggered.                                        *)
RunStates ==
  [status    : LiveStatuses \cup TerminalStatuses,
   reason    : StopReasons \cup
                 {"none", "process_exited", "spawn_failed", "supervisor_failed"},
   failure   : ErrorKinds \cup {"none", "supervisor_launch"},
   pid       : BOOLEAN,
   readiness : ReadinessStatuses,
   lease     : {"none", "requested", "acquired", "released"},
   limited   : BOOLEAN,
   forced    : BOOLEAN,
   swept     : BOOLEAN]

(* leader is the spawned process, group says that other members of its      *)
(* process group (or job) are alive, escaped that a descendant outside it   *)
(* is, killed that the group has received the forced kill, and denied that  *)
(* the operating system refuses every signal to it.                         *)
Trees ==
  [leader  : {"none", "running", "exited", "reaped"},
   group   : BOOLEAN,
   escaped : BOOLEAN,
   killed  : BOOLEAN,
   denied  : BOOLEAN]

(* Seeded fault: after the final state the lock is not given up. *)
AfterRecord_Lingers ==
  [record_leases   |-> "spawn",
   record_running  |-> "drain",
   record_stopping |-> "reap",
   record_force    |-> "reap",
   record_final    |-> "linger"]

(* The supervisor's recording steps, and where each one continues. *)
AfterRecord ==
  [record_leases   |-> "spawn",
   record_running  |-> "drain",
   record_stopping |-> "reap",
   record_force    |-> "reap",
   record_final    |-> "unlock"]

Recording == {"record_leases", "record_running", "record_stopping",
              "record_force", "record_final"}

PCs == Recording \cup
  {"absent", "launched", "claim", "acquire", "spawn", "release_unspawned",
   "record_unspawned", "drain", "control", "confirm", "reap",
   "drain_closed", "release", "unwind", "unwind_leases", "mark", "unlock", "gone"}

TypeOK ==
  /\ pc \in PCs
  /\ err \in ErrorKinds \cup {"none"}
  /\ ending \in {"none", "returned", "unmarked", "crashed", "never_ran"}
  /\ lock \in {"free", "supervisor"} \cup Observers
  /\ durable \in RunStates
  /\ mem \in RunStates
  /\ stopFile \in BOOLEAN
  /\ stopping \in StopReasons \cup {"none"}
  /\ forceSent \in BOOLEAN
  /\ graceDue \in BOOLEAN
  /\ limitDue \in BOOLEAN
  /\ tree \in Trees
  /\ armed \in BOOLEAN
  /\ registry \in BOOLEAN

-----------------------------------------------------------------------------
(* The process tree and the signals it gets. *)

NoTree == [leader |-> "none", group |-> FALSE, escaped |-> FALSE,
           killed |-> FALSE, denied |-> FALSE]

(* kill(-pgid) finds somebody: an exited leader that nobody has waited for  *)
(* still counts.                                                            *)
GroupExists(t) == t.leader \in {"running", "exited"} \/ t.group

(* Some process of the group still runs. *)
GroupRuns(t) == t.leader = "running" \/ t.group

(* start_kill_tolerant: an error when the signal is refused, TRUE when it   *)
(* was sent, FALSE when the group is gone.                                  *)
KillRefused(t) == GroupExists(t) /\ t.denied
KillSent(t) == GroupExists(t) /\ ~t.denied
Killed(t) == [t EXCEPT !.killed = @ \/ KillSent(t)]

(* Seeded fault: the error path skips mark_supervisor_failed. *)
Fail_Unmarked(kind) == pc' = "unlock" /\ err' = kind

(* A step returns an error: locals are dropped, the run is marked failed.   *)
Fail(kind) == pc' = "unwind" /\ err' = kind

(* persist_state: an atomic replacement, or an error and the old file.      *)
Persist(next) ==
  \/ durable' = mem' /\ pc' = next /\ UNCHANGED err
  \/ "io" \in Faults /\ UNCHANGED durable /\ Fail("io")

-----------------------------------------------------------------------------
(* cli::start has written the run directory: state.json says created.       *)
Init ==
  /\ pc = "absent" /\ err = "none" /\ ending = "none" /\ lock = "free"
  /\ durable \in
       {s \in RunStates :
          /\ s.status = "created" /\ s.reason = "none" /\ s.failure = "none"
          /\ s.readiness \in {"not_configured", "pending"}
          /\ s.lease \in {"none", "requested"}
          /\ ~s.pid /\ ~s.limited /\ ~s.forced /\ ~s.swept}
  /\ mem = durable
  /\ stopFile = FALSE /\ stopping = "none" /\ forceSent = FALSE
  /\ graceDue = FALSE /\ limitDue = FALSE
  /\ tree = NoTree /\ armed = FALSE /\ registry = FALSE

(* cli::start spawns the detached supervisor. *)
Launch ==
  /\ pc = "absent"
  /\ pc' = "launched"
  /\ UNCHANGED <<err, ending, lock, durable, mem, stopFile, stopping,
                 forceSent, graceDue, limitDue, tree, armed, registry>>

(* The spawn fails: start records that itself, and ignores a failed write.  *)
LaunchFails ==
  /\ pc = "absent" /\ "io" \in Faults
  /\ pc' = "gone" /\ ending' = "never_ran"
  /\ \/ durable' = [durable EXCEPT !.status = "failed",
                                   !.reason = "supervisor_failed",
                                   !.failure = "supervisor_launch"]
     \/ UNCHANGED durable
  /\ UNCHANGED <<err, lock, mem, stopFile, stopping, forceSent, graceDue,
                 limitDue, tree, armed, registry>>

(* Seeded fault: the lock is dropped as soon as it is obtained. *)
AcquireLock_Dropped ==
  /\ pc = "launched" /\ lock = "free"
  /\ pc' = "claim"
  /\ UNCHANGED <<err, ending, lock, durable, mem, stopFile, stopping, forceSent,
                 graceDue, limitDue, tree, armed, registry>>

(* The blocking lock of open_supervisor_lock. *)
AcquireLock ==
  /\ pc = "launched" /\ lock = "free"
  /\ lock' = "supervisor" /\ pc' = "claim"
  /\ UNCHANGED <<err, ending, durable, mem, stopFile, stopping, forceSent,
                 graceDue, limitDue, tree, armed, registry>>

(* open_supervisor_lock fails: supervise returns before it can mark the run. *)
LockError ==
  /\ pc = "launched" /\ "io" \in Faults
  /\ pc' = "gone" /\ ending' = "never_ran"
  /\ UNCHANGED <<err, lock, durable, mem, stopFile, stopping, forceSent,
                 graceDue, limitDue, tree, armed, registry>>

(* Read spec.json and state.json, remove spec.json, record Starting.        *)
ClaimRun ==
  /\ pc = "claim"
  /\ \/ mem' = [durable EXCEPT !.status = "starting"] /\ Persist("acquire")
     \/ "io" \in Faults /\ UNCHANGED <<mem, durable>> /\ Fail("io")
  /\ UNCHANGED <<ending, lock, stopFile, stopping, forceSent, graceDue,
                 limitDue, tree, armed, registry>>

(* LeaseAllocation::acquire: no free port, a failed file operation (before  *)
(* or after the registry was replaced), or entries and stamps for all.      *)
AcquireLeases ==
  /\ pc = "acquire"
  /\ \/ /\ registry' = (mem.lease = "requested")
        /\ mem' = [mem EXCEPT !.lease =
                     IF @ = "requested" THEN "acquired" ELSE @]
        /\ pc' = "record_leases" /\ UNCHANGED err
     \/ /\ mem.lease = "requested" /\ Fail("port_lease")
        /\ UNCHANGED <<mem, registry>>
     \/ /\ "io" \in Faults /\ Fail("io")
        /\ registry' \in {FALSE, mem.lease = "requested"}
        /\ UNCHANGED mem
  /\ UNCHANGED <<ending, lock, durable, stopFile, stopping, forceSent,
                 graceDue, limitDue, tree, armed>>

(* A persist_state on its own, in the order of AfterRecord. *)
RecordState ==
  /\ pc \in Recording
  /\ UNCHANGED <<ending, lock, mem, stopFile, stopping, forceSent, graceDue,
                 limitDue, tree, armed, registry>>
  /\ Persist(AfterRecord[pc])

(* The child starts as leader of its own group, under a guard that kills    *)
(* the group when it is dropped.                                            *)
SpawnChild ==
  /\ pc = "spawn"
  /\ \E refuses \in BOOLEAN :
       /\ refuses => "denied" \in Faults
       /\ tree' = [NoTree EXCEPT !.leader = "running", !.denied = refuses]
  /\ armed' = TRUE
  /\ mem' = [mem EXCEPT !.status = "running", !.pid = TRUE]
  /\ pc' = "record_running"
  /\ UNCHANGED <<err, ending, lock, durable, stopFile, stopping, forceSent,
                 graceDue, limitDue, registry>>

(* No such program, say: release the leases, record it, return the error.   *)
SpawnFails ==
  /\ pc = "spawn"
  /\ mem' = [mem EXCEPT !.status = "failed", !.reason = "spawn_failed",
                        !.failure = "process_spawn"]
  /\ pc' = "release_unspawned"
  /\ UNCHANGED <<err, ending, lock, durable, stopFile, stopping, forceSent,
                 graceDue, limitDue, tree, armed, registry>>

(* LeaseAllocation::release, and the stamps it leaves in memory. *)
LeaseReleased(s) ==
  [s EXCEPT !.lease = IF @ = "acquired" THEN "released" ELSE @]

Release(released, next) ==
  \/ /\ registry' = FALSE /\ mem' = released /\ pc' = next /\ UNCHANGED err
  \/ /\ "io" \in Faults /\ UNCHANGED <<registry, mem>> /\ Fail("io")

(* Seeded fault: the spawn failure is recorded with the ports still held. *)
ReleaseUnspawned_Skipped ==
  /\ pc = "release_unspawned"
  /\ pc' = "record_unspawned"
  /\ UNCHANGED <<err, ending, lock, durable, mem, stopFile, stopping,
                 forceSent, graceDue, limitDue, tree, armed, registry>>

ReleaseUnspawned ==
  /\ pc = "release_unspawned"
  /\ Release(LeaseReleased(mem), "record_unspawned")
  /\ UNCHANGED <<ending, lock, durable, stopFile, stopping, forceSent,
                 graceDue, limitDue, tree, armed>>

(* The spawn failure is recorded before the error is returned, so that      *)
(* mark_supervisor_failed finds a terminal state.                           *)
RecordUnspawned ==
  /\ pc = "record_unspawned"
  /\ \/ durable' = mem /\ Fail("process_spawn")
     \/ "io" \in Faults /\ UNCHANGED durable /\ Fail("io")
  /\ UNCHANGED <<ending, lock, mem, stopFile, stopping, forceSent, graceDue,
                 limitDue, tree, armed, registry>>

-----------------------------------------------------------------------------
(* The supervision loop: drain, control, reap. *)

(* Record the captured output, poll the readiness checks, and record a      *)
(* verdict as soon as there is one; the log file may fail to open or grow.  *)
Drain ==
  /\ pc = "drain"
  /\ \/ /\ mem.readiness = "pending"
        /\ \E r \in {"ready", "timed_out"} : mem' = [mem EXCEPT !.readiness = r]
        /\ Persist("control")
     \/ pc' = "control" /\ UNCHANGED <<err, durable, mem>>
     \/ "io" \in Faults /\ Fail("io") /\ UNCHANGED <<durable, mem>>
  /\ UNCHANGED <<ending, lock, stopFile, stopping, forceSent, graceDue,
                 limitDue, tree, armed, registry>>

(* Seeded fault: the stop begins without its persist_state. *)
BeginStopping_Unrecorded(reason) ==
  IF KillRefused(tree)
  THEN /\ Fail("io")
       /\ UNCHANGED <<mem, stopping, forceSent, tree>>
  ELSE /\ mem' = [mem EXCEPT !.status = "stopping", !.swept = TRUE,
                             !.forced = @ \/ ~Unix,
                             !.limited = (reason = "runtime_limit")]
       /\ stopping' = reason
       /\ forceSent' = ~Unix
       /\ tree' = IF Unix THEN tree ELSE Killed(tree)
       /\ pc' = "reap" /\ UNCHANGED err

(* request_stop with the status and evidence its callers set: a graceful    *)
(* signal and a grace period on Unix, a kill at once on Windows.  A refused *)
(* signal is an error.                                                      *)
BeginStopping(reason) ==
  IF KillRefused(tree)
  THEN /\ Fail("io")
       /\ UNCHANGED <<mem, stopping, forceSent, tree>>
  ELSE /\ mem' = [mem EXCEPT !.status = "stopping", !.swept = TRUE,
                             !.forced = @ \/ ~Unix,
                             !.limited = (reason = "runtime_limit")]
       /\ stopping' = reason
       /\ forceSent' = ~Unix
       /\ tree' = IF Unix THEN tree ELSE Killed(tree)
       /\ pc' = "record_stopping" /\ UNCHANGED err

(* read_stop_request consumes the file before the signal is sent. *)
TakeStopRequest ==
  /\ pc = "control" /\ stopping = "none" /\ stopFile
  /\ \/ stopFile' = FALSE /\ BeginStopping("stop_requested")
     \/ /\ "io" \in Faults /\ Fail("io")
        /\ UNCHANGED <<stopFile, mem, stopping, forceSent, tree>>
  /\ UNCHANGED <<ending, lock, durable, graceDue, limitDue, armed, registry>>

(* There is none: reading it fails, and then the path is looked up again.   *)
MissStopRequest ==
  /\ pc = "control" /\ stopping = "none" /\ ~stopFile
  /\ pc' = "confirm"
  /\ UNCHANGED <<err, ending, lock, durable, mem, stopFile, stopping,
                 forceSent, graceDue, limitDue, tree, armed, registry>>

(* If it is there by now, the failed read counts as an error after all.     *)
StopRequestAppears ==
  /\ pc = "confirm" /\ stopFile
  /\ Fail("io")
  /\ UNCHANGED <<ending, lock, durable, mem, stopFile, stopping, forceSent,
                 graceDue, limitDue, tree, armed, registry>>

(* Seeded fault: the runtime limit counts also when a stop is under way. *)
HitRuntimeLimit_Anytime ==
  /\ pc \in {"control", "confirm"} /\ limitDue /\ stopping # "runtime_limit"
  /\ BeginStopping("runtime_limit")
  /\ UNCHANGED <<ending, lock, durable, stopFile, graceDue, limitDue, armed,
                 registry>>

(* The runtime limit counts only if no stop request is there. *)
HitRuntimeLimit ==
  /\ pc = "confirm" /\ ~stopFile /\ limitDue
  /\ BeginStopping("runtime_limit")
  /\ UNCHANGED <<ending, lock, durable, stopFile, graceDue, limitDue, armed,
                 registry>>

(* Seeded faults: the force is sent at once, never for a runtime limit, or  *)
(* only when descendants are left.                                          *)
ForceDue_Early == stopping # "none" /\ ~forceSent
ForceDue_OnlyStops == stopping = "stop_requested" /\ ~forceSent /\ graceDue
ForceDue_OnlyGroups == stopping # "none" /\ ~forceSent /\ graceDue /\ tree.group

ForceDue == stopping # "none" /\ ~forceSent /\ graceDue

(* The grace period is over: kill whatever is left of the group.  That the  *)
(* force was used is noted even when nobody was left to receive it.         *)
ForceStop ==
  /\ pc = "control" /\ ForceDue
  /\ IF KillRefused(tree)
     THEN Fail("io") /\ UNCHANGED <<mem, forceSent, tree>>
     ELSE /\ tree' = Killed(tree)
          /\ mem' = [mem EXCEPT !.swept = @ \/ KillSent(tree), !.forced = TRUE]
          /\ forceSent' = TRUE
          /\ pc' = "record_force" /\ UNCHANGED err
  /\ UNCHANGED <<ending, lock, durable, stopFile, stopping, graceDue, limitDue,
                 armed, registry>>

NoControl ==
  /\ \/ pc = "control" /\ stopping # "none" /\ ~ForceDue
     \/ pc = "confirm" /\ ~stopFile /\ ~limitDue
  /\ pc' = "reap"
  /\ UNCHANGED <<err, ending, lock, durable, mem, stopFile, stopping,
                 forceSent, graceDue, limitDue, tree, armed, registry>>

(* try_wait has nothing yet: perhaps a snapshot of the state, then a nap.   *)
StillRunning ==
  /\ pc = "reap" /\ tree.leader = "running"
  /\ UNCHANGED <<ending, lock, mem, stopFile, stopping, forceSent, graceDue,
                 limitDue, tree, armed, registry>>
  /\ \/ pc' = "drain" /\ UNCHANGED <<err, durable>>
     \/ Persist("drain")

(* try_wait fails otherwise than by an interruption. *)
WaitFails ==
  /\ pc = "reap" /\ "io" \in Faults
  /\ Fail("io")
  /\ UNCHANGED <<ending, lock, durable, mem, stopFile, stopping, forceSent,
                 graceDue, limitDue, tree, armed, registry>>

(* Seeded fault: the rest of the group is left alone once its leader exits. *)
ReapLeader_LeavesGroup ==
  /\ pc = "reap" /\ tree.leader = "exited"
  /\ tree' = [tree EXCEPT !.leader = "reaped"]
  /\ armed' = FALSE /\ pc' = "drain_closed"
  /\ UNCHANGED <<err, ending, lock, durable, mem, stopFile, stopping,
                 forceSent, graceDue, limitDue, registry>>

(* Seeded fault: the rest of the group is killed without a note of it. *)
ReapLeader_Silent ==
  /\ pc = "reap" /\ tree.leader = "exited"
  /\ tree' = Killed([tree EXCEPT !.leader = "reaped"])
  /\ armed' = FALSE /\ pc' = "drain_closed"
  /\ UNCHANGED <<err, ending, lock, durable, mem, stopFile, stopping,
                 forceSent, graceDue, limitDue, registry>>

(* Seeded fault: a refused signal is taken for a group that has gone. *)
ReapLeader_Tolerant ==
  /\ pc = "reap" /\ tree.leader = "exited"
  /\ tree' = Killed([tree EXCEPT !.leader = "reaped"])
  /\ armed' = FALSE /\ pc' = "drain_closed"
  /\ mem' = [mem EXCEPT !.swept = TRUE, !.forced = @ \/ stopping # "none"]
  /\ UNCHANGED <<err, ending, lock, durable, stopFile, stopping, forceSent,
                 graceDue, limitDue, registry>>

(* try_wait has the exit status: kill the rest of the group, then forget    *)
(* the child.                                                               *)
ReapLeader ==
  /\ pc = "reap" /\ tree.leader = "exited"
  /\ LET reaped == [tree EXCEPT !.leader = "reaped"] IN
     IF KillRefused(reaped)
     THEN tree' = reaped /\ Fail("io") /\ UNCHANGED <<mem, armed>>
     ELSE /\ tree' = Killed(reaped)
          /\ mem' = [mem EXCEPT
                       !.swept = @ \/ KillSent(reaped),
                       !.forced = @ \/ (KillSent(reaped) /\ stopping # "none")]
          /\ armed' = FALSE
          /\ pc' = "drain_closed" /\ UNCHANGED err
  /\ UNCHANGED <<ending, lock, durable, stopFile, stopping, forceSent,
                 graceDue, limitDue, registry>>

(* drain_until_closed reaches the end of both pipes in time, which members  *)
(* of the group may have closed without being dead yet; output drained here *)
(* may still settle readiness, and process_exited settles it if not.        *)
CloseLogs ==
  /\ pc = "drain_closed"
  /\ \/ /\ ~tree.escaped
        /\ \E r \in IF mem.readiness = "pending" THEN {"ready", "failed"}
                                                 ELSE {mem.readiness} :
             mem' = [mem EXCEPT !.readiness = r]
        /\ pc' = "release" /\ UNCHANGED err
     \/ "io" \in Faults /\ Fail("io") /\ UNCHANGED mem
  /\ UNCHANGED <<ending, lock, durable, stopFile, stopping, forceSent,
                 graceDue, limitDue, tree, armed, registry>>

(* It does not: a descendant outside the group holds a pipe, or one of the  *)
(* killed is slow to die.                                                   *)
DrainTimeout ==
  /\ pc = "drain_closed"
  /\ Fail("log_drain_timeout")
  /\ UNCHANGED <<ending, lock, durable, mem, stopFile, stopping, forceSent,
                 graceDue, limitDue, tree, armed, registry>>

(* Seeded fault: the reason is told by the clock at the end. *)
ReleaseLeases_ByClock ==
  /\ pc = "release"
  /\ LET final == [LeaseReleased(mem) EXCEPT
           !.status = IF stopping = "none" THEN "exited" ELSE "stopped",
           !.reason = IF stopping = "none" THEN "process_exited"
                      ELSE IF limitDue THEN "runtime_limit"
                      ELSE "stop_requested"]
     IN Release(final, "record_final")
  /\ UNCHANGED <<ending, lock, durable, stopFile, stopping, forceSent,
                 graceDue, limitDue, tree, armed>>

(* Release the leases, then compose the final state. *)
ReleaseLeases ==
  /\ pc = "release"
  /\ LET final == [LeaseReleased(mem) EXCEPT
           !.status = IF stopping = "none" THEN "exited" ELSE "stopped",
           !.reason = IF stopping = "none" THEN "process_exited" ELSE stopping]
     IN Release(final, "record_final")
  /\ UNCHANGED <<ending, lock, durable, stopFile, stopping, forceSent,
                 graceDue, limitDue, tree, armed>>

-----------------------------------------------------------------------------
(* Leaving: locals are dropped in reverse order, the child before the       *)
(* leases, and only then is the error recorded and the lock given up.       *)

(* Seeded fault: OwnedChild has no Drop. *)
DropChild_Detaches ==
  /\ pc = "unwind"
  /\ armed' = FALSE
  /\ pc' = "unwind_leases"
  /\ UNCHANGED <<err, ending, lock, durable, mem, stopFile, stopping,
                 forceSent, graceDue, limitDue, tree, registry>>

DropChild ==
  /\ pc = "unwind"
  /\ tree' = IF armed THEN Killed(tree) ELSE tree
  /\ armed' = FALSE
  /\ pc' = "unwind_leases"
  /\ UNCHANGED <<err, ending, lock, durable, mem, stopFile, stopping,
                 forceSent, graceDue, limitDue, registry>>

DropLeases ==
  /\ pc = "unwind_leases"
  /\ \/ registry' = FALSE
     \/ "io" \in Faults /\ UNCHANGED registry
  /\ pc' = "mark"
  /\ UNCHANGED <<err, ending, lock, durable, mem, stopFile, stopping,
                 forceSent, graceDue, limitDue, tree, armed>>

(* Seeded fault: the failure overwrites whatever is recorded. *)
MarkSupervisorFailed_Overwrites ==
  /\ pc = "mark"
  /\ durable' = [LeaseReleased(durable) EXCEPT
                    !.status = "failed", !.reason = "supervisor_failed",
                    !.failure = err]
  /\ pc' = "unlock"
  /\ UNCHANGED <<err, ending, lock, mem, stopFile, stopping, forceSent,
                 graceDue, limitDue, tree, armed, registry>>

(* mark_supervisor_failed rereads state.json, leaves a terminal state as it *)
(* is, and ignores its own failure.                                         *)
MarkSupervisorFailed ==
  /\ pc = "mark"
  /\ \/ /\ durable' = IF IsTerminal(durable) THEN durable
                      ELSE [LeaseReleased(durable) EXCEPT
                              !.status = "failed",
                              !.reason = "supervisor_failed",
                              !.failure = err]
        /\ UNCHANGED ending
     \/ /\ "io" \in Faults /\ IsLive(durable)
        /\ ending' = "unmarked" /\ UNCHANGED durable
  /\ pc' = "unlock"
  /\ UNCHANGED <<err, lock, mem, stopFile, stopping, forceSent, graceDue,
                 limitDue, tree, armed, registry>>

(* The process exits and the lock goes with it (the pipes' readers too). *)
Unlock ==
  /\ pc = "unlock"
  /\ lock' = "free" /\ pc' = "gone"
  /\ ending' = IF ending = "none" THEN "returned" ELSE ending
  /\ UNCHANGED <<err, durable, mem, stopFile, stopping, forceSent, graceDue,
                 limitDue, tree, armed, registry>>

(* The supervisor is killed anywhere.  Nobody kills its child: the group    *)
(* outlives its leader's parent on Unix, and the job on Windows is not one  *)
(* that dies with its last handle (JobObject is wrapped without a           *)
(* kill-on-drop).                                                           *)
Crash ==
  /\ "crash" \in Faults /\ pc \notin {"absent", "gone"}
  /\ lock' = IF lock = "supervisor" THEN "free" ELSE lock
  /\ pc' = "gone" /\ ending' = "crashed" /\ armed' = FALSE
  /\ UNCHANGED <<err, durable, mem, stopFile, stopping, forceSent, graceDue,
                 limitDue, tree, registry>>

-----------------------------------------------------------------------------
(* The child and its descendants, the clock, and the other processes.       *)

ProcessesUnchanged == UNCHANGED <<pc, err, ending, lock, durable, mem, stopFile,
  stopping, forceSent, graceDue, limitDue, armed, registry>>

Fork ==
  /\ tree.leader = "running" /\ ~tree.group /\ ~tree.killed
  /\ tree' = [tree EXCEPT !.group = TRUE]
  /\ ProcessesUnchanged

Escape ==
  /\ "escape" \in Faults /\ GroupRuns(tree) /\ ~tree.escaped /\ ~tree.killed
  /\ tree' = [tree EXCEPT !.escaped = TRUE]
  /\ ProcessesUnchanged

LeaderExits ==
  /\ tree.leader = "running"
  /\ tree' = [tree EXCEPT !.leader = "exited"]
  /\ ProcessesUnchanged

GroupExits ==
  /\ tree.group
  /\ tree' = [tree EXCEPT !.group = FALSE]
  /\ ProcessesUnchanged

EscapeeExits ==
  /\ tree.escaped
  /\ tree' = [tree EXCEPT !.escaped = FALSE]
  /\ ProcessesUnchanged

OS == Fork \/ Escape \/ LeaderExits \/ GroupExits \/ EscapeeExits

GracePasses ==
  /\ stopping # "none" /\ ~graceDue /\ pc # "gone"
  /\ graceDue' = TRUE
  /\ UNCHANGED <<pc, err, ending, lock, durable, mem, stopFile, stopping,
                 forceSent, limitDue, tree, armed, registry>>

(* Only a run with --max-runtime has a deadline, counted from the spawn.    *)
LimitPasses ==
  /\ mem.pid /\ ~limitDue /\ pc # "gone"
  /\ limitDue' = TRUE
  /\ UNCHANGED <<pc, err, ending, lock, durable, mem, stopFile, stopping,
                 forceSent, graceDue, tree, armed, registry>>

Clock == GracePasses \/ LimitPasses

(* Store::write_stop_request, by procherd stop or by a start that gave up.  *)
RequestStop ==
  /\ stopFile' = TRUE
  /\ UNCHANGED <<pc, err, ending, lock, durable, mem, stopping, forceSent,
                 graceDue, limitDue, tree, armed, registry>>

(* Store::supervisor_active holds the lock between try_lock and unlock when *)
(* it finds it free.                                                        *)
ProbeLock(o) ==
  /\ lock = "free"
  /\ lock' = o
  /\ UNCHANGED <<pc, err, ending, durable, mem, stopFile, stopping, forceSent,
                 graceDue, limitDue, tree, armed, registry>>

UnprobeLock(o) ==
  /\ lock = o
  /\ lock' = "free"
  /\ UNCHANGED <<pc, err, ending, durable, mem, stopFile, stopping, forceSent,
                 graceDue, limitDue, tree, armed, registry>>

(* Seeded fault: the entries go without a look at the lock. *)
PruneEntries_Unasked ==
  /\ registry
  /\ registry' = FALSE
  /\ UNCHANGED <<pc, err, ending, lock, durable, mem, stopFile, stopping,
                 forceSent, graceDue, limitDue, tree, armed>>

(* prune_stale, by the supervisor of another run that reserves ports: it    *)
(* finds no supervisor behind the lock and drops the entries.  (One that    *)
(* cannot open the lock file is in PortLeases.)                             *)
PruneEntries ==
  /\ registry /\ lock # "supervisor"
  /\ registry' = FALSE
  /\ UNCHANGED <<pc, err, ending, lock, durable, mem, stopFile, stopping,
                 forceSent, graceDue, limitDue, tree, armed>>

Environment ==
  \/ RequestStop
  \/ PruneEntries
  \/ \E o \in Observers : ProbeLock(o) \/ UnprobeLock(o)

-----------------------------------------------------------------------------
(* The steps of a supervisor that holds the lock. *)
SupervisorStep ==
  \/ ClaimRun \/ AcquireLeases \/ RecordState
  \/ SpawnChild \/ SpawnFails \/ ReleaseUnspawned \/ RecordUnspawned
  \/ Drain \/ TakeStopRequest \/ MissStopRequest \/ StopRequestAppears
  \/ HitRuntimeLimit \/ ForceStop \/ NoControl
  \/ StillRunning \/ WaitFails \/ ReapLeader
  \/ CloseLogs \/ DrainTimeout \/ ReleaseLeases
  \/ DropChild \/ DropLeases \/ MarkSupervisorFailed \/ Unlock

Startup == Launch \/ LaunchFails \/ AcquireLock \/ LockError

Next == Startup \/ SupervisorStep \/ Crash \/ OS \/ Clock \/ Environment

SafeSpec == Init /\ [][Next]_supVars

(* A supervisor that can step does (its loop never blocks for good); the    *)
(* kernel hands the lock to a waiter that keeps asking; probes are brief;   *)
(* grace periods pass; and a killed process dies.  Nothing makes the child  *)
(* exit by itself, a runtime limit exist or a stop be requested.            *)
SupervisorFairness ==
  /\ WF_supVars(SupervisorStep)
  /\ SF_supVars(AcquireLock)
  /\ WF_supVars(GracePasses)
  /\ WF_supVars(tree.killed /\ LeaderExits)
  /\ WF_supVars(tree.killed /\ GroupExits)

Spec ==
  /\ SafeSpec
  /\ SupervisorFairness
  /\ \A o \in Observers : WF_supVars(UnprobeLock(o))

-----------------------------------------------------------------------------
(* The invariant the supervisor's code rests on: what each point of it may  *)
(* take for granted about the lock, the two copies of the state, the child  *)
(* and the leases.                                                          *)

Holding == PCs \ {"absent", "launched", "gone"}

LockInv == lock = "supervisor" <=> pc \in Holding

Supervising == {"drain", "control", "confirm", "record_force", "reap",
                "drain_closed", "release", "record_final"}
Leaving == {"unwind", "unwind_leases", "mark", "unlock", "gone"}

CurrentStatus == IF stopping = "none" THEN "running" ELSE "stopping"
FinalStatus == IF stopping = "none" THEN "exited" ELSE "stopped"

(* What state.json says at each point before the supervisor leaves. *)
DurableInv ==
  /\ pc \in {"absent", "launched", "claim"} => durable.status = "created"
  /\ pc \in {"acquire", "record_leases", "spawn", "release_unspawned",
             "record_unspawned", "record_running"} =>
       durable.status = "starting"
  /\ pc = "record_stopping" => durable.status = "running"
  /\ pc \in Supervising => durable.status = CurrentStatus

(* What the supervisor itself holds to be the status.  *)
MemInv ==
  /\ pc \in {"acquire", "record_leases", "spawn"} => mem.status = "starting"
  /\ pc \in {"release_unspawned", "record_unspawned"} =>
       mem.status = "failed" /\ mem.reason = "spawn_failed"
  /\ pc = "record_running" => mem.status = "running"
  /\ pc = "record_stopping" => stopping # "none"
  /\ pc \in {"record_stopping"} \cup (Supervising \ {"record_final"}) =>
       mem.status = CurrentStatus
  /\ pc = "record_final" => mem.status = FinalStatus
  /\ pc \notin {"record_stopping"} \cup Supervising \cup Leaving =>
       stopping = "none"
  /\ pc = "confirm" => stopping = "none"

(* Nothing of the group is left that has not been killed. *)
Swept(t) == ~GroupExists(t) \/ t.killed

(* Or it cannot be. *)
Quiet(t) == Swept(t) \/ t.denied

(* The guard covers the child from its spawn until nothing of it is left.   *)
TreeInv ==
  /\ armed => pc \in {"record_running", "drain", "control", "confirm",
                      "record_stopping", "record_force", "reap", "unwind"}
  /\ ~armed /\ ending # "crashed" => Quiet(tree)
  /\ ending = "crashed" => pc = "gone"
  /\ IsTerminal(durable) => pc \in Leaving /\ ~armed /\ Quiet(tree)
  /\ pc \in {"drain_closed", "release", "record_final"} => ~armed /\ Swept(tree)
  /\ durable.status \in {"exited", "stopped"} => Swept(tree)

(* The registry entries and the stamps of the leases agree. *)
LeaseInv ==
  /\ pc \in {"absent", "launched", "claim"} =>
       ~registry /\ durable.lease \in {"none", "requested"}
  /\ pc = "acquire" => ~registry /\ mem.lease \in {"none", "requested"}
  /\ pc \in Recording \cup Supervising \cup {"spawn", "release_unspawned"} =>
       mem.lease \in {"none", "acquired", "released"}
  /\ pc \in {"record_leases", "spawn"} /\ mem.lease = "acquired" => registry
  /\ pc \in {"record_unspawned", "record_final"} =>
       ~registry /\ mem.lease \in {"none", "released"}
  /\ IsTerminal(durable) /\ durable.reason # "supervisor_failed" =>
       ~registry /\ durable.lease \in {"none", "released"}

(* Whoever leaves in order has recorded a terminal state or knows it failed *)
(* to.                                                                      *)
EndingInv ==
  /\ pc \notin {"unlock", "gone"} => ending = "none"
  /\ pc = "gone" => ending # "none"
  /\ pc = "unlock" => ending = "unmarked" \/ IsTerminal(durable)
  /\ ending = "returned" => pc = "gone" /\ IsTerminal(durable)

SupervisionInv ==
  LockInv /\ DurableInv /\ MemInv /\ TreeInv /\ LeaseInv /\ EndingInv

-----------------------------------------------------------------------------
(* Properties. *)

(* Once state.json is terminal it never changes again: the failure path     *)
(* rereads it and must not overwrite a recorded spawn failure or exit.      *)
TerminalIsFinal == [][IsTerminal(durable) => durable' = durable]_supVars

(* A terminal state is durable only after the whole process group is gone   *)
(* or has been sent the forced kill, on every path that can record one.  A  *)
(* group that the system refuses to signal is left alive by a failure       *)
(* alone: no run is exited or stopped over it.                              *)
NoLiveTreeAtTerminal ==
  IsTerminal(durable) =>
    \/ ~GroupExists(tree) \/ tree.killed
    \/ tree.denied /\ durable.status = "failed"

(* A run that ended in its own way holds no port any more; a run that was   *)
(* marked failed may, when the release itself is what failed.               *)
ReleasedAtTerminal ==
  IsTerminal(durable) /\ durable.reason # "supervisor_failed" =>
    ~registry /\ durable.lease \notin {"requested", "acquired"}

(* The registry protects a run's ports for as long as its child runs under  *)
(* a supervisor that holds its lock: no path of it gives them up before the *)
(* group has been killed, and nobody else prunes them.  Once the supervisor *)
(* is gone they are anybody's, also if the group is not.                    *)
PortsOutliveTree ==
  lock = "supervisor" /\ mem.lease = "acquired" /\ GroupRuns(tree)
      /\ ~tree.killed /\ ~tree.denied
    => registry

(* A live status without a supervisor (observed_status "orphaned") takes a  *)
(* supervisor that was killed, that never ran, or that could not write.     *)
OrphanOnlyByFault ==
  pc = "gone" /\ IsLive(durable) =>
    ending \in {"crashed", "unmarked", "never_ran"}

(* The cleanup evidence of an orderly end accounts for every kill that was  *)
(* sent, and says force_used when it ended a stop.                          *)
KillIsRecorded ==
  durable.status \in {"exited", "stopped"} /\ tree.killed =>
    /\ durable.swept
    /\ durable.status = "stopped" => durable.forced

(* On Unix a child that is being stopped and still runs is not killed       *)
(* before its grace period is over, unless its supervisor is failing.       *)
GraceRespected ==
  [][Unix /\ tree'.killed /\ ~tree.killed /\ pc # "unwind"
       => graceDue \/ tree.leader = "exited"]_supVars

(* docs/PLATFORM-SUPPORT.md: Windows children are assigned to a Job Object  *)
(* configured to terminate members when ownership closes.  Nothing in the   *)
(* code configures it so, and a supervisor that is killed sends no kill.    *)
NoTreeWithoutSupervisor ==
  ~Unix /\ pc = "gone" => ~GroupExists(tree) \/ tree.killed

(* docs/ARCHITECTURE.md: stop sends the graceful signal, waits for the      *)
(* grace period, then force-kills.  Here without the exception above: a     *)
(* request that lands between the failed read and the second look makes     *)
(* the supervisor fail, and the child dies unasked.                         *)
StopIsGraceful ==
  [][Unix /\ stopFile /\ tree'.killed /\ ~tree.killed
       => graceDue \/ tree.leader = "exited"]_supVars

(* docs/READINESS-AND-LEASES.md says pending readiness becomes failed if    *)
(* the child exits first; drain_until_closed returns its timeout before     *)
(* process_exited is reached.                                               *)
ReadinessDecidedOnChildExit ==
  pc = "gone" /\ ending = "returned" /\ tree.leader = "reaped"
    => durable.readiness # "pending"

(* A stop ends for the reason it was announced with: a runtime limit and a  *)
(* stop request may fall due together, and either may come while the other  *)
(* is being carried out, but the cause that stopping was recorded with      *)
(* stays, is the reason of the end, and no other end is blamed on it.       *)
CauseStands ==
  [][/\ durable.status = "stopping" => durable'.limited = durable.limited
     /\ durable'.status = "stopped" /\ durable.status # "stopped" =>
          /\ durable.status = "stopping"
          /\ durable'.reason =
               IF durable.limited THEN "runtime_limit" ELSE "stop_requested"
     /\ durable'.status = "exited" => ~durable'.limited]_supVars

(* The supervisor implements the contract its readers rely on. *)
Contract == INSTANCE RunContract WITH
  status <- durable.status,
  phase  <- IF pc \in {"absent", "launched"} THEN "pending"
            ELSE IF pc = "gone" THEN "done" ELSE "held"

ContractSpec == Contract!Spec

(* A stop request that a launched supervisor can still see is followed by   *)
(* its exit, however the child takes the signal; so is a runtime limit that *)
(* has passed.                                                              *)
StopSettles ==
  /\ (stopFile /\ pc # "absent") ~> (pc = "gone")
  /\ limitDue ~> (pc = "gone")

(* When a terminal state is durable, the group does die, unless it cannot   *)
(* be signalled.                                                            *)
TerminalIsQuiet ==
  (IsTerminal(durable) /\ ~tree.denied) ~> ~GroupRuns(tree)
=============================================================================
