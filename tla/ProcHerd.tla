------------------------------ MODULE ProcHerd ------------------------------
(***************************************************************************)
(* One run as its users see it: the supervisor of Supervisor.tla together  *)
(* with procherd commands that run at the same time (src/cli.rs): the      *)
(* start that created the run, and status, wait, stop and gc.  They share  *)
(* the run directory only: state.json, stop.request.json, supervisor.lock. *)
(*                                                                         *)
(* A command observes the run in up to four steps                          *)
(* (observe_state_and_activity): it reads the state, tries the lock, gives *)
(* it up again if it got it, and then reads a live state once more.  Any   *)
(* other process may act between two of them.                              *)
(***************************************************************************)
EXTENDS Supervisor

CONSTANT Command  \* the command each observer runs

Commands == {"start", "status", "wait_running", "wait_ready", "wait_exit",
             "stop", "gc"}

ASSUME CommandAssumption ==
  /\ Command \in [Observers -> Commands]
  /\ \A c, d \in Observers :
       Command[c] = "start" /\ Command[d] = "start" => c = d

VARIABLES
  at,          \* where each command is
  view,        \* the observation it is making
  result,      \* its answer
  phase,       \* how far a stop has come
  activeSeen,  \* start's active_seen
  present      \* the run directory exists

clientVars == <<at, view, result, phase, activeSeen, present>>
vars == <<supVars, clientVars>>

(* Seeded fault: the process is not part of the view. *)
Snapshot_NoPid(s) == [status |-> s.status, readiness |-> s.readiness]

(* What an observation keeps of a RunState, with the status of its first    *)
(* read and the lock observation beside it.                                 *)
Snapshot(s) == [status |-> s.status, pid |-> s.pid, readiness |-> s.readiness]
NoView == [first |-> "none", active |-> FALSE,
           state |-> [status |-> "created", pid |-> FALSE,
                      readiness |-> "not_configured"]]

Observations ==
  [first : {"none"} \cup LiveStatuses \cup TerminalStatuses,
   active : BOOLEAN,
   state : [status : LiveStatuses \cup TerminalStatuses, pid : BOOLEAN,
            readiness : ReadinessStatuses]]

Results == {"none", "launch_failed", "started", "ended", "start_failed",
            "supervisor_exit", "timeout", "shown", "orphaned", "satisfied",
            "readiness_failed", "usage", "already_terminal", "stopped",
            "kept", "refused", "deleted", "not_found", "io"}

ClientTypeOK ==
  /\ at \in [Observers -> {"launch", "read", "probe", "unprobe", "reread",
                           "decide", "recheck", "release", "restate",
                           "delete", "done"}]
  /\ view \in [Observers -> Observations]
  /\ result \in [Observers -> Results]
  /\ phase \in [Observers -> {"first", "settling", "polling"}]
  /\ activeSeen \in BOOLEAN
  /\ present \in BOOLEAN

FirstStep(c) == IF Command[c] = "start" THEN "launch" ELSE "read"

(* Some of the commands are given, and some never. *)
ProcHerdInit ==
  /\ Init
  /\ at \in {f \in [Observers -> {"launch", "read", "done"}] :
               \A c \in Observers : f[c] \in {"done", FirstStep(c)}}
  /\ view = [c \in Observers |-> NoView]
  /\ result = [c \in Observers |-> "none"]
  /\ phase = [c \in Observers |-> "first"]
  /\ activeSeen = FALSE
  /\ present = TRUE

-----------------------------------------------------------------------------
(* Steps common to all commands. *)

Goto(c, next) ==
  /\ at' = [at EXCEPT ![c] = next]
  /\ UNCHANGED <<view, result, phase, activeSeen, present>>

(* The answer carries the view; only the status read first is kept here.    *)
Answer(c, r) ==
  /\ at' = [at EXCEPT ![c] = "done"]
  /\ result' = [result EXCEPT ![c] = r]
  /\ view' = [view EXCEPT ![c] = [NoView EXCEPT !.first = view[c].first]]

(* Sleep, then observe afresh. *)
LookAgain(c) ==
  /\ at' = [at EXCEPT ![c] = "read"]
  /\ view' = [view EXCEPT ![c] = NoView]
  /\ UNCHANGED result

(* The run directory is gone: not_found. *)
RunMissing(c) ==
  /\ at[c] \in {"read", "probe", "reread", "recheck", "restate"} /\ ~present
  /\ Answer(c, "not_found")
  /\ UNCHANGED <<supVars, phase, activeSeen, present>>

ReadState(c) ==
  /\ at[c] = "read" /\ present
  /\ view' = [view EXCEPT ![c] = [first |-> durable.status, active |-> FALSE,
                                  state |-> Snapshot(durable)]]
  /\ at' = [at EXCEPT ![c] = "probe"]
  /\ UNCHANGED <<supVars, result, phase, activeSeen, present>>

(* Store::supervisor_active: try_lock succeeds, ...  *)
ProbeFree(c) ==
  /\ at[c] = "probe" /\ present
  /\ ProbeLock(c)
  /\ Goto(c, "unprobe")

(* Seeded fault: the lock is released although it was never obtained. *)
ProbeHeld_Unlocks(c) ==
  /\ at[c] = "probe" /\ present /\ lock # "free"
  /\ lock' = "free"
  /\ Goto(c, "decide")
  /\ UNCHANGED <<pc, err, ending, durable, mem, stopFile, stopping, forceSent,
                 graceDue, limitDue, tree, armed, registry>>

(* ... or finds the lock held, by the supervisor or by another probe.       *)
ProbeHeld(c) ==
  /\ at[c] = "probe" /\ present /\ lock # "free"
  /\ view' = [view EXCEPT ![c].active = TRUE]
  /\ at' = [at EXCEPT ![c] = "decide"]
  /\ UNCHANGED <<supVars, result, phase, activeSeen, present>>

(* Seeded fault: a live state is believed without a second read. *)
Unprobe_Believes(c) ==
  /\ at[c] = "unprobe"
  /\ UnprobeLock(c)
  /\ Goto(c, "decide")

(* An inactive lock is paired with a fresh state if the state looked live.  *)
Unprobe(c) ==
  /\ at[c] = "unprobe"
  /\ UnprobeLock(c)
  /\ Goto(c, IF IsLive(view[c].state) THEN "reread" ELSE "decide")

RereadState(c) ==
  /\ at[c] = "reread" /\ present
  /\ view' = [view EXCEPT ![c].state = Snapshot(durable)]
  /\ at' = [at EXCEPT ![c] = "decide"]
  /\ UNCHANGED <<supVars, result, phase, activeSeen, present>>

(* RunView::new: observed_status. *)
Orphaned(v) == IsLive(v.state) /\ ~v.active

(* Seeded fault: a recorded end is taken for a finished run. *)
Settled_Hasty(v) == IsTerminal(v.state)

(* A terminal state and no supervisor: the boundary of a finished run.      *)
Settled(v) == IsTerminal(v.state) /\ ~v.active

(* Or find the deadline passed. *)
LoopOrTimeOut(c) == LookAgain(c) \/ Answer(c, "timeout")

-----------------------------------------------------------------------------
(* procherd start: launch the supervisor, then watch it start. *)

StartLaunches(c) ==
  /\ Command[c] = "start" /\ at[c] = "launch"
  /\ Launch
  /\ Goto(c, "read")

StartCannotLaunch(c) ==
  /\ Command[c] = "start" /\ at[c] = "launch"
  /\ LaunchFails
  /\ Answer(c, "launch_failed")
  /\ UNCHANGED <<phase, activeSeen, present>>

(* Seeded fault: a run that is starting counts as started. *)
PastStartup_Early(v) == v.state.status # "created"

PastStartup(v) == v.state.status \notin {"created", "starting"}

StartAnswers(c) ==
  LET v == view[c] IN
  /\ Command[c] = "start" /\ at[c] = "decide"
  /\ PastStartup(v)
  /\ IF IsTerminal(v.state) /\ v.active
     THEN LoopOrTimeOut(c)
     ELSE Answer(c, IF v.state.status = "failed" THEN "start_failed"
                    ELSE IF Orphaned(v) THEN "supervisor_exit"
                    ELSE IF IsTerminal(v.state) THEN "ended" ELSE "started")
  /\ activeSeen' = (activeSeen \/ v.active)
  /\ UNCHANGED <<supVars, phase, present>>

(* Seeded fault: a start that gives up leaves the run alone. *)
StartWatches_Abandons(c) ==
  LET v == view[c] IN
  /\ Command[c] = "start" /\ at[c] = "decide"
  /\ ~PastStartup(v)
  /\ activeSeen' = (activeSeen \/ v.active)
  /\ IF activeSeen' /\ ~v.active THEN Answer(c, "supervisor_exit") ELSE LoopOrTimeOut(c)
  /\ UNCHANGED <<supVars, phase, present>>

(* The run is still starting: the lock has been seen held and is free       *)
(* again, or time is up and the start asks for the run to be stopped, or it *)
(* looks again.                                                             *)
StartWatches(c) ==
  LET v == view[c] IN
  /\ Command[c] = "start" /\ at[c] = "decide"
  /\ ~PastStartup(v)
  /\ activeSeen' = (activeSeen \/ v.active)
  /\ UNCHANGED <<phase, present>>
  /\ IF activeSeen' /\ ~v.active
     THEN Answer(c, "supervisor_exit") /\ UNCHANGED supVars
     ELSE \/ LookAgain(c) /\ UNCHANGED supVars
          \/ Answer(c, "timeout") /\ RequestStop
          \/ "io" \in Faults /\ Answer(c, "timeout") /\ UNCHANGED supVars

-----------------------------------------------------------------------------
(* procherd status (and each run of a list). *)

StatusAnswers(c) ==
  /\ Command[c] = "status" /\ at[c] = "decide"
  /\ Answer(c, IF Orphaned(view[c]) THEN "orphaned" ELSE "shown")
  /\ UNCHANGED <<supVars, phase, activeSeen, present>>

(* Seeded fault: a run that ends with its checks open counts as ready. *)
WaitVerdict_Optimistic(condition, v) ==
  CASE condition = "wait_running" -> IF v.state.pid THEN "satisfied" ELSE "none"
    [] condition = "wait_exit" -> IF Settled(v) THEN "satisfied" ELSE "none"
    [] condition = "wait_ready" ->
         IF v.state.readiness = "ready" \/ IsTerminal(v.state)
         THEN "satisfied" ELSE "none"

(* procherd wait: what each condition makes of a view that is no orphan's.  *)
WaitVerdict(condition, v) ==
  CASE condition = "wait_running" -> IF v.state.pid THEN "satisfied" ELSE "none"
    [] condition = "wait_exit" -> IF Settled(v) THEN "satisfied" ELSE "none"
    [] condition = "wait_ready" ->
         CASE v.state.readiness = "ready" -> "satisfied"
           [] v.state.readiness = "not_configured" -> "usage"
           [] v.state.readiness \in {"timed_out", "failed"} -> "readiness_failed"
           [] OTHER -> IF IsTerminal(v.state) THEN "readiness_failed" ELSE "none"

WaitDecides(c) ==
  LET verdict == WaitVerdict(Command[c], view[c]) IN
  /\ Command[c] \in {"wait_running", "wait_ready", "wait_exit"}
  /\ at[c] = "decide"
  /\ IF Orphaned(view[c]) THEN Answer(c, "orphaned")
     ELSE IF verdict # "none" THEN Answer(c, verdict)
     ELSE LoopOrTimeOut(c)
  /\ UNCHANGED <<supVars, phase, activeSeen, present>>

-----------------------------------------------------------------------------
(* procherd stop. *)

(* The first look: an ended run is waited for, an orphan refused, and       *)
(* anything else is sent a stop request.                                    *)
StopDecides(c) ==
  LET v == view[c] IN
  /\ Command[c] = "stop" /\ at[c] = "decide" /\ phase[c] = "first"
  /\ UNCHANGED <<activeSeen, present>>
  /\ \/ /\ IsTerminal(v.state) /\ ~v.active
        /\ Answer(c, "already_terminal") /\ UNCHANGED <<supVars, phase>>
     \/ /\ IsTerminal(v.state) /\ v.active
        /\ phase' = [phase EXCEPT ![c] = "settling"]
        /\ LoopOrTimeOut(c) /\ UNCHANGED supVars
     \/ /\ Orphaned(v)
        /\ Answer(c, "orphaned") /\ UNCHANGED <<supVars, phase>>
     \/ /\ IsLive(v.state) /\ v.active
        /\ RequestStop
        /\ phase' = [phase EXCEPT ![c] = "polling"]
        /\ LookAgain(c)
     \/ /\ IsLive(v.state) /\ v.active /\ "io" \in Faults
        /\ Answer(c, "io") /\ UNCHANGED <<supVars, phase>>

(* An ended run's supervisor is on its way out: wait for the lock alone.    *)
StopSettling(c) ==
  /\ Command[c] = "stop" /\ at[c] = "decide" /\ phase[c] = "settling"
  /\ IF view[c].active THEN LoopOrTimeOut(c) ELSE Answer(c, "already_terminal")
  /\ UNCHANGED <<supVars, phase, activeSeen, present>>

StopPolling(c) ==
  /\ Command[c] = "stop" /\ at[c] = "decide" /\ phase[c] = "polling"
  /\ IF Settled(view[c]) THEN Answer(c, "stopped")
     ELSE IF ~view[c].active THEN Answer(c, "orphaned")
     ELSE LoopOrTimeOut(c)
  /\ UNCHANGED <<supVars, phase, activeSeen, present>>

-----------------------------------------------------------------------------
(* procherd gc, when it comes to this run. *)

(* Old enough or not, an ended run without a supervisor may be removed.     *)
GcDecides(c) ==
  /\ Command[c] = "gc" /\ at[c] = "decide"
  /\ \/ /\ Settled(view[c])
        /\ at' = [at EXCEPT ![c] = "recheck"] /\ UNCHANGED <<view, result>>
     \/ Answer(c, "kept")
  /\ UNCHANGED <<supVars, phase, activeSeen, present>>

(* Seeded fault: the lock is taken as it was seen before. *)
GcRecheckFree_Trusts(c) ==
  /\ at[c] = "recheck" /\ present
  /\ UNCHANGED supVars
  /\ Goto(c, "restate")

(* Store::remove_terminal_run probes the lock again, ...  *)
GcRecheckFree(c) ==
  /\ at[c] = "recheck" /\ present
  /\ ProbeLock(c)
  /\ Goto(c, "release")

GcRecheckHeld(c) ==
  /\ at[c] = "recheck" /\ present /\ lock # "free"
  /\ Answer(c, "refused")
  /\ UNCHANGED <<supVars, phase, activeSeen, present>>

GcReleases(c) ==
  /\ at[c] = "release"
  /\ UnprobeLock(c)
  /\ Goto(c, "restate")

(* ... reads the state again, ...  *)
GcRereads(c) ==
  /\ at[c] = "restate" /\ present
  /\ IF IsTerminal(durable)
     THEN at' = [at EXCEPT ![c] = "delete"] /\ UNCHANGED <<view, result>>
     ELSE Answer(c, "refused")
  /\ UNCHANGED <<supVars, phase, activeSeen, present>>

(* ... and removes the directory. *)
GcDeletes(c) ==
  /\ at[c] = "delete"
  /\ present' = FALSE
  /\ Answer(c, IF present THEN "deleted" ELSE "not_found")
  /\ UNCHANGED <<supVars, phase, activeSeen>>

-----------------------------------------------------------------------------
ClientStep(c) ==
  \/ RunMissing(c) \/ ReadState(c) \/ ProbeFree(c) \/ ProbeHeld(c)
  \/ Unprobe(c) \/ RereadState(c)
  \/ StartLaunches(c) \/ StartCannotLaunch(c)
  \/ StartAnswers(c) \/ StartWatches(c)
  \/ StatusAnswers(c) \/ WaitDecides(c)
  \/ StopDecides(c) \/ StopSettling(c) \/ StopPolling(c)
  \/ GcDecides(c) \/ GcRecheckFree(c) \/ GcRecheckHeld(c) \/ GcReleases(c)
  \/ GcRereads(c) \/ GcDeletes(c)

RunStep ==
  /\ \/ AcquireLock \/ LockError \/ SupervisorStep \/ Crash
     \/ OS \/ Clock \/ PruneEntries
  /\ UNCHANGED clientVars

ProcHerdNext == RunStep \/ \E c \in Observers : ClientStep(c)

ProcHerdSafeSpec == ProcHerdInit /\ [][ProcHerdNext]_vars

(* A command that is running goes on running. *)
ProcHerdFairness ==
  SupervisorFairness /\ \A c \in Observers : WF_vars(ClientStep(c))

-----------------------------------------------------------------------------
(* Properties. *)

(* Nothing the commands do goes beyond the environment Supervisor.tla       *)
(* assumes, so every safety property proved or checked there holds here.    *)
RunIsSupervised == SafeSpec

OrphanAnswers == {"orphaned", "supervisor_exit"}
EndAnswers == {"ended", "start_failed", "already_terminal", "stopped"}

SaysEnded(c) ==
  \/ result[c] \in EndAnswers
  \/ Command[c] = "wait_exit" /\ result[c] = "satisfied"

(* A command that saw the run past "created" and calls it orphaned, or says *)
(* that its supervisor exited during startup, is right: the supervisor is   *)
(* gone for good and has left a live state behind.                          *)
OrphanAnswersAreTrue ==
  \A c \in Observers :
    result[c] \in OrphanAnswers /\ view[c].first # "created" =>
      pc = "gone" /\ IsLive(durable)

(* A command that saw the run past "created" and reports its end does so    *)
(* only once the supervisor has exited and the end is on disk.              *)
EndAnswersAreSettled ==
  \A c \in Observers :
    SaysEnded(c) /\ view[c].first # "created" => pc = "gone" /\ IsTerminal(durable)

(* The same of orphans without the condition on the first read, as          *)
(* docs/ARCHITECTURE.md states it.                                          *)
OrphanAnswersAreAlwaysTrue ==
  \A c \in Observers : result[c] \in OrphanAnswers => pc = "gone"

(* start says "started" only of a run whose process was spawned and         *)
(* recorded, and "ended" or "start_failed" only of one that is over.        *)
StartAnswersAreTrue ==
  \A c \in Observers :
    /\ result[c] = "started" => durable.pid
    /\ result[c] \in {"ended", "start_failed"} => IsTerminal(durable)

(* wait --for ready is satisfied only by readiness that stays on record.    *)
ReadyAnswersAreTrue ==
  \A c \in Observers :
    Command[c] = "wait_ready" /\ result[c] = "satisfied" =>
      durable.readiness = "ready"

(* gc removes a run only when its supervisor is gone and its end recorded,  *)
(* whatever it observed before.                                             *)
GcRemovesOnlyEndedRuns == ~present => pc = "gone" /\ IsTerminal(durable)

(* A start that gives up waiting leaves no run behind: its stop request     *)
(* ends the run, whenever the supervisor comes to it.                       *)
GivenUpStartsEnd ==
  \A c \in Observers :
    (Command[c] = "start" /\ result[c] = "timeout" /\ present) ~> (pc = "gone")
=============================================================================
