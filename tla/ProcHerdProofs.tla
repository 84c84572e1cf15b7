---------------------------- MODULE ProcHerdProofs ----------------------------
(***************************************************************************)
(* What procherd's commands say of a run is true, for any number of them   *)
(* at the same time, each at any of its steps, whatever the supervisor and *)
(* its faults do in between.                                               *)
(***************************************************************************)
EXTENDS ProcHerd, SupervisorProofs

-----------------------------------------------------------------------------
(* The commands are part of the environment that Supervisor.tla assumes.    *)

LEMMA CommandStep ==
  ASSUME NEW c \in Observers, ClientStep(c)
  PROVE  [Next]_supVars
<1>1. CASE \/ RunMissing(c) \/ ReadState(c) \/ ProbeHeld(c) \/ RereadState(c)
           \/ StartAnswers(c) \/ StatusAnswers(c) \/ WaitDecides(c)
           \/ StopSettling(c) \/ StopPolling(c) \/ GcDecides(c)
           \/ GcRecheckHeld(c) \/ GcRereads(c) \/ GcDeletes(c)
  BY <1>1 DEF RunMissing, ReadState, ProbeHeld, RereadState, StartAnswers,
     StatusAnswers, WaitDecides, StopSettling, StopPolling, GcDecides,
     GcRecheckHeld, GcRereads, GcDeletes
<1>2. CASE ProbeFree(c) \/ GcRecheckFree(c)
  BY <1>2 DEF ProbeFree, GcRecheckFree, Next, Environment
<1>3. CASE Unprobe(c) \/ GcReleases(c)
  BY <1>3 DEF Unprobe, GcReleases, Next, Environment
<1>4. CASE StartLaunches(c) \/ StartCannotLaunch(c)
  BY <1>4 DEF StartLaunches, StartCannotLaunch, Next, Startup
<1>5. CASE StartWatches(c)
  BY <1>5 DEF StartWatches, Next, Environment
<1>6. CASE StopDecides(c)
  BY <1>6 DEF StopDecides, Next, Environment
<1> QED
  BY <1>1, <1>2, <1>3, <1>4, <1>5, <1>6 DEF ClientStep

LEMMA StepIsSupervised == [ProcHerdNext]_vars => [Next]_supVars
<1> SUFFICES ASSUME ProcHerdNext PROVE [Next]_supVars
  BY DEF vars
<1>1. CASE RunStep
  BY <1>1 DEF RunStep, Next, Startup, Environment
<1> QED
  BY <1>1, CommandStep DEF ProcHerdNext

(* Nothing the commands do to state.json, the stop request and the lock goes *)
(* beyond what the supervisor's own theorems allow for.                      *)
THEOREM CommandsKeepToTheEnvironment == ProcHerdSafeSpec => RunIsSupervised
<1>1. ProcHerdInit => Init
  BY DEF ProcHerdInit
<1> QED
  BY <1>1, StepIsSupervised, PTL DEF ProcHerdSafeSpec, RunIsSupervised, SafeSpec

(* Among all these commands, whatever they ask of the run, its readers see   *)
(* what RunContract promises.                                                *)
THEOREM HerdKeepsContract == ProcHerdSafeSpec => ContractSpec
BY CommandsKeepToTheEnvironment, SupervisorKeepsContract DEF RunIsSupervised

-----------------------------------------------------------------------------
(* What a command has seen of a run stays true of it. *)

(* state.json never claims more than the supervisor has in memory, and a    *)
(* run that is running or stopping has its process recorded.                *)
RecordedInv ==
  /\ durable.pid => mem.pid
  /\ durable.readiness = "ready" => mem.readiness = "ready"
  /\ mem.status \in {"running", "stopping"} => mem.pid
  /\ durable.status \in {"running", "stopping"} => durable.pid

LEMMA RecordedStep ==
  TypeOK /\ SupervisionInv /\ RecordedInv /\ [Next]_supVars => RecordedInv'
<1> SUFFICES ASSUME TypeOK, SupervisionInv, RecordedInv, [Next]_supVars
             PROVE  RecordedInv'
  OBVIOUS
<1>0. mem \in RunStates /\ durable \in RunStates
  BY DEF TypeOK
<1> USE <1>0 DEF RunStates, RecordedInv
<1>1. CASE UNCHANGED mem /\ UNCHANGED durable
  BY <1>1
<1>2. CASE UNCHANGED mem /\ durable' = mem
  BY <1>2
<1>3. CASE LaunchFails
  BY <1>3 DEF LaunchFails
<1>4. CASE ClaimRun
  <2>1. mem' \in {mem, [durable EXCEPT !.status = "starting"]}
    BY <1>4 DEF ClaimRun
  <2>2. durable' \in {durable, mem'}
    BY <1>4 DEF ClaimRun, Persist
  <2>3. mem' = mem => durable' \in {durable, mem}
    BY <2>2
  <2> QED
    BY <2>1, <2>2, <2>3
<1>5. CASE Drain
  <2>1. \/ mem' = mem /\ durable' = durable
        \/ \E r \in {"ready", "timed_out"} :
             /\ mem.readiness = "pending" /\ mem' = [mem EXCEPT !.readiness = r]
             /\ durable' \in {durable, mem'}
    BY <1>5 DEF Drain, Persist
  <2> QED
    BY <2>1
<1>6. CASE MarkSupervisorFailed
  <2>1. \/ durable' = durable
        \/ durable' = [LeaseReleased(durable) EXCEPT
                         !.status = "failed", !.reason = "supervisor_failed",
                         !.failure = err]
    BY <1>6 DEF MarkSupervisorFailed
  <2>2. durable'.pid = durable.pid /\ durable'.readiness = durable.readiness
    BY <2>1 DEF LeaseReleased
  <2>3. durable' = durable \/ durable'.status = "failed"
    BY <2>1 DEF LeaseReleased
  <2>4. mem' = mem
    BY <1>6 DEF MarkSupervisorFailed
  <2> QED
    BY <2>2, <2>3, <2>4
<1>7. CASE TakeStopRequest \/ HitRuntimeLimit
  <2>1. mem.status = "running" /\ durable' = durable
    BY <1>7 DEF TakeStopRequest, HitRuntimeLimit, SupervisionInv, MemInv, CurrentStatus,
       Supervising
  <2>2. mem'.pid = mem.pid /\ mem'.readiness = mem.readiness
    <3>1. CASE TakeStopRequest
      BY <3>1 DEF TakeStopRequest, BeginStopping
    <3>2. CASE HitRuntimeLimit
      BY <3>2 DEF HitRuntimeLimit, BeginStopping
    <3> QED
      BY <1>7, <3>1, <3>2
  <2> QED
    BY <2>1, <2>2
<1>8. CASE AcquireLeases \/ ReleaseUnspawned \/ ReapLeader \/ ForceStop
  <2>1. /\ durable' = durable
        /\ mem'.pid = mem.pid /\ mem'.readiness = mem.readiness
        /\ mem'.status = mem.status
    BY <1>8 DEF AcquireLeases, ReleaseUnspawned, Release, LeaseReleased, ReapLeader, ForceStop
  <2> QED
    BY <2>1
<1>9. CASE SpawnChild \/ SpawnFails
  <2>1. durable' = durable /\ mem'.readiness = mem.readiness
    BY <1>9 DEF SpawnChild, SpawnFails
  <2>2. mem'.pid \/ (mem'.pid = mem.pid /\ mem'.status = "failed")
    BY <1>9 DEF SpawnChild, SpawnFails
  <2> QED
    BY <2>1, <2>2
<1>10. CASE CloseLogs
  BY <1>10 DEF CloseLogs
<1>11. CASE ReleaseLeases
  <2>1. /\ durable' = durable
        /\ mem'.pid = mem.pid /\ mem'.readiness = mem.readiness
        /\ mem' = mem \/ mem'.status \in {"exited", "stopped"}
    BY <1>11 DEF ReleaseLeases, Release, LeaseReleased
  <2> QED
    BY <2>1
<1>12. CASE RecordState \/ RecordUnspawned \/ StillRunning
  BY <1>1, <1>2, <1>12 DEF RecordState, RecordUnspawned, StillRunning, Persist
<1>13. CASE \/ Launch \/ AcquireLock \/ LockError \/ MissStopRequest
            \/ StopRequestAppears \/ NoControl \/ WaitFails \/ DrainTimeout
            \/ DropChild \/ DropLeases \/ Unlock \/ Crash \/ Clock \/ Environment
  BY <1>1, <1>13 DEF Launch, AcquireLock, LockError, MissStopRequest,
     StopRequestAppears, NoControl, WaitFails, DrainTimeout, DropChild, DropLeases, Unlock,
     Crash, Clock, GracePasses, LimitPasses, Environment, PruneEntries, RequestStop, ProbeLock, UnprobeLock
<1>14. CASE OS \/ UNCHANGED supVars
  BY <1>1, <1>14 DEF OS, Fork, Escape, LeaderExits, GroupExits, EscapeeExits,
     ProcessesUnchanged, supVars
<1> QED
  BY <1>3, <1>4, <1>5, <1>6, <1>7, <1>8, <1>9, <1>10, <1>11, <1>12, <1>13, <1>14
     DEF Next, Startup, SupervisorStep

LEMMA GoneStep ==
  ASSUME [Next]_supVars, pc = "gone"
  PROVE  pc' = "gone" /\ durable' = durable
<1>1. CASE Startup
  BY <1>1 DEF Startup, Launch, LaunchFails, AcquireLock, LockError
<1>2. CASE SupervisorStep
  BY <1>2 DEF SupervisorStep, ClaimRun, AcquireLeases, RecordState, Recording,
     SpawnChild, SpawnFails, ReleaseUnspawned, RecordUnspawned, Drain,
     TakeStopRequest, MissStopRequest, StopRequestAppears, HitRuntimeLimit, ForceStop,
     NoControl, StillRunning, WaitFails, ReapLeader, CloseLogs, DrainTimeout,
     ReleaseLeases, DropChild, DropLeases, MarkSupervisorFailed, Unlock
<1>3. CASE Crash
  BY <1>3 DEF Crash
<1>4. CASE OS \/ Clock \/ Environment \/ UNCHANGED supVars
  BY <1>4 DEF OS, Fork, Escape, LeaderExits, GroupExits, EscapeeExits,
     ProcessesUnchanged, Clock, GracePasses, LimitPasses, Environment, PruneEntries, RequestStop,
     ProbeLock, UnprobeLock, supVars
<1> QED
  BY <1>1, <1>2, <1>3, <1>4 DEF Next

(* What a write of state.json can be. *)
LEMMA WrittenState ==
  ASSUME TypeOK, SupervisionInv, RecordedInv, [Next]_supVars
  PROVE  \/ durable' = durable
         \/ /\ durable'.status # "created"
            /\ durable.pid => durable'.pid
            /\ durable.readiness = "ready" => durable'.readiness = "ready"
<1>0. mem \in RunStates /\ durable \in RunStates
  BY DEF TypeOK
<1> USE <1>0 DEF RunStates, RecordedInv
<1>1. CASE LaunchFails
  BY <1>1 DEF LaunchFails
<1>2. CASE ClaimRun
  <2>1. \/ durable' = durable
        \/ durable' = [durable EXCEPT !.status = "starting"]
    BY <1>2 DEF ClaimRun, Persist
  <2> QED
    BY <2>1
<1>3. CASE RecordState
  <2>1. pc \in Recording => mem.status # "created"
    BY DEF SupervisionInv, MemInv, CurrentStatus, FinalStatus, Supervising, Recording
  <2>2. pc \in Recording /\ durable' \in {durable, mem}
    BY <1>3 DEF RecordState, Persist
  <2> QED
    BY <2>1, <2>2
<1>4. CASE RecordUnspawned
  <2>1. mem.status = "failed" /\ durable' \in {durable, mem}
    BY <1>4 DEF RecordUnspawned, SupervisionInv, MemInv
  <2> QED
    BY <2>1
<1>5. CASE StillRunning
  <2>1. mem.status # "created" /\ durable' \in {durable, mem}
    BY <1>5 DEF StillRunning, Persist, SupervisionInv, MemInv, CurrentStatus, Supervising
  <2> QED
    BY <2>1
<1>6. CASE Drain
  <2>1. mem.status # "created"
    BY <1>6 DEF Drain, SupervisionInv, MemInv, CurrentStatus, Supervising
  <2>2. \/ durable' = durable
        \/ \E r \in {"ready", "timed_out"} :
             mem.readiness = "pending" /\ durable' = [mem EXCEPT !.readiness = r]
    BY <1>6 DEF Drain, Persist
  <2> QED
    BY <2>1, <2>2
<1>7. CASE MarkSupervisorFailed
  <2>1. \/ durable' = durable
        \/ durable' = [LeaseReleased(durable) EXCEPT
                         !.status = "failed", !.reason = "supervisor_failed",
                         !.failure = err]
    BY <1>7 DEF MarkSupervisorFailed
  <2> DEFINE released == LeaseReleased(durable)
  <2>2. released \in RunStates
    BY LeaseReleasedType
  <2>3. released.pid = durable.pid /\ released.readiness = durable.readiness
    BY DEF LeaseReleased
  <2> HIDE DEF released
  <2>4. durable' = durable \/ durable' = [released EXCEPT !.status = "failed",
           !.reason = "supervisor_failed", !.failure = err]
    BY <2>1 DEF released
  <2>5. \/ durable' = durable
        \/ /\ durable'.status = "failed"
           /\ durable'.pid = released.pid /\ durable'.readiness = released.readiness
    BY <2>2, <2>4
  <2> QED
    BY <2>3, <2>5
<1>8. CASE \/ Launch \/ AcquireLock \/ LockError \/ AcquireLeases \/ SpawnChild
           \/ SpawnFails \/ ReleaseUnspawned \/ TakeStopRequest \/ MissStopRequest
           \/ StopRequestAppears \/ HitRuntimeLimit \/ ForceStop \/ NoControl
           \/ WaitFails \/ ReapLeader \/ CloseLogs \/ DrainTimeout \/ ReleaseLeases
           \/ DropChild \/ DropLeases \/ Unlock
  BY <1>8 DEF Launch, AcquireLock, LockError, AcquireLeases, SpawnChild, SpawnFails,
     ReleaseUnspawned, TakeStopRequest, MissStopRequest, StopRequestAppears,
     HitRuntimeLimit, ForceStop, NoControl, WaitFails, ReapLeader, CloseLogs,
     DrainTimeout, ReleaseLeases, DropChild, DropLeases, Unlock
<1>9. CASE Crash \/ OS \/ Clock \/ Environment \/ UNCHANGED supVars
  BY <1>9 DEF Crash, OS, Fork, Escape, LeaderExits, GroupExits, EscapeeExits,
     ProcessesUnchanged, Clock, GracePasses, LimitPasses, Environment, PruneEntries, RequestStop,
     ProbeLock, UnprobeLock, supVars
<1> QED
  BY <1>1, <1>2, <1>3, <1>4, <1>5, <1>6, <1>7, <1>8, <1>9 DEF Next, Startup, SupervisorStep

(* Nothing that a command has read is taken back, and nothing follows the   *)
(* supervisor's exit.                                                       *)
Onward ==
  /\ pc = "gone" => pc' = "gone" /\ durable' = durable
  /\ IsTerminal(durable) => durable' = durable
  /\ durable.status # "created" => durable'.status # "created"
  /\ durable.pid => durable'.pid
  /\ durable.readiness = "ready" => durable'.readiness = "ready"

LEMMA StepsGoOnward ==
  ASSUME TypeOK, SupervisionInv, RecordedInv, [Next]_supVars
  PROVE  Onward
BY GoneStep, TerminalStep, WrittenState DEF Onward

(* A free lock means that the supervisor has not come or has gone: the first *)
(* is out of the question once the run has left "created".                   *)
LEMMA FreeLock ==
  ASSUME TypeOK, SupervisionInv, lock = "free", durable.status # "created"
  PROVE  pc = "gone"
BY DEF TypeOK, SupervisionInv, LockInv, DurableInv, Holding

-----------------------------------------------------------------------------
(* The invariant of the commands, each on its own. *)

(* Where a command has read the state at least once. *)
Reading == {"probe", "unprobe", "reread", "decide", "recheck", "release",
            "restate", "delete"}

(* What a command holds of the run is still so. *)
ViewInv(c) ==
  LET v == view[c] IN
  /\ at[c] \in Reading => v.first # "none"
  /\ v.first \notin {"none", "created"} => durable.status # "created"
  /\ IsTerminal(v.state) => IsTerminal(durable)
  /\ v.state.status \in {"running", "stopping"} => durable.pid
  /\ v.state.readiness = "ready" => durable.readiness = "ready"

(* A lock that was free after the run had left "created" was free for good, *)
(* and a live state that is paired with it is the last one.                 *)
InactiveInv(c) ==
  LET v == view[c] IN
  /\ at[c] \in {"probe", "unprobe", "reread"} => ~v.active
  /\ at[c] \in {"unprobe", "reread", "decide"} /\ ~v.active /\ v.first # "created"
       => pc = "gone"
  /\ at[c] = "decide" /\ ~v.active /\ v.first # "created" /\ IsLive(v.state)
       => IsLive(durable)

(* stop waits for the lock alone only once the run has ended; gc removes    *)
(* what had ended before it found the lock free.                            *)
EndedInv(c) ==
  /\ phase[c] = "settling" => IsTerminal(durable)
  /\ at[c] = "recheck" => IsTerminal(durable)
  /\ at[c] \in {"release", "restate", "delete"} => pc = "gone" /\ IsTerminal(durable)

(* The answers, true when given and ever after. *)
AnswerIsTrue(c, r, first) ==
  /\ r \in OrphanAnswers /\ first # "created" => pc = "gone" /\ IsLive(durable)
  /\ r \in EndAnswers \/ (Command[c] = "wait_exit" /\ r = "satisfied") =>
       /\ IsTerminal(durable)
       /\ first # "created" => pc = "gone"
  /\ r = "started" => durable.pid
  /\ Command[c] = "wait_ready" /\ r = "satisfied" => durable.readiness = "ready"

AnswerInv(c) ==
  /\ result[c] # "none" => at[c] = "done"
  /\ AnswerIsTrue(c, result[c], view[c].first)

CommandInv(c) == ViewInv(c) /\ InactiveInv(c) /\ EndedInv(c) /\ AnswerInv(c)

HerdInv ==
  /\ \A c \in Observers : CommandInv(c)
  /\ ~present => pc = "gone" /\ IsTerminal(durable)

-----------------------------------------------------------------------------
(* Types. *)

LEMMA SnapshotType ==
  ASSUME NEW s \in RunStates
  PROVE  /\ Snapshot(s) \in [status : LiveStatuses \cup TerminalStatuses,
                             pid : BOOLEAN, readiness : ReadinessStatuses]
         /\ Snapshot(s).status = s.status /\ Snapshot(s).pid = s.pid
         /\ Snapshot(s).readiness = s.readiness
BY DEF Snapshot, RunStates

LEMMA NoViewType ==
  ASSUME NEW first \in {"none"} \cup LiveStatuses \cup TerminalStatuses
  PROVE  /\ NoView \in Observations
         /\ [NoView EXCEPT !.first = first] \in Observations
         /\ [NoView EXCEPT !.first = first].first = first
         /\ [NoView EXCEPT !.first = first].state = NoView.state
BY DEF NoView, Observations, LiveStatuses, ReadinessStatuses

(* The ways a command goes on keep the types. *)
LEMMA GotoType ==
  ASSUME ClientTypeOK, NEW c \in Observers,
         NEW next \in {"read", "probe", "unprobe", "reread", "decide", "recheck",
                       "release", "restate", "delete"}, Goto(c, next)
  PROVE  ClientTypeOK'
BY DEF ClientTypeOK, Goto

LEMMA AnswerType ==
  ASSUME ClientTypeOK, NEW c \in Observers, NEW r \in Results, Answer(c, r),
         phase' \in [Observers -> {"first", "settling", "polling"}],
         activeSeen' \in BOOLEAN, present' \in BOOLEAN
  PROVE  ClientTypeOK'
<1>1. view[c].first \in {"none"} \cup LiveStatuses \cup TerminalStatuses
  BY DEF ClientTypeOK, Observations
<1> QED
  BY <1>1, NoViewType DEF ClientTypeOK, Answer

LEMMA LookAgainType ==
  ASSUME ClientTypeOK, NEW c \in Observers, LookAgain(c),
         phase' \in [Observers -> {"first", "settling", "polling"}],
         activeSeen' \in BOOLEAN, present' \in BOOLEAN
  PROVE  ClientTypeOK'
<1>1. NoView \in Observations
  BY NoViewType
<1> QED
  BY <1>1 DEF ClientTypeOK, LookAgain

LEMMA LoopOrTimeOutType ==
  ASSUME ClientTypeOK, NEW c \in Observers, LoopOrTimeOut(c),
         phase' \in [Observers -> {"first", "settling", "polling"}],
         activeSeen' \in BOOLEAN, present' \in BOOLEAN
  PROVE  ClientTypeOK'
BY LookAgainType, AnswerType DEF LoopOrTimeOut, Results

LEMMA CommandStepType ==
  ASSUME TypeOK, ClientTypeOK, NEW c \in Observers, ClientStep(c)
  PROVE  ClientTypeOK'
<1>1. /\ phase \in [Observers -> {"first", "settling", "polling"}]
      /\ activeSeen \in BOOLEAN /\ present \in BOOLEAN
      /\ view \in [Observers -> Observations]
  BY DEF ClientTypeOK
<1>2. view[c].active \in BOOLEAN /\ (activeSeen \/ view[c].active) \in BOOLEAN
  BY <1>1 DEF Observations
<1>3. CASE RunMissing(c) \/ GcRecheckHeld(c) \/ GcDeletes(c) \/ StartCannotLaunch(c)
           \/ StatusAnswers(c)
  BY <1>1, <1>3, AnswerType DEF RunMissing, GcRecheckHeld, GcDeletes,
     StartCannotLaunch, StatusAnswers, Results
<1>4. CASE ReadState(c) \/ RereadState(c)
  <2>1. Snapshot(durable) \in [status : LiveStatuses \cup TerminalStatuses,
                               pid : BOOLEAN, readiness : ReadinessStatuses]
    BY SnapshotType DEF TypeOK
  <2>2. durable.status \in LiveStatuses \cup TerminalStatuses
    BY DEF TypeOK, RunStates
  <2>3. CASE ReadState(c)
    BY <2>1, <2>2, <2>3 DEF ReadState, ClientTypeOK, Observations
  <2>4. CASE RereadState(c)
    <3>1. [view[c] EXCEPT !.state = Snapshot(durable)] \in Observations
      BY <1>1, <2>1 DEF Observations
    <3>2. view' = [view EXCEPT ![c] = [view[c] EXCEPT !.state = Snapshot(durable)]]
      BY <2>4 DEF RereadState
    <3> QED
      BY <2>4, <3>1, <3>2 DEF RereadState, ClientTypeOK
  <2> QED
    BY <1>4, <2>3, <2>4
<1>5. CASE ProbeFree(c) \/ Unprobe(c) \/ StartLaunches(c) \/ GcRecheckFree(c)
           \/ GcReleases(c)
  BY <1>5, GotoType DEF ProbeFree, Unprobe, StartLaunches, GcRecheckFree, GcReleases
<1>6. CASE ProbeHeld(c)
  <2>1. [view[c] EXCEPT !.active = TRUE] \in Observations
    BY <1>1 DEF Observations
  <2>2. view' = [view EXCEPT ![c] = [view[c] EXCEPT !.active = TRUE]]
    BY <1>6 DEF ProbeHeld
  <2> QED
    BY <1>6, <2>1, <2>2 DEF ProbeHeld, ClientTypeOK
<1>7. CASE StartAnswers(c)
  <2>1. LoopOrTimeOut(c) \/ \E r \in Results : Answer(c, r)
    BY <1>7 DEF StartAnswers, Results
  <2>2. phase' = phase /\ present' = present /\ activeSeen' \in BOOLEAN
    BY <1>2, <1>7 DEF StartAnswers
  <2> QED
    BY <1>1, <2>1, <2>2, LoopOrTimeOutType, AnswerType
<1>8. CASE StartWatches(c)
  <2>1. LookAgain(c) \/ \E r \in Results : Answer(c, r)
    BY <1>8 DEF StartWatches, Results
  <2>2. phase' = phase /\ present' = present /\ activeSeen' \in BOOLEAN
    BY <1>2, <1>8 DEF StartWatches
  <2> QED
    BY <1>1, <2>1, <2>2, LookAgainType, AnswerType
<1>9. CASE WaitDecides(c)
  <2>1. WaitVerdict(Command[c], view[c]) \in Results
    BY <1>9 DEF WaitDecides, WaitVerdict, Results
  <2>2. LoopOrTimeOut(c) \/ \E r \in Results : Answer(c, r)
    BY <1>9, <2>1 DEF WaitDecides, Results
  <2> QED
    BY <1>1, <1>9, <2>2, LoopOrTimeOutType, AnswerType DEF WaitDecides
<1>10. CASE StopDecides(c)
  <2>1. \/ LoopOrTimeOut(c) \/ LookAgain(c)
        \/ \E r \in {"already_terminal", "orphaned", "io"} : Answer(c, r)
    BY <1>10 DEF StopDecides
  <2>2. activeSeen' = activeSeen /\ present' = present
    BY <1>10 DEF StopDecides
  <2>3. phase' \in [Observers -> {"first", "settling", "polling"}]
    BY <1>1, <1>10 DEF StopDecides
  <2> QED
    BY <1>1, <2>1, <2>2, <2>3, LoopOrTimeOutType, LookAgainType, AnswerType DEF Results
<1>11. CASE StopSettling(c) \/ StopPolling(c)
  <2>1. LoopOrTimeOut(c) \/ \E r \in Results : Answer(c, r)
    BY <1>11 DEF StopSettling, StopPolling, Results
  <2> QED
    BY <1>1, <1>11, <2>1, LoopOrTimeOutType, AnswerType DEF StopSettling, StopPolling
<1>12. CASE GcDecides(c)
  BY <1>1, <1>12, AnswerType DEF GcDecides, ClientTypeOK, Results
<1>13. CASE GcRereads(c)
  BY <1>1, <1>13, AnswerType DEF GcRereads, ClientTypeOK, Results
<1> QED
  BY <1>3, <1>4, <1>5, <1>6, <1>7, <1>8, <1>9, <1>10, <1>11, <1>12, <1>13 DEF ClientStep

-----------------------------------------------------------------------------
(* One command's part of the invariant. *)

(* A true answer stays true. *)
LEMMA AnswersStayTrue ==
  ASSUME NEW c, NEW r, NEW first, Onward, AnswerIsTrue(c, r, first)
  PROVE  AnswerIsTrue(c, r, first)'
BY DEF Onward, AnswerIsTrue, IsTerminal, IsLive

(* Whatever others do, a command that stands still keeps its part. *)
LEMMA CommandKept ==
  ASSUME NEW c \in Observers, CommandInv(c), Onward,
         at'[c] = at[c], view'[c] = view[c], result'[c] = result[c],
         phase'[c] = phase[c]
  PROVE  CommandInv(c)'
<1>1. ViewInv(c)'
  BY DEF CommandInv, ViewInv, Onward, IsTerminal
<1>2. InactiveInv(c)'
  BY DEF CommandInv, InactiveInv, Onward, IsLive
<1>3. EndedInv(c)'
  BY DEF CommandInv, EndedInv, Onward, IsTerminal
<1>4. AnswerInv(c)'
  BY DEF CommandInv, AnswerInv, AnswerIsTrue, Onward, IsTerminal, IsLive
<1> QED
  BY <1>1, <1>2, <1>3, <1>4 DEF CommandInv

LEMMA AnswerKeeps ==
  ASSUME ClientTypeOK, NEW c \in Observers, NEW r, CommandInv(c), Onward,
         Answer(c, r), AnswerIsTrue(c, r, view[c].first),
         phase'[c] = "settling" => IsTerminal(durable)
  PROVE  CommandInv(c)'
<1>1. /\ at'[c] = "done" /\ result'[c] = r
      /\ view'[c].first = view[c].first /\ view'[c].state = NoView.state
  BY DEF Answer, ClientTypeOK, NoView
<1>2. ViewInv(c)'
  BY <1>1 DEF CommandInv, ViewInv, Onward, Reading, NoView, IsTerminal, TerminalStatuses
<1>3. InactiveInv(c)'
  BY <1>1 DEF InactiveInv
<1>4. EndedInv(c)'
  BY <1>1 DEF EndedInv, Onward, IsTerminal
<1>5. AnswerInv(c)'
  <2>1. AnswerIsTrue(c, r, view[c].first)
    OBVIOUS
  <2> QED
    BY <1>1, <2>1 DEF AnswerInv, AnswerIsTrue, Onward, IsTerminal, IsLive
<1> QED
  BY <1>2, <1>3, <1>4, <1>5 DEF CommandInv

LEMMA LookAgainKeeps ==
  ASSUME ClientTypeOK, NEW c \in Observers, CommandInv(c), Onward, LookAgain(c),
         result[c] = "none", phase'[c] = "settling" => IsTerminal(durable)
  PROVE  CommandInv(c)'
<1>1. at'[c] = "read" /\ result'[c] = "none" /\ view'[c] = NoView
  BY DEF LookAgain, ClientTypeOK
<1>2. ViewInv(c)'
  BY <1>1 DEF ViewInv, Reading, NoView, IsTerminal, TerminalStatuses
<1>3. InactiveInv(c)'
  BY <1>1 DEF InactiveInv
<1>4. EndedInv(c)'
  BY <1>1 DEF EndedInv, Onward, IsTerminal
<1>5. AnswerInv(c)'
  BY <1>1 DEF AnswerInv, AnswerIsTrue, OrphanAnswers, EndAnswers
<1> QED
  BY <1>2, <1>3, <1>4, <1>5 DEF CommandInv

(* Answers that claim nothing of the run. *)
LEMMA EmptyAnswers ==
  ASSUME NEW c, NEW first,
         NEW r \in {"launch_failed", "timeout", "shown", "readiness_failed", "usage",
                    "kept", "refused", "deleted", "not_found", "io", "none"}
  PROVE  AnswerIsTrue(c, r, first)
BY DEF AnswerIsTrue, OrphanAnswers, EndAnswers

LEMMA LoopOrTimeOutKeeps ==
  ASSUME ClientTypeOK, NEW c \in Observers, CommandInv(c), Onward, LoopOrTimeOut(c),
         result[c] = "none", phase'[c] = "settling" => IsTerminal(durable)
  PROVE  CommandInv(c)'
<1>1. AnswerIsTrue(c, "timeout", view[c].first)
  BY EmptyAnswers
<1> QED
  BY <1>1, LookAgainKeeps, AnswerKeeps DEF LoopOrTimeOut

(* What a command may conclude from a finished observation. *)
LEMMA Conclusions ==
  ASSUME ClientTypeOK, NEW c \in Observers, CommandInv(c), at[c] = "decide"
  PROVE  /\ Orphaned(view[c]) /\ view[c].first # "created" => pc = "gone" /\ IsLive(durable)
         /\ Settled(view[c]) =>
              IsTerminal(durable) /\ (view[c].first # "created" => pc = "gone")
         /\ IsTerminal(view[c].state) => IsTerminal(durable)
         /\ view[c].state.status \in {"running", "stopping"} => durable.pid
         /\ view[c].state.readiness = "ready" => durable.readiness = "ready"
         /\ IsTerminal(view[c].state) <=> ~IsLive(view[c].state)
         /\ result[c] = "none"
<1>1. IsTerminal(view[c].state) <=> ~IsLive(view[c].state)
  BY DEF ClientTypeOK, Observations, IsTerminal, IsLive, TerminalStatuses, LiveStatuses
<1> QED
  BY <1>1 DEF CommandInv, ViewInv, InactiveInv, AnswerInv, Orphaned, Settled

-----------------------------------------------------------------------------
(* A command's own steps. *)

LEMMA ObservationSteps ==
  ASSUME TypeOK, SupervisionInv, RecordedInv, ClientTypeOK, NEW c \in Observers,
         CommandInv(c), Onward,
         ReadState(c) \/ ProbeFree(c) \/ ProbeHeld(c) \/ Unprobe(c) \/ RereadState(c)
  PROVE  CommandInv(c)'
<1>1. /\ at \in [Observers -> {"launch", "read", "probe", "unprobe", "reread", "decide",
                               "recheck", "release", "restate", "delete", "done"}]
      /\ view \in [Observers -> Observations]
  BY DEF ClientTypeOK
<1>2. /\ result' = result /\ phase' = phase
      /\ at[c] # "done" /\ at'[c] \notin {"recheck", "release", "restate", "delete"}
  BY <1>1 DEF ReadState, ProbeFree, ProbeHeld, Unprobe, RereadState, Goto
<1>3. EndedInv(c)'
  BY <1>2 DEF CommandInv, EndedInv, Onward, IsTerminal
<1>4. AnswerInv(c)'
  BY <1>2 DEF CommandInv, AnswerInv, AnswerIsTrue, OrphanAnswers, EndAnswers
<1>5. CASE ReadState(c)
  <2>1. /\ at'[c] = "probe" /\ durable' = durable
        /\ view'[c] = [first |-> durable.status, active |-> FALSE,
                       state |-> Snapshot(durable)]
    BY <1>1, <1>5 DEF ReadState, supVars
  <2>2. /\ view'[c].first = durable.status /\ ~view'[c].active
        /\ view'[c].state.status = durable.status
        /\ view'[c].state.readiness = durable.readiness
    BY <2>1 DEF Snapshot
  <2>3. durable.status # "none"
    BY DEF TypeOK, RunStates, LiveStatuses, TerminalStatuses
  <2>4. ViewInv(c)'
    BY <2>1, <2>2, <2>3 DEF ViewInv, RecordedInv, IsTerminal
  <2>5. InactiveInv(c)'
    BY <2>1, <2>2 DEF InactiveInv
  <2> QED
    BY <1>3, <1>4, <2>4, <2>5 DEF CommandInv
<1>6. CASE ProbeFree(c)
  <2>1. at[c] = "probe" /\ at'[c] = "unprobe" /\ view' = view /\ lock = "free"
    BY <1>1, <1>6 DEF ProbeFree, Goto, ProbeLock
  <2>2. view[c].first # "created" => pc = "gone"
    BY <2>1, FreeLock DEF CommandInv, ViewInv, Reading
  <2>3. ViewInv(c)'
    BY <2>1 DEF CommandInv, ViewInv, Reading, Onward, IsTerminal
  <2>4. InactiveInv(c)'
    BY <2>1, <2>2 DEF CommandInv, InactiveInv, Onward
  <2> QED
    BY <1>3, <1>4, <2>3, <2>4 DEF CommandInv
<1>7. CASE ProbeHeld(c)
  <2>1. /\ at[c] = "probe" /\ at'[c] = "decide"
        /\ view'[c] = [view[c] EXCEPT !.active = TRUE]
    BY <1>1, <1>7 DEF ProbeHeld
  <2>2. /\ view'[c].first = view[c].first /\ view'[c].active
        /\ view'[c].state = view[c].state
    BY <1>1, <2>1 DEF Observations
  <2>3. ViewInv(c)'
    BY <2>1, <2>2 DEF CommandInv, ViewInv, Reading, Onward, IsTerminal
  <2>4. InactiveInv(c)'
    BY <2>1, <2>2 DEF InactiveInv
  <2> QED
    BY <1>3, <1>4, <2>3, <2>4 DEF CommandInv
<1>8. CASE Unprobe(c)
  <2>1. /\ at[c] = "unprobe" /\ view' = view
        /\ at'[c] = IF IsLive(view[c].state) THEN "reread" ELSE "decide"
    BY <1>1, <1>8 DEF Unprobe, Goto
  <2>2. ViewInv(c)'
    BY <2>1 DEF CommandInv, ViewInv, Reading, Onward, IsTerminal
  <2>3. InactiveInv(c)'
    BY <2>1 DEF CommandInv, InactiveInv, Onward, IsLive
  <2> QED
    BY <1>3, <1>4, <2>2, <2>3 DEF CommandInv
<1>9. CASE RereadState(c)
  <2>1. /\ at[c] = "reread" /\ at'[c] = "decide" /\ durable' = durable /\ pc' = pc
        /\ view'[c] = [view[c] EXCEPT !.state = Snapshot(durable)]
    BY <1>1, <1>9 DEF RereadState, supVars
  <2>2. /\ view'[c].first = view[c].first /\ view'[c].active = view[c].active
        /\ view'[c].state.status = durable.status
        /\ view'[c].state.readiness = durable.readiness
    BY <1>1, <2>1 DEF Observations, Snapshot
  <2>3. ViewInv(c)'
    BY <2>1, <2>2 DEF CommandInv, ViewInv, Reading, RecordedInv, IsTerminal
  <2>4. InactiveInv(c)'
    BY <2>1, <2>2 DEF CommandInv, InactiveInv, IsLive
  <2> QED
    BY <1>3, <1>4, <2>3, <2>4 DEF CommandInv
<1> QED
  BY <1>5, <1>6, <1>7, <1>8, <1>9

LEMMA StartSteps ==
  ASSUME ClientTypeOK, NEW c \in Observers, CommandInv(c), Onward,
         StartLaunches(c) \/ StartCannotLaunch(c) \/ StartAnswers(c) \/ StartWatches(c)
  PROVE  CommandInv(c)'
<1>1. /\ phase' = phase
      /\ phase'[c] = "settling" => IsTerminal(durable)
  BY DEF StartLaunches, StartCannotLaunch, StartAnswers, StartWatches, Goto, CommandInv,
     EndedInv
<1>2. CASE StartLaunches(c)
  <2>1. /\ at[c] = "launch" /\ at'[c] = "read"
        /\ view' = view /\ result' = result /\ phase' = phase
    BY <1>2 DEF StartLaunches, Goto, ClientTypeOK
  <2>2. ViewInv(c)'
    BY <2>1 DEF CommandInv, ViewInv, Reading, Onward, IsTerminal
  <2>3. InactiveInv(c)' /\ EndedInv(c)'
    BY <2>1 DEF CommandInv, InactiveInv, EndedInv, Onward, IsTerminal
  <2>4. AnswerInv(c)'
    BY <2>1 DEF CommandInv, AnswerInv, AnswerIsTrue, OrphanAnswers, EndAnswers
  <2> QED
    BY <2>2, <2>3, <2>4 DEF CommandInv
<1>3. CASE StartCannotLaunch(c)
  BY <1>1, <1>3, AnswerKeeps, EmptyAnswers DEF StartCannotLaunch
<1>4. CASE StartAnswers(c)
  <2> DEFINE v == view[c]
             r == IF v.state.status = "failed" THEN "start_failed"
                  ELSE IF Orphaned(v) THEN "supervisor_exit"
                  ELSE IF IsTerminal(v.state) THEN "ended" ELSE "started"
  <2>1. /\ at[c] = "decide" /\ PastStartup(v)
        /\ IF IsTerminal(v.state) /\ v.active THEN LoopOrTimeOut(c) ELSE Answer(c, r)
    BY <1>4 DEF StartAnswers
  <2>2. result[c] = "none"
    BY <2>1, Conclusions
  <2>3. ASSUME ~(IsTerminal(v.state) /\ v.active)
        PROVE  AnswerIsTrue(c, r, v.first)
    <3>1. CASE IsTerminal(v.state)
      <4>1. r \in {"start_failed", "ended"} /\ Settled(v)
        BY <2>3, <3>1 DEF Settled, Orphaned, IsTerminal, IsLive, LiveStatuses, TerminalStatuses
      <4> QED
        BY <2>1, <4>1, Conclusions DEF AnswerIsTrue, OrphanAnswers, EndAnswers
    <3>2. CASE ~IsTerminal(v.state)
      <4>1. v.state.status \in {"running", "stopping"}
        BY <2>1, <3>2 DEF PastStartup, ClientTypeOK, Observations, IsTerminal,
           LiveStatuses, TerminalStatuses
      <4>2. r = IF Orphaned(v) THEN "supervisor_exit" ELSE "started"
        BY <3>2, <4>1
      <4> QED
        BY <2>1, <4>1, <4>2, Conclusions DEF AnswerIsTrue, OrphanAnswers, EndAnswers
    <3> QED
      BY <3>1, <3>2
  <2> HIDE DEF r
  <2> QED
    BY <1>1, <2>1, <2>2, <2>3, LoopOrTimeOutKeeps, AnswerKeeps
<1>5. CASE StartWatches(c)
  <2> DEFINE v == view[c]
  <2>1. /\ at[c] = "decide" /\ ~PastStartup(v)
        /\ \/ ~v.active /\ Answer(c, "supervisor_exit")
           \/ LookAgain(c) \/ Answer(c, "timeout")
    BY <1>5 DEF StartWatches
  <2>2. IsLive(v.state) /\ result[c] = "none"
    BY <2>1, Conclusions DEF PastStartup, IsLive, LiveStatuses
  <2>3. ~v.active => AnswerIsTrue(c, "supervisor_exit", v.first)
    BY <2>1, <2>2, Conclusions DEF Orphaned, AnswerIsTrue, OrphanAnswers, EndAnswers
  <2> QED
    BY <1>1, <2>1, <2>2, <2>3, AnswerKeeps, LookAgainKeeps, EmptyAnswers
<1> QED
  BY <1>2, <1>3, <1>4, <1>5


LEMMA QuerySteps ==
  ASSUME ClientTypeOK, NEW c \in Observers, CommandInv(c), Onward,
         RunMissing(c) \/ StatusAnswers(c) \/ WaitDecides(c)
  PROVE  CommandInv(c)'
<1>1. /\ phase' = phase
      /\ phase'[c] = "settling" => IsTerminal(durable)
  BY DEF RunMissing, StatusAnswers, WaitDecides, CommandInv, EndedInv
<1>2. CASE RunMissing(c)
  BY <1>1, <1>2, AnswerKeeps, EmptyAnswers DEF RunMissing
<1>3. CASE StatusAnswers(c)
  <2>1. /\ at[c] = "decide" /\ Command[c] = "status"
        /\ \/ Orphaned(view[c]) /\ Answer(c, "orphaned")
           \/ Answer(c, "shown")
    BY <1>3 DEF StatusAnswers
  <2>2. Orphaned(view[c]) => AnswerIsTrue(c, "orphaned", view[c].first)
    BY <2>1, Conclusions DEF AnswerIsTrue, OrphanAnswers, EndAnswers
  <2> QED
    BY <1>1, <2>1, <2>2, AnswerKeeps, EmptyAnswers
<1>4. CASE WaitDecides(c)
  <2> DEFINE v == view[c]
             verdict == WaitVerdict(Command[c], v)
  <2>1. /\ at[c] = "decide"
        /\ Command[c] \in {"wait_running", "wait_ready", "wait_exit"}
        /\ \/ Orphaned(v) /\ Answer(c, "orphaned")
           \/ verdict # "none" /\ Answer(c, verdict)
           \/ LoopOrTimeOut(c)
    BY <1>4 DEF WaitDecides
  <2>2. Orphaned(v) => AnswerIsTrue(c, "orphaned", v.first)
    BY <2>1, Conclusions DEF AnswerIsTrue, OrphanAnswers, EndAnswers
  <2>3. verdict \in {"satisfied", "usage", "readiness_failed", "none"}
    BY <2>1 DEF WaitVerdict
  <2>4. AnswerIsTrue(c, verdict, v.first)
    <3>1. CASE verdict # "satisfied"
      BY <2>3, <3>1, EmptyAnswers
    <3>2. CASE verdict = "satisfied"
      <4>1. /\ Command[c] = "wait_exit" => Settled(v)
            /\ Command[c] = "wait_ready" => v.state.readiness = "ready"
        BY <3>2 DEF WaitVerdict
      <4> HIDE DEF verdict
      <4> QED
        BY <2>1, <3>2, <4>1, Conclusions DEF AnswerIsTrue, OrphanAnswers, EndAnswers
    <3> QED
      BY <3>1, <3>2
  <2>5. result[c] = "none"
    BY <2>1, Conclusions
  <2> HIDE DEF verdict
  <2> QED
    BY <1>1, <2>1, <2>2, <2>4, <2>5, AnswerKeeps, LoopOrTimeOutKeeps
<1> QED
  BY <1>2, <1>3, <1>4

LEMMA StopSteps ==
  ASSUME ClientTypeOK, NEW c \in Observers, CommandInv(c), Onward,
         StopDecides(c) \/ StopSettling(c) \/ StopPolling(c)
  PROVE  CommandInv(c)'
<1> DEFINE v == view[c]
<1>1. at[c] = "decide"
  BY DEF StopDecides, StopSettling, StopPolling
<1>2. /\ result[c] = "none"
      /\ phase[c] = "settling" => IsTerminal(durable)
  BY <1>1, Conclusions DEF CommandInv, EndedInv
<1>3. Orphaned(v) => AnswerIsTrue(c, "orphaned", v.first)
  BY <1>1, Conclusions DEF AnswerIsTrue, OrphanAnswers, EndAnswers
<1>4. Settled(v) => /\ AnswerIsTrue(c, "already_terminal", v.first)
                    /\ AnswerIsTrue(c, "stopped", v.first)
  BY <1>1, Conclusions DEF AnswerIsTrue, OrphanAnswers, EndAnswers
<1>5. CASE StopDecides(c)
  <2>1. \/ Settled(v) /\ Answer(c, "already_terminal") /\ phase' = phase
        \/ IsTerminal(v.state) /\ LoopOrTimeOut(c)
        \/ Orphaned(v) /\ Answer(c, "orphaned") /\ phase' = phase
        \/ phase' = [phase EXCEPT ![c] = "polling"] /\ LookAgain(c)
        \/ Answer(c, "io") /\ phase' = phase
    BY <1>5 DEF StopDecides, Settled
  <2>2. IsTerminal(v.state) => IsTerminal(durable)
    BY <1>1, Conclusions
  <2>3. phase' = [phase EXCEPT ![c] = "polling"] => phase'[c] # "settling"
    BY DEF ClientTypeOK
  <2>4. AnswerIsTrue(c, "io", v.first)
    BY EmptyAnswers
  <2> QED
    BY <1>2, <1>3, <1>4, <2>1, <2>2, <2>3, <2>4, AnswerKeeps, LookAgainKeeps,
       LoopOrTimeOutKeeps
<1>6. CASE StopSettling(c)
  <2>1. /\ phase[c] = "settling" /\ phase' = phase
        /\ \/ LoopOrTimeOut(c)
           \/ ~v.active /\ Answer(c, "already_terminal")
    BY <1>6 DEF StopSettling
  <2>2. ~v.active => AnswerIsTrue(c, "already_terminal", v.first)
    BY <1>1, <1>2, <2>1 DEF CommandInv, InactiveInv, AnswerIsTrue, OrphanAnswers,
       EndAnswers
  <2> QED
    BY <1>2, <2>1, <2>2, AnswerKeeps, LoopOrTimeOutKeeps
<1>7. CASE StopPolling(c)
  <2>1. /\ phase' = phase
        /\ \/ Settled(v) /\ Answer(c, "stopped")
           \/ ~Settled(v) /\ ~v.active /\ Answer(c, "orphaned")
           \/ LoopOrTimeOut(c)
    BY <1>7 DEF StopPolling
  <2>2. ~Settled(v) /\ ~v.active => Orphaned(v)
    BY <1>1, Conclusions DEF Settled, Orphaned
  <2> QED
    BY <1>2, <1>3, <1>4, <2>1, <2>2, AnswerKeeps, LoopOrTimeOutKeeps
<1> QED
  BY <1>5, <1>6, <1>7

LEMMA GcSteps ==
  ASSUME TypeOK, SupervisionInv, ClientTypeOK, NEW c \in Observers, CommandInv(c), Onward,
         \/ GcDecides(c) \/ GcRecheckFree(c) \/ GcRecheckHeld(c) \/ GcReleases(c)
         \/ GcRereads(c) \/ GcDeletes(c)
  PROVE  CommandInv(c)'
<1>1. /\ phase' = phase
      /\ phase'[c] = "settling" => IsTerminal(durable)
  BY DEF GcDecides, GcRecheckFree, GcRecheckHeld, GcReleases, GcRereads, GcDeletes, Goto,
     CommandInv, EndedInv
<1>2. CASE \E r \in {"kept", "refused", "deleted", "not_found"} : Answer(c, r)
  BY <1>1, <1>2, AnswerKeeps, EmptyAnswers
<1>3. ASSUME NEW next \in {"recheck", "release", "restate", "delete"},
             at' = [at EXCEPT ![c] = next], UNCHANGED <<view, result>>,
             at[c] \in Reading, IsTerminal(durable), next = "recheck" \/ pc = "gone"
      PROVE  CommandInv(c)'
  <2>1. at'[c] = next /\ view'[c] = view[c] /\ result'[c] = "none"
    BY <1>3 DEF ClientTypeOK, CommandInv, AnswerInv, Reading
  <2>2. ViewInv(c)'
    BY <1>3, <2>1 DEF CommandInv, ViewInv, Onward, IsTerminal
  <2>3. InactiveInv(c)' /\ EndedInv(c)'
    BY <1>1, <1>3, <2>1 DEF InactiveInv, EndedInv, Onward, IsTerminal
  <2>4. AnswerInv(c)'
    BY <2>1 DEF AnswerInv, AnswerIsTrue, OrphanAnswers, EndAnswers
  <2> QED
    BY <2>2, <2>3, <2>4 DEF CommandInv
<1>4. CASE GcDecides(c)
  <2>1. \/ Answer(c, "kept")
        \/ /\ Settled(view[c]) /\ at[c] = "decide"
           /\ at' = [at EXCEPT ![c] = "recheck"] /\ UNCHANGED <<view, result>>
    BY <1>4 DEF GcDecides
  <2> QED
    BY <1>2, <1>3, <2>1, Conclusions DEF Reading
<1>5. CASE GcRecheckFree(c)
  <2>1. /\ at[c] = "recheck" /\ lock = "free"
        /\ at' = [at EXCEPT ![c] = "release"] /\ UNCHANGED <<view, result>>
    BY <1>5 DEF GcRecheckFree, ProbeLock, Goto
  <2>2. IsTerminal(durable)
    BY <2>1 DEF CommandInv, EndedInv
  <2>3. pc = "gone"
    BY <2>1, <2>2, FreeLock DEF IsTerminal, TerminalStatuses
  <2> QED
    BY <1>3, <2>1, <2>2, <2>3 DEF Reading
<1>6. CASE GcReleases(c) \/ GcRereads(c)
  <2>1. \/ Answer(c, "refused")
        \/ /\ at[c] \in {"release", "restate"} /\ UNCHANGED <<view, result>>
           /\ \E next \in {"restate", "delete"} : at' = [at EXCEPT ![c] = next]
    BY <1>6 DEF GcReleases, GcRereads, Goto
  <2>2. at[c] \in {"release", "restate"} => pc = "gone" /\ IsTerminal(durable)
    BY DEF CommandInv, EndedInv
  <2> QED
    BY <1>2, <1>3, <2>1, <2>2 DEF Reading
<1>7. CASE GcRecheckHeld(c) \/ GcDeletes(c)
  BY <1>2, <1>7 DEF GcRecheckHeld, GcDeletes
<1> QED
  BY <1>4, <1>5, <1>6, <1>7


-----------------------------------------------------------------------------
(* All together. *)

(* A step of one command leaves the others where they are. *)
LEMMA OthersStand ==
  ASSUME ClientTypeOK, NEW c \in Observers, NEW d \in Observers, c # d, ClientStep(c)
  PROVE  /\ at'[d] = at[d] /\ view'[d] = view[d]
         /\ result'[d] = result[d] /\ phase'[d] = phase[d]
<1> USE DEF ClientTypeOK
<1>1. ASSUME \/ LookAgain(c) \/ LoopOrTimeOut(c) \/ \E r : Answer(c, r)
             \/ UNCHANGED <<view, result>> /\ \E next : at' = [at EXCEPT ![c] = next]
      PROVE  at'[d] = at[d] /\ view'[d] = view[d] /\ result'[d] = result[d]
  BY <1>1 DEF LookAgain, LoopOrTimeOut, Answer
<1>2. ASSUME phase' = phase \/ \E p : phase' = [phase EXCEPT ![c] = p]
      PROVE  phase'[d] = phase[d]
  BY <1>2
<1>3. CASE ReadState(c) \/ ProbeHeld(c) \/ RereadState(c)
  BY <1>3 DEF ReadState, ProbeHeld, RereadState
<1>4. CASE RunMissing(c) \/ StartCannotLaunch(c) \/ GcRecheckHeld(c) \/ GcDeletes(c)
           \/ StatusAnswers(c) \/ WaitDecides(c)
  BY <1>1, <1>4 DEF RunMissing, StartCannotLaunch, GcRecheckHeld, GcDeletes, StatusAnswers,
     WaitDecides
<1>5. CASE ProbeFree(c) \/ Unprobe(c) \/ StartLaunches(c) \/ GcRecheckFree(c)
           \/ GcReleases(c)
  BY <1>1, <1>5 DEF ProbeFree, Unprobe, StartLaunches, GcRecheckFree, GcReleases, Goto
<1>6. CASE StartAnswers(c) \/ StartWatches(c)
  BY <1>1, <1>6 DEF StartAnswers, StartWatches
<1>7. CASE StopDecides(c)
  BY <1>1, <1>2, <1>7 DEF StopDecides
<1>8. CASE StopSettling(c) \/ StopPolling(c)
  BY <1>1, <1>8 DEF StopSettling, StopPolling
<1>9. CASE GcDecides(c) \/ GcRereads(c)
  BY <1>1, <1>9 DEF GcDecides, GcRereads
<1> QED
  BY <1>3, <1>4, <1>5, <1>6, <1>7, <1>8, <1>9 DEF ClientStep

LEMMA HerdTypeStep ==
  ASSUME TypeOK, ClientTypeOK, [ProcHerdNext]_vars
  PROVE  ClientTypeOK'
<1>1. CASE RunStep \/ UNCHANGED vars
  BY <1>1 DEF RunStep, vars, clientVars, ClientTypeOK
<1> QED
  BY <1>1, CommandStepType DEF ProcHerdNext

LEMMA HerdStep ==
  ASSUME TypeOK, SupervisionInv, RecordedInv, ClientTypeOK, HerdInv, [ProcHerdNext]_vars
  PROVE  HerdInv'
<1>1. Onward
  BY StepIsSupervised, StepsGoOnward
<1>2. CASE RunStep \/ UNCHANGED vars
  <2>1. UNCHANGED clientVars
    BY <1>2 DEF RunStep, vars
  <2>2. ASSUME NEW c \in Observers PROVE CommandInv(c)'
    BY <1>1, <2>1, CommandKept DEF HerdInv, clientVars
  <2> QED
    BY <1>1, <2>1, <2>2 DEF HerdInv, Onward, IsTerminal, clientVars
<1>3. ASSUME NEW c \in Observers, ClientStep(c) PROVE HerdInv'
  <2>1. ASSUME NEW d \in Observers PROVE CommandInv(d)'
    <3>1. CASE d = c
      BY <1>1, <1>3, <3>1, ObservationSteps, StartSteps, QuerySteps, StopSteps, GcSteps
         DEF ClientStep, HerdInv
    <3>2. CASE d # c
      BY <1>1, <1>3, <3>2, OthersStand, CommandKept DEF HerdInv
    <3> QED
      BY <3>1, <3>2
  <2>2. present' = present \/ GcDeletes(c)
    BY <1>3 DEF ClientStep, RunMissing, ReadState, ProbeFree, ProbeHeld, Unprobe, RereadState,
       StartLaunches, StartCannotLaunch, StartAnswers, StartWatches, StatusAnswers,
       WaitDecides, StopDecides, StopSettling, StopPolling, GcDecides, GcRecheckFree,
       GcRecheckHeld, GcReleases, GcRereads, Goto
  <2>3. GcDeletes(c) => pc = "gone" /\ IsTerminal(durable)
    BY DEF GcDeletes, HerdInv, CommandInv, EndedInv
  <2> QED
    BY <1>1, <2>1, <2>2, <2>3 DEF HerdInv, Onward, IsTerminal
<1> QED
  BY <1>2, <1>3 DEF ProcHerdNext

LEMMA HerdInitially == ProcHerdInit => RecordedInv /\ ClientTypeOK /\ HerdInv
<1> SUFFICES ASSUME ProcHerdInit PROVE RecordedInv /\ ClientTypeOK /\ HerdInv
  OBVIOUS
<1>1. RecordedInv
  BY DEF ProcHerdInit, Init, RecordedInv
<1>2. ClientTypeOK
  BY NoViewType DEF ProcHerdInit, ClientTypeOK, Results
<1>3. ASSUME NEW c \in Observers PROVE CommandInv(c)
  <2>1. /\ at[c] \in {"launch", "read", "done"} /\ result[c] = "none"
        /\ view[c] = NoView /\ phase[c] = "first"
    BY DEF ProcHerdInit
  <2>2. ViewInv(c)
    BY <2>1 DEF ViewInv, NoView, Reading, IsTerminal, TerminalStatuses
  <2>3. InactiveInv(c) /\ EndedInv(c)
    BY <2>1 DEF InactiveInv, EndedInv
  <2>4. AnswerInv(c)
    BY <2>1 DEF AnswerInv, AnswerIsTrue, OrphanAnswers, EndAnswers
  <2> QED
    BY <2>2, <2>3, <2>4 DEF CommandInv
<1> QED
  BY <1>1, <1>2, <1>3 DEF HerdInv, ProcHerdInit

(* What each command has read, inferred from the lock and answered is so,   *)
(* wherever the others and the supervisor are (observe_state_and_activity). *)
THEOREM CommandsCorrect ==
  ProcHerdSafeSpec =>
    [](TypeOK /\ SupervisionInv /\ RecordedInv /\ ClientTypeOK /\ HerdInv)
<1> DEFINE IInv == TypeOK /\ SupervisionInv /\ RecordedInv /\ ClientTypeOK /\ HerdInv
<1>1. ProcHerdInit => IInv
  BY HerdInitially, InitTypeOK, InitSupervisionInv DEF ProcHerdInit
<1>2. IInv /\ [ProcHerdNext]_vars => IInv'
  BY StepIsSupervised, NextTypeOK, NextSupervisionInv, RecordedStep, HerdTypeStep, HerdStep
<1> QED
  BY <1>1, <1>2, PTL DEF ProcHerdSafeSpec

(* The commands' variables keep their types. *)
THEOREM CommandsTypeCorrect == ProcHerdSafeSpec => []ClientTypeOK
BY CommandsCorrect, PTL

(* "orphaned", and start's "supervisor exited during startup", are said of  *)
(* runs whose supervisor is gone for good.                                  *)
THEOREM OrphansAreOrphans == ProcHerdSafeSpec => []OrphanAnswersAreTrue
<1>1. HerdInv => OrphanAnswersAreTrue
  BY DEF HerdInv, CommandInv, AnswerInv, AnswerIsTrue, OrphanAnswersAreTrue
<1> QED
  BY <1>1, CommandsCorrect, PTL

(* stop, wait and start report an end only when it is on disk and the       *)
(* supervisor has given its lock up.                                        *)
THEOREM EndsAreSettled == ProcHerdSafeSpec => []EndAnswersAreSettled
<1>1. HerdInv => EndAnswersAreSettled
  BY DEF HerdInv, CommandInv, AnswerInv, AnswerIsTrue, EndAnswersAreSettled, SaysEnded
<1> QED
  BY <1>1, CommandsCorrect, PTL

(* start reports "started" of a recorded process, an end of an ended run.   *)
THEOREM StartsAreTrue == ProcHerdSafeSpec => []StartAnswersAreTrue
<1>1. HerdInv => StartAnswersAreTrue
  BY DEF HerdInv, CommandInv, AnswerInv, AnswerIsTrue, StartAnswersAreTrue, EndAnswers
<1> QED
  BY <1>1, CommandsCorrect, PTL

(* wait --for ready is satisfied by readiness that stays on record.         *)
THEOREM ReadyIsTrue == ProcHerdSafeSpec => []ReadyAnswersAreTrue
<1>1. HerdInv => ReadyAnswersAreTrue
  BY DEF HerdInv, CommandInv, AnswerInv, AnswerIsTrue, ReadyAnswersAreTrue
<1> QED
  BY <1>1, CommandsCorrect, PTL

(* gc never removes the directory of a run that a supervisor still writes   *)
(* to or that has not ended.                                                *)
THEOREM GcSparesOthers == ProcHerdSafeSpec => []GcRemovesOnlyEndedRuns
<1>1. HerdInv => GcRemovesOnlyEndedRuns
  BY DEF HerdInv, GcRemovesOnlyEndedRuns
<1> QED
  BY <1>1, CommandsCorrect, PTL
=============================================================================
