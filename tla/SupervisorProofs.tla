-------------------------- MODULE SupervisorProofs --------------------------
(***************************************************************************)
(* What Supervisor.tla promises for every choice of its constants: any     *)
(* number of observers, Unix or Windows, any set of faults.                *)
(***************************************************************************)
EXTENDS Supervisor, TLAPS

(* The operators on trees and states stay within their types. *)
LEMMA KilledType == ASSUME NEW t \in Trees PROVE Killed(t) \in Trees
BY DEF Killed, Trees

LEMMA KilledKeeps ==
  ASSUME NEW t \in Trees
  PROVE  /\ Killed(t).leader = t.leader /\ Killed(t).group = t.group
         /\ Killed(t).denied = t.denied /\ (t.killed => Killed(t).killed)
BY DEF Killed, Trees

LEMMA LeaseReleasedType ==
  ASSUME NEW s \in RunStates PROVE LeaseReleased(s) \in RunStates
BY DEF LeaseReleased, RunStates

LEMMA MarkedType ==
  ASSUME NEW s \in RunStates,
         NEW kind \in ErrorKinds \cup {"none", "supervisor_launch"}
  PROVE  [s EXCEPT !.status = "failed", !.reason = "supervisor_failed",
                   !.failure = kind] \in RunStates
BY DEF RunStates, TerminalStatuses

LEMMA EndedType ==
  ASSUME NEW s \in RunStates, NEW status \in TerminalStatuses,
         NEW reason \in StopReasons \cup {"process_exited"}
  PROVE  [s EXCEPT !.status = status, !.reason = reason] \in RunStates
BY DEF RunStates

LEMMA StoppingType ==
  ASSUME NEW s \in RunStates, NEW reason \in StopReasons
  PROVE  [s EXCEPT !.status = "stopping", !.swept = TRUE, !.forced = @ \/ ~Unix,
                   !.limited = (reason = "runtime_limit")] \in RunStates
BY DEF RunStates, LiveStatuses

LEMMA SweptType ==
  ASSUME NEW s \in RunStates, NEW a \in BOOLEAN, NEW b \in BOOLEAN
  PROVE  [s EXCEPT !.swept = a, !.forced = b] \in RunStates
BY DEF RunStates

LEMMA NoTreeType == NoTree \in Trees
BY DEF NoTree, Trees

LEMMA StoppingTypes ==
  ASSUME TypeOK, NEW reason \in StopReasons, BeginStopping(reason)
  PROVE  /\ mem' \in RunStates /\ tree' \in Trees /\ forceSent' \in BOOLEAN
         /\ stopping' \in StopReasons \cup {"none"}
         /\ pc' \in PCs /\ err' \in ErrorKinds \cup {"none"}
<1>1. mem \in RunStates /\ tree \in Trees
  BY DEF TypeOK
<1> DEFINE stopped == [mem EXCEPT !.status = "stopping", !.swept = TRUE,
                                  !.forced = @ \/ ~Unix,
                                  !.limited = (reason = "runtime_limit")]
<1>2. mem' \in RunStates
  <2>1. mem' = mem \/ mem' = stopped
    BY DEF BeginStopping
  <2>2. stopped \in RunStates
    BY <1>1, StoppingType
  <2> QED
    BY <1>1, <2>1, <2>2
<1>3. tree' \in Trees
  BY <1>1, KilledType DEF BeginStopping
<1>4. forceSent' \in BOOLEAN
  BY ConstantsAssumption DEF BeginStopping, TypeOK
<1>5. stopping' \in StopReasons \cup {"none"}
  BY DEF BeginStopping, TypeOK
<1>6. pc' \in PCs /\ err' \in ErrorKinds \cup {"none"}
  BY DEF BeginStopping, TypeOK, Fail, PCs, Recording, ErrorKinds
<1> QED
  BY <1>2, <1>3, <1>4, <1>5, <1>6

LEMMA StoppingKeepsLease ==
  ASSUME mem \in RunStates, NEW reason,
         BeginStopping(reason) \/ UNCHANGED mem
  PROVE  mem'.lease = mem.lease
<1> DEFINE limited == reason = "runtime_limit"
           stopped == [mem EXCEPT !.status = "stopping", !.swept = TRUE,
                                  !.forced = @ \/ ~Unix, !.limited = limited]
<1>1. mem' = mem \/ mem' = stopped
  BY DEF BeginStopping
<1>2. stopped.lease = mem.lease
  BY DEF RunStates
<1> QED
  BY <1>1, <1>2

LEMMA InitTypeOK == Init => TypeOK
<1> SUFFICES ASSUME Init PROVE TypeOK
  OBVIOUS
<1>1. durable \in RunStates /\ mem \in RunStates
  BY DEF Init
<1> QED
  BY <1>1, NoTreeType DEF Init, TypeOK, PCs

(* What the failure path leaves in state.json. *)
LEMMA MarkedState ==
  ASSUME TypeOK, MarkSupervisorFailed
  PROVE  \/ IsTerminal(durable) /\ durable' = durable /\ ending' = ending
         \/ /\ IsLive(durable) /\ ending' = ending
            /\ durable'.status = "failed" /\ durable'.reason = "supervisor_failed"
         \/ IsLive(durable) /\ durable' = durable /\ ending' = "unmarked"
<1> DEFINE released == LeaseReleased(durable)
           failed == [released EXCEPT !.status = "failed",
                        !.reason = "supervisor_failed", !.failure = err]
<1>1. released \in RunStates
  BY LeaseReleasedType DEF TypeOK
<1> HIDE DEF released
<1>2. failed.status = "failed" /\ failed.reason = "supervisor_failed"
  BY <1>1 DEF RunStates
<1>3. IsTerminal(durable) \/ IsLive(durable)
  BY DEF TypeOK, RunStates, IsTerminal, IsLive
<1>4. CASE IsTerminal(durable)
  BY <1>4 DEF MarkSupervisorFailed
<1>5. CASE ~IsTerminal(durable) /\ durable' = failed /\ ending' = ending
  BY <1>2, <1>3, <1>5
<1>6. CASE ~IsTerminal(durable) /\ durable' = durable /\ ending' = "unmarked"
  BY <1>3, <1>6
<1> QED
  BY <1>4, <1>5, <1>6 DEF MarkSupervisorFailed, released

LEMMA NextTypeOK == TypeOK /\ [Next]_supVars => TypeOK'
<1> SUFFICES ASSUME TypeOK, [Next]_supVars PROVE TypeOK'
  OBVIOUS
<1> USE DEF TypeOK, Fail
<1>1. CASE Launch
  BY <1>1 DEF Launch, PCs
<1>2. CASE LaunchFails
  <2> DEFINE failed == [durable EXCEPT !.status = "failed",
               !.reason = "supervisor_failed", !.failure = "supervisor_launch"]
  <2>2. failed \in RunStates
    BY MarkedType
  <2>3. durable' = failed \/ durable' = durable
    BY <1>2 DEF LaunchFails
  <2>1. durable' \in RunStates
    BY <2>2, <2>3
  <2> QED
    BY <1>2, <2>1 DEF LaunchFails, PCs
<1>3. CASE AcquireLock
  BY <1>3 DEF AcquireLock, PCs
<1>4. CASE LockError
  BY <1>4 DEF LockError, PCs
<1>5. CASE ClaimRun
  <2>1. mem' \in RunStates
    BY <1>5 DEF ClaimRun, RunStates, LiveStatuses
  <2> QED
    BY <1>5, <2>1 DEF ClaimRun, Persist, PCs, ErrorKinds
<1>6. CASE AcquireLeases
  <2>1. mem' \in RunStates
    BY <1>6 DEF AcquireLeases, RunStates
  <2>2. registry' \in BOOLEAN
    BY <1>6, Zenon DEF AcquireLeases
  <2>3. pc' \in PCs /\ err' \in ErrorKinds \cup {"none"}
    BY <1>6 DEF AcquireLeases, PCs, Recording, ErrorKinds
  <2> QED
    BY <1>6, <2>1, <2>2, <2>3 DEF AcquireLeases
<1>7. CASE RecordState
  BY <1>7 DEF RecordState, AfterRecord, Persist, PCs, Recording, ErrorKinds
<1>8. CASE SpawnChild
  <2>1. mem' \in RunStates
    BY <1>8 DEF SpawnChild, RunStates, LiveStatuses
  <2>2. PICK refuses \in BOOLEAN :
          tree' = [NoTree EXCEPT !.leader = "running", !.denied = refuses]
    BY <1>8 DEF SpawnChild
  <2>3. tree' \in Trees
    BY <2>2 DEF NoTree, Trees
  <2> QED
    BY <1>8, <2>1, <2>3 DEF SpawnChild, PCs, Recording
<1>9. CASE SpawnFails
  <2>1. mem' \in RunStates
    BY <1>9 DEF SpawnFails, RunStates, TerminalStatuses, ErrorKinds
  <2> QED
    BY <1>9, <2>1 DEF SpawnFails, PCs
<1>10. CASE ReleaseUnspawned
  <2>1. mem' \in RunStates
    BY <1>10, LeaseReleasedType DEF ReleaseUnspawned, Release
  <2>2. registry' \in BOOLEAN /\ pc' \in PCs /\ err' \in ErrorKinds \cup {"none"}
    BY <1>10 DEF ReleaseUnspawned, Release, PCs, Recording, ErrorKinds
  <2> QED
    BY <1>10, <2>1, <2>2 DEF ReleaseUnspawned
<1>11. CASE RecordUnspawned
  BY <1>11 DEF RecordUnspawned, PCs, ErrorKinds
<1>12. CASE Drain
  <2>1. mem' \in RunStates
    BY <1>12 DEF Drain, RunStates, ReadinessStatuses
  <2> QED
    BY <1>12, <2>1 DEF Drain, Persist, PCs, ErrorKinds
<1>13. CASE TakeStopRequest
  <2>1. CASE BeginStopping("stop_requested")
    BY <1>13, <2>1, StoppingTypes DEF TakeStopRequest, StopReasons
  <2>2. CASE ~BeginStopping("stop_requested")
    BY <1>13, <2>2 DEF TakeStopRequest, PCs, ErrorKinds
  <2> QED
    BY <2>1, <2>2
<1>14. CASE MissStopRequest
  BY <1>14 DEF MissStopRequest, PCs
<1>15. CASE StopRequestAppears
  BY <1>15 DEF StopRequestAppears, PCs, ErrorKinds
<1>16. CASE HitRuntimeLimit
  BY <1>16, StoppingTypes DEF HitRuntimeLimit, StopReasons
<1>17. CASE ForceStop
  <2>1. mem' \in RunStates
    <3>1. \/ mem' = mem
          \/ \E a, b \in BOOLEAN : mem' = [mem EXCEPT !.swept = a, !.forced = b]
      BY <1>17 DEF ForceStop
    <3> QED
      BY <3>1, SweptType
  <2>2. tree' \in Trees
    BY <1>17, KilledType DEF ForceStop
  <2>3. pc' \in PCs /\ err' \in ErrorKinds \cup {"none"} /\ forceSent' \in BOOLEAN
    BY <1>17 DEF ForceStop, PCs, Recording, ErrorKinds
  <2> QED
    BY <1>17, <2>1, <2>2, <2>3 DEF ForceStop
<1>18. CASE NoControl
  BY <1>18 DEF NoControl, PCs
<1>19. CASE StillRunning
  BY <1>19 DEF StillRunning, Persist, PCs, ErrorKinds
<1>20. CASE WaitFails
  BY <1>20 DEF WaitFails, PCs, ErrorKinds
<1>21. CASE ReapLeader
  <2> DEFINE reaped == [tree EXCEPT !.leader = "reaped"]
  <2>1. mem' \in RunStates
    <3>1. \/ mem' = mem
          \/ \E a, b \in BOOLEAN : mem' = [mem EXCEPT !.swept = a, !.forced = b]
      BY <1>21 DEF ReapLeader
    <3> QED
      BY <3>1, SweptType
  <2>2. reaped \in Trees
    BY DEF Trees
  <2>3. tree' = reaped \/ tree' = Killed(reaped)
    BY <1>21 DEF ReapLeader
  <2>4. tree' \in Trees
    BY <2>2, <2>3, KilledType
  <2>5. pc' \in PCs /\ err' \in ErrorKinds \cup {"none"} /\ armed' \in BOOLEAN
    BY <1>21 DEF ReapLeader, PCs, ErrorKinds
  <2> QED
    BY <1>21, <2>1, <2>4, <2>5 DEF ReapLeader
<1>22. CASE CloseLogs
  <2>1. mem' \in RunStates
    BY <1>22 DEF CloseLogs, RunStates, ReadinessStatuses
  <2> QED
    BY <1>22, <2>1 DEF CloseLogs, PCs, ErrorKinds
<1>23. CASE DrainTimeout
  BY <1>23 DEF DrainTimeout, PCs, ErrorKinds
<1>24. CASE ReleaseLeases
  <2> DEFINE status == IF stopping = "none" THEN "exited" ELSE "stopped"
             reason == IF stopping = "none" THEN "process_exited" ELSE stopping
             final == [LeaseReleased(mem) EXCEPT !.status = status,
                                                 !.reason = reason]
  <2>3. status \in TerminalStatuses
    BY DEF TerminalStatuses
  <2>4. reason \in StopReasons \cup {"process_exited"}
    OBVIOUS
  <2> HIDE DEF status, reason
  <2>5. final \in RunStates
    BY <2>3, <2>4, EndedType, LeaseReleasedType
  <2>6. mem' = mem \/ mem' = final
    BY <1>24 DEF ReleaseLeases, Release, status, reason
  <2>1. mem' \in RunStates
    BY <2>5, <2>6
  <2>2. registry' \in BOOLEAN /\ pc' \in PCs /\ err' \in ErrorKinds \cup {"none"}
    BY <1>24 DEF ReleaseLeases, Release, PCs, Recording, ErrorKinds
  <2> QED
    BY <1>24, <2>1, <2>2 DEF ReleaseLeases
<1>25. CASE DropChild
  <2>1. tree' \in Trees
    BY <1>25, KilledType DEF DropChild
  <2>2. pc' \in PCs
    BY <1>25 DEF DropChild, PCs
  <2> QED
    BY <1>25, <2>1, <2>2 DEF DropChild
<1>26. CASE DropLeases
  <2>1. registry' \in BOOLEAN
    BY <1>26 DEF DropLeases
  <2> QED
    BY <1>26, <2>1 DEF DropLeases, PCs
<1>27. CASE MarkSupervisorFailed
  <2> DEFINE released == LeaseReleased(durable)
             failed == [released EXCEPT !.status = "failed",
                          !.reason = "supervisor_failed", !.failure = err]
  <2>1. released \in RunStates
    BY LeaseReleasedType
  <2>2. durable' = durable \/ durable' = failed
    BY <1>27 DEF MarkSupervisorFailed
  <2>3. failed \in RunStates
    BY <2>1, MarkedType
  <2>4. durable' \in RunStates
    BY <2>2, <2>3
  <2> QED
    BY <1>27, <2>4 DEF MarkSupervisorFailed, PCs
<1>28. CASE Unlock
  BY <1>28 DEF Unlock, PCs
<1>29. CASE Crash
  BY <1>29 DEF Crash, PCs
<1>30. CASE OS
  <2>1. tree' \in Trees
    <3>1. CASE Fork         BY <3>1 DEF Fork, Trees
    <3>2. CASE Escape       BY <3>2 DEF Escape, Trees
    <3>3. CASE LeaderExits  BY <3>3 DEF LeaderExits, Trees
    <3>4. CASE GroupExits   BY <3>4 DEF GroupExits, Trees
    <3>5. CASE EscapeeExits BY <3>5 DEF EscapeeExits, Trees
    <3> QED
      BY <1>30, <3>1, <3>2, <3>3, <3>4, <3>5 DEF OS
  <2>2. ProcessesUnchanged
    BY <1>30 DEF OS, Fork, Escape, LeaderExits, GroupExits, EscapeeExits
  <2> QED
    BY <2>1, <2>2 DEF ProcessesUnchanged
<1>31. CASE Clock
  BY <1>31 DEF Clock, GracePasses, LimitPasses
<1>32. CASE Environment
  <2>1. CASE RequestStop
    BY <2>1 DEF RequestStop
  <2>2. CASE \E o \in Observers : ProbeLock(o)
    BY <2>2 DEF ProbeLock
  <2>3. CASE \E o \in Observers : UnprobeLock(o)
    BY <2>3 DEF UnprobeLock
  <2>4. CASE PruneEntries
    BY <2>4 DEF PruneEntries
  <2> QED
    BY <1>32, <2>1, <2>2, <2>3, <2>4 DEF Environment
<1>33. CASE UNCHANGED supVars
  BY <1>33 DEF supVars
<1> QED
  BY <1>1, <1>2, <1>3, <1>4, <1>5, <1>6, <1>7, <1>8, <1>9, <1>10, <1>11, <1>12,
     <1>13, <1>14, <1>15, <1>16, <1>17, <1>18, <1>19, <1>20, <1>21, <1>22,
     <1>23, <1>24, <1>25, <1>26, <1>27, <1>28, <1>29, <1>30,
     <1>31, <1>32, <1>33
     DEF Next, Startup, SupervisorStep

(* Type correctness of the supervisor and of everything it owns. *)
THEOREM TypeCorrect == SafeSpec => []TypeOK
BY InitTypeOK, NextTypeOK, PTL DEF SafeSpec

-----------------------------------------------------------------------------
(* The invariant the code rests on, conjunct by conjunct. *)

LEMMA InitSupervisionInv == Init => SupervisionInv
BY DEF Init, SupervisionInv, LockInv, Holding, DurableInv, MemInv, TreeInv,
       LeaseInv, EndingInv, Supervising, Leaving, Recording, Quiet, Swept, GroupExists,
       NoTree, IsTerminal, TerminalStatuses

LEMMA LockStep == TypeOK /\ LockInv /\ [Next]_supVars => LockInv'
<1> SUFFICES ASSUME TypeOK /\ LockInv, [Next]_supVars PROVE LockInv'
  OBVIOUS
<1> USE DEF TypeOK, LockInv, Holding, PCs, Recording
<1>1. CASE Launch
  BY <1>1 DEF Launch
<1>2. CASE LaunchFails
  BY <1>2 DEF LaunchFails
<1>3. CASE AcquireLock
  BY <1>3 DEF AcquireLock
<1>4. CASE LockError
  BY <1>4 DEF LockError
<1>5. CASE ClaimRun
  BY <1>5 DEF ClaimRun, Persist, Fail
<1>6. CASE AcquireLeases
  BY <1>6 DEF AcquireLeases, Fail
<1>7. CASE RecordState
  BY <1>7 DEF RecordState, Persist, AfterRecord, Fail
<1>8. CASE SpawnChild
  BY <1>8 DEF SpawnChild
<1>9. CASE SpawnFails
  BY <1>9 DEF SpawnFails
<1>10. CASE ReleaseUnspawned
  BY <1>10 DEF ReleaseUnspawned, Release, Fail
<1>11. CASE RecordUnspawned
  BY <1>11 DEF RecordUnspawned, Fail
<1>12. CASE Drain
  BY <1>12 DEF Drain, Persist, Fail
<1>13. CASE TakeStopRequest
  BY <1>13 DEF TakeStopRequest, BeginStopping, Fail
<1>14. CASE MissStopRequest
  BY <1>14 DEF MissStopRequest
<1>15. CASE StopRequestAppears
  BY <1>15 DEF StopRequestAppears, Fail
<1>16. CASE HitRuntimeLimit
  BY <1>16 DEF HitRuntimeLimit, BeginStopping, Fail
<1>17. CASE ForceStop
  BY <1>17 DEF ForceStop, Fail
<1>18. CASE NoControl
  BY <1>18 DEF NoControl
<1>19. CASE StillRunning
  BY <1>19 DEF StillRunning, Persist, Fail
<1>20. CASE WaitFails
  BY <1>20 DEF WaitFails, Fail
<1>21. CASE ReapLeader
  BY <1>21 DEF ReapLeader, Fail
<1>22. CASE CloseLogs
  BY <1>22 DEF CloseLogs, Fail
<1>23. CASE DrainTimeout
  BY <1>23 DEF DrainTimeout, Fail
<1>24. CASE ReleaseLeases
  BY <1>24 DEF ReleaseLeases, Release, Fail
<1>25. CASE DropChild
  BY <1>25 DEF DropChild
<1>26. CASE DropLeases
  BY <1>26 DEF DropLeases
<1>27. CASE MarkSupervisorFailed
  BY <1>27 DEF MarkSupervisorFailed
<1>28. CASE Unlock
  BY <1>28 DEF Unlock
<1>29. CASE Crash
  BY <1>29 DEF Crash
<1>30. CASE OS
  BY <1>30 DEF OS, Fork, Escape, LeaderExits, GroupExits, EscapeeExits,
     ProcessesUnchanged
<1>31. CASE Clock
  BY <1>31 DEF Clock, GracePasses, LimitPasses
<1>32. CASE Environment
  BY <1>32, ConstantsAssumption DEF Environment, PruneEntries, RequestStop, ProbeLock,
     UnprobeLock
<1>33. CASE UNCHANGED supVars
  BY <1>33 DEF supVars
<1> QED
  BY <1>1, <1>2, <1>3, <1>4, <1>5, <1>6, <1>7, <1>8, <1>9, <1>10, <1>11,
     <1>12, <1>13, <1>14, <1>15, <1>16, <1>17, <1>18, <1>19, <1>20, <1>21,
        <1>22, <1>23, <1>24, <1>25, <1>26, <1>27, <1>28, <1>29, <1>30,
     <1>31, <1>32, <1>33
     DEF Next, Startup, SupervisorStep

LEMMA DurableStep == TypeOK /\ DurableInv /\ MemInv /\ [Next]_supVars =>
   DurableInv'
<1> SUFFICES ASSUME TypeOK /\ DurableInv /\ MemInv, [Next]_supVars PROVE
   DurableInv'
  OBVIOUS
<1> USE DEF DurableInv, MemInv, Supervising, Leaving, CurrentStatus, Recording
<1>1. CASE Launch
  BY <1>1 DEF Launch
<1>2. CASE LaunchFails
  BY <1>2 DEF LaunchFails
<1>3. CASE AcquireLock
  BY <1>3 DEF AcquireLock
<1>4. CASE LockError
  BY <1>4 DEF LockError
<1>5. CASE ClaimRun
  BY <1>5 DEF ClaimRun, Persist, TypeOK, RunStates, Fail
<1>6. CASE AcquireLeases
  BY <1>6 DEF AcquireLeases, Fail
<1>7. CASE RecordState
  BY <1>7 DEF RecordState, Persist, AfterRecord, Fail
<1>8. CASE SpawnChild
  BY <1>8 DEF SpawnChild
<1>9. CASE SpawnFails
  BY <1>9 DEF SpawnFails
<1>10. CASE ReleaseUnspawned
  BY <1>10 DEF ReleaseUnspawned, Release, Fail
<1>11. CASE RecordUnspawned
  BY <1>11 DEF RecordUnspawned, Fail
<1>12. CASE Drain
  BY <1>12 DEF Drain, Persist, TypeOK, RunStates, Fail
<1>13. CASE TakeStopRequest
  BY <1>13 DEF TakeStopRequest, BeginStopping, Fail
<1>14. CASE MissStopRequest
  BY <1>14 DEF MissStopRequest
<1>15. CASE StopRequestAppears
  BY <1>15 DEF StopRequestAppears, Fail
<1>16. CASE HitRuntimeLimit
  BY <1>16 DEF HitRuntimeLimit, BeginStopping, Fail
<1>17. CASE ForceStop
  BY <1>17 DEF ForceStop, Fail
<1>18. CASE NoControl
  BY <1>18 DEF NoControl
<1>19. CASE StillRunning
  BY <1>19 DEF StillRunning, Persist, Fail
<1>20. CASE WaitFails
  BY <1>20 DEF WaitFails, Fail
<1>21. CASE ReapLeader
  BY <1>21 DEF ReapLeader, Fail
<1>22. CASE CloseLogs
  BY <1>22 DEF CloseLogs, Fail
<1>23. CASE DrainTimeout
  BY <1>23 DEF DrainTimeout, Fail
<1>24. CASE ReleaseLeases
  BY <1>24 DEF ReleaseLeases, Release, Fail
<1>25. CASE DropChild
  BY <1>25 DEF DropChild
<1>26. CASE DropLeases
  BY <1>26 DEF DropLeases
<1>27. CASE MarkSupervisorFailed
  BY <1>27 DEF MarkSupervisorFailed
<1>28. CASE Unlock
  BY <1>28 DEF Unlock
<1>29. CASE Crash
  BY <1>29 DEF Crash
<1>30. CASE OS
  BY <1>30 DEF OS, Fork, Escape, LeaderExits, GroupExits, EscapeeExits,
     ProcessesUnchanged
<1>31. CASE Clock
  BY <1>31 DEF Clock, GracePasses, LimitPasses
<1>32. CASE Environment
  BY <1>32 DEF Environment, PruneEntries, RequestStop, ProbeLock, UnprobeLock
<1>33. CASE UNCHANGED supVars
  BY <1>33 DEF supVars
<1> QED
  BY <1>1, <1>2, <1>3, <1>4, <1>5, <1>6, <1>7, <1>8, <1>9, <1>10, <1>11,
     <1>12, <1>13, <1>14, <1>15, <1>16, <1>17, <1>18, <1>19, <1>20, <1>21,
        <1>22, <1>23, <1>24, <1>25, <1>26, <1>27, <1>28, <1>29, <1>30,
     <1>31, <1>32, <1>33
     DEF Next, Startup, SupervisorStep

LEMMA MemStep == TypeOK /\ MemInv /\ [Next]_supVars => MemInv'
<1> SUFFICES ASSUME TypeOK /\ MemInv, [Next]_supVars PROVE MemInv'
  OBVIOUS
<1> USE DEF TypeOK, RunStates, MemInv, Supervising, Leaving, CurrentStatus,
   FinalStatus, Recording
<1>1. CASE Launch
  BY <1>1 DEF Launch
<1>2. CASE LaunchFails
  BY <1>2 DEF LaunchFails
<1>3. CASE AcquireLock
  BY <1>3 DEF AcquireLock
<1>4. CASE LockError
  BY <1>4 DEF LockError
<1>5. CASE ClaimRun
  BY <1>5 DEF ClaimRun, Persist, Fail
<1>6. CASE AcquireLeases
  BY <1>6 DEF AcquireLeases, Fail
<1>7. CASE RecordState
  BY <1>7 DEF RecordState, Persist, AfterRecord, Fail
<1>8. CASE SpawnChild
  BY <1>8 DEF SpawnChild
<1>9. CASE SpawnFails
  BY <1>9 DEF SpawnFails
<1>10. CASE ReleaseUnspawned
  BY <1>10 DEF ReleaseUnspawned, Release, LeaseReleased, Fail
<1>11. CASE RecordUnspawned
  BY <1>11 DEF RecordUnspawned, Fail
<1>12. CASE Drain
  BY <1>12 DEF Drain, Persist, Fail
<1>13. CASE TakeStopRequest
  BY <1>13 DEF TakeStopRequest, BeginStopping, Fail
<1>14. CASE MissStopRequest
  BY <1>14 DEF MissStopRequest
<1>15. CASE StopRequestAppears
  BY <1>15 DEF StopRequestAppears, Fail
<1>16. CASE HitRuntimeLimit
  BY <1>16 DEF HitRuntimeLimit, BeginStopping, Fail
<1>17. CASE ForceStop
  BY <1>17 DEF ForceStop, Fail
<1>18. CASE NoControl
  BY <1>18 DEF NoControl
<1>19. CASE StillRunning
  BY <1>19 DEF StillRunning, Persist, Fail
<1>20. CASE WaitFails
  BY <1>20 DEF WaitFails, Fail
<1>21. CASE ReapLeader
  BY <1>21 DEF ReapLeader, Fail
<1>22. CASE CloseLogs
  BY <1>22 DEF CloseLogs, Fail
<1>23. CASE DrainTimeout
  BY <1>23 DEF DrainTimeout, Fail
<1>24. CASE ReleaseLeases
  BY <1>24 DEF ReleaseLeases, Release, LeaseReleased, Fail
<1>25. CASE DropChild
  BY <1>25 DEF DropChild
<1>26. CASE DropLeases
  BY <1>26 DEF DropLeases
<1>27. CASE MarkSupervisorFailed
  BY <1>27 DEF MarkSupervisorFailed
<1>28. CASE Unlock
  BY <1>28 DEF Unlock
<1>29. CASE Crash
  BY <1>29 DEF Crash
<1>30. CASE OS
  BY <1>30 DEF OS, Fork, Escape, LeaderExits, GroupExits, EscapeeExits,
     ProcessesUnchanged
<1>31. CASE Clock
  BY <1>31 DEF Clock, GracePasses, LimitPasses
<1>32. CASE Environment
  BY <1>32 DEF Environment, PruneEntries, RequestStop, ProbeLock, UnprobeLock
<1>33. CASE UNCHANGED supVars
  BY <1>33 DEF supVars
<1> QED
  BY <1>1, <1>2, <1>3, <1>4, <1>5, <1>6, <1>7, <1>8, <1>9, <1>10, <1>11,
     <1>12, <1>13, <1>14, <1>15, <1>16, <1>17, <1>18, <1>19, <1>20, <1>21,
        <1>22, <1>23, <1>24, <1>25, <1>26, <1>27, <1>28, <1>29, <1>30,
     <1>31, <1>32, <1>33
     DEF Next, Startup, SupervisorStep

LEMMA TreeStep == TypeOK /\ DurableInv /\ MemInv /\ TreeInv /\ [Next]_supVars
   => TreeInv'
<1> SUFFICES ASSUME TypeOK /\ DurableInv /\ MemInv /\ TreeInv, [Next]_supVars
   PROVE TreeInv'
  OBVIOUS
<1> USE DEF TypeOK, TreeInv, Trees, Quiet, Swept, GroupExists, DurableInv, MemInv,
   Supervising, Leaving, CurrentStatus, FinalStatus, Recording, IsTerminal,
      TerminalStatuses
<1>1. CASE Launch
  BY <1>1 DEF Launch
<1>2. CASE LaunchFails
  <2>1. pc = "absent" /\ pc' = "gone" /\ UNCHANGED <<tree, armed>> /\ ending' = "never_ran"
    BY <1>2 DEF LaunchFails
  <2>2. durable' = durable \/ durable'.status = "failed"
    BY <1>2 DEF LaunchFails, RunStates
  <2> QED
    BY <2>1, <2>2
<1>3. CASE AcquireLock
  BY <1>3 DEF AcquireLock
<1>4. CASE LockError
  BY <1>4 DEF LockError
<1>5. CASE ClaimRun
  BY <1>5 DEF ClaimRun, Persist, RunStates, Fail
<1>6. CASE AcquireLeases
  BY <1>6 DEF AcquireLeases, Fail
<1>7. CASE RecordState
  BY <1>7 DEF RecordState, Persist, AfterRecord, Fail
<1>8. CASE SpawnChild
  BY <1>8 DEF SpawnChild, NoTree
<1>9. CASE SpawnFails
  BY <1>9 DEF SpawnFails
<1>10. CASE ReleaseUnspawned
  BY <1>10 DEF ReleaseUnspawned, Release, Fail
<1>11. CASE RecordUnspawned
  BY <1>11 DEF RecordUnspawned, Fail
<1>12. CASE Drain
  BY <1>12 DEF Drain, Persist, RunStates, Fail
<1>13. CASE TakeStopRequest
  BY <1>13 DEF TakeStopRequest, BeginStopping, KillRefused, KillSent, Killed,
     GroupExists, Fail
<1>14. CASE MissStopRequest
  BY <1>14 DEF MissStopRequest
<1>15. CASE StopRequestAppears
  BY <1>15 DEF StopRequestAppears, Fail
<1>16. CASE HitRuntimeLimit
  BY <1>16 DEF HitRuntimeLimit, BeginStopping, KillRefused, KillSent, Killed,
     GroupExists, Fail
<1>17. CASE ForceStop
  BY <1>17 DEF ForceStop, KillRefused, KillSent, Killed, GroupExists, Fail
<1>18. CASE NoControl
  BY <1>18 DEF NoControl
<1>19. CASE StillRunning
  BY <1>19 DEF StillRunning, Persist, Fail
<1>20. CASE WaitFails
  BY <1>20 DEF WaitFails, Fail
<1>21. CASE ReapLeader
  BY <1>21 DEF ReapLeader, KillRefused, KillSent, Killed, GroupExists, Fail
<1>22. CASE CloseLogs
  BY <1>22 DEF CloseLogs, Fail
<1>23. CASE DrainTimeout
  BY <1>23 DEF DrainTimeout, Fail
<1>24. CASE ReleaseLeases
  BY <1>24 DEF ReleaseLeases, Release, Fail
<1>25. CASE DropChild
  BY <1>25 DEF DropChild, KillRefused, KillSent, Killed, GroupExists
<1>26. CASE DropLeases
  BY <1>26 DEF DropLeases
<1>27. CASE MarkSupervisorFailed
  <2>1. pc = "mark" /\ pc' = "unlock" /\ UNCHANGED <<tree, armed>>
    BY <1>27 DEF MarkSupervisorFailed
  <2>2. \/ durable' = durable /\ ending' \in {ending, "unmarked"}
        \/ durable'.status = "failed" /\ ending' = ending
    BY <1>27, MarkedState
  <2> QED
    BY <2>1, <2>2
<1>28. CASE Unlock
  BY <1>28 DEF Unlock
<1>29. CASE Crash
  BY <1>29 DEF Crash
<1>30. CASE OS
  BY <1>30 DEF OS, Fork, Escape, LeaderExits, GroupExits, EscapeeExits,
     ProcessesUnchanged, GroupRuns
<1>31. CASE Clock
  BY <1>31 DEF Clock, GracePasses, LimitPasses
<1>32. CASE Environment
  BY <1>32 DEF Environment, PruneEntries, RequestStop, ProbeLock, UnprobeLock
<1>33. CASE UNCHANGED supVars
  BY <1>33 DEF supVars
<1> QED
  BY <1>1, <1>2, <1>3, <1>4, <1>5, <1>6, <1>7, <1>8, <1>9, <1>10, <1>11,
     <1>12, <1>13, <1>14, <1>15, <1>16, <1>17, <1>18, <1>19, <1>20, <1>21,
        <1>22, <1>23, <1>24, <1>25, <1>26, <1>27, <1>28, <1>29, <1>30,
     <1>31, <1>32, <1>33
     DEF Next, Startup, SupervisorStep

LEMMA AcquisitionEnds ==
  ASSUME mem \in RunStates, AcquireLeases
  PROVE  \/ /\ pc' = "record_leases" /\ registry' = (mem.lease = "requested")
            /\ mem'.lease = IF mem.lease = "requested" THEN "acquired" ELSE mem.lease
         \/ pc' = "unwind"
BY DEF AcquireLeases, Fail, RunStates

LEMMA LeaseStep == TypeOK /\ LockInv /\ DurableInv /\ MemInv /\ LeaseInv /\
   [Next]_supVars => LeaseInv'
<1> SUFFICES ASSUME TypeOK /\ LockInv /\ DurableInv /\ MemInv /\ LeaseInv,
   [Next]_supVars PROVE LeaseInv'
  OBVIOUS
<1> USE DEF TypeOK, LeaseInv, RunStates, DurableInv, MemInv, Supervising,
   Leaving, CurrentStatus, FinalStatus, Recording, IsTerminal, TerminalStatuses
<1>1. CASE Launch
  BY <1>1 DEF Launch
<1>2. CASE LaunchFails
  BY <1>2 DEF LaunchFails
<1>3. CASE AcquireLock
  BY <1>3 DEF AcquireLock
<1>4. CASE LockError
  BY <1>4 DEF LockError
<1>5. CASE ClaimRun
  BY <1>5 DEF ClaimRun, Persist, Fail
<1>6. CASE AcquireLeases
  <2>1. pc = "acquire" /\ ~registry /\ mem.lease \in {"none", "requested"} /\ durable' = durable
    BY <1>6 DEF AcquireLeases
  <2>2. \/ /\ pc' = "record_leases" /\ registry' = (mem.lease = "requested")
           /\ mem'.lease = IF mem.lease = "requested" THEN "acquired" ELSE mem.lease
        \/ pc' = "unwind"
    BY <1>6, AcquisitionEnds
  <2>3. ~IsTerminal(durable)
    BY <2>1
  <2> QED
    BY <2>1, <2>2, <2>3
<1>7. CASE RecordState
  BY <1>7 DEF RecordState, Persist, AfterRecord, Fail
<1>8. CASE SpawnChild
  BY <1>8 DEF SpawnChild
<1>9. CASE SpawnFails
  BY <1>9 DEF SpawnFails
<1>10. CASE ReleaseUnspawned
  BY <1>10 DEF ReleaseUnspawned, Release, LeaseReleased, Fail
<1>11. CASE RecordUnspawned
  BY <1>11 DEF RecordUnspawned, Fail
<1>12. CASE Drain
  BY <1>12 DEF Drain, Persist, Fail
<1>13. CASE TakeStopRequest
  <2>1. mem'.lease = mem.lease
    BY <1>13, StoppingKeepsLease DEF TakeStopRequest
  <2>2. pc' \in {"unwind", "record_stopping"} /\ UNCHANGED <<durable,
     registry>>
    BY <1>13 DEF TakeStopRequest, BeginStopping, Fail
  <2> QED
    BY <1>13, <2>1, <2>2 DEF TakeStopRequest
<1>14. CASE MissStopRequest
  BY <1>14 DEF MissStopRequest
<1>15. CASE StopRequestAppears
  BY <1>15 DEF StopRequestAppears, Fail
<1>16. CASE HitRuntimeLimit
  <2>1. mem'.lease = mem.lease
    BY <1>16, StoppingKeepsLease DEF HitRuntimeLimit
  <2>2. pc' \in {"unwind", "record_stopping"} /\ UNCHANGED <<durable,
     registry>>
    BY <1>16 DEF HitRuntimeLimit, BeginStopping, Fail
  <2> QED
    BY <1>16, <2>1, <2>2 DEF HitRuntimeLimit
<1>17. CASE ForceStop
  BY <1>17 DEF ForceStop, Fail
<1>18. CASE NoControl
  BY <1>18 DEF NoControl
<1>19. CASE StillRunning
  BY <1>19 DEF StillRunning, Persist, Fail
<1>20. CASE WaitFails
  BY <1>20 DEF WaitFails, Fail
<1>21. CASE ReapLeader
  BY <1>21 DEF ReapLeader, Fail
<1>22. CASE CloseLogs
  BY <1>22 DEF CloseLogs, Fail
<1>23. CASE DrainTimeout
  BY <1>23 DEF DrainTimeout, Fail
<1>24. CASE ReleaseLeases
  <2>1. pc = "release" /\ UNCHANGED durable
    BY <1>24 DEF ReleaseLeases
  <2>2. \/ /\ pc' = "record_final" /\ registry' = FALSE
           /\ mem'.lease = IF mem.lease = "acquired" THEN "released" ELSE mem.lease
        \/ pc' = "unwind" /\ UNCHANGED <<registry, mem>>
    BY <1>24 DEF ReleaseLeases, Release, LeaseReleased, Fail
  <2>3. mem.lease \in {"none", "acquired", "released"} /\ ~IsTerminal(durable)
    BY <2>1
  <2> QED
    BY <2>1, <2>2, <2>3
<1>25. CASE DropChild
  BY <1>25 DEF DropChild
<1>26. CASE DropLeases
  BY <1>26 DEF DropLeases
<1>27. CASE MarkSupervisorFailed
  BY <1>27, MarkedState DEF MarkSupervisorFailed
<1>28. CASE Unlock
  BY <1>28 DEF Unlock
<1>29. CASE Crash
  BY <1>29 DEF Crash
<1>30. CASE OS
  BY <1>30 DEF OS, Fork, Escape, LeaderExits, GroupExits, EscapeeExits,
     ProcessesUnchanged
<1>31. CASE Clock
  BY <1>31 DEF Clock, GracePasses, LimitPasses
<1>32. CASE Environment
  <2>1. CASE PruneEntries
    <3>1. pc \notin Holding
      BY <2>1 DEF PruneEntries, LockInv
    <3>2. /\ pc \notin {"record_leases", "spawn"} /\ registry' = FALSE
          /\ UNCHANGED <<pc, durable, mem>>
      BY <2>1, <3>1 DEF PruneEntries, Holding, PCs
    <3> QED
      BY <3>2
  <2>2. CASE Environment /\ ~PruneEntries
    BY <2>2 DEF Environment, RequestStop, ProbeLock, UnprobeLock
  <2> QED
    BY <1>32, <2>1, <2>2
<1>33. CASE UNCHANGED supVars
  BY <1>33 DEF supVars
<1> QED
  BY <1>1, <1>2, <1>3, <1>4, <1>5, <1>6, <1>7, <1>8, <1>9, <1>10, <1>11,
     <1>12, <1>13, <1>14, <1>15, <1>16, <1>17, <1>18, <1>19, <1>20, <1>21,
        <1>22, <1>23, <1>24, <1>25, <1>26, <1>27, <1>28, <1>29, <1>30,
     <1>31, <1>32, <1>33
     DEF Next, Startup, SupervisorStep


LEMMA EndingStep == TypeOK /\ DurableInv /\ MemInv /\ EndingInv /\
   [Next]_supVars => EndingInv'
<1> SUFFICES ASSUME TypeOK /\ DurableInv /\ MemInv /\ EndingInv,
   [Next]_supVars PROVE EndingInv'
  OBVIOUS
<1> USE DEF TypeOK, EndingInv, DurableInv, MemInv, Supervising, Leaving,
   CurrentStatus, FinalStatus, Recording, IsTerminal, TerminalStatuses
<1>1. CASE Launch
  BY <1>1 DEF Launch
<1>2. CASE LaunchFails
  BY <1>2 DEF LaunchFails, RunStates
<1>3. CASE AcquireLock
  BY <1>3 DEF AcquireLock
<1>4. CASE LockError
  BY <1>4 DEF LockError
<1>5. CASE ClaimRun
  BY <1>5 DEF ClaimRun, Persist, Fail
<1>6. CASE AcquireLeases
  BY <1>6 DEF AcquireLeases, Fail
<1>7. CASE RecordState
  BY <1>7 DEF RecordState, Persist, AfterRecord, Fail
<1>8. CASE SpawnChild
  BY <1>8 DEF SpawnChild
<1>9. CASE SpawnFails
  BY <1>9 DEF SpawnFails
<1>10. CASE ReleaseUnspawned
  BY <1>10 DEF ReleaseUnspawned, Release, Fail
<1>11. CASE RecordUnspawned
  BY <1>11 DEF RecordUnspawned, Fail
<1>12. CASE Drain
  BY <1>12 DEF Drain, Persist, Fail
<1>13. CASE TakeStopRequest
  BY <1>13 DEF TakeStopRequest, BeginStopping, Fail
<1>14. CASE MissStopRequest
  BY <1>14 DEF MissStopRequest
<1>15. CASE StopRequestAppears
  BY <1>15 DEF StopRequestAppears, Fail
<1>16. CASE HitRuntimeLimit
  BY <1>16 DEF HitRuntimeLimit, BeginStopping, Fail
<1>17. CASE ForceStop
  BY <1>17 DEF ForceStop, Fail
<1>18. CASE NoControl
  BY <1>18 DEF NoControl
<1>19. CASE StillRunning
  BY <1>19 DEF StillRunning, Persist, Fail
<1>20. CASE WaitFails
  BY <1>20 DEF WaitFails, Fail
<1>21. CASE ReapLeader
  BY <1>21 DEF ReapLeader, Fail
<1>22. CASE CloseLogs
  BY <1>22 DEF CloseLogs, Fail
<1>23. CASE DrainTimeout
  BY <1>23 DEF DrainTimeout, Fail
<1>24. CASE ReleaseLeases
  BY <1>24 DEF ReleaseLeases, Release, Fail
<1>25. CASE DropChild
  BY <1>25 DEF DropChild
<1>26. CASE DropLeases
  BY <1>26 DEF DropLeases
<1>27. CASE MarkSupervisorFailed
  BY <1>27, MarkedState DEF MarkSupervisorFailed
<1>28. CASE Unlock
  BY <1>28 DEF Unlock
<1>29. CASE Crash
  BY <1>29 DEF Crash
<1>30. CASE OS
  BY <1>30 DEF OS, Fork, Escape, LeaderExits, GroupExits, EscapeeExits,
     ProcessesUnchanged
<1>31. CASE Clock
  BY <1>31 DEF Clock, GracePasses, LimitPasses
<1>32. CASE Environment
  BY <1>32 DEF Environment, PruneEntries, RequestStop, ProbeLock, UnprobeLock
<1>33. CASE UNCHANGED supVars
  BY <1>33 DEF supVars
<1> QED
  BY <1>1, <1>2, <1>3, <1>4, <1>5, <1>6, <1>7, <1>8, <1>9, <1>10, <1>11,
     <1>12, <1>13, <1>14, <1>15, <1>16, <1>17, <1>18, <1>19, <1>20, <1>21,
        <1>22, <1>23, <1>24, <1>25, <1>26, <1>27, <1>28, <1>29, <1>30,
     <1>31, <1>32, <1>33
     DEF Next, Startup, SupervisorStep

LEMMA NextSupervisionInv ==
  TypeOK /\ SupervisionInv /\ [Next]_supVars => SupervisionInv'
BY LockStep, DurableStep, MemStep, TreeStep, LeaseStep, EndingStep
   DEF SupervisionInv

(* At every point of the supervisor the lock, the durable and the held      *)
(* status, the guard over the child and the leases are as its code assumes. *)
THEOREM SupervisionCorrect == SafeSpec => [](TypeOK /\ SupervisionInv)
<1>1. Init => TypeOK /\ SupervisionInv
  BY InitTypeOK, InitSupervisionInv
<1>2. TypeOK /\ SupervisionInv /\ [Next]_supVars => (TypeOK /\ SupervisionInv)'
  BY NextTypeOK, NextSupervisionInv
<1> QED
  BY <1>1, <1>2, PTL DEF SafeSpec

-----------------------------------------------------------------------------
(* What follows for the readers of the run directory. *)

(* No path records a terminal state while an unkilled group may still run,  *)
(* but for the failure of a supervisor that may not signal it.              *)
THEOREM NoLiveTree == SafeSpec => []NoLiveTreeAtTerminal
<1>1. SupervisionInv => NoLiveTreeAtTerminal
  BY DEF SupervisionInv, TreeInv, Quiet, Swept, NoLiveTreeAtTerminal, TypeOK,
         RunStates, IsTerminal, TerminalStatuses
<1> QED
  BY <1>1, SupervisionCorrect, PTL

(* A run that ended in its own way has given its ports back. *)
THEOREM PortsReleased == SafeSpec => []ReleasedAtTerminal
<1>1. SupervisionInv => ReleasedAtTerminal
  BY DEF SupervisionInv, LeaseInv, ReleasedAtTerminal
<1> QED
  BY <1>1, SupervisionCorrect, PTL

(* A terminal state.json is never rewritten. *)
LEMMA TerminalStep ==
  ASSUME TypeOK, SupervisionInv, [Next]_supVars, IsTerminal(durable)
  PROVE  durable' = durable
<1>1. pc \in Leaving
  BY DEF SupervisionInv, TreeInv
<1> USE <1>1 DEF Leaving
<1>2. CASE Startup
  BY <1>2 DEF Startup, Launch, LaunchFails, AcquireLock, LockError
<1>3. CASE SupervisorStep
  <2>1. CASE DropChild \/ DropLeases \/ Unlock
    BY <2>1 DEF DropChild, DropLeases, Unlock
  <2>2. CASE MarkSupervisorFailed
    BY <2>2 DEF MarkSupervisorFailed
  <2> QED
    BY <1>3, <2>1, <2>2
       DEF SupervisorStep, ClaimRun, AcquireLeases, RecordState, Recording,
           SpawnChild, SpawnFails, ReleaseUnspawned, RecordUnspawned, Drain,
           TakeStopRequest, MissStopRequest, StopRequestAppears,
           HitRuntimeLimit, ForceStop, NoControl, StillRunning, WaitFails,
           ReapLeader, CloseLogs, DrainTimeout, ReleaseLeases
<1>4. CASE Crash \/ OS \/ Clock \/ Environment
  BY <1>4
     DEF Crash, OS, Fork, Escape, LeaderExits, GroupExits, EscapeeExits,
         ProcessesUnchanged, Clock, GracePasses, LimitPasses, Environment,
         PruneEntries, RequestStop, ProbeLock, UnprobeLock
<1>5. CASE UNCHANGED supVars
  BY <1>5 DEF supVars
<1> QED
  BY <1>2, <1>3, <1>4, <1>5 DEF Next

(* What mark_supervisor_failed and every other writer find terminal they    *)
(* leave as it is.                                                          *)
THEOREM TerminalStays == SafeSpec => TerminalIsFinal
<1>1. TypeOK /\ SupervisionInv /\ [Next]_supVars =>
        [IsTerminal(durable) => durable' = durable]_supVars
  BY TerminalStep
<1> QED
  BY <1>1, SupervisionCorrect, PTL DEF SafeSpec, TerminalIsFinal

(* A live status is left without a supervisor only by one of the faults.    *)
THEOREM OrphansComeFromFaults == SafeSpec => []OrphanOnlyByFault
<1>1. TypeOK /\ SupervisionInv => OrphanOnlyByFault
  BY DEF TypeOK, SupervisionInv, EndingInv, OrphanOnlyByFault, IsLive,
         IsTerminal, LiveStatuses, TerminalStatuses
<1> QED
  BY <1>1, SupervisionCorrect, PTL

LEMMA PortsStep == TypeOK /\ SupervisionInv /\ PortsOutliveTree /\
   [Next]_supVars => PortsOutliveTree'
<1> SUFFICES ASSUME TypeOK /\ SupervisionInv /\ PortsOutliveTree,
   [Next]_supVars PROVE PortsOutliveTree'
  OBVIOUS
<1> USE DEF TypeOK, PortsOutliveTree, GroupRuns, RunStates
<1>1. CASE Launch
  BY <1>1 DEF Launch
<1>2. CASE LaunchFails
  BY <1>2 DEF LaunchFails
<1>3. CASE AcquireLock
  <2>1. pc = "launched" /\ UNCHANGED <<tree, mem, registry>>
    BY <1>3 DEF AcquireLock
  <2>2. ~armed /\ ending = "none"
    BY <2>1 DEF SupervisionInv, TreeInv, EndingInv
  <2>3. Quiet(tree)
    BY <2>2 DEF SupervisionInv, TreeInv
  <2> QED
    BY <2>1, <2>3 DEF Quiet, Swept, GroupExists
<1>4. CASE LockError
  BY <1>4 DEF LockError
<1>5. CASE ClaimRun
  BY <1>5 DEF ClaimRun, Persist, SupervisionInv, LeaseInv, Fail
<1>6. CASE AcquireLeases
  BY <1>6 DEF AcquireLeases, SupervisionInv, TreeInv, Quiet, Swept, GroupExists, Fail
<1>7. CASE RecordState
  BY <1>7 DEF RecordState, Persist, AfterRecord, Fail
<1>8. CASE SpawnChild
  BY <1>8 DEF SpawnChild, SupervisionInv, LeaseInv, NoTree
<1>9. CASE SpawnFails
  BY <1>9 DEF SpawnFails
<1>10. CASE ReleaseUnspawned
  BY <1>10 DEF ReleaseUnspawned, Release, SupervisionInv, TreeInv, Quiet, Swept,
     GroupExists, Fail
<1>11. CASE RecordUnspawned
  BY <1>11 DEF RecordUnspawned, Fail
<1>12. CASE Drain
  BY <1>12 DEF Drain, Persist, Fail
<1>13. CASE TakeStopRequest
  <2>1. mem'.lease = mem.lease /\ UNCHANGED <<registry, lock>>
    BY <1>13 DEF TakeStopRequest, BeginStopping
  <2>2. tree' = tree \/ tree' = Killed(tree)
    BY <1>13 DEF TakeStopRequest, BeginStopping
  <2> QED
    BY <2>1, <2>2, KilledKeeps
<1>14. CASE MissStopRequest
  BY <1>14 DEF MissStopRequest
<1>15. CASE StopRequestAppears
  BY <1>15 DEF StopRequestAppears, Fail
<1>16. CASE HitRuntimeLimit
  <2>1. mem'.lease = mem.lease /\ UNCHANGED <<registry, lock>>
    BY <1>16 DEF HitRuntimeLimit, BeginStopping
  <2>2. tree' = tree \/ tree' = Killed(tree)
    BY <1>16 DEF HitRuntimeLimit, BeginStopping
  <2> QED
    BY <2>1, <2>2, KilledKeeps
<1>17. CASE ForceStop
  <2>1. mem'.lease = mem.lease /\ UNCHANGED <<registry, lock>>
    BY <1>17 DEF ForceStop
  <2>2. tree' = tree \/ tree' = Killed(tree)
    BY <1>17 DEF ForceStop
  <2> QED
    BY <2>1, <2>2, KilledKeeps
<1>18. CASE NoControl
  BY <1>18 DEF NoControl
<1>19. CASE StillRunning
  BY <1>19 DEF StillRunning, Persist, Fail
<1>20. CASE WaitFails
  BY <1>20 DEF WaitFails, Fail
<1>21. CASE ReapLeader
  <2>1. PICK t \in {[tree EXCEPT !.leader = "reaped"], Killed([tree EXCEPT !.leader = "reaped"])} :
          tree' = t
    BY <1>21 DEF ReapLeader
  <2>2. [tree EXCEPT !.leader = "reaped"] \in Trees
    BY DEF Trees
  <2>3. /\ t.leader = "reaped" /\ t.group = tree.group /\ t.denied = tree.denied
        /\ (tree.killed => t.killed)
    BY <2>1, <2>2, KilledKeeps DEF Trees
  <2>4. mem'.lease = mem.lease /\ UNCHANGED <<registry, lock>>
    BY <1>21 DEF ReapLeader
  <2> QED
    BY <2>1, <2>3, <2>4
<1>22. CASE CloseLogs
  BY <1>22 DEF CloseLogs, Fail
<1>23. CASE DrainTimeout
  BY <1>23 DEF DrainTimeout, Fail
<1>24. CASE ReleaseLeases
  BY <1>24 DEF ReleaseLeases, Release, SupervisionInv, TreeInv, Quiet, Swept,
     GroupExists, Fail
<1>25. CASE DropChild
  BY <1>25 DEF DropChild, Killed, KillSent, Trees
<1>26. CASE DropLeases
  BY <1>26 DEF DropLeases, SupervisionInv, TreeInv, Quiet, Swept, GroupExists
<1>27. CASE MarkSupervisorFailed
  BY <1>27 DEF MarkSupervisorFailed
<1>28. CASE Unlock
  BY <1>28 DEF Unlock
<1>29. CASE Crash
  BY <1>29 DEF Crash
<1>30. CASE OS
  BY <1>30 DEF OS, Fork, Escape, LeaderExits, GroupExits, EscapeeExits,
     ProcessesUnchanged, Trees
<1>31. CASE Clock
  BY <1>31 DEF Clock, GracePasses, LimitPasses
<1>32. CASE Environment
  <2>1. UNCHANGED <<tree, mem>> /\ (registry' = registry \/ lock' # "supervisor")
    BY <1>32 DEF Environment, PruneEntries, RequestStop, ProbeLock, UnprobeLock
  <2>2. lock' = "supervisor" => lock = "supervisor"
    BY <1>32, ConstantsAssumption
       DEF Environment, PruneEntries, RequestStop, ProbeLock, UnprobeLock
  <2> QED
    BY <2>1, <2>2
<1>33. CASE UNCHANGED supVars
  BY <1>33 DEF supVars
<1> QED
  BY <1>1, <1>2, <1>3, <1>4, <1>5, <1>6, <1>7, <1>8, <1>9, <1>10, <1>11,
     <1>12, <1>13, <1>14, <1>15, <1>16, <1>17, <1>18, <1>19, <1>20, <1>21,
        <1>22, <1>23, <1>24, <1>25, <1>26, <1>27, <1>28, <1>29, <1>30,
     <1>31, <1>32, <1>33
     DEF Next, Startup, SupervisorStep

(* As long as the supervisor holds its lock, no path gives the ports up     *)
(* while an unkilled group may still use them.                              *)
THEOREM PortsHeldLongEnough == SafeSpec => []PortsOutliveTree
<1>1. Init => PortsOutliveTree
  BY DEF Init, NoTree, GroupRuns, PortsOutliveTree
<1> QED
  BY <1>1, PortsStep, SupervisionCorrect, PTL DEF SafeSpec

(* The supervisor keeps the promise of RunContract to every reader.         *)
THEOREM SupervisorKeepsContract == SafeSpec => ContractSpec
<1> USE DEF Contract!LiveStatuses, Contract!TerminalStatuses
<1>1. Init => Contract!Init
  BY DEF Init, Contract!Init
<1>2. ASSUME TypeOK, SupervisionInv, [Next]_supVars
      PROVE  [Contract!Next]_Contract!vars
  <2> USE DEF SupervisionInv, DurableInv, MemInv
  <2>1. CASE Launch
    BY <2>1 DEF Launch, Contract!vars
  <2>2. CASE AcquireLock
    BY <1>2, <2>2 DEF AcquireLock, Contract!Next, Contract!TakeLock
  <2>3. CASE LaunchFails \/ LockError
    BY <1>2, <2>3 DEF LaunchFails, LockError, TypeOK, RunStates,
       Contract!Next, Contract!NeverStarts
  <2>4. CASE ClaimRun
    BY <1>2, <2>4 DEF ClaimRun, Persist, Fail, TypeOK, RunStates,
       Contract!Next, Contract!Advance, Contract!Successors, Contract!vars
  <2>5. CASE RecordState
    <3>1. CASE pc = "record_leases"
      BY <1>2, <2>5, <3>1 DEF RecordState, AfterRecord, Persist, Fail,
         Contract!vars
    <3>2. CASE pc = "record_running"
      BY <1>2, <2>5, <3>2 DEF RecordState, AfterRecord, Persist, Fail,
         Contract!Next, Contract!Advance, Contract!Successors, Contract!vars
    <3>3. CASE pc = "record_stopping"
      BY <1>2, <2>5, <3>3 DEF RecordState, AfterRecord, Persist, Fail,
         CurrentStatus, Contract!Next, Contract!Advance, Contract!Successors,
            Contract!vars
    <3>4. CASE pc = "record_force"
      BY <1>2, <2>5, <3>4 DEF RecordState, AfterRecord, Persist, Fail,
         CurrentStatus, Supervising, Contract!vars
    <3>5. CASE pc = "record_final"
      BY <1>2, <2>5, <3>5 DEF RecordState, AfterRecord, Persist, Fail,
         CurrentStatus, FinalStatus, Supervising, Contract!Next,
            Contract!Finish, Contract!Endings, Contract!vars
    <3> QED
      BY <2>5, <3>1, <3>2, <3>3, <3>4, <3>5 DEF RecordState, Recording
  <2>6. CASE RecordUnspawned
    BY <1>2, <2>6 DEF RecordUnspawned, Fail, Contract!Next, Contract!Finish,
       Contract!Endings, Contract!vars
  <2>7. CASE Drain
    BY <1>2, <2>7 DEF Drain, Persist, Fail, TypeOK, RunStates, Supervising,
       Contract!vars
  <2>8. CASE StillRunning
    BY <1>2, <2>8 DEF StillRunning, Persist, Fail, Supervising, Contract!vars
  <2>9. CASE MarkSupervisorFailed
    BY <1>2, <2>9, MarkedState DEF MarkSupervisorFailed, IsLive,
       LiveStatuses, Contract!Next, Contract!Finish, Contract!Endings,
       Contract!vars
  <2>10. CASE Unlock
    BY <2>10 DEF Unlock, Contract!Next, Contract!GiveUpLock
  <2>11. CASE Crash
    BY <1>2, <2>11 DEF Crash, Contract!Next, Contract!GiveUpLock,
       Contract!NeverStarts
  <2>12. CASE AcquireLeases \/ SpawnChild \/ SpawnFails \/ ReleaseUnspawned
              \/ TakeStopRequest \/ MissStopRequest \/ StopRequestAppears
              \/ HitRuntimeLimit \/ ForceStop \/ NoControl \/ WaitFails
              \/ ReapLeader \/ CloseLogs \/ DrainTimeout \/ ReleaseLeases
              \/ DropChild \/ DropLeases
    BY <2>12
       DEF AcquireLeases, SpawnChild, SpawnFails, ReleaseUnspawned, Release,
           TakeStopRequest, MissStopRequest, StopRequestAppears,
           HitRuntimeLimit, BeginStopping, ForceStop, NoControl, WaitFails,
           ReapLeader, CloseLogs, DrainTimeout, ReleaseLeases, DropChild,
           DropLeases, Fail, Contract!vars
  <2>13. CASE OS \/ Clock \/ Environment \/ UNCHANGED supVars
    BY <2>13
       DEF OS, Fork, Escape, LeaderExits, GroupExits, EscapeeExits,
           ProcessesUnchanged, Clock, GracePasses, LimitPasses, Environment,
           PruneEntries, RequestStop, ProbeLock, UnprobeLock, supVars, Contract!vars
  <2> QED
    BY <1>2, <2>1, <2>2, <2>3, <2>4, <2>5, <2>6, <2>7, <2>8, <2>9, <2>10,
       <2>11, <2>12, <2>13
       DEF Next, Startup, SupervisorStep
<1> QED
  BY <1>1, <1>2, SupervisionCorrect, PTL DEF SafeSpec, ContractSpec,
     Contract!Spec

-----------------------------------------------------------------------------
(* Kills and the evidence of them. *)

(* Until the leader is reaped only a stop kills, every kill is noted in     *)
(* memory, and what an orderly end has recorded includes it.                *)
EvidenceInv ==
  /\ pc \notin Leaving \cup {"drain_closed", "release", "record_final"}
       /\ stopping = "none" => ~tree.killed
  /\ pc \notin Leaving /\ tree.killed => mem.swept /\ (stopping # "none" => mem.forced)
  /\ durable.status \in {"exited", "stopped"} /\ tree.killed =>
       durable.swept /\ (durable.status = "stopped" => durable.forced)

(* Steps that neither kill nor touch the notes of it.                       *)
LEMMA EvidenceKept ==
  ASSUME EvidenceInv, UNCHANGED <<tree, stopping>>, durable' = durable \/
           durable'.status \notin {"exited", "stopped"},
         mem'.swept = mem.swept, mem'.forced = mem.forced,
         pc \in Leaving => pc' \in Leaving,
         pc \in {"drain_closed", "release", "record_final"} =>
           pc' \in Leaving \cup {"drain_closed", "release", "record_final"}
  PROVE  EvidenceInv'
BY DEF EvidenceInv

LEMMA EvidenceStep == TypeOK /\ SupervisionInv /\ EvidenceInv /\ [Next]_supVars
   => EvidenceInv'
<1> SUFFICES ASSUME TypeOK, SupervisionInv, EvidenceInv, [Next]_supVars
   PROVE EvidenceInv'
  OBVIOUS
<1>1. CASE Startup
  <2>1. /\ UNCHANGED <<tree, stopping, mem>>
        /\ durable' = durable \/ durable'.status = "failed"
        /\ pc \in {"absent", "launched"}
    BY <1>1 DEF Startup, Launch, LaunchFails, AcquireLock, LockError, TypeOK, RunStates
  <2> QED
    BY <2>1, EvidenceKept DEF Leaving
<1>2. CASE ClaimRun
  <2>1. /\ pc = "claim" /\ UNCHANGED <<tree, stopping>>
        /\ durable' = durable \/ durable'.status = "starting"
        /\ mem' = mem \/ mem' = [durable EXCEPT !.status = "starting"]
        /\ stopping = "none"
    BY <1>2 DEF ClaimRun, Persist, Fail, TypeOK, RunStates, SupervisionInv, MemInv,
       Supervising, Leaving
  <2>2. ~tree.killed
    BY <2>1 DEF EvidenceInv, Leaving
  <2> QED
    BY <2>1, <2>2 DEF EvidenceInv
<1>3. CASE AcquireLeases \/ ReleaseUnspawned \/ SpawnFails
  <2>1. /\ pc \in {"acquire", "release_unspawned", "spawn"}
        /\ UNCHANGED <<tree, stopping, durable>>
        /\ mem'.swept = mem.swept /\ mem'.forced = mem.forced
    BY <1>3 DEF AcquireLeases, ReleaseUnspawned, SpawnFails, Release, LeaseReleased, Fail,
       TypeOK, RunStates
  <2> QED
    BY <2>1, EvidenceKept DEF Leaving
<1>4. CASE RecordState
  <2>1. /\ pc \in Recording /\ UNCHANGED <<tree, stopping, mem>>
        /\ \/ durable' = mem /\ pc' = AfterRecord[pc]
           \/ durable' = durable /\ pc' = "unwind"
    BY <1>4 DEF RecordState, Persist, Fail
  <2>2. CASE durable' = durable /\ pc' = "unwind"
    BY <2>1, <2>2, EvidenceKept DEF Leaving
  <2>3. CASE durable' = mem /\ pc = "record_final" /\ pc' = AfterRecord[pc]
    <3>1. pc' = "unlock"
      BY <2>3 DEF AfterRecord
    <3>2. mem.status = IF stopping = "none" THEN "exited" ELSE "stopped"
      BY <2>3 DEF SupervisionInv, MemInv, FinalStatus
    <3> QED
      BY <2>1, <2>3, <3>1, <3>2 DEF EvidenceInv, Leaving
  <2>4. CASE durable' = mem /\ pc # "record_final" /\ pc' = AfterRecord[pc]
    <3>1. mem.status \in {"starting", "running", "stopping"}
      BY <2>1, <2>4 DEF SupervisionInv, MemInv, CurrentStatus, Recording, Supervising
    <3>2. pc \notin Leaving \cup {"drain_closed", "release", "record_final"}
      BY <2>1, <2>4 DEF Recording, Leaving
    <3> QED
      BY <2>1, <2>4, <3>1, <3>2, EvidenceKept
  <2> QED
    BY <2>1, <2>2, <2>3, <2>4
<1>5. CASE SpawnChild
  <2>1. /\ pc = "spawn" /\ ~tree'.killed
    BY <1>5 DEF SpawnChild, NoTree
  <2> QED
    BY <2>1 DEF EvidenceInv
<1>6. CASE RecordUnspawned
  <2>1. /\ pc = "record_unspawned" /\ pc' = "unwind" /\ UNCHANGED <<tree, stopping, mem>>
        /\ durable' = mem \/ durable' = durable
    BY <1>6 DEF RecordUnspawned, Fail
  <2>2. mem.status = "failed"
    BY <2>1 DEF SupervisionInv, MemInv
  <2> QED
    BY <2>1, <2>2, EvidenceKept DEF Leaving
<1>7. CASE Drain
  <2>1. /\ pc = "drain" /\ UNCHANGED <<tree, stopping>>
        /\ durable' = durable \/ durable' = mem'
        /\ mem'.status = mem.status /\ mem'.swept = mem.swept /\ mem'.forced = mem.forced
    BY <1>7 DEF Drain, Persist, Fail, TypeOK, RunStates
  <2>2. mem.status \in {"running", "stopping"}
    BY <2>1 DEF SupervisionInv, MemInv, Supervising, CurrentStatus
  <2> QED
    BY <2>1, <2>2, EvidenceKept DEF Leaving
<1>8. CASE TakeStopRequest \/ HitRuntimeLimit
  <2>1. PICK reason \in StopReasons :
          \/ BeginStopping(reason)
          \/ pc' = "unwind" /\ UNCHANGED <<mem, stopping, tree>>
    BY <1>8 DEF TakeStopRequest, HitRuntimeLimit, Fail, StopReasons
  <2>2. /\ pc \in {"control", "confirm"} /\ stopping = "none" /\ UNCHANGED durable
    BY <1>8 DEF TakeStopRequest, HitRuntimeLimit, SupervisionInv, MemInv
  <2>3. CASE pc' = "unwind" /\ UNCHANGED <<mem, stopping, tree>>
    BY <2>2, <2>3, EvidenceKept DEF Leaving
  <2>4. CASE BeginStopping(reason) /\ ~(pc' = "unwind" /\ UNCHANGED <<mem, stopping, tree>>)
    <3>1. /\ mem' = [mem EXCEPT !.status = "stopping", !.swept = TRUE,
                                !.forced = @ \/ ~Unix,
                                !.limited = (reason = "runtime_limit")]
          /\ tree' = IF Unix THEN tree ELSE Killed(tree)
          /\ pc' = "record_stopping" /\ stopping' = reason
      BY <2>4 DEF BeginStopping, Fail
    <3>2. ~tree.killed /\ ~IsTerminal(durable)
      BY <2>2 DEF EvidenceInv, SupervisionInv, TreeInv, Leaving
    <3>3. mem'.swept /\ (~Unix => mem'.forced)
      BY <3>1, ConstantsAssumption DEF TypeOK, RunStates
    <3>4. Unix => ~tree'.killed
      BY <3>1, <3>2
    <3>5. durable.status \notin {"exited", "stopped"}
      BY <3>2 DEF IsTerminal, TerminalStatuses
    <3>6. stopping' # "none"
      BY <3>1 DEF StopReasons
    <3> QED
      BY <2>2, <3>1, <3>3, <3>4, <3>5, <3>6 DEF EvidenceInv
  <2> QED
    BY <2>1, <2>3, <2>4
<1>9. CASE ForceStop
  <2>1. /\ pc = "control" /\ stopping # "none" /\ UNCHANGED <<durable, stopping>>
        /\ \/ pc' = "unwind" /\ UNCHANGED <<mem, tree>>
           \/ /\ tree' = Killed(tree) /\ pc' = "record_force"
              /\ mem' = [mem EXCEPT !.swept = @ \/ KillSent(tree), !.forced = TRUE]
    BY <1>9 DEF ForceStop, ForceDue, Fail
  <2>2. durable.status \notin {"exited", "stopped"}
    BY <2>1 DEF SupervisionInv, TreeInv, Leaving, IsTerminal, TerminalStatuses
  <2>3. CASE pc' = "unwind" /\ UNCHANGED <<mem, tree>>
    BY <2>1, <2>3, EvidenceKept DEF Leaving
  <2>4. CASE /\ tree' = Killed(tree) /\ pc' = "record_force"
             /\ mem' = [mem EXCEPT !.swept = @ \/ KillSent(tree), !.forced = TRUE]
    <3>1. mem'.forced /\ (mem'.swept <=> mem.swept \/ KillSent(tree))
      BY <2>4 DEF TypeOK, RunStates
    <3>2. tree'.killed <=> tree.killed \/ KillSent(tree)
      BY <2>4 DEF TypeOK, Trees, Killed
    <3>3. tree.killed => mem.swept
      BY <2>1 DEF EvidenceInv, Leaving
    <3> QED
      BY <2>1, <2>2, <2>4, <3>1, <3>2, <3>3 DEF EvidenceInv
  <2> QED
    BY <2>1, <2>3, <2>4
<1>10. CASE ReapLeader
  <2> DEFINE reaped == [tree EXCEPT !.leader = "reaped"]
  <2>1. /\ pc = "reap" /\ UNCHANGED <<durable, stopping>>
        /\ \/ pc' = "unwind" /\ tree' = reaped /\ UNCHANGED mem
           \/ /\ tree' = Killed(reaped) /\ pc' = "drain_closed"
              /\ mem' = [mem EXCEPT
                   !.swept = @ \/ KillSent(reaped),
                   !.forced = @ \/ (KillSent(reaped) /\ stopping # "none")]
    BY <1>10 DEF ReapLeader, Fail
  <2>2. durable.status \notin {"exited", "stopped"}
    BY <2>1 DEF SupervisionInv, TreeInv, Leaving, IsTerminal, TerminalStatuses
  <2>3. reaped.killed = tree.killed
    BY DEF TypeOK, Trees
  <2>4. CASE pc' = "unwind" /\ tree' = reaped /\ UNCHANGED mem
    BY <2>1, <2>2, <2>4 DEF EvidenceInv, Leaving
  <2>5. CASE /\ tree' = Killed(reaped) /\ pc' = "drain_closed"
             /\ mem' = [mem EXCEPT
                  !.swept = @ \/ KillSent(reaped),
                  !.forced = @ \/ (KillSent(reaped) /\ stopping # "none")]
    <3>1. /\ mem'.swept <=> mem.swept \/ KillSent(reaped)
          /\ mem'.forced <=> mem.forced \/ (KillSent(reaped) /\ stopping # "none")
      BY <2>5 DEF TypeOK, RunStates
    <3>2. reaped \in Trees
      BY DEF TypeOK, Trees
    <3>3. tree'.killed <=> tree.killed \/ KillSent(reaped)
      BY <2>3, <2>5, <3>2 DEF Trees, Killed
    <3>4. tree.killed => mem.swept /\ (stopping # "none" => mem.forced)
      BY <2>1 DEF EvidenceInv, Leaving
    <3> QED
      BY <2>1, <2>2, <2>5, <3>1, <3>3, <3>4 DEF EvidenceInv
  <2> QED
    BY <2>1, <2>4, <2>5
<1>11. CASE StillRunning
  <2>1. /\ pc = "reap" /\ UNCHANGED <<tree, stopping, mem>>
        /\ durable' = durable \/ durable' = mem
    BY <1>11 DEF StillRunning, Persist, Fail
  <2>2. mem.status \in {"running", "stopping"}
    BY <2>1 DEF SupervisionInv, MemInv, Supervising, CurrentStatus
  <2> QED
    BY <2>1, <2>2, EvidenceKept DEF Leaving
<1>12. CASE CloseLogs \/ ReleaseLeases
  <2>1. /\ pc \in {"drain_closed", "release"} /\ UNCHANGED <<tree, stopping, durable>>
        /\ pc' \in {"release", "record_final", "unwind"}
        /\ mem'.swept = mem.swept /\ mem'.forced = mem.forced
    BY <1>12 DEF CloseLogs, ReleaseLeases, Release, LeaseReleased, Fail, TypeOK, RunStates
  <2> QED
    BY <2>1, EvidenceKept DEF Leaving
<1>13. CASE MissStopRequest \/ StopRequestAppears \/ NoControl \/ WaitFails \/ DrainTimeout
  <2>1. /\ pc \in {"control", "confirm", "reap"} \/ (pc = "drain_closed" /\ pc' = "unwind")
        /\ UNCHANGED <<tree, stopping, durable, mem>>
    BY <1>13 DEF MissStopRequest, StopRequestAppears, NoControl, WaitFails, DrainTimeout, Fail
  <2> QED
    BY <2>1, EvidenceKept DEF Leaving
<1>14. CASE DropChild
  <2>1. /\ pc = "unwind" /\ pc' = "unwind_leases" /\ UNCHANGED durable
        /\ ~armed => tree' = tree
    BY <1>14 DEF DropChild
  <2>2. armed => durable.status \notin {"exited", "stopped"}
    BY DEF SupervisionInv, TreeInv, IsTerminal, TerminalStatuses
  <2> QED
    BY <2>1, <2>2 DEF EvidenceInv, Leaving
<1>15. CASE DropLeases \/ Unlock
  <2>1. /\ UNCHANGED <<tree, stopping, durable, mem>> /\ pc' \in {"mark", "gone"}
    BY <1>15 DEF DropLeases, Unlock
  <2> QED
    BY <2>1, EvidenceKept DEF Leaving
<1>16. CASE MarkSupervisorFailed
  <2>1. /\ UNCHANGED <<tree, stopping, mem>> /\ pc' = "unlock"
    BY <1>16 DEF MarkSupervisorFailed
  <2>2. durable' = durable \/ durable'.status = "failed"
    BY <1>16 DEF MarkSupervisorFailed, TypeOK, RunStates, LeaseReleased
  <2> QED
    BY <2>1, <2>2, EvidenceKept DEF Leaving
<1>17. CASE Crash
  BY <1>17, EvidenceKept DEF Crash, Leaving
<1>18. CASE OS
  <2>1. /\ UNCHANGED <<pc, durable, mem, stopping>> /\ tree'.killed = tree.killed
    BY <1>18 DEF OS, Fork, Escape, LeaderExits, GroupExits, EscapeeExits,
       ProcessesUnchanged, TypeOK, Trees
  <2> QED
    BY <2>1 DEF EvidenceInv
<1>19. CASE Clock \/ Environment \/ UNCHANGED supVars
  <2>1. UNCHANGED <<pc, durable, mem, stopping, tree>>
    BY <1>19 DEF Clock, GracePasses, LimitPasses, Environment, PruneEntries, RequestStop, ProbeLock,
       UnprobeLock, supVars
  <2> QED
    BY <2>1 DEF EvidenceInv
<1> QED
  BY <1>1, <1>2, <1>3, <1>4, <1>5, <1>6, <1>7, <1>8, <1>9, <1>10, <1>11, <1>12,
     <1>13, <1>14, <1>15, <1>16, <1>17, <1>18, <1>19 DEF Next, SupervisorStep

(* An orderly end's cleanup evidence accounts for every kill that was sent  *)
(* (swept for descendant_cleanup_triggered, forced for force_used).         *)
THEOREM KillsAreRecorded == SafeSpec => []KillIsRecorded
<1>1. Init => EvidenceInv
  BY DEF Init, EvidenceInv, NoTree
<1>2. EvidenceInv => KillIsRecorded
  BY DEF EvidenceInv, KillIsRecorded
<1> QED
  BY <1>1, <1>2, EvidenceStep, SupervisionCorrect, PTL DEF SafeSpec

(* On Unix no step kills a leader that still runs before its grace period   *)
(* is over, but for the failing supervisor's guard.                         *)
THEOREM GraceIsRespected == SafeSpec => GraceRespected
<1> DEFINE Patient == Unix /\ tree'.killed /\ ~tree.killed /\ pc # "unwind"
                        => graceDue \/ tree.leader = "exited"
<1>1. TypeOK /\ [Next]_supVars => Patient
  <2> SUFFICES ASSUME TypeOK, [Next]_supVars, Unix, tree'.killed, ~tree.killed,
                      pc # "unwind"
      PROVE graceDue \/ tree.leader = "exited"
    OBVIOUS
  <2> USE DEF TypeOK, Trees
  <2>1. CASE ForceStop
    BY <2>1 DEF ForceStop, ForceDue
  <2>2. CASE ReapLeader
    BY <2>2 DEF ReapLeader
  <2>3. CASE SpawnChild
    BY <2>3 DEF SpawnChild, NoTree
  <2>4. CASE TakeStopRequest \/ HitRuntimeLimit
    BY <2>4 DEF TakeStopRequest, HitRuntimeLimit, BeginStopping
  <2>5. CASE DropChild
    BY <2>5 DEF DropChild
  <2>6. CASE Crash
    BY <2>6 DEF Crash
  <2>7. CASE OS
    BY <2>7 DEF OS, Fork, Escape, LeaderExits, GroupExits, EscapeeExits
  <2>8. CASE \/ Startup \/ Clock \/ Environment \/ UNCHANGED supVars
             \/ ClaimRun \/ AcquireLeases \/ RecordState \/ SpawnFails
             \/ ReleaseUnspawned \/ RecordUnspawned \/ Drain
    BY <2>8 DEF Startup, Launch, LaunchFails, AcquireLock, LockError, ClaimRun,
       AcquireLeases, RecordState, SpawnFails, ReleaseUnspawned, RecordUnspawned, Drain,
       Clock, GracePasses, LimitPasses, Environment, PruneEntries, RequestStop, ProbeLock, UnprobeLock,
       supVars
  <2>9. CASE \/ MissStopRequest \/ StopRequestAppears \/ NoControl \/ StillRunning
             \/ WaitFails \/ CloseLogs \/ DrainTimeout \/ ReleaseLeases \/ DropLeases
             \/ MarkSupervisorFailed \/ Unlock
    BY <2>9 DEF MissStopRequest, StopRequestAppears, NoControl, StillRunning, WaitFails,
       CloseLogs, DrainTimeout, ReleaseLeases, DropLeases, MarkSupervisorFailed, Unlock
  <2> QED
    BY <2>1, <2>2, <2>3, <2>4, <2>5, <2>6, <2>7, <2>8, <2>9 DEF Next, SupervisorStep
<1> QED
  BY <1>1, TypeCorrect, PTL DEF SafeSpec, GraceRespected

-----------------------------------------------------------------------------
(* The cause of a stop. *)

(* Until the supervisor leaves, limited says in memory, and in state.json   *)
(* once that says stopping, whether the runtime limit is the cause; and the *)
(* final state that is about to be recorded gives it as the reason.         *)
CauseInv ==
  /\ pc \notin Leaving =>
       /\ mem.limited = (stopping = "runtime_limit")
       /\ durable.limited => stopping = "runtime_limit"
       /\ durable.status = "stopping" => durable.limited = mem.limited
  /\ pc = "record_final" /\ stopping # "none" => mem.reason = stopping
  /\ durable.status = "exited" => ~durable.limited

(* What a step may do to the cause of a stop that is recorded.              *)
CauseStep ==
  /\ durable.status = "stopping" => durable'.limited = durable.limited
  /\ durable'.status = "stopped" /\ durable.status # "stopped" =>
       /\ durable.status = "stopping"
       /\ durable'.reason =
            IF durable.limited THEN "runtime_limit" ELSE "stop_requested"
  /\ durable'.status = "exited" => ~durable'.limited

(* Steps that leave state.json, the cause and its note in memory alone.     *)
LEMMA CauseKept ==
  ASSUME CauseInv, UNCHANGED <<durable, stopping>>, mem'.limited = mem.limited,
         pc \in Leaving => pc' \in Leaving, pc' # "record_final"
  PROVE  CauseInv' /\ CauseStep
BY DEF CauseInv, CauseStep

(* Steps that write the held state to state.json, but not the final one.    *)
LEMMA CauseWritten ==
  ASSUME SupervisionInv, CauseInv, durable' = mem', UNCHANGED stopping,
         mem'.limited = mem.limited, mem'.status = mem.status,
         mem.status \notin {"exited", "stopped"},
         pc \notin Leaving, pc' # "record_final"
  PROVE  CauseInv' /\ CauseStep
BY DEF CauseInv, CauseStep

LEMMA NextCause ==
  TypeOK /\ SupervisionInv /\ CauseInv /\ [Next]_supVars => CauseInv' /\ CauseStep
<1> SUFFICES ASSUME TypeOK, SupervisionInv, CauseInv, [Next]_supVars
    PROVE  CauseInv' /\ CauseStep
  OBVIOUS
<1>1. CASE Launch \/ AcquireLock \/ LockError
  <2>1. UNCHANGED <<durable, mem, stopping>> /\ pc' # "record_final" /\ pc \notin Leaving
    BY <1>1 DEF Launch, AcquireLock, LockError, Leaving
  <2> QED
    BY <2>1, CauseKept
<1>2. CASE LaunchFails
  <2>1. /\ pc = "absent" /\ pc' = "gone" /\ UNCHANGED <<mem, stopping>>
        /\ durable' = durable \/ durable'.status = "failed"
    BY <1>2 DEF LaunchFails, TypeOK, RunStates
  <2>2. durable.status = "created"
    BY <2>1 DEF SupervisionInv, DurableInv
  <2> QED
    BY <2>1, <2>2 DEF CauseInv, CauseStep, Leaving
<1>3. CASE ClaimRun
  <2>1. /\ pc = "claim" /\ stopping = "none" /\ UNCHANGED stopping
        /\ durable.status = "created" /\ ~durable.limited /\ ~mem.limited
    BY <1>3 DEF ClaimRun, SupervisionInv, DurableInv, MemInv, CauseInv, Supervising, Leaving
  <2>2. /\ durable' = durable \/ (durable' = mem' /\ mem'.status = "starting")
        /\ mem'.limited = FALSE /\ pc' \in {"acquire", "unwind"}
    BY <1>3, <2>1 DEF ClaimRun, Persist, Fail, TypeOK, RunStates
  <2> QED
    BY <2>1, <2>2 DEF CauseInv, CauseStep
<1>4. CASE AcquireLeases \/ ReleaseUnspawned \/ SpawnFails \/ SpawnChild
  <2>1. /\ pc \in {"acquire", "release_unspawned", "spawn"} /\ pc' # "record_final"
        /\ UNCHANGED <<durable, stopping>> /\ mem'.limited = mem.limited
    BY <1>4 DEF AcquireLeases, ReleaseUnspawned, SpawnFails, SpawnChild, Release,
       LeaseReleased, Fail, TypeOK, RunStates
  <2> QED
    BY <2>1, CauseKept DEF Leaving
<1>5. CASE RecordState
  <2>1. /\ pc \in Recording /\ UNCHANGED <<stopping, mem>>
        /\ \/ durable' = mem /\ pc' = AfterRecord[pc]
           \/ durable' = durable /\ pc' = "unwind"
    BY <1>5 DEF RecordState, Persist, Fail
  <2>2. CASE durable' = durable /\ pc' = "unwind"
    BY <2>1, <2>2, CauseKept DEF Leaving
  <2>3. CASE durable' = mem /\ pc = "record_final" /\ pc' = AfterRecord[pc]
    <3>1. pc' = "unlock"
      BY <2>3 DEF AfterRecord
    <3>2. /\ mem.status = IF stopping = "none" THEN "exited" ELSE "stopped"
          /\ durable.status = IF stopping = "none" THEN "running" ELSE "stopping"
      BY <2>3 DEF SupervisionInv, MemInv, DurableInv, FinalStatus, CurrentStatus, Supervising
    <3>3. /\ mem.limited = (stopping = "runtime_limit")
          /\ durable.status = "stopping" => durable.limited = mem.limited
          /\ stopping # "none" => mem.reason = stopping
      BY <2>3 DEF CauseInv, Leaving
    <3>4. stopping \in {"none", "stop_requested", "runtime_limit"}
      BY DEF TypeOK, StopReasons
    <3> QED
      BY <2>1, <2>3, <3>1, <3>2, <3>3, <3>4 DEF CauseInv, CauseStep, Leaving
  <2>4. CASE durable' = mem /\ pc # "record_final" /\ pc' = AfterRecord[pc]
    <3>1. mem.status \in {"starting", "running", "stopping"}
      BY <2>1, <2>4 DEF SupervisionInv, MemInv, CurrentStatus, Recording, Supervising
    <3>2. pc \notin Leaving /\ pc' # "record_final"
      BY <2>1, <2>4 DEF Recording, Leaving, AfterRecord
    <3> QED
      BY <2>1, <2>4, <3>1, <3>2, CauseWritten
  <2> QED
    BY <2>1, <2>2, <2>3, <2>4
<1>6. CASE RecordUnspawned
  <2>1. /\ pc = "record_unspawned" /\ pc' = "unwind" /\ UNCHANGED <<stopping, mem>>
        /\ durable' = mem \/ durable' = durable
    BY <1>6 DEF RecordUnspawned, Fail
  <2>2. mem.status = "failed"
    BY <2>1 DEF SupervisionInv, MemInv
  <2>3. CASE durable' = durable
    BY <2>1, <2>3, CauseKept DEF Leaving
  <2>4. CASE durable' = mem
    BY <2>1, <2>2, <2>4, CauseWritten DEF Leaving
  <2> QED
    BY <2>1, <2>3, <2>4
<1>7. CASE Drain \/ StillRunning
  <2>1. /\ pc \in {"drain", "reap"} /\ UNCHANGED stopping
        /\ durable' = durable \/ durable' = mem'
        /\ mem'.status = mem.status /\ mem'.limited = mem.limited
        /\ pc' \in {"control", "drain", "unwind"}
    BY <1>7 DEF Drain, StillRunning, Persist, Fail, TypeOK, RunStates
  <2>2. mem.status \in {"running", "stopping"} /\ pc \notin Leaving
    BY <2>1 DEF SupervisionInv, MemInv, Supervising, CurrentStatus, Leaving
  <2>3. CASE durable' = durable
    BY <2>1, <2>2, <2>3, CauseKept
  <2>4. CASE durable' = mem'
    BY <2>1, <2>2, <2>4, CauseWritten
  <2> QED
    BY <2>1, <2>3, <2>4
<1>8. CASE TakeStopRequest \/ HitRuntimeLimit
  <2>1. PICK reason \in StopReasons :
          \/ BeginStopping(reason)
          \/ pc' = "unwind" /\ UNCHANGED <<mem, stopping, tree>>
    BY <1>8 DEF TakeStopRequest, HitRuntimeLimit, Fail, StopReasons
  <2>2. /\ pc \in {"control", "confirm"} /\ stopping = "none" /\ UNCHANGED durable
    BY <1>8 DEF TakeStopRequest, HitRuntimeLimit, SupervisionInv, MemInv
  <2>3. CASE pc' = "unwind" /\ UNCHANGED <<mem, stopping, tree>>
    BY <2>2, <2>3, CauseKept DEF Leaving
  <2>4. CASE BeginStopping(reason) /\ ~(pc' = "unwind" /\ UNCHANGED <<mem, stopping, tree>>)
    <3>1. /\ mem' = [mem EXCEPT !.status = "stopping", !.swept = TRUE,
                                !.forced = @ \/ ~Unix,
                                !.limited = (reason = "runtime_limit")]
          /\ pc' = "record_stopping" /\ stopping' = reason
      BY <2>4 DEF BeginStopping, Fail
    <3>2. mem'.limited = (reason = "runtime_limit")
      BY <3>1 DEF TypeOK, RunStates
    <3>3. durable.status = "running" /\ ~durable.limited
      BY <2>2 DEF SupervisionInv, DurableInv, CauseInv, Supervising, CurrentStatus, Leaving
    <3> QED
      BY <2>2, <3>1, <3>2, <3>3 DEF CauseInv, CauseStep
  <2> QED
    BY <2>1, <2>3, <2>4
<1>9. CASE ForceStop \/ ReapLeader \/ CloseLogs
  <2>1. /\ pc \in {"control", "reap", "drain_closed"}
        /\ pc' \in {"record_force", "drain_closed", "release", "unwind"}
        /\ UNCHANGED <<durable, stopping>> /\ mem'.limited = mem.limited
    BY <1>9 DEF ForceStop, ReapLeader, CloseLogs, Fail, TypeOK, RunStates
  <2> QED
    BY <2>1, CauseKept DEF Leaving
<1>10. CASE MissStopRequest \/ StopRequestAppears \/ NoControl \/ WaitFails \/ DrainTimeout
  <2>1. /\ pc \in {"control", "confirm", "reap", "drain_closed"}
        /\ pc' \in {"confirm", "reap", "unwind"}
        /\ UNCHANGED <<stopping, durable, mem>>
    BY <1>10 DEF MissStopRequest, StopRequestAppears, NoControl, WaitFails, DrainTimeout, Fail
  <2> QED
    BY <2>1, CauseKept DEF Leaving
<1>11. CASE ReleaseLeases
  <2>1. pc = "release" /\ UNCHANGED <<durable, stopping>>
    BY <1>11 DEF ReleaseLeases
  <2>2. \/ /\ pc' = "record_final" /\ mem'.limited = mem.limited
           /\ stopping # "none" => mem'.reason = stopping
        \/ pc' = "unwind" /\ UNCHANGED mem
    BY <1>11 DEF ReleaseLeases, Release, LeaseReleased, Fail, TypeOK, RunStates
  <2>3. CASE pc' = "unwind" /\ UNCHANGED mem
    BY <2>1, <2>3, CauseKept DEF Leaving
  <2>4. CASE pc' = "record_final" /\ mem'.limited = mem.limited
               /\ (stopping # "none" => mem'.reason = stopping)
    BY <2>1, <2>4 DEF CauseInv, CauseStep, Leaving
  <2> QED
    BY <2>2, <2>3, <2>4
<1>12. CASE DropChild \/ DropLeases \/ Unlock \/ Crash
  <2>1. UNCHANGED <<stopping, durable, mem>> /\ pc' \in Leaving /\ pc' # "record_final"
    BY <1>12 DEF DropChild, DropLeases, Unlock, Crash, Leaving
  <2> QED
    BY <2>1, CauseKept
<1>13. CASE MarkSupervisorFailed
  <2>1. /\ pc' = "unlock" /\ UNCHANGED <<mem, stopping>>
        /\ durable' = durable \/ (durable'.status = "failed"
                                    /\ durable'.limited = durable.limited)
    BY <1>13 DEF MarkSupervisorFailed, LeaseReleased, TypeOK, RunStates
  <2> QED
    BY <2>1 DEF CauseInv, CauseStep, Leaving
<1>14. CASE OS \/ Clock \/ Environment \/ UNCHANGED supVars
  <2>1. UNCHANGED <<pc, durable, mem, stopping>>
    BY <1>14 DEF OS, Fork, Escape, LeaderExits, GroupExits, EscapeeExits,
       ProcessesUnchanged, Clock, GracePasses, LimitPasses, Environment, PruneEntries,
       RequestStop, ProbeLock, UnprobeLock, supVars
  <2> QED
    BY <2>1 DEF CauseInv, CauseStep
<1> QED
  BY <1>1, <1>2, <1>3, <1>4, <1>5, <1>6, <1>7, <1>8, <1>9, <1>10, <1>11, <1>12,
     <1>13, <1>14 DEF Next, Startup, SupervisorStep

(* The cause that a stop is recorded with is the reason that the run ends   *)
(* with, whatever falls due meanwhile, and no other end is blamed on the    *)
(* runtime limit.                                                           *)
THEOREM CauseIsKept == SafeSpec => CauseStands
<1>1. Init => CauseInv
  <2> SUFFICES ASSUME Init PROVE CauseInv
    OBVIOUS
  <2>1. /\ pc = "absent" /\ stopping = "none" /\ mem = durable
        /\ durable.status = "created" /\ durable.limited \in BOOLEAN /\ ~durable.limited
    BY DEF Init, RunStates
  <2>2. mem.limited = (stopping = "runtime_limit")
    BY <2>1
  <2> QED
    BY <2>1, <2>2 DEF CauseInv
<1>2. TypeOK /\ SupervisionInv /\ CauseInv /\ [Next]_supVars => CauseInv' /\ [CauseStep]_supVars
  BY NextCause
<1> QED
  BY <1>1, <1>2, SupervisionCorrect, PTL DEF SafeSpec, CauseStands, CauseStep
=============================================================================
