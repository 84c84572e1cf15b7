------------------------------- MODULE RunStore -------------------------------
(***************************************************************************)
(* The state root with the directories of several runs (src/store.rs), as  *)
(* the commands that create, scan and delete runs see it: start, list and  *)
(* gc (src/cli.rs).  A directory is neither created nor deleted at once,   *)
(* and a scan reads one run after another while others go on.              *)
(*                                                                         *)
(* How one run is observed, step by step, is in ProcHerd.tla; here an      *)
(* observation is two steps, and another scan's probe may be taken for a   *)
(* supervisor.                                                             *)
(***************************************************************************)
EXTENDS Integers, FiniteSets, FiniteSetsExt

CONSTANTS
  Runs,     \* run identifiers, numbered in the order of their ULIDs
  Scanners, \* the commands that scan the state root
  Faults    \* "io": a file operation of start or gc fails; "crash": start, gc
            \* or a supervisor is killed; "launch": it cannot be started

ASSUME RunStoreAssumption ==
  /\ Runs \subseteq Nat
  /\ Faults \subseteq {"io", "crash", "launch"}
  /\ \A S \in SUBSET Runs : S # {} => \E m \in S : \A r \in S : m >= r

VARIABLES
  executes,   \* a scan is a gc --execute, or else a list (gc alone does the same)
  start,      \* where the start of each run is
  sup,        \* and its supervisor
  present,    \* the runs that have a directory
  locks,      \* those with a supervisor.lock in it
  doc,        \* what state.json holds
  at,         \* where each scan is
  todo,       \* the runs it has yet to look at
  seen,       \* the state it has read of the one it is looking at
  result,     \* its answer, once it has one
  due,        \* ghost: the runs it must see deleted before it succeeds
  abandoned   \* ghost: a fault has left some run as it was

runVars == <<start, sup>>
rootVars == <<present, locks, doc>>
scanVars == <<at, todo, seen, due, result>>
changing == <<runVars, rootVars, scanVars, abandoned>>
vars == <<executes, changing>>

(* "live" is any status up to stopping; "old" an ended run of at least the  *)
(* age that gc asks for.                                                    *)
Docs == {"none", "partial", "live", "ended", "old"}
Ended == {"ended", "old"}

TypeOK ==
  /\ executes \in [Scanners -> BOOLEAN]
  /\ start \in [Runs -> {"idle", "dir", "lock", "state", "written", "over"}]
  /\ sup \in [Runs -> {"none", "launched", "active", "settled", "gone"}]
  /\ present \subseteq Runs /\ locks \subseteq present
  /\ doc \in [Runs -> Docs]
  /\ \A r \in Runs \ present : doc[r] = "none"
  /\ at \in [Scanners -> {"idle", "read", "probe", "reread", "recheck",
                          "reload", "delete"}]
  /\ \A c \in Scanners : todo[c] = {} <=> at[c] = "idle"
  /\ todo \in [Scanners -> SUBSET Runs]
  /\ seen \in [Scanners -> Docs]
  /\ due \in [Scanners -> SUBSET Runs]
  /\ result \in [Scanners -> {"none", "ok", "not_found", "io", "integrity",
                              "gc_live_run"}]
  /\ abandoned \in BOOLEAN

Init ==
  /\ executes \in [Scanners -> BOOLEAN]
  /\ start = [r \in Runs |-> "idle"] /\ sup = [r \in Runs |-> "none"]
  /\ present = {} /\ locks = {} /\ doc = [r \in Runs |-> "none"]
  /\ at = [c \in Scanners |-> "idle"] /\ todo = [c \in Scanners |-> {}]
  /\ seen = [c \in Scanners |-> "none"] /\ due = [c \in Scanners |-> {}]
  /\ result = [c \in Scanners |-> "none"]
  /\ abandoned = FALSE

-----------------------------------------------------------------------------
(* Store::create_run, file by file, and the launch.  No step cleans up      *)
(* after one that fails.                                                    *)

Started(r, from, to) ==
  /\ start[r] = from
  /\ start' = [start EXCEPT ![r] = to]

CreateDir(r) ==
  /\ Started(r, "idle", "dir")
  /\ present' = present \cup {r}
  /\ UNCHANGED <<sup, locks, doc, scanVars, abandoned>>

CreateLock(r) ==
  /\ Started(r, "dir", "lock")
  /\ locks' = locks \cup {r}
  /\ UNCHANGED <<sup, present, doc, scanVars, abandoned>>

(* write_new_json creates state.json where it will stay, and then fills it. *)
CreateState(r) ==
  /\ Started(r, "lock", "state")
  /\ doc' = [doc EXCEPT ![r] = "partial"]
  /\ UNCHANGED <<sup, present, locks, scanVars, abandoned>>

FillState(r) ==
  /\ Started(r, "state", "written")
  /\ doc' = [doc EXCEPT ![r] = "live"]
  /\ UNCHANGED <<sup, present, locks, scanVars, abandoned>>

(* No scan reads spec.json and owner.token, which are written next. *)
Launch(r) ==
  /\ Started(r, "written", "over")
  /\ sup' = [sup EXCEPT ![r] = "launched"]
  /\ UNCHANGED <<rootVars, scanVars, abandoned>>

(* Seeded fault: start reports the failure, and records nothing. *)
LaunchFails_Unrecorded(r) ==
  /\ "launch" \in Faults
  /\ Started(r, "written", "over")
  /\ UNCHANGED <<sup, present, locks, doc, scanVars, abandoned>>

(* start records the failure itself; the write may fail as well. *)
LaunchFails(r) ==
  /\ "launch" \in Faults
  /\ Started(r, "written", "over")
  /\ \/ doc' = [doc EXCEPT ![r] = "ended"] /\ UNCHANGED abandoned
     \/ "io" \in Faults /\ abandoned' = TRUE /\ UNCHANGED doc
  /\ UNCHANGED <<sup, present, locks, scanVars>>

StartDies(r) ==
  /\ Faults \cap {"io", "crash"} # {}
  /\ start[r] \in {"dir", "lock", "state", "written"}
  /\ start' = [start EXCEPT ![r] = "over"]
  /\ abandoned' = TRUE
  /\ UNCHANGED <<sup, rootVars, scanVars>>

-----------------------------------------------------------------------------
(* The supervisor, as RunContract.tla has it. *)

Supervised(r, from, to) ==
  /\ sup[r] = from
  /\ sup' = [sup EXCEPT ![r] = to]
  /\ UNCHANGED <<start, present, locks, scanVars, abandoned>>

TakeLock(r) == Supervised(r, "launched", "active") /\ UNCHANGED doc
RecordEnd(r) ==
  Supervised(r, "active", "settled") /\ doc' = [doc EXCEPT ![r] = "ended"]
GiveUpLock(r) == Supervised(r, "settled", "gone") /\ UNCHANGED doc

(* It is killed, or cannot take the lock or write: an orphan, unless the    *)
(* end is on record.                                                        *)
SupervisorDies(r) ==
  /\ Faults \cap {"io", "crash"} # {}
  /\ sup[r] \in {"launched", "active"}
  /\ sup' = [sup EXCEPT ![r] = "gone"]
  /\ abandoned' = TRUE
  /\ UNCHANGED <<start, rootVars, scanVars>>

(* A gc measures ages from the moment it begins: a run that grows old later *)
(* is eligible only if no age is asked for, which is not told apart here.   *)
GrowOld(r) ==
  /\ doc[r] = "ended"
  /\ doc' = [doc EXCEPT ![r] = "old"]
  /\ UNCHANGED <<runVars, present, locks, scanVars, abandoned>>

-----------------------------------------------------------------------------
(* Scans. *)

Held(r) == sup[r] \in {"active", "settled"}

(* The newest run left, as list_run_ids sorts them. *)
Current(c) == Max(todo[c])

Goto(c, next) ==
  /\ at' = [at EXCEPT ![c] = next]
  /\ seen' = [seen EXCEPT ![c] = "none"]
  /\ UNCHANGED <<todo, result>>

Finish(c, answer) ==
  /\ at' = [at EXCEPT ![c] = "idle"]
  /\ todo' = [todo EXCEPT ![c] = {}]
  /\ seen' = [seen EXCEPT ![c] = "none"]
  /\ result' = [result EXCEPT ![c] = answer]

(* The first run that cannot be read ends the whole scan. *)
Fail(c, error) == Finish(c, error) /\ due' = [due EXCEPT ![c] = {}]

(* On to the next run, if there is one. *)
NextRun(c) ==
  LET rest == todo[c] \ {Current(c)} IN
  IF rest = {} THEN Finish(c, "ok")
  ELSE /\ at' = [at EXCEPT ![c] = "read"]
       /\ todo' = [todo EXCEPT ![c] = rest]
       /\ seen' = [seen EXCEPT ![c] = "none"]
       /\ UNCHANGED result

ListRunIds(c) ==
  /\ at[c] = "idle"
  /\ IF present = {} THEN Finish(c, "ok")
     ELSE /\ at' = [at EXCEPT ![c] = "read"]
          /\ todo' = [todo EXCEPT ![c] = present]
          /\ result' = [result EXCEPT ![c] = "none"]
          /\ UNCHANGED seen
  /\ due' = [due EXCEPT ![c] =
       IF executes[c] THEN {r \in present : doc[r] = "old" /\ ~Held(r)} ELSE {}]
  /\ UNCHANGED <<runVars, rootVars, abandoned>>

(* Store::read_state fails if the directory, the document or its end is     *)
(* missing.                                                                 *)
Readable(r) == doc[r] \notin {"none", "partial"}
ReadError(r) ==
  IF r \notin present THEN "not_found"
  ELSE IF doc[r] = "none" THEN "io" ELSE "integrity"

(* Seeded fault: the age is not looked at. *)
Eligible_AnyAge(c, state, active) ==
  executes[c] /\ ~active /\ state \in Ended

(* What gc makes of a run it has observed.  Nothing has to be done by a     *)
(* list.                                                                    *)
Eligible(c, state, active) == executes[c] /\ ~active /\ state = "old"

Decide(c, state, active) ==
  IF Eligible(c, state, active) THEN Goto(c, "recheck") ELSE NextRun(c)

ReadState(c) ==
  /\ at[c] \in {"read", "reread"}
  /\ LET r == Current(c) IN
     IF ~Readable(r) THEN Fail(c, ReadError(r))
     ELSE /\ IF at[c] = "reread" THEN Decide(c, doc[r], FALSE)
             ELSE /\ seen' = [seen EXCEPT ![c] = doc[r]]
                  /\ at' = [at EXCEPT ![c] = "probe"]
                  /\ UNCHANGED <<todo, result>>
          /\ UNCHANGED due
  /\ UNCHANGED <<runVars, rootVars, abandoned>>

(* Store::supervisor_active without a lock file to open. *)
ProbeFails(c) ==
  /\ at[c] \in {"probe", "recheck"} /\ Current(c) \notin locks
  /\ Fail(c, IF Current(c) \in present THEN "io" ELSE "not_found")
  /\ UNCHANGED <<runVars, rootVars, abandoned>>

(* Another command has the lock for as long as its own probe takes. *)
Disturbed(c, r) ==
  \E d \in Scanners \ {c} :
    at[d] \in {"probe", "recheck"} /\ Current(d) = r

(* Seeded fault: a run that has become active is passed over. *)
Observe_PassesOver(c, active) ==
  IF at[c] = "recheck"
  THEN /\ IF active THEN NextRun(c) ELSE Goto(c, "reload")
       /\ UNCHANGED due
  ELSE /\ IF ~active /\ seen[c] = "live" THEN Goto(c, "reread")
          ELSE Decide(c, seen[c], active)
       /\ due' = [due EXCEPT ![c] = IF active THEN @ \ {Current(c)} ELSE @]

(* A live state without a supervisor is read again, an old run without one  *)
(* checked again, and a run that is active by then ends the scan.           *)
Observe(c, active) ==
  IF at[c] = "recheck"
  THEN IF active THEN Fail(c, "gc_live_run") ELSE Goto(c, "reload") /\ UNCHANGED due
  ELSE /\ IF ~active /\ seen[c] = "live" THEN Goto(c, "reread")
          ELSE Decide(c, seen[c], active)
       /\ due' = [due EXCEPT ![c] = IF active THEN @ \ {Current(c)} ELSE @]

Probe(c, r) ==
  /\ at[c] \in {"probe", "recheck"} /\ Current(c) = r /\ r \in locks
  /\ Observe(c, Held(r))
  /\ UNCHANGED <<runVars, rootVars, abandoned>>

(* The other's probe is taken for a supervisor. *)
ProbeDisturbed(c) ==
  /\ at[c] \in {"probe", "recheck"} /\ Current(c) \in locks
  /\ Disturbed(c, Current(c))
  /\ Observe(c, TRUE)
  /\ UNCHANGED <<runVars, rootVars, abandoned>>

-----------------------------------------------------------------------------
(* Store::remove_terminal_run, once the lock was free. *)

ReloadState(c) ==
  /\ at[c] = "reload"
  /\ LET r == Current(c) IN
     IF ~Readable(r) THEN Fail(c, ReadError(r))
     ELSE IF doc[r] \notin Ended THEN Fail(c, "gc_live_run")
     ELSE Goto(c, "delete") /\ UNCHANGED due
  /\ UNCHANGED <<runVars, rootVars, abandoned>>

(* remove_dir_all unlinks the files in no particular order, ...  *)
DeleteFile(c) ==
  /\ at[c] = "delete"
  /\ LET r == Current(c) IN
     \/ r \in locks /\ locks' = locks \ {r} /\ UNCHANGED doc
     \/ doc[r] # "none" /\ doc' = [doc EXCEPT ![r] = "none"] /\ UNCHANGED locks
  /\ UNCHANGED <<runVars, present, scanVars, abandoned>>

(* Seeded fault: the directory goes first. *)
RemoveDir_First(c) ==
  LET r == Current(c) IN
  /\ at[c] = "delete" /\ r \in present
  /\ present' = present \ {r}
  /\ due' = [d \in Scanners |-> due[d] \ {r}]
  /\ NextRun(c)
  /\ UNCHANGED <<runVars, locks, doc, abandoned>>

(* ... and then removes the directory, ...  *)
RemoveDir(c) ==
  LET r == Current(c) IN
  /\ at[c] = "delete" /\ r \in present \ locks /\ doc[r] = "none"
  /\ present' = present \ {r}
  /\ due' = [d \in Scanners |-> due[d] \ {r}]
  /\ NextRun(c)
  /\ UNCHANGED <<runVars, locks, doc, abandoned>>

(* ... unless another gc is faster, or it fails with some files deleted.    *)
DeleteOvertaken(c) ==
  /\ at[c] = "delete" /\ Current(c) \notin present
  /\ Fail(c, "io")
  /\ UNCHANGED <<runVars, rootVars, abandoned>>

GcDies(c) ==
  /\ Faults \cap {"io", "crash"} # {}
  /\ at[c] = "delete" /\ Current(c) \in present
  /\ Fail(c, "io")
  /\ abandoned' = TRUE
  /\ UNCHANGED <<runVars, rootVars>>

-----------------------------------------------------------------------------
StartStep(r) ==
  \/ CreateDir(r) \/ CreateLock(r) \/ CreateState(r) \/ FillState(r)
  \/ Launch(r)

RunStep(r) == TakeLock(r) \/ RecordEnd(r) \/ GiveUpLock(r) \/ GrowOld(r)

RunFault(r) == LaunchFails(r) \/ StartDies(r) \/ SupervisorDies(r)

ScanStep(c) ==
  \/ ListRunIds(c) \/ ReadState(c) \/ ProbeFails(c)
  \/ ProbeDisturbed(c) \/ \E r \in Runs : Probe(c, r)
  \/ ReloadState(c) \/ DeleteFile(c) \/ RemoveDir(c) \/ DeleteOvertaken(c)

Next ==
  /\ \/ \E r \in Runs : StartStep(r) \/ RunStep(r) \/ RunFault(r)
     \/ \E c \in Scanners : ScanStep(c) \/ GcDies(c)
  /\ UNCHANGED executes

(* Every start, supervisor and command goes on, the commands are given      *)
(* again and again, every run is old in the end, and no scan meets          *)
(* another's probe every time it comes to a run.                            *)
Fairness ==
  /\ \A r \in Runs : WF_changing(StartStep(r)) /\ WF_changing(RunStep(r))
  /\ \A c \in Scanners : WF_changing(ScanStep(c))
  /\ \A c \in Scanners, r \in Runs :
       /\ SF_changing(Probe(c, r) /\ at[c] = "probe")
       /\ SF_changing(Probe(c, r) /\ at[c] = "recheck")

SafeSpec == Init /\ [][Next]_vars
Spec == SafeSpec /\ Fairness

-----------------------------------------------------------------------------
(* The inductive invariant behind DeletesOnlyOldRuns and GcIsThorough.      *)

(* Its end has been on record for long; what is left of it stays like that. *)
Past(r) ==
  /\ start[r] = "over" /\ sup[r] \in {"none", "settled", "gone"}
  /\ doc[r] \in {"old", "none"}

RunInv ==
  \A r \in Runs :
    /\ start[r] \in {"dir", "lock", "state", "written"}
       \/ sup[r] \in {"launched", "active"} => r \in present
    /\ start[r] # "over" => sup[r] = "none"
    /\ doc[r] \in Ended => start[r] = "over" /\ sup[r] \in {"none", "settled", "gone"}

(* A gc has good reason for what it is about to do. *)
ScanInv ==
  \A c \in Scanners :
    /\ at[c] = "probe" /\ seen[c] = "old" => Past(Current(c))
    /\ at[c] \in {"recheck", "reload", "delete"} => Past(Current(c))
    /\ at[c] \in {"reload", "delete"} => ~Held(Current(c))

(* What is due is still to be looked at, and will be found to be. *)
DueInv ==
  \A c \in Scanners :
    /\ due[c] \subseteq todo[c]
    /\ \A r \in due[c] : executes[c] /\ Past(r) /\ ~Held(r)
    /\ at[c] # "idle" /\ Current(c) \in due[c] =>
         at[c] # "reread" /\ (at[c] = "probe" => seen[c] = "old")

StoreInv == RunInv /\ ScanInv /\ DueInv

-----------------------------------------------------------------------------
(* Properties. *)

(* No file of a run is deleted unless its start is over, its supervisor is  *)
(* gone or was never launched, and its end was on record for as long as gc  *)
(* was told to wait.                                                        *)
DeletesOnlyOldRuns ==
  [][\A r \in Runs :
       r \in locks \ locks' \/ (doc[r] # "none" /\ doc'[r] = "none") =>
         /\ start[r] = "over" /\ sup[r] \in {"none", "gone"}
         /\ doc[r] \in {"old", "none"}]_vars

(* Whatever start, list and gc do, each run keeps to RunContract.  "created" *)
(* stands for every live status, "failed" for every end; and what was       *)
(* deleted, or never written, has ended unless a supervisor may come.       *)
Phase(r) ==
  IF Held(r) THEN "held"
  ELSE IF sup[r] = "gone" \/ (sup[r] = "none" /\ start[r] = "over") THEN "done"
  ELSE "pending"
Status(r) ==
  IF doc[r] \in Ended THEN "failed"
  ELSE IF doc[r] # "none" \/ start[r] # "over" THEN "created"
  ELSE IF Phase(r) = "done" THEN "failed" ELSE "deleted"

Contract(r) == INSTANCE RunContract WITH status <- Status(r), phase <- Phase(r)

RunsKeepContract == \A r \in Runs : Contract(r)!Spec

(* A gc that succeeds leaves none of the runs that were due when it began,  *)
(* but for those another command was looking at in that very moment.        *)
GcIsThorough ==
  \A c \in Scanners : at[c] = "idle" /\ result[c] = "ok" => due[c] = {}

(* As long as no fault leaves a run behind, the state root can be cleared:  *)
(* gc, given again and again, gets over everything it fails on, removes     *)
(* every run, and every command succeeds from then on.                      *)
GcCatchesUp ==
  (\E c \in Scanners : executes[c]) /\ [](~abandoned) =>
    <>[](present = {} /\ \A c \in Scanners : result[c] = "ok")
=============================================================================
