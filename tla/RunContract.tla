---------------------------- MODULE RunContract ----------------------------
(***************************************************************************)
(* What ProcHerd promises about one run, as the readers of its directory   *)
(* see it: the durable lifecycle status (state.json) and whether the       *)
(* supervisor has yet to take, holds, or has given up supervisor.lock.     *)
(* Supervisor implements this specification (Contract in Supervisor.tla).  *)
(***************************************************************************)

VARIABLES
  status,   \* RunState::status in state.json
  phase     \* "pending", "held" or "done": the life of supervisor.lock

vars == <<status, phase>>

LiveStatuses == {"created", "starting", "running", "stopping"}
TerminalStatuses == {"exited", "failed", "stopped"}

TypeOK ==
  /\ status \in LiveStatuses \cup TerminalStatuses
  /\ phase \in {"pending", "held", "done"}

Init == status = "created" /\ phase = "pending"

(* The supervisor takes the lock, once. *)
TakeLock ==
  /\ phase = "pending" /\ status = "created"
  /\ phase' = "held"
  /\ UNCHANGED status

(* No supervisor ever takes the lock; the launcher may say so durably. *)
NeverStarts ==
  /\ phase = "pending" /\ status = "created"
  /\ phase' = "done"
  /\ status' \in {"created", "failed"}

(* The live statuses that may follow a live status directly. *)
Successors(s) ==
  CASE s = "created"  -> {"starting"}
    [] s = "starting" -> {"running"}
    [] s = "running"  -> {"stopping"}
    [] OTHER          -> {}

(* How each live status may end: only a run that was durably running exits, *)
(* only one that was durably stopping is stopped, and any may fail.         *)
Endings(s) ==
  CASE s = "running"  -> {"exited", "failed"}
    [] s = "stopping" -> {"stopped", "failed"}
    [] OTHER          -> {"failed"}

Advance ==
  /\ phase = "held" /\ status \in LiveStatuses
  /\ status' \in Successors(status)
  /\ UNCHANGED phase

Finish ==
  /\ phase = "held" /\ status \in LiveStatuses
  /\ status' \in Endings(status)
  /\ UNCHANGED phase

(* The lock is given up after the last word on the status, or by a fault    *)
(* that leaves a live status behind: an orphan.                             *)
GiveUpLock ==
  /\ phase = "held"
  /\ phase' = "done"
  /\ UNCHANGED status

Next == TakeLock \/ NeverStarts \/ Advance \/ Finish \/ GiveUpLock

Spec == Init /\ [][Next]_vars
=============================================================================
