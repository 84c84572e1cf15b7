------------------------------ MODULE Readiness ------------------------------
(***************************************************************************)
(* The readiness of a run (src/readiness.rs, ReadinessTracker): a list of  *)
(* checks, all of which must pass before the deadline and before the child *)
(* exits.  A log check looks for a literal in what is retained of either   *)
(* stream, chunk by chunk; the others are probed one at a time, in turn.   *)
(*                                                                         *)
(* The operations are called by the supervisor's loop: Monitoring.tla.     *)
(***************************************************************************)
EXTENDS Integers, Sequences, FiniteSets

CONSTANTS
  Streams,
  CheckLists  \* the lists of checks a run may be started with

VARIABLES
  checks,     \* this run's: a log check has a literal, a probe has none
  met,        \* the checks that have evidence
  verdict,    \* ReadinessState::status
  tail,       \* the end of each stream, kept for literals across chunks
  nextProbe,  \* next_probe_index
  overdue,    \* the deadline has passed
  serving     \* the probes that would succeed now

trackerVars == <<met, verdict, tail, nextProbe>>
worldVars == <<checks, overdue, serving>>
readinessVars == <<trackerVars, worldVars>>

Probed == <<>>
LogChecks == {i \in DOMAIN checks : checks[i] # Probed}
Probes == DOMAIN checks \ LogChecks

ReadinessTypeOK ==
  /\ checks \in CheckLists
  /\ met \subseteq DOMAIN checks
  /\ verdict \in {"not_configured", "pending", "ready", "timed_out", "failed"}
  /\ DOMAIN tail = Streams
  /\ nextProbe \in 0..Len(checks)
  /\ overdue \in BOOLEAN
  /\ serving \subseteq Probes

ReadinessInit ==
  /\ checks \in CheckLists
  /\ met = {}
  /\ verdict = IF checks = <<>> THEN "not_configured" ELSE "pending"
  /\ tail = [s \in Streams |-> <<>>]
  /\ nextProbe = 0
  /\ overdue = FALSE
  /\ serving = {}

-----------------------------------------------------------------------------
Occurs(literal, text) ==
  \E i \in 0..Len(text) - Len(literal) :
    SubSeq(text, i + 1, i + Len(literal)) = literal

LastBytes(text, n) == SubSeq(text, IF Len(text) > n THEN Len(text) - n + 1 ELSE 1, Len(text))

(* finish_if_ready *)
FinishIfReady(m) == IF m = DOMAIN checks THEN "ready" ELSE "pending"

(* Seeded fault: the tail is as long as the shortest literal needs. *)
TailLength_Shortest(m) ==
  IF LogChecks \subseteq m THEN 0
  ELSE CHOOSE n \in {Len(checks[i]) - 1 : i \in LogChecks \ m} :
         \A i \in LogChecks \ m : Len(checks[i]) - 1 >= n

(* A literal still looked for may lack its last byte only. *)
TailLength(m) ==
  IF LogChecks \subseteq m THEN 0
  ELSE CHOOSE n \in {Len(checks[i]) - 1 : i \in LogChecks \ m} :
         \A i \in LogChecks \ m : Len(checks[i]) - 1 <= n

(* ReadinessTracker::observe_log *)
ObserveLog(s, bytes) ==
  IF verdict # "pending" THEN UNCHANGED readinessVars
  ELSE LET searchable == tail[s] \o bytes
       IN /\ met' = met \cup {i \in LogChecks : Occurs(checks[i], searchable)}
          /\ tail' = [tail EXCEPT ![s] = LastBytes(searchable, TailLength(met'))]
          /\ verdict' = FinishIfReady(met')
          /\ UNCHANGED <<nextProbe, worldVars>>

(* next_external_check: the first unmet probe at or after nextProbe, round  *)
(* the list.                                                                *)
TurnsTo(i) == (i - 1 - nextProbe + Len(checks)) % Len(checks)
NextExternalCheck ==
  CHOOSE i \in Probes \ met : \A j \in Probes \ met : TurnsTo(i) <= TurnsTo(j)

(* Seeded fault: the next probe starts from the same place. *)
Probe_FromStart ==
  LET i == NextExternalCheck IN
  /\ UNCHANGED nextProbe
  /\ IF i \in serving
       THEN met' = met \cup {i} /\ verdict' = FinishIfReady(met')
       ELSE UNCHANGED <<met, verdict>>
  /\ UNCHANGED <<tail, worldVars>>

(* One probe of TCP, HTTP or a file, the next one in turn. *)
Probe ==
  LET i == NextExternalCheck IN
  /\ nextProbe' = i
  /\ IF i \in serving
       THEN met' = met \cup {i} /\ verdict' = FinishIfReady(met')
       ELSE UNCHANGED <<met, verdict>>
  /\ UNCHANGED <<tail, worldVars>>

TimeOut ==
  /\ verdict' = "timed_out"
  /\ UNCHANGED <<met, tail, nextProbe, worldVars>>

(* Seeded fault: the deadline is looked at when nothing is left to probe. *)
PollDue_ProbesFirst ==
  /\ verdict = "pending"
  /\ IF Probes \ met # {} THEN Probe
     ELSE IF overdue THEN TimeOut
     ELSE verdict' = FinishIfReady(met) /\ UNCHANGED <<met, tail, nextProbe, worldVars>>

(* ReadinessTracker::poll when PROBE_INTERVAL has passed since the last:    *)
(* the deadline is looked at before the probe, and not after it.            *)
PollDue ==
  /\ verdict = "pending"
  /\ IF overdue THEN TimeOut
     ELSE IF Probes \ met # {} THEN Probe
     ELSE verdict' = FinishIfReady(met) /\ UNCHANGED <<met, tail, nextProbe, worldVars>>

(* ... and when it has not, or there is nothing to decide any more. *)
PollEarly ==
  /\ verdict = "pending" => ~overdue
  /\ UNCHANGED readinessVars

(* Seeded fault: a verdict that has fallen is overwritten. *)
ProcessExited_Always ==
  /\ verdict' = IF verdict # "not_configured" THEN "failed" ELSE verdict
  /\ UNCHANGED <<met, tail, nextProbe, worldVars>>

(* ReadinessTracker::process_exited *)
ProcessExited ==
  /\ verdict' = IF verdict = "pending" THEN "failed" ELSE verdict
  /\ UNCHANGED <<met, tail, nextProbe, worldVars>>

-----------------------------------------------------------------------------
(* The world: time passes, and services come and go. *)

DeadlinePasses ==
  /\ verdict # "not_configured" /\ ~overdue
  /\ overdue' = TRUE
  /\ UNCHANGED <<trackerVars, checks, serving>>

ServiceChanges(i) ==
  /\ verdict = "pending"  \* nobody looks afterwards
  /\ serving' = IF i \in serving THEN serving \ {i} ELSE serving \cup {i}
  /\ UNCHANGED <<trackerVars, checks, overdue>>
=============================================================================
