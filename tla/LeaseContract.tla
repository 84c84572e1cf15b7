--------------------------- MODULE LeaseContract ---------------------------
(***************************************************************************)
(* What ProcHerd promises about the leased ports of a state root, without  *)
(* locks, listeners, copies and crashes: each run is granted its ports at  *)
(* most once, they stay listed for it as long as it is active, and nobody  *)
(* else is granted a port that is listed.  PortLeases implements this      *)
(* specification (Leases in PortLeases.tla).                               *)
(***************************************************************************)
EXTENDS FiniteSets

CONSTANTS Runs, Ports, Wanted

VARIABLES
  phase,   \* "waiting", "active" or "over", of each run
  listed   \* the ports that the registry lists for it

vars == <<phase, listed>>

Init ==
  /\ phase = [r \in Runs |-> "waiting"]
  /\ listed = [r \in Runs |-> {}]

Becomes(r, next) == phase' = [phase EXCEPT ![r] = next]

(* The ports of a run are listed, all at once, and with that the run is     *)
(* active, or over if it learns of an error.  Entries of runs that are over *)
(* may be dropped with that, some or all of them, and no others.            *)
Grant(r) ==
  /\ phase[r] = "waiting"
  /\ Becomes(r, "active") \/ Becomes(r, "over")
  /\ listed' \in [Runs -> SUBSET Ports]
  /\ Cardinality(listed'[r]) = Wanted[r]
  /\ \A s \in Runs \ {r} :
       /\ listed'[s] = listed[s]
            \/ (phase[s] = "over" /\ listed'[s] \subseteq listed[s])
       /\ listed'[s] \cap listed'[r] = {}

Refuse(r) == phase[r] = "waiting" /\ Becomes(r, "over") /\ UNCHANGED listed

End(r) == phase[r] = "active" /\ Becomes(r, "over") /\ UNCHANGED listed

(* A run that is over takes its own entries back, all of them. *)
Withdraw(r) ==
  /\ phase[r] = "over"
  /\ listed' = [listed EXCEPT ![r] = {}]
  /\ UNCHANGED phase

Next == \E r \in Runs : Grant(r) \/ Refuse(r) \/ End(r) \/ Withdraw(r)

Spec == Init /\ [][Next]_vars
=============================================================================
