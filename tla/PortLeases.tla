----------------------------- MODULE PortLeases -----------------------------
(***************************************************************************)
(* The registry of port leases that all runs of a state root share         *)
(* (src/leases.rs): port-leases.json, rewritten under port-leases.lock.    *)
(* A supervisor reserves ports for its run by binding listeners to ports   *)
(* the system picks and the registry does not list, lets go of them just   *)
(* before it spawns the child, and removes its entries at the end.  An     *)
(* entry is stale, and dropped by the next reservation, when the           *)
(* supervisor.lock of its run is found free; each entry is probed for      *)
(* itself.                                                                 *)
(*                                                                         *)
(* What a supervisor does between these steps is in Supervisor.tla.        *)
(***************************************************************************)
EXTENDS Naturals, FiniteSets

CONSTANTS
  Runs,
  Ports,   \* the ports the system may pick for bind(("127.0.0.1", 0))
  Wanted,  \* how many --lease-port names each run has
  Faults   \* "io": a file operation fails; "crash": a supervisor is killed;
           \* "probe": another run's supervisor.lock cannot be opened

ASSUME PortLeasesAssumption ==
  /\ Wanted \in [Runs -> Nat]
  /\ "free" \notin Runs
  /\ Faults \subseteq {"io", "crash", "probe"}

VARIABLES
  at,         \* where each supervisor is
  alive,      \* it holds its own supervisor.lock
  owner,      \* the holder of port-leases.lock
  disk,       \* the entries of port-leases.json
  seen,       \* the copy that the lock's holder is updating
  unprobed,   \* the entries that prune_stale has yet to look at
  got,        \* the ports each run has been given
  listening,  \* those that its supervisor's listeners hold
  child,      \* the run's child is there and may bind
  serving,    \* the ports the child has bound
  foreign     \* the ports other programs have bound

vars == <<at, alive, owner, disk, seen, unprobed, got, listening, child,
          serving, foreign>>

Entries == [run : Runs, port : Ports]

Holding == {"reserved", "handed", "running"}
Updating == {"load", "probe", "retain", "drop_retain"}
Places == Holding \cup Updating \cup
  {"idle", "reserve", "release", "drop", "released", "failed", "done", "gone"}

TypeOK ==
  /\ at \in [Runs -> Places]
  /\ alive \in [Runs -> BOOLEAN]
  /\ owner \in Runs \cup {"free"}
  /\ disk \subseteq Entries
  /\ seen \subseteq Entries
  /\ unprobed \subseteq Entries
  /\ got \in [Runs -> SUBSET Ports]
  /\ listening \in [Runs -> SUBSET Ports]
  /\ child \in [Runs -> BOOLEAN]
  /\ serving \in [Runs -> SUBSET Ports]
  /\ foreign \subseteq Ports

Init ==
  /\ at = [r \in Runs |-> "idle"]
  /\ alive = [r \in Runs |-> FALSE]
  /\ owner = "free"
  /\ disk = {} /\ seen = {} /\ unprobed = {}
  /\ got = [r \in Runs |-> {}]
  /\ listening = [r \in Runs |-> {}]
  /\ child = [r \in Runs |-> FALSE]
  /\ serving = [r \in Runs |-> {}]
  /\ foreign = {}

Bindable ==
  Ports \ (foreign \cup UNION {listening[r] \cup serving[r] : r \in Runs})
Leased == {e.port : e \in seen}
Without(entries, r) == {e \in entries : e.run # r}
PortsOf(entries, r) == {p \in Ports : [run |-> r, port |-> p] \in entries}

Goto(r, next) == at' = [at EXCEPT ![r] = next]

-----------------------------------------------------------------------------
(* LeaseAllocation::acquire, under the run's own lock. *)

(* A run that leases no port never opens the registry to reserve any. *)
Acquire(r) ==
  /\ at[r] = "idle"
  /\ alive' = [alive EXCEPT ![r] = TRUE]
  /\ Goto(r, IF Wanted[r] = 0 THEN "reserved" ELSE "reserve")
  /\ UNCHANGED <<owner, disk, seen, unprobed, got, listening, child, serving,
                 foreign>>

(* update_registry blocks until it has port-leases.lock. *)
LockRegistry(r) ==
  /\ at[r] \in {"reserve", "release", "drop"} /\ owner = "free"
  /\ owner' = r
  /\ Goto(r, CASE at[r] = "reserve" -> "load"
               [] at[r] = "release" -> "retain"
               [] at[r] = "drop" -> "drop_retain")
  /\ UNCHANGED <<alive, disk, seen, unprobed, got, listening, child, serving,
                 foreign>>

LoadRegistry(r) ==
  /\ at[r] = "load"
  /\ seen' = disk
  /\ unprobed' = disk
  /\ Goto(r, "probe")
  /\ UNCHANGED <<alive, owner, disk, got, listening, child, serving, foreign>>

(* Seeded fault: an entry is judged by its run's child, not by its lock. *)
PruneStale_ByChild(r, e) ==
  /\ at[r] = "probe" /\ e \in unprobed
  /\ unprobed' = unprobed \ {e}
  /\ seen' = IF child[e.run] THEN seen ELSE seen \ {e}
  /\ UNCHANGED <<at, alive, owner, disk, got, listening, child, serving,
                 foreign>>

(* prune_stale, one entry of the registry: it stays if the lock of its run  *)
(* is held when it is its turn, so that of two entries of a run whose       *)
(* supervisor goes in between one may stay.  The lock may be held for a     *)
(* moment by somebody else's probe only; and a lock that cannot be opened   *)
(* counts as free.                                                          *)
PruneStale(r, e) ==
  /\ at[r] = "probe" /\ e \in unprobed
  /\ unprobed' = unprobed \ {e}
  /\ \/ seen' = seen
     \/ ~alive[e.run] /\ seen' = seen \ {e}
     \/ "probe" \in Faults /\ seen' = seen \ {e}
  /\ UNCHANGED <<at, alive, owner, disk, got, listening, child, serving,
                 foreign>>

(* Seeded fault: the registry is not consulted for the port. *)
ReservePort_Unlisted(r) ==
  /\ at[r] = "probe" /\ unprobed = {}
  /\ Cardinality(got[r]) < Wanted[r]
  /\ \E p \in Bindable :
       /\ got' = [got EXCEPT ![r] = @ \cup {p}]
       /\ listening' = [listening EXCEPT ![r] = @ \cup {p}]
       /\ seen' = seen \cup {[run |-> r, port |-> p]}
  /\ UNCHANGED <<at, alive, owner, disk, unprobed, child, serving, foreign>>

(* The next name gets a port that can be bound and that nobody leases. *)
ReservePort(r) ==
  /\ at[r] = "probe" /\ unprobed = {}
  /\ Cardinality(got[r]) < Wanted[r]
  /\ \E p \in Bindable \ Leased :
       /\ got' = [got EXCEPT ![r] = @ \cup {p}]
       /\ listening' = [listening EXCEPT ![r] = @ \cup {p}]
       /\ seen' = seen \cup {[run |-> r, port |-> p]}
  /\ UNCHANGED <<at, alive, owner, disk, unprobed, child, serving, foreign>>

(* An error drops the listeners and the lock; nothing is released, because  *)
(* there is no allocation yet.                                              *)
ReserveFails(r) ==
  /\ owner' = IF owner = r THEN "free" ELSE owner
  /\ got' = [got EXCEPT ![r] = {}]
  /\ listening' = [listening EXCEPT ![r] = {}]
  /\ Goto(r, "failed")
  /\ UNCHANGED <<alive, seen, unprobed, child, serving, foreign>>

(* Seeded fault: there is no limit to the attempts. *)
NoPort_Spins(r) ==
  /\ at[r] = "probe" /\ unprobed = {}
  /\ Cardinality(got[r]) < Wanted[r]
  /\ Bindable = {}
  /\ ReserveFails(r)
  /\ UNCHANGED disk

(* No port can be bound, or all MAX_ALLOCATION_ATTEMPTS were leased ones. *)
NoPort(r) ==
  /\ at[r] = "probe" /\ unprobed = {}
  /\ Cardinality(got[r]) < Wanted[r]
  /\ Bindable = {} \/ Bindable \cap Leased # {}
  /\ ReserveFails(r)
  /\ UNCHANGED disk

(* atomic_write_json, then the lock is given up. *)
CommitEntries(r) ==
  /\ at[r] = "probe" /\ unprobed = {}
  /\ Cardinality(got[r]) = Wanted[r]
  /\ disk' = seen /\ owner' = "free"
  /\ Goto(r, "reserved")
  /\ UNCHANGED <<alive, seen, unprobed, got, listening, child, serving,
                 foreign>>

(* A file operation fails before the file is replaced, or after it. *)
ReserveErrs(r) ==
  /\ "io" \in Faults
  /\ \/ at[r] \in {"reserve", "load", "probe"} /\ UNCHANGED disk
     \/ /\ at[r] = "probe" /\ unprobed = {}
        /\ Cardinality(got[r]) = Wanted[r]
        /\ disk' = seen
  /\ ReserveFails(r)

-----------------------------------------------------------------------------
(* The run: hand the ports over, spawn, supervise, release. *)

(* The listeners are closed; the child may bind now, and so may anybody.    *)
Handoff(r) ==
  /\ at[r] = "reserved"
  /\ listening' = [listening EXCEPT ![r] = {}]
  /\ Goto(r, "handed")
  /\ UNCHANGED <<alive, owner, disk, seen, unprobed, got, child, serving,
                 foreign>>

(* An argument names an unknown lease, or the state cannot be recorded: the *)
(* allocation is given up, or just dropped.                                 *)
HandoffMissed(r) ==
  /\ at[r] = "reserved"
  /\ \/ Goto(r, "release")
     \/ "io" \in Faults /\ Goto(r, "drop")
  /\ UNCHANGED <<alive, owner, disk, seen, unprobed, got, listening, child,
                 serving, foreign>>

SpawnChild(r) ==
  /\ at[r] = "handed"
  /\ \/ child' = [child EXCEPT ![r] = TRUE] /\ Goto(r, "running")
     \/ Goto(r, "release") /\ UNCHANGED child
  /\ UNCHANGED <<alive, owner, disk, seen, unprobed, got, listening, serving,
                 foreign>>

(* The child is over, or has been killed; then the leases are released, in  *)
(* order or as the error unwinds.  Its sockets may close a little later.    *)
EndRun(r) ==
  /\ at[r] = "running"
  /\ child' = [child EXCEPT ![r] = FALSE]
  /\ \E next \in {"release", "drop"} : Goto(r, next)
  /\ UNCHANGED <<alive, owner, disk, seen, unprobed, got, listening, serving,
                 foreign>>

(* Seeded fault: the registry is written from an old copy. *)
RemoveEntries_Stale(r) ==
  /\ at[r] \in {"retain", "drop_retain"}
  /\ disk' = Without(seen, r) /\ owner' = "free"
  /\ got' = [got EXCEPT ![r] = {}]
  /\ listening' = [listening EXCEPT ![r] = {}]
  /\ Goto(r, IF at[r] = "retain" THEN "released" ELSE "failed")
  /\ UNCHANGED <<alive, seen, unprobed, child, serving, foreign>>

(* release_registry: read, retain the entries of other runs, write. *)
RemoveEntries(r) ==
  /\ at[r] \in {"retain", "drop_retain"}
  /\ disk' = Without(disk, r) /\ owner' = "free"
  /\ got' = [got EXCEPT ![r] = {}]
  /\ listening' = [listening EXCEPT ![r] = {}]
  /\ Goto(r, IF at[r] = "retain" THEN "released" ELSE "failed")
  /\ UNCHANGED <<alive, seen, unprobed, child, serving, foreign>>

(* A failed release is tried once more as the allocation is dropped. *)
RemoveErrs(r) ==
  /\ "io" \in Faults
  /\ \/ at[r] \in {"release", "drop", "retain", "drop_retain"} /\ UNCHANGED disk
     \/ at[r] \in {"retain", "drop_retain"} /\ disk' = Without(disk, r)
  /\ owner' = IF owner = r THEN "free" ELSE owner
  /\ listening' = [listening EXCEPT ![r] = {}]
  /\ Goto(r, IF at[r] \in {"release", "retain"} THEN "drop" ELSE "failed")
  /\ UNCHANGED <<alive, seen, unprobed, got, child, serving, foreign>>

(* The supervisor returns and its lock goes. *)
Exit(r) ==
  /\ at[r] \in {"released", "failed"}
  /\ alive' = [alive EXCEPT ![r] = FALSE]
  /\ Goto(r, IF at[r] = "released" THEN "done" ELSE "gone")
  /\ UNCHANGED <<owner, disk, seen, unprobed, got, listening, child, serving,
                 foreign>>

-----------------------------------------------------------------------------
(* Crashes, children and other programs. *)

(* The system takes back the locks and the listeners.  The child outlives   *)
(* its supervisor.                                                          *)
Crash(r) ==
  /\ "crash" \in Faults /\ alive[r]
  /\ alive' = [alive EXCEPT ![r] = FALSE]
  /\ owner' = IF owner = r THEN "free" ELSE owner
  /\ listening' = [listening EXCEPT ![r] = {}]
  /\ Goto(r, "gone")
  /\ UNCHANGED <<disk, seen, unprobed, got, child, serving, foreign>>

ChildBinds(r) ==
  /\ child[r]
  /\ \E p \in got[r] \cap Bindable :
       serving' = [serving EXCEPT ![r] = @ \cup {p}]
  /\ UNCHANGED <<at, alive, owner, disk, seen, unprobed, got, listening, child,
                 foreign>>

(* The sockets of a child close, and with them an orphan may end. *)
SocketsClose(r) ==
  /\ serving[r] # {} \/ (child[r] /\ ~alive[r])
  /\ serving' = [serving EXCEPT ![r] = {}]
  /\ child' = [child EXCEPT ![r] = @ /\ alive[r]]
  /\ UNCHANGED <<at, alive, owner, disk, seen, unprobed, got, listening,
                 foreign>>

OthersBind ==
  /\ \/ \E p \in Bindable : foreign' = foreign \cup {p}
     \/ \E p \in foreign : foreign' = foreign \ {p}
  /\ UNCHANGED <<at, alive, owner, disk, seen, unprobed, got, listening, child,
                 serving>>

-----------------------------------------------------------------------------
Reserve(r) ==
  \/ LoadRegistry(r) \/ (\E e \in Entries : PruneStale(r, e))
  \/ ReservePort(r) \/ NoPort(r) \/ CommitEntries(r)

RunStep(r) ==
  \/ Acquire(r) \/ LockRegistry(r) \/ Reserve(r) \/ ReserveErrs(r)
  \/ Handoff(r) \/ HandoffMissed(r) \/ SpawnChild(r) \/ EndRun(r)
  \/ RemoveEntries(r) \/ RemoveErrs(r) \/ Exit(r)

Next ==
  \/ \E r \in Runs :
       RunStep(r) \/ Crash(r) \/ ChildBinds(r) \/ SocketsClose(r)
  \/ OthersBind

SafeSpec == Init /\ [][Next]_vars

(* Whoever holds the registry lock goes on, and whoever keeps asking for it *)
(* gets it; nothing makes a run end or a file operation fail.               *)
Spec ==
  /\ SafeSpec
  /\ \A r \in Runs :
       /\ WF_vars(Reserve(r)) /\ SF_vars(LockRegistry(r))
       /\ WF_vars(RemoveEntries(r)) /\ WF_vars(Exit(r))

-----------------------------------------------------------------------------
(* What makes the registry right as long as a lock can always be probed:    *)
(* the entries that the holder of the registry lock works on are those of   *)
(* the file but for its own and for some of runs that have gone for good.   *)

Unlisted == {"idle", "reserve", "load", "probe", "released", "done"}

AliveInv == \A r \in Runs : alive[r] <=> at[r] \notin {"idle", "done", "gone"}

OwnerInv == \A r \in Runs : at[r] \in Updating <=> owner = r

(* No port in two entries. *)
Once(entries) ==
  \A r, s \in Runs : r # s => PortsOf(entries, r) \cap PortsOf(entries, s) = {}

DiskInv ==
  /\ Once(disk)
  /\ \A r \in Runs :
       /\ at[r] \in Holding => PortsOf(disk, r) = got[r]
       /\ at[r] \in Unlisted => PortsOf(disk, r) = {}

SeenInv ==
  \A r \in Runs : at[r] = "probe" =>
    /\ Once(seen)
    /\ PortsOf(seen, r) = got[r]
    /\ \A s \in Runs \ {r} :
         /\ PortsOf(seen, s) \subseteq PortsOf(disk, s)
         /\ at[s] \in Holding => PortsOf(seen, s) = got[s]

ListenInv ==
  \A r \in Runs :
    /\ at[r] \in {"idle", "reserve", "load"} => got[r] = {} /\ listening[r] = {}
    /\ at[r] \in {"probe", "reserved"} => listening[r] = got[r]

RegistryInv == AliveInv /\ OwnerInv /\ DiskInv /\ SeenInv /\ ListenInv

-----------------------------------------------------------------------------
(* Properties. *)

(* docs/READINESS-AND-LEASES.md: the registry prevents two active runs from *)
(* receiving the same port, also while neither a listener nor the child     *)
(* holds it.                                                                *)
PortsAreExclusive ==
  \A r, s \in Runs :
    r # s /\ at[r] \in Holding /\ at[s] \in Holding => got[r] \cap got[s] = {}

(* A run that holds ports has all of them in the registry, whatever other   *)
(* runs write to it, prune from it or lose.                                 *)
HeldPortsAreListed ==
  \A r \in Runs :
    at[r] \in Holding => PortsOf(disk, r) = got[r]

(* The registry never lists a port twice, stale entries included. *)
PortsAreListedOnce == Once(disk)

(* Until the handoff nobody else can bind a reserved port. *)
ReservedPortsAreHeld ==
  \A r \in Runs : at[r] = "reserved" => listening[r] = got[r]

(* A run that returned after releasing its leases stays out of the          *)
(* registry: no concurrent update brings its entries back.                  *)
ReleasedRunsAreUnlisted ==
  \A r \in Runs : at[r] \in {"released", "done"} => PortsOf(disk, r) = {}

(* One registry update at a time, also when the last one failed or its      *)
(* supervisor was killed.                                                   *)
UpdatesAreExclusive ==
  \A r, s \in Runs : at[r] \in Updating /\ at[s] \in Updating => r = s

(* What LeaseContract tells apart of a run's progress and of the registry.  *)
PhaseOf(place) ==
  IF place \in Holding THEN "active"
  ELSE IF place \in {"idle", "reserve", "load", "probe"} THEN "waiting" ELSE "over"
Phases == [r \in Runs |-> PhaseOf(at[r])]
Listed == [r \in Runs |-> PortsOf(disk, r)]

Leases == INSTANCE LeaseContract WITH phase <- Phases, listed <- Listed

(* The registry as its users may rely on it, as long as locks can be        *)
(* probed: ports are granted to one run at a time and whole, stay listed    *)
(* until that run is over, and are only then granted again, whoever is      *)
(* killed or fails in the middle of an update.                              *)
LeasesKeepContract == Leases!Spec

(* Every reservation is answered, and every release comes to its end. *)
UpdatesEnd ==
  \A r \in Runs :
    /\ at[r] = "reserve" ~> at[r] \in Holding \cup {"failed", "gone"}
    /\ at[r] \in {"release", "drop"} ~> at[r] \in {"done", "gone"}
=============================================================================
