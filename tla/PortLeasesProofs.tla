-------------------------- MODULE PortLeasesProofs --------------------------
(***************************************************************************)
(* Theorems about PortLeases, for any runs, ports and numbers of leases:   *)
(* as long as another run's lock can always be probed, the registry keeps  *)
(* the ports of active runs apart.                                         *)
(***************************************************************************)
EXTENDS PortLeases, FiniteSetTheorems, TLAPS

(* What taking out the entries of a run does to the ports of each run.     *)
LEMMA PortsOfWithout ==
  ASSUME NEW E, NEW r \in Runs, NEW s \in Runs
  PROVE  PortsOf(Without(E, r), s) = IF s = r THEN {} ELSE PortsOf(E, s)
BY DEF PortsOf, Without

LEMMA UnleasedPort ==
  ASSUME NEW s \in Runs, NEW p \in Ports, p \notin Leased
  PROVE  p \notin PortsOf(seen, s)
BY DEF PortsOf, Leased

LEMMA OnceWithout ==
  ASSUME NEW E, NEW r \in Runs, Once(E) PROVE Once(Without(E, r))
BY PortsOfWithout DEF Once

(* What taking out one entry does to the ports of each run.                *)
LEMMA PortsOfLessOne ==
  ASSUME NEW E, NEW e \in Entries, NEW s \in Runs
  PROVE  /\ PortsOf(E \ {e}, s) \subseteq PortsOf(E, s)
         /\ s # e.run => PortsOf(E \ {e}, s) = PortsOf(E, s)
BY DEF PortsOf, Entries

LEMMA OnceLessOne ==
  ASSUME NEW E, NEW e \in Entries, Once(E) PROVE Once(E \ {e})
BY PortsOfLessOne DEF Once

LEMMA WithoutEntries ==
  ASSUME NEW E \in SUBSET Entries, NEW r \in Runs
  PROVE  Without(E, r) \in SUBSET Entries
BY DEF Without

-----------------------------------------------------------------------------
(* Types. *)

LEMMA InitTypeOK == Init => TypeOK
BY DEF Init, TypeOK, Places

LEMMA NextTypeOK == TypeOK /\ [Next]_vars => TypeOK'
<1> SUFFICES ASSUME TypeOK, [Next]_vars PROVE TypeOK'
  OBVIOUS
<1> USE DEF TypeOK
<1>1. ASSUME NEW q \in Runs, Acquire(q) PROVE TypeOK'
  BY <1>1, PortLeasesAssumption DEF Acquire, Goto, Places, Holding, Updating
<1>2. ASSUME NEW q \in Runs, LockRegistry(q) PROVE TypeOK'
  BY <1>2, PortLeasesAssumption
     DEF LockRegistry, Goto, Places, Holding, Updating
<1>3. ASSUME NEW q \in Runs, LoadRegistry(q) PROVE TypeOK'
  BY <1>3, PortLeasesAssumption
     DEF LoadRegistry, Goto, Entries, Places, Holding, Updating
<1>4. ASSUME NEW q \in Runs, NEW e \in Entries, PruneStale(q, e) PROVE TypeOK'
  BY <1>4, PortLeasesAssumption DEF PruneStale, Goto
<1>5. ASSUME NEW q \in Runs, ReservePort(q) PROVE TypeOK'
  BY <1>5, PortLeasesAssumption DEF ReservePort, Goto, Bindable, Entries
<1>6. ASSUME NEW q \in Runs, NoPort(q) PROVE TypeOK'
  BY <1>6, PortLeasesAssumption
     DEF NoPort, ReserveFails, Goto, Places, Holding, Updating
<1>7. ASSUME NEW q \in Runs, CommitEntries(q) PROVE TypeOK'
  BY <1>7, PortLeasesAssumption
     DEF CommitEntries, Goto, Places, Holding, Updating
<1>8. ASSUME NEW q \in Runs, ReserveErrs(q) PROVE TypeOK'
  BY <1>8, PortLeasesAssumption
     DEF ReserveErrs, ReserveFails, Goto, Places, Holding, Updating
<1>9. ASSUME NEW q \in Runs, Handoff(q) PROVE TypeOK'
  BY <1>9, PortLeasesAssumption DEF Handoff, Goto, Places, Holding, Updating
<1>10. ASSUME NEW q \in Runs, HandoffMissed(q) PROVE TypeOK'
  BY <1>10, PortLeasesAssumption
     DEF HandoffMissed, Goto, Places, Holding, Updating
<1>11. ASSUME NEW q \in Runs, SpawnChild(q) PROVE TypeOK'
  BY <1>11, PortLeasesAssumption
     DEF SpawnChild, Goto, Places, Holding, Updating
<1>12. ASSUME NEW q \in Runs, EndRun(q) PROVE TypeOK'
  BY <1>12, PortLeasesAssumption DEF EndRun, Goto, Places, Holding, Updating
<1>13. ASSUME NEW q \in Runs, RemoveEntries(q) PROVE TypeOK'
  BY <1>13, PortLeasesAssumption, WithoutEntries
     DEF RemoveEntries, Goto, Places, Holding, Updating
<1>14. ASSUME NEW q \in Runs, RemoveErrs(q) PROVE TypeOK'
  BY <1>14, PortLeasesAssumption, WithoutEntries
     DEF RemoveErrs, Goto, Places, Holding, Updating
<1>15. ASSUME NEW q \in Runs, Exit(q) PROVE TypeOK'
  BY <1>15, PortLeasesAssumption DEF Exit, Goto, Places, Holding, Updating
<1>16. ASSUME NEW q \in Runs, Crash(q) PROVE TypeOK'
  BY <1>16, PortLeasesAssumption DEF Crash, Goto, Places, Holding, Updating
<1>17. ASSUME NEW q \in Runs, ChildBinds(q) PROVE TypeOK'
  BY <1>17, PortLeasesAssumption DEF ChildBinds, Goto
<1>18. ASSUME NEW q \in Runs, SocketsClose(q) PROVE TypeOK'
  BY <1>18, PortLeasesAssumption DEF SocketsClose, Goto
<1>19. CASE OthersBind
  BY <1>19 DEF OthersBind, Bindable
<1>20. CASE UNCHANGED vars
  BY <1>20 DEF vars
<1> QED
  BY <1>1, <1>2, <1>3, <1>4, <1>5, <1>6, <1>7, <1>8, <1>9, <1>10, <1>11,
     <1>12, <1>13, <1>14, <1>15, <1>16, <1>17, <1>18, <1>19, <1>20
     DEF Next, RunStep, Reserve

(* Type correctness of the registry and of the runs around it. *)
THEOREM LeasesTypeCorrect == SafeSpec => []TypeOK
BY InitTypeOK, NextTypeOK, PTL DEF SafeSpec

-----------------------------------------------------------------------------
(* The invariant, conjunct by conjunct. *)

LEMMA AliveStep == TypeOK /\ AliveInv /\ [Next]_vars => AliveInv'
<1> SUFFICES ASSUME TypeOK, AliveInv, [Next]_vars PROVE AliveInv'
  OBVIOUS
<1> USE DEF TypeOK, AliveInv, Holding
<1>1. ASSUME NEW q \in Runs, Acquire(q) PROVE AliveInv'
  BY <1>1 DEF Acquire, Goto
<1>2. ASSUME NEW q \in Runs, LockRegistry(q) PROVE AliveInv'
  BY <1>2 DEF LockRegistry, Goto
<1>3. ASSUME NEW q \in Runs, LoadRegistry(q) PROVE AliveInv'
  BY <1>3 DEF LoadRegistry, Goto
<1>4. ASSUME NEW q \in Runs, NEW e \in Entries, PruneStale(q, e) PROVE AliveInv'
  BY <1>4 DEF PruneStale, Goto
<1>5. ASSUME NEW q \in Runs, ReservePort(q) PROVE AliveInv'
  BY <1>5 DEF ReservePort, Goto
<1>6. ASSUME NEW q \in Runs, NoPort(q) PROVE AliveInv'
  BY <1>6 DEF NoPort, ReserveFails, Goto
<1>7. ASSUME NEW q \in Runs, CommitEntries(q) PROVE AliveInv'
  BY <1>7 DEF CommitEntries, Goto
<1>8. ASSUME NEW q \in Runs, ReserveErrs(q) PROVE AliveInv'
  BY <1>8 DEF ReserveErrs, ReserveFails, Goto
<1>9. ASSUME NEW q \in Runs, Handoff(q) PROVE AliveInv'
  BY <1>9 DEF Handoff, Goto
<1>10. ASSUME NEW q \in Runs, HandoffMissed(q) PROVE AliveInv'
  BY <1>10 DEF HandoffMissed, Goto
<1>11. ASSUME NEW q \in Runs, SpawnChild(q) PROVE AliveInv'
  BY <1>11 DEF SpawnChild, Goto
<1>12. ASSUME NEW q \in Runs, EndRun(q) PROVE AliveInv'
  BY <1>12 DEF EndRun, Goto
<1>13. ASSUME NEW q \in Runs, RemoveEntries(q) PROVE AliveInv'
  BY <1>13 DEF RemoveEntries, Goto
<1>14. ASSUME NEW q \in Runs, RemoveErrs(q) PROVE AliveInv'
  BY <1>14 DEF RemoveErrs, Goto
<1>15. ASSUME NEW q \in Runs, Exit(q) PROVE AliveInv'
  BY <1>15 DEF Exit, Goto
<1>16. ASSUME NEW q \in Runs, Crash(q) PROVE AliveInv'
  BY <1>16 DEF Crash, Goto
<1>17. ASSUME NEW q \in Runs, ChildBinds(q) PROVE AliveInv'
  BY <1>17 DEF ChildBinds, Goto
<1>18. ASSUME NEW q \in Runs, SocketsClose(q) PROVE AliveInv'
  BY <1>18 DEF SocketsClose, Goto
<1>19. CASE OthersBind
  BY <1>19 DEF OthersBind
<1>20. CASE UNCHANGED vars
  BY <1>20 DEF vars
<1> QED
  BY <1>1, <1>2, <1>3, <1>4, <1>5, <1>6, <1>7, <1>8, <1>9, <1>10, <1>11,
     <1>12, <1>13, <1>14, <1>15, <1>16, <1>17, <1>18, <1>19, <1>20
     DEF Next, RunStep, Reserve

LEMMA OwnerStep == TypeOK /\ OwnerInv /\ [Next]_vars => OwnerInv'
<1> SUFFICES ASSUME TypeOK, OwnerInv, [Next]_vars PROVE OwnerInv'
  OBVIOUS
<1> USE PortLeasesAssumption DEF TypeOK, OwnerInv, Updating
<1>1. ASSUME NEW q \in Runs, Acquire(q) PROVE OwnerInv'
  BY <1>1 DEF Acquire, Goto
<1>2. ASSUME NEW q \in Runs, LockRegistry(q) PROVE OwnerInv'
  BY <1>2 DEF LockRegistry, Goto
<1>3. ASSUME NEW q \in Runs, LoadRegistry(q) PROVE OwnerInv'
  BY <1>3 DEF LoadRegistry, Goto
<1>4. ASSUME NEW q \in Runs, NEW e \in Entries, PruneStale(q, e) PROVE OwnerInv'
  BY <1>4 DEF PruneStale, Goto
<1>5. ASSUME NEW q \in Runs, ReservePort(q) PROVE OwnerInv'
  BY <1>5 DEF ReservePort, Goto
<1>6. ASSUME NEW q \in Runs, NoPort(q) PROVE OwnerInv'
  BY <1>6 DEF NoPort, ReserveFails, Goto
<1>7. ASSUME NEW q \in Runs, CommitEntries(q) PROVE OwnerInv'
  BY <1>7 DEF CommitEntries, Goto
<1>8. ASSUME NEW q \in Runs, ReserveErrs(q) PROVE OwnerInv'
  BY <1>8 DEF ReserveErrs, ReserveFails, Goto
<1>9. ASSUME NEW q \in Runs, Handoff(q) PROVE OwnerInv'
  BY <1>9 DEF Handoff, Goto
<1>10. ASSUME NEW q \in Runs, HandoffMissed(q) PROVE OwnerInv'
  BY <1>10 DEF HandoffMissed, Goto
<1>11. ASSUME NEW q \in Runs, SpawnChild(q) PROVE OwnerInv'
  BY <1>11 DEF SpawnChild, Goto
<1>12. ASSUME NEW q \in Runs, EndRun(q) PROVE OwnerInv'
  BY <1>12 DEF EndRun, Goto
<1>13. ASSUME NEW q \in Runs, RemoveEntries(q) PROVE OwnerInv'
  BY <1>13 DEF RemoveEntries, Goto
<1>14. ASSUME NEW q \in Runs, RemoveErrs(q) PROVE OwnerInv'
  BY <1>14 DEF RemoveErrs, Goto
<1>15. ASSUME NEW q \in Runs, Exit(q) PROVE OwnerInv'
  BY <1>15 DEF Exit, Goto
<1>16. ASSUME NEW q \in Runs, Crash(q) PROVE OwnerInv'
  BY <1>16 DEF Crash, Goto
<1>17. ASSUME NEW q \in Runs, ChildBinds(q) PROVE OwnerInv'
  BY <1>17 DEF ChildBinds, Goto
<1>18. ASSUME NEW q \in Runs, SocketsClose(q) PROVE OwnerInv'
  BY <1>18 DEF SocketsClose, Goto
<1>19. CASE OthersBind
  BY <1>19 DEF OthersBind
<1>20. CASE UNCHANGED vars
  BY <1>20 DEF vars
<1> QED
  BY <1>1, <1>2, <1>3, <1>4, <1>5, <1>6, <1>7, <1>8, <1>9, <1>10, <1>11,
     <1>12, <1>13, <1>14, <1>15, <1>16, <1>17, <1>18, <1>19, <1>20
     DEF Next, RunStep, Reserve

LEMMA ListenStep == TypeOK /\ ListenInv /\ [Next]_vars => ListenInv'
<1> SUFFICES ASSUME TypeOK, ListenInv, [Next]_vars PROVE ListenInv'
  OBVIOUS
<1> USE DEF TypeOK, ListenInv
<1>1. ASSUME NEW q \in Runs, Acquire(q) PROVE ListenInv'
  BY <1>1 DEF Acquire, Goto, Holding
<1>2. ASSUME NEW q \in Runs, LockRegistry(q) PROVE ListenInv'
  BY <1>2 DEF LockRegistry, Goto
<1>3. ASSUME NEW q \in Runs, LoadRegistry(q) PROVE ListenInv'
  BY <1>3 DEF LoadRegistry, Goto
<1>4. ASSUME NEW q \in Runs, NEW e \in Entries, PruneStale(q, e) PROVE ListenInv'
  BY <1>4 DEF PruneStale, Goto
<1>5. ASSUME NEW q \in Runs, ReservePort(q) PROVE ListenInv'
  <2>1. at[q] = "probe" /\ at' = at
    BY <1>5 DEF ReservePort
  <2>2. PICK p \in Ports : /\ got' = [got EXCEPT ![q] = got[q] \cup {p}]
                          /\ listening' = [listening EXCEPT ![q] =
                                             listening[q] \cup {p}]
    BY <1>5 DEF ReservePort, Bindable
  <2>3. listening'[q] = got'[q]
    BY <2>1, <2>2
  <2>4. \A r \in Runs \ {q} : got'[r] = got[r] /\ listening'[r] = listening[r]
    BY <2>2
  <2> QED
    BY <2>1, <2>3, <2>4
<1>6. ASSUME NEW q \in Runs, NoPort(q) PROVE ListenInv'
  BY <1>6 DEF NoPort, ReserveFails, Goto
<1>7. ASSUME NEW q \in Runs, CommitEntries(q) PROVE ListenInv'
  BY <1>7 DEF CommitEntries, Goto
<1>8. ASSUME NEW q \in Runs, ReserveErrs(q) PROVE ListenInv'
  BY <1>8 DEF ReserveErrs, ReserveFails, Goto
<1>9. ASSUME NEW q \in Runs, Handoff(q) PROVE ListenInv'
  BY <1>9 DEF Handoff, Goto
<1>10. ASSUME NEW q \in Runs, HandoffMissed(q) PROVE ListenInv'
  BY <1>10 DEF HandoffMissed, Goto
<1>11. ASSUME NEW q \in Runs, SpawnChild(q) PROVE ListenInv'
  BY <1>11 DEF SpawnChild, Goto
<1>12. ASSUME NEW q \in Runs, EndRun(q) PROVE ListenInv'
  BY <1>12 DEF EndRun, Goto
<1>13. ASSUME NEW q \in Runs, RemoveEntries(q) PROVE ListenInv'
  BY <1>13 DEF RemoveEntries, Goto
<1>14. ASSUME NEW q \in Runs, RemoveErrs(q) PROVE ListenInv'
  BY <1>14 DEF RemoveErrs, Goto
<1>15. ASSUME NEW q \in Runs, Exit(q) PROVE ListenInv'
  BY <1>15 DEF Exit, Goto
<1>16. ASSUME NEW q \in Runs, Crash(q) PROVE ListenInv'
  BY <1>16 DEF Crash, Goto
<1>17. ASSUME NEW q \in Runs, ChildBinds(q) PROVE ListenInv'
  BY <1>17 DEF ChildBinds, Goto
<1>18. ASSUME NEW q \in Runs, SocketsClose(q) PROVE ListenInv'
  BY <1>18 DEF SocketsClose, Goto
<1>19. CASE OthersBind
  BY <1>19 DEF OthersBind
<1>20. CASE UNCHANGED vars
  BY <1>20 DEF vars
<1> QED
  BY <1>1, <1>2, <1>3, <1>4, <1>5, <1>6, <1>7, <1>8, <1>9, <1>10, <1>11,
     <1>12, <1>13, <1>14, <1>15, <1>16, <1>17, <1>18, <1>19, <1>20
     DEF Next, RunStep, Reserve

LEMMA DiskStep ==
  TypeOK /\ OwnerInv /\ DiskInv /\ SeenInv /\ ListenInv /\ [Next]_vars
    => DiskInv'
<1> SUFFICES ASSUME TypeOK, OwnerInv, DiskInv, SeenInv, ListenInv, [Next]_vars
    PROVE  DiskInv'
  OBVIOUS
<1> USE DEF TypeOK, DiskInv, Holding, Unlisted
<1>1. ASSUME NEW q \in Runs, Acquire(q) PROVE DiskInv'
  BY <1>1 DEF Acquire, Goto, ListenInv
<1>2. ASSUME NEW q \in Runs, LockRegistry(q) PROVE DiskInv'
  BY <1>2 DEF LockRegistry, Goto
<1>3. ASSUME NEW q \in Runs, LoadRegistry(q) PROVE DiskInv'
  BY <1>3 DEF LoadRegistry, Goto
<1>4. ASSUME NEW q \in Runs, NEW e \in Entries, PruneStale(q, e) PROVE DiskInv'
  BY <1>4 DEF PruneStale, Goto
<1>5. ASSUME NEW q \in Runs, ReservePort(q) PROVE DiskInv'
  BY <1>5 DEF ReservePort, Goto
<1>6. ASSUME NEW q \in Runs, NoPort(q) PROVE DiskInv'
  BY <1>6 DEF NoPort, ReserveFails, Goto
<1>7. ASSUME NEW q \in Runs, CommitEntries(q) PROVE DiskInv'
  BY <1>7 DEF CommitEntries, Goto, SeenInv, OwnerInv, Updating
<1>8. ASSUME NEW q \in Runs, ReserveErrs(q) PROVE DiskInv'
  BY <1>8 DEF ReserveErrs, ReserveFails, Goto, SeenInv, OwnerInv, Updating
<1>9. ASSUME NEW q \in Runs, Handoff(q) PROVE DiskInv'
  BY <1>9 DEF Handoff, Goto
<1>10. ASSUME NEW q \in Runs, HandoffMissed(q) PROVE DiskInv'
  BY <1>10 DEF HandoffMissed, Goto
<1>11. ASSUME NEW q \in Runs, SpawnChild(q) PROVE DiskInv'
  BY <1>11 DEF SpawnChild, Goto
<1>12. ASSUME NEW q \in Runs, EndRun(q) PROVE DiskInv'
  BY <1>12 DEF EndRun, Goto
<1>13. ASSUME NEW q \in Runs, RemoveEntries(q) PROVE DiskInv'
  BY <1>13, PortsOfWithout, OnceWithout DEF RemoveEntries, Goto
<1>14. ASSUME NEW q \in Runs, RemoveErrs(q) PROVE DiskInv'
  BY <1>14, PortsOfWithout, OnceWithout DEF RemoveErrs, Goto
<1>15. ASSUME NEW q \in Runs, Exit(q) PROVE DiskInv'
  BY <1>15 DEF Exit, Goto
<1>16. ASSUME NEW q \in Runs, Crash(q) PROVE DiskInv'
  BY <1>16 DEF Crash, Goto
<1>17. ASSUME NEW q \in Runs, ChildBinds(q) PROVE DiskInv'
  BY <1>17 DEF ChildBinds, Goto
<1>18. ASSUME NEW q \in Runs, SocketsClose(q) PROVE DiskInv'
  BY <1>18 DEF SocketsClose, Goto
<1>19. CASE OthersBind
  BY <1>19 DEF OthersBind
<1>20. CASE UNCHANGED vars
  BY <1>20 DEF vars
<1> QED
  BY <1>1, <1>2, <1>3, <1>4, <1>5, <1>6, <1>7, <1>8, <1>9, <1>10, <1>11,
     <1>12, <1>13, <1>14, <1>15, <1>16, <1>17, <1>18, <1>19, <1>20
     DEF Next, RunStep, Reserve

LEMMA SeenStep ==
  ASSUME "probe" \notin Faults
  PROVE  TypeOK /\ AliveInv /\ OwnerInv /\ DiskInv /\ SeenInv /\ ListenInv
           /\ [Next]_vars => SeenInv'
<1> SUFFICES ASSUME TypeOK, AliveInv, OwnerInv, DiskInv, SeenInv, ListenInv,
                    [Next]_vars
    PROVE  SeenInv'
  OBVIOUS
<1> USE DEF TypeOK, SeenInv, OwnerInv, Holding, Updating
<1>1. ASSUME NEW q \in Runs, Acquire(q) PROVE SeenInv'
  BY <1>1 DEF Acquire, Goto, DiskInv, ListenInv, Unlisted
<1>2. ASSUME NEW q \in Runs, LockRegistry(q) PROVE SeenInv'
  BY <1>2 DEF LockRegistry, Goto
<1>3. ASSUME NEW q \in Runs, LoadRegistry(q) PROVE SeenInv'
  <2>1. at[q] = "load" /\ at' = [at EXCEPT ![q] = "probe"]
    BY <1>3 DEF LoadRegistry, Goto
  <2>2. seen' = disk /\ UNCHANGED <<disk, got, listening>>
    BY <1>3 DEF LoadRegistry
  <2>3. \A r \in Runs \ {q} : at'[r] = at[r] /\ at[r] # "probe"
    BY <2>1
  <2>4. Once(disk) /\ PortsOf(disk, q) = {} /\ got[q] = {}
    BY <2>1 DEF DiskInv, ListenInv, Unlisted
  <2>5. \A r \in Runs : at'[r] = "probe" => r = q
    BY <2>3
  <2>6. \A s \in Runs \ {q} :
          at'[s] \in Holding => PortsOf(disk, s) = got[s]
    BY <2>3 DEF DiskInv
  <2> QED
    BY <2>2, <2>4, <2>5, <2>6
<1>4. ASSUME NEW q \in Runs, NEW e \in Entries, PruneStale(q, e) PROVE SeenInv'
  <2>1. at[q] = "probe" /\ at' = at /\ got' = got /\ disk' = disk
    BY <1>4 DEF PruneStale
  <2>2. seen' = seen \/ (~alive[e.run] /\ seen' = seen \ {e})
    BY <1>4 DEF PruneStale
  <2>3. CASE seen' = seen
    BY <2>1, <2>3
  <2>4. CASE ~alive[e.run] /\ seen' = seen \ {e}
    <3>1. e.run # q /\ at[e.run] \notin Holding
      BY <2>1, <2>4 DEF AliveInv, Entries
    <3>2. \A r \in Runs :
            /\ PortsOf(seen', r) \subseteq PortsOf(seen, r)
            /\ r # e.run => PortsOf(seen', r) = PortsOf(seen, r)
      <4>1. seen' = seen \ {e}
        BY <2>4
      <4> QED
        BY <4>1, PortsOfLessOne, Zenon
    <3>3. Once(seen')
      BY <2>1, <2>4, OnceLessOne
    <3> QED
      BY <2>1, <3>1, <3>2, <3>3
  <2> QED
    BY <2>2, <2>3, <2>4
<1>5. ASSUME NEW q \in Runs, ReservePort(q) PROVE SeenInv'
  <2>1. at[q] = "probe" /\ at' = at /\ disk' = disk
    BY <1>5 DEF ReservePort
  <2>2. PICK p \in Ports \ Leased :
          /\ got' = [got EXCEPT ![q] = got[q] \cup {p}]
          /\ seen' = seen \cup {[run |-> q, port |-> p]}
    BY <1>5 DEF ReservePort, Bindable
  <2>3. \A r \in Runs : at'[r] = "probe" => r = q
    BY <2>1
  <2>9. \A r \in Runs : PortsOf(seen', r) =
          IF r = q THEN PortsOf(seen, r) \cup {p} ELSE PortsOf(seen, r)
    <3>1. seen' = seen \cup {[run |-> q, port |-> p]}
      BY <2>2
    <3> QED
      BY <3>1 DEF PortsOf
  <2>4. PortsOf(seen', q) = got'[q]
    BY <2>1, <2>2, <2>9
  <2>5. \A r \in Runs \ {q} : PortsOf(seen', r) = PortsOf(seen, r)
    BY <2>9
  <2>10. \A r \in Runs : p \notin PortsOf(seen, r)
    BY <2>2, UnleasedPort
  <2>6. \A r \in Runs \ {q} : PortsOf(seen', q) \cap PortsOf(seen', r) = {}
    BY <2>1, <2>9, <2>10 DEF Once
  <2>7. Once(seen')
    BY <2>1, <2>5, <2>6 DEF Once
  <2>8. \A r \in Runs \ {q} : got'[r] = got[r]
    BY <2>2
  <2> QED
    BY <2>1, <2>3, <2>4, <2>5, <2>7, <2>8
<1>6. ASSUME NEW q \in Runs, NoPort(q) PROVE SeenInv'
  BY <1>6 DEF NoPort, ReserveFails, Goto
<1>7. ASSUME NEW q \in Runs, CommitEntries(q) PROVE SeenInv'
  BY <1>7 DEF CommitEntries, Goto
<1>8. ASSUME NEW q \in Runs, ReserveErrs(q) PROVE SeenInv'
  BY <1>8 DEF ReserveErrs, ReserveFails, Goto
<1>9. ASSUME NEW q \in Runs, Handoff(q) PROVE SeenInv'
  BY <1>9 DEF Handoff, Goto
<1>10. ASSUME NEW q \in Runs, HandoffMissed(q) PROVE SeenInv'
  BY <1>10 DEF HandoffMissed, Goto
<1>11. ASSUME NEW q \in Runs, SpawnChild(q) PROVE SeenInv'
  BY <1>11 DEF SpawnChild, Goto
<1>12. ASSUME NEW q \in Runs, EndRun(q) PROVE SeenInv'
  BY <1>12 DEF EndRun, Goto
<1>13. ASSUME NEW q \in Runs, RemoveEntries(q) PROVE SeenInv'
  BY <1>13 DEF RemoveEntries, Goto
<1>14. ASSUME NEW q \in Runs, RemoveErrs(q) PROVE SeenInv'
  BY <1>14 DEF RemoveErrs, Goto
<1>15. ASSUME NEW q \in Runs, Exit(q) PROVE SeenInv'
  BY <1>15 DEF Exit, Goto
<1>16. ASSUME NEW q \in Runs, Crash(q) PROVE SeenInv'
  BY <1>16 DEF Crash, Goto
<1>17. ASSUME NEW q \in Runs, ChildBinds(q) PROVE SeenInv'
  BY <1>17 DEF ChildBinds, Goto
<1>18. ASSUME NEW q \in Runs, SocketsClose(q) PROVE SeenInv'
  BY <1>18 DEF SocketsClose, Goto
<1>19. CASE OthersBind
  BY <1>19 DEF OthersBind
<1>20. CASE UNCHANGED vars
  BY <1>20 DEF vars
<1> QED
  BY <1>1, <1>2, <1>3, <1>4, <1>5, <1>6, <1>7, <1>8, <1>9, <1>10, <1>11,
     <1>12, <1>13, <1>14, <1>15, <1>16, <1>17, <1>18, <1>19, <1>20
     DEF Next, RunStep, Reserve

(* No update makes a port appear twice, in the file or in the copy. *)
TwoOnce == Once(disk) /\ Once(seen)

LEMMA TwoOnceStep == TypeOK /\ TwoOnce /\ [Next]_vars => TwoOnce'
<1> SUFFICES ASSUME TypeOK, TwoOnce, [Next]_vars PROVE TwoOnce'
  OBVIOUS
<1> USE DEF TwoOnce
<1>1. ASSUME NEW q \in Runs, Acquire(q) PROVE TwoOnce'
  BY <1>1 DEF Acquire, Goto
<1>2. ASSUME NEW q \in Runs, LockRegistry(q) PROVE TwoOnce'
  BY <1>2 DEF LockRegistry, Goto
<1>3. ASSUME NEW q \in Runs, LoadRegistry(q) PROVE TwoOnce'
  BY <1>3 DEF LoadRegistry, Goto
<1>4. ASSUME NEW q \in Runs, NEW e \in Entries, PruneStale(q, e) PROVE TwoOnce'
  BY <1>4, OnceLessOne DEF PruneStale, Goto
<1>5. ASSUME NEW q \in Runs, ReservePort(q) PROVE TwoOnce'
  <2>1. PICK p \in Ports \ Leased : seen' = seen \cup {[run |-> q, port |-> p]}
    BY <1>5 DEF ReservePort, Bindable
  <2>2. \A r \in Runs : p \notin PortsOf(seen, r)
    BY UnleasedPort
  <2>3. \A r \in Runs : PortsOf(seen', r) =
          IF r = q THEN PortsOf(seen, r) \cup {p} ELSE PortsOf(seen, r)
    BY <2>1 DEF PortsOf
  <2>4. disk' = disk
    BY <1>5 DEF ReservePort
  <2> QED
    BY <2>2, <2>3, <2>4 DEF Once
<1>6. ASSUME NEW q \in Runs, NoPort(q) PROVE TwoOnce'
  BY <1>6 DEF NoPort, ReserveFails, Goto
<1>7. ASSUME NEW q \in Runs, CommitEntries(q) PROVE TwoOnce'
  BY <1>7 DEF CommitEntries, Goto
<1>8. ASSUME NEW q \in Runs, ReserveErrs(q) PROVE TwoOnce'
  BY <1>8 DEF ReserveErrs, ReserveFails, Goto
<1>9. ASSUME NEW q \in Runs, Handoff(q) PROVE TwoOnce'
  BY <1>9 DEF Handoff, Goto
<1>10. ASSUME NEW q \in Runs, HandoffMissed(q) PROVE TwoOnce'
  BY <1>10 DEF HandoffMissed, Goto
<1>11. ASSUME NEW q \in Runs, SpawnChild(q) PROVE TwoOnce'
  BY <1>11 DEF SpawnChild, Goto
<1>12. ASSUME NEW q \in Runs, EndRun(q) PROVE TwoOnce'
  BY <1>12 DEF EndRun, Goto
<1>13. ASSUME NEW q \in Runs, RemoveEntries(q) PROVE TwoOnce'
  BY <1>13, OnceWithout DEF RemoveEntries, Goto
<1>14. ASSUME NEW q \in Runs, RemoveErrs(q) PROVE TwoOnce'
  BY <1>14, OnceWithout DEF RemoveErrs, Goto
<1>15. ASSUME NEW q \in Runs, Exit(q) PROVE TwoOnce'
  BY <1>15 DEF Exit, Goto
<1>16. ASSUME NEW q \in Runs, Crash(q) PROVE TwoOnce'
  BY <1>16 DEF Crash, Goto
<1>17. ASSUME NEW q \in Runs, ChildBinds(q) PROVE TwoOnce'
  BY <1>17 DEF ChildBinds, Goto
<1>18. ASSUME NEW q \in Runs, SocketsClose(q) PROVE TwoOnce'
  BY <1>18 DEF SocketsClose, Goto
<1>19. CASE OthersBind
  BY <1>19 DEF OthersBind
<1>20. CASE UNCHANGED vars
  BY <1>20 DEF vars
<1> QED
  BY <1>1, <1>2, <1>3, <1>4, <1>5, <1>6, <1>7, <1>8, <1>9, <1>10, <1>11,
     <1>12, <1>13, <1>14, <1>15, <1>16, <1>17, <1>18, <1>19, <1>20
     DEF Next, RunStep, Reserve

(* The registry is right, whoever updates it, fails or is killed. *)
THEOREM RegistryCorrect ==
  ASSUME "probe" \notin Faults
  PROVE  SafeSpec => [](TypeOK /\ RegistryInv)
<1>1. Init => RegistryInv
  BY PortLeasesAssumption DEF Init, RegistryInv, AliveInv, OwnerInv, DiskInv,
     SeenInv, ListenInv, Once, PortsOf, Holding, Updating, Unlisted
<1>2. TypeOK /\ RegistryInv /\ [Next]_vars => (TypeOK /\ RegistryInv)'
  BY NextTypeOK, AliveStep, OwnerStep, DiskStep, SeenStep, ListenStep
     DEF RegistryInv
<1> QED
  BY InitTypeOK, <1>1, <1>2, PTL DEF SafeSpec

(* Two active runs never have the same port. *)
THEOREM ExclusivePorts ==
  ASSUME "probe" \notin Faults
  PROVE  SafeSpec => []PortsAreExclusive
<1>1. RegistryInv => PortsAreExclusive
  BY DEF RegistryInv, DiskInv, Once, PortsAreExclusive
<1> QED
  BY RegistryCorrect, <1>1, PTL

(* A run that holds ports has exactly those in the registry. *)
THEOREM ListedPorts ==
  ASSUME "probe" \notin Faults
  PROVE  SafeSpec => []HeldPortsAreListed
<1>1. RegistryInv => HeldPortsAreListed
  BY DEF RegistryInv, DiskInv, HeldPortsAreListed
<1> QED
  BY RegistryCorrect, <1>1, PTL

(* No concurrent update brings the entries of a run back. *)
THEOREM ReleasedPorts ==
  ASSUME "probe" \notin Faults
  PROVE  SafeSpec => []ReleasedRunsAreUnlisted
<1>1. RegistryInv => ReleasedRunsAreUnlisted
  BY DEF RegistryInv, DiskInv, Unlisted, ReleasedRunsAreUnlisted
<1> QED
  BY RegistryCorrect, <1>1, PTL

(* The registry never lists a port twice, whatever fails. *)
THEOREM PortsListedOnce == SafeSpec => []PortsAreListedOnce
<1>1. Init => TwoOnce
  BY DEF Init, TwoOnce, Once, PortsOf
<1>2. TwoOnce => PortsAreListedOnce
  BY DEF TwoOnce, PortsAreListedOnce
<1> QED
  BY <1>1, <1>2, TwoOnceStep, InitTypeOK, NextTypeOK, PTL DEF SafeSpec

(* The listeners keep the ports of a run until it hands them over. *)
THEOREM HeldReservations == SafeSpec => []ReservedPortsAreHeld
<1>1. Init => ListenInv
  BY DEF Init, ListenInv
<1>2. ListenInv => ReservedPortsAreHeld
  BY DEF ListenInv, ReservedPortsAreHeld
<1> QED
  BY <1>1, <1>2, InitTypeOK, NextTypeOK, ListenStep, PTL DEF SafeSpec

(* At most one update of the registry is under way, whatever fails. *)
THEOREM ExclusiveUpdates == SafeSpec => []UpdatesAreExclusive
<1>1. Init => OwnerInv
  BY PortLeasesAssumption DEF Init, OwnerInv, Updating
<1>2. OwnerInv => UpdatesAreExclusive
  BY DEF OwnerInv, UpdatesAreExclusive
<1> QED
  BY InitTypeOK, NextTypeOK, OwnerStep, <1>1, <1>2, PTL DEF SafeSpec

-----------------------------------------------------------------------------
(* PortLeases implements LeaseContract. *)

LEMMA SameCardinality == \A S : Leases!Cardinality(S) = Cardinality(S)
BY DEF Leases!Cardinality, Cardinality

(* How far a run is moves with its own steps alone.                         *)
LEMMA PhaseMoves ==
  ASSUME TypeOK, NEW q \in Runs, NEW next, Goto(q, next)
  PROVE  /\ Phases' = [Phases EXCEPT ![q] = PhaseOf(next)]
         /\ Phases[q] = PhaseOf(at[q])
         /\ PhaseOf(next) = PhaseOf(at[q]) => Phases' = Phases
<1>1. at' = [at EXCEPT ![q] = next] /\ at \in [Runs -> Places]
  BY DEF Goto, TypeOK
<1>2. \A r \in Runs : PhaseOf(at'[r]) = IF r = q THEN PhaseOf(next) ELSE PhaseOf(at[r])
  BY <1>1
<1> QED
  BY <1>2 DEF Phases

(* A step of a run that leaves the file alone is none, its refusal, or its  *)
(* end.                                                                     *)
LEMMA UnwrittenStep ==
  ASSUME TypeOK, NEW q \in Runs, NEW next, Goto(q, next), UNCHANGED disk,
         \/ PhaseOf(next) = "over"
         \/ PhaseOf(next) = PhaseOf(at[q])
  PROVE  [Leases!Next]_Leases!vars
<1>1. Listed' = Listed
  BY DEF Listed
<1>2. CASE PhaseOf(next) = PhaseOf(at[q])
  BY <1>1, <1>2, PhaseMoves DEF Leases!vars
<1>3. CASE PhaseOf(next) = "over" /\ PhaseOf(at[q]) # "over"
  <2>1. PhaseOf(at[q]) \in {"waiting", "active"}
    BY <1>3 DEF PhaseOf
  <2>2. Phases[q] = PhaseOf(at[q]) /\ Phases' = [Phases EXCEPT ![q] = "over"]
    BY <1>3, PhaseMoves
  <2>3. Leases!Refuse(q) \/ Leases!End(q)
    BY <1>1, <2>1, <2>2 DEF Leases!Refuse, Leases!End, Leases!Becomes
  <2> QED
    BY <2>3 DEF Leases!Next
<1> QED
  BY <1>2, <1>3

(* Writing the updated copy grants the run its ports.                       *)
LEMMA WrittenStep ==
  ASSUME TypeOK, RegistryInv, NEW q \in Runs, NEW next, Goto(q, next),
         PhaseOf(next) \in {"active", "over"},
         at[q] = "probe", Cardinality(got[q]) = Wanted[q], disk' = seen
  PROVE  Leases!Next
<1>1. Phases[q] = "waiting" /\ Leases!Becomes(q, PhaseOf(next))
  BY PhaseMoves DEF PhaseOf, Holding, Leases!Becomes
<1>2. Listed' \in [Runs -> SUBSET Ports] /\ \A s \in Runs : Listed'[s] = PortsOf(seen, s)
  BY DEF Listed, PortsOf
<1>3. Cardinality(Listed'[q]) = Wanted[q]
  BY <1>2 DEF RegistryInv, SeenInv
<1>4. ASSUME NEW s \in Runs \ {q}
      PROVE  /\ \/ Listed'[s] = Listed[s]
                \/ Phases[s] = "over" /\ Listed'[s] \subseteq Listed[s]
             /\ Listed'[s] \cap Listed'[q] = {}
  <2>1. Once(seen) /\ PortsOf(seen, s) \subseteq PortsOf(disk, s)
    BY DEF RegistryInv, SeenInv
  <2>2. at[s] \in Holding => PortsOf(seen, s) = PortsOf(disk, s)
    BY DEF RegistryInv, SeenInv, DiskInv
  <2>3. at[s] \in {"idle", "reserve", "load", "probe"} => PortsOf(disk, s) = {}
    BY DEF RegistryInv, DiskInv, Unlisted
  <2>4. Phases[s] = PhaseOf(at[s]) /\ Listed[s] = PortsOf(disk, s)
    BY DEF Phases, Listed
  <2>5. Listed'[s] \cap Listed'[q] = {}
    BY <1>2, <2>1 DEF Once
  <2>6. CASE PhaseOf(at[s]) = "over"
    BY <1>2, <2>1, <2>4, <2>5, <2>6
  <2>7. CASE PhaseOf(at[s]) # "over"
    <3>1. at[s] \in Holding \cup {"idle", "reserve", "load", "probe"}
      BY <2>7 DEF PhaseOf
    <3> QED
      BY <1>2, <2>1, <2>2, <2>3, <2>4, <2>5, <3>1
  <2> QED
    BY <2>6, <2>7
<1>5. Leases!Becomes(q, "active") \/ Leases!Becomes(q, "over")
  BY <1>1
<1>6. Leases!Grant(q)
  BY <1>1, <1>2, <1>3, <1>4, <1>5, SameCardinality, Zenon DEF Leases!Grant
<1> QED
  BY <1>6 DEF Leases!Next

(* Rewriting the file without a run's entries withdraws them.               *)
LEMMA RemovedStep ==
  ASSUME TypeOK, NEW q \in Runs, NEW next, Goto(q, next),
         PhaseOf(at[q]) = "over", PhaseOf(next) = "over", disk' = Without(disk, q)
  PROVE  Leases!Next
<1>1. Phases' = Phases /\ Phases[q] = "over"
  BY PhaseMoves
<1>2. \A s \in Runs : PortsOf(disk', s) = IF s = q THEN {} ELSE PortsOf(disk, s)
  BY PortsOfWithout
<1>3. Listed' = [Listed EXCEPT ![q] = {}]
  BY <1>2 DEF Listed
<1> QED
  BY <1>1, <1>3 DEF Leases!Next, Leases!Withdraw

LEMMA LeaseStep ==
  ASSUME TypeOK, RegistryInv, [Next]_vars
  PROVE  [Leases!Next]_Leases!vars
<1> USE DEF PhaseOf, Holding
<1>1. CASE UNCHANGED <<at, disk>>
  BY <1>1 DEF Leases!vars, Phases, Listed
<1>2. ASSUME NEW q \in Runs, Acquire(q) PROVE [Leases!Next]_Leases!vars
  <2>1. CASE Wanted[q] # 0
    BY <1>2, <2>1, UnwrittenStep DEF Acquire
  <2>2. CASE Wanted[q] = 0
    <3>1. at[q] = "idle" /\ Goto(q, "reserved") /\ UNCHANGED disk
      BY <1>2, <2>2 DEF Acquire
    <3>2. Phases[q] = "waiting" /\ Leases!Becomes(q, "active")
      BY <3>1, PhaseMoves DEF Leases!Becomes
    <3>3. Listed' = Listed /\ Listed' \in [Runs -> SUBSET Ports]
      BY <3>1 DEF Listed, PortsOf
    <3>4. Listed'[q] = {}
      BY <3>1, <3>3 DEF Listed, RegistryInv, DiskInv, Unlisted
    <3>5. Cardinality(Listed'[q]) = Wanted[q]
      BY <2>2, <3>4, FS_EmptySet
    <3>6. Leases!Grant(q)
      BY <3>2, <3>3, <3>4, <3>5, SameCardinality DEF Leases!Grant
    <3> QED
      BY <3>6 DEF Leases!Next
  <2> QED
    BY <2>1, <2>2
<1>3. ASSUME NEW q \in Runs, LockRegistry(q) PROVE [Leases!Next]_Leases!vars
  BY <1>3, UnwrittenStep DEF LockRegistry
<1>4. ASSUME NEW q \in Runs, LoadRegistry(q) PROVE [Leases!Next]_Leases!vars
  BY <1>4, UnwrittenStep DEF LoadRegistry
<1>5. ASSUME NEW q \in Runs, NoPort(q) PROVE [Leases!Next]_Leases!vars
  BY <1>5, UnwrittenStep DEF NoPort, ReserveFails
<1>6. ASSUME NEW q \in Runs, CommitEntries(q) PROVE [Leases!Next]_Leases!vars
  BY <1>6, WrittenStep DEF CommitEntries
<1>7. ASSUME NEW q \in Runs, ReserveErrs(q) PROVE [Leases!Next]_Leases!vars
  <2>1. Goto(q, "failed")
    BY <1>7 DEF ReserveErrs, ReserveFails
  <2>2. CASE UNCHANGED disk
    BY <2>1, <2>2, UnwrittenStep
  <2>3. CASE ~UNCHANGED disk
    BY <1>7, <2>1, <2>3, WrittenStep DEF ReserveErrs
  <2> QED
    BY <2>2, <2>3
<1>8. ASSUME NEW q \in Runs, Handoff(q) PROVE [Leases!Next]_Leases!vars
  BY <1>8, UnwrittenStep DEF Handoff
<1>9. ASSUME NEW q \in Runs, HandoffMissed(q) PROVE [Leases!Next]_Leases!vars
  BY <1>9, UnwrittenStep DEF HandoffMissed
<1>10. ASSUME NEW q \in Runs, SpawnChild(q) PROVE [Leases!Next]_Leases!vars
  BY <1>10, UnwrittenStep DEF SpawnChild
<1>11. ASSUME NEW q \in Runs, EndRun(q) PROVE [Leases!Next]_Leases!vars
  BY <1>11, UnwrittenStep DEF EndRun
<1>12. ASSUME NEW q \in Runs, RemoveEntries(q) PROVE [Leases!Next]_Leases!vars
  BY <1>12, RemovedStep DEF RemoveEntries
<1>13. ASSUME NEW q \in Runs, RemoveErrs(q) PROVE [Leases!Next]_Leases!vars
  <2>1. /\ at[q] \in {"release", "drop", "retain", "drop_retain"}
        /\ UNCHANGED disk \/ disk' = Without(disk, q)
        /\ \E next \in {"drop", "failed"} : Goto(q, next)
    BY <1>13 DEF RemoveErrs
  <2> QED
    BY <2>1, UnwrittenStep, RemovedStep
<1>14. ASSUME NEW q \in Runs, Exit(q) PROVE [Leases!Next]_Leases!vars
  BY <1>14, UnwrittenStep DEF Exit
<1>15. ASSUME NEW q \in Runs, Crash(q) PROVE [Leases!Next]_Leases!vars
  BY <1>15, UnwrittenStep DEF Crash
<1>16. ASSUME NEW q \in Runs,
              \/ \E e \in Entries : PruneStale(q, e)
              \/ ReservePort(q) \/ ChildBinds(q) \/ SocketsClose(q)
       PROVE  [Leases!Next]_Leases!vars
  BY <1>1, <1>16 DEF PruneStale, ReservePort, ChildBinds, SocketsClose
<1>17. CASE OthersBind \/ UNCHANGED vars
  BY <1>1, <1>17 DEF OthersBind, vars
<1> QED
  BY <1>2, <1>3, <1>4, <1>5, <1>6, <1>7, <1>8, <1>9, <1>10, <1>11,
     <1>12, <1>13, <1>14, <1>15, <1>16, <1>17
     DEF Next, RunStep, Reserve

(* update_registry, prune_stale and release_registry together implement     *)
(* LeaseContract: a run gets all its ports in one step, they stay listed    *)
(* until it is over, and only then may they go to another, whoever is       *)
(* killed or fails in between.                                              *)
THEOREM LeasesImplementContract ==
  ASSUME "probe" \notin Faults
  PROVE  SafeSpec => LeasesKeepContract
<1>1. Init => Leases!Init
  BY DEF Init, Leases!Init, Phases, PhaseOf, Holding, Listed, PortsOf
<1>2. TypeOK /\ RegistryInv /\ [Next]_vars => [Leases!Next]_Leases!vars
  BY LeaseStep
<1> QED
  BY <1>1, <1>2, RegistryCorrect, PTL DEF SafeSpec, LeasesKeepContract, Leases!Spec

=============================================================================
