---------------------------- MODULE RunStoreProofs ----------------------------
(***************************************************************************)
(* What gc and list may rely on in a state root, for any number of runs    *)
(* and of commands that scan it, and every set of faults.                  *)
(***************************************************************************)
EXTENDS RunStore, TLAPS

Places == {"idle", "read", "probe", "reread", "recheck", "reload", "delete"}
Answers == {"none", "ok", "not_found", "io", "integrity", "gc_live_run"}

(* A scan that goes on has a run to look at.                                *)
LEMMA CurrentType ==
  ASSUME TypeOK, NEW c \in Scanners, at[c] # "idle"
  PROVE  Current(c) \in todo[c] /\ Current(c) \in Runs
<1>1. todo[c] \subseteq Runs /\ todo[c] # {}
  BY DEF TypeOK
<1>2. \E m \in todo[c] : \A r \in todo[c] : m >= r
  BY <1>1, RunStoreAssumption
<1> QED
  BY <1>1, <1>2 DEF Current, Max

LEMMA InitType == Init => TypeOK
<1> SUFFICES ASSUME Init PROVE TypeOK
  OBVIOUS
<1> USE DEF Init
<1>1. /\ executes \in [Scanners -> BOOLEAN]
      /\ start \in [Runs -> {"idle", "dir", "lock", "state", "written", "over"}]
      /\ sup \in [Runs -> {"none", "launched", "active", "settled", "gone"}]
      /\ abandoned \in BOOLEAN
  OBVIOUS
<1>2. /\ present \subseteq Runs /\ locks \subseteq present
      /\ doc \in [Runs -> Docs] /\ \A r \in Runs \ present : doc[r] = "none"
  BY DEF Docs
<1>3. /\ at \in [Scanners -> Places] /\ todo \in [Scanners -> SUBSET Runs]
      /\ \A c \in Scanners : todo[c] = {} <=> at[c] = "idle"
  BY DEF Places
<1>4. /\ seen \in [Scanners -> Docs] /\ due \in [Scanners -> SUBSET Runs]
      /\ result \in [Scanners -> Answers]
  BY DEF Docs, Answers
<1> QED
  BY <1>1, <1>2, <1>3, <1>4 DEF TypeOK, Places, Answers

(* A step of one scan moves that scan alone; others may only lose what was  *)
(* due.                                                                     *)
ScanMoves(c) ==
  /\ \A d \in Scanners \ {c} :
       at'[d] = at[d] /\ todo'[d] = todo[d] /\ seen'[d] = seen[d]
  /\ due' \in [Scanners -> SUBSET Runs]
  /\ \A d \in Scanners \ {c} : due'[d] \subseteq due[d]
  /\ at' \in [Scanners -> Places] /\ todo' \in [Scanners -> SUBSET Runs]
  /\ seen' \in [Scanners -> Docs] /\ result' \in [Scanners -> Answers]
  /\ todo'[c] = {} <=> at'[c] = "idle"

LEMMA FinishMoves ==
  ASSUME TypeOK, NEW c \in Scanners, NEW answer \in Answers, Finish(c, answer),
         due' \in [Scanners -> SUBSET Runs],
         \A d \in Scanners \ {c} : due'[d] \subseteq due[d]
  PROVE  ScanMoves(c) /\ at'[c] = "idle" /\ todo'[c] = {} /\ seen'[c] = "none"
<1>1. /\ at' \in [Scanners -> Places] /\ todo' \in [Scanners -> SUBSET Runs]
      /\ seen' \in [Scanners -> Docs] /\ result' \in [Scanners -> Answers]
  BY DEF TypeOK, Finish, Places, Answers, Docs
<1>2. /\ at'[c] = "idle" /\ todo'[c] = {} /\ seen'[c] = "none"
      /\ \A d \in Scanners \ {c} :
           at'[d] = at[d] /\ todo'[d] = todo[d] /\ seen'[d] = seen[d]
  BY DEF TypeOK, Finish
<1> QED
  BY <1>1, <1>2 DEF ScanMoves

LEMMA FailMoves ==
  ASSUME TypeOK, NEW c \in Scanners, NEW answer \in Answers, Fail(c, answer)
  PROVE  ScanMoves(c) /\ at'[c] = "idle" /\ due'[c] = {}
<1>1. /\ due' \in [Scanners -> SUBSET Runs] /\ due'[c] = {}
      /\ \A d \in Scanners \ {c} : due'[d] \subseteq due[d]
  BY DEF TypeOK, Fail
<1> QED
  BY <1>1, FinishMoves DEF Fail

LEMMA GotoMoves ==
  ASSUME TypeOK, NEW c \in Scanners, at[c] # "idle",
         NEW next \in Places \ {"idle"}, Goto(c, next),
         due' \in [Scanners -> SUBSET Runs],
         \A d \in Scanners \ {c} : due'[d] \subseteq due[d]
  PROVE  /\ ScanMoves(c) /\ at'[c] = next /\ seen'[c] = "none"
         /\ todo' = todo
<1>1. /\ at' \in [Scanners -> Places] /\ todo' \in [Scanners -> SUBSET Runs]
      /\ seen' \in [Scanners -> Docs] /\ result' \in [Scanners -> Answers]
  BY DEF TypeOK, Goto, Places, Answers, Docs
<1>2. /\ at'[c] = next /\ seen'[c] = "none" /\ todo' = todo
      /\ \A d \in Scanners \ {c} : at'[d] = at[d] /\ seen'[d] = seen[d]
  BY DEF TypeOK, Goto
<1>3. todo'[c] # {} /\ at'[c] # "idle"
  BY <1>2 DEF TypeOK
<1> QED
  BY <1>1, <1>2, <1>3 DEF ScanMoves

LEMMA NextRunMoves ==
  ASSUME TypeOK, NEW c \in Scanners, at[c] # "idle", NextRun(c),
         due' \in [Scanners -> SUBSET Runs],
         \A d \in Scanners \ {c} : due'[d] \subseteq due[d]
  PROVE  /\ ScanMoves(c) /\ at'[c] \in {"idle", "read"} /\ seen'[c] = "none"
         /\ todo'[c] = todo[c] \ {Current(c)}
<1>1. CASE todo[c] \ {Current(c)} = {}
  <2>1. Finish(c, "ok")
    BY <1>1 DEF NextRun
  <2> QED
    BY <1>1, <2>1, FinishMoves DEF Answers
<1>2. CASE todo[c] \ {Current(c)} # {}
  <2>1. /\ at' = [at EXCEPT ![c] = "read"]
        /\ todo' = [todo EXCEPT ![c] = todo[c] \ {Current(c)}]
        /\ seen' = [seen EXCEPT ![c] = "none"]
        /\ UNCHANGED result
    BY <1>2 DEF NextRun
  <2>2. /\ at' \in [Scanners -> Places] /\ todo' \in [Scanners -> SUBSET Runs]
        /\ seen' \in [Scanners -> Docs] /\ result' \in [Scanners -> Answers]
    BY <2>1 DEF TypeOK, Places, Answers, Docs
  <2>3. /\ at'[c] = "read" /\ todo'[c] = todo[c] \ {Current(c)} /\ seen'[c] = "none"
        /\ \A d \in Scanners \ {c} :
             at'[d] = at[d] /\ todo'[d] = todo[d] /\ seen'[d] = seen[d]
    BY <2>1 DEF TypeOK
  <2> QED
    BY <1>2, <2>2, <2>3 DEF ScanMoves
<1> QED
  BY <1>1, <1>2

-----------------------------------------------------------------------------
(* What a step of a scan does to the scan: it begins, reads, fails, goes    *)
(* back to a run it has observed, finds it due for deletion, or moves on.   *)

Begins(c) ==
  /\ at[c] = "idle" /\ at'[c] \in {"idle", "read"}
  /\ due'[c] \subseteq todo'[c]
  /\ \A r \in due'[c] : executes[c] /\ doc[r] = "old" /\ ~Held(r)
Reads(c) ==
  /\ at[c] = "read" /\ at'[c] = "probe" /\ seen'[c] = doc[Current(c)]
  /\ Readable(Current(c))
  /\ UNCHANGED <<todo, due>>
Fails(c) == at'[c] = "idle" /\ due'[c] = {}
Rereads(c) ==
  /\ at[c] = "probe" /\ seen[c] = "live" /\ at'[c] = "reread" /\ UNCHANGED <<todo, due>>
Finds(c) ==
  /\ \/ at[c] = "probe" /\ seen[c] = "old"
     \/ at[c] = "reread" /\ doc[Current(c)] = "old"
  /\ at'[c] = "recheck" /\ UNCHANGED <<todo, due>>
Confirms(c) ==
  /\ at[c] = "recheck" /\ at'[c] = "reload" /\ ~Held(Current(c))
  /\ UNCHANGED <<todo, due>>
Reloads(c) ==
  /\ at[c] = "reload" /\ at'[c] = "delete" /\ UNCHANGED <<todo, due>>
MovesOn(c) ==
  /\ at[c] # "idle" /\ at'[c] \in {"idle", "read"}
  /\ todo'[c] = todo[c] \ {Current(c)}
  /\ due'[c] = due[c] \/ due'[c] = due[c] \ {Current(c)}
  /\ \/ at[c] = "probe" /\ seen[c] # "old"
     \/ ~executes[c]
     \/ at[c] = "reread"
     \/ due'[c] = due[c] \ {Current(c)}

Progress(c) ==
  \/ Begins(c) \/ Reads(c) \/ Fails(c) \/ Rereads(c) \/ Finds(c) \/ Confirms(c)
  \/ Reloads(c) \/ MovesOn(c)

LEMMA DecideProgress ==
  ASSUME TypeOK, NEW c \in Scanners, NEW state, NEW active \in BOOLEAN,
         Decide(c, state, active),
         \/ at[c] = "probe" /\ state = seen[c]
         \/ at[c] = "reread" /\ state = doc[Current(c)] /\ active = FALSE,
         due' = [due EXCEPT ![c] = IF active THEN @ \ {Current(c)} ELSE @]
  PROVE  ScanMoves(c) /\ Progress(c)
<1>1. /\ due' \in [Scanners -> SUBSET Runs]
      /\ \A d \in Scanners \ {c} : due'[d] \subseteq due[d]
      /\ due'[c] = IF active THEN due[c] \ {Current(c)} ELSE due[c]
      /\ ~active => due' = due
  BY DEF TypeOK
<1>2. CASE Eligible(c, state, active)
  <2>1. Goto(c, "recheck")
    BY <1>2 DEF Decide
  <2>2. ~active /\ state = "old" /\ executes[c]
    BY <1>2 DEF Eligible
  <2>3. ScanMoves(c) /\ at'[c] = "recheck" /\ todo' = todo
    BY <1>1, <2>1, GotoMoves DEF Places
  <2> QED
    BY <1>1, <2>2, <2>3 DEF Progress, Finds
<1>3. CASE ~Eligible(c, state, active)
  <2>1. NextRun(c)
    BY <1>3 DEF Decide
  <2>2. /\ ScanMoves(c) /\ at'[c] \in {"idle", "read"}
        /\ todo'[c] = todo[c] \ {Current(c)}
    BY <1>1, <2>1, NextRunMoves
  <2>3. active \/ state # "old" \/ ~executes[c]
    BY <1>3 DEF Eligible
  <2> QED
    BY <1>1, <2>2, <2>3 DEF Progress, MovesOn
<1> QED
  BY <1>2, <1>3

LEMMA ObserveProgress ==
  ASSUME TypeOK, NEW c \in Scanners, NEW active \in BOOLEAN,
         at[c] \in {"probe", "recheck"}, Observe(c, active),
         ~active => ~Held(Current(c))
  PROVE  ScanMoves(c) /\ Progress(c)
<1>1. CASE at[c] = "recheck" /\ active
  <2>1. Fail(c, "gc_live_run")
    BY <1>1 DEF Observe
  <2> QED
    BY <2>1, FailMoves DEF Answers, Progress, Fails
<1>2. CASE at[c] = "recheck" /\ ~active
  <2>1. Goto(c, "reload") /\ due' = due
    BY <1>2 DEF Observe
  <2>2. ScanMoves(c) /\ at'[c] = "reload" /\ todo' = todo
    BY <1>2, <2>1, GotoMoves DEF Places, TypeOK
  <2> QED
    BY <1>2, <2>1, <2>2 DEF Progress, Confirms
<1>3. CASE at[c] = "probe"
  <2>1. due' = [due EXCEPT ![c] = IF active THEN @ \ {Current(c)} ELSE @]
    BY <1>3 DEF Observe
  <2>2. CASE ~active /\ seen[c] = "live"
    <3>1. Goto(c, "reread") /\ due' = due
      BY <1>3, <2>1, <2>2 DEF Observe, TypeOK
    <3>2. ScanMoves(c) /\ at'[c] = "reread" /\ todo' = todo
      BY <1>3, <3>1, GotoMoves DEF Places, TypeOK
    <3> QED
      BY <1>3, <2>2, <3>1, <3>2 DEF Progress, Rereads
  <2>3. CASE ~(~active /\ seen[c] = "live")
    <3>1. Decide(c, seen[c], active)
      BY <1>3, <2>3 DEF Observe
    <3> QED
      BY <1>3, <2>1, <3>1, DecideProgress
  <2> QED
    BY <2>2, <2>3
<1> QED
  BY <1>1, <1>2, <1>3

(* Every step of a scan but one that deletes a file.                        *)
LEMMA ScanProgress ==
  ASSUME TypeOK, NEW c \in Scanners, ScanStep(c) \/ GcDies(c), ~DeleteFile(c)
  PROVE  /\ ScanMoves(c) /\ Progress(c) /\ UNCHANGED <<start, sup, locks, doc>>
         /\ ~RemoveDir(c) => UNCHANGED present /\ \A d \in Scanners \ {c} : due'[d] = due[d]
<1>1. CASE ListRunIds(c)
  <2>1. /\ at[c] = "idle"
        /\ due' = [due EXCEPT ![c] =
             IF executes[c] THEN {r \in present : doc[r] = "old" /\ ~Held(r)} ELSE {}]
        /\ UNCHANGED <<start, sup, locks, doc, present>>
    BY <1>1 DEF ListRunIds, runVars, rootVars
  <2>2. /\ due' \in [Scanners -> SUBSET Runs]
        /\ \A d \in Scanners \ {c} : due'[d] = due[d]
        /\ due'[c] \subseteq present
        /\ \A r \in due'[c] : executes[c] /\ doc[r] = "old" /\ ~Held(r)
    BY <2>1 DEF TypeOK
  <2>3. CASE present = {}
    <3>1. Finish(c, "ok")
      BY <1>1, <2>3 DEF ListRunIds
    <3>2. ScanMoves(c) /\ at'[c] = "idle" /\ todo'[c] = {}
      BY <2>2, <3>1, FinishMoves DEF Answers
    <3> QED
      BY <2>1, <2>2, <2>3, <3>2 DEF Progress, Begins
  <2>4. CASE present # {}
    <3>1. /\ at' = [at EXCEPT ![c] = "read"]
          /\ todo' = [todo EXCEPT ![c] = present]
          /\ result' = [result EXCEPT ![c] = "none"]
          /\ UNCHANGED seen
      BY <1>1, <2>4 DEF ListRunIds
    <3>2. /\ at' \in [Scanners -> Places] /\ todo' \in [Scanners -> SUBSET Runs]
          /\ seen' \in [Scanners -> Docs] /\ result' \in [Scanners -> Answers]
      BY <3>1 DEF TypeOK, Places, Answers
    <3>3. /\ at'[c] = "read" /\ todo'[c] = present
          /\ \A d \in Scanners \ {c} :
               at'[d] = at[d] /\ todo'[d] = todo[d] /\ seen'[d] = seen[d]
      BY <3>1 DEF TypeOK
    <3> QED
      BY <2>1, <2>2, <2>4, <3>2, <3>3 DEF ScanMoves, Progress, Begins
  <2> QED
    BY <2>3, <2>4
<1>2. CASE ReadState(c)
  <2>1. at[c] \in {"read", "reread"} /\ UNCHANGED <<start, sup, locks, doc, present>>
    BY <1>2 DEF ReadState, runVars, rootVars
  <2>2. CASE ~Readable(Current(c))
    <3>1. Fail(c, ReadError(Current(c)))
      BY <1>2, <2>2 DEF ReadState
    <3>2. ReadError(Current(c)) \in Answers
      BY DEF ReadError, Answers
    <3>3. due' = [due EXCEPT ![c] = {}]
      BY <3>1 DEF Fail
    <3>4. \A d \in Scanners \ {c} : due'[d] = due[d]
      BY <3>3 DEF TypeOK
    <3> QED
      BY <2>1, <3>1, <3>2, <3>4, FailMoves DEF Progress, Fails
  <2>3. CASE Readable(Current(c)) /\ at[c] = "reread"
    <3>1. Decide(c, doc[Current(c)], FALSE) /\ due' = due
      BY <1>2, <2>3 DEF ReadState
    <3>2. due' = [due EXCEPT ![c] = IF FALSE THEN @ \ {Current(c)} ELSE @]
      BY <3>1 DEF TypeOK
    <3>3. ScanMoves(c) /\ Progress(c)
      BY <2>3, <3>1, <3>2, DecideProgress
    <3> QED
      BY <2>1, <3>1, <3>3
  <2>4. CASE Readable(Current(c)) /\ at[c] = "read"
    <3>1. /\ seen' = [seen EXCEPT ![c] = doc[Current(c)]]
          /\ at' = [at EXCEPT ![c] = "probe"]
          /\ UNCHANGED <<todo, result, due>>
      BY <1>2, <2>4 DEF ReadState
    <3>2. Current(c) \in Runs /\ todo[c] # {}
      BY <2>4, CurrentType
    <3>3. doc[Current(c)] \in Docs
      BY <3>2 DEF TypeOK
    <3>4. /\ at' \in [Scanners -> Places] /\ todo' \in [Scanners -> SUBSET Runs]
          /\ seen' \in [Scanners -> Docs] /\ result' \in [Scanners -> Answers]
          /\ due' \in [Scanners -> SUBSET Runs]
      BY <3>1, <3>3 DEF TypeOK, Places, Answers
    <3>5. /\ at'[c] = "probe" /\ seen'[c] = doc[Current(c)]
          /\ \A d \in Scanners \ {c} : at'[d] = at[d] /\ seen'[d] = seen[d]
      BY <3>1 DEF TypeOK
    <3> QED
      BY <2>1, <2>4, <3>1, <3>2, <3>4, <3>5 DEF ScanMoves, Progress, Reads
  <2> QED
    BY <2>1, <2>2, <2>3, <2>4
<1>3. ASSUME NEW answer \in Answers, Fail(c, answer)
      PROVE  ScanMoves(c) /\ Progress(c) /\ \A d \in Scanners \ {c} : due'[d] = due[d]
  BY <1>3, FailMoves DEF Progress, Fails, Fail, TypeOK
<1>4. CASE ProbeFails(c)
  <2>1. (IF Current(c) \in present THEN "io" ELSE "not_found") \in Answers
    BY DEF Answers
  <2> QED
    BY <1>3, <1>4, <2>1 DEF ProbeFails, runVars, rootVars
<1>5. ASSUME NEW active \in BOOLEAN, at[c] \in {"probe", "recheck"}, Observe(c, active)
      PROVE  \A d \in Scanners \ {c} : due'[d] = due[d]
  BY <1>5 DEF Observe, Fail, TypeOK
<1>6. CASE ProbeDisturbed(c)
  <2>1. /\ at[c] \in {"probe", "recheck"} /\ Observe(c, TRUE)
        /\ UNCHANGED <<start, sup, locks, doc, present>>
    BY <1>6 DEF ProbeDisturbed, runVars, rootVars
  <2> QED
    BY <1>5, <2>1, ObserveProgress
<1>7. CASE \E r \in Runs : Probe(c, r)
  <2>1. /\ at[c] \in {"probe", "recheck"} /\ Observe(c, Held(Current(c)))
        /\ UNCHANGED <<start, sup, locks, doc, present>>
    BY <1>7 DEF Probe, runVars, rootVars
  <2>2. Held(Current(c)) \in BOOLEAN
    BY DEF Held
  <2> QED
    BY <1>5, <2>1, <2>2, ObserveProgress
<1>8. CASE ReloadState(c)
  <2>1. at[c] = "reload" /\ UNCHANGED <<start, sup, locks, doc, present>>
    BY <1>8 DEF ReloadState, runVars, rootVars
  <2>2. \/ Fail(c, ReadError(Current(c))) \/ Fail(c, "gc_live_run")
        \/ Goto(c, "delete") /\ due' = due
    BY <1>8 DEF ReloadState
  <2>3. ReadError(Current(c)) \in Answers /\ "gc_live_run" \in Answers
    BY DEF ReadError, Answers
  <2>4. CASE Goto(c, "delete") /\ due' = due
    <3>1. ScanMoves(c) /\ at'[c] = "delete" /\ todo' = todo
      BY <2>1, <2>4, GotoMoves DEF Places, TypeOK
    <3> QED
      BY <2>1, <2>4, <3>1 DEF Progress, Reloads
  <2> QED
    BY <1>3, <2>1, <2>2, <2>3, <2>4
<1>9. CASE RemoveDir(c)
  <2>1. /\ at[c] = "delete" /\ NextRun(c)
        /\ due' = [d \in Scanners |-> due[d] \ {Current(c)}]
        /\ UNCHANGED <<start, sup, locks, doc>>
    BY <1>9 DEF RemoveDir, runVars
  <2>2. /\ due' \in [Scanners -> SUBSET Runs]
        /\ \A d \in Scanners \ {c} : due'[d] \subseteq due[d]
        /\ due'[c] = due[c] \ {Current(c)}
    BY <2>1 DEF TypeOK
  <2>3. /\ ScanMoves(c) /\ at'[c] \in {"idle", "read"}
        /\ todo'[c] = todo[c] \ {Current(c)}
    BY <2>1, <2>2, NextRunMoves
  <2> QED
    BY <1>9, <2>1, <2>2, <2>3 DEF Progress, MovesOn
<1>10. CASE DeleteOvertaken(c) \/ GcDies(c)
  BY <1>3, <1>10 DEF DeleteOvertaken, GcDies, runVars, rootVars, Answers
<1> QED
  BY <1>1, <1>2, <1>4, <1>6, <1>7, <1>8, <1>9, <1>10 DEF ScanStep

-----------------------------------------------------------------------------
(* Types. *)

ScanTypes ==
  /\ at \in [Scanners -> Places] /\ todo \in [Scanners -> SUBSET Runs]
  /\ seen \in [Scanners -> Docs] /\ due \in [Scanners -> SUBSET Runs]
  /\ result \in [Scanners -> Answers]
  /\ \A c \in Scanners : todo[c] = {} <=> at[c] = "idle"
StartTypes ==
  /\ executes \in [Scanners -> BOOLEAN] /\ abandoned \in BOOLEAN
  /\ start \in [Runs -> {"idle", "dir", "lock", "state", "written", "over"}]
  /\ sup \in [Runs -> {"none", "launched", "active", "settled", "gone"}]
RootTypes ==
  /\ present \subseteq Runs /\ locks \subseteq present
  /\ doc \in [Runs -> Docs]
  /\ \A r \in Runs \ present : doc[r] = "none"

LEMMA TypeParts == TypeOK <=> ScanTypes /\ StartTypes /\ RootTypes
BY DEF TypeOK, ScanTypes, StartTypes, RootTypes, Places, Answers

(* A step of a start, a supervisor or the clock. *)
RunSide(r) == StartStep(r) \/ RunStep(r) \/ RunFault(r)

LEMMA RunSideTypes ==
  ASSUME TypeOK, RunInv, NEW r \in Runs, RunSide(r), UNCHANGED executes
  PROVE  TypeOK'
<1>1. ScanTypes /\ StartTypes /\ RootTypes
  BY TypeParts
<1>2. UNCHANGED scanVars
  BY DEF RunSide, StartStep, CreateDir, CreateLock, CreateState, FillState, Launch,
     RunStep, TakeLock, RecordEnd, GiveUpLock, Supervised, GrowOld,
     RunFault, LaunchFails, StartDies, SupervisorDies
<1>3. ScanTypes'
  BY <1>1, <1>2 DEF ScanTypes, scanVars
<1>4. StartTypes'
  BY <1>1 DEF StartTypes, RunSide, StartStep, CreateDir, CreateLock, CreateState,
     FillState, Launch, Started, RunStep, TakeLock, RecordEnd, GiveUpLock, Supervised,
     GrowOld, RunFault, LaunchFails, StartDies, SupervisorDies, runVars
<1>5. RootTypes'
  <2>1. CASE CreateDir(r)
    BY <1>1, <2>1 DEF RootTypes, CreateDir
  <2>2. CASE CreateLock(r) \/ CreateState(r) \/ FillState(r)
    <3>1. r \in present
      BY <2>2 DEF RunInv, CreateLock, CreateState, FillState, Started
    <3> QED
      BY <1>1, <2>2, <3>1 DEF RootTypes, CreateLock, CreateState, FillState, Docs
  <2>3. CASE Launch(r) \/ TakeLock(r) \/ GiveUpLock(r) \/ StartDies(r) \/ SupervisorDies(r)
    BY <1>1, <2>3 DEF RootTypes, Launch, TakeLock, GiveUpLock, Supervised, StartDies,
       SupervisorDies, rootVars
  <2>4. CASE RecordEnd(r) \/ GrowOld(r) \/ LaunchFails(r)
    <3>1. /\ doc' = doc \/ \E d \in Docs : doc' = [doc EXCEPT ![r] = d]
          /\ UNCHANGED <<present, locks>>
      BY <2>4 DEF RecordEnd, Supervised, GrowOld, LaunchFails, Docs
    <3>2. CASE r \in present
      BY <1>1, <3>1, <3>2 DEF RootTypes
    <3>3. CASE r \notin present
      <4>1. /\ doc[r] = "none" /\ start[r] \notin {"dir", "lock", "state", "written"}
            /\ sup[r] \notin {"launched", "active"}
        BY <1>1, <3>3 DEF RootTypes, RunInv
      <4> QED
        BY <2>4, <4>1 DEF RecordEnd, Supervised, GrowOld, LaunchFails, Started
    <3> QED
      BY <3>2, <3>3
  <2> QED
    BY <2>1, <2>2, <2>3, <2>4 DEF RunSide, StartStep, RunStep, RunFault
<1> QED
  BY <1>3, <1>4, <1>5 DEF TypeOK, ScanTypes, StartTypes, RootTypes, Places, Answers

LEMMA ScanSideTypes ==
  ASSUME TypeOK, ScanInv, NEW c \in Scanners, ScanStep(c) \/ GcDies(c),
         UNCHANGED executes
  PROVE  TypeOK'
<1>1. ScanTypes /\ StartTypes /\ RootTypes
  BY TypeParts
<1>2. CASE DeleteFile(c)
  <2>1. Current(c) \in Runs
    BY <1>2, CurrentType DEF DeleteFile
  <2>2. UNCHANGED <<start, sup, abandoned, present, scanVars>>
    BY <1>2 DEF DeleteFile, runVars
  <2>3. ScanTypes' /\ StartTypes'
    BY <1>1, <2>2 DEF ScanTypes, StartTypes, scanVars
  <2>4. RootTypes'
    BY <1>1, <1>2, <2>1 DEF RootTypes, DeleteFile, Docs
  <2> QED
    BY <2>3, <2>4 DEF TypeOK, ScanTypes, StartTypes, RootTypes, Places, Answers
<1>3. CASE ~DeleteFile(c)
  <2>1. ScanMoves(c) /\ UNCHANGED <<start, sup, locks, doc>>
    BY <1>3, ScanProgress
  <2>2. ScanTypes'
    BY <1>1, <2>1 DEF ScanTypes, ScanMoves
  <2>3. abandoned' \in BOOLEAN
    BY <1>1 DEF StartTypes, ScanStep, ListRunIds, ReadState, ProbeFails, ProbeDisturbed,
       Probe, ReloadState, DeleteFile, RemoveDir, DeleteOvertaken, GcDies
  <2>4. StartTypes'
    BY <1>1, <2>1, <2>3 DEF StartTypes
  <2>5. CASE RemoveDir(c)
    <3>1. /\ present' = present \ {Current(c)} /\ Current(c) \notin locks
          /\ doc[Current(c)] = "none"
      BY <2>5 DEF RemoveDir
    <3>2. RootTypes'
      BY <1>1, <2>1, <3>1 DEF RootTypes
    <3> QED
      BY <2>2, <2>4, <3>2
      DEF TypeOK, ScanTypes, StartTypes, RootTypes, Places, Answers
  <2>6. CASE ~RemoveDir(c)
    <3>1. UNCHANGED present
      BY <1>3, <2>6, ScanProgress
    <3>2. RootTypes'
      BY <1>1, <2>1, <3>1 DEF RootTypes
    <3> QED
      BY <2>2, <2>4, <3>2
      DEF TypeOK, ScanTypes, StartTypes, RootTypes, Places, Answers
  <2> QED
    BY <2>5, <2>6
<1> QED
  BY <1>2, <1>3

LEMMA NextType == TypeOK /\ StoreInv /\ [Next]_vars => TypeOK'
<1> SUFFICES ASSUME TypeOK, StoreInv, [Next]_vars PROVE TypeOK'
  OBVIOUS
<1>1. CASE UNCHANGED vars
  BY <1>1 DEF TypeOK, vars, changing, runVars, rootVars, scanVars
<1>2. CASE Next
  BY <1>2, RunSideTypes, ScanSideTypes DEF Next, RunSide, StoreInv
<1> QED
  BY <1>1, <1>2

-----------------------------------------------------------------------------
(* The parts of StoreInv. *)

(* Nobody goes back to a run whose end is on record.                        *)
LEMMA RunSideKeepsRunInv ==
  ASSUME TypeOK, RunInv, NEW r \in Runs, RunSide(r)
  PROVE  /\ RunInv'
         /\ \A s \in Runs : Past(s) => Past(s)' /\ (~Held(s) => ~Held(s)')
<1>1. \A s \in Runs \ {r} : start'[s] = start[s] /\ sup'[s] = sup[s] /\ doc'[s] = doc[s]
  BY DEF TypeOK, RunSide, StartStep, CreateDir, CreateLock, CreateState,
     FillState, Launch, Started, RunStep, TakeLock, RecordEnd, GiveUpLock, Supervised,
     GrowOld, RunFault, LaunchFails, StartDies, SupervisorDies, runVars, rootVars
<1>2. present \subseteq present'
  BY DEF RunSide, StartStep, CreateDir, CreateLock, CreateState,
     FillState, Launch, RunStep, TakeLock, RecordEnd, GiveUpLock, Supervised,
     GrowOld, RunFault, LaunchFails, StartDies, SupervisorDies, rootVars
<1> DEFINE Inv(s) ==
      /\ start[s] \in {"dir", "lock", "state", "written"}
         \/ sup[s] \in {"launched", "active"} => s \in present
      /\ start[s] # "over" => sup[s] = "none"
      /\ doc[s] \in Ended => start[s] = "over" /\ sup[s] \in {"none", "settled", "gone"}
<1>3. Inv(r)
  BY DEF RunInv
<1>4. Inv(r)' /\ (Past(r) => Past(r)' /\ (~Held(r) => ~Held(r)'))
  <2>1. CASE CreateDir(r) \/ CreateLock(r)
    BY <1>3, <2>1 DEF TypeOK, CreateDir, CreateLock, Started, Past, Held, Ended
  <2>2. CASE CreateState(r) \/ FillState(r)
    BY <1>3, <2>2 DEF TypeOK, CreateState, FillState, Started, Past, Held, Ended
  <2>3. CASE Launch(r)
    BY <1>3, <2>3 DEF TypeOK, Launch, Started, Past, Held, Ended, rootVars
  <2>4. CASE TakeLock(r)
    BY <1>3, <2>4 DEF TypeOK, TakeLock, Supervised, Past, Held, Ended
  <2>5. CASE RecordEnd(r)
    BY <1>3, <2>5 DEF TypeOK, RecordEnd, Supervised, Past, Held, Ended
  <2>6. CASE GiveUpLock(r)
    BY <1>3, <2>6 DEF TypeOK, GiveUpLock, Supervised, Past, Held, Ended
  <2>7. CASE GrowOld(r)
    BY <1>3, <2>7 DEF TypeOK, GrowOld, Past, Held, Ended, runVars
  <2>8. CASE LaunchFails(r)
    BY <1>3, <2>8 DEF TypeOK, LaunchFails, Started, Past, Held, Ended
  <2>9. CASE StartDies(r) \/ SupervisorDies(r)
    BY <1>3, <2>9 DEF TypeOK, StartDies, SupervisorDies, Past, Held, Ended, rootVars
  <2> QED
    BY <2>1, <2>2, <2>3, <2>4, <2>5, <2>6, <2>7, <2>8, <2>9
    DEF RunSide, StartStep, RunStep, RunFault
<1>5. \A s \in Runs \ {r} : Inv(s)' /\ (Past(s) => Past(s)' /\ (~Held(s) => ~Held(s)'))
  BY <1>1, <1>2 DEF RunInv, Past, Held
<1> HIDE DEF Inv
<1>6. \A s \in Runs : Inv(s)' /\ (Past(s) => Past(s)' /\ (~Held(s) => ~Held(s)'))
  BY <1>4, <1>5
<1> QED
  BY <1>6 DEF RunInv, Inv

(* Of a run that is past, files and directory may go.                       *)
LEMMA ScanSideKeepsRunInv ==
  ASSUME TypeOK, RunInv, ScanInv, NEW c \in Scanners, ScanStep(c) \/ GcDies(c)
  PROVE  /\ RunInv'
         /\ \A s \in Runs : Past(s) => Past(s)' /\ (~Held(s) => ~Held(s)')
<1>1. CASE DeleteFile(c)
  <2>1. Current(c) \in Runs
    BY <1>1, CurrentType DEF DeleteFile
  <2>2. /\ UNCHANGED <<start, sup, present>>
        /\ doc' = doc \/ doc' = [doc EXCEPT ![Current(c)] = "none"]
    BY <1>1 DEF DeleteFile, runVars
  <2>3. \A s \in Runs : doc'[s] = doc[s] \/ doc'[s] = "none"
    BY <2>2 DEF TypeOK
  <2> QED
    BY <2>2, <2>3 DEF RunInv, Past, Held, Ended
<1>2. CASE RemoveDir(c)
  <2>1. Past(Current(c)) /\ present' = present \ {Current(c)}
    BY <1>2 DEF RemoveDir, ScanInv
  <2>2. UNCHANGED <<start, sup, doc>>
    BY <1>2 DEF RemoveDir, runVars
  <2> QED
    BY <2>1, <2>2 DEF RunInv, Past, Held
<1>3. CASE ~DeleteFile(c) /\ ~RemoveDir(c)
  <2>1. UNCHANGED <<start, sup, doc, present>>
    BY <1>3, ScanProgress
  <2> QED
    BY <2>1 DEF RunInv, Past, Held
<1> QED
  BY <1>1, <1>2, <1>3

(* A scan that does not move is not put wrong by the others.                *)
LEMMA StandingScan ==
  ASSUME TypeOK, ScanInv, DueInv, NEW c \in Scanners, UNCHANGED executes,
         at'[c] = at[c], todo'[c] = todo[c], seen'[c] = seen[c], due'[c] \subseteq due[c],
         \A s \in Runs : Past(s) => Past(s)' /\ (~Held(s) => ~Held(s)')
  PROVE  /\ at'[c] = "probe" /\ seen'[c] = "old" => Past(Current(c))'
         /\ at'[c] \in {"recheck", "reload", "delete"} => Past(Current(c))'
         /\ at'[c] \in {"reload", "delete"} => ~Held(Current(c))'
         /\ due'[c] \subseteq todo'[c]
         /\ \A r \in due'[c] : executes'[c] /\ Past(r)' /\ ~Held(r)'
         /\ at'[c] # "idle" /\ Current(c)' \in due'[c] =>
              at'[c] # "reread" /\ (at'[c] = "probe" => seen'[c] = "old")
<1>1. Current(c)' = Current(c)
  BY DEF Current
<1>2. at[c] # "idle" => Current(c) \in Runs
  BY CurrentType
<1>3. due[c] \subseteq Runs
  BY DEF TypeOK
<1>4. ASSUME at[c] # "idle", Past(Current(c))
      PROVE  Past(Current(c))' /\ (~Held(Current(c)) => ~Held(Current(c))')
  BY <1>1, <1>2, <1>4 DEF Past, Held
<1>5. \A r \in due'[c] : executes'[c] /\ Past(r)' /\ ~Held(r)'
  BY <1>3 DEF DueInv
<1> QED
  BY <1>1, <1>4, <1>5 DEF ScanInv, DueInv

(* What is true of one scan in ScanInv and DueInv. *)
Sound(c) ==
  /\ at[c] = "probe" /\ seen[c] = "old" => Past(Current(c))
  /\ at[c] \in {"recheck", "reload", "delete"} => Past(Current(c))
  /\ at[c] \in {"reload", "delete"} => ~Held(Current(c))
  /\ due[c] \subseteq todo[c]
  /\ \A r \in due[c] : executes[c] /\ Past(r) /\ ~Held(r)
  /\ at[c] # "idle" /\ Current(c) \in due[c] =>
       at[c] # "reread" /\ (at[c] = "probe" => seen[c] = "old")

LEMMA SoundParts == (ScanInv /\ DueInv) <=> \A c \in Scanners : Sound(c)
BY DEF ScanInv, DueInv, Sound

(* The scan that moves knows what it is doing.                              *)
LEMMA MovingScan ==
  ASSUME TypeOK, StoreInv, NEW c \in Scanners, Progress(c), ScanMoves(c),
         UNCHANGED <<executes, start, sup, doc>>
  PROVE  Sound(c)'
<1>1. Sound(c)
  BY SoundParts DEF StoreInv
<1>2. \A r : (Past(r)' <=> Past(r)) /\ (Held(r)' <=> Held(r))
  BY DEF Past, Held
<1>3. at[c] # "idle" => Current(c) \in todo[c] /\ Current(c) \in Runs
  BY CurrentType
<1>4. todo'[c] = todo[c] => Current(c)' = Current(c)
  BY DEF Current
<1>5. \A r \in Runs : doc[r] = "old" => Past(r)
  BY DEF StoreInv, RunInv, Ended, Past
<1>6. due[c] \subseteq Runs /\ due'[c] \subseteq Runs
  BY DEF TypeOK, ScanMoves
<1>7. Past(Current(c))' <=> Past(Current(c)')
  BY <1>2 DEF Past
<1>8. Held(Current(c))' <=> Held(Current(c)')
  BY <1>2 DEF Held
<1>9. CASE Begins(c)
  <2>1. \A r \in due'[c] : executes[c] /\ Past(r) /\ ~Held(r)
    BY <1>5, <1>6, <1>9 DEF Begins
  <2> QED
    BY <1>2, <1>9, <2>1 DEF Begins, Sound
<1>10. CASE Reads(c)
  <2>1. doc[Current(c)] = "old" => Past(Current(c))
    BY <1>3, <1>5, <1>10 DEF Reads
  <2>2. Current(c) \in due[c] => doc[Current(c)] = "old"
    BY <1>1, <1>10 DEF Reads, Readable, Sound, Past
  <2> QED
    BY <1>1, <1>2, <1>4, <1>7, <1>10, <2>1, <2>2 DEF Reads, Sound
<1>11. CASE Fails(c)
  BY <1>11 DEF Fails, Sound
<1>12. CASE Rereads(c)
  BY <1>1, <1>2, <1>4, <1>12 DEF Rereads, Sound
<1>13. CASE Finds(c)
  <2>1. Past(Current(c))
    BY <1>1, <1>3, <1>5, <1>13 DEF Finds, Sound
  <2> QED
    BY <1>1, <1>2, <1>4, <1>7, <1>13, <2>1 DEF Finds, Sound
<1>14. CASE Confirms(c)
  BY <1>1, <1>2, <1>4, <1>7, <1>8, <1>14 DEF Confirms, Sound
<1>15. CASE Reloads(c)
  BY <1>1, <1>2, <1>4, <1>7, <1>8, <1>15 DEF Reloads, Sound
<1>16. CASE MovesOn(c)
  <2>1. Current(c) \notin due'[c]
    BY <1>1, <1>16 DEF MovesOn, Sound
  <2>2. due'[c] \subseteq todo'[c] /\ due'[c] \subseteq due[c]
    BY <1>1, <1>16, <2>1 DEF MovesOn, Sound
  <2> QED
    BY <1>1, <1>2, <1>16, <2>2 DEF MovesOn, Sound
<1> QED
  BY <1>9, <1>10, <1>11, <1>12, <1>13, <1>14, <1>15, <1>16 DEF Progress

LEMMA NextStoreInv == TypeOK /\ StoreInv /\ [Next]_vars => StoreInv'
<1> SUFFICES ASSUME TypeOK, StoreInv, [Next]_vars PROVE StoreInv'
  OBVIOUS
<1>1. RunInv /\ ScanInv /\ DueInv
  BY DEF StoreInv
<1>2. ASSUME UNCHANGED executes, NEW c \in Scanners,
             at'[c] = at[c], todo'[c] = todo[c], seen'[c] = seen[c],
             due'[c] \subseteq due[c],
             \A s \in Runs : Past(s) => Past(s)' /\ (~Held(s) => ~Held(s)')
      PROVE  Sound(c)'
  BY <1>1, <1>2, StandingScan DEF Sound
<1>3. CASE UNCHANGED vars
  BY <1>3 DEF vars, changing, runVars, rootVars, scanVars, StoreInv, RunInv, ScanInv,
     DueInv, Past, Held, Current
<1>4. CASE UNCHANGED executes /\ \E r \in Runs : RunSide(r)
  <2>1. /\ RunInv'
        /\ \A s \in Runs : Past(s) => Past(s)' /\ (~Held(s) => ~Held(s)')
    BY <1>1, <1>4, RunSideKeepsRunInv
  <2>2. UNCHANGED scanVars
    BY <1>4 DEF RunSide, StartStep, CreateDir, CreateLock, CreateState, FillState, Launch,
       RunStep, TakeLock, RecordEnd, GiveUpLock, Supervised, GrowOld,
       RunFault, LaunchFails, StartDies, SupervisorDies
  <2>3. \A c \in Scanners : Sound(c)'
    BY <1>2, <1>4, <2>1, <2>2 DEF scanVars
  <2> QED
    BY <2>1, <2>3 DEF StoreInv, ScanInv, DueInv, Sound
<1>5. ASSUME UNCHANGED executes, NEW c \in Scanners, ScanStep(c) \/ GcDies(c)
      PROVE  StoreInv'
  <2>1. /\ RunInv'
        /\ \A s \in Runs : Past(s) => Past(s)' /\ (~Held(s) => ~Held(s)')
    BY <1>1, <1>5, ScanSideKeepsRunInv
  <2>2. CASE DeleteFile(c)
    <3>1. UNCHANGED scanVars
      BY <2>2 DEF DeleteFile
    <3>2. \A d \in Scanners : Sound(d)'
      BY <1>2, <1>5, <2>1, <3>1 DEF scanVars
    <3> QED
      BY <2>1, <3>2 DEF StoreInv, ScanInv, DueInv, Sound
  <2>3. CASE ~DeleteFile(c)
    <3>1. ScanMoves(c) /\ Progress(c) /\ UNCHANGED <<start, sup, doc>>
      BY <1>5, <2>3, ScanProgress
    <3>2. Sound(c)'
      BY <1>5, <3>1, MovingScan
    <3>3. \A d \in Scanners \ {c} : Sound(d)'
      BY <1>2, <1>5, <2>1, <3>1 DEF ScanMoves
    <3>4. \A d \in Scanners : Sound(d)'
      BY <3>2, <3>3
    <3> QED
      BY <2>1, <3>4 DEF StoreInv, ScanInv, DueInv, Sound
  <2> QED
    BY <2>2, <2>3
<1> QED
  BY <1>3, <1>4, <1>5 DEF Next, RunSide

LEMMA InitStoreInv == Init => StoreInv
BY DEF Init, StoreInv, RunInv, ScanInv, DueInv, Ended

-----------------------------------------------------------------------------
(* The state root is well formed: a lock or a document only in a directory. *)
THEOREM StoreTypeCorrect == SafeSpec => []TypeOK
<1>1. Init => TypeOK /\ StoreInv
  BY InitType, InitStoreInv
<1> QED
  BY <1>1, NextType, NextStoreInv, PTL DEF SafeSpec

(* What a start, a supervisor and a scan take for granted at each point.    *)
THEOREM StoreCorrect == SafeSpec => [](TypeOK /\ StoreInv)
<1>1. Init => TypeOK /\ StoreInv
  BY InitType, InitStoreInv
<1> QED
  BY <1>1, NextType, NextStoreInv, PTL DEF SafeSpec

(* Store::remove_terminal_run deletes nothing of a run that is being        *)
(* started, is supervised, or has not ended long enough ago, whatever other *)
(* commands and supervisors do between its checks and its deletions.        *)
THEOREM OnlyOldRunsDeleted == SafeSpec => DeletesOnlyOldRuns
<1> DEFINE Safe ==
      \A r \in Runs :
        r \in locks \ locks' \/ (doc[r] # "none" /\ doc'[r] = "none") =>
          /\ start[r] = "over" /\ sup[r] \in {"none", "gone"}
          /\ doc[r] \in {"old", "none"}
<1>1. TypeOK /\ StoreInv /\ [Next]_vars => Safe
  <2> SUFFICES ASSUME TypeOK, StoreInv, [Next]_vars PROVE Safe
    OBVIOUS
  <2>1. CASE UNCHANGED vars
    BY <2>1 DEF vars, changing, rootVars
  <2>2. ASSUME NEW r \in Runs, RunSide(r) PROVE Safe
    BY <2>2 DEF TypeOK, Docs, RunSide, StartStep, CreateDir, CreateLock, CreateState,
       FillState, Launch, RunStep, TakeLock, RecordEnd, GiveUpLock, Supervised,
       GrowOld, RunFault, LaunchFails, StartDies, SupervisorDies, rootVars
  <2>3. ASSUME NEW c \in Scanners, DeleteFile(c) PROVE Safe
    <3>1. Current(c) \in Runs
      BY <2>3, CurrentType DEF DeleteFile
    <3>2. \A r \in Runs \ {Current(c)} : r \notin locks \ locks' /\ doc'[r] = doc[r]
      BY <2>3 DEF DeleteFile, TypeOK
    <3>3. Past(Current(c)) /\ ~Held(Current(c))
      BY <2>3 DEF DeleteFile, StoreInv, ScanInv
    <3> QED
      BY <3>2, <3>3 DEF Past, Held
  <2>4. ASSUME NEW c \in Scanners, ScanStep(c) \/ GcDies(c), ~DeleteFile(c) PROVE Safe
    <3>1. UNCHANGED <<locks, doc>>
      BY <2>4, ScanProgress
    <3> QED
      BY <3>1
  <2> QED
    BY <2>1, <2>2, <2>3, <2>4 DEF Next, RunSide
<1> QED
  BY <1>1, StoreCorrect, PTL DEF SafeSpec, DeletesOnlyOldRuns

(* gc passes over no run that was due when it began, unless another command *)
(* was probing that run's lock when gc did.                                 *)
THEOREM ThoroughGc == SafeSpec => []GcIsThorough
<1>1. TypeOK /\ StoreInv => GcIsThorough
  BY DEF TypeOK, StoreInv, DueInv, GcIsThorough
<1> QED
  BY <1>1, StoreCorrect, PTL

-----------------------------------------------------------------------------
(* Every run keeps to RunContract. *)

(* While a supervisor is on its way or at work, its run has a document, and *)
(* that is live until the end is on record.                                 *)
LiveInv ==
  \A r \in Runs :
    /\ start[r] = "written" \/ sup[r] \in {"launched", "active"} => doc[r] = "live"
    /\ sup[r] = "settled" => doc[r] \in Ended

LEMMA RunSideKeepsLiveInv ==
  ASSUME TypeOK, RunInv, LiveInv, NEW r \in Runs, RunSide(r)
  PROVE  LiveInv' /\ [Contract(r)!Next]_(Contract(r)!vars)
<1> DEFINE Live(s) ==
      /\ start[s] = "written" \/ sup[s] \in {"launched", "active"} => doc[s] = "live"
      /\ sup[s] = "settled" => doc[s] \in Ended
<1>1. \A s \in Runs \ {r} : start'[s] = start[s] /\ sup'[s] = sup[s] /\ doc'[s] = doc[s]
  BY DEF TypeOK, RunSide, StartStep, CreateDir, CreateLock, CreateState,
     FillState, Launch, Started, RunStep, TakeLock, RecordEnd, GiveUpLock, Supervised,
     GrowOld, RunFault, LaunchFails, StartDies, SupervisorDies, runVars, rootVars
<1>2. /\ Live(r)
      /\ start[r] # "over" => sup[r] = "none"
      /\ doc[r] \in Ended => start[r] = "over" /\ sup[r] \in {"none", "settled", "gone"}
  BY DEF LiveInv, RunInv
<1>3. Live(r)' /\ [Contract(r)!Next]_(Contract(r)!vars)
  <2> USE DEF Status, Phase, Held, Ended
  <2>1. CASE CreateDir(r) \/ CreateLock(r) \/ CreateState(r) \/ FillState(r)
    BY <1>2, <2>1 DEF TypeOK, CreateDir, CreateLock, CreateState, FillState, Started,
       Contract!vars
  <2>2. CASE Launch(r)
    BY <1>2, <2>2 DEF TypeOK, Launch, Started, rootVars, Contract!vars
  <2>3. CASE TakeLock(r)
    BY <1>2, <2>3 DEF TypeOK, TakeLock, Supervised, Contract!Next, Contract!TakeLock
  <2>4. CASE RecordEnd(r)
    BY <1>2, <2>4 DEF TypeOK, RecordEnd, Supervised, Contract!Next, Contract!Finish,
       Contract!Endings, Contract!LiveStatuses
  <2>5. CASE GiveUpLock(r)
    BY <1>2, <2>5 DEF TypeOK, GiveUpLock, Supervised, Contract!Next, Contract!GiveUpLock
  <2>6. CASE GrowOld(r)
    BY <1>2, <2>6 DEF TypeOK, GrowOld, runVars, Contract!vars
  <2>7. CASE LaunchFails(r)
    BY <1>2, <2>7 DEF TypeOK, LaunchFails, Started, Contract!Next, Contract!NeverStarts
  <2>8. CASE StartDies(r)
    BY <1>2, <2>8 DEF TypeOK, StartDies, rootVars, Contract!Next, Contract!NeverStarts
  <2>9. CASE SupervisorDies(r)
    BY <1>2, <2>9 DEF TypeOK, SupervisorDies, rootVars, Contract!Next,
       Contract!NeverStarts, Contract!GiveUpLock
  <2> QED
    BY <2>1, <2>2, <2>3, <2>4, <2>5, <2>6, <2>7, <2>8, <2>9
    DEF RunSide, StartStep, RunStep, RunFault
<1>4. \A s \in Runs \ {r} : Live(s)'
  BY <1>1 DEF LiveInv
<1> HIDE DEF Live
<1>5. \A s \in Runs : Live(s)'
  BY <1>3, <1>4
<1> QED
  BY <1>3, <1>5 DEF LiveInv, Live

(* To the run itself its deletion is no event.                              *)
LEMMA ScanSideKeepsLiveInv ==
  ASSUME TypeOK, ScanInv, LiveInv, NEW c \in Scanners, ScanStep(c) \/ GcDies(c)
  PROVE  LiveInv' /\ \A r \in Runs : UNCHANGED Contract(r)!vars
<1>1. CASE DeleteFile(c)
  <2>1. Current(c) \in Runs
    BY <1>1, CurrentType DEF DeleteFile
  <2>2. Past(Current(c)) /\ ~Held(Current(c))
    BY <1>1 DEF DeleteFile, ScanInv
  <2>3. /\ UNCHANGED <<start, sup>>
        /\ doc' = doc \/ doc' = [doc EXCEPT ![Current(c)] = "none"]
    BY <1>1 DEF DeleteFile, runVars
  <2>4. \A r \in Runs : doc'[r] = doc[r] \/ (r = Current(c) /\ doc'[r] = "none")
    BY <2>3 DEF TypeOK
  <2>5. LiveInv'
    BY <2>2, <2>3, <2>4 DEF LiveInv, Past, Held
  <2>6. \A r \in Runs : Status(r)' = Status(r) /\ Phase(r)' = Phase(r)
    BY <2>2, <2>3, <2>4 DEF Status, Phase, Past, Held, Ended
  <2> QED
    BY <2>5, <2>6 DEF Contract!vars
<1>2. CASE ~DeleteFile(c)
  <2>1. UNCHANGED <<start, sup, doc>>
    BY <1>2, ScanProgress
  <2> QED
    BY <2>1 DEF LiveInv, Status, Phase, Held, Contract!vars
<1> QED
  BY <1>1, <1>2

LEMMA ContractStep ==
  ASSUME TypeOK, StoreInv, LiveInv, [Next]_vars, NEW r \in Runs
  PROVE  LiveInv' /\ [Contract(r)!Next]_(Contract(r)!vars)
<1>1. CASE UNCHANGED vars
  BY <1>1 DEF vars, changing, runVars, rootVars, LiveInv, Status, Phase, Held,
     Contract!vars
<1>2. ASSUME NEW s \in Runs, RunSide(s)
      PROVE  LiveInv' /\ [Contract(r)!Next]_(Contract(r)!vars)
  <2>1. LiveInv' /\ [Contract(s)!Next]_(Contract(s)!vars)
    BY <1>2, RunSideKeepsLiveInv DEF StoreInv
  <2>2. CASE s # r
    <3>1. start'[r] = start[r] /\ sup'[r] = sup[r] /\ doc'[r] = doc[r]
      BY <1>2, <2>2 DEF TypeOK, RunSide, StartStep, CreateDir, CreateLock, CreateState,
         FillState, Launch, Started, RunStep, TakeLock, RecordEnd, GiveUpLock,
         Supervised, GrowOld, RunFault, LaunchFails, StartDies, SupervisorDies,
         runVars, rootVars
    <3> QED
      BY <2>1, <3>1 DEF Status, Phase, Held, Contract!vars
  <2> QED
    BY <2>1, <2>2
<1>3. ASSUME NEW c \in Scanners, ScanStep(c) \/ GcDies(c)
      PROVE  LiveInv' /\ [Contract(r)!Next]_(Contract(r)!vars)
  BY <1>3, ScanSideKeepsLiveInv DEF StoreInv
<1> QED
  BY <1>1, <1>2, <1>3 DEF Next, RunSide

(* No start, scan or deletion, in whatever order, shows a run in a state    *)
(* that its supervisor's protocol does not have: gc deletes only what is    *)
(* terminal and given up, start fails a run only before it is supervised.   *)
THEOREM StoreKeepsContracts == SafeSpec => RunsKeepContract
<1>1. Init => LiveInv
  BY DEF Init, LiveInv
<1>2. ASSUME NEW r \in Runs PROVE SafeSpec => Contract(r)!Spec
  <2>1. Init => Contract(r)!Init
    BY DEF Init, Contract!Init, Status, Phase, Ended, Held
  <2>2. TypeOK /\ StoreInv /\ LiveInv /\ [Next]_vars
          => LiveInv' /\ [Contract(r)!Next]_(Contract(r)!vars)
    BY ContractStep
  <2> QED
    BY <1>1, <2>1, <2>2, StoreCorrect, PTL DEF SafeSpec, Contract!Spec
<1> QED
  BY <1>2 DEF RunsKeepContract
=============================================================================
