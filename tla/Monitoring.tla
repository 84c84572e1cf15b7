----------------------------- MODULE Monitoring -----------------------------
(***************************************************************************)
(* The supervisor's loop with both things that it does for the child's     *)
(* output: it records it (LogCapture.tla) and looks for readiness in it    *)
(* (Readiness.tla).  What has been decided about readiness reaches others  *)
(* with the next state.json only.                                          *)
(***************************************************************************)
EXTENDS LogCapture

CONSTANT CheckLists  \* the readiness checks that a run may have

Literals == UNION {{l[i] : i \in DOMAIN l} : l \in CheckLists}
LiteralBytes == UNION {{t[i] : i \in DOMAIN t} : t \in Literals}

ASSUME MonitoringAssumption ==
  CheckLists \subseteq Seq(Literals) /\ Literals \subseteq Seq(LiteralBytes)

VARIABLES
  checks, met, verdict, tail, nextProbe, overdue, serving,
  published   \* the readiness in state.json

R == INSTANCE Readiness

readinessVars == <<checks, met, verdict, tail, nextProbe, overdue, serving>>
vars == <<logVars, readinessVars, published>>

TypeOK ==
  /\ LogTypeOK
  /\ R!ReadinessTypeOK
  /\ published.met \subseteq met
  /\ published.verdict \in {verdict, "pending"}

Init ==
  /\ LogInit
  /\ R!ReadinessInit
  /\ published = [met |-> met, verdict |-> verdict]

Publish == published' = [met |-> met', verdict |-> verdict']

-----------------------------------------------------------------------------
(* Seeded fault: readiness sees the chunk before the budget cuts it. *)
RecordChunk_Uncut ==
  /\ BeginRecord
  /\ R!ObserveLog(Head(channel).stream, Head(channel).bytes)
  /\ UNCHANGED published

(* record_chunk: only the bytes that will be retained are looked at. *)
RecordChunk ==
  /\ BeginRecord
  /\ R!ObserveLog(Head(channel).stream, Capturable(Head(channel).bytes))
  /\ UNCHANGED published

(* The poll of the loop; what it or the drain has changed is recorded.      *)
PollReadiness ==
  /\ Poll
  /\ R!PollDue \/ R!PollEarly
  /\ Publish

FinishRun ==
  /\ Finish
  /\ R!ProcessExited
  /\ Publish

(* The supervisor's other steps leave readiness alone; a failed run keeps   *)
(* what was last recorded.                                                  *)
OtherSteps ==
  \/ FlushRecord \/ SpawnFails \/ RecordRunning \/ CreateLog
  \/ Drained \/ StillRunning \/ ReapLeader \/ DrainTimesOut \/ MarkFailed

LoopSteps ==
  \/ RecordChunk \/ PollReadiness \/ FinishRun
  \/ OtherSteps /\ UNCHANGED <<readinessVars, published>>

Surroundings ==
  /\ Readers \/ Fail \/ Crash \/ ClientStep
  /\ UNCHANGED <<readinessVars, published>>

World ==
  /\ \/ R!DeadlinePasses
     \/ \E i \in R!Probes : R!ServiceChanges(i)
  /\ UNCHANGED <<logVars, published>>

Next == LoopSteps \/ Surroundings \/ World

(* The supervisor goes on, and probes fall due again and again, as time     *)
(* passes between its polls.  The child need not end nor close its pipes.   *)
Fairness ==
  /\ WF_vars(LoopSteps)
  /\ SF_vars(Poll /\ R!PollDue /\ Publish)

SafeSpec == Init /\ [][Next]_vars
Spec == SafeSpec /\ Fairness

-----------------------------------------------------------------------------
(* The bytes of a stream in a sequence of chunks or records. *)
BytesOf(chunks, s) ==
  FlattenSeq([i \in 1..Len(chunks) |->
                IF chunks[i].stream = s THEN chunks[i].bytes ELSE <<>>])

(* What logs.ndjson has of a stream, and what it will have with the chunk   *)
(* being recorded.                                                          *)
Retained(s) == BytesOf(file, s)
Seen(s) ==
  IF chunk.stream = s THEN Retained(s) \o Capturable(chunk.bytes) ELSE Retained(s)

(* The retained bytes of each stream are a prefix of what it wrote: nothing *)
(* is reordered or left out, also where the common budget ends in the       *)
(* middle of a chunk, and the summary counts every byte once.               *)
RetainedIsPrefix ==
  /\ \A s \in Streams : IsPrefix(Retained(s), output[s])
  /\ stage \notin {"mark", "gone"} =>
       summary.captured = Len(Retained("stdout")) + Len(Retained("stderr"))

(* A run that ended in order had both streams read to their end, its        *)
(* summary accounts for every byte, bytes were dropped only after the       *)
(* budget was used up, and its readiness is decided.  (A reader that meets  *)
(* an error ends like one that has reached the end.)                        *)
EndIsComplete ==
  durable.status = "exited" =>
    /\ \A s \in Streams :
         /\ reader[s] # "reading"
         /\ reader[s] = "closed" => taken[s] = Len(output[s])
    /\ durable.logs = summary
    /\ summary.captured + summary.dropped = taken["stdout"] + taken["stderr"]
    /\ summary.dropped > 0 => summary.captured = MaxBytes
    /\ published.verdict # "pending"

(* A log check passes just when its literal is in the retained bytes of one *)
(* stream, however they were cut into chunks; and evidence in state.json is *)
(* in logs.ndjson, whatever happens later.                                  *)
EvidenceIsRetained ==
  /\ stage \notin {"mark", "gone"} /\ verdict \in {"pending", "ready"} =>
       \A i \in R!LogChecks :
         i \in met <=> \E s \in Streams : R!Occurs(checks[i], Seen(s))
  /\ \A i \in R!LogChecks \cap published.met :
       \E s \in Streams : R!Occurs(checks[i], Retained(s))

(* A verdict in state.json is never taken back, whatever the deadline, the  *)
(* probes, the child's end and failures do afterwards, and ready has        *)
(* evidence for every check.                                                *)
VerdictIsFinal ==
  [][/\ published.verdict # "pending" => published' = published
     /\ published'.verdict = "ready" => published'.met = DOMAIN checks]_vars

(* Output moves on: a channel that is full is served again, so the child is *)
(* not blocked for ever, and a child that has exited leads to the end of    *)
(* its supervisor even if a descendant keeps its pipes.                     *)
OutputMovesOn ==
  /\ Len(channel) = Capacity ~> Len(channel) < Capacity
  /\ stage = "close" ~> stage = "gone"

(* Readiness is decided: the deadline ends it, and until then no probe that *)
(* would succeed is kept waiting by others that do not.                     *)
Decided == published.verdict # "pending" \/ stage = "gone"
ReadinessIsDecided ==
  /\ overdue ~> Decided
  /\ \A i \in UNION {DOMAIN c : c \in CheckLists} :
       <>[](i \in serving) => <>(i \in published.met \/ Decided)
=============================================================================
