-------------------------- MODULE LogCaptureProofs --------------------------
(***************************************************************************)
(* What LogCapture.tla promises for every choice of its constants: any     *)
(* outputs, retention budget, channel, batch, chunk and page size, any set *)
(* of faults.                                                              *)
(***************************************************************************)
EXTENDS LogCapture, SequenceLemmas

(* The part of a chunk that is kept fits into the budget. *)
LEMMA CapturableType ==
  ASSUME RecordingTypeOK, summary.captured <= MaxBytes, NEW b \in Seq(Bytes)
  PROVE  /\ Capturable(b) \in Seq(Bytes)
         /\ Len(Capturable(b)) \in Nat /\ Len(Capturable(b)) <= Len(b)
         /\ summary.captured + Len(Capturable(b)) <= MaxBytes
<1> DEFINE n == IF Len(b) <= MaxBytes - summary.captured
                THEN Len(b) ELSE MaxBytes - summary.captured
<1>0. Len(b) \in Nat /\ MaxBytes \in Nat /\ summary.captured \in Nat
  BY LogCaptureAssumption DEF RecordingTypeOK, Summaries
<1>1. n \in Nat /\ n <= Len(b) /\ summary.captured + n <= MaxBytes
  BY <1>0
<1>2. \A i \in 1..n : b[i] \in Bytes
  BY <1>1
<1>3. Capturable(b) = SubSeq(b, 1, n)
  BY DEF Capturable
<1> HIDE DEF n
<1>4. /\ SubSeq(b, 1, n) \in Seq(Bytes)
      /\ Len(SubSeq(b, 1, n)) = IF 1 <= n THEN n - 1 + 1 ELSE 0
  BY <1>1, <1>2, SubSeqProperties
<1> QED
  BY <1>1, <1>3, <1>4

(* The next record is one, and what it adds is counted.                     *)
LEMMA RecordType ==
  ASSUME RecordingTypeOK, summary.captured <= MaxBytes, chunk # NoChunk
  PROVE  /\ NewRecord \in Records /\ NewRecord.cursor = summary.next_cursor
         /\ Counted \in Summaries /\ Counted.captured <= MaxBytes
         /\ Counted.next_cursor = IF Capturable(chunk.bytes) = <<>>
                                  THEN summary.next_cursor
                                  ELSE summary.next_cursor + 1
<1>1. chunk \in Chunks /\ summary \in Summaries
  BY DEF RecordingTypeOK
<1>2. chunk.bytes \in Seq(Bytes) /\ chunk.stream \in Streams
  BY <1>1 DEF Chunks
<1> DEFINE kept == Capturable(chunk.bytes)
<1>3. /\ kept \in Seq(Bytes) /\ Len(kept) \in Nat /\ Len(kept) <= Len(chunk.bytes)
      /\ summary.captured + Len(kept) <= MaxBytes
  BY <1>2, CapturableType
<1>4. Len(kept) = 0 <=> kept = <<>>
  BY <1>3, EmptySeq
<1>5. Len(chunk.bytes) \in Nat
  BY <1>2
<1> HIDE DEF kept
<1>6. NewRecord \in Records /\ NewRecord.cursor = summary.next_cursor
  BY <1>1, <1>2, <1>3 DEF NewRecord, Records, Summaries, kept
<1>7. Counted = [next_cursor |-> summary.next_cursor + (IF Len(kept) = 0 THEN 0 ELSE 1),
                 captured |-> summary.captured + Len(kept),
                 dropped |-> summary.dropped + Len(chunk.bytes) - Len(kept)]
  BY DEF Counted, kept
<1>8. Counted \in Summaries /\ Counted.captured <= MaxBytes
  BY <1>1, <1>3, <1>5, <1>7 DEF Summaries
<1>9. Counted.next_cursor = IF kept = <<>> THEN summary.next_cursor
                                           ELSE summary.next_cursor + 1
  BY <1>1, <1>4, <1>7 DEF Summaries
<1> QED
  BY <1>6, <1>8, <1>9 DEF kept

(* A record appended to a file that is numbered from 1 keeps it so.         *)
LEMMA AppendedFile ==
  ASSUME NEW f \in Seq(Records), NEW r \in Records, r.cursor = Len(f) + 1,
         \A i \in 1..Len(f) : f[i].cursor = i
  PROVE  /\ Append(f, r) \in Seq(Records) /\ Len(Append(f, r)) = Len(f) + 1
         /\ \A i \in 1..Len(f) + 1 : Append(f, r)[i].cursor = i
<1>1. /\ Append(f, r) \in Seq(Records) /\ Len(Append(f, r)) = Len(f) + 1
      /\ \A i \in 1..Len(f) : Append(f, r)[i] = f[i]
      /\ Append(f, r)[Len(f) + 1] = r
  BY AppendProperties
<1> QED
  BY <1>1

-----------------------------------------------------------------------------
(* Types, but for the client's. *)

LEMMA InitRecordingType == LogInit => RecordingTypeOK
<1> SUFFICES ASSUME LogInit PROVE RecordingTypeOK
  OBVIOUS
<1> USE DEF LogInit
<1>1. output \in [Streams -> Seq(Bytes)]
  BY LogCaptureAssumption
<1>2. taken \in [Streams -> Nat] /\ \A s \in Streams : taken[s] <= Len(output[s])
  BY <1>1
<1>3. channel \in Seq(Chunks) /\ Len(channel) <= Capacity /\ file \in Seq(Records)
  BY EmptySeq, LogCaptureAssumption
<1>4. summary \in Summaries /\ durable \in [status : Statuses, logs : Summaries]
  BY DEF NewSummary, Summaries, Statuses
<1>5. drained \in 0..Batch
  BY LogCaptureAssumption
<1> QED
  BY <1>2, <1>3, <1>4, <1>5 DEF RecordingTypeOK

LEMMA CaptureType ==
  ASSUME RecordingTypeOK, NEW s \in Streams, Capture(s)
  PROVE  RecordingTypeOK'
<1>1. PICK n \in 1..ChunkBytes :
        /\ taken[s] + n <= Len(output[s])
        /\ taken' = [taken EXCEPT ![s] = @ + n]
        /\ channel' = Append(channel, [stream |-> s,
             bytes |-> SubSeq(output[s], taken[s] + 1, taken[s] + n)])
  BY DEF Capture
<1>2. n \in Nat /\ taken[s] \in Nat
  BY LogCaptureAssumption DEF RecordingTypeOK
<1>3. output \in [Streams -> Seq(Bytes)]
  BY LogCaptureAssumption DEF RecordingTypeOK
<1>4. output[s] \in Seq(Bytes)
  BY <1>3
<1>5. \A i \in (taken[s] + 1)..(taken[s] + n) : output[s][i] \in Bytes
  BY <1>1, <1>2, <1>4
<1>6. SubSeq(output[s], taken[s] + 1, taken[s] + n) \in Seq(Bytes)
  BY <1>2, <1>5, SubSeqProperties
<1> DEFINE c == [stream |-> s,
                 bytes |-> SubSeq(output[s], taken[s] + 1, taken[s] + n)]
<1>7. c \in Chunks
  BY <1>6 DEF Chunks
<1> HIDE DEF c
<1>8. channel' = Append(channel, c)
  BY <1>1 DEF c
<1>9. channel' \in Seq(Chunks) /\ Len(channel') = Len(channel) + 1
  BY <1>7, <1>8, AppendProperties DEF RecordingTypeOK
<1>10. Len(channel') <= Capacity
  BY <1>9, LogCaptureAssumption DEF Capture, RecordingTypeOK
<1>11. /\ taken' \in [Streams -> Nat]
       /\ \A t \in Streams : taken'[t] <= Len(output[t])
  <2>1. taken' = [taken EXCEPT ![s] = taken[s] + n]
    BY <1>1
  <2>2. taken[s] + n <= Len(output[s]) /\ taken[s] + n \in Nat
    BY <1>1, <1>2
  <2>3. taken \in [Streams -> Nat] /\ \A t \in Streams : taken[t] <= Len(output[t])
    BY DEF RecordingTypeOK
  <2> QED
    BY <2>1, <2>2, <2>3
<1>12. UNCHANGED <<output, reader, stage, drained, chunk, summary, diskVars>>
  BY DEF Capture
<1> QED
  BY <1>9, <1>10, <1>11, <1>12 DEF RecordingTypeOK, diskVars

LEMMA NextRecordingType ==
  ASSUME RecordingTypeOK, FileInv, StageInv, [LogNext]_logVars
  PROVE  RecordingTypeOK'
<1> USE DEF RecordingTypeOK
<1>1. CASE Readers
  <2>1. CASE \E s \in Streams : Capture(s)
    BY <2>1, CaptureType
  <2>2. CASE \E s \in Streams : ReaderEnds(s)
    BY <2>2 DEF ReaderEnds, diskVars
  <2> QED
    BY <1>1, <2>1, <2>2 DEF Readers
<1>2. CASE SpawnFails
  BY <1>2 DEF SpawnFails, Goto, childVars, Statuses, Terminal
<1>3. CASE RecordRunning
  BY <1>3 DEF RecordRunning, Goto, childVars, Statuses
<1>4. CASE CreateLog
  BY <1>4 DEF CreateLog, Goto, childVars
<1>5. CASE BeginRecord
  <2>1. channel # <<>> /\ chunk' = Head(channel) /\ channel' = Tail(channel)
    BY <1>5 DEF BeginRecord
  <2>2. /\ chunk' \in Chunks /\ channel' \in Seq(Chunks)
        /\ Len(channel') = Len(channel) - 1
    BY <2>1, HeadTailProperties
  <2>3. Len(channel') <= Capacity
    BY <2>2, LogCaptureAssumption
  <2>4. drained' \in 0..Batch
    BY <1>5, LogCaptureAssumption DEF BeginRecord
  <2>5. torn' \in BOOLEAN
    BY <1>5 DEF BeginRecord
  <2> QED
    BY <1>5, <2>2, <2>3, <2>4, <2>5 DEF BeginRecord, childVars
<1>6. CASE FlushRecord
  <2>1. summary' \in Summaries /\ NewRecord \in Records
    BY <1>6, RecordType DEF FlushRecord, FileInv
  <2>2. file' = file \/ file' = Append(file, NewRecord)
    BY <1>6 DEF FlushRecord
  <2>3. file \in Seq(Records)
    OBVIOUS
  <2>4. Append(file, NewRecord) \in Seq(Records)
    BY ONLY <2>1, <2>3, AppendProperties
  <2>5. file' \in Seq(Records)
    BY ONLY <2>2, <2>3, <2>4
  <2> QED
    BY <1>6, <2>1, <2>5 DEF FlushRecord, childVars
<1>7. CASE Drained
  BY <1>7 DEF Drained, Goto, childVars, diskVars
<1>8. CASE Poll
  BY <1>8 DEF Poll, Goto, childVars, diskVars
<1>9. CASE StillRunning
  <2>1. durable' \in [status : Statuses, logs : Summaries]
    BY <1>9 DEF StillRunning
  <2>2. drained' \in 0..Batch
    BY <1>9, LogCaptureAssumption DEF StillRunning
  <2> QED
    BY <1>9, <2>1, <2>2 DEF StillRunning, Goto, childVars
<1>10. CASE ReapLeader
  BY <1>10 DEF ReapLeader, Goto, childVars, diskVars
<1>11. CASE Finish
  BY <1>11 DEF Finish, Goto, childVars, Statuses, Terminal
<1>12. CASE DrainTimesOut
  BY <1>12, EmptySeq, LogCaptureAssumption DEF DrainTimesOut, Unwind, Goto, childVars, diskVars
<1>13. CASE MarkFailed
  BY <1>13 DEF MarkFailed, Goto, childVars, Statuses, Terminal
<1>14. CASE Fail
  <2>1. file' \in Seq(Records) /\ torn' \in BOOLEAN
    <3>1. CASE file' = file /\ torn' \in {FALSE, torn}
      BY <3>1
    <3>2. CASE torn /\ file' = Append(file, NewRecord) /\ torn' = FALSE
      <4>1. chunk # NoChunk
        BY <1>14, <3>2 DEF Fail, Receiving, StageInv
      <4>2. NewRecord \in Records
        BY <4>1, RecordType DEF FileInv
      <4>3. file \in Seq(Records)
        OBVIOUS
      <4>4. Append(file, NewRecord) \in Seq(Records)
        BY ONLY <4>2, <4>3, AppendProperties
      <4> QED
        BY <3>2, <4>4
    <3> QED
      BY <1>14, <3>1, <3>2 DEF Fail
  <2> QED
    BY <1>14, <2>1, EmptySeq, LogCaptureAssumption DEF Fail, Unwind, Goto, childVars
<1>15. CASE Crash
  BY <1>15, EmptySeq, LogCaptureAssumption DEF Crash, Goto, childVars, diskVars
<1>16. CASE ClientStep
  BY <1>16 DEF ClientStep, LookAtState, ReadFile, childVars, diskVars
<1>17. CASE UNCHANGED logVars
  BY <1>17 DEF logVars, childVars, diskVars
<1> QED
  BY <1>1, <1>2, <1>3, <1>4, <1>5, <1>6, <1>7, <1>8, <1>9, <1>10, <1>11, <1>12,
     <1>13, <1>14, <1>15, <1>16, <1>17
  DEF LogNext, SupervisorStep, WriterStep, LoopStep, EndStep

-----------------------------------------------------------------------------
(* RecordingInv is inductive.  Of the client it needs to know only that it  *)
(* is a record with a view of state.json.                                   *)

ClientShape ==
  /\ {"at", "view", "after", "got", "answer"} \subseteq DOMAIN client
  /\ client.view \in Views

IndInv == RecordingTypeOK /\ ClientShape /\ RecordingInv

LEMMA InitRecordingInv == LogInit => ClientShape /\ RecordingInv
<1> SUFFICES ASSUME LogInit PROVE ClientShape /\ RecordingInv
  OBVIOUS
<1> USE DEF LogInit, NewSummary
<1>1. /\ client.at \in {"absent", "state"} /\ client.answer = "none"
      /\ client.view = [status |-> "starting", next_cursor |-> 1]
      /\ {"at", "view", "after", "got", "answer"} \subseteq DOMAIN client
  OBVIOUS
<1>2. ClientShape
  BY <1>1 DEF ClientShape, Views, Statuses
<1>3. FileInv
  BY LogCaptureAssumption DEF FileInv
<1>4. StageInv /\ EndInv
  BY DEF StageInv, EndInv, Terminal
<1>5. ViewInv /\ OnlyFailedRunsLookDamaged
  BY <1>1 DEF ViewInv, OnlyFailedRunsLookDamaged
<1> QED
  BY <1>2, <1>3, <1>4, <1>5 DEF RecordingInv

(* Nothing is recorded of a run that has ended, so a view of its end stays  *)
(* right.                                                                   *)
LEMMA ViewKept ==
  ASSUME RecordingInv, UNCHANGED client, stage # "gone" \/ UNCHANGED durable
  PROVE  ViewInv' /\ OnlyFailedRunsLookDamaged'
<1>1. stage # "gone" => durable.status # "exited"
  BY DEF RecordingInv, StageInv, Terminal
<1> QED
  BY <1>1 DEF RecordingInv, ViewInv, OnlyFailedRunsLookDamaged

(* The file stays, and state.json gets the writer's summary if anything.    *)
LEMMA FileKept ==
  ASSUME RecordingTypeOK, FileInv, UNCHANGED <<file, summary>>,
         \/ durable'.logs = durable.logs
         \/ durable'.logs = summary /\ stage \notin {"mark", "gone"},
         stage \in {"mark", "gone"} => stage' \in {"mark", "gone"}
  PROVE  FileInv'
<1>1. summary \in Summaries /\ Len(file) \in Nat
  BY DEF RecordingTypeOK
<1> QED
  BY <1>1 DEF FileInv, Summaries

(* An orderly end is a matter of the last step alone: before it nobody has  *)
(* recorded one, and after it nobody touches the file.                      *)
LEMMA EndKept ==
  ASSUME RecordingInv, UNCHANGED durable,
         stage # "gone" \/ UNCHANGED <<created, file, torn>>
  PROVE  EndInv'
<1>1. stage # "gone" => durable.status # "exited"
  BY DEF RecordingInv, StageInv, Terminal
<1> QED
  BY <1>1 DEF RecordingInv, EndInv

(* A new record gets the number that the file and the summary agree on.     *)
LEMMA WrittenFile ==
  ASSUME RecordingTypeOK, FileInv, chunk # NoChunk, stage \notin {"mark", "gone"},
         file' = Append(file, NewRecord)
  PROVE  /\ Len(file') = Len(file) + 1
         /\ \A i \in 1..Len(file') : file'[i].cursor = i
<1>1. NewRecord \in Records /\ NewRecord.cursor = Len(file) + 1
  BY RecordType DEF FileInv
<1>2. file \in Seq(Records) /\ \A i \in 1..Len(file) : file[i].cursor = i
  BY DEF RecordingTypeOK, FileInv
<1> QED
  BY <1>1, <1>2, AppendedFile

LEMMA SupervisorKeepsInv ==
  ASSUME RecordingTypeOK, RecordingInv, Readers \/ SupervisorStep
  PROVE  RecordingInv'
<1> USE DEF RecordingInv
<1>1. CASE Readers
  <2>1. /\ UNCHANGED <<stage, chunk, summary, created, file, torn, durable, client>>
    BY <1>1 DEF Readers, Capture, ReaderEnds, diskVars
  <2> QED
    BY <2>1, FileKept, EndKept, ViewKept DEF StageInv
<1>2. CASE SpawnFails
  <2>1. /\ stage = "spawn" /\ stage' = "gone"
        /\ durable'.status = "failed" /\ durable'.logs = durable.logs
        /\ UNCHANGED <<chunk, summary, created, file, torn, client>>
    BY <1>2 DEF SpawnFails, Goto, RecordingTypeOK
  <2>2. StageInv' /\ EndInv'
    BY <2>1 DEF StageInv, EndInv, Terminal
  <2> QED
    BY <2>1, <2>2, FileKept, ViewKept
<1>3. CASE RecordRunning
  <2>1. /\ stage = "spawn" /\ stage' = "create"
        /\ durable'.status = "running" /\ durable'.logs = durable.logs
        /\ UNCHANGED <<chunk, summary, created, file, torn, client>>
    BY <1>3 DEF RecordRunning, Goto, RecordingTypeOK
  <2>2. StageInv' /\ EndInv'
    BY <2>1 DEF StageInv, EndInv, Terminal
  <2> QED
    BY <2>1, <2>2, FileKept, ViewKept
<1>4. CASE CreateLog
  <2>1. /\ stage = "create" /\ stage' = "drain" /\ created'
        /\ UNCHANGED <<chunk, summary, file, torn, durable, client>>
    BY <1>4 DEF CreateLog, Goto
  <2>2. StageInv'
    BY <2>1 DEF StageInv, Terminal
  <2> QED
    BY <2>1, <2>2, FileKept, EndKept, ViewKept
<1>5. CASE BeginRecord
  <2>1. /\ stage \in {"drain", "close"} /\ channel # <<>> /\ chunk' = Head(channel)
        /\ UNCHANGED <<stage, summary, created, file, durable, client>>
    BY <1>5 DEF BeginRecord
  <2>2. chunk' # NoChunk
    <3>1. chunk' \in Chunks
      BY <2>1, HeadTailProperties DEF RecordingTypeOK
    <3> QED
      BY <3>1 DEF Chunks, NoChunk, Streams
  <2>3. StageInv'
    BY <2>1, <2>2 DEF StageInv
  <2> QED
    BY <2>1, <2>3, FileKept, EndKept, ViewKept
<1>6. CASE FlushRecord
  <2>1. /\ chunk # NoChunk /\ chunk' = NoChunk /\ ~torn' /\ summary' = Counted
        /\ UNCHANGED <<stage, created, durable, client>>
    BY <1>6 DEF FlushRecord
  <2>2. stage \in {"drain", "close"}
    BY <2>1 DEF StageInv
  <2>3. /\ Counted \in Summaries /\ Counted.captured <= MaxBytes
        /\ Counted.next_cursor = IF Capturable(chunk.bytes) = <<>>
                                 THEN summary.next_cursor
                                 ELSE summary.next_cursor + 1
    BY <2>1, RecordType DEF FileInv
  <2>4. /\ Len(file) \in Nat /\ durable.logs.next_cursor \in Nat
        /\ summary.next_cursor = Len(file) + 1
    BY <2>2 DEF RecordingTypeOK, Summaries, FileInv
  <2>5. FileInv'
    <3>1. CASE Capturable(chunk.bytes) = <<>>
      <4>1. file' = file
        BY <1>6, <3>1 DEF FlushRecord
      <4> QED
        BY <2>1, <2>3, <2>4, <3>1, <4>1 DEF FileInv
    <3>2. CASE Capturable(chunk.bytes) # <<>>
      <4>1. file' = Append(file, NewRecord)
        BY <1>6, <3>2 DEF FlushRecord
      <4>2. /\ Len(file') = Len(file) + 1
            /\ \A i \in 1..Len(file') : file'[i].cursor = i
        BY <2>1, <2>2, <4>1, WrittenFile
      <4> QED
        BY <2>1, <2>3, <2>4, <3>2, <4>2 DEF FileInv
    <3> QED
      BY <3>1, <3>2
  <2>6. StageInv'
    BY <2>1 DEF StageInv
  <2> QED
    BY <2>1, <2>2, <2>5, <2>6, EndKept, ViewKept
<1>7. CASE Drained \/ Poll \/ ReapLeader
  <2>1. /\ stage \in {"drain", "poll", "wait"} /\ stage' \in {"poll", "wait", "close"}
        /\ stage = "drain" => chunk = NoChunk
        /\ UNCHANGED <<chunk, summary, created, file, torn, durable, client>>
    BY <1>7 DEF Drained, Poll, ReapLeader, Goto, diskVars
  <2>2. StageInv'
    BY <2>1 DEF StageInv, Terminal
  <2> QED
    BY <2>1, <2>2, FileKept, EndKept, ViewKept
<1>8. CASE StillRunning
  <2>1. /\ stage = "wait" /\ stage' = "drain"
        /\ durable'.status = durable.status
        /\ durable'.logs \in {durable.logs, summary}
        /\ UNCHANGED <<chunk, summary, created, file, torn, client>>
    BY <1>8 DEF StillRunning, Goto, RecordingTypeOK
  <2>2. StageInv' /\ EndInv'
    BY <2>1 DEF StageInv, EndInv, Terminal
  <2> QED
    BY <2>1, <2>2, FileKept, ViewKept
<1>9. CASE Finish
  <2>1. /\ stage = "close" /\ stage' = "gone" /\ chunk = NoChunk
        /\ durable' = [status |-> "exited", logs |-> summary]
        /\ UNCHANGED <<chunk, summary, created, file, torn, client>>
    BY <1>9 DEF Finish, Goto
  <2>2. created /\ ~torn /\ summary.next_cursor = Len(file) + 1
    BY <2>1 DEF StageInv, FileInv
  <2>3. StageInv' /\ EndInv'
    BY <2>1, <2>2 DEF StageInv, EndInv, Terminal
  <2> QED
    BY <2>1, <2>3, FileKept, ViewKept
<1>10. CASE DrainTimesOut
  <2>1. /\ stage = "close" /\ stage' = "mark" /\ chunk' = NoChunk
        /\ UNCHANGED <<summary, created, file, torn, durable, client>>
    BY <1>10 DEF DrainTimesOut, Unwind, Goto, diskVars
  <2>2. StageInv'
    BY <2>1 DEF StageInv, Terminal
  <2> QED
    BY <2>1, <2>2, FileKept, EndKept, ViewKept
<1>11. CASE MarkFailed
  <2>1. /\ stage = "mark" /\ stage' = "gone"
        /\ durable' = durable \/ durable'.status = "failed"
        /\ durable'.logs = durable.logs
        /\ UNCHANGED <<chunk, summary, created, file, torn, client>>
    BY <1>11 DEF MarkFailed, Goto, RecordingTypeOK
  <2>2. StageInv' /\ EndInv'
    BY <2>1 DEF StageInv, EndInv, Terminal
  <2> QED
    BY <2>1, <2>2, FileKept, ViewKept
<1> QED
  BY <1>1, <1>2, <1>3, <1>4, <1>5, <1>6, <1>7, <1>8, <1>9, <1>10, <1>11
  DEF SupervisorStep, WriterStep, LoopStep, EndStep

LEMMA FaultsKeepInv ==
  ASSUME RecordingTypeOK, RecordingInv, Fail \/ Crash
  PROVE  RecordingInv'
<1> USE DEF RecordingInv
<1>1. CASE Fail
  <2>1. /\ stage \notin {"mark", "gone"} /\ stage' = "mark" /\ chunk' = NoChunk
        /\ UNCHANGED <<summary, created, durable, client>>
    BY <1>1 DEF Fail, Receiving, Unwind, Goto
  <2>2. StageInv'
    BY <2>1 DEF StageInv, Terminal
  <2>3. FileInv'
    <3>1. CASE file' = file
      BY <2>1, <3>1, FileKept
    <3>2. CASE torn /\ file' = Append(file, NewRecord)
      <4>1. chunk # NoChunk
        BY <2>1, <3>2 DEF StageInv
      <4>2. /\ Len(file') = Len(file) + 1
            /\ \A i \in 1..Len(file') : file'[i].cursor = i
        BY <2>1, <3>2, <4>1, WrittenFile
      <4>3. Len(file) \in Nat /\ durable.logs.next_cursor \in Nat
        BY DEF RecordingTypeOK, Summaries
      <4> QED
        BY <2>1, <4>2, <4>3 DEF FileInv
    <3> QED
      BY <1>1, <3>1, <3>2 DEF Fail
  <2> QED
    BY <2>1, <2>2, <2>3, EndKept, ViewKept
<1>2. CASE Crash
  <2>1. /\ stage # "gone" /\ stage' = "gone" /\ chunk' = NoChunk
        /\ UNCHANGED <<summary, created, file, torn, durable, client>>
    BY <1>2 DEF Crash, Goto, diskVars
  <2>2. StageInv'
    BY <2>1 DEF StageInv
  <2> QED
    BY <2>1, <2>2, FileKept, EndKept, ViewKept
<1> QED
  BY <1>1, <1>2

(* A run that ended in order has nothing in its file that its summary does  *)
(* not cover.                                                               *)
LEMMA OnlyFailedDamaged ==
  ASSUME RecordingTypeOK, RecordingInv, ClientShape, client.at = "file", Damaged
  PROVE  client.view.status = "failed"
<1>1. Len(file) \in Nat /\ \A i \in 1..Len(file) : file[i].cursor = i
  BY DEF RecordingTypeOK, RecordingInv, FileInv
<1>2. ~OutOfOrder
  BY <1>1 DEF OutOfOrder
<1>3. /\ client.view.status \in Terminal
      /\ torn \/ \E i \in 1..Len(file) : file[i].cursor >= client.view.next_cursor
  BY <1>2 DEF Damaged
<1>4. ASSUME client.view.status = "exited" PROVE FALSE
  <2>1. ~torn /\ client.view.next_cursor = Len(file) + 1
    BY <1>4 DEF RecordingInv, ViewInv, EndInv
  <2> QED
    BY <1>1, <1>3, <2>1
<1> QED
  BY <1>3, <1>4 DEF Terminal

LEMMA ClientKeepsInv ==
  ASSUME RecordingTypeOK, RecordingInv, ClientShape, ClientStep
  PROVE  RecordingInv' /\ ClientShape'
<1>1. UNCHANGED <<channel, stage, drained, chunk, summary, created, file, torn, durable>>
  BY DEF ClientStep, LookAtState, ReadFile, diskVars
<1>2. FileInv' /\ StageInv' /\ EndInv'
  BY <1>1 DEF RecordingInv, FileInv, StageInv, EndInv
<1>3. CASE LookAtState
  <2>1. /\ client'.at = "file" /\ client'.answer = "none"
        /\ client'.view = [status |-> durable.status,
                           next_cursor |-> durable.logs.next_cursor]
        /\ DOMAIN client' = DOMAIN client
    BY <1>3 DEF LookAtState, ClientShape
  <2>2. client'.view \in Views
    BY <2>1 DEF RecordingTypeOK, Summaries, Views
  <2>3. ViewInv' /\ OnlyFailedRunsLookDamaged'
    BY <1>1, <2>1 DEF ViewInv, OnlyFailedRunsLookDamaged
  <2> QED
    BY <1>2, <2>1, <2>2, <2>3 DEF RecordingInv, ClientShape
<1>4. CASE ReadFile
  <2>1. PICK kind, page, after :
          /\ kind \in {"page", "io", "integrity"}
          /\ Answer(kind, page, after)
          /\ kind = "io" => ~created /\ client.view.status # "starting"
          /\ kind = "integrity" => Damaged
    BY <1>4 DEF ReadFile
  <2>2. client.at = "file"
    BY <1>4 DEF ReadFile
  <2>3. /\ client'.at = "state" /\ client'.answer = kind
        /\ client'.view.status = client.view.status
        /\ client'.view \in Views
        /\ DOMAIN client' = DOMAIN client
    BY <2>1 DEF Answer, ClientShape, Views
  <2>4. kind = "integrity" => client.view.status = "failed"
    BY <2>1, <2>2, OnlyFailedDamaged
  <2>5. kind = "io" => client.view.status \in {"running", "failed"}
    BY <2>1, <2>2 DEF ClientShape, Views, Statuses, Terminal, RecordingInv, ViewInv, EndInv
  <2>6. ViewInv' /\ OnlyFailedRunsLookDamaged'
    BY <2>3, <2>4, <2>5 DEF ViewInv, OnlyFailedRunsLookDamaged
  <2> QED
    BY <1>2, <2>3, <2>6 DEF RecordingInv, ClientShape
<1> QED
  BY <1>3, <1>4 DEF ClientStep

LEMMA NextIndInv == IndInv /\ [LogNext]_logVars => IndInv'
<1> SUFFICES ASSUME IndInv, [LogNext]_logVars PROVE IndInv'
  OBVIOUS
<1>1. RecordingTypeOK'
  BY NextRecordingType DEF IndInv, RecordingInv
<1>2. CASE Readers \/ SupervisorStep \/ Fail \/ Crash
  <2>1. UNCHANGED client
    BY <1>2 DEF Readers, Capture, ReaderEnds, SupervisorStep, WriterStep, LoopStep,
      EndStep, SpawnFails, RecordRunning, CreateLog, BeginRecord, FlushRecord, Drained,
      Poll, StillRunning, ReapLeader, Finish, DrainTimesOut, Fail, MarkFailed, Crash
  <2> QED
    BY <1>1, <1>2, <2>1, SupervisorKeepsInv, FaultsKeepInv DEF IndInv, ClientShape
<1>3. CASE ClientStep
  BY <1>1, <1>3, ClientKeepsInv DEF IndInv
<1>4. CASE UNCHANGED logVars
  BY <1>1, <1>4 DEF IndInv, ClientShape, RecordingInv, FileInv, StageInv, EndInv,
     ViewInv, OnlyFailedRunsLookDamaged, logVars, diskVars
<1> QED
  BY <1>2, <1>3, <1>4 DEF LogNext

-----------------------------------------------------------------------------
(* Two readers, the supervisor and the file keep their types under every    *)
(* fault; in particular the channel never holds more than its capacity.     *)
THEOREM RecordingTypeCorrect == LogSpec => []RecordingTypeOK
<1>1. LogInit => IndInv
  BY InitRecordingType, InitRecordingInv DEF IndInv
<1>2. IndInv => RecordingTypeOK
  BY DEF IndInv
<1> QED
  BY <1>1, <1>2, NextIndInv, PTL DEF LogSpec

(* The inductive invariant: how the file, the two summaries, the place the  *)
(* supervisor has come to and what a client has read hang together.         *)
THEOREM RecordingInvariant == LogSpec => []RecordingInv
<1>1. LogInit => IndInv
  BY InitRecordingType, InitRecordingInv DEF IndInv
<1>2. IndInv => RecordingInv
  BY DEF IndInv
<1> QED
  BY <1>1, <1>2, NextIndInv, PTL DEF LogSpec

(* LogWriter::record flushes a line before the summary that counts it can   *)
(* be written to state.json: what state.json says of logs.ndjson is there,  *)
(* after a crash too, numbered from 1 and within --max-log-bytes.           *)
THEOREM SummaryIsAlwaysWritten == LogSpec => []SummaryIsWritten
<1>1. RecordingInv => SummaryIsWritten
  BY DEF RecordingInv, FileInv, SummaryIsWritten
<1> QED
  BY <1>1, RecordingInvariant, PTL

(* read_logs calls a log damaged only if the run was recorded as failed,    *)
(* and misses logs.ndjson only while a run starts or if it failed.          *)
THEOREM DamageMeansFailure == LogSpec => []OnlyFailedRunsLookDamaged
<1>1. RecordingInv => OnlyFailedRunsLookDamaged
  BY DEF RecordingInv
<1> QED
  BY <1>1, RecordingInvariant, PTL

-----------------------------------------------------------------------------
(* The pages of procherd logs. *)

LEMMA BetweenEmpty ==
  ASSUME NEW w, NEW a, NEW b
  PROVE  Between(<<>>, w, a, b) = <<>>
BY FlattenEmpty DEF Between

LEMMA BetweenType ==
  ASSUME NEW f \in Seq(Records), NEW w, NEW a, NEW b
  PROVE  Between(f, w, a, b) \in Seq(Records)
<1> DEFINE Kept(x) == IF a < x.cursor /\ x.cursor < b /\ x.stream \in w
                      THEN <<x>> ELSE <<>>
           q == [i \in 1..Len(f) |-> Kept(f[i])]
<1>1. /\ \A x \in Records : Kept(x) \in Seq(Records)
      /\ Len(f) \in Nat /\ \A i \in 1..Len(f) : f[i] \in Records
  BY LenProperties, EmptySeq
<1> HIDE DEF Kept
<1>2. q \in Seq(Seq(Records))
  BY <1>1
<1>3. Between(f, w, a, b) = FlattenSeq(q)
  BY DEF Between, Kept
<1> HIDE DEF q
<1> QED
  BY <1>2, <1>3, FlattenType

LEMMA BetweenAppend ==
  ASSUME NEW f \in Seq(Records), NEW r \in Records, NEW w, NEW a, NEW b
  PROVE  Between(Append(f, r), w, a, b) =
              IF a < r.cursor /\ r.cursor < b /\ r.stream \in w
              THEN Append(Between(f, w, a, b), r) ELSE Between(f, w, a, b)
<1> DEFINE Kept(x) == IF a < x.cursor /\ x.cursor < b /\ x.stream \in w
                      THEN <<x>> ELSE <<>>
           q == [i \in 1..Len(f) |-> Kept(f[i])]
           g == Append(f, r)
<1>1. /\ \A x \in Records : Kept(x) \in Seq(Records)
      /\ Len(f) \in Nat /\ Len(g) = Len(f) + 1
      /\ \A i \in 1..Len(f) : f[i] \in Records /\ g[i] = f[i]
      /\ g[Len(f) + 1] = r
  BY AppendProperties, LenProperties, EmptySeq
<1> HIDE DEF Kept, g
<1>2. q \in Seq(Seq(Records)) /\ Len(q) = Len(f)
  BY <1>1
<1>3. [i \in 1..Len(g) |-> Kept(g[i])] = Append(q, Kept(r))
  <2> DEFINE p == [i \in 1..Len(g) |-> Kept(g[i])]
  <2>1. p \in Seq(Seq(Records)) /\ Len(p) = Len(f) + 1
    <3>1. ASSUME NEW i \in 1..Len(f) + 1 PROVE Kept(g[i]) \in Seq(Records)
      <4>1. CASE i \in 1..Len(f)
        BY <1>1, <4>1
      <4>2. CASE i = Len(f) + 1
        BY <1>1, <4>2
      <4> QED
        BY <1>1, <4>1, <4>2
    <3> QED
      BY <1>1, <3>1
  <2>2. Append(q, Kept(r)) \in Seq(Seq(Records)) /\ Len(Append(q, Kept(r))) = Len(f) + 1
    <3>1. Kept(r) \in Seq(Records)
      BY <1>1
    <3> HIDE DEF q
    <3> QED
      BY <1>2, <3>1, AppendProperties
  <2>3. ASSUME NEW i \in 1..Len(f) + 1 PROVE p[i] = Append(q, Kept(r))[i]
    <3>1. p[i] = Kept(g[i])
      BY <1>1
    <3>2. CASE i \in 1..Len(f)
      BY <1>1, <1>2, <3>1, <3>2, AppendProperties
    <3>3. CASE i = Len(f) + 1
      BY <1>1, <1>2, <3>1, <3>3, AppendProperties
    <3> QED
      BY <1>1, <3>2, <3>3
  <2> HIDE DEF p
  <2> QED
    BY <2>1, <2>2, <2>3, SeqEqual DEF p
<1>4. /\ Between(f, w, a, b) = FlattenSeq(q)
      /\ Between(g, w, a, b) = FlattenSeq(Append(q, Kept(r)))
  BY <1>3 DEF Between, Kept
<1> HIDE DEF q
<1>5. /\ FlattenSeq(q) \in Seq(Records)
      /\ FlattenSeq(Append(q, Kept(r))) = FlattenSeq(q) \o Kept(r)
  BY <1>1, <1>2, FlattenType, FlattenAppend
<1>6. /\ FlattenSeq(q) \o <<>> = FlattenSeq(q)
      /\ FlattenSeq(q) \o <<r>> = Append(FlattenSeq(q), r)
  BY <1>5, ConcatEmptySeq, AppendIsConcat
<1> QED
  BY <1>4, <1>5, <1>6 DEF Kept, g

Numbered(f) == \A i \in 1..Len(f) : f[i].cursor = i

(* What a file has before each cursor. *)
UpTo(f, w) == [c \in Nat |-> Between(f, w, 0, c)]

(* How a numbered file reads between two cursors: all of it beyond the      *)
(* first if it ends before the second, and up to each record what is up to  *)
(* the first cursor and the records found until then.                       *)
Follows(f, w, a, b) ==
  LET found == Between(f, w, a, b)
      before == UpTo(f, w)
  IN /\ \A c \in Nat : c > Len(f) => before[c] = before[Len(f) + 1]
     /\ a >= Len(f) => found = <<>>
     /\ a <= Len(f) /\ Len(f) < b => before[Len(f) + 1] = before[a + 1] \o found
     /\ \A j \in 1..Len(found) :
          /\ a < found[j].cursor /\ found[j].cursor <= Len(f)
          /\ before[found[j].cursor + 1] = before[a + 1] \o SubSeq(found, 1, j)

LEMMA FollowsEmpty ==
  ASSUME NEW w, NEW a \in Nat, NEW b \in Nat
  PROVE  Follows(<<>>, w, a, b)
<1>1. <<>> \o <<>> = <<>> /\ Len(<<>>) = 0
  BY EmptySeq, ConcatEmptySeq
<1>2. \A c \in Nat : UpTo(<<>>, w)[c] = <<>>
  BY BetweenEmpty DEF UpTo
<1> DEFINE u == UpTo(<<>>, w)
           F == Between(<<>>, w, a, b)
<1>3. F = <<>>
  BY BetweenEmpty
<1>4. /\ \A c \in Nat : u[c] = u[Len(<<>>) + 1]
      /\ u[Len(<<>>) + 1] = u[a + 1] \o F
      /\ 1..Len(F) = {}
  <2>1. Len(<<>>) + 1 \in Nat /\ a + 1 \in Nat /\ 1..0 = {}
    BY <1>1
  <2>2. u[Len(<<>>) + 1] = <<>> /\ u[a + 1] = <<>>
    BY <1>2, <2>1, Zenon
  <2> HIDE DEF F, u
  <2>3. u[a + 1] \o F = <<>> /\ 1..Len(F) = {}
    BY <1>1, <1>3, <2>1, <2>2, Zenon
  <2>4. \A c \in Nat : u[c] = <<>>
    BY <1>2, Zenon DEF u
  <2> QED
    BY <2>2, <2>3, <2>4, Zenon
<1> HIDE DEF u, F
<1> QED
  BY <1>3, <1>4 DEF Follows, u, F

LEMMA RecordsConcat ==
  \A f, g \in Seq(Records), r \in Records : Append(f \o g, r) = f \o Append(g, r)
<1> SUFFICES ASSUME NEW f \in Seq(Records), NEW g \in Seq(Records), NEW r \in Records
             PROVE  Append(f \o g, r) = f \o Append(g, r)
  OBVIOUS
<1>1. <<r>> \in Seq(Records)
  OBVIOUS
<1>2. f \o g \in Seq(Records)
  BY ConcatProperties
<1>3. Append(f \o g, r) = (f \o g) \o <<r>> /\ Append(g, r) = g \o <<r>>
  BY <1>2, AppendIsConcat
<1>4. (f \o g) \o <<r>> = f \o (g \o <<r>>)
  BY <1>1, ConcatAssociative, SMT
<1> QED
  BY <1>3, <1>4

LEMMA FollowsAppend ==
  ASSUME NEW f \in Seq(Records), NEW r \in Records, NEW w, NEW a \in Nat, NEW b \in Nat,
         r.cursor = Len(f) + 1, Follows(f, w, a, b)
  PROVE  Follows(Append(f, r), w, a, b)
<1> DEFINE n == Len(f)
           g == Append(f, r)
           F == Between(f, w, a, b)
           G == Between(g, w, a, b)
           u == UpTo(f, w)
           v == UpTo(g, w)
           In == a < n + 1 /\ n + 1 < b /\ r.stream \in w
<1>1. n \in Nat /\ Len(g) = n + 1
  BY AppendProperties, LenProperties
<1>2. /\ F \in Seq(Records)
      /\ G = IF In THEN Append(F, r) ELSE F
  BY BetweenType, BetweenAppend
<1>3. ASSUME NEW c \in Nat
      PROVE  /\ u[c] \in Seq(Records)
             /\ v[c] = IF n + 1 < c /\ r.stream \in w THEN Append(u[c], r) ELSE u[c]
  BY <1>1, BetweenType, BetweenAppend DEF UpTo
<1>4. /\ \A c \in Nat : c > n => u[c] = u[n + 1]
      /\ a >= n => F = <<>>
      /\ a <= n /\ n < b => u[n + 1] = u[a + 1] \o F
      /\ \A j \in 1..Len(F) :
           /\ a < F[j].cursor /\ F[j].cursor <= n
           /\ u[F[j].cursor + 1] = u[a + 1] \o SubSeq(F, 1, j)
  BY DEF Follows
<1> HIDE DEF n, g, F, G, u, v
<1>5. ASSUME NEW c \in Nat, c > n + 1 PROVE v[c] = v[n + 2]
  <2>1. u[c] = u[n + 2]
    BY <1>1, <1>4, <1>5
  <2> QED
    BY <1>1, <1>3, <1>5, <2>1
<1>6. a >= n + 1 => G = <<>>
  BY <1>1, <1>2, <1>4
<1>7. v[n + 2] = IF r.stream \in w THEN Append(u[n + 1], r) ELSE u[n + 1]
  BY <1>1, <1>3, <1>4
<1>8. ASSUME a <= n + 1, n + 1 < b PROVE v[n + 2] = v[a + 1] \o G
  <2>1. CASE a = n + 1
    <3>1. G = <<>> /\ a + 1 = n + 2 /\ a + 1 \in Nat
      BY <1>1, <1>6, <2>1
    <3>2. v[a + 1] \in Seq(Records)
      <4> DEFINE s == u[a + 1]
      <4>1. s \in Seq(Records) /\ v[a + 1] \in {s, Append(s, r)}
        BY <1>3, <3>1
      <4> HIDE DEF s
      <4>2. Append(s, r) \in Seq(Records)
        BY <4>1, AppendProperties, Zenon
      <4> QED
        BY <4>1, <4>2, Zenon
    <3> QED
      BY <3>1, <3>2, ConcatEmptySeq
  <2>2. CASE a <= n
    <3>1. v[a + 1] = u[a + 1] /\ u[a + 1] \in Seq(Records)
      BY <1>1, <1>3, <2>2
    <3>2. u[n + 1] = u[a + 1] \o F
      BY <1>1, <1>4, <1>8, <2>2
    <3>3. G = IF r.stream \in w THEN Append(F, r) ELSE F
      BY <1>1, <1>2, <1>8, <2>2
    <3>4. Append(u[a + 1] \o F, r) = u[a + 1] \o Append(F, r)
      BY <1>2, <3>1, RecordsConcat, Zenon
    <3>5. CASE r.stream \in w
      <4>1. v[n + 2] = Append(u[n + 1], r) /\ G = Append(F, r)
        BY <1>7, <3>3, <3>5
      <4> QED
        BY <3>1, <3>2, <3>4, <4>1, Zenon
    <3>6. CASE r.stream \notin w
      <4>1. v[n + 2] = u[n + 1] /\ G = F
        BY <1>7, <3>3, <3>6
      <4> QED
        BY <3>1, <3>2, <4>1, Zenon
    <3> QED
      BY <3>5, <3>6
  <2> QED
    BY <1>1, <1>8, <2>1, <2>2
<1>9. ASSUME NEW j \in 1..Len(G)
      PROVE  /\ a < G[j].cursor /\ G[j].cursor <= n + 1
             /\ v[G[j].cursor + 1] = v[a + 1] \o SubSeq(G, 1, j)
  <2>1. Len(F) \in Nat
    BY <1>2, LenProperties
  <2>2. CASE j \in 1..Len(F)
    <3>1. G[j] = F[j] /\ SubSeq(G, 1, j) = SubSeq(F, 1, j)
      <4>1. j \in 0..Len(F)
        BY <2>1, <2>2
      <4> QED
        BY <1>2, <2>2, <4>1, AppendProperties, PrefixOfAppend
    <3>2. F[j].cursor \in Nat
      <4>1. F[j] \in Records
        BY <1>2, <2>2, ElementOfSeq
      <4> QED
        BY <4>1 DEF Records
    <3>3. /\ a < F[j].cursor /\ F[j].cursor <= n
          /\ u[F[j].cursor + 1] = u[a + 1] \o SubSeq(F, 1, j)
      BY <1>4, <2>2
    <3>4. \A c \in Nat : c <= n => v[c + 1] = u[c + 1]
      <4> SUFFICES ASSUME NEW c \in Nat, c <= n PROVE v[c + 1] = u[c + 1]
        OBVIOUS
      <4>1. c + 1 \in Nat /\ ~(n + 1 < c + 1)
        BY <1>1
      <4> QED
        BY <1>3, <4>1
    <3>5. a <= n
      BY <1>1, <3>2, <3>3
    <3>6. v[F[j].cursor + 1] = u[F[j].cursor + 1] /\ v[a + 1] = u[a + 1]
      BY <3>2, <3>3, <3>4, <3>5, Zenon
    <3>7. F[j].cursor <= n + 1
      BY <1>1, <3>2, <3>3
    <3> QED
      BY <3>1, <3>3, <3>6, <3>7, Zenon
  <2>3. CASE j \notin 1..Len(F)
    <3>1. In /\ G = Append(F, r)
      BY <1>2, <2>3
    <3>2. Len(G) = Len(F) + 1 /\ G[Len(F) + 1] = r /\ G \in Seq(Records)
      BY <1>2, <3>1, AppendProperties
    <3>3. j = Len(G) /\ G[j].cursor = n + 1
      BY <2>1, <2>3, <3>2 DEF n
    <3>4. SubSeq(G, 1, j) = G
      BY <3>2, <3>3, SubSeqFull
    <3>5. a < n + 1 /\ n + 1 < b /\ a <= n + 1 /\ n + 1 <= n + 1 /\ (n + 1) + 1 = n + 2
      BY <1>1, <3>1
    <3>6. v[n + 2] = v[a + 1] \o G
      BY <1>8, <3>5
    <3> QED
      BY <3>3, <3>4, <3>5, <3>6, Zenon
  <2> QED
    BY <2>2, <2>3
<1> QED
  BY <1>1, <1>5, <1>6, <1>8, <1>9 DEF Follows, n, g, G, v

LEMMA NumberedFollows ==
  ASSUME NEW f \in Seq(Records), Numbered(f), NEW w, NEW a \in Nat, NEW b \in Nat
  PROVE  Follows(f, w, a, b)
<1> DEFINE T == {s \in Seq(Records) : Numbered(s) => Follows(s, w, a, b)}
<1>1. <<>> \in T
  BY FollowsEmpty, EmptySeq
<1>2. ASSUME NEW s \in Seq(Records), NEW r \in Records, s \in T
      PROVE  Append(s, r) \in T
  <2>1. /\ Append(s, r) \in Seq(Records)
        /\ Len(s) \in Nat /\ Len(Append(s, r)) = Len(s) + 1
        /\ \A i \in 1..Len(s) : Append(s, r)[i] = s[i]
        /\ Append(s, r)[Len(s) + 1] = r
    BY AppendProperties, LenProperties
  <2>2. Numbered(Append(s, r)) => Numbered(s) /\ r.cursor = Len(s) + 1
    BY <2>1 DEF Numbered
  <2> QED
    BY <1>2, <2>1, <2>2, FollowsAppend
<1> HIDE DEF T
<1>3. Seq(Records) \subseteq T
  BY <1>1, <1>2, SequenceInduction
<1> QED
  BY <1>3 DEF T

(* Whoever adds to the file adds the record that is being written.          *)
LEMMA FileGrows ==
  ASSUME RecordingInv, [LogNext]_logVars
  PROVE  \/ file' = file
         \/ /\ chunk # NoChunk /\ stage \notin {"mark", "gone"}
            /\ file' = Append(file, NewRecord)
<1> USE DEF RecordingInv, StageInv
<1>1. CASE FlushRecord
  BY <1>1 DEF FlushRecord
<1>2. CASE Fail
  BY <1>2 DEF Fail, Receiving
<1>3. CASE Readers
  BY <1>3 DEF Readers, Capture, ReaderEnds, diskVars
<1>4. CASE \/ RecordRunning \/ CreateLog \/ BeginRecord \/ LoopStep \/ EndStep
           \/ Crash \/ ClientStep
  BY <1>4 DEF RecordRunning, CreateLog, BeginRecord, LoopStep, Drained, Poll,
     StillRunning, ReapLeader, EndStep, SpawnFails, Finish, DrainTimesOut, MarkFailed,
     Crash, ClientStep, LookAtState, ReadFile, diskVars
<1>5. CASE UNCHANGED logVars
  BY <1>5 DEF logVars, diskVars
<1> QED
  BY <1>1, <1>2, <1>3, <1>4, <1>5 DEF LogNext, SupervisorStep, WriterStep

LEMMA ClientAlone ==
  ASSUME [LogNext]_logVars
  PROVE  ClientStep \/ UNCHANGED client
BY DEF LogNext, logVars, Readers, Capture, ReaderEnds, SupervisorStep, WriterStep, LoopStep,
   EndStep, SpawnFails, RecordRunning, CreateLog, BeginRecord, FlushRecord, Drained,
   Poll, StillRunning, ReapLeader, Finish, DrainTimesOut, Fail, MarkFailed, Crash

(* A client's own variables, and what it has been given so far. *)
FollowInv ==
  /\ LogTypeOK
  /\ client.after <= Len(file)
  /\ ReadersFollowTheLog

LEMMA NextPage ==
  ASSUME RecordingInv, FollowInv
  PROVE  /\ Page \in Seq(Records)
         /\ NextAfter \in Nat /\ NextAfter <= Len(file)
         /\ client.got \o Page = Between(file, client.wanted, 0, NextAfter + 1)
<1> DEFINE w == client.wanted
           a == client.after
           b == client.view.next_cursor
           found == Between(file, w, a, b)
           before == UpTo(file, w)
           n == IF HasMore THEN Limit ELSE Len(found)
<1>1. a \in Nat /\ b \in Nat /\ client.got \in Seq(Records) /\ a <= Len(file)
  BY DEF FollowInv, LogTypeOK, Views
<1>2. file \in Seq(Records) /\ Numbered(file) /\ Len(file) \in Nat
  BY LenProperties DEF FollowInv, LogTypeOK, RecordingTypeOK, RecordingInv, FileInv, Numbered
<1>3. found \in Seq(Records) /\ Len(found) \in Nat
  BY <1>2, BetweenType, LenProperties
<1>4. /\ \A c \in Nat : before[c] = Between(file, w, 0, c)
      /\ \A j \in 1..Len(found) :
           /\ a < found[j].cursor /\ found[j].cursor <= Len(file)
           /\ before[found[j].cursor + 1] = before[a + 1] \o SubSeq(found, 1, j)
  <2>1. Follows(file, w, a, b)
    BY <1>1, <1>2, NumberedFollows
  <2>2. \A c \in Nat : before[c] = Between(file, w, 0, c)
    BY DEF UpTo
  <2> HIDE DEF before, found
  <2>3. \A j \in 1..Len(found) :
           /\ a < found[j].cursor /\ found[j].cursor <= Len(file)
           /\ before[found[j].cursor + 1] = before[a + 1] \o SubSeq(found, 1, j)
    BY <2>1, Zenon DEF Follows, before, found
  <2> QED
    BY <2>2, <2>3
<1>5. client.got = before[a + 1]
  <2>1. a + 1 \in Nat
    BY <1>1
  <2> QED
    BY <1>4, <2>1 DEF FollowInv, ReadersFollowTheLog
<1>6. Selected = found
  BY DEF Selected
<1>7. n \in 0..Len(found) /\ Page = SubSeq(found, 1, n)
  <2>1. Limit \in Nat
    BY LogCaptureAssumption
  <2>2. HasMore => Limit <= Len(found)
    BY <1>3, <1>6, <2>1 DEF HasMore
  <2>3. Page = SubSeq(found, 1, n)
    BY <1>6 DEF Page
  <2> QED
    BY <1>3, <2>1, <2>2, <2>3
<1> HIDE DEF n, found, before
<1>8. CASE n = 0
  <2>1. Page = <<>>
    BY <1>7, <1>8, SubSeqEmpty
  <2>2. NextAfter = a
    BY <2>1 DEF NextAfter
  <2>3. client.got \o <<>> = client.got
    BY <1>1, ConcatEmptySeq
  <2> QED
    BY <1>1, <2>1, <2>2, <2>3, EmptySeq DEF FollowInv, ReadersFollowTheLog
<1>9. CASE n # 0
  <2>1. n \in 1..Len(found)
    BY <1>3, <1>7, <1>9
  <2>2. \A i \in 1..n : found[i] \in Records
    BY <1>3, <2>1
  <2>3. Page \in Seq(Records) /\ Len(Page) = n /\ Page[n] = found[n]
    BY <1>7, <2>1, <2>2, SubSeqProperties
  <2>4. NextAfter = found[n].cursor
    <3>1. Page # <<>>
      BY <2>1, <2>3, EmptySeq
    <3> QED
      BY <2>3, <3>1 DEF NextAfter
  <2>5. found[n].cursor \in Nat
    BY <2>1, <2>2 DEF Records
  <2>6. /\ found[n].cursor <= Len(file)
        /\ before[found[n].cursor + 1] = client.got \o Page
    BY <1>4, <1>5, <1>7, <2>1
  <2>7. before[found[n].cursor + 1] = Between(file, w, 0, found[n].cursor + 1)
    <3>1. found[n].cursor + 1 \in Nat
      BY <2>5
    <3> QED
      BY <1>4, <3>1
  <2> QED
    BY <2>3, <2>4, <2>5, <2>6, <2>7
<1> QED
  BY <1>8, <1>9

LEMMA FollowStep ==
  ASSUME IndInv, FollowInv, [LogNext]_logVars
  PROVE  FollowInv'
<1> USE DEF FollowInv
<1>1. RecordingTypeOK' /\ RecordingInv /\ Len(file) \in Nat /\ file \in Seq(Records)
  BY NextIndInv, LenProperties DEF IndInv, RecordingTypeOK
<1>2. CASE UNCHANGED client
  <2>1. LogTypeOK'
    BY <1>1, <1>2 DEF LogTypeOK
  <2>2. CASE file' = file
    BY <1>2, <2>1, <2>2 DEF ReadersFollowTheLog
  <2>3. CASE /\ chunk # NoChunk /\ stage \notin {"mark", "gone"}
             /\ file' = Append(file, NewRecord)
    <3>1. NewRecord \in Records /\ NewRecord.cursor = Len(file) + 1
      BY <1>1, <2>3, RecordType DEF RecordingInv, FileInv, IndInv
    <3>2. Len(file') = Len(file) + 1
      BY <1>1, <2>3, <3>1, AppendProperties
    <3>3. client.after \in Nat
      BY DEF LogTypeOK
    <3>4. ~(NewRecord.cursor < client.after + 1)
      BY <1>1, <3>1, <3>3
    <3>5. Between(file', client.wanted, 0, client.after + 1)
            = Between(file, client.wanted, 0, client.after + 1)
      BY <1>1, <2>3, <3>1, <3>4, BetweenAppend
    <3> QED
      BY <1>1, <1>2, <2>1, <3>2, <3>3, <3>5 DEF ReadersFollowTheLog
  <2> QED
    BY <1>1, <2>2, <2>3, FileGrows
<1>3. CASE LookAtState
  <2>1. durable.status \in Statuses /\ durable.logs.next_cursor \in Nat
    BY DEF IndInv, RecordingTypeOK, Summaries
  <2>2. LogTypeOK' /\ client'.after = client.after /\ client'.wanted = client.wanted
        /\ client'.got = client.got /\ file' = file
    BY <1>1, <1>3, <2>1 DEF LookAtState, LogTypeOK, Views, diskVars
  <2> QED
    BY <2>2 DEF ReadersFollowTheLog
<1>4. CASE ReadFile
  <2>1. /\ Page \in Seq(Records)
        /\ NextAfter \in Nat /\ NextAfter <= Len(file)
        /\ client.got \o Page = Between(file, client.wanted, 0, NextAfter + 1)
    BY <1>1, NextPage
  <2>2. client.got \in Seq(Records) /\ client.after \in Nat
    BY DEF LogTypeOK
  <2>3. client.got \o <<>> = client.got /\ <<>> \in Seq(Records)
    BY <2>2, ConcatEmptySeq, EmptySeq
  <2>4. PICK kind \in {"page", "io", "integrity"}, page \in Seq(Records), after \in Nat :
          /\ Answer(kind, page, after)
          /\ after <= Len(file)
          /\ client.got \o page = Between(file, client.wanted, 0, after + 1)
    BY <1>4, <2>1, <2>2, <2>3 DEF ReadFile, ReadersFollowTheLog
  <2>5. client.got \o page \in Seq(Records)
    BY <2>2, <2>4, ConcatProperties
  <2>6. /\ LogTypeOK' /\ client'.after = after /\ client'.wanted = client.wanted
        /\ client'.got = client.got \o page /\ file' = file
    BY <1>1, <1>4, <2>4, <2>5 DEF ReadFile, Answer, LogTypeOK, Views, diskVars
  <2> QED
    BY <2>4, <2>6 DEF ReadersFollowTheLog
<1> QED
  BY <1>2, <1>3, <1>4, ClientAlone DEF ClientStep

LEMMA FollowInitially == LogInit => FollowInv
<1> SUFFICES ASSUME LogInit PROVE FollowInv
  OBVIOUS
<1>1. file = <<>> /\ client.after = 0 /\ client.got = <<>>
  BY DEF LogInit
<1>2. LogTypeOK
  <2>1. /\ [status |-> "starting", next_cursor |-> 1] \in Views
        /\ <<>> \in Seq(Records)
        /\ \A w \in {Streams} \cup {{s} : s \in Streams} : w \in SUBSET Streams
    BY EmptySeq DEF Views, Statuses
  <2>2. PICK at \in {"absent", "state"}, w \in {Streams} \cup {{s} : s \in Streams} :
          client = [at |-> at, wanted |-> w,
                    view |-> [status |-> "starting", next_cursor |-> 1],
                    after |-> 0, got |-> <<>>, answer |-> "none"]
    BY DEF LogInit
  <2>3. client \in [at : {"absent", "state", "file"}, wanted : SUBSET Streams,
                    view : Views, after : Nat, got : Seq(Records),
                    answer : {"none", "page", "io", "integrity"}]
    BY <2>1, <2>2
  <2> QED
    BY <2>3, InitRecordingType DEF LogTypeOK
<1> QED
  BY <1>1, <1>2, EmptySeq, BetweenEmpty DEF FollowInv, ReadersFollowTheLog

(* The recording and the client that follows it are well typed. *)
THEOREM LogTypeCorrect == LogSpec => []LogTypeOK
<1>1. LogInit => IndInv /\ FollowInv
  BY InitRecordingType, InitRecordingInv, FollowInitially DEF IndInv
<1>2. IndInv /\ FollowInv /\ [LogNext]_logVars => (IndInv /\ FollowInv)'
  BY NextIndInv, FollowStep
<1>3. FollowInv => LogTypeOK
  BY DEF FollowInv
<1> QED
  BY <1>1, <1>2, <1>3, PTL DEF LogSpec

(* procherd logs, request by request, gives every record of the streams     *)
(* asked for once and in order, up to the cursor it returns, however the    *)
(* file grows in between and wherever a page ends.                          *)
THEOREM PagesFollowTheLog == LogSpec => []ReadersFollowTheLog
<1>1. LogInit => IndInv /\ FollowInv
  BY InitRecordingType, InitRecordingInv, FollowInitially DEF IndInv
<1>2. IndInv /\ FollowInv /\ [LogNext]_logVars => (IndInv /\ FollowInv)'
  BY NextIndInv, FollowStep
<1>3. FollowInv => ReadersFollowTheLog
  BY DEF FollowInv
<1> QED
  BY <1>1, <1>2, <1>3, PTL DEF LogSpec

-----------------------------------------------------------------------------
(* LogCapture implements LogContract. *)

(* Nothing at or beyond the second cursor is found between two cursors.     *)
LEMMA BetweenWithin ==
  ASSUME NEW f \in Seq(Records), NEW w, NEW a \in Nat, NEW b \in Nat
  PROVE  \A j \in 1..Len(Between(f, w, a, b)) : Between(f, w, a, b)[j].cursor < b
<1> DEFINE Within(q) == \A j \in 1..Len(q) : q[j].cursor < b
           T == {s \in Seq(Records) : Within(Between(s, w, a, b))}
<1>1. <<>> \in T
  BY BetweenEmpty, EmptySeq
<1>2. ASSUME NEW s \in Seq(Records), NEW r \in Records, s \in T
      PROVE  Append(s, r) \in T
  <2> DEFINE q == Between(s, w, a, b)
  <2>1. q \in Seq(Records) /\ Within(q)
    BY <1>2, BetweenType
  <2>2. \/ Between(Append(s, r), w, a, b) = q
        \/ r.cursor < b /\ Between(Append(s, r), w, a, b) = Append(q, r)
    BY BetweenAppend
  <2> HIDE DEF q
  <2>3. r.cursor < b => Within(Append(q, r))
    <3>1. /\ Len(q) \in Nat /\ Len(Append(q, r)) = Len(q) + 1
          /\ \A i \in 1..Len(q) : Append(q, r)[i] = q[i]
          /\ Append(q, r)[Len(q) + 1] = r
      BY <2>1, AppendProperties, LenProperties
    <3> QED
      BY <2>1, <3>1
  <2>4. Append(s, r) \in Seq(Records)
    BY AppendProperties
  <2> HIDE DEF Within
  <2> QED
    BY <2>1, <2>2, <2>3, <2>4, Zenon
<1> HIDE DEF T
<1>3. Seq(Records) \subseteq T
  BY <1>1, <1>2, SequenceInduction
<1> QED
  BY <1>3 DEF T

(* The next request starts at the same cursor or at that of a record found. *)
LEMMA NextAfterWithin ==
  ASSUME RecordingInv, FollowInv
  PROVE  /\ client.after <= NextAfter
         /\ NextAfter = client.after \/ NextAfter < client.view.next_cursor
<1> DEFINE w == client.wanted
           a == client.after
           b == client.view.next_cursor
           found == Between(file, w, a, b)
<1>1. a \in Nat /\ b \in Nat /\ file \in Seq(Records) /\ Numbered(file)
  BY DEF FollowInv, LogTypeOK, RecordingTypeOK, Views, RecordingInv, FileInv, Numbered
<1>2. found \in Seq(Records) /\ \A j \in 1..Len(found) : found[j] \in Records
  BY <1>1, BetweenType
<1>3. \A j \in 1..Len(found) : a < found[j].cursor /\ found[j].cursor < b
  <2>1. Follows(file, w, a, b)
    BY <1>1, NumberedFollows
  <2>2. \A j \in 1..Len(found) : a < found[j].cursor
    BY <2>1, Zenon DEF Follows
  <2>3. \A j \in 1..Len(found) : found[j].cursor < b
    BY <1>1, BetweenWithin
  <2> QED
    BY <2>2, <2>3
<1>4. Selected = found /\ Limit \in Nat \ {0}
  BY LogCaptureAssumption DEF Selected
<1> HIDE DEF found
<1>5. Page # <<>> => \E j \in 1..Len(found) : NextAfter = found[j].cursor
  <2> DEFINE n == IF HasMore THEN Limit ELSE Len(found)
  <2>1. n \in 0..Len(found) /\ Page = SubSeq(found, 1, n)
    BY <1>2, <1>4 DEF HasMore, Page
  <2> HIDE DEF n
  <2>2. CASE n = 0
    BY <1>2, <2>1, <2>2, SubSeqEmpty
  <2>3. CASE n # 0
    <3>1. n \in 1..Len(found) /\ \A i \in 1..n : found[i] \in Records
      BY <1>2, <2>1, <2>3
    <3>2. Len(Page) = n /\ Page[n] = found[n]
      BY <2>1, <3>1, SubSeqProperties
    <3> QED
      BY <3>1, <3>2 DEF NextAfter
  <2> QED
    BY <2>2, <2>3
<1>6. CASE Page = <<>>
  BY <1>1, <1>6 DEF NextAfter
<1>7. CASE Page # <<>>
  <2>1. PICK j \in 1..Len(found) : NextAfter = found[j].cursor
    BY <1>5, <1>7
  <2>2. found[j].cursor \in Nat
    BY <1>2 DEF Records
  <2> QED
    BY <1>1, <1>3, <2>1, <2>2
<1> QED
  BY <1>6, <1>7

(* The client's view of the summary is never ahead of it, nor is what it    *)
(* has been given; and the end it has seen is the end of the run.           *)
ServedInv ==
  /\ client.after < durable.logs.next_cursor
  /\ client.at = "file" =>
       /\ client.view.next_cursor <= durable.logs.next_cursor
       /\ client.view.status \in Terminal => durable.status = client.view.status

(* What is recorded of the log only grows, and an end is not recorded over. *)
LEMMA RecordedMoves ==
  ASSUME IndInv, [LogNext]_logVars
  PROVE  /\ durable.logs.next_cursor <= durable'.logs.next_cursor
         /\ durable.status \in Terminal => UNCHANGED durable
<1>1. /\ durable.logs.next_cursor \in Nat /\ summary.next_cursor \in Nat
      /\ durable \in [status : Statuses, logs : Summaries]
      /\ stage \notin {"mark", "gone"} =>
           durable.logs.next_cursor <= summary.next_cursor
      /\ durable.status \in Terminal => stage = "gone"
  BY DEF IndInv, RecordingTypeOK, Summaries, RecordingInv, FileInv, StageInv
<1>2. CASE UNCHANGED durable
  BY <1>1, <1>2
<1>3. CASE SpawnFails \/ RecordRunning \/ MarkFailed
  BY <1>1, <1>3 DEF SpawnFails, RecordRunning, MarkFailed
<1>4. CASE StillRunning \/ Finish
  BY <1>1, <1>4 DEF StillRunning, Finish
<1>5. CASE \/ Readers \/ CreateLog \/ WriterStep \/ Drained \/ Poll \/ ReapLeader
           \/ DrainTimesOut \/ Fail \/ Crash \/ ClientStep \/ UNCHANGED logVars
  BY <1>2, <1>5 DEF Readers, Capture, ReaderEnds, CreateLog, WriterStep, BeginRecord,
     FlushRecord, Drained, Poll, ReapLeader, DrainTimesOut, Fail, Crash, ClientStep,
     LookAtState, ReadFile, logVars, diskVars
<1> QED
  BY <1>3, <1>4, <1>5 DEF LogNext, SupervisorStep, LoopStep, EndStep

LEMMA ServedStep ==
  ASSUME IndInv, FollowInv, ServedInv, [LogNext]_logVars
  PROVE  ServedInv'
<1>1. /\ durable.logs.next_cursor \in Nat /\ durable'.logs.next_cursor \in Nat
      /\ client.after \in Nat /\ client.view.next_cursor \in Nat
  <2>1. RecordingTypeOK /\ RecordingTypeOK'
    BY NextIndInv DEF IndInv
  <2> QED
    BY <2>1 DEF RecordingTypeOK, Summaries, FollowInv, LogTypeOK, Views
<1>2. CASE UNCHANGED client
  BY <1>1, <1>2, RecordedMoves DEF ServedInv
<1>3. CASE LookAtState
  <2>1. /\ client'.after = client.after /\ UNCHANGED durable
        /\ client'.view = [status |-> durable.status,
                           next_cursor |-> durable.logs.next_cursor]
    BY <1>3 DEF LookAtState, FollowInv, LogTypeOK, diskVars
  <2> QED
    BY <1>1, <2>1 DEF ServedInv
<1>4. CASE ReadFile
  <2>1. client.at = "file" /\ UNCHANGED durable
    BY <1>4 DEF ReadFile, diskVars
  <2>2. PICK kind, page, after :
          Answer(kind, page, after) /\ after \in {client.after, NextAfter}
    BY <1>4 DEF ReadFile
  <2>3. client'.at = "state" /\ client'.after = after
    BY <2>2 DEF Answer, FollowInv, LogTypeOK
  <2>4. NextAfter < durable.logs.next_cursor
    <3>1. NextAfter \in Nat
      BY NextPage DEF IndInv
    <3>2. RecordingInv
      BY DEF IndInv
    <3> QED
      BY <1>1, <2>1, <3>1, <3>2, NextAfterWithin DEF ServedInv
  <2> QED
    BY <2>1, <2>2, <2>3, <2>4 DEF ServedInv
<1> QED
  BY <1>2, <1>3, <1>4, ClientAlone DEF ClientStep

LEMMA ServedInitially == LogInit => ServedInv
BY DEF LogInit, NewSummary, ServedInv

LEMMA SameFlattening == \A q : Log!FlattenSeq(q) = FlattenSeq(q)
BY DEF Log!FlattenSeq, FlattenSeq

(* What the reader is owed according to the contract is what it has.        *)
LEMMA WantedIsBetween ==
  ASSUME IndInv, NEW n \in Nat
  PROVE  Log!Wanted(n) = Between(file, client.wanted, 0, n + 1)
<1>1. Len(file) \in Nat /\ \A i \in 1..Len(file) : file[i].cursor = i
  BY DEF IndInv, RecordingTypeOK, RecordingInv, FileInv
<1>2. \A i \in 1..Len(file) : i <= n <=> 0 < file[i].cursor /\ file[i].cursor < n + 1
  BY <1>1
<1>3. \A i \in 1..Len(file) :
        (i <= n /\ file[i].stream \in client.wanted)
          <=> (0 < file[i].cursor /\ file[i].cursor < n + 1
                 /\ file[i].stream \in client.wanted)
  BY <1>2
<1> DEFINE Owed(i) == IF i <= n /\ file[i].stream \in client.wanted
                      THEN <<file[i]>> ELSE <<>>
           Had(i) == IF /\ 0 < file[i].cursor /\ file[i].cursor < n + 1
                        /\ file[i].stream \in client.wanted
                     THEN <<file[i]>> ELSE <<>>
<1>4. [i \in 1..Len(file) |-> Owed(i)] = [i \in 1..Len(file) |-> Had(i)]
  <2>1. \A i \in 1..Len(file) : Owed(i) = Had(i)
    BY <1>3
  <2> HIDE DEF Owed, Had
  <2> QED
    BY <2>1
<1> QED
  BY <1>4, SameFlattening, Zenon DEF Log!Wanted, Between

(* Reading is the business of one client, and the log knows nothing of it.  *)
LEMMA ClientKeepsContract ==
  ASSUME IndInv, FollowInv, FollowInv', ServedInv, ServedInv', ClientStep
  PROVE  Log!Next \/ UNCHANGED Log!vars
<1>1. UNCHANGED <<file, durable, stage>>
  BY DEF ClientStep, LookAtState, ReadFile, diskVars
<1>2. LogTypeOK /\ client.after \in Nat /\ client.got \in Seq(Records)
      /\ DOMAIN client = {"at", "wanted", "view", "after", "got", "answer"}
  BY DEF FollowInv, LogTypeOK
<1>3. CASE LookAtState
  <2>1. client' = [client EXCEPT !.at = "file", !.answer = "none",
                     !.view = [status |-> durable.status,
                               next_cursor |-> durable.logs.next_cursor]]
    BY <1>3 DEF LookAtState
  <2>2. /\ client'.answer = "none" /\ client'.wanted = client.wanted
        /\ client'.after = client.after /\ client'.got = client.got
    BY <1>2, <2>1
  <2> QED
    BY <1>1, <2>2 DEF Log!Next, Log!AskAgain
<1>4. CASE ReadFile
  <2>1. client.at = "file" /\ client.answer = "none"
    BY <1>4 DEF ReadFile, IndInv, RecordingInv, ViewInv
  <2>2. PICK kind, page, after :
          /\ Answer(kind, page, after)
          /\ \/ kind \in {"page", "io"} /\ page = <<>> /\ after = client.after
             \/ kind = "integrity" /\ page = <<>> /\ after = client.after /\ Damaged
             \/ kind = "page" /\ page = Page /\ after = NextAfter
    BY <1>4 DEF ReadFile
  <2>3. /\ client'.answer = kind /\ client'.wanted = client.wanted
        /\ client'.after = after /\ client'.got = client.got \o page
    BY <1>2, <2>2 DEF Answer
  <2>4. client.got \o <<>> = client.got
    BY <1>2, ConcatEmptySeq
  <2>5. CASE kind \in {"page", "io"} /\ page = <<>> /\ after = client.after
    BY <1>1, <2>1, <2>3, <2>4, <2>5 DEF Log!vars
  <2>6. CASE kind = "integrity" /\ page = <<>> /\ after = client.after /\ Damaged
    <3>1. client.view.status = "failed"
      BY <2>1, <2>6, OnlyFailedDamaged DEF IndInv
    <3>2. stage = "gone" /\ durable.status = "failed"
      BY <2>1, <3>1 DEF ServedInv, Terminal, IndInv, RecordingInv, StageInv
    <3> QED
      BY <1>1, <2>3, <2>4, <2>6, <3>2 DEF Log!Next, Log!Refuse
  <2>7. CASE kind = "page" /\ page = Page /\ after = NextAfter
    <3>1. NextAfter \in Nat /\ client.after <= NextAfter
      BY NextPage, NextAfterWithin DEF IndInv
    <3>2. client'.got = Between(file, client.wanted, 0, NextAfter + 1)
      BY <1>1, <2>3, <2>7 DEF FollowInv, ReadersFollowTheLog
    <3>3. client'.got = Log!Wanted(client'.after)
      BY <2>3, <2>7, <3>1, <3>2, WantedIsBetween
    <3>4. client'.after < durable.logs.next_cursor
      BY <1>1 DEF ServedInv
    <3> QED
      BY <1>1, <2>1, <2>3, <2>7, <3>1, <3>3, <3>4 DEF Log!Next, Log!Read
  <2> QED
    BY <2>2, <2>5, <2>6, <2>7
<1> QED
  BY <1>3, <1>4 DEF ClientStep

LEMMA StepKeepsLog ==
  ASSUME IndInv, FollowInv, FollowInv', ServedInv, ServedInv', [LogNext]_logVars
  PROVE  [Log!Next]_Log!vars
<1>1. /\ durable \in [status : Statuses, logs : Summaries]
      /\ stage # "gone" => durable.status # "exited"
      /\ stage \notin {"mark", "gone"} => summary.next_cursor = Len(file) + 1
  BY DEF IndInv, RecordingTypeOK, RecordingInv, FileInv, StageInv, Terminal
<1>2. CASE ClientStep
  BY <1>2, ClientKeepsContract
<1>3. CASE UNCHANGED <<file, durable, client>> /\ (stage # "gone" /\ stage' # "gone")
  BY <1>3 DEF Log!vars
<1>4. CASE FlushRecord \/ Fail
  <2>1. UNCHANGED <<durable, client>> /\ stage # "gone" /\ stage' # "gone"
    BY <1>4 DEF FlushRecord, Fail, Receiving, Unwind, Goto, IndInv, RecordingInv, StageInv
  <2>2. CASE file' = file
    BY <1>3, <2>1, <2>2
  <2>3. CASE /\ chunk # NoChunk /\ stage \notin {"mark", "gone"}
             /\ file' = Append(file, NewRecord)
    <3>1. /\ Len(file') = Len(file) + 1
          /\ \A i \in 1..Len(file') : file'[i].cursor = i
      BY <2>3, WrittenFile DEF IndInv, RecordingInv
    <3>2. Log!Front(file') = file
      BY <2>3, RecordType, FrontOfAppend DEF IndInv, RecordingTypeOK, Log!Front
    <3>3. Log!Last(file').cursor = Len(file')
      <4>1. Len(file') \in 1..Len(file')
        BY <3>1, LenProperties DEF IndInv, RecordingTypeOK
      <4> QED
        BY <3>1, <4>1 DEF Log!Last
    <3> QED
      BY <2>1, <3>1, <3>2, <3>3 DEF Log!Next, Log!Extend, Log!readerVars
  <2> QED
    BY <2>2, <2>3, FileGrows DEF IndInv
<1>5. CASE StillRunning \/ Finish
  <2>1. /\ UNCHANGED <<file, client>> /\ stage \notin {"mark", "gone"}
        /\ \/ UNCHANGED durable /\ stage' # "gone"
           \/ /\ durable'.logs.next_cursor = summary.next_cursor
              /\ stage' # "gone" \/ durable'.status = "exited"
    BY <1>1, <1>5 DEF StillRunning, Finish, Goto
  <2> QED
    BY <1>1, <1>3, <2>1 DEF Log!Next, Log!Commit, Log!readerVars
<1>6. CASE RecordRunning
  <2>1. /\ UNCHANGED <<file, client>> /\ stage # "gone" /\ stage' # "gone"
        /\ durable'.logs = durable.logs
    BY <1>1, <1>6 DEF RecordRunning, Goto
  <2> QED
    BY <2>1 DEF Log!vars
<1>7. CASE SpawnFails \/ MarkFailed \/ Crash
  <2>1. /\ UNCHANGED <<file, client>> /\ stage # "gone" /\ stage' = "gone"
        /\ durable'.logs = durable.logs /\ durable'.status # "exited"
    BY <1>1, <1>7 DEF SpawnFails, MarkFailed, Crash, Goto, diskVars
  <2> QED
    BY <2>1 DEF Log!Next, Log!Abandon, Log!readerVars
<1>8. CASE \/ Readers \/ CreateLog \/ BeginRecord \/ Drained \/ Poll \/ ReapLeader
           \/ DrainTimesOut
  BY <1>3, <1>8 DEF Readers, Capture, ReaderEnds, Receiving, CreateLog, BeginRecord,
     Drained, Poll, ReapLeader, DrainTimesOut, Unwind, Goto, diskVars
<1>9. CASE UNCHANGED logVars
  BY <1>9 DEF logVars, diskVars, Log!vars
<1> QED
  BY <1>2, <1>4, <1>5, <1>6, <1>7, <1>8, <1>9
     DEF LogNext, SupervisorStep, WriterStep, LoopStep, EndStep

(* Recording and reading together implement LogContract: whatever fails or  *)
(* is killed, the log only grows, state.json covers what is written and     *)
(* complete at an orderly end, and a reader gets each record of its streams *)
(* once, in order and only once committed, and is refused a log only if its *)
(* supervisor left it unfinished.                                           *)
THEOREM CaptureKeepsContract == LogSpec => LogKeepsContract
<1>1. LogInit => Log!Init
  BY DEF LogInit, NewSummary, Log!Init
<1>2. LogInit => IndInv /\ FollowInv /\ ServedInv
  BY InitRecordingType, InitRecordingInv, FollowInitially, ServedInitially DEF IndInv
<1>3. IndInv /\ FollowInv /\ ServedInv /\ [LogNext]_logVars
        => (IndInv /\ FollowInv /\ ServedInv)'
  BY NextIndInv, FollowStep, ServedStep
<1>4. /\ IndInv /\ FollowInv /\ ServedInv /\ (IndInv /\ FollowInv /\ ServedInv)'
      /\ [LogNext]_logVars
      => [Log!Next]_Log!vars
  BY StepKeepsLog
<1> QED
  BY <1>1, <1>2, <1>3, <1>4, PTL DEF LogSpec, LogKeepsContract, Log!Spec

=============================================================================
