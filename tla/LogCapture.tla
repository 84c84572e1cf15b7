------------------------------ MODULE LogCapture ------------------------------
(***************************************************************************)
(* A run's output on its way from the child to the user (src/logs.rs and   *)
(* the loop of src/supervisor.rs): two readers, the bounded channel, the   *)
(* LogWriter with its retention budget, logs.ndjson, the summary of it in  *)
(* state.json, and a client that pages through it with procherd logs.      *)
(*                                                                         *)
(* The file runs ahead of the summary, which the supervisor records only   *)
(* now and then: what a reader may believe is a matter of both.            *)
(***************************************************************************)
EXTENDS Integers, SequencesExt

CONSTANTS
  Outputs,     \* what children write: sequences of bytes, one per stream
  MaxBytes,    \* --max-log-bytes
  Capacity,    \* LOG_CHANNEL_CAPACITY
  Batch,       \* LOG_DRAIN_BATCH_CHUNKS
  ChunkBytes,  \* READ_CHUNK_BYTES
  Limit,       \* logs --limit
  Faults       \* "spawn": the child cannot be started; "read": a reader meets
               \* an error; "io": a write or try_wait fails; "crash"

Streams == {"stdout", "stderr"}
Bytes == UNION {{o[s][i] : i \in DOMAIN o[s]} : o \in Outputs, s \in Streams}

ASSUME LogCaptureAssumption ==
  /\ Outputs \subseteq [Streams -> Seq(Bytes)]
  /\ MaxBytes \in Nat
  /\ {Capacity, Batch, ChunkBytes, Limit} \subseteq Nat \ {0}
  /\ Faults \subseteq {"spawn", "read", "io", "crash"}

VARIABLES
  output,   \* what this child writes, and
  taken,    \* how much of it has been read
  reader,   \* the state of each reader thread
  channel,  \* the chunks on their way to the supervisor
  stage,    \* where the supervisor is
  drained,  \* chunks taken in this pass of its loop
  chunk,    \* the chunk being recorded, if any
  summary,  \* LogWriter's own summary
  created,  \* logs.ndjson exists
  file,     \* its complete records
  torn,     \* it ends in an incomplete line
  durable,  \* status and summary in state.json
  client    \* the procherd logs that follows the run

childVars == <<output, taken, reader>>
diskVars == <<created, file, torn, durable>>
logVars == <<childVars, channel, stage, drained, chunk, summary, diskVars, client>>

Chunks == [stream : Streams, bytes : Seq(Bytes)]
Records == [cursor : Nat, stream : Streams, bytes : Seq(Bytes)]
Summaries == [next_cursor : Nat, captured : Nat, dropped : Nat]
NoChunk == [stream |-> "none", bytes |-> <<>>]

Terminal == {"exited", "failed"}
Statuses == {"starting", "running"} \cup Terminal
Views == [status : Statuses, next_cursor : Nat]

RecordingTypeOK ==
  /\ output \in Outputs
  /\ taken \in [Streams -> Nat]
  /\ \A s \in Streams : taken[s] <= Len(output[s])
  /\ reader \in [Streams -> {"reading", "closed", "error"}]
  /\ channel \in Seq(Chunks)
  /\ Len(channel) <= Capacity
  /\ stage \in {"spawn", "create", "drain", "poll", "wait", "close", "mark",
                "gone"}
  /\ drained \in 0..Batch
  /\ chunk \in Chunks \cup {NoChunk}
  /\ summary \in Summaries
  /\ created \in BOOLEAN
  /\ file \in Seq(Records)
  /\ torn \in BOOLEAN
  /\ durable \in [status : Statuses, logs : Summaries]

LogTypeOK ==
  /\ RecordingTypeOK
  /\ client \in [at : {"absent", "state", "file"}, wanted : SUBSET Streams,
                 view : Views, after : Nat, got : Seq(Records),
                 answer : {"none", "page", "io", "integrity"}]

NewSummary == [next_cursor |-> 1, captured |-> 0, dropped |-> 0]

LogInit ==
  /\ output \in Outputs
  /\ taken = [s \in Streams |-> 0]
  /\ reader = [s \in Streams |-> "reading"]
  /\ channel = <<>>
  /\ stage = "spawn" /\ drained = 0 /\ chunk = NoChunk
  /\ summary = NewSummary
  /\ created = FALSE /\ file = <<>> /\ torn = FALSE
  /\ durable = [status |-> "starting", logs |-> NewSummary]
  /\ client \in
       [at : {"absent", "state"}, wanted : {Streams} \cup {{s} : s \in Streams},
        view : {[status |-> "starting", next_cursor |-> 1]},
        after : {0}, got : {<<>>}, answer : {"none"}]

-----------------------------------------------------------------------------
(* The reader threads.  A chunk that is read but finds the channel full is  *)
(* as good as unread: nobody else can see it.                               *)

Receiving == stage \in {"create", "drain", "poll", "wait", "close"}

(* Seeded fault: a channel without a bound. *)
Capture_Unbounded(s) ==
  /\ Receiving /\ reader[s] = "reading"
  /\ \E n \in 1..ChunkBytes :
       /\ taken[s] + n <= Len(output[s])
       /\ taken' = [taken EXCEPT ![s] = @ + n]
       /\ channel' = Append(channel,
            [stream |-> s, bytes |-> SubSeq(output[s], taken[s] + 1, taken[s] + n)])
  /\ UNCHANGED <<output, reader, stage, drained, chunk, summary, diskVars, client>>

Capture(s) ==
  /\ Receiving /\ reader[s] = "reading"
  /\ Len(channel) < Capacity
  /\ \E n \in 1..ChunkBytes :
       /\ taken[s] + n <= Len(output[s])
       /\ taken' = [taken EXCEPT ![s] = @ + n]
       /\ channel' = Append(channel,
            [stream |-> s, bytes |-> SubSeq(output[s], taken[s] + 1, taken[s] + n)])
  /\ UNCHANGED <<output, reader, stage, drained, chunk, summary, diskVars, client>>

(* Every process that had the pipe open has closed it; or the read fails.   *)
ReaderEnds(s) ==
  /\ Receiving /\ reader[s] = "reading"
  /\ \/ taken[s] = Len(output[s]) /\ reader' = [reader EXCEPT ![s] = "closed"]
     \/ /\ "read" \in Faults /\ taken[s] < Len(output[s])
        /\ reader' = [reader EXCEPT ![s] = "error"]
  /\ UNCHANGED <<output, taken, channel, stage, drained, chunk, summary,
                 diskVars, client>>

-----------------------------------------------------------------------------
(* The supervisor.  "running" stands for running and stopping, "exited" for *)
(* exited and stopped: control does not touch the logs.                     *)

Goto(next) == stage' = next

SpawnFails ==
  /\ stage = "spawn" /\ "spawn" \in Faults
  /\ durable' = [durable EXCEPT !.status = "failed"]
  /\ Goto("gone")
  /\ UNCHANGED <<childVars, channel, drained, chunk, summary, created, file, torn, client>>

(* The child runs and state.json says so before logs.ndjson exists.         *)
RecordRunning ==
  /\ stage = "spawn"
  /\ durable' = [durable EXCEPT !.status = "running"]
  /\ Goto("create")
  /\ UNCHANGED <<childVars, channel, drained, chunk, summary, created, file, torn, client>>

CreateLog ==
  /\ stage = "create"
  /\ created' = TRUE
  /\ Goto("drain")
  /\ UNCHANGED <<childVars, channel, drained, chunk, summary, file, torn, durable,
                 client>>

(* Seeded fault: the last bytes of a chunk are kept instead of the first. *)
Capturable_Last(bytes) ==
  SubSeq(bytes, IF Len(bytes) <= MaxBytes - summary.captured
                THEN 1 ELSE Len(bytes) - (MaxBytes - summary.captured) + 1, Len(bytes))

(* The part of a chunk that the budget has room for. *)
Capturable(bytes) ==
  SubSeq(bytes, 1, IF Len(bytes) <= MaxBytes - summary.captured
                   THEN Len(bytes) ELSE MaxBytes - summary.captured)

(* The next chunk comes out of the channel, and its line goes into the file *)
(* in as many writes as it takes.                                           *)
BeginRecord ==
  /\ (stage = "drain" /\ drained < Batch) \/ stage = "close"
  /\ chunk = NoChunk /\ channel # <<>>
  /\ chunk' = Head(channel)
  /\ channel' = Tail(channel)
  /\ drained' = IF stage = "drain" THEN drained + 1 ELSE drained
  /\ torn' = (Capturable(Head(channel).bytes) # <<>>)
  /\ UNCHANGED <<childVars, stage, summary, created, file, durable, client>>

NewRecord == [cursor |-> summary.next_cursor, stream |-> chunk.stream,
              bytes |-> Capturable(chunk.bytes)]
Counted ==
  LET kept == Len(Capturable(chunk.bytes)) IN
  [next_cursor |-> summary.next_cursor + (IF kept = 0 THEN 0 ELSE 1),
   captured |-> summary.captured + kept,
   dropped |-> summary.dropped + Len(chunk.bytes) - kept]

(* Seeded fault: the line stays in the writer's buffer. *)
FlushRecord_Buffered ==
  /\ chunk # NoChunk
  /\ UNCHANGED file
  /\ torn' = FALSE
  /\ summary' = Counted
  /\ chunk' = NoChunk
  /\ UNCHANGED <<childVars, channel, stage, drained, created, durable, client>>

FlushRecord ==
  /\ chunk # NoChunk
  /\ file' = IF Capturable(chunk.bytes) = <<>> THEN file ELSE Append(file, NewRecord)
  /\ torn' = FALSE
  /\ summary' = Counted
  /\ chunk' = NoChunk
  /\ UNCHANGED <<childVars, channel, stage, drained, created, durable, client>>

(* drain_available stops at an empty channel or after a full batch. *)
Drained ==
  /\ stage = "drain" /\ chunk = NoChunk
  /\ channel = <<>> \/ drained = Batch
  /\ Goto("poll")
  /\ UNCHANGED <<childVars, channel, drained, chunk, summary, diskVars, client>>

(* Readiness is polled here; Monitoring.tla says how. *)
Poll ==
  /\ stage = "poll"
  /\ Goto("wait")
  /\ UNCHANGED <<childVars, channel, drained, chunk, summary, diskVars, client>>

(* Seeded fault: the count of the batch goes on from pass to pass. *)
StillRunning_CountsOn ==
  /\ stage = "wait"
  /\ durable' \in {durable, [durable EXCEPT !.logs = summary]}
  /\ Goto("drain")
  /\ UNCHANGED <<childVars, channel, drained, chunk, summary, created, file, torn, client>>

(* try_wait finds the leader running; every 250 ms the summary is recorded. *)
StillRunning ==
  /\ stage = "wait"
  /\ durable' \in {durable, [durable EXCEPT !.logs = summary]}
  /\ Goto("drain")
  /\ drained' = 0
  /\ UNCHANGED <<childVars, channel, chunk, summary, created, file, torn, client>>

ReapLeader ==
  /\ stage = "wait"
  /\ Goto("close")
  /\ UNCHANGED <<childVars, channel, drained, chunk, summary, diskVars, client>>

(* Seeded fault: an empty channel counts as a closed one. *)
Disconnected_Empty == channel = <<>>

(* recv says Disconnected: both senders are gone and nothing is left.       *)
Disconnected == channel = <<>> /\ \A s \in Streams : reader[s] # "reading"

(* drain_until_closed succeeds and the run's end is recorded. *)
Finish ==
  /\ stage = "close" /\ chunk = NoChunk /\ Disconnected
  /\ durable' = [status |-> "exited", logs |-> summary]
  /\ Goto("gone")
  /\ UNCHANGED <<childVars, channel, drained, chunk, summary, created, file, torn, client>>

(* The receiver is dropped as supervise_locked returns with an error. *)
Unwind ==
  /\ Goto("mark")
  /\ channel' = <<>>
  /\ chunk' = NoChunk

(* Seeded fault: a drain that goes on until the pipes close. *)
DrainTimesOut_Never == FALSE /\ UNCHANGED logVars

(* LOG_DRAIN_LIMIT has passed: log_drain_timeout. *)
DrainTimesOut ==
  /\ stage = "close" /\ chunk = NoChunk /\ ~Disconnected
  /\ Unwind
  /\ UNCHANGED <<childVars, drained, summary, diskVars, client>>

(* Any other error.  A record that was being written is in the file in full *)
(* or in part or not at all, whatever BufWriter had passed on and still     *)
(* passes on as it is dropped.                                              *)
Fail ==
  /\ "io" \in Faults
  /\ stage = "spawn" \/ Receiving
  /\ Unwind
  /\ \/ file' = file /\ torn' \in {FALSE, torn}
     \/ torn /\ file' = Append(file, NewRecord) /\ torn' = FALSE
  /\ UNCHANGED <<childVars, drained, summary, created, durable, client>>

(* mark_supervisor_failed: the summary stays what it was in state.json. *)
MarkFailed ==
  /\ stage = "mark"
  /\ \/ durable' = [durable EXCEPT !.status = "failed"]
     \/ "io" \in Faults /\ UNCHANGED durable
  /\ Goto("gone")
  /\ UNCHANGED <<childVars, channel, drained, chunk, summary, created, file, torn, client>>

(* The supervisor is killed; what it had not written is lost. *)
Crash ==
  /\ "crash" \in Faults /\ stage # "gone"
  /\ Goto("gone")
  /\ channel' = <<>>
  /\ chunk' = NoChunk
  /\ UNCHANGED <<childVars, drained, summary, diskVars, client>>

-----------------------------------------------------------------------------
(* procherd logs: reads state.json, and then logs.ndjson up to the cursor   *)
(* that it found there.                                                     *)

LookAtState ==
  /\ client.at = "state"
  /\ client' = [client EXCEPT !.at = "file", !.answer = "none",
                             !.view = [status |-> durable.status,
                                       next_cursor |-> durable.logs.next_cursor]]
  /\ UNCHANGED <<childVars, channel, stage, drained, chunk, summary, diskVars>>

(* The records of some streams between two cursors. *)
Between(records, streams, after, next) ==
  FlattenSeq([i \in 1..Len(records) |->
                IF /\ after < records[i].cursor /\ records[i].cursor < next
                   /\ records[i].stream \in streams
                THEN <<records[i]>> ELSE <<>>])

(* The records asked for: after the cursor, of the stream, and within the   *)
(* summary.                                                                 *)
Selected == Between(file, client.wanted, client.after, client.view.next_cursor)
HasMore == Len(Selected) > Limit
Page == SubSeq(Selected, 1, IF HasMore THEN Limit ELSE Len(Selected))

(* Seeded fault: the next request starts at the end of the summary. *)
NextAfter_Boundary == client.view.next_cursor - 1

NextAfter == IF Page = <<>> THEN client.after ELSE Page[Len(Page)].cursor

OutOfOrder ==
  \E i \in 1..Len(file) - 1 : file[i + 1].cursor <= file[i].cursor

(* Seeded fault: a live reader treats what is beyond the summary as damage. *)
Damaged_Strictly ==
  \/ OutOfOrder
  \/ \E i \in 1..Len(file) : file[i].cursor >= client.view.next_cursor

(* What a terminal run must not have: an incomplete line, or a record       *)
(* beyond the summary.  A live reader stops there instead, and a full page  *)
(* ends before it.                                                          *)
Damaged ==
  \/ OutOfOrder
  \/ /\ client.view.status \in Terminal /\ ~HasMore
     /\ \/ torn
        \/ \E i \in 1..Len(file) : file[i].cursor >= client.view.next_cursor

(* Of the state read only the status is still of interest afterwards. *)
Answer(kind, page, after) ==
  client' = [client EXCEPT !.at = "state", !.answer = kind,
                           !.view.next_cursor = 1,
                           !.got = @ \o page, !.after = after]

ReadFile ==
  /\ client.at = "file"
  /\ \/ /\ ~created
        /\ Answer(IF client.view.status = "starting" THEN "page" ELSE "io",
                  <<>>, client.after)
     \/ /\ created /\ Damaged
        /\ Answer("integrity", <<>>, client.after)
     \/ /\ created /\ ~Damaged
        /\ Answer("page", Page, NextAfter)
  /\ UNCHANGED <<childVars, channel, stage, drained, chunk, summary, diskVars>>

-----------------------------------------------------------------------------
Readers == \E s \in Streams : Capture(s) \/ ReaderEnds(s)

WriterStep == BeginRecord \/ FlushRecord
LoopStep == Drained \/ Poll \/ StillRunning \/ ReapLeader
EndStep == SpawnFails \/ Finish \/ DrainTimesOut \/ MarkFailed
SupervisorStep == RecordRunning \/ CreateLog \/ WriterStep \/ LoopStep \/ EndStep

ClientStep == LookAtState \/ ReadFile

LogNext == Readers \/ SupervisorStep \/ Fail \/ Crash \/ ClientStep

LogSpec == LogInit /\ [][LogNext]_logVars

-----------------------------------------------------------------------------
(* The inductive invariant behind SummaryIsWritten and                      *)
(* OnlyFailedRunsLookDamaged.                                               *)

(* The file is numbered from 1; the writer's summary counts all of it until *)
(* an error, and the recorded one never more than that.                     *)
FileInv ==
  /\ \A i \in 1..Len(file) : file[i].cursor = i
  /\ durable.logs.next_cursor <= Len(file) + 1
  /\ summary.captured <= MaxBytes /\ durable.logs.captured <= MaxBytes
  /\ stage \notin {"mark", "gone"} => summary.next_cursor = Len(file) + 1

(* What the place the supervisor has come to says of the status, the file   *)
(* and the chunk in hand.                                                   *)
StageInv ==
  /\ durable.status = "starting" => stage \in {"spawn", "mark", "gone"}
  /\ stage = "spawn" => durable.status = "starting"
  /\ durable.status \in Terminal => stage = "gone"
  /\ stage \in {"drain", "poll", "wait", "close"} => created
  /\ chunk # NoChunk => stage \in {"drain", "close"}
  /\ torn => chunk # NoChunk \/ stage \in {"mark", "gone"}

(* An orderly end covers the whole file. *)
EndInv ==
  durable.status = "exited" =>
    created /\ ~torn /\ durable.logs.next_cursor = Len(file) + 1

(* A view of an orderly end is still the state of the run. *)
ViewInv ==
  client.at = "file" =>
    /\ client.answer = "none"
    /\ client.view.status = "exited" =>
         /\ durable.status = "exited"
         /\ client.view.next_cursor = durable.logs.next_cursor

-----------------------------------------------------------------------------
(* What the client has been given is exactly what it asked for, up to the   *)
(* cursor it holds: pages neither skip nor repeat a record, although the    *)
(* file grows between two requests and a page may end anywhere.             *)
ReadersFollowTheLog ==
  client.got = Between(file, client.wanted, 0, client.after + 1)

(* A client is told of damage only if the run was recorded as failed: no    *)
(* live reader takes an uncommitted or half-written record for corruption,  *)
(* an orphan's log stays readable, and that of a run that ended in order    *)
(* lies within its final summary.  Nor does it miss the file of a run that  *)
(* ended in order.                                                          *)
OnlyFailedRunsLookDamaged ==
  /\ client.answer = "integrity" => client.view.status = "failed"
  /\ client.answer = "io" => client.view.status \in {"running", "failed"}

(* What state.json says of the log is in the file, whatever becomes of the  *)
(* supervisor: records are flushed before the summary that covers them, so  *)
(* the first of them have just the cursors that it counts.                  *)
SummaryIsWritten ==
  /\ durable.logs.next_cursor <= Len(file) + 1
  /\ \A i \in 1..Len(file) : file[i].cursor = i
  /\ durable.logs.captured <= MaxBytes

(* The log as its readers may rely on it, through every way the supervisor  *)
(* can end: it grows by whole numbered records, a summary in state.json     *)
(* covers just those written so far, the last one of an orderly end all of  *)
(* them, a reader is given each committed record of its streams once, and   *)
(* damage is reported only of a log whose supervisor did not finish it.     *)
Log == INSTANCE LogContract WITH
  records <- file,
  boundary <- durable.logs.next_cursor,
  phase <- IF stage # "gone" THEN "open"
           ELSE IF durable.status = "exited" THEN "complete" ELSE "abandoned",
  wanted <- client.wanted,
  after <- client.after,
  given <- client.got,
  refused <- client.answer = "integrity"

LogKeepsContract == Log!Spec

RecordingInv ==
  FileInv /\ StageInv /\ EndInv /\ ViewInv /\ OnlyFailedRunsLookDamaged

(* docs/CONTRACT.md: "A terminal result can still be read after the         *)
(* supervisor has exited."                                                  *)
TerminalLogsReadable ==
  client.answer # "none" /\ client.view.status \in Terminal => client.answer = "page"
=============================================================================
