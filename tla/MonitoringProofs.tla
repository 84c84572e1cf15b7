--------------------------- MODULE MonitoringProofs ---------------------------
(***************************************************************************)
(* The supervisor that also looks for readiness still records as           *)
(* LogCapture.tla says, what it retains is a prefix of what the child      *)
(* wrote, an orderly end leaves nothing out, and a check has passed just   *)
(* when the retained bytes say so: for all outputs, budgets, chunks, lists *)
(* of checks and sets of faults.                                           *)
(***************************************************************************)
EXTENDS Monitoring, LogCaptureProofs

(* Readiness restricts when the recording steps are taken and adds none.    *)
LEMMA StepIsLogStep == [Next]_vars => [LogNext]_logVars
<1> SUFFICES ASSUME Next PROVE LogNext \/ UNCHANGED logVars
  BY DEF vars
<1>1. CASE LoopSteps
  <2>1. CASE RecordChunk \/ PollReadiness \/ FinishRun
    BY <2>1 DEF RecordChunk, PollReadiness, FinishRun, LogNext, SupervisorStep,
       WriterStep, LoopStep, EndStep
  <2>2. CASE OtherSteps
    BY <2>2 DEF OtherSteps, LogNext, SupervisorStep, WriterStep, LoopStep, EndStep
  <2> QED
    BY <1>1, <2>1, <2>2 DEF LoopSteps
<1>2. CASE Surroundings
  BY <1>2 DEF Surroundings, LogNext
<1>3. CASE World
  BY <1>3 DEF World
<1> QED
  BY <1>1, <1>2, <1>3 DEF Next

-----------------------------------------------------------------------------
(* A verdict that has fallen stays, with its evidence, in the tracker; what *)
(* state.json has of it is what the tracker has.                            *)

PublishedInv ==
  /\ verdict = "ready" => met = DOMAIN checks
  /\ published.verdict # "pending" => published = [met |-> met, verdict |-> verdict]

(* The tracker's step, if it takes one.                                     *)
Tracked ==
  /\ UNCHANGED checks
  /\ verdict # "pending" => UNCHANGED <<met, verdict>>
  /\ verdict' = "ready" /\ verdict # "ready" => met' = DOMAIN checks

LEMMA TrackerSteps ==
  /\ \A s, b : R!ObserveLog(s, b) => Tracked
  /\ R!PollDue \/ R!PollEarly => Tracked
  /\ R!ProcessExited => Tracked
<1>1. ASSUME NEW s, NEW b, R!ObserveLog(s, b) PROVE Tracked
  <2>1. CASE verdict # "pending"
    BY <1>1, <2>1 DEF R!ObserveLog, R!readinessVars, R!trackerVars, R!worldVars, Tracked
  <2>2. CASE verdict = "pending"
    <3>1. /\ verdict' = R!FinishIfReady(met')
          /\ UNCHANGED checks
      BY <1>1, <2>2 DEF R!ObserveLog, R!worldVars
    <3> QED
      BY <2>2, <3>1 DEF R!FinishIfReady, Tracked
  <2> QED
    BY <2>1, <2>2
<1>2. ASSUME R!PollDue PROVE Tracked
  <2>1. verdict = "pending" /\ UNCHANGED checks
    BY <1>2 DEF R!PollDue, R!TimeOut, R!Probe, R!worldVars
  <2>2. \/ verdict' = "timed_out"
        \/ verdict' = R!FinishIfReady(met')
        \/ verdict' = verdict
        \/ verdict' = R!FinishIfReady(met) /\ met' = met
    BY <1>2 DEF R!PollDue, R!TimeOut, R!Probe
  <2> QED
    BY <2>1, <2>2 DEF R!FinishIfReady, Tracked
<1>3. ASSUME R!PollEarly PROVE Tracked
  BY <1>3 DEF R!PollEarly, R!readinessVars, R!trackerVars, R!worldVars, Tracked
<1>4. ASSUME R!ProcessExited PROVE Tracked
  BY <1>4 DEF R!ProcessExited, R!worldVars, Tracked
<1> QED
  BY <1>1, <1>2, <1>3, <1>4

(* Every step moves the tracker or leaves it, and publishes what it then    *)
(* has or nothing.                                                          *)
LEMMA StepIsTracked ==
  ASSUME [Next]_vars
  PROVE  Tracked /\ (Publish \/ UNCHANGED published)
<1>1. CASE RecordChunk
  BY <1>1, TrackerSteps DEF RecordChunk
<1>2. CASE PollReadiness
  BY <1>2, TrackerSteps DEF PollReadiness
<1>3. CASE FinishRun
  BY <1>3, TrackerSteps DEF FinishRun
<1>4. CASE OtherSteps /\ UNCHANGED <<readinessVars, published>>
  BY <1>4 DEF readinessVars, Tracked
<1>5. CASE Surroundings
  BY <1>5 DEF Surroundings, readinessVars, Tracked
<1>6. CASE World
  BY <1>6 DEF World, R!DeadlinePasses, R!ServiceChanges, R!trackerVars, Tracked
<1>7. CASE UNCHANGED vars
  BY <1>7 DEF vars, readinessVars, Tracked
<1> QED
  BY <1>1, <1>2, <1>3, <1>4, <1>5, <1>6, <1>7 DEF Next, LoopSteps

LEMMA PublishedInitially == Init => PublishedInv
BY DEF Init, R!ReadinessInit, PublishedInv

LEMMA PublishedStep == PublishedInv /\ [Next]_vars => PublishedInv'
<1> SUFFICES ASSUME PublishedInv, [Next]_vars PROVE PublishedInv'
  OBVIOUS
<1>1. Tracked /\ (Publish \/ UNCHANGED published)
  BY StepIsTracked
<1>2. verdict' = "ready" => met' = (DOMAIN checks)'
  BY <1>1 DEF Tracked, PublishedInv
<1>3. published'.verdict # "pending" => published' = [met |-> met', verdict |-> verdict']
  <2>1. CASE Publish
    BY <2>1 DEF Publish
  <2>2. CASE UNCHANGED published
    BY <1>1, <2>2 DEF Tracked, PublishedInv
  <2> QED
    BY <1>1, <2>1, <2>2
<1> QED
  BY <1>2, <1>3 DEF PublishedInv

-----------------------------------------------------------------------------
(* The supervisor's loop with readiness in it is an implementation of log   *)
(* capture: observing and polling readiness never disturbs the recording.   *)
THEOREM MonitoringRecords == SafeSpec => LogSpec
<1>1. Init => LogInit
  BY DEF Init
<1> QED
  BY <1>1, StepIsLogStep, PTL DEF SafeSpec, LogSpec

(* What state.json says of logs.ndjson is there, also while readiness is    *)
(* polled and after a crash (LogWriter::record flushes first).              *)
THEOREM MonitoredSummaryIsWritten == SafeSpec => []SummaryIsWritten
BY MonitoringRecords, SummaryIsAlwaysWritten, PTL

(* read_logs never takes what a live supervisor is about to commit for      *)
(* damage.                                                                  *)
THEOREM MonitoredDamageMeansFailure == SafeSpec => []OnlyFailedRunsLookDamaged
BY MonitoringRecords, DamageMeansFailure, PTL

(* With readiness in the loop, logs.ndjson, its summary and its readers     *)
(* still keep what LogContract promises.                                    *)
THEOREM MonitoringKeepsLogContract == SafeSpec => LogKeepsContract
BY MonitoringRecords, CaptureKeepsContract

(* A readiness verdict that wait, status or start could have read in        *)
(* state.json is never taken back, and ready has evidence for every check,  *)
(* whatever the deadline, the child's exit and failures do afterwards.      *)
THEOREM PublishedVerdictIsFinal == SafeSpec => VerdictIsFinal
<1> DEFINE Final == /\ published.verdict # "pending" => published' = published
                    /\ published'.verdict = "ready" => published'.met = DOMAIN checks
<1>1. PublishedInv /\ [Next]_vars => Final
  <2> SUFFICES ASSUME PublishedInv, [Next]_vars PROVE Final
    OBVIOUS
  <2>1. Tracked /\ (Publish \/ UNCHANGED published) /\ PublishedInv'
    BY StepIsTracked, PublishedStep
  <2>2. published.verdict # "pending" => published' = published
    BY <2>1 DEF Tracked, Publish, PublishedInv
  <2>3. published'.verdict = "ready" => published'.met = DOMAIN checks
    BY <2>1 DEF Tracked, PublishedInv
  <2> QED
    BY <2>2, <2>3
<1> QED
  BY <1>1, PublishedInitially, PublishedStep, PTL DEF SafeSpec, VerdictIsFinal

-----------------------------------------------------------------------------
(* The bytes of a stream, in the file and in the channel. *)

(* Chunks and records alike. *)
Pieces == Chunks \cup Records

LEMMA PieceType ==
  /\ \A x \in Pieces : x.bytes \in Seq(Bytes)
  /\ Chunks \subseteq Pieces /\ Records \subseteq Pieces
  /\ Seq(Chunks) \subseteq Seq(Pieces) /\ Seq(Records) \subseteq Seq(Pieces)
<1>1. Chunks \subseteq Pieces /\ Records \subseteq Pieces
  BY DEF Pieces
<1>2. \A x \in Pieces : x.bytes \in Seq(Bytes)
  BY DEF Pieces, Chunks, Records
<1> QED
  BY <1>1, <1>2, SeqMonotonic

Share(x, s) == IF x.stream = s THEN x.bytes ELSE <<>>
Shares(q, s) == [i \in 1..Len(q) |-> Share(q[i], s)]

LEMMA BytesOfShares ==
  ASSUME NEW q \in Seq(Pieces), NEW s
  PROVE  /\ BytesOf(q, s) = FlattenSeq(Shares(q, s))
         /\ Shares(q, s) \in Seq(Seq(Bytes)) /\ Len(Shares(q, s)) = Len(q)
         /\ BytesOf(q, s) \in Seq(Bytes)
         /\ \A i \in 1..Len(q) : Shares(q, s)[i] = Share(q[i], s)
<1>1. BytesOf(q, s) = FlattenSeq(Shares(q, s))
  BY DEF BytesOf, Shares, Share
<1>2. \A x \in Pieces : Share(x, s) \in Seq(Bytes)
  BY PieceType, EmptySeq DEF Share
<1>3. Len(q) \in Nat /\ \A i \in 1..Len(q) : q[i] \in Pieces
  BY LenProperties
<1>4. Shares(q, s) \in Seq(Seq(Bytes)) /\ Len(Shares(q, s)) = Len(q)
  BY <1>2, <1>3 DEF Shares
<1>5. \A i \in 1..Len(q) : Shares(q, s)[i] = Share(q[i], s)
  BY DEF Shares
<1> QED
  BY <1>1, <1>4, <1>5, FlattenType

LEMMA BytesOfNothing ==
  ASSUME NEW s
  PROVE  BytesOf(<<>>, s) = <<>>
BY FlattenEmpty DEF BytesOf

LEMMA BytesAppend ==
  ASSUME NEW q \in Seq(Pieces), NEW x \in Pieces, NEW s
  PROVE  BytesOf(Append(q, x), s) = BytesOf(q, s) \o Share(x, s)
<1> DEFINE g == Append(q, x)
           p == Shares(q, s)
           r == Shares(g, s)
<1>1. /\ g \in Seq(Pieces) /\ Len(q) \in Nat /\ Len(g) = Len(q) + 1
      /\ \A i \in 1..Len(q) : g[i] = q[i]
      /\ g[Len(q) + 1] = x
  BY AppendProperties, LenProperties
<1> HIDE DEF g
<1>2. /\ p \in Seq(Seq(Bytes)) /\ Len(p) = Len(q)
      /\ r \in Seq(Seq(Bytes)) /\ Len(r) = Len(q) + 1
      /\ Share(x, s) \in Seq(Bytes)
  BY <1>1, BytesOfShares, PieceType, EmptySeq DEF Share
<1>3. /\ Append(p, Share(x, s)) \in Seq(Seq(Bytes))
      /\ Len(Append(p, Share(x, s))) = Len(q) + 1
      /\ \A i \in 1..Len(q) : Append(p, Share(x, s))[i] = p[i]
      /\ Append(p, Share(x, s))[Len(q) + 1] = Share(x, s)
  BY <1>2, AppendProperties
<1>4. ASSUME NEW i \in 1..Len(q) + 1 PROVE r[i] = Append(p, Share(x, s))[i]
  <2>1. r[i] = Share(g[i], s)
    BY <1>1, BytesOfShares
  <2>2. CASE i \in 1..Len(q)
    <3>1. p[i] = Share(q[i], s)
      BY <2>2, BytesOfShares
    <3> QED
      BY <1>1, <1>3, <2>1, <2>2, <3>1
  <2>3. CASE i = Len(q) + 1
    BY <1>1, <1>3, <2>1, <2>3
  <2>4. i \in 1..Len(q) \/ i = Len(q) + 1
    BY <1>1
  <2> QED
    BY <2>2, <2>3, <2>4, Zenon
<1> HIDE DEF r, p
<1>5. r = Append(p, Share(x, s))
  BY <1>2, <1>3, <1>4, SeqEqual
<1>6. FlattenSeq(r) = FlattenSeq(p) \o Share(x, s)
  BY <1>2, <1>5, FlattenAppend
<1>7. BytesOf(g, s) = FlattenSeq(r) /\ BytesOf(q, s) = FlattenSeq(p)
  BY <1>1, BytesOfShares DEF p, r
<1> QED
  BY <1>6, <1>7 DEF g

LEMMA BytesConcat ==
  \A a, b, c \in Seq(Bytes) : (a \o b) \o c = a \o (b \o c)
BY ConcatAssociative

LEMMA BytesHead ==
  ASSUME NEW q \in Seq(Pieces), q # <<>>, NEW s
  PROVE  BytesOf(q, s) = Share(Head(q), s) \o BytesOf(Tail(q), s)
<1> DEFINE T == {t \in Seq(Pieces) :
                   t # <<>> => BytesOf(t, s) = Share(Head(t), s) \o BytesOf(Tail(t), s)}
<1>1. <<>> \in T
  BY EmptySeq
<1>2. ASSUME NEW t \in Seq(Pieces), NEW x \in Pieces, t \in T
      PROVE  Append(t, x) \in T
  <2>1. /\ Append(t, x) \in Seq(Pieces) /\ BytesOf(Append(t, x), s) = BytesOf(t, s) \o Share(x, s)
        /\ Share(x, s) \in Seq(Bytes)
    BY AppendProperties, BytesAppend, PieceType, EmptySeq DEF Share
  <2>2. CASE t = <<>>
    <3>1. Head(Append(t, x)) = x /\ Tail(Append(t, x)) = <<>>
      BY <2>2, HeadTailAppend
    <3>2. <<>> \o Share(x, s) = Share(x, s) /\ Share(x, s) \o <<>> = Share(x, s)
      BY <2>1, ConcatEmptySeq
    <3>3. BytesOf(Append(t, x), s) = Share(x, s)
      BY <2>1, <2>2, <3>2, BytesOfNothing, Zenon
    <3>4. Share(Head(Append(t, x)), s) \o BytesOf(Tail(Append(t, x)), s) = Share(x, s)
      BY <3>1, <3>2, BytesOfNothing, Zenon
    <3> QED
      BY <2>1, <3>3, <3>4, Zenon
  <2>3. CASE t # <<>>
    <3>1. /\ Head(Append(t, x)) = Head(t) /\ Tail(Append(t, x)) = Append(Tail(t), x)
          /\ Head(t) \in Pieces /\ Tail(t) \in Seq(Pieces)
      BY <2>3, HeadTailAppend, HeadTailProperties
    <3>2. /\ BytesOf(Append(Tail(t), x), s) = BytesOf(Tail(t), s) \o Share(x, s)
          /\ BytesOf(Tail(t), s) \in Seq(Bytes) /\ Share(Head(t), s) \in Seq(Bytes)
      <4>1. BytesOf(Append(Tail(t), x), s) = BytesOf(Tail(t), s) \o Share(x, s)
        BY <3>1, BytesAppend
      <4>2. BytesOf(Tail(t), s) \in Seq(Bytes)
        BY <3>1, BytesOfShares
      <4>3. Share(Head(t), s) \in Seq(Bytes)
        BY <3>1, PieceType, EmptySeq DEF Share
      <4> QED
        BY <4>1, <4>2, <4>3
    <3>3. BytesOf(t, s) = Share(Head(t), s) \o BytesOf(Tail(t), s)
      BY <1>2, <2>3
    <3> DEFINE a == Share(Head(t), s)
               b == BytesOf(Tail(t), s)
               c == Share(x, s)
    <3>4. a \in Seq(Bytes) /\ b \in Seq(Bytes) /\ c \in Seq(Bytes)
      BY <2>1, <3>2
    <3> HIDE DEF a, b, c
    <3>5. (a \o b) \o c = a \o (b \o c)
      BY <3>4, BytesConcat, Zenon
    <3>6. BytesOf(Append(t, x), s) = Share(Head(Append(t, x)), s) \o BytesOf(Tail(Append(t, x)), s)
      BY <2>1, <3>1, <3>2, <3>3, <3>5, Zenon DEF a, b, c
    <3> QED
      BY <2>1, <3>6, Zenon
  <2> QED
    BY <2>2, <2>3
<1> HIDE DEF T
<1>3. Seq(Pieces) \subseteq T
  BY <1>1, <1>2, SequenceInduction
<1> QED
  BY <1>3 DEF T

-----------------------------------------------------------------------------
(* RetainedIsPrefix.  What has been taken from a stream and is not recorded *)
(* yet is in the hand of the writer and in the channel; the rest is done    *)
(* with, recorded or dropped.                                               *)

Unrecorded(s) == Share(chunk, s) \o BytesOf(channel, s)
Done(s) == taken[s] - Len(Unrecorded(s))
Kept(s) == IF chunk.stream = s THEN Capturable(chunk.bytes) ELSE <<>>

(* The first bytes of a text, one by one. *)
Begins(text, whole) ==
  Len(text) <= Len(whole) /\ \A i \in 1..Len(text) : text[i] = whole[i]

PrefixInv == \A s \in Streams : Begins(Retained(s), output[s])

StreamInv(s) ==
  /\ Done(s) \in Nat
  /\ \A i \in 1..Len(Unrecorded(s)) : Unrecorded(s)[i] = output[s][Done(s) + i]
  /\ Len(Retained(s)) <= Done(s)
  /\ summary.captured < MaxBytes => Len(Retained(s)) = Done(s)

BudgetInv ==
  stage \notin {"mark", "gone"} =>
    /\ \A s \in Streams : StreamInv(s)
    /\ summary.captured = Len(Retained("stdout")) + Len(Retained("stderr"))
    /\ summary.captured + summary.dropped = Done("stdout") + Done("stderr")

LEMMA CapturableShape ==
  ASSUME RecordingTypeOK, summary.captured <= MaxBytes, NEW b \in Seq(Bytes)
  PROVE  /\ Capturable(b) \in Seq(Bytes) /\ Len(Capturable(b)) <= Len(b)
         /\ \A i \in 1..Len(Capturable(b)) : Capturable(b)[i] = b[i]
         /\ Len(Capturable(b)) < Len(b) =>
              summary.captured + Len(Capturable(b)) = MaxBytes
         /\ Len(Capturable(b)) > 0 => summary.captured < MaxBytes
<1> DEFINE n == IF Len(b) <= MaxBytes - summary.captured
                THEN Len(b) ELSE MaxBytes - summary.captured
<1>0. Len(b) \in Nat /\ MaxBytes \in Nat /\ summary.captured \in Nat
  BY LogCaptureAssumption DEF RecordingTypeOK, Summaries
<1>1. /\ n \in Nat /\ n <= Len(b) /\ summary.captured + n <= MaxBytes
      /\ n < Len(b) => summary.captured + n = MaxBytes
      /\ n > 0 => summary.captured < MaxBytes
  BY <1>0
<1>2. Capturable(b) = SubSeq(b, 1, n)
  BY DEF Capturable
<1> HIDE DEF n
<1>3. \A i \in 1..n : b[i] \in Bytes
  BY <1>1
<1>4. /\ SubSeq(b, 1, n) \in Seq(Bytes)
      /\ Len(SubSeq(b, 1, n)) = n
      /\ \A i \in 1..n : SubSeq(b, 1, n)[i] = b[i]
  BY <1>1, <1>3, SubSeqProperties
<1> QED
  BY <1>1, <1>2, <1>4

(* The types of what a stream's bytes are spread over. *)
LEMMA StreamTypes ==
  ASSUME RecordingTypeOK, NEW s \in Streams
  PROVE  /\ Share(chunk, s) \in Seq(Bytes) /\ BytesOf(channel, s) \in Seq(Bytes)
         /\ Retained(s) \in Seq(Bytes) /\ output[s] \in Seq(Bytes)
         /\ Unrecorded(s) \in Seq(Bytes)
         /\ Len(Unrecorded(s)) = Len(Share(chunk, s)) + Len(BytesOf(channel, s))
         /\ taken[s] \in Nat /\ taken[s] <= Len(output[s])
<1>1. Share(chunk, s) \in Seq(Bytes)
  <2>1. chunk.bytes \in Seq(Bytes)
    <3>1. CASE chunk \in Chunks
      BY <3>1 DEF Chunks
    <3>2. CASE chunk = NoChunk
      BY <3>2, EmptySeq DEF NoChunk
    <3> QED
      BY <3>1, <3>2 DEF RecordingTypeOK
  <2> QED
    BY <2>1, EmptySeq DEF Share
<1>2. channel \in Seq(Pieces) /\ file \in Seq(Pieces)
  BY PieceType DEF RecordingTypeOK
<1>3. BytesOf(channel, s) \in Seq(Bytes) /\ BytesOf(file, s) \in Seq(Bytes)
  BY <1>2, BytesOfShares
<1>4. output \in [Streams -> Seq(Bytes)]
  BY LogCaptureAssumption DEF RecordingTypeOK
<1>5. /\ Unrecorded(s) \in Seq(Bytes)
      /\ Len(Unrecorded(s)) = Len(Share(chunk, s)) + Len(BytesOf(channel, s))
  BY <1>1, <1>3, ConcatProperties DEF Unrecorded
<1>6. taken[s] \in Nat /\ taken[s] <= Len(output[s])
  BY DEF RecordingTypeOK
<1> QED
  BY <1>1, <1>3, <1>4, <1>5, <1>6 DEF Retained

LEMMA KeptBytes ==
  ASSUME RecordingTypeOK, FileInv, NEW s \in Streams
  PROVE  /\ Kept(s) \in Seq(Bytes) /\ Len(Kept(s)) <= Len(Share(chunk, s))
         /\ \A i \in 1..Len(Kept(s)) : Kept(s)[i] = Share(chunk, s)[i]
         /\ Len(Kept(s)) > 0 => summary.captured < MaxBytes
         /\ Len(Kept(s)) < Len(Share(chunk, s)) =>
              summary.captured + Len(Kept(s)) = MaxBytes
         /\ Seen(s) = Retained(s) \o Kept(s)
<1>1. CASE chunk.stream = s
  <2>1. chunk \in Chunks /\ chunk.bytes \in Seq(Bytes)
    BY <1>1 DEF RecordingTypeOK, NoChunk, Streams, Chunks
  <2>2. Kept(s) = Capturable(chunk.bytes) /\ Share(chunk, s) = chunk.bytes
    BY <1>1 DEF Kept, Share
  <2>3. Seen(s) = Retained(s) \o Kept(s)
    BY <1>1, <2>2 DEF Seen
  <2> QED
    BY <2>1, <2>2, <2>3, CapturableShape DEF FileInv
<1>2. CASE chunk.stream # s
  <2>1. Kept(s) = <<>> /\ Share(chunk, s) = <<>> /\ Seen(s) = Retained(s)
    BY <1>2 DEF Kept, Share, Seen
  <2>2. Retained(s) = Retained(s) \o <<>>
    BY StreamTypes, ConcatEmptySeq
  <2>3. Len(<<>>) = 0 /\ <<>> \in Seq(Bytes)
    BY EmptySeq
  <2>4. Seen(s) = Retained(s) \o Kept(s)
    BY <2>1, <2>2, Zenon
  <2> QED
    BY <2>1, <2>3, <2>4
<1> QED
  BY <1>1, <1>2

(* With the chunk in hand, what is retained is still a prefix. *)
LEMMA SeenIsPrefix ==
  ASSUME RecordingTypeOK, FileInv, PrefixInv, BudgetInv,
         stage \notin {"mark", "gone"}, NEW s \in Streams
  PROVE  Begins(Seen(s), output[s])
<1> DEFINE r == Retained(s)
           k == Kept(s)
           u == Unrecorded(s)
           o == output[s]
           h == Share(chunk, s)
           b == BytesOf(channel, s)
<1>1. /\ r \in Seq(Bytes) /\ k \in Seq(Bytes) /\ o \in Seq(Bytes)
      /\ h \in Seq(Bytes) /\ b \in Seq(Bytes) /\ Len(u) = Len(h) + Len(b)
      /\ u = h \o b /\ Seen(s) = r \o k
  BY StreamTypes, KeptBytes DEF Unrecorded
<1>2. /\ Len(r) <= Len(o) /\ \A i \in 1..Len(r) : r[i] = o[i]
      /\ Len(k) <= Len(h) /\ \A i \in 1..Len(k) : k[i] = h[i]
      /\ Len(k) > 0 => summary.captured < MaxBytes
  BY KeptBytes DEF PrefixInv, Begins
<1>3. /\ Done(s) = taken[s] - Len(u) /\ taken[s] \in Nat /\ taken[s] <= Len(o)
      /\ Len(k) > 0 => Len(r) = Done(s)
      /\ \A i \in 1..Len(u) : u[i] = o[Done(s) + i]
  BY <1>2, StreamTypes DEF Done, BudgetInv, StreamInv
<1> HIDE DEF r, k, u, o, h, b
<1>4. Len(r) \in Nat /\ Len(k) \in Nat /\ Len(h) \in Nat /\ Len(b) \in Nat /\ Len(o) \in Nat
  BY <1>1, LenProperties
<1>5. \A i \in 1..Len(k) : k[i] = u[i]
  BY <1>1, <1>2, <1>4, ConcatProperties
<1>6. Len(r \o k) = Len(r) + Len(k) /\ \A i \in 1..Len(r) + Len(k) :
        (r \o k)[i] = IF i <= Len(r) THEN r[i] ELSE k[i - Len(r)]
  BY <1>1, ConcatProperties
<1>7. CASE Len(k) = 0
  BY <1>1, <1>2, <1>4, <1>6, <1>7 DEF Begins, o
<1>8. CASE Len(k) > 0
  <2>1. Len(r) = taken[s] - Len(u) /\ Len(r) + Len(k) <= Len(o)
    BY <1>1, <1>2, <1>3, <1>4, <1>8
  <2>2. ASSUME NEW i \in 1..Len(r) + Len(k) PROVE (r \o k)[i] = o[i]
    <3>1. CASE i <= Len(r)
      BY <1>2, <1>4, <1>6, <3>1
    <3>2. CASE ~(i <= Len(r))
      <4> DEFINE j == i - Len(r)
      <4>1. j \in 1..Len(k) /\ j \in 1..Len(u) /\ Len(r) + j = i
        BY <1>1, <1>2, <1>4, <3>2
      <4>2. (r \o k)[i] = k[j]
        BY <1>6, <3>2
      <4> HIDE DEF j
      <4>3. k[j] = u[j] /\ u[j] = o[Done(s) + j] /\ Len(r) = Done(s)
        BY <1>3, <1>5, <1>8, <4>1
      <4> QED
        BY <4>1, <4>2, <4>3
    <3> QED
      BY <3>1, <3>2
  <2> QED
    BY <1>1, <1>6, <2>1, <2>2 DEF Begins, o
<1> QED
  BY <1>4, <1>7, <1>8

(* FlushRecord adds just what was seen. *)
LEMMA RecordedBytes ==
  ASSUME RecordingTypeOK, FileInv, chunk # NoChunk, NEW s \in Streams
  PROVE  /\ BytesOf(Append(file, NewRecord), s) = Seen(s)
         /\ Capturable(chunk.bytes) = <<>> => Retained(s) = Seen(s)
<1>1. NewRecord \in Pieces /\ file \in Seq(Pieces)
  BY RecordType, PieceType DEF RecordingTypeOK, FileInv
<1>2. Share(NewRecord, s) = Kept(s)
  BY DEF Share, NewRecord, Kept
<1>3. BytesOf(Append(file, NewRecord), s) = Retained(s) \o Kept(s)
  BY <1>1, <1>2, BytesAppend DEF Retained
<1>4. Capturable(chunk.bytes) = <<>> => Kept(s) = <<>>
  BY DEF Kept
<1>5. Retained(s) \o <<>> = Retained(s)
  BY StreamTypes, ConcatEmptySeq
<1>6. Seen(s) = Retained(s) \o Kept(s)
  BY KeptBytes
<1> QED
  BY <1>3, <1>4, <1>5, <1>6, Zenon

LEMMA CaptureKeepsBudget ==
  ASSUME RecordingTypeOK, BudgetInv, NEW t \in Streams, Capture(t)
  PROVE  BudgetInv'
<1>1. PICK n \in 1..ChunkBytes :
        /\ taken[t] + n <= Len(output[t])
        /\ taken' = [taken EXCEPT ![t] = @ + n]
        /\ channel' = Append(channel, [stream |-> t,
             bytes |-> SubSeq(output[t], taken[t] + 1, taken[t] + n)])
  BY DEF Capture
<1>2. /\ UNCHANGED <<output, stage, chunk, summary, file>> /\ n \in Nat
      /\ stage \notin {"mark", "gone"}
  BY LogCaptureAssumption DEF Capture, diskVars, Receiving
<1> DEFINE new == SubSeq(output[t], taken[t] + 1, taken[t] + n)
           c == [stream |-> t, bytes |-> new]
<1>3. /\ new \in Seq(Bytes) /\ Len(new) = n
      /\ \A i \in 1..n : new[i] = output[t][taken[t] + i]
  <2> DEFINE o == output[t]
             m == taken[t]
  <2>1. o \in Seq(Bytes) /\ m \in Nat /\ m + n <= Len(o)
    BY <1>1, StreamTypes
  <2> HIDE DEF o, m
  <2>2. /\ SubSeq(o, m + 1, m + n) \in Seq(Bytes)
        /\ Len(SubSeq(o, m + 1, m + n)) = n
        /\ \A i \in 1..n : SubSeq(o, m + 1, m + n)[i] = o[m + i]
    BY <1>2, <2>1, Slice
  <2> QED
    BY <2>2 DEF o, m
<1>4. channel' = Append(channel, c)
  BY <1>1
<1> HIDE DEF new
<1>5. c \in Pieces /\ channel \in Seq(Pieces)
  <2>1. c \in Chunks
    BY <1>3 DEF Chunks
  <2> HIDE DEF c
  <2> QED
    BY <2>1, PieceType DEF RecordingTypeOK
<1>6. ASSUME NEW s \in Streams
      PROVE  StreamInv(s)' /\ Done(s)' = Done(s) /\ Retained(s)' = Retained(s)
  <2> DEFINE u == Unrecorded(s)
             w == Share(c, s)
  <2>1. /\ u \in Seq(Bytes) /\ w \in Seq(Bytes) /\ Len(w) = IF s = t THEN n ELSE 0
        /\ s = t => w = new
    BY <1>3, StreamTypes, EmptySeq DEF Share
  <2>2. Unrecorded(s)' = u \o w
    <3>1. BytesOf(channel', s) = BytesOf(channel, s) \o w
      BY <1>4, <1>5, BytesAppend
    <3> DEFINE a == Share(chunk, s)
               b == BytesOf(channel, s)
    <3>2. a \in Seq(Bytes) /\ b \in Seq(Bytes)
      BY StreamTypes
    <3>3. Unrecorded(s)' = a \o (b \o w) /\ u = a \o b
      BY <1>2, <3>1 DEF Unrecorded
    <3> HIDE DEF a, b, u, w
    <3>4. (a \o b) \o w = a \o (b \o w)
      BY <2>1, <3>2, BytesConcat, Zenon
    <3> QED
      BY <3>3, <3>4, Zenon
  <2>3. /\ taken'[s] = taken[s] + Len(w) /\ taken[s] \in Nat
        /\ Done(s) = taken[s] - Len(u)
    BY <1>1, <2>1 DEF RecordingTypeOK, Done
  <2>4. /\ Done(s) \in Nat /\ \A i \in 1..Len(u) : u[i] = output[s][Done(s) + i]
    BY <1>2 DEF BudgetInv, StreamInv
  <2>5. \A i \in 1..Len(w) : w[i] = output[s][taken[s] + i]
    BY <1>3, <2>1
  <2>6. Retained(s)' = Retained(s)
    BY <1>2 DEF Retained
  <2> HIDE DEF u, w
  <2>7. Len(u) \in Nat /\ Len(w) \in Nat
    BY <2>1, LenProperties
  <2>8. /\ Len(u \o w) = Len(u) + Len(w)
        /\ \A i \in 1..Len(u) + Len(w) :
             (u \o w)[i] = IF i <= Len(u) THEN u[i] ELSE w[i - Len(u)]
    BY <2>1, ConcatProperties
  <2>9. Done(s)' = Done(s)
    <3>1. Done(s)' = taken'[s] - Len(u \o w)
      BY <2>2 DEF Done
    <3> QED
      BY <2>3, <2>7, <2>8, <3>1
  <2>10. ASSUME NEW i \in 1..Len(u) + Len(w) PROVE (u \o w)[i] = output[s][Done(s) + i]
    <3>1. CASE i <= Len(u)
      BY <2>4, <2>7, <2>8, <3>1
    <3>2. CASE ~(i <= Len(u))
      <4> DEFINE j == i - Len(u)
      <4>1. j \in 1..Len(w) /\ taken[s] + j = Done(s) + i
        BY <2>3, <2>7, <3>2
      <4>2. (u \o w)[i] = w[j]
        BY <2>8, <3>2
      <4> HIDE DEF j
      <4>3. w[j] = output[s][taken[s] + j]
        BY <2>5, <4>1
      <4> QED
        BY <4>1, <4>2, <4>3
    <3> QED
      BY <3>1, <3>2
  <2>11. StreamInv(s)
    BY <1>2 DEF BudgetInv
  <2>12. StreamInv(s)'
    <3>1. \A i \in 1..Len(Unrecorded(s)') :
            Unrecorded(s)'[i] = output'[s][Done(s)' + i]
      BY <1>2, <2>2, <2>8, <2>9, <2>10
    <3>2. Done(s)' \in Nat /\ Len(Retained(s)') <= Done(s)'
      BY <2>6, <2>9, <2>11 DEF StreamInv
    <3>3. summary'.captured < MaxBytes => Len(Retained(s)') = Done(s)'
      BY <1>2, <2>6, <2>9, <2>11 DEF StreamInv
    <3> QED
      BY <3>1, <3>2, <3>3 DEF StreamInv
  <2> QED
    BY <2>6, <2>9, <2>12
<1>7. "stdout" \in Streams /\ "stderr" \in Streams
  BY DEF Streams
<1>8. /\ summary'.captured = Len(Retained("stdout"))' + Len(Retained("stderr"))'
      /\ summary'.captured + summary'.dropped = Done("stdout")' + Done("stderr")'
  <2>1. /\ Done("stdout")' = Done("stdout") /\ Done("stderr")' = Done("stderr")
        /\ Retained("stdout")' = Retained("stdout")
        /\ Retained("stderr")' = Retained("stderr")
    BY <1>6, <1>7
  <2> QED
    BY <1>2, <2>1 DEF BudgetInv
<1> QED
  BY <1>6, <1>8 DEF BudgetInv

(* A chunk that comes out of the channel is the next of its stream.         *)
LEMMA BeginKeepsBudget ==
  ASSUME RecordingTypeOK, BudgetInv, BeginRecord
  PROVE  BudgetInv'
<1>1. /\ chunk = NoChunk /\ channel # <<>>
      /\ chunk' = Head(channel) /\ channel' = Tail(channel)
      /\ UNCHANGED <<output, taken, stage, summary, file>>
      /\ stage \notin {"mark", "gone"}
  BY DEF BeginRecord, childVars
<1>2. channel \in Seq(Pieces)
  BY PieceType DEF RecordingTypeOK
<1>3. ASSUME NEW s \in Streams PROVE Unrecorded(s)' = Unrecorded(s)
  <2>1. Share(chunk, s) = <<>> /\ Share(chunk', s) \o BytesOf(channel', s) = BytesOf(channel, s)
    BY <1>1, <1>2, BytesHead DEF Share, NoChunk, Streams
  <2>2. <<>> \o BytesOf(channel, s) = BytesOf(channel, s)
    BY StreamTypes, ConcatEmptySeq
  <2>3. Unrecorded(s) = BytesOf(channel, s)
    BY <2>1, <2>2, Zenon DEF Unrecorded
  <2>4. Unrecorded(s)' = Share(chunk', s) \o BytesOf(channel', s)
    BY DEF Unrecorded
  <2> QED
    BY <2>1, <2>3, <2>4, Zenon
<1>4. ASSUME NEW s \in Streams
      PROVE  /\ Retained(s)' = Retained(s) /\ Done(s)' = Done(s)
             /\ StreamInv(s) => StreamInv(s)'
  <2>1. Retained(s)' = Retained(s) /\ Done(s)' = Done(s)
    BY <1>1, <1>3 DEF Retained, Done
  <2> QED
    BY <1>1, <1>3, <2>1 DEF StreamInv
<1>5. "stdout" \in Streams /\ "stderr" \in Streams
  BY DEF Streams
<1> QED
  BY <1>1, <1>4, <1>5 DEF BudgetInv

LEMMA FlushKeepsBudget ==
  ASSUME RecordingTypeOK, FileInv, StageInv, BudgetInv, FlushRecord
  PROVE  /\ BudgetInv'
         /\ \A s \in Streams : Retained(s)' = Seen(s)
<1>1. /\ chunk # NoChunk /\ chunk' = NoChunk /\ summary' = Counted
      /\ file' = IF Capturable(chunk.bytes) = <<>> THEN file ELSE Append(file, NewRecord)
      /\ UNCHANGED <<output, taken, channel, stage>>
      /\ stage \notin {"mark", "gone"}
  BY DEF FlushRecord, childVars, StageInv
<1>2. ASSUME NEW s \in Streams PROVE Retained(s)' = Seen(s)
  BY <1>1, <1>2, RecordedBytes DEF Retained
<1>3. chunk \in Chunks /\ chunk.stream \in Streams /\ chunk.bytes \in Seq(Bytes)
  BY <1>1 DEF RecordingTypeOK, Chunks
<1> DEFINE k == Len(Capturable(chunk.bytes))
           b == Len(chunk.bytes)
<1>4. /\ k \in Nat /\ b \in Nat /\ k <= b
      /\ k < b => summary.captured + k = MaxBytes
      /\ k > 0 => summary.captured < MaxBytes
  BY <1>3, CapturableShape, LenProperties DEF FileInv
<1>5. /\ summary'.captured = summary.captured + k
      /\ summary'.dropped = summary.dropped + b - k
      /\ summary.captured \in Nat /\ summary.dropped \in Nat
  BY <1>1 DEF Counted, RecordingTypeOK, Summaries
<1>6. ASSUME NEW s \in Streams
      PROVE  /\ StreamInv(s)'
             /\ Done(s)' = Done(s) + (IF s = chunk.stream THEN b ELSE 0)
             /\ Len(Retained(s)') = Len(Retained(s)) + (IF s = chunk.stream THEN k ELSE 0)
             /\ Done(s) \in Nat /\ Len(Retained(s)) \in Nat
  <2> DEFINE h == Share(chunk, s)
             c == BytesOf(channel, s)
  <2>1. /\ h \in Seq(Bytes) /\ Len(h) = (IF s = chunk.stream THEN b ELSE 0)
        /\ c \in Seq(Bytes) /\ Unrecorded(s) = h \o c
        /\ Len(Unrecorded(s)) = Len(h) + Len(c)
        /\ Retained(s) \in Seq(Bytes)
    BY StreamTypes DEF Share, Unrecorded
  <2>2. Unrecorded(s)' = c
    <3>1. Share(chunk', s) = <<>>
      BY <1>1 DEF Share, NoChunk
    <3>2. <<>> \o c = c
      BY <2>1, ConcatEmptySeq
    <3>3. Unrecorded(s)' = Share(chunk', s) \o c
      BY <1>1 DEF Unrecorded
    <3> QED
      BY <3>1, <3>2, <3>3, Zenon
  <2>3. Len(Retained(s)') = Len(Retained(s)) + (IF s = chunk.stream THEN k ELSE 0)
    <3>1. Seen(s) = Retained(s) \o Kept(s) /\ Kept(s) \in Seq(Bytes)
      BY KeptBytes
    <3>2. Len(Kept(s)) = IF s = chunk.stream THEN k ELSE 0
      BY DEF Kept
    <3>3. Retained(s)' = Retained(s) \o Kept(s)
      BY <1>2, <3>1
    <3>4. Len(Retained(s) \o Kept(s)) = Len(Retained(s)) + Len(Kept(s))
      BY <2>1, <3>1, ConcatProperties
    <3> QED
      BY <3>2, <3>3, <3>4
  <2>4. StreamInv(s)
    BY <1>1 DEF BudgetInv
  <2>5. Len(h) \in Nat /\ Len(c) \in Nat /\ Len(Retained(s)) \in Nat
    BY <2>1, LenProperties
  <2>6. Done(s) = taken[s] - (Len(h) + Len(c)) /\ Done(s)' = taken[s] - Len(c)
        /\ taken[s] \in Nat
    BY <1>1, <2>1, <2>2, StreamTypes DEF Done
  <2>7. Done(s)' = Done(s) + Len(h) /\ Done(s) \in Nat
    BY <2>4, <2>5, <2>6 DEF StreamInv
  <2>8. ASSUME NEW i \in 1..Len(c) PROVE c[i] = output[s][Done(s)' + i]
    <3> DEFINE j == Len(h) + i
    <3>1. j \in 1..Len(Unrecorded(s)) /\ Done(s) + j = Done(s)' + i
      BY <2>1, <2>5, <2>7
    <3>2. (h \o c)[j] = c[i]
      <4>1. j \in 1..Len(h) + Len(c) /\ ~(j <= Len(h)) /\ j - Len(h) = i
        BY <2>5
      <4> HIDE DEF j, h, c
      <4> QED
        BY <2>1, <4>1, ConcatProperties
    <3> HIDE DEF j
    <3>3. Unrecorded(s)[j] = output[s][Done(s) + j]
      BY <2>4, <3>1 DEF StreamInv
    <3> QED
      BY <2>1, <3>1, <3>2, <3>3
  <2> HIDE DEF h, c
  <2>9. /\ Len(Retained(s)) <= Done(s)
        /\ summary.captured < MaxBytes => Len(Retained(s)) = Done(s)
    BY <2>4 DEF StreamInv
  <2>10. /\ Len(Retained(s)') <= Done(s)'
         /\ summary'.captured < MaxBytes => Len(Retained(s)') = Done(s)'
    <3> HIDE DEF k, b
    <3>1. summary'.captured < MaxBytes => k = b /\ summary.captured < MaxBytes
      BY <1>4, <1>5, LogCaptureAssumption
    <3> DEFINE r == Len(Retained(s))
               q == Len(Retained(s)')
               d == Done(s)
               e == Done(s)'
    <3>2. /\ r \in Nat /\ d \in Nat /\ r <= d
          /\ q = r + (IF s = chunk.stream THEN k ELSE 0)
          /\ e = d + (IF s = chunk.stream THEN b ELSE 0)
          /\ summary.captured < MaxBytes => r = d
      BY <2>1, <2>3, <2>5, <2>7, <2>9
    <3> HIDE DEF r, q, d, e
    <3>3. q <= e /\ (summary'.captured < MaxBytes => q = e)
      BY <1>4, <3>1, <3>2
    <3> QED
      BY <3>3 DEF q, e
  <2>11. StreamInv(s)'
    <3>1. \A i \in 1..Len(Unrecorded(s)') :
            Unrecorded(s)'[i] = output'[s][Done(s)' + i]
      BY <1>1, <2>2, <2>8
    <3>2. Done(s)' \in Nat
      BY <2>5, <2>7
    <3> QED
      BY <2>10, <3>1, <3>2 DEF StreamInv
  <2> QED
    BY <2>1, <2>3, <2>5, <2>7, <2>11
<1> HIDE DEF k, b
<1>7. "stdout" \in Streams /\ "stderr" \in Streams
      /\ (chunk.stream = "stdout" \/ chunk.stream = "stderr")
  BY <1>3 DEF Streams
<1>8. /\ summary.captured = Len(Retained("stdout")) + Len(Retained("stderr"))
      /\ summary.captured + summary.dropped = Done("stdout") + Done("stderr")
  BY <1>1 DEF BudgetInv
<1>9. /\ summary'.captured = Len(Retained("stdout")') + Len(Retained("stderr")')
      /\ summary'.captured + summary'.dropped = Done("stdout")' + Done("stderr")'
  <2> DEFINE x == Len(Retained("stdout"))
             y == Len(Retained("stderr"))
             u == Len(Retained("stdout")')
             v == Len(Retained("stderr")')
             d == Done("stdout")
             e == Done("stderr")
             f == Done("stdout")'
             g == Done("stderr")'
  <2>1. /\ x \in Nat /\ y \in Nat /\ d \in Nat /\ e \in Nat
        /\ u = x + (IF "stdout" = chunk.stream THEN k ELSE 0)
        /\ v = y + (IF "stderr" = chunk.stream THEN k ELSE 0)
        /\ f = d + (IF "stdout" = chunk.stream THEN b ELSE 0)
        /\ g = e + (IF "stderr" = chunk.stream THEN b ELSE 0)
        /\ summary.captured = x + y /\ summary.captured + summary.dropped = d + e
    BY <1>6, <1>7, <1>8
  <2> HIDE DEF x, y, u, v, d, e, f, g
  <2>2. /\ summary'.captured = u + v
        /\ summary'.captured + summary'.dropped = f + g
    <3> DEFINE c == summary.captured
               m == summary.dropped
    <3>1. /\ c \in Nat /\ m \in Nat /\ c = x + y /\ c + m = d + e
          /\ summary'.captured = c + k /\ summary'.dropped = m + b - k
      BY <1>5, <2>1
    <3> HIDE DEF c, m
    <3>2. c + k = u + v /\ (c + k) + (m + b - k) = f + g
      <4>1. CASE chunk.stream = "stdout"
        <5>1. u = x + k /\ v = y /\ f = d + b /\ g = e
          BY <1>4, <2>1, <4>1
        <5> QED
          BY <1>4, <2>1, <3>1, <5>1
      <4>2. CASE chunk.stream = "stderr"
        <5>1. u = x /\ v = y + k /\ f = d /\ g = e + b
          BY <1>4, <2>1, <4>2
        <5> QED
          BY <1>4, <2>1, <3>1, <5>1
      <4> QED
        BY <1>7, <4>1, <4>2
    <3> QED
      BY <3>1, <3>2
  <2> QED
    BY <2>2 DEF u, v, f, g
<1> QED
  BY <1>2, <1>6, <1>9 DEF BudgetInv

(* Where nothing of a stream moves, and a supervisor that is done stays so. *)
LEMMA BudgetKept ==
  ASSUME BudgetInv, UNCHANGED <<output, taken, channel, chunk, summary, file>>,
         stage \in {"mark", "gone"} => stage' \in {"mark", "gone"}
  PROVE  BudgetInv'
BY DEF BudgetInv, StreamInv, Done, Unrecorded, Retained

LEMMA BudgetStep ==
  ASSUME RecordingTypeOK, RecordingInv, PrefixInv, BudgetInv, [LogNext]_logVars
  PROVE  PrefixInv' /\ BudgetInv'
<1> USE DEF RecordingInv
<1>1. CASE \E s \in Streams : Capture(s)
  <2>1. BudgetInv'
    BY <1>1, CaptureKeepsBudget
  <2>2. UNCHANGED <<output, file>>
    BY <1>1 DEF Capture, diskVars
  <2> QED
    BY <2>1, <2>2 DEF PrefixInv, Retained
<1>2. CASE \E s \in Streams : ReaderEnds(s)
  <2>1. UNCHANGED <<output, taken, channel, chunk, summary, file, stage>>
    BY <1>2 DEF ReaderEnds, diskVars
  <2> QED
    BY <2>1, BudgetKept DEF PrefixInv, Retained
<1>3. CASE BeginRecord
  <2>1. UNCHANGED <<output, file>>
    BY <1>3 DEF BeginRecord, childVars
  <2> QED
    BY <1>3, <2>1, BeginKeepsBudget DEF PrefixInv, Retained
<1>4. CASE FlushRecord
  <2>1. BudgetInv' /\ \A s \in Streams : Retained(s)' = Seen(s)
    BY <1>4, FlushKeepsBudget
  <2>2. /\ \A s \in Streams : Begins(Seen(s), output[s])
        /\ output' = output
    BY <1>4, SeenIsPrefix DEF FlushRecord, StageInv, childVars
  <2> QED
    BY <2>1, <2>2 DEF PrefixInv
<1>5. CASE RecordRunning \/ CreateLog \/ LoopStep \/ SpawnFails \/ Finish \/ MarkFailed
  <2>1. UNCHANGED <<output, taken, channel, chunk, summary, file>>
    BY <1>5 DEF RecordRunning, CreateLog, LoopStep, Drained, Poll, StillRunning, ReapLeader,
       SpawnFails, Finish, MarkFailed, childVars, diskVars
  <2>2. stage \in {"mark", "gone"} => stage' \in {"mark", "gone"}
    BY <1>5 DEF RecordRunning, CreateLog, LoopStep, Drained, Poll, StillRunning, ReapLeader,
       SpawnFails, Finish, MarkFailed, Goto
  <2> QED
    BY <2>1, <2>2, BudgetKept DEF PrefixInv, Retained
<1>6. CASE DrainTimesOut \/ Crash
  <2>1. UNCHANGED <<output, file>> /\ stage' \in {"mark", "gone"}
    BY <1>6 DEF DrainTimesOut, Crash, Unwind, Goto, childVars, diskVars
  <2> QED
    BY <2>1 DEF PrefixInv, Retained, BudgetInv
<1>7. CASE Fail
  <2>1. output' = output /\ stage' = "mark" /\ stage \notin {"mark", "gone"}
    BY <1>7 DEF Fail, Unwind, Goto, childVars, Receiving
  <2>2. CASE file' = file
    BY <2>1, <2>2 DEF PrefixInv, Retained, BudgetInv
  <2>3. CASE torn /\ file' = Append(file, NewRecord)
    <3>1. chunk # NoChunk
      BY <2>1, <2>3 DEF StageInv
    <3>2. \A s \in Streams : Retained(s)' = Seen(s)
      BY <2>3, <3>1, RecordedBytes DEF Retained
    <3>3. \A s \in Streams : Begins(Seen(s), output[s])
      BY <2>1, SeenIsPrefix
    <3> QED
      BY <2>1, <3>2, <3>3 DEF PrefixInv, BudgetInv
  <2> QED
    BY <1>7, <2>2, <2>3 DEF Fail
<1>8. CASE ClientStep \/ UNCHANGED logVars
  <2>1. UNCHANGED <<output, taken, channel, chunk, summary, file, stage>>
    BY <1>8 DEF ClientStep, LookAtState, ReadFile, logVars, childVars, diskVars
  <2> QED
    BY <2>1, BudgetKept DEF PrefixInv, Retained
<1> QED
  BY <1>1, <1>2, <1>3, <1>4, <1>5, <1>6, <1>7, <1>8
  DEF LogNext, Readers, SupervisorStep, WriterStep, EndStep

LEMMA BudgetInitially == LogInit => PrefixInv /\ BudgetInv
<1> SUFFICES ASSUME LogInit PROVE PrefixInv /\ BudgetInv
  OBVIOUS
<1>1. /\ RecordingTypeOK /\ taken = [s \in Streams |-> 0] /\ channel = <<>>
      /\ chunk = NoChunk /\ file = <<>> /\ summary = NewSummary
  BY InitRecordingType DEF LogInit
<1>2. ASSUME NEW s \in Streams
      PROVE  /\ Retained(s) = <<>> /\ Unrecorded(s) = <<>> /\ taken[s] = 0
  <2>1. Share(chunk, s) = <<>> /\ BytesOf(channel, s) = <<>> /\ Retained(s) = <<>>
    BY <1>1, BytesOfNothing DEF Share, NoChunk, Retained
  <2>2. <<>> \in Seq(Bytes)
    BY EmptySeq
  <2>3. <<>> \o <<>> = <<>>
    BY <2>2, ConcatEmptySeq
  <2>4. Unrecorded(s) = <<>>
    BY <2>1, <2>3, Zenon DEF Unrecorded
  <2> QED
    BY <1>1, <2>1, <2>4
<1>3. Len(<<>>) = 0
  OBVIOUS
<1>4. ASSUME NEW s \in Streams
      PROVE  Done(s) = 0 /\ Len(Retained(s)) = 0 /\ Begins(Retained(s), output[s]) /\ StreamInv(s)
  <2>1. Done(s) = 0 /\ Len(Retained(s)) = 0 /\ Len(Unrecorded(s)) = 0
    BY <1>2, <1>3 DEF Done
  <2>2. Len(output[s]) \in Nat
    BY <1>1, StreamTypes, LenProperties
  <2> QED
    BY <2>1, <2>2 DEF Begins, StreamInv
<1>5. "stdout" \in Streams /\ "stderr" \in Streams
  BY DEF Streams
<1> QED
  BY <1>1, <1>4, <1>5 DEF PrefixInv, BudgetInv, NewSummary

LEMMA BeginsIsPrefix ==
  ASSUME NEW S, NEW t \in Seq(S), NEW w \in Seq(S), Begins(t, w)
  PROVE  IsPrefix(t, w)
<1> DEFINE n == Len(t)
<1>1. n \in Nat /\ n <= Len(w) /\ \A i \in 1..n : t[i] = w[i]
  BY LenProperties DEF Begins
<1> HIDE DEF n
<1>2. \A i \in 1..n : t[i] \in S /\ w[i] \in S
  BY <1>1, LenProperties DEF n
<1>3. /\ SubSeq(t, 1, n) \in Seq(S) /\ SubSeq(w, 1, n) \in Seq(S)
      /\ Len(SubSeq(t, 1, n)) = n /\ Len(SubSeq(w, 1, n)) = n
      /\ \A i \in 1..n : SubSeq(t, 1, n)[i] = t[i]
      /\ \A i \in 1..n : SubSeq(w, 1, n)[i] = w[i]
  BY <1>1, <1>2, SubSeqProperties
<1>4. SubSeq(t, 1, n) = SubSeq(w, 1, n)
  BY <1>1, <1>3, SeqEqual
<1> QED
  BY <1>1, <1>4 DEF IsPrefix, n

(* LogWriter::record and its two readers: what logs.ndjson holds of a       *)
(* stream is a prefix of what the child wrote to it, whatever is cut by the *)
(* budget and wherever the supervisor fails or is killed; and the summary's *)
(* count of captured bytes is theirs.                                       *)
THEOREM RetainedIsAPrefix == LogSpec => []RetainedIsPrefix
<1>1. RecordingTypeOK /\ PrefixInv /\ BudgetInv => RetainedIsPrefix
  <2> SUFFICES ASSUME RecordingTypeOK, PrefixInv, BudgetInv PROVE RetainedIsPrefix
    OBVIOUS
  <2>1. ASSUME NEW s \in Streams PROVE IsPrefix(Retained(s), output[s])
    BY BeginsIsPrefix, StreamTypes DEF PrefixInv
  <2> QED
    BY <2>1 DEF BudgetInv, RetainedIsPrefix
<1> QED
  BY <1>1, BudgetInitially, BudgetStep, RecordingTypeCorrect, RecordingInvariant, PTL
  DEF LogSpec

-----------------------------------------------------------------------------
(* EndIsComplete: an orderly end is recorded by FinishRun alone, when the   *)
(* channel is empty, and nothing of what it says changes afterwards.        *)

ReaderInv == \A s \in Streams : reader[s] = "closed" => taken[s] = Len(output[s])

LEMMA ReaderStep ==
  ASSUME RecordingTypeOK, ReaderInv, [LogNext]_logVars
  PROVE  ReaderInv'
<1>1. CASE \E s \in Streams : Capture(s)
  <2>1. PICK s \in Streams : Capture(s)
    BY <1>1
  <2>2. /\ reader[s] = "reading" /\ UNCHANGED <<output, reader>>
        /\ \A t \in Streams \ {s} : taken'[t] = taken[t]
    BY <2>1 DEF Capture, RecordingTypeOK
  <2> QED
    BY <2>2 DEF ReaderInv
<1>2. CASE \E s \in Streams : ReaderEnds(s)
  <2>1. PICK s \in Streams : ReaderEnds(s)
    BY <1>2
  <2>2. /\ UNCHANGED <<output, taken>> /\ reader \in [Streams -> {"reading", "closed", "error"}]
        /\ \/ taken[s] = Len(output[s]) /\ reader' = [reader EXCEPT ![s] = "closed"]
           \/ reader' = [reader EXCEPT ![s] = "error"]
    BY <2>1 DEF ReaderEnds, RecordingTypeOK
  <2> QED
    BY <2>2 DEF ReaderInv
<1>3. CASE SupervisorStep
  <2>1. UNCHANGED childVars
    BY <1>3 DEF SupervisorStep, WriterStep, LoopStep, EndStep, RecordRunning, CreateLog,
       BeginRecord, FlushRecord, Drained, Poll, StillRunning, ReapLeader, SpawnFails, Finish,
       DrainTimesOut, MarkFailed
  <2> QED
    BY <2>1 DEF ReaderInv, childVars
<1>4. CASE Fail \/ Crash \/ ClientStep \/ UNCHANGED logVars
  BY <1>4 DEF Fail, Crash, ClientStep, LookAtState, ReadFile, ReaderInv, childVars, logVars
<1> QED
  BY <1>1, <1>2, <1>3, <1>4 DEF LogNext, Readers

(* What a supervisor that is gone leaves behind. *)
LEMMA GoneSteps ==
  ASSUME StageInv, stage = "gone", [Next]_vars
  PROVE  UNCHANGED <<output, taken, reader, channel, stage, chunk, summary,
                     created, file, torn, durable, published>>
<1>1. chunk = NoChunk
  BY DEF StageInv
<1>2. ~LoopSteps
  BY <1>1 DEF LoopSteps, RecordChunk, BeginRecord, PollReadiness, Poll, FinishRun, Finish,
     OtherSteps, FlushRecord, SpawnFails, RecordRunning, CreateLog, Drained, StillRunning,
     ReapLeader, DrainTimesOut, MarkFailed
<1>3. CASE Surroundings
  BY <1>3 DEF Surroundings, Readers, Capture, ReaderEnds, Receiving, Fail, Crash, ClientStep,
     LookAtState, ReadFile, childVars, diskVars
<1>4. CASE World \/ UNCHANGED vars
  BY <1>4 DEF World, vars, logVars, childVars, diskVars
<1> QED
  BY <1>2, <1>3, <1>4 DEF Next

LEMMA OnlyFinishRunEnds ==
  ASSUME RecordingTypeOK, [Next]_vars,
         durable.status # "exited", durable'.status = "exited"
  PROVE  FinishRun
<1>1. ~UNCHANGED durable
  OBVIOUS
<1>2. CASE Surroundings \/ World \/ UNCHANGED vars
  BY <1>1, <1>2 DEF Surroundings, Readers, Capture, ReaderEnds, Fail, Crash, ClientStep,
     LookAtState, ReadFile, World, vars, logVars, diskVars
<1>3. CASE RecordChunk \/ PollReadiness
  BY <1>1, <1>3 DEF RecordChunk, BeginRecord, PollReadiness, Poll, diskVars
<1>4. CASE OtherSteps
  BY <1>1, <1>4 DEF OtherSteps, FlushRecord, SpawnFails, RecordRunning, CreateLog, Drained,
     StillRunning, ReapLeader, DrainTimesOut, MarkFailed, diskVars, RecordingTypeOK
<1> QED
  BY <1>2, <1>3, <1>4 DEF Next, LoopSteps

LEMMA EndStep_Complete ==
  ASSUME RecordingTypeOK, RecordingInv, BudgetInv, ReaderInv, EndIsComplete, [Next]_vars
  PROVE  EndIsComplete'
<1> USE DEF RecordingInv
<1>1. CASE durable.status = "exited"
  <2>1. stage = "gone"
    BY <1>1 DEF StageInv, Terminal
  <2>2. UNCHANGED <<output, taken, reader, summary, durable, published>>
    BY <2>1, GoneSteps
  <2> QED
    BY <2>2 DEF EndIsComplete
<1>2. CASE durable.status # "exited"
  <2> SUFFICES ASSUME durable'.status = "exited" PROVE EndIsComplete'
    BY DEF EndIsComplete
  <2>1. FinishRun
    BY <1>2, OnlyFinishRunEnds
  <2>2. /\ chunk = NoChunk /\ channel = <<>> /\ \A s \in Streams : reader[s] # "reading"
        /\ durable'.logs = summary /\ stage = "close"
        /\ UNCHANGED <<output, taken, reader, summary>>
    BY <2>1 DEF FinishRun, Finish, Disconnected, childVars
  <2>3. published'.verdict # "pending"
    BY <2>1 DEF FinishRun, Publish, R!ProcessExited
  <2>4. ASSUME NEW s \in Streams PROVE Done(s) = taken[s]
    <3>1. Share(chunk, s) = <<>> /\ BytesOf(channel, s) = <<>> /\ taken[s] \in Nat
      BY <2>2, BytesOfNothing DEF Share, NoChunk, RecordingTypeOK
    <3>2. Len(Unrecorded(s)) = 0
      <4>1. Len(Unrecorded(s)) = Len(Share(chunk, s)) + Len(BytesOf(channel, s))
        BY StreamTypes
      <4> QED
        BY <3>1, <4>1
    <3> QED
      BY <3>1, <3>2 DEF Done
  <2>5. "stdout" \in Streams /\ "stderr" \in Streams
    BY DEF Streams
  <2>6. summary.captured + summary.dropped = taken["stdout"] + taken["stderr"]
    BY <2>2, <2>4, <2>5 DEF BudgetInv
  <2>7. summary.dropped > 0 => summary.captured = MaxBytes
    <3>1. /\ summary.captured \in Nat /\ summary.dropped \in Nat
          /\ summary.captured <= MaxBytes
      BY DEF RecordingTypeOK, Summaries, FileInv
    <3> DEFINE x == Len(Retained("stdout"))
               y == Len(Retained("stderr"))
    <3>2. /\ summary.captured = x + y
          /\ summary.captured < MaxBytes => x = taken["stdout"] /\ y = taken["stderr"]
      BY <2>2, <2>4, <2>5 DEF BudgetInv, StreamInv
    <3> HIDE DEF x, y
    <3> QED
      BY <2>6, <3>1, <3>2, LogCaptureAssumption
  <2> QED
    BY <2>2, <2>3, <2>6, <2>7 DEF EndIsComplete, ReaderInv
<1> QED
  BY <1>1, <1>2

LEMMA EndInitially == Init => ReaderInv /\ EndIsComplete
<1> SUFFICES ASSUME Init PROVE ReaderInv /\ EndIsComplete
  OBVIOUS
<1>1. reader = [s \in Streams |-> "reading"] /\ durable.status = "starting"
  BY DEF Init, LogInit
<1> QED
  BY <1>1 DEF ReaderInv, EndIsComplete

(* drain_until_closed and the last write of state.json: a run that is       *)
(* recorded as exited had both streams drained, every byte is counted as    *)
(* captured or dropped, and its readiness is decided.                       *)
THEOREM OrderlyEndIsComplete == SafeSpec => []EndIsComplete
<1>1. SafeSpec => [](RecordingTypeOK /\ RecordingInv)
  BY MonitoringRecords, RecordingTypeCorrect, RecordingInvariant, PTL
<1>2. SafeSpec => [](PrefixInv /\ BudgetInv)
  BY MonitoringRecords, BudgetInitially, BudgetStep, RecordingTypeCorrect, RecordingInvariant,
     PTL DEF LogSpec
<1>3. RecordingTypeOK /\ ReaderInv /\ [Next]_vars => ReaderInv'
  BY StepIsLogStep, ReaderStep
<1> QED
  BY <1>1, <1>2, <1>3, EndInitially, EndStep_Complete, PTL DEF SafeSpec

(* The same of the retained bytes, where readiness is looked at as well.    *)
THEOREM MonitoredRetainedIsAPrefix == SafeSpec => []RetainedIsPrefix
BY MonitoringRecords, RetainedIsAPrefix, PTL

(* read_logs pages through the log of a monitored run in the same way.      *)
THEOREM MonitoredPagesFollowTheLog == SafeSpec => []ReadersFollowTheLog
BY MonitoringRecords, PagesFollowTheLog, PTL

-----------------------------------------------------------------------------
(* Types of the tracker and of what is published. *)

TrackerTypeOK ==
  /\ R!ReadinessTypeOK
  /\ published.met \subseteq met
  /\ published.verdict \in {verdict, "pending"}

LEMMA CheckTypes ==
  ASSUME R!ReadinessTypeOK
  PROVE  /\ checks \in Seq(Literals) /\ Len(checks) \in Nat
         /\ DOMAIN checks = 1..Len(checks)
         /\ R!LogChecks \subseteq DOMAIN checks /\ R!Probes \subseteq DOMAIN checks
<1>1. checks \in Seq(Literals)
  BY MonitoringAssumption DEF R!ReadinessTypeOK
<1> QED
  BY <1>1, LenProperties DEF R!LogChecks, R!Probes

(* next_external_check: there is a next one while there are any. *)
LEMMA NextCheckExists ==
  ASSUME R!ReadinessTypeOK, R!Probes \ met # {}
  PROVE  R!NextExternalCheck \in R!Probes \ met
<1> DEFINE P == R!Probes \ met
           n == Len(checks)
           T == {R!TurnsTo(i) : i \in P}
<1>1. n \in Nat /\ P \subseteq 1..n /\ nextProbe \in 0..n
  BY CheckTypes DEF R!ReadinessTypeOK
<1>2. n > 0
  BY <1>1
<1>3. \A i \in P : R!TurnsTo(i) \in Nat
  <2> SUFFICES ASSUME NEW i \in P PROVE R!TurnsTo(i) \in Nat
    OBVIOUS
  <2> DEFINE x == i - 1 - nextProbe + n
  <2>1. x \in Int
    BY <1>1
  <2>2. R!TurnsTo(i) = x % n
    BY DEF R!TurnsTo
  <2> HIDE DEF x, n
  <2>3. x % n \in 0..(n - 1)
    BY <1>1, <1>2, <2>1
  <2>4. x % n \in Nat
    BY <1>1, <2>3
  <2> QED
    BY <2>2, <2>4
<1>4. T \subseteq Nat /\ T # {}
  BY <1>3
<1>5. PICK t \in T : \A u \in T : t <= u
  BY <1>4, Least
<1>6. PICK i \in P : t = R!TurnsTo(i)
  OBVIOUS
<1>7. \A j \in P : R!TurnsTo(i) <= R!TurnsTo(j)
  BY <1>5, <1>6
<1> QED
  BY <1>6, <1>7 DEF R!NextExternalCheck

LEMMA TrackerInitially == Init => TrackerTypeOK
<1> SUFFICES ASSUME Init PROVE TrackerTypeOK
  OBVIOUS
<1>1. checks \in Seq(Literals)
  BY MonitoringAssumption DEF Init, R!ReadinessInit
<1>2. 0 \in 0..Len(checks)
  BY <1>1, LenProperties
<1> QED
  BY <1>2 DEF Init, R!ReadinessInit, R!ReadinessTypeOK, TrackerTypeOK

LEMMA TrackerTypes ==
  ASSUME R!ReadinessTypeOK
  PROVE  /\ \A s, b : R!ObserveLog(s, b) => R!ReadinessTypeOK' /\ met \subseteq met'
         /\ R!PollDue \/ R!PollEarly => R!ReadinessTypeOK' /\ met \subseteq met'
         /\ R!ProcessExited => R!ReadinessTypeOK' /\ met \subseteq met'
<1> USE DEF R!ReadinessTypeOK
<1>1. ASSUME NEW s, NEW b, R!ObserveLog(s, b)
      PROVE  R!ReadinessTypeOK' /\ met \subseteq met'
  <2>1. CASE verdict # "pending"
    BY <1>1, <2>1 DEF R!ObserveLog, R!readinessVars, R!trackerVars, R!worldVars, R!Probes,
       R!LogChecks
  <2>2. CASE verdict = "pending"
    <3>1. /\ verdict' = R!FinishIfReady(met')
          /\ UNCHANGED <<nextProbe, checks, overdue, serving>>
          /\ \E m \in SUBSET R!LogChecks : met' = met \cup m
          /\ DOMAIN tail' = DOMAIN tail
      BY <1>1, <2>2 DEF R!ObserveLog, R!worldVars
    <3> QED
      BY <3>1, CheckTypes DEF R!FinishIfReady, R!Probes, R!LogChecks
  <2> QED
    BY <2>1, <2>2
<1>2. ASSUME R!PollDue PROVE R!ReadinessTypeOK' /\ met \subseteq met'
  <2>1. UNCHANGED <<tail, checks, overdue, serving>>
    BY <1>2 DEF R!PollDue, R!TimeOut, R!Probe, R!worldVars
  <2>2. CASE R!TimeOut
    BY <2>1, <2>2 DEF R!TimeOut, R!Probes, R!LogChecks
  <2>3. CASE R!Probe /\ R!Probes \ met # {}
    <3>1. R!NextExternalCheck \in R!Probes \ met
      BY <2>3, NextCheckExists
    <3>2. nextProbe' \in 0..Len(checks)
      BY <2>3, <3>1, CheckTypes DEF R!Probe
    <3>3. met \subseteq met' /\ met' \subseteq DOMAIN checks
      BY <2>3, <3>1, CheckTypes DEF R!Probe
    <3>4. verdict' \in {"not_configured", "pending", "ready", "timed_out", "failed"}
      BY <2>3 DEF R!Probe, R!FinishIfReady
    <3> QED
      BY <2>1, <3>2, <3>3, <3>4 DEF R!Probes, R!LogChecks
  <2>4. CASE verdict' = R!FinishIfReady(met) /\ UNCHANGED <<met, tail, nextProbe, R!worldVars>>
    BY <2>1, <2>4 DEF R!FinishIfReady, R!Probes, R!LogChecks
  <2> QED
    BY <1>2, <2>2, <2>3, <2>4 DEF R!PollDue
<1>3. ASSUME R!PollEarly PROVE R!ReadinessTypeOK' /\ met \subseteq met'
  BY <1>3 DEF R!PollEarly, R!readinessVars, R!trackerVars, R!worldVars, R!Probes, R!LogChecks
<1>4. ASSUME R!ProcessExited PROVE R!ReadinessTypeOK' /\ met \subseteq met'
  BY <1>4 DEF R!ProcessExited, R!worldVars, R!Probes, R!LogChecks
<1> QED
  BY <1>1, <1>2, <1>3, <1>4

LEMMA TrackerStep == TrackerTypeOK /\ [Next]_vars => TrackerTypeOK'
<1> SUFFICES ASSUME TrackerTypeOK, [Next]_vars PROVE TrackerTypeOK'
  OBVIOUS
<1> USE DEF TrackerTypeOK
<1>1. R!ReadinessTypeOK' /\ met \subseteq met'
  <2>1. CASE RecordChunk
    BY <2>1, TrackerTypes DEF RecordChunk
  <2>2. CASE PollReadiness
    BY <2>2, TrackerTypes DEF PollReadiness
  <2>3. CASE FinishRun
    BY <2>3, TrackerTypes DEF FinishRun
  <2>4. CASE UNCHANGED readinessVars
    BY <2>4 DEF readinessVars, R!ReadinessTypeOK, R!Probes, R!LogChecks
  <2>5. CASE R!DeadlinePasses
    BY <2>5 DEF R!DeadlinePasses, R!trackerVars, R!ReadinessTypeOK, R!Probes, R!LogChecks
  <2>6. CASE \E i \in R!Probes : R!ServiceChanges(i)
    <3>1. PICK i \in R!Probes : R!ServiceChanges(i)
      BY <2>6
    <3> QED
      BY <3>1 DEF R!ServiceChanges, R!trackerVars, R!ReadinessTypeOK, R!Probes, R!LogChecks
  <2> QED
    BY <2>1, <2>2, <2>3, <2>4, <2>5, <2>6 DEF Next, LoopSteps, Surroundings, World, vars
<1>2. Tracked /\ (Publish \/ UNCHANGED published)
  BY StepIsTracked
<1>3. CASE Publish
  BY <1>1, <1>3 DEF Publish
<1>4. CASE UNCHANGED published
  BY <1>1, <1>2, <1>4 DEF Tracked
<1> QED
  BY <1>2, <1>3, <1>4

(* ReadinessTracker and ReadinessState have their types: an index into the  *)
(* checks is one, next_external_check included; what state.json says is     *)
(* never ahead of the tracker.                                              *)
THEOREM MonitoringTypeCorrect == SafeSpec => []TypeOK
<1>1. SafeSpec => []LogTypeOK
  BY MonitoringRecords, LogTypeCorrect, PTL
<1>2. LogTypeOK /\ TrackerTypeOK => TypeOK
  BY DEF TrackerTypeOK, TypeOK
<1> QED
  BY <1>1, <1>2, TrackerInitially, TrackerStep, PTL DEF SafeSpec

-----------------------------------------------------------------------------
(* Literals in texts, and the ends of texts. *)

AnyBytes == Bytes \cup LiteralBytes

StartsAt(l, t, p) == p + Len(l) <= Len(t) /\ \A j \in 1..Len(l) : t[p + j] = l[j]

LEMMA OccursMeans ==
  ASSUME NEW l \in Seq(AnyBytes), NEW t \in Seq(AnyBytes)
  PROVE  R!Occurs(l, t) <=> \E p \in Nat : StartsAt(l, t, p)
<1> DEFINE n == Len(l)
<1>1. n \in Nat /\ Len(t) \in Nat
  BY LenProperties
<1>2. ASSUME NEW p \in Nat, p + n <= Len(t)
      PROVE  SubSeq(t, p + 1, p + n) = l <=> \A j \in 1..n : t[p + j] = l[j]
  <2> DEFINE u == SubSeq(t, p + 1, p + n)
  <2>1. /\ u \in Seq(AnyBytes) /\ Len(u) = n
        /\ \A j \in 1..n : u[j] = t[p + j]
    BY <1>1, <1>2, Slice
  <2> HIDE DEF u
  <2>2. u = l => \A j \in 1..n : t[p + j] = l[j]
    BY <2>1
  <2>3. ASSUME \A j \in 1..n : t[p + j] = l[j] PROVE u = l
    <3>1. Len(u) = Len(l) /\ \A j \in 1..Len(u) : u[j] = l[j]
      BY <2>1, <2>3
    <3> QED
      BY <2>1, <3>1, SeqEqual
  <2> QED
    BY <2>2, <2>3 DEF u
<1>3. R!Occurs(l, t) <=> \E p \in 0..Len(t) - n : SubSeq(t, p + 1, p + n) = l
  BY DEF R!Occurs
<1>4. \A p : p \in 0..Len(t) - n <=> p \in Nat /\ p + n <= Len(t)
  BY <1>1
<1> QED
  BY <1>2, <1>3, <1>4 DEF StartsAt

Ends(t, w) ==
  Len(t) <= Len(w) /\ \A i \in 1..Len(t) : t[i] = w[Len(w) - Len(t) + i]

LEMMA EndsReflexive ==
  ASSUME NEW S, NEW t \in Seq(S)
  PROVE  Ends(t, t)
<1>1. Len(t) \in Nat
  BY LenProperties
<1> QED
  BY <1>1 DEF Ends

LEMMA EndsTransitive ==
  ASSUME NEW S, NEW t \in Seq(S), NEW u \in Seq(S), NEW w \in Seq(S), Ends(t, u), Ends(u, w)
  PROVE  Ends(t, w)
<1>1. Len(t) \in Nat /\ Len(u) \in Nat /\ Len(w) \in Nat
  BY LenProperties
<1>2. Len(t) <= Len(u) /\ Len(u) <= Len(w)
  BY DEF Ends
<1>3. ASSUME NEW i \in 1..Len(t) PROVE t[i] = w[Len(w) - Len(t) + i]
  <2> DEFINE j == Len(u) - Len(t) + i
  <2>1. j \in 1..Len(u) /\ Len(w) - Len(u) + j = Len(w) - Len(t) + i
    BY <1>1, <1>2
  <2>2. t[i] = u[j]
    BY DEF Ends
  <2> HIDE DEF j
  <2>3. u[j] = w[Len(w) - Len(u) + j]
    BY <2>1 DEF Ends
  <2> QED
    BY <2>1, <2>2, <2>3
<1> QED
  BY <1>1, <1>2, <1>3 DEF Ends

LEMMA EndsConcat ==
  ASSUME NEW S, NEW t \in Seq(S), NEW w \in Seq(S), NEW k \in Seq(S), Ends(t, w)
  PROVE  Ends(t \o k, w \o k)
<1> DEFINE a == Len(t)
           b == Len(w)
           c == Len(k)
<1>1. a \in Nat /\ b \in Nat /\ c \in Nat /\ a <= b
  BY LenProperties DEF Ends
<1>2. /\ Len(t \o k) = a + c
      /\ \A i \in 1..a + c : (t \o k)[i] = IF i <= a THEN t[i] ELSE k[i - a]
      /\ Len(w \o k) = b + c
      /\ \A i \in 1..b + c : (w \o k)[i] = IF i <= b THEN w[i] ELSE k[i - b]
  BY ConcatProperties
<1>3. \A i \in 1..a : t[i] = w[b - a + i]
  BY DEF Ends
<1> HIDE DEF a, b, c
<1>4. ASSUME NEW i \in 1..a + c PROVE (t \o k)[i] = (w \o k)[(b + c) - (a + c) + i]
  <2> DEFINE j == b - a + i
  <2>1. j \in 1..b + c /\ j = (b + c) - (a + c) + i
    BY <1>1
  <2>2. CASE i <= a
    <3>1. j <= b /\ i \in 1..a
      BY <1>1, <2>2
    <3>2. t[i] = w[j]
      BY <1>3, <3>1
    <3> HIDE DEF j
    <3>3. (t \o k)[i] = t[i] /\ (w \o k)[j] = w[j]
      BY <1>2, <2>1, <2>2, <3>1
    <3> QED
      BY <2>1, <3>2, <3>3
  <2>3. CASE ~(i <= a)
    <3>1. ~(j <= b) /\ j - b = i - a
      BY <1>1, <2>3
    <3> HIDE DEF j
    <3>2. (t \o k)[i] = k[i - a] /\ (w \o k)[j] = k[j - b]
      BY <1>2, <2>1, <2>3, <3>1
    <3> QED
      BY <2>1, <3>1, <3>2
  <2> QED
    BY <2>2, <2>3
<1> QED
  BY <1>1, <1>2, <1>4 DEF Ends

(* An occurrence stays when the text goes on, ... *)
LEMMA OccursLonger ==
  ASSUME NEW l \in Seq(AnyBytes), NEW w \in Seq(AnyBytes), NEW k \in Seq(AnyBytes),
         R!Occurs(l, w)
  PROVE  R!Occurs(l, w \o k)
<1>1. PICK p \in Nat : StartsAt(l, w, p)
  BY OccursMeans
<1>2. Len(l) \in Nat /\ Len(w) \in Nat /\ Len(k) \in Nat
  BY LenProperties
<1>3. /\ w \o k \in Seq(AnyBytes) /\ Len(w \o k) = Len(w) + Len(k)
      /\ \A i \in 1..Len(w) + Len(k) : (w \o k)[i] = IF i <= Len(w) THEN w[i] ELSE k[i - Len(w)]
  BY ConcatProperties
<1>4. \A i \in 1..Len(w) : (w \o k)[i] = w[i]
  BY <1>2, <1>3
<1>5. ASSUME NEW j \in 1..Len(l) PROVE (w \o k)[p + j] = l[j]
  <2>1. p + j \in 1..Len(w) /\ w[p + j] = l[j]
    BY <1>1, <1>2 DEF StartsAt
  <2> QED
    BY <1>4, <2>1
<1>6. StartsAt(l, w \o k, p)
  BY <1>1, <1>2, <1>3, <1>5 DEF StartsAt
<1> QED
  BY <1>3, <1>6, OccursMeans

(* ... an occurrence in its end is one in the text, ... *)
LEMMA OccursInEnd ==
  ASSUME NEW l \in Seq(AnyBytes), NEW t \in Seq(AnyBytes), NEW w \in Seq(AnyBytes),
         Ends(t, w), R!Occurs(l, t)
  PROVE  R!Occurs(l, w)
<1>1. PICK p \in Nat : StartsAt(l, t, p)
  BY OccursMeans
<1>2. Len(l) \in Nat /\ Len(w) \in Nat /\ Len(t) \in Nat /\ Len(t) <= Len(w)
  BY LenProperties DEF Ends
<1> DEFINE q == Len(w) - Len(t) + p
<1>3. q \in Nat /\ q + Len(l) <= Len(w)
  BY <1>1, <1>2 DEF StartsAt
<1>4. ASSUME NEW j \in 1..Len(l) PROVE w[q + j] = l[j]
  <2>1. p + j \in 1..Len(t) /\ t[p + j] = l[j] /\ Len(w) - Len(t) + (p + j) = q + j
    BY <1>1, <1>2 DEF StartsAt
  <2>2. t[p + j] = w[Len(w) - Len(t) + (p + j)]
    BY <2>1 DEF Ends
  <2> QED
    BY <2>1, <2>2
<1>5. StartsAt(l, w, q)
  BY <1>3, <1>4 DEF StartsAt
<1> QED
  BY <1>3, <1>5, OccursMeans

(* ... and one that is new when the text goes on lies in a long enough end. *)
LEMMA OccursAcross ==
  ASSUME NEW l \in Seq(AnyBytes), NEW t \in Seq(AnyBytes), NEW w \in Seq(AnyBytes),
         NEW k \in Seq(AnyBytes), Ends(t, w), Len(t) >= Len(l) - 1 \/ t = w,
         R!Occurs(l, w \o k), ~R!Occurs(l, w)
  PROVE  R!Occurs(l, t \o k)
<1> DEFINE a == Len(t)
           b == Len(w)
           c == Len(k)
           n == Len(l)
<1>1. a \in Nat /\ b \in Nat /\ c \in Nat /\ n \in Nat /\ a <= b
  BY LenProperties DEF Ends
<1>2. /\ w \o k \in Seq(AnyBytes) /\ Len(w \o k) = b + c
      /\ \A i \in 1..b + c : (w \o k)[i] = IF i <= b THEN w[i] ELSE k[i - b]
      /\ t \o k \in Seq(AnyBytes) /\ Len(t \o k) = a + c
  BY ConcatProperties
<1>3. PICK p \in Nat : StartsAt(l, w \o k, p)
  BY <1>2, OccursMeans
<1>4. p + n <= b + c /\ \A j \in 1..n : (w \o k)[p + j] = l[j]
  BY <1>2, <1>3 DEF StartsAt
<1>5. ~(p + n <= b)
  <2> SUFFICES ASSUME p + n <= b PROVE FALSE
    OBVIOUS
  <2>1. ASSUME NEW j \in 1..n PROVE w[p + j] = l[j]
    <3>1. p + j \in 1..b + c /\ p + j <= b
      BY <1>1
    <3> QED
      BY <1>2, <1>4, <3>1
  <2>2. StartsAt(l, w, p)
    BY <2>1 DEF StartsAt
  <2> QED
    BY <2>2, OccursMeans
<1>6. p >= b - a
  <2>1. CASE t = w
    BY <1>1, <2>1
  <2>2. CASE a >= n - 1
    BY <1>1, <1>5, <2>2
  <2> QED
    BY <2>1, <2>2
<1> DEFINE q == p - (b - a)
<1>7. q \in Nat /\ q + n <= a + c
  BY <1>1, <1>4, <1>6
<1>8. Ends(t \o k, w \o k)
  BY EndsConcat
<1>9. ASSUME NEW j \in 1..n PROVE (t \o k)[q + j] = l[j]
  <2> DEFINE i == q + j
  <2>1. i \in 1..a + c /\ (b + c) - (a + c) + i = p + j
    BY <1>1, <1>7
  <2> HIDE DEF i
  <2>2. (t \o k)[i] = (w \o k)[(b + c) - (a + c) + i]
    BY <1>2, <1>8, <2>1 DEF Ends
  <2>3. (t \o k)[i] = l[j]
    BY <1>4, <2>1, <2>2
  <2> QED
    BY <2>3 DEF i
<1>10. StartsAt(l, t \o k, q)
  BY <1>2, <1>7, <1>9 DEF StartsAt
<1> QED
  BY <1>2, <1>7, <1>10, OccursMeans

LEMMA LastBytesEnds ==
  ASSUME NEW S, NEW t \in Seq(S), NEW n \in Nat
  PROVE  /\ R!LastBytes(t, n) \in Seq(S) /\ Ends(R!LastBytes(t, n), t)
         /\ Len(R!LastBytes(t, n)) >= n \/ R!LastBytes(t, n) = t
<1>1. Len(t) \in Nat
  BY LenProperties
<1>2. CASE Len(t) > n
  <2> DEFINE m == Len(t) - n
             u == SubSeq(t, m + 1, m + n)
  <2>1. m \in Nat /\ m + n = Len(t) /\ Len(t) - n + 1 = m + 1
    BY <1>1, <1>2
  <2>2. R!LastBytes(t, n) = u
    BY <1>2, <2>1 DEF R!LastBytes
  <2> HIDE DEF m
  <2>3. u \in Seq(S) /\ Len(u) = n /\ \A i \in 1..n : u[i] = t[m + i]
    BY <2>1, Slice
  <2> HIDE DEF u
  <2>4. Ends(u, t)
    <3>1. Len(t) - n = m /\ n <= Len(t)
      BY <1>1, <2>1
    <3> QED
      BY <2>3, <3>1 DEF Ends
  <2> QED
    BY <2>2, <2>3, <2>4
<1>3. CASE ~(Len(t) > n)
  <2> DEFINE u == SubSeq(t, 0 + 1, 0 + Len(t))
  <2>1. u \in Seq(S) /\ Len(u) = Len(t) /\ \A i \in 1..Len(t) : u[i] = t[0 + i]
    <3> DEFINE m == 0
               l == Len(t)
    <3>1. m \in Nat /\ l \in Nat /\ m + l <= Len(t)
      BY <1>1
    <3> HIDE DEF m, l
    <3>2. /\ SubSeq(t, m + 1, m + l) \in Seq(S) /\ Len(SubSeq(t, m + 1, m + l)) = l
          /\ \A i \in 1..l : SubSeq(t, m + 1, m + l)[i] = t[m + i]
      BY <3>1, Slice
    <3> QED
      BY <3>2 DEF m, l
  <2>2. \A i \in 1..Len(u) : u[i] = t[i]
    BY <2>1
  <2>3. u = t
    <3> HIDE DEF u
    <3> QED
      BY <2>1, <2>2, SeqEqual
  <2>4. R!LastBytes(t, n) = SubSeq(t, 1, Len(t))
    BY <1>3 DEF R!LastBytes
  <2>5. 0 + 1 = 1 /\ 0 + Len(t) = Len(t)
    BY <1>1
  <2>6. R!LastBytes(t, n) = t
    BY <2>3, <2>4, <2>5, Zenon
  <2> QED
    BY <2>6, EndsReflexive
<1> QED
  BY <1>2, <1>3

LEMMA CheckLiterals ==
  ASSUME R!ReadinessTypeOK, NEW i \in R!LogChecks
  PROVE  /\ checks[i] \in Seq(LiteralBytes) /\ checks[i] \in Seq(AnyBytes)
         /\ Len(checks[i]) \in Nat \ {0}
<1>1. checks[i] \in Seq(LiteralBytes)
  BY CheckTypes, MonitoringAssumption DEF R!LogChecks
<1>2. checks[i] # <<>>
  BY DEF R!LogChecks, R!Probed
<1>3. Seq(LiteralBytes) \subseteq Seq(AnyBytes)
  BY SeqMonotonic DEF AnyBytes
<1> QED
  BY <1>1, <1>2, <1>3, EmptySeq, LenProperties

(* max_tail: long enough for each literal that is still looked for. *)
LEMMA TailIsLongEnough ==
  ASSUME R!ReadinessTypeOK, NEW m
  PROVE  /\ R!TailLength(m) \in Nat
         /\ \A i \in R!LogChecks \ m : R!TailLength(m) >= Len(checks[i]) - 1
<1> DEFINE A == R!LogChecks \ m
           L == {Len(checks[i]) - 1 : i \in A}
           N == Len(checks)
<1>1. \A i \in A : Len(checks[i]) - 1 \in Nat
  BY CheckLiterals
<1>2. A \subseteq 1..N /\ N \in Nat
  BY CheckTypes
<1>3. CASE R!LogChecks \subseteq m
  BY <1>3 DEF R!TailLength
<1>4. CASE ~(R!LogChecks \subseteq m)
  <2> DEFINE T == {k \in Nat : \E b \in Nat : \A i \in A : i <= k => Len(checks[i]) - 1 <= b}
  <2>1. 0 \in T
    <3>1. \A i \in A : ~(i <= 0)
      BY <1>2
    <3> QED
      BY <3>1
  <2>2. ASSUME NEW k \in T PROVE k + 1 \in T
    <3>1. PICK b \in Nat : \A i \in A : i <= k => Len(checks[i]) - 1 <= b
      OBVIOUS
    <3>2. CASE k + 1 \in A
      <4> DEFINE c == Len(checks[k + 1]) - 1
                 d == IF c <= b THEN b ELSE c
      <4>1. c \in Nat
        BY <1>1, <3>2
      <4> HIDE DEF c
      <4>2. d \in Nat /\ b <= d /\ c <= d
        BY <4>1
      <4> HIDE DEF d
      <4>3. ASSUME NEW i \in A, i <= k + 1 PROVE Len(checks[i]) - 1 <= d
        <5>1. CASE i <= k
          BY <1>1, <3>1, <4>2, <5>1
        <5>2. CASE i = k + 1
          BY <4>2, <5>2 DEF c
        <5> QED
          BY <1>2, <4>3, <5>1, <5>2
      <4> QED
        BY <4>2, <4>3
    <3>3. CASE k + 1 \notin A
      <4>1. \A i \in A : i <= k + 1 => i <= k
        BY <1>2, <3>3
      <4> QED
        BY <3>1, <4>1
    <3> QED
      BY <3>2, <3>3
  <2> HIDE DEF T
  <2>3. T = Nat
    <3>1. T \subseteq Nat
      BY DEF T
    <3> QED
      BY <2>1, <2>2, <3>1, Induction
  <2>4. PICK b \in Nat : \A i \in A : i <= N => Len(checks[i]) - 1 <= b
    BY <1>2, <2>3 DEF T
  <2>5. \A x \in L : x <= b
    BY <1>2, <2>4
  <2>6. L \subseteq Nat /\ L # {}
    BY <1>1, <1>4
  <2>7. PICK n \in L : \A x \in L : x <= n
    BY <2>5, <2>6, Greatest
  <2>8. n \in L /\ \A i \in A : Len(checks[i]) - 1 <= n
    BY <2>7
  <2>9. R!TailLength(m) = CHOOSE x \in L : \A i \in A : Len(checks[i]) - 1 <= x
    BY <1>4 DEF R!TailLength
  <2>10. R!TailLength(m) \in L /\ \A i \in A : Len(checks[i]) - 1 <= R!TailLength(m)
    BY <2>8, <2>9
  <2> QED
    BY <1>1, <2>6, <2>10
<1> QED
  BY <1>3, <1>4

-----------------------------------------------------------------------------
(* EvidenceIsRetained.  A check that has passed occurs in what is retained; *)
(* one that has not does not, and the tail of each stream is an end of what *)
(* is retained of it, long enough that nothing is missed.                   *)

Has(i, s) == R!Occurs(checks[i], Seen(s))

TailInv(s) ==
  /\ tail[s] \in Seq(Bytes) /\ Ends(tail[s], Seen(s))
  /\ \A i \in R!LogChecks \ met :
       /\ Len(tail[s]) >= Len(checks[i]) - 1 \/ tail[s] = Seen(s)
       /\ ~Has(i, s)

EvidenceInv ==
  stage \notin {"mark", "gone"} =>
    /\ \A i \in R!LogChecks \cap met : \E s \in Streams : Has(i, s)
    /\ verdict = "pending" => \A s \in Streams : TailInv(s)

PublishedEvidence ==
  \A i \in R!LogChecks \cap published.met :
    \E s \in Streams : R!Occurs(checks[i], Retained(s))

LEMMA SeenTypes ==
  ASSUME RecordingTypeOK, FileInv, NEW s \in Streams
  PROVE  /\ Seen(s) \in Seq(Bytes) /\ Retained(s) \in Seq(Bytes) /\ Kept(s) \in Seq(Bytes)
         /\ Seq(Bytes) \subseteq Seq(AnyBytes)
         /\ Seen(s) = Retained(s) \o Kept(s)
         /\ chunk = NoChunk => Seen(s) = Retained(s)
<1>1. /\ Retained(s) \in Seq(Bytes) /\ Kept(s) \in Seq(Bytes)
      /\ Seen(s) = Retained(s) \o Kept(s)
  BY StreamTypes, KeptBytes
<1>2. Seen(s) \in Seq(Bytes)
  BY <1>1, ConcatProperties
<1>3. Seq(Bytes) \subseteq Seq(AnyBytes)
  BY SeqMonotonic DEF AnyBytes
<1>4. chunk = NoChunk => Seen(s) = Retained(s)
  BY DEF Seen, NoChunk, Streams
<1> QED
  BY <1>1, <1>2, <1>3, <1>4

(* A chunk taken from the channel adds to what is seen of its stream. *)
LEMMA BeginIsSeen ==
  ASSUME RecordingTypeOK, FileInv, BeginRecord
  PROVE  \E t \in Streams, k \in Seq(Bytes) :
           /\ t = Head(channel).stream /\ k = Capturable(Head(channel).bytes)
           /\ Seen(t)' = Seen(t) \o k
           /\ \A s \in Streams \ {t} : Seen(s)' = Seen(s)
<1>1. /\ chunk = NoChunk /\ channel # <<>> /\ chunk' = Head(channel)
      /\ UNCHANGED <<stage, summary, file>>
  BY DEF BeginRecord
<1>2. Head(channel) \in Chunks
  BY <1>1, HeadTailProperties DEF RecordingTypeOK
<1>3. Head(channel).stream \in Streams /\ Head(channel).bytes \in Seq(Bytes)
  BY <1>2 DEF Chunks
<1>4. Capturable(Head(channel).bytes) \in Seq(Bytes)
  BY <1>3, CapturableShape DEF FileInv
<1>5. PICK t \in Streams, k \in Seq(Bytes) :
        t = Head(channel).stream /\ k = Capturable(Head(channel).bytes)
  BY <1>3, <1>4
<1>6. \A s \in Streams : Seen(s) = Retained(s) /\ Retained(s)' = Retained(s)
  BY <1>1, SeenTypes DEF Retained
<1>7. Capturable(chunk.bytes)' = k
  BY <1>1, <1>5 DEF Capturable
<1>8. \A s \in Streams : Seen(s)' = IF t = s THEN Seen(s) \o k ELSE Seen(s)
  BY <1>1, <1>5, <1>6, <1>7 DEF Seen
<1> QED
  BY <1>5, <1>8

(* What has occurred in a stream occurs in more of it. *)
LEMMA EvidenceStays ==
  ASSUME R!ReadinessTypeOK, NEW i \in R!LogChecks,
         NEW w \in Seq(Bytes), NEW k \in Seq(Bytes), R!Occurs(checks[i], w)
  PROVE  R!Occurs(checks[i], w \o k)
<1>1. w \in Seq(AnyBytes) /\ k \in Seq(AnyBytes)
  BY SeqMonotonic DEF AnyBytes
<1> QED
  BY <1>1, CheckLiterals, OccursLonger

LEMMA RecordKeepsEvidence ==
  ASSUME RecordingTypeOK, RecordingInv, R!ReadinessTypeOK, EvidenceInv, RecordChunk
  PROVE  EvidenceInv'
<1>0. PICK s0 \in Streams, k \in Seq(Bytes) :
        /\ s0 = Head(channel).stream /\ k = Capturable(Head(channel).bytes)
        /\ Seen(s0)' = Seen(s0) \o k
        /\ \A s \in Streams \ {s0} : Seen(s)' = Seen(s)
  BY BeginIsSeen DEF RecordChunk, RecordingInv
<1>1. /\ Seen(s0)' = Seen(s0) \o k
      /\ \A s \in Streams \ {s0} : Seen(s)' = Seen(s)
      /\ stage \notin {"mark", "gone"} /\ stage' = stage
      /\ R!ObserveLog(s0, k)
  BY <1>0 DEF RecordChunk, BeginRecord
<1>2. \A s \in Streams : Seen(s) \in Seq(Bytes)
  BY SeenTypes DEF RecordingInv
<1>3. UNCHANGED checks
  BY <1>1 DEF R!ObserveLog, R!readinessVars, R!worldVars
<1>4. R!LogChecks' = R!LogChecks
  BY <1>3 DEF R!LogChecks
<1>5. /\ \A i : Has(i, s0)' = R!Occurs(checks[i], Seen(s0) \o k)
      /\ \A i : \A s \in Streams \ {s0} : Has(i, s)' = Has(i, s)
  BY <1>1, <1>3 DEF Has, R!Occurs
<1>9. ASSUME NEW i \in R!LogChecks \cap met
      PROVE  \E s \in Streams : Has(i, s)'
  <2>1. PICK s \in Streams : Has(i, s)
    BY <1>1 DEF EvidenceInv
  <2>2. CASE s = s0
    <3>1. R!Occurs(checks[i], Seen(s0))
      BY <2>1, <2>2 DEF Has
    <3>2. R!Occurs(checks[i], Seen(s0) \o k)
      BY <1>1, <1>2, <3>1, EvidenceStays
    <3> QED
      BY <1>1, <1>5, <3>2
  <2>3. CASE s # s0
    BY <1>5, <2>1, <2>3
  <2> QED
    BY <2>2, <2>3
<1>6. CASE verdict # "pending"
  <2>1. UNCHANGED <<met, verdict>>
    BY <1>1, <1>6 DEF R!ObserveLog, R!readinessVars, R!trackerVars
  <2> QED
    BY <1>4, <1>6, <1>9, <2>1 DEF EvidenceInv
<1>7. CASE verdict = "pending"
  <2> DEFINE text == tail[s0] \o k
  <2>1. /\ met' = met \cup {i \in R!LogChecks : R!Occurs(checks[i], text)}
        /\ tail' = [tail EXCEPT ![s0] = R!LastBytes(text, R!TailLength(met'))]
    BY <1>1, <1>7 DEF R!ObserveLog
  <2>2. \A s \in Streams : TailInv(s)
    BY <1>1, <1>7 DEF EvidenceInv
  <2>3. tail[s0] \in Seq(Bytes) /\ Ends(tail[s0], Seen(s0))
    BY <1>1, <2>2 DEF TailInv
  <2>4. text \in Seq(Bytes) /\ Ends(text, Seen(s0) \o k)
        /\ Len(text) = Len(tail[s0]) + Len(k)
    BY <1>1, <1>2, <2>3, EndsConcat, ConcatProperties
  <2>5. /\ Seen(s0) \in Seq(AnyBytes) /\ k \in Seq(AnyBytes) /\ tail[s0] \in Seq(AnyBytes)
        /\ text \in Seq(AnyBytes) /\ Seen(s0) \o k \in Seq(AnyBytes)
        /\ Seen(s0) \o k \in Seq(Bytes)
    <3>1. Seq(Bytes) \subseteq Seq(AnyBytes)
      BY SeqMonotonic DEF AnyBytes
    <3>2. Seen(s0) \o k \in Seq(Bytes)
      BY <1>1, <1>2, ConcatProperties
    <3> HIDE DEF text
    <3> QED
      BY <1>1, <1>2, <2>3, <2>4, <3>1, <3>2
  <2>6. ASSUME NEW i \in R!LogChecks, R!Occurs(checks[i], text)
        PROVE  Has(i, s0)'
    <3> HIDE DEF text
    <3>1. R!Occurs(checks[i], Seen(s0) \o k)
      BY <2>4, <2>5, <2>6, CheckLiterals, OccursInEnd
    <3> QED
      BY <1>5, <3>1
  <2>7. ASSUME NEW i \in R!LogChecks \cap met'
        PROVE  \E s \in Streams : Has(i, s)'
    <3> HIDE DEF text
    <3>1. i \in met \/ R!Occurs(checks[i], text)
      BY <2>1
    <3> QED
      BY <1>1, <1>9, <2>6, <3>1
  <2>8. ASSUME NEW i \in R!LogChecks \ met'
        PROVE  i \in R!LogChecks \ met /\ ~R!Occurs(checks[i], text)
    BY <2>1
  <2>9. TailInv(s0)'
    <3> DEFINE n == R!TailLength(met')
               t == R!LastBytes(text, n)
    <3>1. n \in Nat /\ \A i \in R!LogChecks \ met' : n >= Len(checks[i]) - 1
      BY TailIsLongEnough
    <3> HIDE DEF n, text
    <3>2. t \in Seq(Bytes) /\ Ends(t, text) /\ (Len(t) >= n \/ t = text)
      BY <2>4, <3>1, LastBytesEnds
    <3>3. tail'[s0] = t
      BY <1>1, <2>1 DEF R!ReadinessTypeOK, n
    <3> HIDE DEF t
    <3>4. Ends(t, Seen(s0) \o k)
      BY <2>4, <2>5, <3>2, EndsTransitive
    <3>5. ASSUME NEW i \in R!LogChecks \ met'
          PROVE  /\ Len(t) >= Len(checks[i]) - 1 \/ t = Seen(s0) \o k
                 /\ ~R!Occurs(checks[i], Seen(s0) \o k)
      <4>1. /\ i \in R!LogChecks \ met /\ ~R!Occurs(checks[i], text)
            /\ checks[i] \in Seq(AnyBytes) /\ Len(checks[i]) \in Nat
        BY <2>8, CheckLiterals
      <4>2. /\ Len(tail[s0]) >= Len(checks[i]) - 1 \/ tail[s0] = Seen(s0)
            /\ ~R!Occurs(checks[i], Seen(s0))
        BY <1>1, <2>2, <4>1 DEF TailInv, Has
      <4>3. ~R!Occurs(checks[i], Seen(s0) \o k)
        BY <2>3, <2>5, <4>1, <4>2, OccursAcross DEF text
      <4>4. Len(t) >= Len(checks[i]) - 1 \/ t = Seen(s0) \o k
        <5>1. Len(t) \in Nat /\ Len(k) \in Nat /\ Len(tail[s0]) \in Nat
          BY <1>1, <2>3, <3>2, LenProperties
        <5>2. CASE Len(t) >= n
          BY <3>1, <4>1, <5>1, <5>2
        <5>3. CASE t = text
          <6>1. CASE Len(tail[s0]) >= Len(checks[i]) - 1
            BY <2>4, <4>1, <5>1, <5>3, <6>1
          <6>2. CASE tail[s0] = Seen(s0)
            BY <5>3, <6>2 DEF text
          <6> QED
            BY <4>2, <6>1, <6>2
        <5> QED
          BY <3>2, <5>2, <5>3
      <4> QED
        BY <4>3, <4>4
    <3>6. /\ tail'[s0] \in Seq(Bytes) /\ Ends(tail'[s0], Seen(s0)')
          /\ \A i \in R!LogChecks' \ met' :
               /\ Len(tail'[s0]) >= Len(checks'[i]) - 1 \/ tail'[s0] = Seen(s0)'
               /\ ~Has(i, s0)'
      BY <1>1, <1>3, <1>4, <1>5, <3>2, <3>3, <3>4, <3>5
    <3> QED
      BY <3>6 DEF TailInv
  <2>10. ASSUME NEW s \in Streams, s # s0 PROVE TailInv(s)'
    <3>1. tail'[s] = tail[s] /\ Seen(s)' = Seen(s) /\ \A i : Has(i, s)' = Has(i, s)
      BY <1>1, <1>5, <2>1, <2>10 DEF R!ReadinessTypeOK
    <3>2. TailInv(s)
      BY <2>2
    <3>3. /\ tail'[s] \in Seq(Bytes) /\ Ends(tail'[s], Seen(s)')
          /\ \A i \in R!LogChecks' \ met' :
               /\ Len(tail'[s]) >= Len(checks'[i]) - 1 \/ tail'[s] = Seen(s)'
               /\ ~Has(i, s)'
      BY <1>3, <1>4, <2>8, <3>1, <3>2 DEF TailInv
    <3> QED
      BY <3>3 DEF TailInv
  <2>11. \A s \in Streams : TailInv(s)'
    BY <2>9, <2>10
  <2>12. \A i \in R!LogChecks' \cap met' : \E s \in Streams : Has(i, s)'
    BY <1>4, <2>7
  <2> QED
    BY <2>11, <2>12 DEF EvidenceInv
<1> QED
  BY <1>6, <1>7

(* Polling a probe, the deadline and the child's exit are no log evidence. *)
LEMMA OtherEvidence ==
  ASSUME R!ReadinessTypeOK, R!PollDue \/ R!PollEarly \/ R!ProcessExited
  PROVE  /\ UNCHANGED <<checks, tail>>
         /\ R!LogChecks \cap met' = R!LogChecks \cap met
<1>1. CASE R!PollDue
  <2>1. UNCHANGED <<checks, tail>>
    BY <1>1 DEF R!PollDue, R!TimeOut, R!Probe, R!worldVars
  <2>2. CASE UNCHANGED met
    BY <2>1, <2>2
  <2>3. CASE ~UNCHANGED met
    <3>1. met' = met \cup {R!NextExternalCheck} /\ R!Probes \ met # {}
      BY <1>1, <2>3 DEF R!PollDue, R!TimeOut, R!Probe
    <3>2. R!NextExternalCheck \notin R!LogChecks
      BY <3>1, NextCheckExists DEF R!Probes
    <3> QED
      BY <2>1, <3>1, <3>2
  <2> QED
    BY <2>2, <2>3
<1>2. CASE R!PollEarly \/ R!ProcessExited
  BY <1>2 DEF R!PollEarly, R!ProcessExited, R!readinessVars, R!trackerVars, R!worldVars
<1> QED
  BY <1>1, <1>2

LEMMA EvidenceKept ==
  ASSUME EvidenceInv, UNCHANGED checks, \A s \in Streams : Seen(s)' = Seen(s),
         R!LogChecks \cap met' = R!LogChecks \cap met,
         verdict' = "pending" => verdict = "pending" /\ UNCHANGED tail,
         stage \in {"mark", "gone"} => stage' \in {"mark", "gone"}
  PROVE  EvidenceInv'
<1> SUFFICES ASSUME stage' \notin {"mark", "gone"} PROVE EvidenceInv'
  BY DEF EvidenceInv
<1>1. R!LogChecks' = R!LogChecks
  BY DEF R!LogChecks
<1>2. \A s \in Streams : \A i : Has(i, s)' = Has(i, s)
  BY DEF Has, R!Occurs
<1>3. \A i \in R!LogChecks' \cap met' : \E s \in Streams : Has(i, s)'
  BY <1>1, <1>2 DEF EvidenceInv
<1>4. ASSUME verdict' = "pending", NEW s \in Streams PROVE TailInv(s)'
  <2>1. TailInv(s) /\ tail' = tail
    BY <1>4 DEF EvidenceInv
  <2>2. R!LogChecks' \ met' = R!LogChecks \ met
    BY <1>1
  <2>3. /\ tail'[s] \in Seq(Bytes) /\ Ends(tail'[s], Seen(s)')
        /\ \A i \in R!LogChecks' \ met' :
             /\ Len(tail'[s]) >= Len(checks'[i]) - 1 \/ tail'[s] = Seen(s)'
             /\ ~Has(i, s)'
    BY <1>2, <2>1, <2>2 DEF TailInv
  <2> QED
    BY <2>3 DEF TailInv
<1> QED
  BY <1>3, <1>4 DEF EvidenceInv

LEMMA SameSeen ==
  ASSUME UNCHANGED <<chunk, file, summary>>
  PROVE  \A s \in Streams : Seen(s)' = Seen(s)
BY DEF Seen, Retained, Capturable

LEMMA EvidenceStep ==
  ASSUME RecordingTypeOK, RecordingInv, BudgetInv, R!ReadinessTypeOK, EvidenceInv, [Next]_vars
  PROVE  EvidenceInv'
<1> USE DEF RecordingInv
<1>1. CASE RecordChunk
  BY <1>1, RecordKeepsEvidence
<1>2. CASE PollReadiness
  <2>1. UNCHANGED <<chunk, file, summary>> /\ stage = "poll" /\ stage' = "wait"
    BY <1>2 DEF PollReadiness, Poll, Goto, diskVars
  <2>2. R!PollDue \/ R!PollEarly
    BY <1>2 DEF PollReadiness
  <2>3. verdict' = "pending" => verdict = "pending"
    BY <2>2, TrackerSteps DEF Tracked
  <2> QED
    BY <2>1, <2>2, <2>3, SameSeen, OtherEvidence, EvidenceKept
<1>3. CASE stage' \in {"mark", "gone"}
  BY <1>3 DEF EvidenceInv
<1>4. CASE FlushRecord /\ UNCHANGED <<readinessVars, published>>
  <2>1. /\ UNCHANGED <<checks, met, verdict, tail, stage>> /\ chunk' = NoChunk
    BY <1>4 DEF FlushRecord, readinessVars
  <2>2. \A s \in Streams : Retained(s)' = Seen(s)
    BY <1>4, FlushKeepsBudget
  <2>3. \A s \in Streams : Seen(s)' = Seen(s)
    BY <2>1, <2>2 DEF Seen, NoChunk, Streams
  <2> QED
    BY <2>1, <2>3, EvidenceKept
<1>5. ASSUME UNCHANGED <<checks, met, verdict, tail>>, UNCHANGED <<chunk, file, summary>>,
             stage \in {"mark", "gone"} => stage' \in {"mark", "gone"}
      PROVE  EvidenceInv'
  BY <1>5, SameSeen, EvidenceKept
<1>6. CASE World \/ UNCHANGED vars
  BY <1>5, <1>6 DEF World, R!DeadlinePasses, R!ServiceChanges, R!trackerVars, vars,
     readinessVars, logVars, diskVars
<1>7. CASE Surroundings
  <2>1. UNCHANGED <<checks, met, verdict, tail>>
    BY <1>7 DEF Surroundings, readinessVars
  <2>2. CASE Readers \/ ClientStep
    <3>1. UNCHANGED <<chunk, file, summary, stage>>
      BY <2>2 DEF Readers, Capture, ReaderEnds, ClientStep, LookAtState, ReadFile, diskVars
    <3> QED
      BY <1>5, <2>1, <3>1
  <2>3. CASE Fail \/ Crash
    BY <1>3, <2>3 DEF Fail, Crash, Unwind, Goto
  <2> QED
    BY <1>7, <2>2, <2>3 DEF Surroundings
<1>8. CASE OtherSteps /\ UNCHANGED <<readinessVars, published>>
  <2>1. UNCHANGED <<checks, met, verdict, tail>>
    BY <1>8 DEF readinessVars
  <2>2. CASE SpawnFails \/ DrainTimesOut \/ MarkFailed
    BY <1>3, <2>2 DEF SpawnFails, DrainTimesOut, MarkFailed, Unwind, Goto
  <2>3. CASE RecordRunning \/ CreateLog \/ Drained \/ StillRunning \/ ReapLeader
    <3>1. /\ UNCHANGED <<chunk, file, summary>>
          /\ stage \in {"mark", "gone"} => stage' \in {"mark", "gone"}
      BY <2>3 DEF RecordRunning, CreateLog, Drained, StillRunning, ReapLeader, Goto, diskVars
    <3> QED
      BY <1>5, <2>1, <3>1
  <2> QED
    BY <1>4, <1>8, <2>2, <2>3 DEF OtherSteps
<1>9. CASE FinishRun
  BY <1>3, <1>9 DEF FinishRun, Finish, Goto
<1> QED
  BY <1>1, <1>2, <1>6, <1>7, <1>8, <1>9 DEF Next, LoopSteps

(* Nothing is taken away from what is retained. *)
LEMMA RetainedGrows ==
  ASSUME RecordingTypeOK, RecordingInv, [LogNext]_logVars, NEW s \in Streams
  PROVE  Retained(s)' = Retained(s) \/ Retained(s)' = Retained(s) \o Kept(s)
<1>1. file' = file \/ (chunk # NoChunk /\ file' = Append(file, NewRecord))
  BY FileGrows DEF RecordingInv
<1>2. CASE file' = file
  BY <1>2 DEF Retained
<1>3. CASE chunk # NoChunk /\ file' = Append(file, NewRecord)
  <2>1. BytesOf(Append(file, NewRecord), s) = Seen(s) /\ Seen(s) = Retained(s) \o Kept(s)
    BY <1>3, RecordedBytes, KeptBytes DEF RecordingInv
  <2> QED
    BY <1>3, <2>1 DEF Retained
<1> QED
  BY <1>1, <1>2, <1>3

LEMMA PublishedEvidenceStep ==
  ASSUME RecordingTypeOK, RecordingInv, TrackerTypeOK, EvidenceInv, PublishedEvidence,
         [Next]_vars
  PROVE  PublishedEvidence'
<1> USE DEF RecordingInv
<1>1. checks' = checks /\ (Publish \/ UNCHANGED published)
  BY StepIsTracked DEF Tracked
<1>2. R!LogChecks' = R!LogChecks
  BY <1>1 DEF R!LogChecks
<1>3. ASSUME NEW i \in R!LogChecks, NEW s \in Streams, R!Occurs(checks[i], Retained(s))
      PROVE  R!Occurs(checks[i], Retained(s)')
  <2>1. Retained(s) \in Seq(Bytes) /\ Kept(s) \in Seq(Bytes)
    BY SeenTypes
  <2>2. R!Occurs(checks[i], Retained(s) \o Kept(s))
    BY <1>3, <2>1, EvidenceStays DEF TrackerTypeOK
  <2>3. Retained(s)' = Retained(s) \/ Retained(s)' = Retained(s) \o Kept(s)
    BY StepIsLogStep, RetainedGrows
  <2> QED
    BY <1>3, <2>2, <2>3
<1>4. ASSUME NEW i \in R!LogChecks \cap published'.met
      PROVE  \E s \in Streams : R!Occurs(checks[i], Retained(s))
  <2>1. CASE i \in published.met
    BY <2>1 DEF PublishedEvidence
  <2>2. CASE i \notin published.met
    <3>1. PollReadiness \/ FinishRun
      BY <1>4, <2>2 DEF Next, LoopSteps, RecordChunk, Surroundings, World, vars
    <3>2. chunk = NoChunk /\ stage \notin {"mark", "gone"} /\ Publish
      BY <3>1 DEF PollReadiness, Poll, FinishRun, Finish, StageInv
    <3>3. R!PollDue \/ R!PollEarly \/ R!ProcessExited
      BY <3>1 DEF PollReadiness, FinishRun
    <3>4. i \in R!LogChecks \cap met
      BY <3>2, <3>3, OtherEvidence DEF Publish, TrackerTypeOK
    <3>5. PICK s \in Streams : Has(i, s)
      BY <3>2, <3>4 DEF EvidenceInv
    <3> QED
      BY <3>2, <3>5, SeenTypes DEF Has
  <2> QED
    BY <2>1, <2>2
<1>5. ASSUME NEW i \in R!LogChecks' \cap published'.met
      PROVE  \E s \in Streams : R!Occurs(checks'[i], Retained(s)')
  BY <1>1, <1>2, <1>3, <1>4
<1>6. \A i, s : R!Occurs(checks[i], Retained(s))' = R!Occurs(checks'[i], Retained(s)')
  BY DEF R!Occurs
<1> QED
  BY <1>5, <1>6 DEF PublishedEvidence

LEMMA EvidenceInitially == Init => EvidenceInv /\ PublishedEvidence
<1> SUFFICES ASSUME Init PROVE EvidenceInv /\ PublishedEvidence
  OBVIOUS
<1>1. /\ RecordingTypeOK /\ TrackerTypeOK /\ met = {} /\ published.met = {}
      /\ tail = [s \in Streams |-> <<>>] /\ file = <<>> /\ chunk = NoChunk
  BY InitRecordingType, TrackerInitially DEF Init, LogInit, R!ReadinessInit
<1>2. ASSUME NEW s \in Streams PROVE TailInv(s)
  <2>1. Seen(s) = <<>> /\ tail[s] = <<>>
    BY <1>1, BytesOfNothing DEF Seen, Retained, NoChunk, Streams
  <2>2. <<>> \in Seq(Bytes) /\ <<>> \in Seq(AnyBytes) /\ Len(<<>>) = 0
    BY EmptySeq
  <2>3. ASSUME NEW i \in R!LogChecks PROVE ~R!Occurs(checks[i], <<>>)
    <3>1. checks[i] \in Seq(AnyBytes) /\ Len(checks[i]) \in Nat \ {0}
      BY <1>1, CheckLiterals DEF TrackerTypeOK
    <3>2. \A p \in Nat : ~StartsAt(checks[i], <<>>, p)
      BY <2>2, <3>1 DEF StartsAt
    <3> QED
      BY <2>2, <3>1, <3>2, OccursMeans
  <2>4. Ends(<<>>, <<>>)
    BY <2>2, EndsReflexive
  <2> QED
    BY <2>1, <2>2, <2>3, <2>4 DEF TailInv, Has
<1> QED
  BY <1>1, <1>2 DEF EvidenceInv, PublishedEvidence

(* ReadinessTracker::observe_log over any cut of the output into chunks: a  *)
(* log check has passed just when its literal occurs in the retained bytes  *)
(* of a stream, and what state.json says of that is in logs.ndjson, also    *)
(* after a failure or a crash.                                              *)
THEOREM EvidenceIsAlwaysRetained == SafeSpec => []EvidenceIsRetained
<1>1. SafeSpec => [](RecordingTypeOK /\ RecordingInv)
  BY MonitoringRecords, RecordingTypeCorrect, RecordingInvariant, PTL
<1>2. SafeSpec => []BudgetInv
  BY MonitoringRecords, BudgetInitially, BudgetStep, RecordingTypeCorrect, RecordingInvariant,
     PTL DEF LogSpec
<1>3. SafeSpec => [](TrackerTypeOK /\ PublishedInv)
  BY TrackerInitially, TrackerStep, PublishedInitially, PublishedStep, PTL DEF SafeSpec
<1>4. TrackerTypeOK => R!ReadinessTypeOK
  BY DEF TrackerTypeOK
<1>5. TrackerTypeOK /\ PublishedInv /\ EvidenceInv /\ PublishedEvidence => EvidenceIsRetained
  <2> SUFFICES ASSUME TrackerTypeOK, PublishedInv, EvidenceInv, PublishedEvidence
               PROVE  EvidenceIsRetained
    OBVIOUS
  <2>1. ASSUME stage \notin {"mark", "gone"}, verdict \in {"pending", "ready"},
               NEW i \in R!LogChecks
        PROVE  i \in met <=> \E s \in Streams : R!Occurs(checks[i], Seen(s))
    <3>1. CASE i \in met
      BY <2>1, <3>1 DEF EvidenceInv, Has
    <3>2. CASE i \notin met
      <4>1. verdict = "pending"
        BY <2>1, <3>2 DEF PublishedInv, R!LogChecks
      <4> QED
        BY <2>1, <3>2, <4>1 DEF EvidenceInv, TailInv, Has
    <3> QED
      BY <3>1, <3>2
  <2> QED
    BY <2>1 DEF PublishedEvidence, EvidenceIsRetained
<1> QED
  BY <1>1, <1>2, <1>3, <1>4, <1>5, EvidenceInitially, EvidenceStep, PublishedEvidenceStep, PTL
  DEF SafeSpec
=============================================================================
