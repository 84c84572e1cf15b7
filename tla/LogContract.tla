---------------------------- MODULE LogContract ----------------------------
(***************************************************************************)
(* What ProcHerd promises about the log of one run, without the pipes, the *)
(* channel, the budget and the file: records that are only ever added to,  *)
(* the boundary up to which they count, and a reader that follows them.    *)
(* LogCapture implements this specification (Log in LogCapture.tla).       *)
(***************************************************************************)
EXTENDS Naturals, SequencesExt

VARIABLES
  records,   \* the log
  boundary,  \* the cursor that ends the part of it that is committed
  phase,     \* "open", "complete" or "abandoned"
  wanted,    \* the streams that the reader asks for,
  after,     \* the cursor up to which it has been served,
  given,     \* what it has been given in all,
  refused    \* and whether it has just been told that the log is damaged

vars == <<records, boundary, phase, wanted, after, given, refused>>
readerVars == <<wanted, after, given, refused>>

Init ==
  /\ records = <<>> /\ boundary = 1 /\ phase = "open"
  /\ after = 0 /\ given = <<>> /\ refused = FALSE

(* Records are numbered from 1, none is changed or taken back. *)
Extend ==
  /\ phase = "open"
  /\ Len(records') = Len(records) + 1
  /\ Front(records') = records
  /\ Last(records').cursor = Len(records')
  /\ UNCHANGED <<boundary, phase, readerVars>>

(* The whole log is committed, and then perhaps complete. *)
Commit ==
  /\ phase = "open"
  /\ boundary' = Len(records) + 1
  /\ phase' \in {"open", "complete"}
  /\ UNCHANGED <<records, readerVars>>

(* It is left as it is, with what was committed last. *)
Abandon ==
  /\ phase = "open"
  /\ phase' = "abandoned"
  /\ UNCHANGED <<records, boundary, readerVars>>

(* The first n records, as far as they are of the streams asked for. *)
Wanted(n) ==
  FlattenSeq([i \in 1..Len(records) |->
                IF i <= n /\ records[i].stream \in wanted THEN <<records[i]>> ELSE <<>>])

(* The reader has every record it asked for up to its cursor, once and in   *)
(* order, and is never given one that is not committed.                     *)
Read ==
  /\ after <= after' /\ after' < boundary
  /\ given' = Wanted(after')
  /\ UNCHANGED <<records, boundary, phase, wanted, refused>>

(* Only an abandoned log may be found damaged. *)
Refuse ==
  /\ phase = "abandoned"
  /\ refused' = TRUE
  /\ UNCHANGED <<records, boundary, phase, wanted, after, given>>

AskAgain ==
  /\ refused' = FALSE
  /\ UNCHANGED <<records, boundary, phase, wanted, after, given>>

Next == Extend \/ Commit \/ Abandon \/ Read \/ Refuse \/ AskAgain

Spec == Init /\ [][Next]_vars
=============================================================================
