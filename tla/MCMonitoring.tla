---------------------------- MODULE MCMonitoring ----------------------------
(* Instances of Monitoring for TLC: what the child writes, and who watches. *)
EXTENDS Monitoring

Out(o, e) == [s \in Streams |-> IF s = "stdout" THEN o ELSE e]

(* Four bytes, one more than the budget: a literal may be cut by chunks, by *)
(* the budget, and be spread over the two streams.                          *)
Talks == Out(<<"a", "a", "b">>, <<"b">>)
Says == Out(<<"b">>, <<>>)
SmallOutputs == {Talks, Says}

TwoLiterals == <<<<"a", "b">>, <<"a", "a", "b">>>>
Mixed == <<<<>>, <<"b">>, <<>>>>  \* between two probes
SmallLists == {<<>>, TwoLiterals, Mixed}

(* Either somebody follows stdout, whose records have those of stderr       *)
(* between them; or readiness is configured.                                *)
Followed ==
  /\ checks = <<>> /\ client.at # "absent"
  /\ output = Talks /\ client.wanted = {"stdout"}
Checked ==
  /\ client.at = "absent" /\ client.wanted = Streams
  /\ <<checks, output>> \in {<<TwoLiterals, Talks>>, <<Mixed, Says>>}

MonitoringInit == Init /\ (Followed \/ Checked)
SafeMonitoringSpec == MonitoringInit /\ [][Next]_vars
MonitoringSpec == SafeMonitoringSpec /\ Fairness
=============================================================================
