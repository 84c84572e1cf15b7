----------------------------- MODULE MCProcHerd -----------------------------
(* Instances of ProcHerd for TLC: which commands run beside the supervisor. *)
EXTENDS ProcHerd

CONSTANTS c1, c2, c3, c4, c5, c6, c7

AllCommands ==
  [c \in Observers |->
     CASE c = c1 -> "start"       [] c = c2 -> "stop"
       [] c = c3 -> "wait_exit"   [] c = c4 -> "wait_ready"
       [] c = c5 -> "wait_running" [] c = c6 -> "status"
       [] c = c7 -> "gc"]

(* The commands that are given at all. *)
Given ==
  {Command[c] : c \in {d \in Observers : at[d] # "done" \/ result[d] # "none"}}

(* Bounds: a run without leases, with or without readiness checks, whose    *)
(* child has no descendants and no runtime limit; and failing files only    *)
(* beside a start and a stop.                                               *)
NoLeases == durable.lease = "none"
Unchecked == durable.readiness = "not_configured"
NoDescendants == ~tree.group /\ ~tree.escaped
NoLimit == ~limitDue
FilesWork == Given # {"start", "stop"} => err # "io" /\ ending # "unmarked"

(* The commands that meet over one run. *)
Together ==
  \/ Unchecked /\ Given \in {{"start", "stop"}, {"start", "status"},
                             {"start", "wait_exit", "gc"}}
  \/ ~Unchecked /\ Given \in {{"start", "wait_running"}, {"start", "wait_ready"}}

TeamsInit == ProcHerdInit /\ NoLeases /\ Together
TeamsSpec == TeamsInit /\ [][ProcHerdNext]_vars

PlainInit ==
  ProcHerdInit /\ NoLeases /\ Unchecked /\ Given \subseteq {"start", "stop"}
SafePlainSpec == PlainInit /\ [][ProcHerdNext]_vars
PlainSpec == SafePlainSpec /\ ProcHerdFairness
=============================================================================
