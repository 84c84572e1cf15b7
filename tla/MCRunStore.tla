----------------------------- MODULE MCRunStore -----------------------------
(* An instance of RunStore for TLC. *)
EXTENDS RunStore

CONSTANTS c1, c2

(* Bound: the older run is running when the first command is given,         *)
(* and the first command is a gc.                                           *)
OneRunning ==
  /\ executes \in {f \in [Scanners -> BOOLEAN] : f[c1]}
  /\ start = [r \in Runs |-> IF r = 1 THEN "over" ELSE "idle"]
  /\ sup = [r \in Runs |-> IF r = 1 THEN "active" ELSE "none"]
  /\ present = {1} /\ locks = {1}
  /\ doc = [r \in Runs |-> IF r = 1 THEN "live" ELSE "none"]
  /\ at = [c \in Scanners |-> "idle"] /\ todo = [c \in Scanners |-> {}]
  /\ seen = [c \in Scanners |-> "none"] /\ due = [c \in Scanners |-> {}]
  /\ result = [c \in Scanners |-> "none"]
  /\ abandoned = FALSE

StoreSpec == OneRunning /\ [][Next]_vars /\ Fairness
=============================================================================
