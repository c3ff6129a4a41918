--------------------------- MODULE AtomicTransform --------------------------
(***************************************************************************)
(* What a transform function promises its caller: it is given a task, and  *)
(* when it returns every component of the result has been computed, from   *)
(* all of the data and from nothing older.  How many threads did it, and   *)
(* when the Fourier transforms were run, cannot be told from outside.      *)
(***************************************************************************)
CONSTANTS Task, Idle

VARIABLES
  task,       \* what is being computed, or Idle
  result      \* of the last task: "none" before the first one returns

Init == task = Idle /\ result = "none"

Begin ==
  /\ task = Idle
  /\ task' \in Task
  /\ UNCHANGED result

Return ==
  /\ task # Idle
  /\ task' = Idle
  /\ result' = "right"

Next == Begin \/ Return

Spec == Init /\ [][Next]_<<task, result>>
=============================================================================
