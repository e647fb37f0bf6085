--------------------------- MODULE DurableTraining ---------------------------
(***************************************************************************)
(* What checkpointing promises a training job: training advances one step  *)
(* at a time, now and then a step already reached becomes durable, a       *)
(* durable step is never given up for an earlier one, and a job that stops *)
(* goes on from the durable step.                                          *)
(***************************************************************************)
EXTENDS Naturals

VARIABLES
  current,  \* the step the job has reached
  durable   \* the step it would resume from

vars == <<current, durable>>

Init == current = 0 /\ durable = 0

Advance == current' = current + 1 /\ UNCHANGED durable

Publish ==
  /\ durable' \in durable + 1 .. current
  /\ UNCHANGED current

Stop == current' = durable /\ UNCHANGED durable

Next == Advance \/ Publish \/ Stop

Spec == Init /\ [][Next]_vars
=============================================================================
