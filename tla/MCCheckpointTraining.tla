------------------------- MODULE MCCheckpointTraining -------------------------
(* Instances of CheckpointTraining for TLC. *)
EXTENDS CheckpointTraining

\* Synchronous saves, of which two are kept; a crash, exits and a ramp-up.
SynchronousJob ==
  [ async |-> FALSE, save |-> 2, np |-> 0, keep |-> 2, ramp |-> {3},
    crashes |-> 1, restarts |-> 0, stops |-> 1, reruns |-> 1 ]

\* With non-persistent checkpoints and an in-process restart.
RestartedJob ==
  [ SynchronousJob EXCEPT !.np = 3, !.crashes = 0, !.restarts = 1, !.stops = 0, !.reruns = 0 ]

\* Asynchronous saves, two crashes and an exit.
AsynchronousJob ==
  [ SynchronousJob EXCEPT !.async = TRUE, !.keep = -1, !.ramp = {}, !.reruns = 0,
                          !.crashes = 2 ]

\* All ways to leave the loop, and the saves of a batch size ramp-up.
ExitingJob ==
  [ AsynchronousJob EXCEPT !.np = 3, !.ramp = {2}, !.crashes = 0, !.reruns = 1 ]

Jobs == {SynchronousJob, RestartedJob, AsynchronousJob, ExitingJob}

\* Restarts in place, before and after a crash and an exit, for the invariant
\* CountersMatchWeights alone.
InterruptedJobs == { [RestartedJob EXCEPT !.keep = -1, !.crashes = 1, !.restarts = 2, !.stops = 1] }

\* A job without any failure but two restarts in place: the second loads the
\* counters that the process had reached (RestartsLoadTheLatest fails).
TwiceRestartedJob ==
  { [SynchronousJob EXCEPT !.keep = -1, !.ramp = {}, !.crashes = 0, !.restarts = 2,
                           !.stops = 0, !.reruns = 0] }

\* Of the asynchronous checkpoints, a background thread removes all but one
\* while the next is still being written.
KeepLastJob == { [AsynchronousJob EXCEPT !.keep = 1, !.crashes = 0, !.stops = 0] }
=============================================================================
