-------------------------- MODULE MCPersistentAsync --------------------------
(* Instances of PersistentAsync for TLC. *)
EXTENDS PersistentAsync
CONSTANTS r1, r2, r3

MCRanks2 == {r1, r2}
MCRanks3 == {r1, r2, r3}
MCPositions == 1 .. 6
AllWrite == [s \in MCPositions |-> Ranks]
\* The third rank holds a replica of the data and never writes.
ReplicaIdle == [s \in MCPositions |-> Ranks \ {r3}]

\* What the training loop does: polls between saves, drains and closes at the
\* end; the worker may be closed and started again; a synchronous save runs
\* while nothing is in flight.
TrainingPrograms ==
  {<<"save", "poll", "save", "poll", "drain", "close">>,
   <<"save", "save", "poll", "save", "drain", "close">>,
   <<"poll", "save", "drain", "save", "poll", "close">>,
   <<"save", "drain", "sync", "save", "drain", "close">>,
   <<"save", "close", "poll", "save", "save", "close">>}

\* A fault may happen while saves are in flight.
FaultPrograms ==
  {<<"save", "poll", "fault", "save", "poll", "close">>,
   <<"save", "save", "fault", "save", "save", "close">>}

AllPrograms == TrainingPrograms \cup FaultPrograms

\* For three ranks and failures: one program with a fault.
FailurePrograms ==
  TrainingPrograms \cup {<<"save", "poll", "fault", "save", "poll", "close">>}

OneSave == {<<"save", "close">>}
=============================================================================
