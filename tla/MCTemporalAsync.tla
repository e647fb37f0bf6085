--------------------------- MODULE MCTemporalAsync ---------------------------
(* Instances of TemporalAsync for TLC. *)
EXTENDS TemporalAsync
CONSTANTS r1, r2, r3

MCRanks2 == {r1, r2}
MCRanks3 == {r1, r2, r3}
MCPositions == 1 .. 6
AllWrite == [s \in MCPositions |-> Ranks]
ReplicaIdle == [s \in MCPositions |-> Ranks \ {r3}]

\* At most one save in flight: every save is drained before the next one.
OneInFlight ==
  {<<"save", "poll", "drain", "save", "poll", "close">>,
   <<"sync", "save", "close", "sync", "save", "close">>}

\* Several saves in flight.
Overlapping ==
  {<<"save", "poll", "save", "poll", "save", "close">>,
   <<"save", "save", "poll", "sync", "drain", "close">>}
=============================================================================
