------------------------------ MODULE AsyncSave ------------------------------
(***************************************************************************)
(* What asynchronous checkpoint saving promises, independently of callers, *)
(* queues and collectives: saves are scheduled in order, their data are    *)
(* written by the ranks at any time after that, and they are completed one *)
(* after the other, in the order of scheduling, each only when the data of *)
(* all its writers are on disk.  A completed save is never written again.  *)
(* An exception or a restart gives saves up, also saves that the program   *)
(* would have scheduled next; what is given up never becomes complete.     *)
(***************************************************************************)
EXTENDS Naturals

CONSTANTS Ranks, Positions, Writers

VARIABLES
  scheduled,  \* the saves scheduled so far
  data,       \* data[s]: the ranks whose data of s are on disk
  complete,   \* the saves with their metadata on disk
  lost        \* the saves given up

vars == <<scheduled, data, complete, lost>>

TypeOK ==
  /\ scheduled \subseteq Positions
  /\ data \in [Positions -> SUBSET Ranks]
  /\ complete \subseteq scheduled
  /\ lost \subseteq scheduled \ complete

Init ==
  /\ scheduled = {}
  /\ data = [s \in Positions |-> {}]
  /\ complete = {}
  /\ lost = {}

Schedule(s) ==
  /\ \A t \in scheduled : t < s
  /\ scheduled' = scheduled \cup {s}
  /\ UNCHANGED <<data, complete, lost>>

WriteData(s, r) ==
  /\ s \in scheduled \ (complete \cup lost)
  /\ r \in Writers[s]
  /\ data' = [data EXCEPT ![s] = @ \cup {r}]
  /\ UNCHANGED <<scheduled, complete, lost>>

Complete(s) ==
  /\ s \in scheduled \ (complete \cup lost)
  /\ \A t \in scheduled : t < s => t \in complete \cup lost
  /\ Writers[s] \subseteq data[s]
  /\ complete' = complete \cup {s}
  /\ UNCHANGED <<scheduled, data, lost>>

GiveUp(S) ==
  /\ S \subseteq Positions \ complete
  /\ scheduled' = scheduled \cup S
  /\ lost' = lost \cup S
  /\ UNCHANGED <<data, complete>>

Next ==
  \/ \E s \in Positions : Schedule(s) \/ Complete(s) \/ \E r \in Ranks : WriteData(s, r)
  \/ \E S \in SUBSET Positions : GiveUp(S)

Spec == Init /\ [][Next]_vars
=============================================================================
