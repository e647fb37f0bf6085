--------------------------- MODULE AsyncCallsQueue ---------------------------
(***************************************************************************)
(* The trainer side of asynchronous checkpoint saving in Megatron-LM:      *)
(* AsyncCallsQueue and AsyncRequest.execute_sync (async_utils.py), the     *)
(* write results (filesystem_async.py) and the finalize functions of a     *)
(* save (state_dict_saver.py, serialization.py).                           *)
(*                                                                         *)
(* All ranks run one program (SPMD): a sequence of operations chosen once, *)
(* at start-up, and executed by every rank at its own speed.               *)
(*   "save"   schedule_async_request of a new asynchronous save            *)
(*   "poll"   maybe_finalize_async_calls(blocking=False)                   *)
(*   "drain"  maybe_finalize_async_calls(blocking=True)                    *)
(*   "close"  AsyncCallsQueue.close()                                      *)
(*   "sync"   a synchronous save, AsyncRequest.execute_sync()              *)
(*   "fault"  up to here an in-process restart may happen (PersistentAsync)*)
(* A save is named by its position in the program; call_idx is a strictly  *)
(* increasing renaming of the positions of the "save" operations.          *)
(*                                                                         *)
(* How a call is executed in the background is left to the module of the   *)
(* caller, TemporalAsync or PersistentAsync, which extends this one.       *)
(***************************************************************************)
EXTENDS Naturals, Sequences, FiniteSets

CONSTANTS
  Ranks,        \* the ranks of the process group
  Coordinator,  \* rank 0: gathers the write results, writes the metadata
  Programs,     \* the programs the trainers may run
  Positions,    \* the positions in a program
  Writers,      \* Writers[s]: the ranks whose async_fn is not None in save s
  MaxFailures   \* bound: how many write errors and process deaths happen

Ops == {"save", "poll", "drain", "close", "sync", "fault"}

ASSUME RanksAssumption == Coordinator \in Ranks
ASSUME PositionsAssumption == Positions \subseteq Nat \ {0}
ASSUME ProgramsAssumption ==
  \A p \in Programs : p \in Seq(Ops) /\ 1 .. Len(p) \subseteq Positions
ASSUME WritersAssumption == Writers \in [Positions -> SUBSET Ranks]
ASSUME FailuresAssumption == MaxFailures \in Nat

VARIABLES
  prog,       \* the program, the same on all ranks
  ip,         \* ip[r]: the position rank r is at
  pc,         \* pc[r]: where rank r is inside the operation
  calls,      \* calls[r]: async_calls, the deque of active requests
  fin,        \* fin[r]: the save being finalized (0: none)
  vote,       \* vote[r]: the is_alive flag r gives to the all-reduce
  got,        \* got[r]: the write result r retrieved
  finalized,  \* finalized[r]: the saves r finalized, in order
  results,    \* results[r]: _results_queue, one per trainer process
  written,    \* written[s]: the ranks whose data of s is fully on disk
  torchMeta,  \* the saves whose .metadata file is written
  ckptMeta,   \* the saves whose metadata.json file is written
  failures    \* the failures injected so far

trainerVars == <<prog, ip, pc, calls, fin, vote, got, finalized>>
diskVars == <<written, torchMeta, ckptMeta>>
queueVars == <<trainerVars, diskVars, results, failures>>

Labels == {"ready", "stage", "loop", "reduce", "join", "retrieve", "gather",
           "json", "agree", "barrier", "stop", "stopping", "raised", "unmatched"}

NoResult == [save |-> 0, ok |-> TRUE]     \* nothing to write on this rank
MissingResult == [save |-> 0, ok |-> FALSE]  \* "results_queue should not be empty"
Results == [save : Positions, ok : BOOLEAN]
------------------------------------------------------------------------------
QueueTypeOK ==
  /\ prog \in Programs
  /\ ip \in [Ranks -> Nat \ {0}]
  /\ pc \in [Ranks -> Labels]
  /\ calls \in [Ranks -> Seq(Positions)]
  /\ fin \in [Ranks -> Positions \cup {0}]
  /\ vote \in [Ranks -> BOOLEAN]
  /\ got \in [Ranks -> Results \cup {NoResult, MissingResult}]
  /\ finalized \in [Ranks -> Seq(Positions)]
  /\ results \in [Ranks -> Seq(Results)]
  /\ written \in [Positions -> SUBSET Ranks]
  /\ torchMeta \subseteq Positions
  /\ ckptMeta \subseteq Positions
  /\ failures \in 0 .. MaxFailures

QueueInit ==
  /\ prog \in Programs
  /\ ip = [r \in Ranks |-> 1]
  /\ pc = [r \in Ranks |-> "ready"]
  /\ calls = [r \in Ranks |-> <<>>]
  /\ fin = [r \in Ranks |-> 0]
  /\ vote = [r \in Ranks |-> FALSE]
  /\ got = [r \in Ranks |-> NoResult]
  /\ finalized = [r \in Ranks |-> <<>>]
  /\ results = [r \in Ranks |-> <<>>]
  /\ written = [s \in Positions |-> {}]
  /\ torchMeta = {}
  /\ ckptMeta = {}
  /\ failures = 0

At(r, op) == pc[r] = "ready" /\ ip[r] \in 1 .. Len(prog) /\ prog[ip[r]] = op
AllAt(label) == \A r \in Ranks : pc[r] = label
NeverBlocking(r) == FALSE  \* mutated form of the next definition
Blocking(r) == prog[ip[r]] \in {"drain", "close"}
Finished(r) == pc[r] = "ready" /\ ip[r] = Len(prog) + 1
Raised(r) == pc[r] = "raised"

NextOp(r) == ip' = [ip EXCEPT ![r] = @ + 1] /\ pc' = [pc EXCEPT ![r] = "ready"]
Goto(r, label) == pc' = [pc EXCEPT ![r] = label] /\ UNCHANGED ip
------------------------------------------------------------------------------
(***************************************************************************)
(* maybe_finalize_async_calls: while async_calls is not empty, ask the     *)
(* caller of its head whether it is done.                                  *)
(***************************************************************************)
BeginFinalize(r) ==
  /\ \E op \in {"poll", "drain", "close"} : At(r, op)
  /\ Goto(r, "loop")
  /\ UNCHANGED <<prog, calls, fin, vote, got, finalized, diskVars, results, failures>>

\* The while loop ends; close() goes on to close the persistent caller.
QueueEmpty(r) ==
  /\ pc[r] = "loop"
  /\ calls[r] = <<>>
  /\ IF prog[ip[r]] = "close" THEN Goto(r, "stop") ELSE NextOp(r)
  /\ UNCHANGED <<prog, calls, fin, vote, got, finalized, diskVars, results, failures>>

\* sync_all_async_calls: the sum of is_alive over all ranks is zero.
SomeDone == \E r \in Ranks : ~vote[r]  \* mutated form of the next definition
AllDone == \A r \in Ranks : ~vote[r]

NewestCall(q) == q[Len(q)]  \* mutated form of the next definition
NextCall(q) == Head(q)      \* popleft()

\* All ranks pop the head of their deque and run its finalize functions.
StartFinalize ==
  /\ fin' = [r \in Ranks |-> NextCall(calls[r])]
  /\ calls' = [r \in Ranks |-> Tail(calls[r])]
  /\ pc' = [r \in Ranks |-> "retrieve"]
  /\ UNCHANGED ip

\* All ranks break out of the while loop: the head is not done.
LeaveLoop ==
  /\ ip' = [r \in Ranks |-> ip[r] + 1]
  /\ pc' = [r \in Ranks |-> "ready"]
  /\ UNCHANGED <<fin, calls>>
------------------------------------------------------------------------------
(***************************************************************************)
(* The finalize functions of a save.  retrieve_write_results takes one     *)
(* item of the results queue without waiting; a rank that had nothing to   *)
(* write has no results queue.                                             *)
(***************************************************************************)
Retrieve(r) ==
  /\ pc[r] = "retrieve"
  /\ IF r \notin Writers[fin[r]]
       THEN got' = [got EXCEPT ![r] = NoResult] /\ UNCHANGED results
     ELSE IF results[r] = <<>>
       THEN got' = [got EXCEPT ![r] = MissingResult] /\ UNCHANGED results
     ELSE /\ got' = [got EXCEPT ![r] = Head(results[r])]
          /\ results' = [results EXCEPT ![r] = Tail(@)]
  /\ Goto(r, "gather")
  /\ UNCHANGED <<prog, calls, fin, vote, finalized, diskVars, failures>>

NoGatheredFailures == {}  \* mutated form of the next definition
GatheredFailures == {r \in Ranks : ~got[r].ok}

\* save_state_dict_async_finalize: gather_object to the coordinator, which
\* writes .metadata unless a rank failed, then broadcasts whether one did.
GatherResults ==
  /\ AllAt("gather")
  /\ IF GatheredFailures = {}
       THEN /\ torchMeta' = torchMeta \cup {fin[Coordinator]}
            /\ pc' = [r \in Ranks |-> "json"]
       ELSE /\ pc' = [r \in Ranks |-> "raised"]
            /\ UNCHANGED torchMeta
  /\ UNCHANGED <<prog, ip, calls, fin, vote, got, finalized, written, ckptMeta,
                 results, failures>>

\* metadata_finalize_fn: rank 0 writes metadata.json, then a barrier.  A
\* synchronous save ends here, an asynchronous one compares call_idx.
SaveMetadataJson ==
  /\ AllAt("json")
  /\ ckptMeta' = ckptMeta \cup {fin[Coordinator]}
  /\ pc' = [r \in Ranks |-> IF prog[ip[r]] = "sync" THEN "ready" ELSE "agree"]
  /\ ip' = [r \in Ranks |-> IF prog[ip[r]] = "sync" THEN ip[r] + 1 ELSE ip[r]]
  /\ UNCHANGED <<prog, calls, fin, vote, got, finalized, written, torchMeta,
                 results, failures>>

\* all_reduce(MAX) of call_idx, which must equal this rank's own.
AgreeOnCallIdx ==
  /\ AllAt("agree")
  /\ LET matched(r) == \A q \in Ranks : fin[q] =< fin[r] IN
     /\ pc' = [r \in Ranks |-> IF matched(r) THEN "loop" ELSE "unmatched"]
     /\ finalized' = [r \in Ranks |-> IF matched(r) THEN Append(finalized[r], fin[r])
                                                    ELSE finalized[r]]
  /\ UNCHANGED <<prog, ip, calls, fin, vote, got, diskVars, results, failures>>
------------------------------------------------------------------------------
(***************************************************************************)
(* AsyncRequest.execute_sync: the data is written by the trainer itself,   *)
(* which puts the result on the same results queue, then a barrier.        *)
(***************************************************************************)
ExecuteSync(r) ==
  /\ At(r, "sync")
  /\ fin' = [fin EXCEPT ![r] = ip[r]]
  /\ IF r \notin Writers[ip[r]]
       THEN UNCHANGED <<written, results, failures>>
       ELSE \E ok \in BOOLEAN :
            /\ ok \/ failures < MaxFailures
            /\ failures' = IF ok THEN failures ELSE failures + 1
            /\ written' = IF ok THEN [written EXCEPT ![ip[r]] = @ \cup {r}] ELSE written
            /\ results' = [results EXCEPT ![r] = Append(@, [save |-> ip[r], ok |-> ok])]
  /\ Goto(r, "barrier")
  /\ UNCHANGED <<prog, calls, vote, got, finalized, torchMeta, ckptMeta>>

SyncBarrier ==
  /\ AllAt("barrier")
  /\ pc' = [r \in Ranks |-> "retrieve"]
  /\ UNCHANGED <<prog, ip, calls, fin, vote, got, finalized, diskVars, results, failures>>
------------------------------------------------------------------------------
QueueStep(r) == BeginFinalize(r) \/ QueueEmpty(r) \/ Retrieve(r) \/ ExecuteSync(r)
QueueCollective == GatherResults \/ SaveMetadataJson \/ AgreeOnCallIdx \/ SyncBarrier

\* All ranks ended the program, or an exception ended the job.
Terminated == \A r \in Ranks : Finished(r) \/ Raised(r)
------------------------------------------------------------------------------
(***************************************************************************)
(* Properties.                                                             *)
(***************************************************************************)
\* A save whose metadata.json (or .metadata) exists is complete: every rank
\* that had data to write has it on disk.  This is what "metadata.json is
\* written only if the checkpoint is complete" (serialization.save) promises,
\* whatever writers fail or die and however many saves are in flight.
MetadataOnlyIfComplete ==
  \A s \in torchMeta \cup ckptMeta : Writers[s] \subseteq written[s]

\* Rank r runs the finalize functions of an asynchronous save.
InFinalize(r) == pc[r] \in {"retrieve", "gather", "json", "agree"} /\ prog[ip[r]] # "sync"

\* No rank ever fails the assertion "Unmatched async calls", and two ranks
\* never disagree on which saves were finalized, nor on their order, which
\* is the order of scheduling (maybe_finalize_async_calls).
FinalizedInOrderEverywhere ==
  /\ \A r \in Ranks : pc[r] # "unmatched"
  /\ \A r, q \in Ranks : finalized[r] = finalized[q]
  /\ \A r, q \in Ranks : InFinalize(r) /\ InFinalize(q) => fin[r] = fin[q]
  /\ \A r \in Ranks : \A i, j \in 1 .. Len(finalized[r]) :
       i < j => finalized[r][i] < finalized[r][j]
------------------------------------------------------------------------------
(***************************************************************************)
(* What the queue implements: AsyncSave.  A save counts as scheduled once  *)
(* some rank has handed it to its caller.                                  *)
(***************************************************************************)
AsyncSaves == {s \in Positions : s =< Len(prog) /\ prog[s] = "save"}

ScheduledSaves ==
  {s \in AsyncSaves : \E r \in Ranks : ip[r] > s \/ (ip[r] = s /\ pc[r] = "stage")}

\* Some rank has yet to schedule the save, has it queued, or is finalizing it.
InProgress(s) == \E r \in Ranks :
  \/ ip[r] =< s
  \/ \E i \in 1 .. Len(calls[r]) : calls[r][i] = s
  \/ InFinalize(r) /\ fin[r] = s

Promise == INSTANCE AsyncSave WITH
  scheduled <- ScheduledSaves,
  lost <- {s \in ScheduledSaves \ ckptMeta : ~InProgress(s)},
  data <- [s \in Positions |-> IF s \in AsyncSaves THEN written[s] ELSE {}],
  complete <- ckptMeta \cap AsyncSaves

\* The background writers, the queues and the collectives together keep the
\* promise of AsyncSave: data before metadata, completion in order, no write to a
\* completed save.
ImplementsAsyncSave == Promise!Spec
=============================================================================
