--------------------------- MODULE PersistentAsync ---------------------------
(***************************************************************************)
(* Asynchronous saves through PersistentAsyncCaller (async_utils.py): each *)
(* rank has one worker process, started by its first save, that takes the  *)
(* requests from a queue, stages the tensors (preload_fn), writes them and *)
(* reports each completed call on comp_q.  Bridge accepts async_save only  *)
(* with this caller (use_persistent_ckpt_worker).                          *)
(***************************************************************************)
EXTENDS AsyncCallsQueue

\* What aborting does to the results queue, a proxy of a manager process: the
\* manager is shut down and the proxy kept (Megatron-Bridge, AbortCheckpoint), or
\* nothing (Megatron-LM, reset_persistent_async_worker).
CONSTANT AbortStopsManager

ASSUME AbortAssumption == AbortStopsManager \in BOOLEAN
\* Synchronous saves and in-process restarts are not mixed.
ASSUME NoSyncAndFault ==
  \A p \in Programs : ~\E i, j \in 1 .. Len(p) : p[i] = "fault" /\ p[j] = "sync"

VARIABLES
  worker,    \* worker[r]: the process: "none", "alive", "dead", or "exited"
  wpc,       \* wpc[r]: where the worker is in async_loop
  wsave,     \* wsave[r]: the request the worker executes (0: none)
  queue,     \* queue[r]: requests from the trainer to the worker, Done to stop
  unstaged,  \* unstaged[r]: the unfinished tasks of preload_q
  comp,      \* comp[r]: comp_q, completed calls from the worker to the trainer
  curItem,   \* curItem[r]: cur_item, the completed call not yet global (0: None)
  snap,      \* snap[r][s]: the trainer position whose weights were staged for s
  manager    \* manager[r]: the manager of the results queue runs

callerVars == <<worker, wpc, wsave, queue, unstaged, comp, curItem, manager>>
workerVars == <<callerVars, snap>>
vars == <<queueVars, workerVars>>

Done == 0  \* the 'DONE' message

WorkerLabels == {"idle", "preload", "write", "put", "report"}

TypeOK ==
  /\ QueueTypeOK
  /\ worker \in [Ranks -> {"none", "alive", "dead", "exited"}]
  /\ wpc \in [Ranks -> WorkerLabels]
  /\ wsave \in [Ranks -> Positions \cup {0}]
  /\ queue \in [Ranks -> Seq(Positions \cup {Done})]
  /\ unstaged \in [Ranks -> Nat]
  /\ comp \in [Ranks -> Seq(Positions)]
  /\ curItem \in [Ranks -> Positions \cup {0}]
  /\ snap \in [Ranks -> [Positions -> Nat]]
  /\ manager \in [Ranks -> BOOLEAN]

Init ==
  /\ QueueInit
  /\ worker = [r \in Ranks |-> "none"]
  /\ wpc = [r \in Ranks |-> "idle"]
  /\ wsave = [r \in Ranks |-> 0]
  /\ queue = [r \in Ranks |-> <<>>]
  /\ unstaged = [r \in Ranks |-> 0]
  /\ comp = [r \in Ranks |-> <<>>]
  /\ curItem = [r \in Ranks |-> 0]
  /\ snap = [r \in Ranks |-> [s \in Positions |-> 0]]
  /\ manager = [r \in Ranks |-> TRUE]
------------------------------------------------------------------------------
(***************************************************************************)
(* schedule_async_request and schedule_async_call.                         *)
(***************************************************************************)
\* async_fn is None: nothing is given to the worker, the request is queued.
ScheduleNoop(r) ==
  /\ At(r, "save")
  /\ r \notin Writers[ip[r]]
  /\ calls' = [calls EXCEPT ![r] = Append(@, ip[r])]
  /\ NextOp(r)
  /\ UNCHANGED <<prog, fin, vote, got, finalized, diskVars, results, failures, workerVars>>

\* The process is started if there is none; the request is put on the queue.
ScheduleCall(r) ==
  /\ At(r, "save")
  /\ r \in Writers[ip[r]]
  /\ worker' = [worker EXCEPT ![r] = IF @ = "none" THEN "alive" ELSE @]
  /\ unstaged' = [unstaged EXCEPT ![r] = @ + 1]
  /\ queue' = [queue EXCEPT ![r] = Append(@, ip[r])]
  /\ Goto(r, "stage")
  /\ UNCHANGED <<prog, calls, fin, vote, got, finalized, diskVars, results, failures,
                 wpc, wsave, comp, curItem, snap, manager>>

ResumeBeforeStaged(r) ==  \* mutated form of the next definition
  /\ pc[r] = "stage"
  /\ calls' = [calls EXCEPT ![r] = Append(@, ip[r])]
  /\ NextOp(r)
  /\ UNCHANGED <<prog, fin, vote, got, finalized, diskVars, results, failures, workerVars>>

\* preload_q.join() returns: the trainer may change its tensors again.
ResumeWhenStaged(r) ==
  /\ pc[r] = "stage"
  /\ unstaged[r] = 0
  /\ calls' = [calls EXCEPT ![r] = Append(@, ip[r])]
  /\ NextOp(r)
  /\ UNCHANGED <<prog, fin, vote, got, finalized, diskVars, results, failures, workerVars>>
------------------------------------------------------------------------------
(***************************************************************************)
(* is_current_async_call_done, up to the all-reduce.                       *)
(***************************************************************************)
Poll(r, alive) ==
  /\ pc[r] = "loop"
  /\ calls[r] # <<>>
  /\ vote' = [vote EXCEPT ![r] = alive]
  /\ Goto(r, "reduce")
  /\ UNCHANGED <<prog, calls, fin, got, finalized, diskVars, results, failures,
                 worker, wpc, wsave, queue, unstaged, snap, manager>>

\* No process, or a completed call already taken from comp_q.
PollKnown(r) ==
  /\ worker[r] = "none" \/ curItem[r] # 0
  /\ Poll(r, FALSE)
  /\ UNCHANGED <<comp, curItem>>

PollCompleted(r) ==
  /\ worker[r] # "none"
  /\ curItem[r] = 0
  /\ comp[r] # <<>>
  /\ curItem' = [curItem EXCEPT ![r] = Head(comp[r])]
  /\ comp' = [comp EXCEPT ![r] = Tail(@)]
  /\ Poll(r, FALSE)

\* comp_q is empty: a blocking check sleeps and retries (no step here), a
\* non-blocking one reports that the call is alive.
PollPending(r) ==
  /\ worker[r] # "none"
  /\ curItem[r] = 0
  /\ comp[r] = <<>>
  /\ ~Blocking(r)
  /\ Poll(r, TRUE)
  /\ UNCHANGED <<comp, curItem>>

KeepCurItem ==  \* mutated form of the next definition
  /\ AllAt("reduce")
  /\ IF AllDone THEN StartFinalize ELSE LeaveLoop
  /\ UNCHANGED <<prog, vote, got, finalized, diskVars, results, failures, workerVars>>

\* The all-reduce: either all ranks forget their current item, pop the head
\* and finalize it, or all leave the while loop.
ReduceAlive ==
  /\ AllAt("reduce")
  /\ IF AllDone
       THEN StartFinalize /\ curItem' = [r \in Ranks |-> 0]
       ELSE LeaveLoop /\ UNCHANGED curItem
  /\ UNCHANGED <<prog, vote, got, finalized, diskVars, results, failures,
                 worker, wpc, wsave, queue, unstaged, comp, snap, manager>>
------------------------------------------------------------------------------
(***************************************************************************)
(* The worker process: async_loop, and write_preloaded_data_multiproc,     *)
(* the async_fn of a checkpoint.                                           *)
(***************************************************************************)
Take(r) ==
  /\ worker[r] = "alive"
  /\ wpc[r] = "idle"
  /\ queue[r] # <<>>
  /\ queue' = [queue EXCEPT ![r] = Tail(@)]
  /\ UNCHANGED <<queueVars, unstaged, comp, curItem, snap, manager>>

TakeDone(r) ==
  /\ Take(r)
  /\ Head(queue[r]) = Done
  /\ worker' = [worker EXCEPT ![r] = "exited"]
  /\ UNCHANGED <<wpc, wsave>>

TakeRequest(r) ==
  /\ Take(r)
  /\ Head(queue[r]) # Done
  /\ manager[r]
  /\ wsave' = [wsave EXCEPT ![r] = Head(queue[r])]
  /\ wpc' = [wpc EXCEPT ![r] = "preload"]
  /\ UNCHANGED worker

\* The request holds the proxy of the results queue, which cannot be unpickled
\* without its manager: queue.get() raises and the process ends.
TakeDeadProxy(r) ==
  /\ Take(r)
  /\ Head(queue[r]) # Done
  /\ ~manager[r]
  /\ worker' = [worker EXCEPT ![r] = "dead"]
  /\ UNCHANGED <<wpc, wsave>>

TaskDoneTwice(r) ==  \* mutated form of the next definition
  /\ worker[r] = "alive"
  /\ wpc[r] = "preload"
  /\ snap' = [snap EXCEPT ![r][wsave[r]] = ip[r]]
  /\ unstaged' = [unstaged EXCEPT ![r] = @ - 2]
  /\ wpc' = [wpc EXCEPT ![r] = "write"]
  /\ UNCHANGED <<queueVars, worker, wsave, queue, comp, curItem, manager>>

\* preload_fn copies the tensors as the trainer holds them now.
Preload(r) ==
  /\ worker[r] = "alive"
  /\ wpc[r] = "preload"
  /\ snap' = [snap EXCEPT ![r][wsave[r]] = ip[r]]
  /\ unstaged' = [unstaged EXCEPT ![r] = @ - 1]
  /\ wpc' = [wpc EXCEPT ![r] = "write"]
  /\ UNCHANGED <<queueVars, worker, wsave, queue, comp, curItem, manager>>

WriteData(r) ==
  /\ worker[r] = "alive"
  /\ wpc[r] = "write"
  /\ written' = [written EXCEPT ![wsave[r]] = @ \cup {r}]
  /\ wpc' = [wpc EXCEPT ![r] = "put"]
  /\ UNCHANGED <<trainerVars, torchMeta, ckptMeta, results, failures,
                 worker, wsave, queue, unstaged, comp, curItem, snap, manager>>

PutResult(r, ok) ==
  /\ results' = [results EXCEPT ![r] = Append(@, [save |-> wsave[r], ok |-> ok])]
  /\ wpc' = [wpc EXCEPT ![r] = "report"]
  /\ UNCHANGED <<trainerVars, diskVars, worker, wsave, queue, unstaged, comp, curItem, snap, manager>>

PutWriteResults(r) ==
  /\ worker[r] = "alive"
  /\ wpc[r] = "put"
  /\ PutResult(r, TRUE)
  /\ UNCHANGED failures

\* A write process failed: its exception is the result.
PutWriteError(r) ==
  /\ worker[r] = "alive"
  /\ wpc[r] = "write"
  /\ failures < MaxFailures
  /\ failures' = failures + 1
  /\ PutResult(r, FALSE)

Report(r) ==
  /\ worker[r] = "alive"
  /\ wpc[r] = "report"
  /\ comp' = [comp EXCEPT ![r] = Append(@, wsave[r])]
  /\ wsave' = [wsave EXCEPT ![r] = 0]
  /\ wpc' = [wpc EXCEPT ![r] = "idle"]
  /\ UNCHANGED <<queueVars, worker, queue, unstaged, curItem, snap, manager>>

\* The process dies while it executes a request: it is killed, or preload_fn
\* or async_fn raises (async_loop catches nothing).
Die(r) ==
  /\ worker[r] = "alive"
  /\ wpc[r] # "idle"
  /\ failures < MaxFailures
  /\ failures' = failures + 1
  /\ worker' = [worker EXCEPT ![r] = "dead"]
  /\ UNCHANGED <<trainerVars, diskVars, results, wpc, wsave, queue, unstaged, comp,
                 curItem, snap, manager>>
------------------------------------------------------------------------------
(***************************************************************************)
(* PersistentAsyncCaller.close(abort=False).                               *)
(***************************************************************************)
CloseNothing(r) ==
  /\ pc[r] = "stop"
  /\ worker[r] = "none"
  /\ NextOp(r)
  /\ UNCHANGED <<prog, calls, fin, vote, got, finalized, diskVars, results, failures,
                 workerVars>>

SendDone(r) ==
  /\ pc[r] = "stop"
  /\ worker[r] # "none"
  /\ queue' = [queue EXCEPT ![r] = Append(@, Done)]
  /\ Goto(r, "stopping")
  /\ UNCHANGED <<prog, calls, fin, vote, got, finalized, diskVars, results, failures,
                 worker, wpc, wsave, unstaged, comp, curItem, snap, manager>>

\* queue.join() and process.join() return once the worker handled Done.
JoinWorker(r) ==
  /\ pc[r] = "stopping"
  /\ worker[r] = "exited"
  /\ worker' = [worker EXCEPT ![r] = "none"]
  /\ NextOp(r)
  /\ UNCHANGED <<prog, calls, fin, vote, got, finalized, diskVars, results, failures,
                 wpc, wsave, queue, unstaged, comp, curItem, snap, manager>>
------------------------------------------------------------------------------
(***************************************************************************)
(* An in-process restart (the wrapper of nvidia-resiliency-ext): a fault   *)
(* before the mark "fault" aborts all ranks wherever they are.  The queue  *)
(* is closed with abort=True, which kills the workers, and dropped; the    *)
(* program goes on after the mark with new queues in the same processes.   *)
(***************************************************************************)
\* _results_queue is not None: rank r has prepared data to write.
HasResultsQueue(r) == \E s \in 1 .. Len(prog) :
  /\ prog[s] = "save" /\ r \in Writers[s]
  /\ s < ip[r] \/ (s = ip[r] /\ pc[r] = "stage")

RestartKeepsCaller ==  \* mutated form of the next definition
  /\ \E mark \in 1 .. Len(prog) :
       /\ prog[mark] = "fault"
       /\ \A r \in Ranks : ip[r] =< mark
       /\ ip' = [r \in Ranks |-> mark + 1]
  /\ pc' = [r \in Ranks |-> "ready"]
  /\ calls' = [r \in Ranks |-> <<>>]
  /\ worker' = [r \in Ranks |-> "none"]
  /\ wpc' = [r \in Ranks |-> "idle"]
  /\ wsave' = [r \in Ranks |-> 0]
  /\ UNCHANGED <<prog, fin, vote, got, finalized, diskVars, results, failures, snap,
                 queue, unstaged, comp, curItem, manager>>

Restart ==
  /\ \E mark \in 1 .. Len(prog) :
       /\ prog[mark] = "fault"
       /\ \A r \in Ranks : ip[r] =< mark
       /\ ip' = [r \in Ranks |-> mark + 1]
  /\ pc' = [r \in Ranks |-> "ready"]
  /\ calls' = [r \in Ranks |-> <<>>]
  /\ worker' = [r \in Ranks |-> "none"]
  /\ wpc' = [r \in Ranks |-> "idle"]
  /\ wsave' = [r \in Ranks |-> 0]
  /\ queue' = [r \in Ranks |-> <<>>]
  /\ unstaged' = [r \in Ranks |-> 0]
  /\ comp' = [r \in Ranks |-> <<>>]
  /\ curItem' = [r \in Ranks |-> 0]
  /\ manager' = [r \in Ranks |-> manager[r] /\ ~(AbortStopsManager /\ HasResultsQueue(r))]
  /\ UNCHANGED <<prog, fin, vote, got, finalized, diskVars, results, failures, snap>>

\* No fault happened up to the mark.
NoFault(r) ==
  /\ At(r, "fault")
  /\ NextOp(r)
  /\ UNCHANGED <<prog, calls, fin, vote, got, finalized, diskVars, results, failures,
                 workerVars>>
------------------------------------------------------------------------------
TrainerStep(r) ==
  \/ QueueStep(r) /\ UNCHANGED workerVars
  \/ ScheduleNoop(r) \/ ScheduleCall(r) \/ ResumeWhenStaged(r)
  \/ PollKnown(r) \/ PollCompleted(r) \/ PollPending(r)
  \/ CloseNothing(r) \/ SendDone(r) \/ JoinWorker(r) \/ NoFault(r)

WorkerStep(r) ==
  \/ TakeDone(r) \/ TakeRequest(r) \/ TakeDeadProxy(r)
  \/ Preload(r) \/ WriteData(r) \/ PutWriteResults(r) \/ Report(r)

Failure(r) == PutWriteError(r) \/ Die(r)

Collective == ReduceAlive \/ (QueueCollective /\ UNCHANGED workerVars)

Terminating == Terminated /\ UNCHANGED vars

Next ==
  \/ \E r \in Ranks : TrainerStep(r) \/ WorkerStep(r) \/ Failure(r)
  \/ Collective
  \/ Restart
  \/ Terminating

Spec == Init /\ [][Next]_vars

\* Trainers and workers are processes that keep running; a collective ends
\* once every rank has entered it.  Failures and faults are never due.
Fairness ==
  /\ \A r \in Ranks : WF_vars(TrainerStep(r)) /\ WF_vars(WorkerStep(r))
  /\ WF_vars(Collective)

FairSpec == Spec /\ Fairness
------------------------------------------------------------------------------
(***************************************************************************)
(* Properties.                                                             *)
(***************************************************************************)
\* The finalize functions of a save run only after its async_fn is done "on
\* all ranks" (docstring of AsyncRequest.finalize_fns): no worker still has
\* the request, in its queue or in its hands, on any rank.
FinalizeAfterAllRanksDone ==
  \A r \in Ranks : InFinalize(r) =>
    \A q \in Ranks : /\ wsave[q] # fin[r]
                     /\ \A i \in 1 .. Len(queue[q]) : queue[q][i] # fin[r]

\* The trainer does not return from schedule_async_request, and so cannot
\* change its weights, before they are staged: what every rank writes in a
\* save are the weights of the same point of the training loop.
SnapshotOfSameStep ==
  \A s \in Positions : \A r \in written[s] : prog[s] = "save" => snap[r][s] = s

\* The completed call a rank took from comp_q is the call it asked about, the
\* head of its queue: completions are never one call behind.
CompletionIsForHead ==
  \A r \in Ranks : curItem[r] # 0 => calls[r] # <<>> /\ curItem[r] = Head(calls[r])

\* Every scheduled save is finalized in the end, on every rank, or all ranks
\* raise: maybe_finalize_async_calls neither hangs nor forgets a call.
EverySaveFinalized ==
  <>(\A r \in Ranks : \/ Raised(r)
                      \/ /\ Finished(r)
                         /\ calls[r] = <<>>)

\* "if any rank(s) raised an exception during checkpoint writing, the
\* exceptions are wrapped and raised on all ranks" (maybe_finalize_async_calls).
ExceptionsReachAllRanks ==
  \A r \in Ranks : worker[r] = "dead" ~> \A q \in Ranks : Raised(q)
=============================================================================
