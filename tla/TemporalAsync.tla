---------------------------- MODULE TemporalAsync ----------------------------
(***************************************************************************)
(* Asynchronous saves through TemporalAsyncCaller (async_utils.py), the    *)
(* default of AsyncCallsQueue: every save forks a process of its own, so   *)
(* several may write at the same time on one rank.                         *)
(***************************************************************************)
EXTENDS AsyncCallsQueue

VARIABLE proc  \* proc[r][s]: the process of save s on rank r

vars == <<queueVars, proc>>

ProcStates == {"none", "writing", "written", "exited"}

TypeOK == QueueTypeOK /\ proc \in [Ranks -> [Positions -> ProcStates]]

Init == QueueInit /\ proc = [r \in Ranks |-> [s \in Positions |-> "none"]]

Alive(r, s) == proc[r][s] \in {"writing", "written"}
------------------------------------------------------------------------------
(***************************************************************************)
(* The trainer.  preload_fn runs in the trainer, before the fork.          *)
(***************************************************************************)
Schedule(r) ==
  /\ At(r, "save")
  /\ calls' = [calls EXCEPT ![r] = Append(@, ip[r])]
  /\ proc' = IF r \in Writers[ip[r]] THEN [proc EXCEPT ![r][ip[r]] = "writing"] ELSE proc
  /\ NextOp(r)
  /\ UNCHANGED <<prog, fin, vote, got, finalized, diskVars, results, failures>>

\* is_current_async_call_done: is_alive of the process of the head.
Poll(r) ==
  /\ pc[r] = "loop"
  /\ calls[r] # <<>>
  /\ vote' = [vote EXCEPT ![r] = Alive(r, NextCall(calls[r]))]
  /\ Goto(r, "reduce")
  /\ UNCHANGED <<prog, calls, fin, got, finalized, diskVars, results, failures, proc>>

\* "if is_done or blocking": each rank goes on to join its own process,
\* whatever the other ranks voted.
ReduceAlive ==
  /\ AllAt("reduce")
  /\ IF AllDone \/ \E r \in Ranks : Blocking(r)
       THEN /\ pc' = [r \in Ranks |-> "join"]
            /\ UNCHANGED <<ip, fin, calls>>
       ELSE LeaveLoop
  /\ UNCHANGED <<prog, vote, got, finalized, diskVars, results, failures, proc>>

JoinNothing(r) ==  \* mutated form of the next definition
  /\ pc[r] = "join"
  /\ fin' = [fin EXCEPT ![r] = NextCall(calls[r])]
  /\ calls' = [calls EXCEPT ![r] = Tail(@)]
  /\ Goto(r, "retrieve")
  /\ UNCHANGED <<prog, vote, got, finalized, diskVars, results, failures, proc>>

\* close(): process.join(), then the head is popped and finalized.
Join(r) ==
  /\ pc[r] = "join"
  /\ ~Alive(r, NextCall(calls[r]))
  /\ proc' = [proc EXCEPT ![r][NextCall(calls[r])] = "none"]
  /\ fin' = [fin EXCEPT ![r] = NextCall(calls[r])]
  /\ calls' = [calls EXCEPT ![r] = Tail(@)]
  /\ Goto(r, "retrieve")
  /\ UNCHANGED <<prog, vote, got, finalized, diskVars, results, failures>>

\* close() of a queue without a persistent caller ends here.
CloseQueue(r) ==
  /\ pc[r] = "stop"
  /\ NextOp(r)
  /\ UNCHANGED <<prog, calls, fin, vote, got, finalized, diskVars, results, failures, proc>>
------------------------------------------------------------------------------
(***************************************************************************)
(* The forked process: write_preloaded_data_multiproc.                     *)
(***************************************************************************)
WriteData(r, s) ==
  /\ proc[r][s] = "writing"
  /\ proc' = [proc EXCEPT ![r][s] = "written"]
  /\ written' = [written EXCEPT ![s] = @ \cup {r}]
  /\ UNCHANGED <<trainerVars, torchMeta, ckptMeta, results, failures>>

Exit(r, s, ok) ==
  /\ proc' = [proc EXCEPT ![r][s] = "exited"]
  /\ results' = [results EXCEPT ![r] = Append(@, [save |-> s, ok |-> ok])]
  /\ UNCHANGED <<trainerVars, diskVars>>

ExitWithResults(r, s) == proc[r][s] = "written" /\ Exit(r, s, TRUE) /\ UNCHANGED failures

ExitWithError(r, s) ==
  /\ proc[r][s] = "writing"
  /\ failures < MaxFailures
  /\ failures' = failures + 1
  /\ Exit(r, s, FALSE)

\* The process is killed, or raises outside the write processes: it puts no result.
Die(r, s) ==
  /\ Alive(r, s)
  /\ failures < MaxFailures
  /\ failures' = failures + 1
  /\ proc' = [proc EXCEPT ![r][s] = "exited"]
  /\ UNCHANGED <<trainerVars, diskVars, results>>
------------------------------------------------------------------------------
TrainerStep(r) ==
  \/ QueueStep(r) /\ UNCHANGED proc
  \/ Schedule(r) \/ Poll(r) \/ Join(r) \/ CloseQueue(r)

WriterStep(r) == \E s \in Positions : WriteData(r, s) \/ ExitWithResults(r, s)

Failure(r) == \E s \in Positions : ExitWithError(r, s) \/ Die(r, s)

Collective == ReduceAlive \/ (QueueCollective /\ UNCHANGED proc)

Terminating == Terminated /\ UNCHANGED vars

Next ==
  \/ \E r \in Ranks : TrainerStep(r) \/ WriterStep(r) \/ Failure(r)
  \/ Collective
  \/ Terminating

Spec == Init /\ [][Next]_vars

Fairness ==
  /\ \A r \in Ranks : WF_vars(TrainerStep(r)) /\ WF_vars(WriterStep(r))
  /\ WF_vars(Collective)

FairSpec == Spec /\ Fairness
------------------------------------------------------------------------------
(***************************************************************************)
(* Properties.                                                             *)
(***************************************************************************)
\* A rank finalizes a save only after its own process has stopped writing it.
FinalizeAfterOwnExit == \A r \in Ranks : InFinalize(r) => ~Alive(r, fin[r])

\* "if any rank(s) raised an exception during checkpoint writing, the
\* exceptions are wrapped and raised on all ranks" (maybe_finalize_async_calls),
\* here for processes that die without a word as well: every program comes to
\* its end on all ranks, or all of them raise, and they raise exactly when a
\* writer failed.
EveryFailureRaised ==
  <>[]( /\ Terminated
        /\ \/ \A r \in Ranks : Raised(r) /\ failures > 0
           \/ \A r \in Ranks : Finished(r) /\ calls[r] = <<>> /\ failures = 0 )
=============================================================================
