------------------------ MODULE MCInferenceCoordinator ------------------------
(* Instances of InferenceCoordinator for TLC. *)
EXTENDS InferenceCoordinator

TwoEngines == << "e1", "e2" >>

OneGroup == {{"e1", "e2"}}
NoGroups == {{"e1"}, {"e2"}}

\* Pauses in the middle of the work and requests to paused engines, a suspension
\* after the last reply, and stops.
Pausing == << "submit", "pause", "paused", "unpause", "submit", "pause", "paused", "unpause", "replies" >>
SubmitPaused == << "submit", "pause", "paused", "submit", "unpause", "replies" >>
Suspending == << "submit", "replies", "suspend", "paused", "resume", "stop", "stopped" >>
Stopping == << "submit", "submit", "replies", "stop", "stopped" >>

CarefulClients ==
  { [groups |-> OneGroup, program |-> Pausing], [groups |-> NoGroups, program |-> Pausing],
    [groups |-> OneGroup, program |-> SubmitPaused], [groups |-> NoGroups, program |-> SubmitPaused],
    [groups |-> NoGroups, program |-> Suspending], [groups |-> NoGroups, program |-> Stopping] }

\* The engines of an expert parallel group are stopped.
GroupStop == { [groups |-> OneGroup, program |-> Stopping] }
\* The engines are suspended while a request waits for its reply, as in the
\* example gpt_dynamic_inference_with_coordinator.py, but the client awaits the
\* pause before it resumes them.
BusySuspension ==
  { [groups |-> NoGroups, program |-> << "submit", "suspend", "paused", "resume", "replies" >>] }
\* Idle engines are suspended, resumed and given a request.
IdleSuspension ==
  { [groups |-> NoGroups,
     program |-> << "submit", "replies", "suspend", "paused", "resume", "submit", "replies" >>] }
=============================================================================
