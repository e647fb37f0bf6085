--------------------- MODULE PipelineWithoutInterleaving ---------------------
(***************************************************************************)
(* forward_backward_pipelining_without_interleaving of                     *)
(* megatron/core/pipeline_parallel/schedules.py: every stage runs a few    *)
(* forward passes (warm-up), then one forward and one backward pass in     *)
(* turn (1F1B), then the backward passes that are left (cool-down).  Every *)
(* call of the communicator waits for its operations, so a stage is either *)
(* computing or blocked in one call.                                       *)
(***************************************************************************)
EXTENDS PointToPoint

ASSUME LayoutsAssumption ==
    Layouts \subseteq [pp_size : Nat \ {0}, num_microbatches : Nat \ {0}, forward_only : BOOLEAN,
                      batch_p2p_comm : BOOLEAN, grad_sync_func : BOOLEAN]

VARIABLES
    stage,      \* the local variables of the schedule, per stage
    forwards,   \* microbatches of the forward passes so far, per stage
    backwards,  \* microbatches of the backward passes so far, per stage
    reductions  \* history: backward passes behind each gradient reduction, per stage

vars == <<layout, calls, posted, arrived, stage, forwards, backwards, reductions>>
passes == <<forwards, backwards, reductions>>

MinOf(a, b) == IF a < b THEN a ELSE b

\* mutated form of the next definition
LongerWarmup(r) == MinOf(P - r, M)

num_warmup_microbatches(r)    == MinOf(P - r - 1, M)
num_microbatches_remaining(r) == M - num_warmup_microbatches(r)

---------------------------------------------------------------------------
(* Calls of the communicator.  At the ends of the pipeline some are empty. *)

RecvPrev(r)        == IF is_pp_first_stage(r) THEN {} ELSE {Receive(r, "prev")}
RecvNext(r)        == IF is_pp_last_stage(r)  THEN {} ELSE {Receive(r, "next")}
SendNext(r, tensor) == IF is_pp_last_stage(r)  THEN {} ELSE {Send(r, "next", tensor)}
SendPrev(r, tensor) == IF is_pp_first_stage(r) THEN {} ELSE {Send(r, "prev", tensor)}

\* What the last call received from a side, None at the end of the pipeline.
Received(r, side) == Content(r, [call |-> calls[r], side |-> side])

---------------------------------------------------------------------------
(* Computing                                                               *)

Activation(r, m) == [way |-> "forward",  stage |-> r, microbatch |-> m]
Gradient(r, m)   == [way |-> "backward", stage |-> r, microbatch |-> m]

\* The microbatch that a forward pass works on: the next one of the data
\* iterator on the first stage, otherwise that of its input.  0: none.
ForwardOf(r, input) ==
    IF is_pp_first_stage(r) THEN Len(forwards[r]) + 1
    ELSE IF \E m \in 1 .. M : input = Activation(r - 1, m)
         THEN CHOOSE m \in 1 .. M : input = Activation(r - 1, m) ELSE 0

\* The microbatch of a backward pass, 0 if output and gradient are not of one.
BackwardOf(r, output, grad) ==
    IF \E m \in 1 .. M :
          /\ output = Activation(r, m)
          /\ ~is_pp_last_stage(r) => grad = Gradient(r + 1, m)
    THEN output.microbatch ELSE 0

ForwardStep(r, m) == forwards' = [forwards EXCEPT ![r] = Append(@, m)]

\* The hooks of the parameters start the reduction of the gradients in every
\* backward pass that runs outside of no_sync.
BackwardStep(r, m, no_sync) ==
    /\ backwards' = [backwards EXCEPT ![r] = Append(@, m)]
    /\ reductions' = IF no_sync THEN reductions
                     ELSE [reductions EXCEPT ![r] = Append(@, Len(backwards[r]) + 1)]

---------------------------------------------------------------------------
(* A stage                                                                 *)

Init ==
    /\ layout \in Layouts
    /\ P2PInit
    /\ stage = [r \in Stages |->
                  [at |-> "warmup", i |-> 0, input |-> None, output |-> None,
                   tensors |-> <<>>, no_sync |-> TRUE]]
    /\ forwards   = [r \in Stages |-> <<>>]
    /\ backwards  = [r \in Stages |-> <<>>]
    /\ reductions = [r \in Stages |-> <<>>]

At(r, place) == stage[r].at = place /\ Idle(r)

\* mutated form of the next definition
PoppedLast(tensors) == [tensor |-> tensors[Len(tensors)], rest |-> SubSeq(tensors, 1, Len(tensors) - 1)]

\* input_tensors.pop(0), output_tensors.pop(0)
Popped(tensors) == [tensor |-> Head(tensors), rest |-> Tail(tensors)]

GoTo(r, place, i) == stage' = [stage EXCEPT ![r].at = place, ![r].i = i]

WarmupReceive(r) ==
    /\ At(r, "warmup") /\ stage[r].i < num_warmup_microbatches(r)
    /\ Start(r, RecvPrev(r))
    /\ GoTo(r, "warmup_forward", stage[r].i)
    /\ UNCHANGED <<layout, arrived, passes>>

WarmupForward(r) ==
    /\ At(r, "warmup_forward")
    /\ LET input == Received(r, "prev")
           m     == ForwardOf(r, input)
       IN  /\ ForwardStep(r, m)
           /\ Start(r, SendNext(r, Activation(r, m)))
           /\ stage' = [stage EXCEPT ![r].at = "warmup_sent", ![r].input = input,
                                     ![r].output = Activation(r, m)]
    /\ UNCHANGED <<layout, arrived, backwards, reductions>>

\* input_tensors.append, output_tensors.append
WarmupSave(r) ==
    /\ At(r, "warmup_sent")
    /\ stage' = [stage EXCEPT
                   ![r].at = "warmup", ![r].i = @ + 1,
                   ![r].tensors = IF layout.forward_only THEN @
                       ELSE Append(@, [input |-> stage[r].input, output |-> stage[r].output])]
    /\ UNCHANGED <<layout, calls, posted, arrived, passes>>

\* The first receive of the steady state.
EnterSteady(r) ==
    /\ At(r, "warmup") /\ stage[r].i = num_warmup_microbatches(r)
    /\ num_microbatches_remaining(r) > 0
    /\ Start(r, RecvPrev(r))
    /\ GoTo(r, "steady_forward", 0)
    /\ UNCHANGED <<layout, arrived, passes>>

SkipSteady(r) ==
    /\ At(r, "warmup") /\ stage[r].i = num_warmup_microbatches(r)
    /\ num_microbatches_remaining(r) = 0
    /\ GoTo(r, "cooldown", 0)
    /\ UNCHANGED <<layout, calls, posted, arrived, passes>>

last_iteration(r) == stage[r].i = num_microbatches_remaining(r) - 1

SteadyForward(r) ==
    /\ At(r, "steady_forward")
    /\ LET input == Received(r, "prev")
           m     == ForwardOf(r, input)
       IN  /\ ForwardStep(r, m)
           /\ Start(r, SendNext(r, Activation(r, m))
                         \cup (IF layout.forward_only THEN {} ELSE RecvNext(r)))
           /\ stage' = [stage EXCEPT ![r].at = IF layout.forward_only THEN "steady_sent"
                                               ELSE "steady_backward",
                                     ![r].input = input, ![r].output = Activation(r, m)]
    /\ UNCHANGED <<layout, arrived, backwards, reductions>>

\* forward_only: the input of the next pass.
SteadyReceive(r) ==
    /\ At(r, "steady_sent") /\ ~last_iteration(r)
    /\ Start(r, RecvPrev(r))
    /\ GoTo(r, "steady_forward", stage[r].i + 1)
    /\ UNCHANGED <<layout, arrived, passes>>

EndSteady(r) ==
    /\ At(r, "steady_sent") /\ last_iteration(r)
    /\ GoTo(r, "cooldown", 0)
    /\ UNCHANGED <<layout, calls, posted, arrived, passes>>

\* mutated form of the next definition
SyncsOnFirstStage(r) == r = 0

\* Without a grad_sync_func, or on the first stage, gradients are reduced as
\* part of the last backward pass.
SyncsInLastPass(r) == ~layout.grad_sync_func \/ r = 0

SteadyBackward(r) ==
    /\ At(r, "steady_backward")
    /\ LET popped  == Popped(Append(stage[r].tensors,
                          [input |-> stage[r].input, output |-> stage[r].output]))
           m       == BackwardOf(r, popped.tensor.output, Received(r, "next"))
           last    == last_iteration(r)
           no_sync == stage[r].no_sync
                         /\ ~(num_warmup_microbatches(r) = 0 /\ last /\ SyncsInLastPass(r))
       IN  /\ BackwardStep(r, m, no_sync)
           /\ Start(r, SendPrev(r, Gradient(r, m)) \cup (IF last THEN {} ELSE RecvPrev(r)))
           /\ stage' = [stage EXCEPT
                          ![r].at = IF last THEN "cooldown" ELSE "steady_forward",
                          ![r].i = IF last THEN 0 ELSE @ + 1,
                          ![r].tensors = popped.rest, ![r].no_sync = no_sync]
    /\ UNCHANGED <<layout, arrived, forwards>>

CooldownReceive(r) ==
    /\ At(r, "cooldown") /\ ~layout.forward_only
    /\ stage[r].i < num_warmup_microbatches(r)
    /\ Start(r, RecvNext(r))
    /\ LET popped == Popped(stage[r].tensors)
       IN  stage' = [stage EXCEPT
                       ![r].at = "cooldown_backward",
                       ![r].no_sync = @ /\ ~(/\ stage[r].i = num_warmup_microbatches(r) - 1
                                             /\ SyncsInLastPass(r)),
                       ![r].input = popped.tensor.input, ![r].output = popped.tensor.output,
                       ![r].tensors = popped.rest]
    /\ UNCHANGED <<layout, arrived, passes>>

CooldownBackward(r) ==
    /\ At(r, "cooldown_backward")
    /\ LET m == BackwardOf(r, stage[r].output, Received(r, "next"))
       IN  /\ BackwardStep(r, m, stage[r].no_sync)
           /\ Start(r, SendPrev(r, Gradient(r, m)))
    /\ GoTo(r, "cooldown", stage[r].i + 1)
    /\ UNCHANGED <<layout, arrived, forwards>>

\* "Launch any remaining grad reductions": what is left goes through
\* grad_sync_func, as no backward pass follows.
Finish(r) ==
    /\ At(r, "cooldown")
    /\ layout.forward_only \/ stage[r].i = num_warmup_microbatches(r)
    /\ stage' = [stage EXCEPT ![r].at = "done", ![r].no_sync = @ /\ layout.forward_only]
    /\ reductions' = IF ~layout.forward_only /\ stage[r].no_sync /\ layout.grad_sync_func
                     THEN [reductions EXCEPT ![r] = Append(@, Len(backwards[r]))]
                     ELSE reductions
    /\ UNCHANGED <<layout, calls, posted, arrived, forwards, backwards>>

Step(r) ==
    \/ WarmupReceive(r) \/ WarmupForward(r) \/ WarmupSave(r)
    \/ EnterSteady(r) \/ SkipSteady(r)
    \/ SteadyForward(r) \/ SteadyBackward(r) \/ SteadyReceive(r) \/ EndSteady(r)
    \/ CooldownReceive(r) \/ CooldownBackward(r)
    \/ Finish(r)

Deliver(r, q) ==
    /\ Transfer(r, q)
    /\ UNCHANGED <<layout, calls, stage, passes>>

\* All stages are done: the schedule returns.  A stage that waits for ever
\* deadlocks instead.
Return ==
    /\ \A r \in Stages : stage[r].at = "done" /\ Idle(r)
    /\ UNCHANGED vars

Next ==
    \/ \E r \in Stages : Step(r)
    \/ \E r, q \in Stages : Deliver(r, q)
    \/ Return

Spec == Init /\ [][Next]_vars

\* A stage that is not blocked computes, and operations that met are done.
FairSpec == Spec /\ WF_vars(Next)
---------------------------------------------------------------------------
(* Properties                                                              *)

Places == {"warmup", "warmup_forward", "warmup_sent", "steady_forward", "steady_sent",
           "steady_backward", "cooldown", "cooldown_backward", "done"}

Tensors == [way : {"forward", "backward"}, stage : Stages, microbatch : 0 .. M] \cup {None}

Sides == {"prev", "next"}

Operations == [call : Nat, kind : {"send", "recv"}, side : Sides, tensor : Tensors]

Locals == [at : Places, i : 0 .. M, input : Tensors, output : Tensors,
           tensors : Seq([input : Tensors, output : Tensors]), no_sync : BOOLEAN]

\* Types of the variables.
TypeOK ==
    /\ layout \in Layouts
    /\ calls \in [Stages -> Nat]
    /\ posted \in [Stages -> SUBSET Operations]
    /\ arrived \in [Stages -> SUBSET [buffer : [call : Nat, side : Sides], tensor : Tensors]]
    /\ stage \in [Stages -> Locals]
    /\ forwards \in [Stages -> Seq(0 .. M)]
    /\ backwards \in [Stages -> Seq(0 .. M)]
    /\ reductions \in [Stages -> Seq(Nat)]

\* Every microbatch passes each stage forward and backward once, on the
\* tensors its neighbours made of it, and the schedule comes to an end: no
\* two stages wait for each other.
Dataflow == INSTANCE PipelineDataflow WITH
    task <- [layers |-> P, microbatches |-> M, training |-> ~layout.forward_only]

ImplementsDataflow == Dataflow!Spec

\* The gradients of a stage are reduced once, with every microbatch in them:
\* no reduction starts in a backward pass before the last one, and none is
\* left out (no_sync_func, grad_sync_func).
GradientsReducedOnce ==
    \A r \in Stages :
        /\ reductions[r] \in {<<>>, <<M>>}
        /\ stage[r].at = "done" /\ ~layout.forward_only => reductions[r] = <<M>>

\* Stage r never keeps the activations of more than P - r microbatches,
\* however many microbatches there are: that is why 1F1B is used at all, and
\* what "max_outstanding_backprops = num_warmup_microbatches + 1" counts on.
OutstandingBackprops ==
    \A r \in Stages :
        ~layout.forward_only =>
            Len(forwards[r]) - Len(backwards[r]) <= P - r

=============================================================================
