-------------------------- MODULE PipelineDataflow --------------------------
(***************************************************************************)
(* What every pipeline schedule promises: each microbatch goes once        *)
(* through each layer forward and then, in training, once backward, and    *)
(* each pass works on what the layer before it made of that microbatch.    *)
(* When and where is left to the schedule.                                 *)
(***************************************************************************)
EXTENDS Naturals, Sequences

VARIABLES
    task,           \* layers, microbatches, training or not; never changes
    forwards,       \* microbatches of the forward passes so far, per layer
    backwards       \* microbatches of the backward passes so far, per layer

Layers       == 0 .. task.layers - 1
Microbatches == 1 .. task.microbatches

HasPassed(passes, layer, m) == \E i \in DOMAIN passes[layer] : passes[layer][i] = m

Init ==
    /\ forwards  = [layer \in Layers |-> <<>>]
    /\ backwards = [layer \in Layers |-> <<>>]

Forward(layer, m) ==
    /\ ~HasPassed(forwards, layer, m)
    /\ layer > 0 => HasPassed(forwards, layer - 1, m)
    /\ forwards' = [forwards EXCEPT ![layer] = Append(@, m)]
    /\ UNCHANGED <<task, backwards>>

Backward(layer, m) ==
    /\ task.training
    /\ HasPassed(forwards, layer, m) /\ ~HasPassed(backwards, layer, m)
    /\ layer < task.layers - 1 => HasPassed(backwards, layer + 1, m)
    /\ backwards' = [backwards EXCEPT ![layer] = Append(@, m)]
    /\ UNCHANGED <<task, forwards>>

Next == \E layer \in Layers, m \in Microbatches : Forward(layer, m) \/ Backward(layer, m)

vars == <<task, forwards, backwards>>

Spec == Init /\ [][Next]_vars /\ WF_vars(Next)

=============================================================================
