--------------------------- MODULE GradientBuckets ---------------------------
(***************************************************************************)
(* megatron/core/distributed/param_and_grad_buffer.py and                  *)
(* distributed_data_parallel.py, as the training loop of Megatron-Bridge   *)
(* drives them: gradients are reduced and parameters gathered bucket group *)
(* by bucket group, in hooks of the backward and forward passes.  The      *)
(* collectives of a group of ranks meet in the order in which each rank    *)
(* launches them, whatever they are for.                                   *)
(*                                                                         *)
(* A rank works off a list of steps: the loop and the schedule append to   *)
(* it, and a call that blocks replaces itself by the wait it ends in.      *)
(***************************************************************************)
EXTENDS Integers, Sequences

CONSTANTS
    None,           \* no collective
    Ranks,          \* data-parallel ranks
    Params,         \* parameters
    Groups,         \* number of bucket groups
    GroupOf,        \* parameter -> bucket group
    HooksOf,        \* how often the hook of a parameter runs in a backward pass
    Microbatches,   \* microbatches of an iteration
    Iterations,     \* iterations of the training loop
    Setups,         \* configurations to explore
    Plans           \* per iteration: what is not decided by this code

ASSUME BucketsAssumption ==
    /\ None \notin Nat
    /\ Groups \in Nat \ {0} /\ Microbatches \in Nat \ {0} /\ Iterations \in Nat
    /\ GroupOf \in [Params -> 1 .. Groups] /\ HooksOf \in [Params -> Nat \ {0}]
    /\ Setups \subseteq [use_distributed_optimizer : BOOLEAN, overlap_grad_reduce : BOOLEAN,
                         overlap_param_gather : BOOLEAN, grad_sync_func : BOOLEAN,
                         align_param_gather : BOOLEAN]
    /\ Plans \subseteq [1 .. Iterations ->
                          [successful : BOOLEAN, passes : Nat,
                           forward : Seq(1 .. Groups), backward : [Ranks -> Seq(Params)],
                           evaluate : BOOLEAN, hash : BOOLEAN, save : BOOLEAN]]

VARIABLES
    setup, plan,            \* never change
    todo,                   \* the steps ahead, per rank
    train_step,             \* train_state.step
    start_iteration,        \* the first iteration that may enable the hooks
    hooks,                  \* the forward pre-hooks are registered
    param_sync_func,        \* the schedule dispatches the gathers
    is_last_microbatch,     \* outside of no_sync
    is_first_batch, ready, golden,                      \* counts of the backward hooks
    grad_reduce_handle, param_gather_handle, dispatched, \* per bucket group
    launched,               \* the collectives of a rank, in its order
    grads,                  \* backward passes added to main_grad since it was zeroed
    reduced,                \* the last reduction waited for, per bucket group
    updates,                \* successful optimizer steps
    weights                 \* the updates behind the shards of each rank, per bucket group

config == <<setup, plan>>
loop   == <<train_step, start_iteration, hooks, param_sync_func>>
ddp    == <<is_last_microbatch, is_first_batch, ready, golden>>
handles == <<grad_reduce_handle, param_gather_handle, dispatched, launched>>
data   == <<grads, reduced, updates, weights>>
vars   == <<config, todo, loop, ddp, handles, data>>

AllGroups    == 1 .. Groups
ParamsOf(g)  == {p \in Params : GroupOf[p] = g}
\* overlap_param_gather: whether the loop turns the pre-hooks off and on.
Toggles      == setup.use_distributed_optimizer /\ setup.overlap_param_gather

---------------------------------------------------------------------------
(* The steps of an iteration                                               *)

ForEach(op, gs) == [i \in 1 .. Len(gs) |-> <<op, gs[i]>>]
EachGroup(op)   == [g \in 1 .. Groups |-> <<op, g>>]
Single(op)      == << <<op>> >>
If(condition, steps) == IF condition THEN steps ELSE <<>>

Microbatch(r, i) ==
    ForEach("forward", plan[i].forward) \o ForEach("backward", plan[i].backward[r])

Repeat(n, steps) == [j \in 1 .. n * Len(steps) |-> steps[((j - 1) % Len(steps)) + 1]]

\* forward_backward_no_pipelining: all microbatches but the last run in
\* no_sync.  With a grad_sync_func (the pipeline stages after the first) the
\* last one does too, and the schedule starts the reductions.
ForwardBackward(r, i) ==
    LET inside == IF setup.grad_sync_func THEN Microbatches ELSE Microbatches - 1
    IN  If(setup.align_param_gather, EachGroup("param_sync_func"))
          \o Single("no_sync") \o Repeat(inside, Microbatch(r, i)) \o Single("end_no_sync")
          \o Repeat(Microbatches - inside, Microbatch(r, i))
          \o If(setup.grad_sync_func, EachGroup("start_grad_sync"))
          \o EachGroup("finish_grad_sync")

\* mutated form of the next definition
DisableOnly == Single("disable_hooks")

\* disable_forward_pre_hook, with param_sync
Disable == Single("disable_hooks") \o EachGroup("force_param_sync")

\* mutated form of the next definition
ZeroedOnce(r, i) ==
    Single("zero_grad_buffer") \o Repeat(plan[i].passes, ForwardBackward(r, i))

\* train_step: more than one pass if the rerun state machine asks for it.
Passes(r, i) ==
    Repeat(plan[i].passes, Single("zero_grad_buffer") \o ForwardBackward(r, i))

\* train: after the optimizer, what follows in some of the iterations.
IterationSteps(r, i) ==
    Passes(r, i)
      \o Single("optimizer_step") \o Single("enable_after_first")
      \o If(plan[i].evaluate, If(Toggles, Disable) \o EachGroup("use")
                                \o If(Toggles, Single("enable_hooks")))
      \o If(plan[i].hash, If(Toggles, Disable) \o EachGroup("use")
                            \o If(Toggles, Single("enable_hooks")))
      \o If(plan[i].save, If(Toggles, EachGroup("force_param_sync")) \o EachGroup("use"))
      \o Single("iteration")

---------------------------------------------------------------------------
(* Collectives                                                             *)

\* The k-th collective of a rank meets the k-th of every other rank.
Done(k) == k # None => \A q \in Ranks : Len(launched[q]) >= k

Launch(r, kind, g, what) ==
    launched' = [launched EXCEPT ![r] = Append(@, [kind |-> kind, group |-> g, data |-> what])]

Gradients(r, g) == [p \in ParamsOf(g) |-> grads[r][p]]

\* start_param_sync: a rank gives its own shard.
StartParamSync(r, g) ==
    /\ Launch(r, "gather", g, weights[r][g][r])
    /\ param_gather_handle' = [param_gather_handle EXCEPT ![r][g] = Len(launched[r]) + 1]
    /\ dispatched' = [dispatched EXCEPT ![r][g] = TRUE]

\* start_grad_sync, on the gradients that are in the bucket when it is called.
StartGradSync(r, g, gradients) ==
    /\ Launch(r, "reduce", g, gradients)
    /\ grad_reduce_handle' = [grad_reduce_handle EXCEPT ![r][g] = Len(launched[r]) + 1]

\* In the first batch a second call is a no-op.
AlreadyStarted(r, g) == is_first_batch[r][g] /\ grad_reduce_handle[r][g] # None
MayStartGradSync(r, g) == is_first_batch[r][g] \/ grad_reduce_handle[r][g] = None

---------------------------------------------------------------------------
(* Steps of a rank                                                         *)

Is(r, op)  == todo[r] # <<>> /\ Head(todo[r])[1] = op
Group(r)   == Head(todo[r])[2]
Param(r)   == Head(todo[r])[2]
Goes(r)    == todo' = [todo EXCEPT ![r] = Tail(@)]
Becomes(r, steps) == todo' = [todo EXCEPT ![r] = steps \o Tail(@)]

NextIteration(r) ==
    /\ Is(r, "iteration")
    /\ Becomes(r, IF train_step[r] < Iterations THEN IterationSteps(r, train_step[r] + 1)
                  ELSE If(hooks[r], Disable))
    /\ UNCHANGED <<config, loop, ddp, handles, data>>

\* reset: the counts of the first batch become the golden ones.
Recorded(r, g) == is_first_batch[r][g] /\ \E p \in ParamsOf(g) : ready[r][p] > 0
CountsAllParams(r, g) == Recorded(r, g) => \A p \in ParamsOf(g) : ready[r][p] > 0

ZeroGradBuffer(r) ==
    /\ Is(r, "zero_grad_buffer") /\ Goes(r)
    /\ golden' = [golden EXCEPT ![r] =
                    [p \in Params |-> IF Recorded(r, GroupOf[p]) THEN ready[r][p] ELSE @[p]]]
    /\ is_first_batch' = [is_first_batch EXCEPT ![r] =
                            [g \in AllGroups |-> @[g] /\ ~Recorded(r, g)]]
    /\ ready' = [ready EXCEPT ![r] = [p \in Params |-> 0]]
    /\ is_last_microbatch' = [is_last_microbatch EXCEPT ![r] = TRUE]
    /\ grads' = [grads EXCEPT ![r] = [p \in Params |-> 0]]
    /\ reduced' = [reduced EXCEPT ![r] = [g \in AllGroups |-> None]]
    /\ UNCHANGED <<config, loop, handles, updates, weights>>

\* no_sync is a null context unless gradients are reduced in the hooks.
NoSync(r) ==
    /\ Is(r, "no_sync") \/ Is(r, "end_no_sync")
    /\ Goes(r)
    /\ is_last_microbatch' = [is_last_microbatch EXCEPT ![r] =
           IF setup.overlap_grad_reduce THEN Is(r, "end_no_sync") ELSE @]
    /\ UNCHANGED <<config, loop, is_first_batch, ready, golden, handles, data>>

\* The forward pre-hook of a module: finish_param_sync of its bucket group.
ForwardPreHook(r) ==
    /\ Is(r, "forward")
    /\ LET g     == Group(r)
           start == hooks[r] /\ ~dispatched[r][g]
       IN  /\ IF start THEN StartParamSync(r, g)
              ELSE UNCHANGED <<param_gather_handle, dispatched, launched>>
           /\ Becomes(r, If(hooks[r] /\ param_gather_handle'[r][g] # None,
                            << <<"wait_gather", g>> >>) \o << <<"use", g>> >>)
    /\ UNCHANGED <<config, loop, ddp, grad_reduce_handle, data>>

\* What the shards of a group are after collective k.
Gathered(k) == [q \in Ranks |-> launched[q][k].data]

\* next_param_gather_bucket_group: gathers go from the last group to the first.
NextGroup(r, g) ==
    IF setup.overlap_param_gather /\ ~setup.align_param_gather /\ g > 1
          /\ ~dispatched[r][g - 1]
    THEN g - 1 ELSE None

WaitGather(r) ==
    /\ Is(r, "wait_gather") /\ Goes(r)
    /\ LET g    == Group(r)
           k    == param_gather_handle[r][g]
           next == NextGroup(r, g)
           idle == [param_gather_handle[r] EXCEPT ![g] = None]
       IN  /\ Done(k)
           /\ weights' = [weights EXCEPT ![r][g] = Gathered(k)]
           /\ IF next = None
              THEN /\ param_gather_handle' = [param_gather_handle EXCEPT ![r] = idle]
                   /\ UNCHANGED <<dispatched, launched>>
              ELSE /\ Launch(r, "gather", next, weights[r][next][r])
                   /\ param_gather_handle' = [param_gather_handle EXCEPT
                          ![r] = [idle EXCEPT ![next] = Len(launched[r]) + 1]]
                   /\ dispatched' = [dispatched EXCEPT ![r][next] = TRUE]
    /\ UNCHANGED <<config, loop, ddp, grad_reduce_handle, grads, reduced, updates>>

\* The weights of a bucket group are used: computed with, compared, or saved.
Use(r) ==
    /\ Is(r, "use") /\ Goes(r)
    /\ UNCHANGED <<config, loop, ddp, handles, data>>

\* register_grad_ready
Registers(r) == setup.overlap_grad_reduce /\ is_last_microbatch[r]

\* mutated form of the next definition
CompletesOnFirstHook(r, p) ==
    /\ Registers(r) /\ ~is_first_batch[r][GroupOf[p]]
    /\ \A q \in ParamsOf(GroupOf[p]) : ready[r][q] + (IF q = p THEN 1 ELSE 0) > 0

CompletesGroup(r, p) ==
    /\ Registers(r) /\ ~is_first_batch[r][GroupOf[p]]
    /\ \A q \in ParamsOf(GroupOf[p]) :
          golden[r][q] = ready[r][q] + (IF q = p THEN 1 ELSE 0)

\* The backward post-hook of a parameter: main_grad, then register_grad_ready.
BackwardPostHook(r) ==
    /\ Is(r, "backward") /\ Goes(r)
    /\ LET p == Param(r)
           g == GroupOf[p]
       IN  /\ grads' = [grads EXCEPT ![r][p] = @ + 1]
           /\ ready' = IF Registers(r) THEN [ready EXCEPT ![r][p] = @ + 1] ELSE ready
           /\ IF CompletesGroup(r, p)
              THEN StartGradSync(r, g, [q \in ParamsOf(g) |-> grads'[r][q]])
              ELSE UNCHANGED <<launched, grad_reduce_handle>>
    /\ UNCHANGED <<config, loop, is_last_microbatch, is_first_batch, golden,
                   param_gather_handle, dispatched, reduced, updates, weights>>

\* grad_sync_func of the schedule.
GradSyncFunc(r) ==
    /\ Is(r, "start_grad_sync") /\ Goes(r)
    /\ IF AlreadyStarted(r, Group(r)) THEN UNCHANGED <<launched, grad_reduce_handle>>
       ELSE StartGradSync(r, Group(r), Gradients(r, Group(r)))
    /\ UNCHANGED <<config, loop, ddp, param_gather_handle, dispatched, data>>

\* mutated form of the next definition
StartsWithoutOverlap(r, g) == ~setup.overlap_grad_reduce

\* finish_grad_sync: with overlap it only starts a reduction in the first
\* batch; then it waits.
StartsInFinish(r, g) == ~setup.overlap_grad_reduce \/ is_first_batch[r][g]

FinishGradSync(r) ==
    /\ Is(r, "finish_grad_sync")
    /\ LET g      == Group(r)
           starts == StartsInFinish(r, g)
       IN  /\ dispatched' = [dispatched EXCEPT ![r][g] = FALSE]
           /\ IF starts /\ ~AlreadyStarted(r, g) THEN StartGradSync(r, g, Gradients(r, g))
              ELSE UNCHANGED <<launched, grad_reduce_handle>>
           /\ Becomes(r, << <<"wait_reduce", g>> >>)
    /\ UNCHANGED <<config, loop, ddp, param_gather_handle, data>>

WaitReduce(r) ==
    /\ Is(r, "wait_reduce") /\ Goes(r)
    /\ Done(grad_reduce_handle[r][Group(r)])
    /\ reduced' = [reduced EXCEPT ![r][Group(r)] = grad_reduce_handle[r][Group(r)]]
    /\ grad_reduce_handle' = [grad_reduce_handle EXCEPT ![r][Group(r)] = None]
    /\ UNCHANGED <<config, loop, ddp, param_gather_handle, dispatched, launched,
                   grads, updates, weights>>

\* optimizer.step: a rank updates its shard, or everything without the
\* distributed optimizer.  If gathers do not overlap they follow at once.
\* Nothing happens when a gradient is not finite.
OptimizerStep(r) ==
    /\ Is(r, "optimizer_step")
    /\ LET successful == plan[train_step[r] + 1].successful
           new == updates[r] + 1
       IN  IF successful
           THEN /\ updates' = [updates EXCEPT ![r] = new]
                /\ weights' = [weights EXCEPT ![r] = [g \in AllGroups |->
                       IF setup.use_distributed_optimizer THEN [@[g] EXCEPT ![r] = new]
                       ELSE [q \in Ranks |-> new]]]
                /\ Becomes(r, If(setup.use_distributed_optimizer /\ ~setup.overlap_param_gather,
                                 EachGroup("param_sync")))
           ELSE Goes(r) /\ UNCHANGED <<updates, weights>>
    /\ UNCHANGED <<config, loop, ddp, handles, grads, reduced>>

\* start_param_sync: it blocks unless gathers overlap.
CallsParamSync(r) == Is(r, "param_sync") \/ (Is(r, "param_sync_func") /\ param_sync_func[r])

ParamSync(r) ==
    /\ CallsParamSync(r)
    /\ StartParamSync(r, Group(r))
    /\ Becomes(r, If(~setup.overlap_param_gather, << <<"wait_gather", Group(r)>> >>))
    /\ UNCHANGED <<config, loop, ddp, grad_reduce_handle, data>>

NoParamSyncFunc(r) ==
    /\ Is(r, "param_sync_func") /\ ~param_sync_func[r] /\ Goes(r)
    /\ UNCHANGED <<config, loop, ddp, handles, data>>

\* start_param_sync(force_sync=True): waits for the gather that is under way.
ForceParamSync(r) ==
    /\ Is(r, "force_param_sync")
    /\ IF param_gather_handle[r][Group(r)] = None THEN StartParamSync(r, Group(r))
       ELSE UNCHANGED <<param_gather_handle, dispatched, launched>>
    /\ Becomes(r, << <<"wait_forced", Group(r)>> >>)
    /\ UNCHANGED <<config, loop, ddp, grad_reduce_handle, data>>

WaitForced(r) ==
    /\ Is(r, "wait_forced") /\ Goes(r)
    /\ Done(param_gather_handle[r][Group(r)])
    /\ weights' = [weights EXCEPT ![r][Group(r)] = Gathered(param_gather_handle[r][Group(r)])]
    /\ param_gather_handle' = [param_gather_handle EXCEPT ![r][Group(r)] = None]
    /\ UNCHANGED <<config, loop, ddp, grad_reduce_handle, dispatched, launched,
                   grads, reduced, updates>>

\* train: the hooks are off until an iteration has updated the weights.
Enables(r) ==
    Toggles /\ train_step[r] = start_iteration[r] /\ plan[train_step[r] + 1].successful

EnableAfterFirst(r) ==
    /\ Is(r, "enable_after_first") /\ Goes(r)
    /\ hooks' = [hooks EXCEPT ![r] = @ \/ Enables(r)]
    /\ param_sync_func' = [param_sync_func EXCEPT ![r] =
                             IF Enables(r) THEN setup.align_param_gather ELSE @]
    /\ start_iteration' = [start_iteration EXCEPT ![r] =
          IF train_step[r] = @ /\ ~plan[train_step[r] + 1].successful THEN @ + 1 ELSE @]
    /\ train_step' = [train_step EXCEPT ![r] = @ + 1]
    /\ UNCHANGED <<config, ddp, handles, data>>

DisableHooks(r) ==
    /\ Is(r, "disable_hooks") /\ Goes(r)
    /\ hooks' = [hooks EXCEPT ![r] = FALSE]
    /\ UNCHANGED <<config, train_step, start_iteration, param_sync_func, ddp, handles, data>>

EnableHooks(r) ==
    /\ Is(r, "enable_hooks") /\ Goes(r)
    /\ hooks' = [hooks EXCEPT ![r] = TRUE]
    /\ UNCHANGED <<config, train_step, start_iteration, param_sync_func, ddp, handles, data>>

---------------------------------------------------------------------------
(* What the code asserts before a step                                     *)

Asserted(r) ==
    \* "assert len(self.per_param_grad_ready_counts) == len(self.params)"
    /\ Is(r, "zero_grad_buffer") => \A g \in AllGroups : CountsAllParams(r, g)
    \* "assert self.param_gather_handle is None"
    /\ CallsParamSync(r)
          \/ (Is(r, "forward") /\ hooks[r] /\ ~dispatched[r][Group(r)])
       => param_gather_handle[r][Group(r)] = None
    /\ Is(r, "wait_gather") /\ NextGroup(r, Group(r)) # None
       => param_gather_handle[r][NextGroup(r, Group(r))] = None
    \* "Should not have multiple communication calls outstanding at once"
    /\ Is(r, "backward") /\ CompletesGroup(r, Param(r)) => MayStartGradSync(r, GroupOf[Param(r)])
    /\ Is(r, "start_grad_sync") => MayStartGradSync(r, Group(r))
    \* "Communication call has not been issued for this bucket"
    /\ Is(r, "finish_grad_sync") =>
          IF StartsInFinish(r, Group(r)) THEN MayStartGradSync(r, Group(r))
          ELSE grad_reduce_handle[r][Group(r)] # None
    \* "assert self.remove_forward_pre_hook_handles[module] is not None"
    /\ Is(r, "disable_hooks") => hooks[r]
    \* "assert len(self.remove_forward_pre_hook_handles) == 0"
    /\ Is(r, "enable_hooks") \/ (Is(r, "enable_after_first") /\ Enables(r)) => ~hooks[r]

---------------------------------------------------------------------------
Init ==
    /\ setup \in Setups /\ plan \in Plans
    /\ todo            = [r \in Ranks |-> Single("iteration")]
    /\ train_step      = [r \in Ranks |-> 0]
    /\ start_iteration = [r \in Ranks |-> 0]
    /\ hooks           = [r \in Ranks |-> FALSE]
    /\ param_sync_func = [r \in Ranks |-> FALSE]
    /\ is_last_microbatch  = [r \in Ranks |-> TRUE]
    /\ is_first_batch      = [r \in Ranks |-> [g \in AllGroups |-> TRUE]]
    /\ ready               = [r \in Ranks |-> [p \in Params |-> 0]]
    /\ golden              = [r \in Ranks |-> [p \in Params |-> 0]]
    /\ grad_reduce_handle  = [r \in Ranks |-> [g \in AllGroups |-> None]]
    /\ param_gather_handle = [r \in Ranks |-> [g \in AllGroups |-> None]]
    /\ dispatched          = [r \in Ranks |-> [g \in AllGroups |-> FALSE]]
    /\ launched            = [r \in Ranks |-> <<>>]
    /\ grads               = [r \in Ranks |-> [p \in Params |-> 0]]
    /\ reduced             = [r \in Ranks |-> [g \in AllGroups |-> None]]
    /\ updates             = [r \in Ranks |-> 0]
    /\ weights             = [r \in Ranks |-> [g \in AllGroups |-> [q \in Ranks |-> 0]]]

Step(r) ==
    /\ Asserted(r)
    /\ \/ NextIteration(r) \/ ZeroGradBuffer(r) \/ NoSync(r)
       \/ ForwardPreHook(r) \/ WaitGather(r) \/ Use(r)
       \/ BackwardPostHook(r) \/ GradSyncFunc(r) \/ FinishGradSync(r) \/ WaitReduce(r)
       \/ OptimizerStep(r) \/ ParamSync(r) \/ NoParamSyncFunc(r)
       \/ ForceParamSync(r) \/ WaitForced(r)
       \/ EnableAfterFirst(r) \/ DisableHooks(r) \/ EnableHooks(r)

Finished == (\A r \in Ranks : todo[r] = <<>>) /\ UNCHANGED vars

Next == (\E r \in Ranks : Step(r)) \/ Finished

Spec == Init /\ [][Next]_vars

---------------------------------------------------------------------------
(* Properties                                                              *)

Operations == {"iteration", "zero_grad_buffer", "no_sync", "end_no_sync", "forward", "backward",
               "use", "param_sync", "param_sync_func", "force_param_sync", "start_grad_sync",
               "finish_grad_sync", "wait_gather", "wait_forced", "wait_reduce",
               "optimizer_step", "enable_after_first", "disable_hooks", "enable_hooks"}

Handles == Nat \cup {None}
Versions == [Ranks -> Nat]
IsCollective(c) ==
    /\ c.group \in AllGroups
    /\ \/ c.kind = "gather" /\ c.data \in Nat
       \/ c.kind = "reduce" /\ c.data \in [ParamsOf(c.group) -> Nat]

\* Types of the variables.
TypeOK ==
    /\ setup \in Setups /\ plan \in Plans
    /\ \A r \in Ranks : \A j \in 1 .. Len(todo[r]) : todo[r][j][1] \in Operations
    /\ train_step \in [Ranks -> 0 .. Iterations] /\ start_iteration \in [Ranks -> 0 .. Iterations]
    /\ hooks \in [Ranks -> BOOLEAN] /\ param_sync_func \in [Ranks -> BOOLEAN]
    /\ is_last_microbatch \in [Ranks -> BOOLEAN]
    /\ is_first_batch \in [Ranks -> [AllGroups -> BOOLEAN]]
    /\ ready \in [Ranks -> [Params -> Nat]] /\ golden \in [Ranks -> [Params -> Nat]]
    /\ grad_reduce_handle \in [Ranks -> [AllGroups -> Handles]]
    /\ param_gather_handle \in [Ranks -> [AllGroups -> Handles]]
    /\ dispatched \in [Ranks -> [AllGroups -> BOOLEAN]]
    /\ \A r \in Ranks : \A k \in 1 .. Len(launched[r]) : IsCollective(launched[r][k])
    /\ grads \in [Ranks -> [Params -> Nat]]
    /\ reduced \in [Ranks -> [AllGroups -> Handles]]
    /\ updates \in [Ranks -> 0 .. Iterations]
    /\ weights \in [Ranks -> [AllGroups -> Versions]]

\* No assertion of the bucket groups or of the hooks fails, on any rank.
AssertionsHold == \A r \in Ranks : Asserted(r)

\* The collectives of the ranks meet their like: the k-th one of every rank is
\* for the same purpose and the same bucket group.  A rank that starts a
\* reduction earlier than another rank exchanges gradients for weights.
CollectivesMatch ==
    \A r, q \in Ranks :
        \A k \in 1 .. Len(launched[r]) :
            k <= Len(launched[q]) =>
                /\ launched[r][k].kind  = launched[q][k].kind
                /\ launched[r][k].group = launched[q][k].group

\* The optimizer sees the gradients of all microbatches of this iteration and
\* of no other pass, from all ranks: whatever was added to a bucket is in its
\* reduction, and nothing was added to it afterwards.
GradientsComplete ==
    \A r \in Ranks : Is(r, "optimizer_step") =>
        \A p \in Params :
            LET k == reduced[r][GroupOf[p]]
            IN  /\ k # None
                /\ \A q \in Ranks :
                      /\ launched[q][k].kind = "reduce" /\ launched[q][k].group = GroupOf[p]
                      /\ launched[q][k].data[p] = Microbatches * HooksOf[p]
                /\ grads[r][p] = Microbatches * HooksOf[p]

\* Whatever computes with the weights of a bucket group, compares or saves
\* them sees the shards of all ranks after the latest update.
WeightsLatest ==
    \A r \in Ranks : Is(r, "use") =>
        weights[r][Group(r)] = [q \in Ranks |-> updates[r]]

=============================================================================
