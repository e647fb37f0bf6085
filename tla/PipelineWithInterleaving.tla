---------------------- MODULE PipelineWithInterleaving ----------------------
(***************************************************************************)
(* forward_backward_pipelining_with_interleaving of                        *)
(* megatron/core/pipeline_parallel/schedules.py.  Every stage holds        *)
(* several chunks of the model, so a microbatch goes round the ring of     *)
(* stages once per chunk.  Which chunk and microbatch comes next is looked *)
(* up in a table; what a neighbour sends next is computed, not asked.      *)
(*                                                                         *)
(* Communication blocks (overlap_p2p_comm off), or overlaps with computing *)
(* in the steady state, or also in warm-up and flush.                      *)
(***************************************************************************)
EXTENDS PointToPoint

ASSUME LayoutsAssumption ==
    Layouts \subseteq [pp_size : Nat, num_model_chunks : Nat, num_microbatches : Nat,
                      microbatch_group_size_per_vp_stage : Nat, forward_only : BOOLEAN,
                      overlap_p2p_comm : BOOLEAN, overlap_p2p_comm_warmup_flush : BOOLEAN,
                      batch_p2p_comm : BOOLEAN,
                      grad_sync_func : BOOLEAN, param_sync_func : BOOLEAN]

VARIABLES
    schedule_table, \* microbatch and chunk per virtual microbatch; never changes
    stage,          \* the local variables of the schedule, per stage
    forwards,       \* microbatches of the forward passes so far, per layer
    backwards,      \* microbatches of the backward passes so far, per layer
    reductions      \* history: backward passes behind each gradient reduction, per layer

vars == <<layout, calls, posted, arrived, schedule_table, stage, forwards, backwards, reductions>>
passes == <<forwards, backwards, reductions>>

V     == layout.num_model_chunks
N     == layout.microbatch_group_size_per_vp_stage
Total == M * V
Chunks == 0 .. V - 1
Layers == 0 .. P * V - 1
Layer(r, c) == c * P + r

MinOf(a, b) == IF a < b THEN a ELSE b

\* What the schedule itself refuses.
Accepted(l) ==
    /\ l.pp_size > 1 /\ l.num_model_chunks > 1
    /\ l.microbatch_group_size_per_vp_stage \in l.pp_size .. l.num_microbatches
    /\ LET rest == l.num_microbatches % l.microbatch_group_size_per_vp_stage
       IN  rest = 0 \/ rest >= l.pp_size
    /\ ~(l.overlap_p2p_comm /\ l.batch_p2p_comm)
    /\ l.overlap_p2p_comm_warmup_flush => l.overlap_p2p_comm
    /\ l.forward_only => ~l.grad_sync_func /\ ~l.param_sync_func

\* The arguments also refuse two stages that block in their calls, "to avoid
\* having multiple p2p sends and recvs between same 2 ranks".
Legal(l) == Accepted(l) /\ (~l.overlap_p2p_comm => l.pp_size > 2)

---------------------------------------------------------------------------
(* The schedule                                                            *)

\* get_schedule_table: group after group, and in a group chunk after chunk.
ScheduleTable ==
    LET table[first \in 0 .. M + N] ==
            LET size == MinOf(N, M - first)
            IN  IF first >= M THEN <<>>
                ELSE [j \in 1 .. V * size |->
                         [microbatch |-> first + ((j - 1) % size), chunk |-> (j - 1) \div size]]
                     \o table[first + N]
    IN  table[0]

Entry(v) == schedule_table[(v % Total) + 1]

get_model_chunk_id(v, forward) ==
    IF forward THEN Entry(v).chunk ELSE V - Entry(v).chunk - 1

is_first_microbatch(v) == v < Total /\ Entry(v).microbatch = 0
is_last_microbatch(v)  == v < Total /\ Entry(v).microbatch = M - 1

\* get_pp_rank_microbatches
num_warmup_microbatches(r) ==
    IF layout.forward_only THEN Total ELSE MinOf((P - r - 1) * 2 + (V - 1) * N, Total)
num_microbatches_remaining(r)     == Total - num_warmup_microbatches(r)
are_all_microbatches_in_warmup(r) == num_warmup_microbatches(r) = Total

\* num_released_microbatches
Count(c, n) == Cardinality({v \in 0 .. n - 1 : Entry(v).chunk = c})
num_released_microbatches(r, v, c) ==
    IF layout.forward_only THEN Count(c, v)
    ELSE IF v < num_warmup_microbatches(r) THEN 0
         ELSE Count(V - c - 1, v - num_warmup_microbatches(r))

FirstLayer(r, c) == c = 0 /\ is_pp_first_stage(r)
LastLayer(r, c)  == c = V - 1 /\ is_pp_last_stage(r)

\* recv_tensor_from_previous_stage: whether the neighbour sends while this
\* stage is at virtual microbatch v, and for which chunk.
PeerSends(r, v, forward) ==
    LET leading == IF forward THEN is_pp_first_stage(r) ELSE is_pp_last_stage(r)
        last    == IF forward THEN V - 1 ELSE 0
        aligned == get_model_chunk_id(v - (P - 1), forward)
    IN  IF ~leading THEN [recv |-> TRUE, chunk |-> get_model_chunk_id(v + 1, forward)]
        ELSE IF v < P - 1 THEN [recv |-> FALSE, chunk |-> 0]
        ELSE [recv |-> aligned # last, chunk |-> IF forward THEN aligned + 1 ELSE aligned - 1]

\* No receive in the last iteration that could use it.
ReceivesForward(r, v) ==
    PeerSends(r, v, TRUE).recv /\ v # Total - 1

---------------------------------------------------------------------------
(* Computing                                                               *)

Activation(layer, m) == [way |-> "forward",  layer |-> layer, microbatch |-> m]
Gradient(layer, m)   == [way |-> "backward", layer |-> layer, microbatch |-> m]

At(list, j) == IF j \in DOMAIN list THEN list[j] ELSE None
Rest(list)  == IF list = <<>> THEN <<>> ELSE Tail(list)

\* The microbatch of the forward pass of virtual microbatch v: the one of the
\* table, if its input is what the layer before made of it; otherwise 0.
ForwardOf(r, v, inputs) ==
    LET c      == get_model_chunk_id(v, TRUE)
        m      == Entry(v).microbatch + 1
        buffer == At(inputs, m - num_released_microbatches(r, v, c))
    IN  IF \/ FirstLayer(r, c)
           \/ buffer # None /\ Content(r, buffer) = Activation(Layer(r, c) - 1, m)
        THEN m ELSE 0

\* The microbatch of a backward pass, 0 if its tensors are not of one.
BackwardOf(r, c, output, buffer) ==
    IF output # None /\ (\/ LastLayer(r, c)
                         \/ /\ buffer # None
                            /\ Content(r, buffer)
                                  = Gradient(Layer(r, c) + 1, output.microbatch))
    THEN output.microbatch ELSE 0

\* forward_step_helper_preprocess: the first layer has no input to receive.
InputsFor(s, r, c) ==
    IF FirstLayer(r, c) /\ Len(s.input_tensors[c]) = Len(s.output_tensors[c])
    THEN Append(s.input_tensors[c], None) ELSE s.input_tensors[c]

\* mutated form of the next definition
ParamSyncWithoutLast(r, v) ==
    LET c == get_model_chunk_id(v + r, TRUE) + 1
    IN  IF layout.param_sync_func /\ is_first_microbatch(v + r) /\ c \in 0 .. V - 2 /\ c > 1
        THEN {c} ELSE {}

\* Chunks whose parameters are gathered at virtual microbatch v (param_sync_func).
ParamSync(r, v) ==
    LET c == get_model_chunk_id(v + r, TRUE) + 1
    IN  IF layout.param_sync_func /\ is_first_microbatch(v + r) /\ c \in Chunks /\ c > 1
        THEN {c} ELSE {}

\* forward_step_helper on the locals s of stage r.
AfterForward(s, r, v) ==
    LET c      == get_model_chunk_id(v, TRUE)
        inputs == InputsFor(s, r, c)
        output == Activation(Layer(r, c), ForwardOf(r, v, inputs))
    IN  [s EXCEPT !.param_synced = @ \cup ParamSync(r, v),
                  !.input_tensors[c]  = IF layout.forward_only THEN Rest(inputs) ELSE inputs,
                  !.output_tensors[c] = IF layout.forward_only THEN @ ELSE Append(@, output)]

ForwardStep(r, v) ==
    LET c == get_model_chunk_id(v, TRUE)
    IN  forwards' = [forwards EXCEPT ![Layer(r, c)] =
                        Append(@, ForwardOf(r, v, InputsFor(stage[r], r, c)))]

\* mutated form of the definition after the next
SyncsAhead(r, v) ==
    IF layout.grad_sync_func /\ is_last_microbatch(v + r)
    THEN {get_model_chunk_id(v + r, FALSE)} ELSE {}

\* Without a grad_sync_func the hooks reduce the gradients in the last
\* backward pass of a chunk; with one, stage r reduces them r passes later.
SyncsInBackward(v) == ~layout.grad_sync_func /\ is_last_microbatch(v)
SyncsAfterwards(r, v) ==
    IF layout.grad_sync_func /\ v >= r /\ is_last_microbatch(v - r)
    THEN {get_model_chunk_id(v - r, FALSE)} ELSE {}

\* backward_step_helper on the locals s of stage r.
AfterBackward(s, r, v) ==
    LET c == get_model_chunk_id(v, FALSE)
    IN  [s EXCEPT !.input_tensors[c]  = Rest(@),
                  !.output_tensors[c] = Rest(@),
                  !.output_tensor_grads[c] = Rest(@),
                  !.synchronized = @ \cup SyncsAfterwards(r, v)
                                     \cup (IF SyncsInBackward(v) THEN {c} ELSE {})]

BackwardStep(r, v) ==
    LET c == get_model_chunk_id(v, FALSE)
        s == stage[r]
        m == BackwardOf(r, c, At(s.output_tensors[c], 1), At(s.output_tensor_grads[c], 1))
    IN  /\ backwards' = [backwards EXCEPT ![Layer(r, c)] = Append(@, m)]
        /\ reductions' = [layer \in Layers |->
              IF \/ layer = Layer(r, c) /\ SyncsInBackward(v)
                 \/ \E d \in SyncsAfterwards(r, v) : layer = Layer(r, d)
              THEN Append(reductions[layer], Len(backwards'[layer])) ELSE reductions[layer]]

---------------------------------------------------------------------------
(* Communication of a stage                                                *)

\* The operations of a call: nothing is sent beyond the last layer, or back
\* beyond the first.
SendOutput(r, v) ==
    LET c == get_model_chunk_id(v, TRUE)
    IN  IF LastLayer(r, c) THEN {}
        ELSE {Send(r, "next", Activation(Layer(r, c), ForwardOf(r, v, InputsFor(stage[r], r, c))))}

\* Once the forward pass is done, its output is the newest one of the chunk.
SendNewest(r, v) ==
    LET c == get_model_chunk_id(v, TRUE)
    IN  IF LastLayer(r, c) THEN {}
        ELSE {Send(r, "next", Activation(Layer(r, c), forwards[Layer(r, c)][Len(forwards[Layer(r, c)])]))}

SendGrad(r, v) ==
    LET c == get_model_chunk_id(v, FALSE)
    IN  IF FirstLayer(r, c) THEN {}
        ELSE {Send(r, "prev", Gradient(Layer(r, c),
                 BackwardOf(r, c, At(stage[r].output_tensors[c], 1),
                                  At(stage[r].output_tensor_grads[c], 1))))}

ReceiveIf(r, side, wanted) == IF wanted THEN {Receive(r, side)} ELSE {}

\* Handles: an operation that is waited for later.
Handle(op) == [call |-> op.call, kind |-> op.kind, side |-> op.side]
Handles(ops) == {Handle(op) : op \in ops}
IsDone(r, handle) == Done(r, handle.call, handle.kind, handle.side)
Sends(ops) == {h \in Handles(ops) : h.kind = "send"}

\* The stage is not blocked by what it waits for.
Ready(r) == \A handle \in stage[r].waits : IsDone(r, handle)

\* Waiting for the oldest receive.  With overlapping warm-up and flush it is
\* asserted that there is one.
CanTake(r, handles) ==
    IF handles = <<>> THEN ~layout.overlap_p2p_comm_warmup_flush ELSE IsDone(r, handles[1])

AddHandle(handles, r, side, wanted) ==
    IF wanted THEN Append(handles, Handle(Receive(r, side))) ELSE handles

\* Where a received tensor goes: into the list of a chunk.
AddBuffer(lists, c, r, side, wanted) ==
    IF wanted THEN [lists EXCEPT ![c] = Append(@, Buffer(r, side))] ELSE lists

AddPrefetched(lists, c, tensor) ==
    IF tensor = None THEN lists ELSE [lists EXCEPT ![c] = Append(@, tensor)]

---------------------------------------------------------------------------
(* A stage                                                                 *)

NewStage ==
    [at |-> "begin", k |-> 0, waits |-> {},
     input_tensors       |-> [c \in Chunks |-> <<>>],
     output_tensors      |-> [c \in Chunks |-> <<>>],
     output_tensor_grads |-> [c \in Chunks |-> <<>>],
     recv_prev_wait_handles |-> <<>>, send_next_wait_handle |-> {},
     recv_next_wait_handles |-> <<>>, send_prev_wait_handle |-> {},
     prefetched |-> None,
     synchronized |-> {}, param_synced |-> {0, 1}]

Init ==
    /\ layout \in {l \in Layouts : Legal(l)}
    /\ P2PInit
    /\ schedule_table = ScheduleTable
    /\ stage      = [r \in Stages |-> NewStage]
    /\ forwards   = [layer \in Layers |-> <<>>]
    /\ backwards  = [layer \in Layers |-> <<>>]
    /\ reductions = [layer \in Layers |-> <<>>]

Overlaps == layout.overlap_p2p_comm
Prefetches == layout.overlap_p2p_comm_warmup_flush

In(r, place) == stage[r].at = place /\ Ready(r)

\* The blocking recv_forward before the warm-up.
Begin(r) ==
    /\ In(r, "begin")
    /\ LET ops == ReceiveIf(r, "prev", ~is_pp_first_stage(r))
       IN  /\ Start(r, ops)
           /\ stage' = [stage EXCEPT
                ![r].at = "warmup", ![r].waits = Handles(ops),
                ![r].input_tensors[0] = <<IF ops = {} THEN None ELSE Buffer(r, "prev")>>]
    /\ UNCHANGED <<layout, arrived, schedule_table, passes>>

\* In warm-up with prefetching, a stage waits for the input of every pass but
\* its first, and the very first layer has none.
AwaitsInput(r, v) == ~FirstLayer(r, get_model_chunk_id(v, TRUE)) /\ v # 0

\* Other stages than the first prefetch the input of the next pass.
WarmupPrefetch(r) ==
    /\ In(r, "warmup") /\ Prefetches /\ ~is_pp_first_stage(r)
    /\ stage[r].k < num_warmup_microbatches(r)
    /\ LET v    == stage[r].k
           recv == ReceivesForward(r, v)
           handles == stage[r].recv_prev_wait_handles
           rest == IF AwaitsInput(r, v) THEN Rest(handles) ELSE handles
       IN  /\ AwaitsInput(r, v) => CanTake(r, handles)
           /\ Start(r, ReceiveIf(r, "prev", recv))
           /\ stage' = [stage EXCEPT
                ![r].at = "warmup_forward", ![r].waits = {},
                ![r].recv_prev_wait_handles = AddHandle(rest, r, "prev", recv),
                ![r].prefetched = IF recv THEN Buffer(r, "prev") ELSE None]
    /\ UNCHANGED <<layout, arrived, schedule_table, passes>>

\* What follows pass v of the warm-up.
AfterWarmup(r, v) ==
    IF v < num_warmup_microbatches(r) - 1 THEN "warmup"
    ELSE IF layout.forward_only THEN "flushed"
    ELSE IF are_all_microbatches_in_warmup(r) THEN "turn"
    ELSE IF Overlaps THEN "warmup_backward" ELSE "steady"

\* The forward pass of a prefetching stage: the output is sent while the stage
\* goes on, once the output before it has been sent.
WarmupForwardPrefetched(r) ==
    /\ In(r, "warmup_forward")
    /\ LET v    == stage[r].k
           done == AfterForward(stage[r], r, v)
           ops  == SendOutput(r, v)
           next == PeerSends(r, v, TRUE).chunk
       IN  /\ ForwardStep(r, v)
           /\ Start(r, ops)
           /\ stage' = [stage EXCEPT ![r] = [done EXCEPT
                !.at = AfterWarmup(r, v),
                !.k = IF v < num_warmup_microbatches(r) - 1 THEN @ + 1 ELSE 0,
                !.waits = stage[r].send_next_wait_handle,
                !.send_next_wait_handle = Sends(ops),
                !.input_tensors = AddPrefetched(@, next, stage[r].prefetched)]]
    /\ UNCHANGED <<layout, arrived, schedule_table, backwards, reductions>>

\* The forward pass of the first stage when prefetching, and of every stage
\* when not; then the call waits for its operations.  The last pass of the
\* warm-up also receives the first gradient, unless that overlaps.
WarmupForward(r) ==
    /\ In(r, "warmup") /\ stage[r].k < num_warmup_microbatches(r)
    /\ Prefetches => is_pp_first_stage(r)
    /\ LET v    == stage[r].k
           recv == ReceivesForward(r, v)
           takes == Prefetches /\ AwaitsInput(r, v)
           handles == stage[r].recv_prev_wait_handles
           rest == IF takes THEN Rest(handles) ELSE handles
           turns == AfterWarmup(r, v) = "steady"
           grad == turns /\ ~is_pp_last_stage(r)
           ops  == SendOutput(r, v) \cup ReceiveIf(r, "prev", recv)
                      \cup ReceiveIf(r, "next", grad)
           done == AfterForward(stage[r], r, v)
       IN  /\ takes => CanTake(r, handles)
           /\ ForwardStep(r, v)
           /\ Start(r, ops)
           /\ stage' = [stage EXCEPT ![r] = [done EXCEPT
                !.at = AfterWarmup(r, v),
                !.k = IF v < num_warmup_microbatches(r) - 1 THEN @ + 1 ELSE 0,
                !.waits = IF Prefetches THEN stage[r].send_next_wait_handle ELSE Handles(ops),
                !.send_next_wait_handle = IF Prefetches THEN Sends(ops) ELSE {},
                !.recv_prev_wait_handles =
                    IF Prefetches THEN AddHandle(rest, r, "prev", recv) ELSE rest,
                !.input_tensors = AddBuffer(@, PeerSends(r, v, TRUE).chunk, r, "prev", recv),
                !.output_tensor_grads[V - 1] =
                    IF turns THEN <<IF grad THEN Buffer(r, "next") ELSE None>> ELSE @]]
    /\ UNCHANGED <<layout, arrived, schedule_table, backwards, reductions>>

\* With overlap, the receive of the first gradient follows the warm-up.
WarmupBackward(r) ==
    /\ In(r, "warmup_backward")
    /\ LET recv == ~is_pp_last_stage(r)
       IN  /\ Start(r, ReceiveIf(r, "next", recv))
           /\ stage' = [stage EXCEPT
                ![r].at = "steady", ![r].waits = {},
                ![r].recv_next_wait_handles = AddHandle(@, r, "next", recv),
                ![r].output_tensor_grads = AddBuffer(@, V - 1, r, "next", recv)]
    /\ UNCHANGED <<layout, arrived, schedule_table, passes>>

LastIteration(r) == stage[r].k = num_microbatches_remaining(r) - 1

\* A forward pass of the steady state.  With overlap it waits for its input,
\* and its output is on the way while the stage goes on.
SteadyForward(r) ==
    /\ In(r, "steady")
    /\ LET v    == stage[r].k + num_warmup_microbatches(r)
           recv == PeerSends(r, v, TRUE).recv /\ ~LastIteration(r)
           takes == Overlaps /\ ~FirstLayer(r, get_model_chunk_id(v, TRUE))
           handles == stage[r].recv_prev_wait_handles
           rest == IF takes THEN Rest(handles) ELSE handles
           ops  == SendOutput(r, v) \cup ReceiveIf(r, "prev", recv)
           done == [AfterForward(stage[r], r, v) EXCEPT !.at = "steady_backward", !.waits = {}]
       IN  /\ takes => CanTake(r, handles)
           /\ ForwardStep(r, v)
           /\ IF Overlaps
              THEN /\ Start(r, ops)
                   /\ stage' = [stage EXCEPT ![r] = [done EXCEPT
                        !.waits = stage[r].send_next_wait_handle,
                        !.send_next_wait_handle = Sends(ops),
                        !.recv_prev_wait_handles = AddHandle(rest, r, "prev", recv),
                        !.input_tensors =
                            AddBuffer(@, PeerSends(r, v, TRUE).chunk, r, "prev", recv)]]
              ELSE /\ stage' = [stage EXCEPT ![r] = done]
                   /\ UNCHANGED <<calls, posted>>
    /\ UNCHANGED <<layout, arrived, schedule_table, backwards, reductions>>

\* The backward pass after it, and without overlap one call for the tensors of
\* both directions.
SteadyBackward(r) ==
    /\ In(r, "steady_backward")
    /\ LET v    == stage[r].k
           f    == v + num_warmup_microbatches(r)
           recv_prev == ~Overlaps /\ PeerSends(r, f, TRUE).recv /\ ~LastIteration(r)
           recv_next == PeerSends(r, v, FALSE).recv
           takes == Overlaps /\ ~LastLayer(r, get_model_chunk_id(v, FALSE))
           handles == stage[r].recv_next_wait_handles
           rest == IF takes THEN Rest(handles) ELSE handles
           ops  == SendGrad(r, v) \cup ReceiveIf(r, "next", recv_next)
                      \cup (IF Overlaps THEN {} ELSE SendNewest(r, f))
                      \cup ReceiveIf(r, "prev", recv_prev)
           done == AfterBackward(stage[r], r, v)
       IN  /\ takes => CanTake(r, handles)
           /\ BackwardStep(r, v)
           /\ Start(r, ops)
           /\ stage' = [stage EXCEPT ![r] = [done EXCEPT
                !.at = IF LastIteration(r) THEN "turn" ELSE "steady",
                !.k = IF LastIteration(r) THEN 0 ELSE @ + 1,
                !.waits = IF Overlaps THEN stage[r].send_prev_wait_handle ELSE Handles(ops),
                !.send_prev_wait_handle = IF Overlaps THEN Sends(ops) ELSE {},
                !.recv_next_wait_handles =
                    IF Overlaps THEN AddHandle(rest, r, "next", recv_next) ELSE rest,
                !.input_tensors =
                    AddBuffer(@, PeerSends(r, f, TRUE).chunk, r, "prev", recv_prev),
                !.output_tensor_grads =
                    AddBuffer(@, PeerSends(r, v, FALSE).chunk, r, "next", recv_next)]]
    /\ UNCHANGED <<layout, arrived, schedule_table, forwards>>

\* From the last forward pass to the cool-down.  If the warm-up did them all,
\* the first gradient is received now.
Turn(r) ==
    /\ In(r, "turn")
    /\ LET all  == are_all_microbatches_in_warmup(r)
           recv == all /\ ~is_pp_last_stage(r)
           ops  == ReceiveIf(r, "next", recv)
       IN  /\ Start(r, ops)
           /\ stage' = [stage EXCEPT
                ![r].at = "cooldown", ![r].k = num_microbatches_remaining(r),
                ![r].waits = Handles(ops),
                ![r].output_tensor_grads[V - 1] =
                    IF all THEN Append(@, IF recv THEN Buffer(r, "next") ELSE None) ELSE @]
    /\ UNCHANGED <<layout, arrived, schedule_table, passes>>

AwaitsGrad(r, v) == ~LastLayer(r, get_model_chunk_id(v, FALSE)) /\ v # 0
ReceivesBackward(r, v) == PeerSends(r, v, FALSE).recv /\ v # Total - 1

\* Other stages than the last prefetch the gradient of the next pass.
CooldownPrefetch(r) ==
    /\ In(r, "cooldown") /\ stage[r].k < Total
    /\ Prefetches /\ ~is_pp_last_stage(r)
    /\ LET v    == stage[r].k
           recv == ReceivesBackward(r, v)
           handles == stage[r].recv_next_wait_handles
           rest == IF AwaitsGrad(r, v) THEN Rest(handles) ELSE handles
       IN  /\ AwaitsGrad(r, v) => CanTake(r, handles)
           /\ Start(r, ReceiveIf(r, "next", recv))
           /\ stage' = [stage EXCEPT
                ![r].at = "cooldown_backward", ![r].waits = {},
                ![r].recv_next_wait_handles = AddHandle(rest, r, "next", recv),
                ![r].prefetched = IF recv THEN Buffer(r, "next") ELSE None]
    /\ UNCHANGED <<layout, arrived, schedule_table, passes>>

CooldownBackwardPrefetched(r) ==
    /\ In(r, "cooldown_backward")
    /\ LET v    == stage[r].k
           ops  == SendGrad(r, v)
           next == PeerSends(r, v, FALSE).chunk
           done == AfterBackward(stage[r], r, v)
       IN  /\ BackwardStep(r, v)
           /\ Start(r, ops)
           /\ stage' = [stage EXCEPT ![r] = [done EXCEPT
                !.at = "cooldown", !.k = @ + 1,
                !.waits = stage[r].send_prev_wait_handle,
                !.send_prev_wait_handle = Sends(ops),
                !.output_tensor_grads = AddPrefetched(@, next, stage[r].prefetched)]]
    /\ UNCHANGED <<layout, arrived, schedule_table, forwards>>

\* The last stage when prefetching, and every stage when not.
CooldownBackward(r) ==
    /\ In(r, "cooldown") /\ stage[r].k < Total
    /\ Prefetches => is_pp_last_stage(r)
    /\ LET v    == stage[r].k
           recv == ReceivesBackward(r, v)
           handles == stage[r].recv_next_wait_handles
           rest == IF AwaitsGrad(r, v) THEN Rest(handles) ELSE handles
           ops  == SendGrad(r, v) \cup ReceiveIf(r, "next", recv)
           done == AfterBackward(stage[r], r, v)
       IN  /\ AwaitsGrad(r, v) => CanTake(r, handles)
           /\ BackwardStep(r, v)
           /\ Start(r, ops)
           /\ stage' = [stage EXCEPT ![r] = [done EXCEPT
                !.k = @ + 1,
                !.waits = IF Prefetches THEN stage[r].send_prev_wait_handle ELSE Handles(ops),
                !.send_prev_wait_handle = IF Prefetches THEN Sends(ops) ELSE @,
                !.recv_next_wait_handles =
                    IF Prefetches THEN AddHandle(rest, r, "next", recv) ELSE rest,
                !.output_tensor_grads =
                    AddBuffer(@, PeerSends(r, v, FALSE).chunk, r, "next", recv)]]
    /\ UNCHANGED <<layout, arrived, schedule_table, forwards>>

\* The last send has left; gradients not reduced so far are reduced now.
Flush(r) ==
    /\ In(r, "cooldown") /\ stage[r].k = Total
    /\ \A handle \in stage[r].send_prev_wait_handle : IsDone(r, handle)
    /\ LET left == IF layout.grad_sync_func THEN Chunks \ stage[r].synchronized ELSE {}
       IN  /\ reductions' = [layer \in Layers |->
                 IF \E c \in left : layer = Layer(r, c)
                 THEN Append(reductions[layer], Len(backwards[layer])) ELSE reductions[layer]]
           /\ stage' = [stage EXCEPT ![r].at = "flushed", ![r].synchronized = @ \cup left]
    /\ UNCHANGED <<layout, calls, posted, arrived, schedule_table, forwards, backwards>>

\* "recv_prev_wait_handles should be cleared at the end of a step".
Finish(r) ==
    /\ In(r, "flushed")
    /\ stage[r].recv_prev_wait_handles = <<>> /\ stage[r].recv_next_wait_handles = <<>>
    /\ stage' = [stage EXCEPT ![r].at = "done"]
    /\ UNCHANGED <<layout, calls, posted, arrived, schedule_table, passes>>

Step(r) ==
    \/ Begin(r)
    \/ WarmupPrefetch(r) \/ WarmupForwardPrefetched(r) \/ WarmupForward(r) \/ WarmupBackward(r)
    \/ SteadyForward(r) \/ SteadyBackward(r) \/ Turn(r)
    \/ CooldownPrefetch(r) \/ CooldownBackwardPrefetched(r) \/ CooldownBackward(r)
    \/ Flush(r) \/ Finish(r)

Deliver(r, q) ==
    /\ Transfer(r, q)
    /\ UNCHANGED <<layout, calls, schedule_table, stage, passes>>

\* All stages are done and all tensors delivered: the schedule returns.  A
\* stage that waits for ever, or fails an assertion, deadlocks instead.
Return ==
    /\ \A r \in Stages : stage[r].at = "done" /\ Idle(r)
    /\ UNCHANGED vars

Next ==
    \/ \E r \in Stages : Step(r)
    \/ \E r, q \in Stages : Deliver(r, q)
    \/ Return

Spec == Init /\ [][Next]_vars

\* A stage that is not blocked goes on, and operations that met are done.
FairSpec == Spec /\ WF_vars(Next)

---------------------------------------------------------------------------
(* Properties                                                              *)

Places == {"begin", "warmup", "warmup_forward", "warmup_backward", "steady", "steady_backward",
           "turn", "cooldown", "cooldown_backward", "flushed", "done"}

\* The lists of a stage keep their shape: a chunk never holds more inputs than
\* there are microbatches, and a released microbatch takes all its tensors along.
TypeOK ==
    /\ layout \in Layouts
    /\ calls \in [Stages -> Nat]
    /\ \A r \in Stages :
         /\ stage[r].at \in Places /\ stage[r].k \in 0 .. Total
         /\ \A c \in Chunks :
              /\ Len(stage[r].input_tensors[c]) <= M
              /\ Len(stage[r].output_tensors[c]) <= Len(stage[r].input_tensors[c])
              /\ Len(stage[r].output_tensor_grads[c]) <= M
    /\ forwards \in [Layers -> Seq(0 .. M)] /\ backwards \in [Layers -> Seq(0 .. M)]
    /\ reductions \in [Layers -> Seq(Nat)]

\* Every microbatch passes each layer forward and backward once, on the
\* tensors that its neighbours made of it and that have arrived, and the
\* schedule comes to an end on all stages: what a stage expects of its
\* neighbours is what they send, in every mode of communication.
Dataflow == INSTANCE PipelineDataflow WITH
    task <- [layers |-> P * V, microbatches |-> M, training |-> ~layout.forward_only]

ImplementsDataflow == Dataflow!Spec

\* The gradients of a layer are reduced once, with every microbatch in them.
GradientsReducedOnce ==
    \A r \in Stages, c \in Chunks :
        /\ reductions[Layer(r, c)] \in {<<>>, <<M>>}
        /\ stage[r].at = "done" /\ ~layout.forward_only =>
              reductions[Layer(r, c)] = <<M>>

\* With param_sync_func the gathering of the parameters of a chunk is launched
\* before the chunk is first used, on every stage.
ParamsSyncedBeforeUse ==
    layout.param_sync_func =>
        \A r \in Stages, c \in Chunks :
            forwards[Layer(r, c)] # <<>> => c \in stage[r].param_synced

=============================================================================
