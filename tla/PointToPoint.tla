---------------------------- MODULE PointToPoint ----------------------------
(***************************************************************************)
(* megatron/core/pipeline_parallel/p2p_communication.py: the sends and     *)
(* receives between neighbouring pipeline stages.                          *)
(*                                                                         *)
(* A call starts up to four operations.  The communication library pairs   *)
(* them without looking at the tensors: between two stages the first send  *)
(* that is not done goes to the first receive that is not done.  With      *)
(* batch_isend_irecv the operations of a call run together; single isend   *)
(* and irecv calls of a pair of stages and a process group run one after   *)
(* the other, in the order in which each of the two stages started them.   *)
(***************************************************************************)
EXTENDS Integers, Sequences, FiniteSets

CONSTANTS
    None,       \* no tensor
    Layouts     \* the pipelines to explore

ASSUME NoneAssumption == None \notin [call : Nat, side : {"next", "prev"}]

VARIABLES
    layout,     \* the configuration of this pipeline; never changes
    calls,      \* calls of _communicate so far, per stage
    posted,     \* operations started and not done, per stage
    arrived     \* what the receives of each stage have brought

P      == layout.pp_size
M      == layout.num_microbatches
Stages == 0 .. P - 1

is_pp_first_stage(r) == r = 0
is_pp_last_stage(r)  == r = P - 1

\* P2PCommunicator.__init__: the stages form a ring.
Peer(r, side) == IF side = "next" THEN (r + 1) % P ELSE (r + P - 1) % P

\* _batched_p2p_ops and _p2p_ops: the order in which a call starts its operations.
Position(r, kind, side) ==
    IF layout.batch_p2p_comm
    THEN CASE kind = "send" /\ side = "prev" -> 1
           [] kind = "recv" /\ side = "prev" -> 2
           [] kind = "send" /\ side = "next" -> 3
           [] OTHER                          -> 4
    ELSE CASE r % 2 = 0 /\ kind = "send" /\ side = "next" -> 1
           [] r % 2 = 0 /\ kind = "recv" /\ side = "prev" -> 2
           [] r % 2 = 0 /\ kind = "send" /\ side = "prev" -> 3
           [] r % 2 = 0 /\ kind = "recv" /\ side = "next" -> 4
           [] r % 2 # 0 /\ kind = "recv" /\ side = "prev" -> 1
           [] r % 2 # 0 /\ kind = "send" /\ side = "next" -> 2
           [] r % 2 # 0 /\ kind = "recv" /\ side = "next" -> 3
           [] OTHER                                       -> 4

\* The process group of an operation: with two stages, single operations of
\* even stages that send do not share a group with those that receive.
Group(r, op) ==
    IF P = 2 /\ ~layout.batch_p2p_comm /\ ((r % 2 = 0) # (op.kind = "send"))
    THEN "world" ELSE "pipeline"

Send(r, side, tensor) ==
    [call |-> calls[r] + 1, kind |-> "send", side |-> side, tensor |-> tensor]
Receive(r, side) ==
    [call |-> calls[r] + 1, kind |-> "recv", side |-> side, tensor |-> None]

\* _communicate: start operations.  Whoever calls it decides when to wait.
Start(r, ops) ==
    /\ calls'  = [calls EXCEPT ![r] = @ + 1]
    /\ posted' = [posted EXCEPT ![r] = @ \cup ops]

\* The operation is done: what it was started for can be used.
Done(r, call, kind, side) ==
    ~ \E op \in posted[r] : op.call = call /\ op.kind = kind /\ op.side = side

Idle(r) == posted[r] = {}

\* The tensor that a receive was started for, and what is in it.
Buffer(r, side) == [call |-> calls[r] + 1, side |-> side]
Content(r, buffer) ==
    IF \E a \in arrived[r] : a.buffer = buffer
    THEN (CHOOSE a \in arrived[r] : a.buffer = buffer).tensor ELSE None

Before(r, a, b) ==
    \/ a.call < b.call
    \/ a.call = b.call /\ Position(r, a.kind, a.side) < Position(r, b.kind, b.side)

\* No earlier operation of the stage keeps this one from running.
Live(r, op) ==
    ~ \E a \in posted[r] :
        /\ Before(r, a, op)
        /\ Peer(r, a.side) = Peer(r, op.side)
        /\ IF layout.batch_p2p_comm THEN a.kind = op.kind ELSE Group(r, a) = Group(r, op)

\* A send of stage r meets a receive of stage q.
Meet(r, s, q, v) ==
    /\ s.kind = "send" /\ v.kind = "recv"
    /\ Peer(r, s.side) = q /\ Peer(q, v.side) = r
    /\ Group(r, s) = Group(q, v)
    /\ Live(r, s) /\ Live(q, v)

Transfer(r, q) ==
    \E s \in posted[r], v \in posted[q] :
        /\ Meet(r, s, q, v)
        /\ posted' = [posted EXCEPT ![r] = @ \ {s}, ![q] = @ \ {v}]
        /\ arrived' = [arrived EXCEPT ![q] = @ \cup
                          {[buffer |-> [call |-> v.call, side |-> v.side],
                            tensor |-> s.tensor]}]

P2PInit ==
    /\ calls   = [r \in Stages |-> 0]
    /\ posted  = [r \in Stages |-> {}]
    /\ arrived = [r \in Stages |-> {}]

=============================================================================
