-------------------------- MODULE MCGradientBuckets --------------------------
(***************************************************************************)
(* Instances of GradientBuckets for TLC: two ranks; two parameters in the  *)
(* first bucket group, one of them used twice in a pass, and one in the    *)
(* second group.                                                           *)
(***************************************************************************)
EXTENDS GradientBuckets, TLC

CONSTANTS r1, r2, embedding, layer, output

TwoGroups == output :> 1 @@ layer :> 1 @@ embedding :> 2
TiedTwice == output :> 1 @@ layer :> 2 @@ embedding :> 1

\* What the arguments allow (overlap_param_gather needs the distributed
\* optimizer and overlap_grad_reduce), and what setup makes of them.
Setup(optimizer, reduce, gather, aligned_reduce, aligned_gather) ==
    [use_distributed_optimizer |-> optimizer, overlap_grad_reduce |-> reduce,
     overlap_param_gather |-> gather, grad_sync_func |-> aligned_reduce,
     align_param_gather |-> aligned_gather]

AllSetups ==
    {Setup(FALSE, FALSE, FALSE, FALSE, FALSE), Setup(FALSE, TRUE, FALSE, FALSE, FALSE),
     Setup(TRUE, FALSE, FALSE, FALSE, FALSE), Setup(TRUE, TRUE, FALSE, TRUE, FALSE),
     Setup(TRUE, TRUE, TRUE, FALSE, FALSE), Setup(TRUE, TRUE, TRUE, TRUE, FALSE),
     Setup(TRUE, TRUE, TRUE, FALSE, TRUE)}

\* The forward pass may use the groups in another order than that of the
\* registration.  In the backward pass the order of the hooks may differ
\* between ranks within a group, and the groups are complete in one order.
ForwardOrders == {<<2, 1>>, <<1, 2, 1>>}
GroupOneFirst == <<output, layer, layer, embedding>>
GroupOneFirstToo == <<layer, layer, output, embedding>>
GroupTwoFirst == <<layer, output, embedding, layer>>
GroupTwoFirstToo == <<embedding, layer, layer, output>>
BackwardOrders ==
    {r1 :> GroupOneFirst @@ r2 :> GroupOneFirst, r1 :> GroupOneFirst @@ r2 :> GroupOneFirstToo,
     r1 :> GroupTwoFirst @@ r2 :> GroupTwoFirstToo}

\* Three iterations: one of them may fail to update the weights, and in one
\* the rerun state machine may ask for a second pass.
Plan(success, passes, forward, backward, toggling) ==
    [i \in 1 .. 3 |->
        [successful |-> success[i], passes |-> passes[i], forward |-> forward,
         backward |-> IF i = 3 THEN [q \in Ranks |-> backward[r1]] ELSE backward,
         evaluate |-> i = toggling, hash |-> i = toggling, save |-> i = 2]]

Courses == {<< <<TRUE, TRUE, TRUE>>, <<2, 1, 1>> >>, << <<TRUE, FALSE, TRUE>>, <<1, 2, 1>> >>,
            << <<FALSE, TRUE, TRUE>>, <<1, 1, 1>> >>}

\* Evaluation and the comparison of the weights only once the hooks are on.
AllPlans ==
    {Plan(c[1], c[2], f, b, 2) : c \in Courses, f \in ForwardOrders, b \in BackwardOrders}

\* Evaluation after an iteration that updated nothing, the first one.
EarlyEvaluation ==
    {Plan(<<FALSE, TRUE, TRUE>>, <<1, 1, 1>>, <<2, 1>>, r1 :> GroupTwoFirst @@ r2 :> GroupTwoFirst, 1)}

=============================================================================
