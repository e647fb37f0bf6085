------------------- MODULE MCPipelineWithoutInterleaving -------------------
(***************************************************************************)
(* Instances of PipelineWithoutInterleaving for TLC: fewer, as many and    *)
(* more microbatches than stages.                                          *)
(***************************************************************************)
EXTENDS PipelineWithoutInterleaving

AllLayouts ==
    [pp_size : 2 .. 4, num_microbatches : 1 .. 5, forward_only : BOOLEAN,
     batch_p2p_comm : BOOLEAN, grad_sync_func : BOOLEAN]

=============================================================================
