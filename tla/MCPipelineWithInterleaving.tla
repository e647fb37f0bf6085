-------------------- MODULE MCPipelineWithInterleaving --------------------
(***************************************************************************)
(* Instances of PipelineWithInterleaving for TLC.                          *)
(***************************************************************************)
EXTENDS PipelineWithInterleaving

Layout(p, v, m, n, forward_only, mode, aligned) ==
    [pp_size |-> p, num_model_chunks |-> v, num_microbatches |-> m,
     microbatch_group_size_per_vp_stage |-> n, forward_only |-> forward_only,
     overlap_p2p_comm |-> mode \in {"overlapping", "prefetching"},
     overlap_p2p_comm_warmup_flush |-> mode = "prefetching",
     batch_p2p_comm |-> mode = "batched",
     grad_sync_func |-> aligned, param_sync_func |-> aligned]

CommunicationModes == {"batched", "blocking", "overlapping", "prefetching"}

\* Two and three stages in all modes, with groups of as many microbatches as
\* there are stages or more, and a last group that is smaller; and four stages.
AllLayouts ==
    {Layout(p, v, m, n, f, mode, aligned) :
        p \in 2 .. 3, v \in 2 .. 3, m \in 2 .. 5, n \in 2 .. 3, f \in BOOLEAN,
        mode \in CommunicationModes, aligned \in BOOLEAN}
      \cup {Layout(4, 2, 4, 4, FALSE, mode, FALSE) : mode \in {"batched", "prefetching"}}

=============================================================================
