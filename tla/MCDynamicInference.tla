-------------------------- MODULE MCDynamicInference --------------------------
(***************************************************************************)
(* Instances of DynamicInference.  A block holds two tokens; a request has *)
(* at most seven, which the active part of the memory can hold, except the *)
(* one that is rejected.                                                   *)
(***************************************************************************)
EXTENDS DynamicInference

MCPrompts == << 2, 4, 4, 7 >>
MCBudgets == << 4, 3, 3, 2 >>

Served == 1 .. 3

\* Prompts in one piece, with stop words and a suspension; in chunks; and run_engine
\* with one request too long to be served.
MCSetups ==
  { [ chunked |-> FALSE, maxTokens |-> 10, polls |-> TRUE, stops |-> TRUE,
      suspends |-> 1, clients |-> Served ],
    [ chunked |-> TRUE, maxTokens |-> 3, polls |-> TRUE, stops |-> FALSE,
      suspends |-> 0, clients |-> Served ],
    [ chunked |-> FALSE, maxTokens |-> 7, polls |-> FALSE, stops |-> FALSE,
      suspends |-> 0, clients |-> {1, 4} ] }

ChunkedSetups == { s \in MCSetups : s.chunked }
=============================================================================
