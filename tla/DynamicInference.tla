--------------------------- MODULE DynamicInference ---------------------------
(***************************************************************************)
(* The dynamic inference engine of Megatron-LM (dynamic_engine.py) on top  *)
(* of its context (DynamicContext): requests arrive at any time, wait in a *)
(* queue, are scheduled into the memory of the context, pause whenever     *)
(* they fill a block, are evicted when the paused ones need too much, and  *)
(* generate one token per step until they end.  A step is two actions,     *)
(* Forward and Bookkeep: between them the engine yields to the event loop. *)
(*                                                                         *)
(* Tokens are counted, not named: a request knows how many tokens its      *)
(* prompt has and how many it has generated.                               *)
(***************************************************************************)
EXTENDS DynamicContext

CONSTANTS
  Requests,       \* the requests clients may send
  Prompts,        \* the tokens of their prompts
  Budgets,        \* num_tokens_to_generate of each
  MaxRequests,    \* max_requests of the context
  MaxSequence,    \* max_sequence_length of the context
  Setups          \* ways to run the engine, see SetupType

SetupType ==
  [ chunked   : BOOLEAN,       \* enable_chunked_prefill
    maxTokens : Nat \ {0},     \* max_tokens of the context
    polls     : BOOLEAN,       \* generate() and the coordinator's loop, not run_engine()
    stops     : BOOLEAN,       \* requests have stop words
    suspends  : Nat,           \* bound: suspensions of the engine
    clients   : SUBSET Requests ]

ASSUME InferenceAssumption ==
  /\ None \notin Requests
  /\ Prompts \in [Requests -> Nat \ {0}]
  /\ Budgets \in [Requests -> Nat \ {0}]
  /\ {MaxRequests, MaxSequence} \subseteq Nat \ {0}
  /\ Setups \subseteq SetupType

VARIABLES
  setup,
  ctx,          \* the context
  requests,     \* the last request of each record
  waiting,      \* waiting_request_ids
  failed,       \* failed_request_ids
  stopped,      \* stop_word_finished_request_ids
  resuming,     \* resume_request_ids
  phase,        \* what the engine does
  suspends      \* how often it was suspended

vars == << setup, ctx, requests, waiting, failed, stopped, resuming, phase, suspends >>

Phases == {"ready", "asleep", "forward", "suspended", "broken"}

\* "held" by the engine, whichever list it is in; "answered" when its future
\* has a result.
RequestType ==
  [ state     : {"new", "held", "answered"},
    prompt    : Nat,    \* tokens of prompt_tokens
    generated : Nat,    \* tokens of generated_tokens
    budget    : Int,    \* num_tokens_to_generate
    left      : Nat,    \* tokens of remaining_prompt_tokens
    prefilled : Nat ]   \* finished_chunk_token_count

RowType ==
  [ id : Requests, offset : Nat, query : Nat, out : Nat, blocks : Seq(Blocks), last : 0 .. BlockSize - 1 ]

TypeOK ==
  /\ setup \in Setups
  /\ ctx.free \in Seq(Blocks)
  /\ ctx.rows \in Seq(RowType)
  /\ ctx.paused \in 0 .. Len(ctx.rows)
  /\ ctx.chunk \in Requests \cup {None}
  /\ requests \in [Requests -> RequestType]
  /\ {waiting, failed, resuming} \subseteq Seq(Requests)
  /\ stopped \subseteq Requests
  /\ phase \in Phases
  /\ suspends \in 0 .. setup.suspends

Init ==
  /\ setup \in Setups
  /\ ctx = EmptyContext
  /\ requests = [r \in Requests |-> [ state |-> "new", prompt |-> Prompts[r], generated |-> 0,
                                      budget |-> Budgets[r], left |-> Prompts[r], prefilled |-> 0 ]]
  /\ waiting = << >>
  /\ failed = << >>
  /\ stopped = {}
  /\ resuming = << >>
  /\ phase = "ready"
  /\ suspends = 0

-----------------------------------------------------------------------------
(* Requests                                                                *)

\* _add_request: the checks that reject a request.
Accepted(q) ==
  /\ q.prompt + q.budget <= MaxSequence
  /\ q.budget >= 0
  /\ q.prompt <= setup.maxTokens \/ setup.chunked

\* mutated form of the next definition
CheckpointedOldPrompt(q) ==
  [q EXCEPT !.prompt    = @ + q.generated,
            !.generated = 0,
            !.budget    = @ - q.generated,
            !.left      = q.prompt,
            !.prefilled = 0]

\* record.checkpoint: a new request whose prompt holds what was generated.
Checkpointed(q) ==
  [q EXCEPT !.prompt    = @ + q.generated,
            !.generated = 0,
            !.budget    = @ - q.generated,
            !.left      = q.prompt + q.generated,
            !.prefilled = 0]

\* A client sends a request; it may do so while a forward pass runs.
Submit(r) ==
  /\ phase # "broken"
  /\ r \in setup.clients
  /\ requests[r].state = "new"
  /\ requests' = [requests EXCEPT ![r].state = "held"]
  /\ IF Accepted(requests[r])
     THEN waiting' = Append(waiting, r) /\ UNCHANGED failed
     ELSE failed' = Append(failed, r) /\ UNCHANGED waiting
  /\ UNCHANGED << setup, ctx, stopped, resuming, phase, suspends >>

-----------------------------------------------------------------------------
(* Scheduling: "s" is what the loops of schedule_non_chunked_prefill and   *)
(* schedule_chunked_prefill work on, "go" says whether they go on.         *)

HeadOf(s) == s.requests[Head(s.waiting)]

TokensFit(s) == ActiveTokens(s.ctx) + HeadOf(s).left <= setup.maxTokens

\* check_availability; a chunk of a request that has its row needs no other.
Admissible(s) ==
  /\ \/ setup.chunked /\ s.ctx.chunk # None
     \/ Len(s.ctx.rows) < MaxRequests /\ s.ctx.paused = 0
  /\ MemoryAvailable(s.ctx, HeadOf(s).prefilled, HeadOf(s).left)

\* The next n tokens of the head of the queue enter the context.
Enter(s, n, chunk) ==
  LET r == Head(s.waiting)
      q == HeadOf(s)
  IN  [s EXCEPT !.ctx = [AddRequest(s.ctx, r, q.prefilled, n, q.budget) EXCEPT !.chunk = chunk],
                !.ok  = ContinuesLastRow(s.ctx, r, q.prefilled)]

\* The whole rest of the prompt.
ScheduleAll(s) ==
  [Enter(s, HeadOf(s).left, None) EXCEPT
     !.requests[Head(s.waiting)].left = 0,
     !.waiting = Tail(@)]

\* As many tokens as the next forward pass can take.
ScheduleChunk(s) ==
  LET n == setup.maxTokens - ActiveTokens(s.ctx)
      q == [HeadOf(s) EXCEPT !.left = @ - n, !.prefilled = @ + n]
  IN  [Enter(s, n, Head(s.waiting)) EXCEPT !.requests[Head(s.waiting)] = q, !.go = FALSE]

ScheduleOne(s) ==
  IF ~s.ok \/ ~s.go \/ s.waiting = << >> THEN s
  ELSE IF Admissible(s) /\ TokensFit(s) THEN ScheduleAll(s)
  ELSE IF setup.chunked /\ Admissible(s) /\ ActiveTokens(s.ctx) < setup.maxTokens THEN ScheduleChunk(s)
  ELSE [s EXCEPT !.go = FALSE]

Scheduled ==
  LET start == [ ctx |-> ctx, requests |-> requests, waiting |-> waiting, go |-> TRUE, ok |-> TRUE ]
      after[n \in 0 .. Len(waiting)] ==
        IF n = 0 THEN start ELSE LET s == after[n - 1] IN ScheduleOne(s)
  IN  after[Len(waiting)]

-----------------------------------------------------------------------------
(* The engine                                                              *)

\* What run_engine waits for; the coordinator's loop polls for it.
HasWork == ActiveRows(ctx) # << >> \/ waiting # << >>

\* async_forward, up to the point where it yields.
Forward ==
  /\ phase = "ready"
  /\ HasWork
  /\ phase' = IF Scheduled.ok THEN "forward" ELSE "broken"
  /\ ctx' = Scheduled.ctx
  /\ requests' = Scheduled.requests
  /\ waiting' = Scheduled.waiting
  /\ UNCHANGED << setup, failed, stopped, resuming, suspends >>

\* run_engine finds nothing to do and waits on its condition variable.
Sleep ==
  /\ phase = "ready"
  /\ ~setup.polls
  /\ ~HasWork
  /\ phase' = "asleep"
  /\ UNCHANGED << setup, ctx, requests, waiting, failed, stopped, resuming, suspends >>

\* mutated form of the next definition
RequeuedInFront(evicted) == Reverse(evicted) \o waiting

\* post_process_requests: evicted requests wait at the front of the queue, in
\* reverse order, but behind the request whose prompt is filled in chunks.
Requeued(evicted) ==
  IF ctx.chunk # None
  THEN << Head(waiting) >> \o Reverse(evicted) \o Tail(waiting)
  ELSE Reverse(evicted) \o waiting

\* async_bookkeep fails when it answers a rejected request twice.
AnswersOnce == IsInjective(failed)

\* mutated form of the next definition
NoStopsLeft(ending) == {}

\* _get_and_clear_stop_word_finished_ids: what stays marked.
StopsLeft(ending) == stopped \ ending

ActiveIds == { ctx.rows[i].id : i \in ctx.paused + 1 .. Len(ctx.rows) }

\* The rest of a step.  The tokens of the requests in "eod" end them, those of
\* the requests in "hit" complete a stop word; such a request is ended by the
\* next step that has it, which adds no token.
Bookkeep(eod, hit) ==
  LET active   == ActiveRows(ctx)
      ending   == stopped \cap ActiveIds
      AtEnd(w) == w.id \in eod \/ w.offset + w.query + 1 >= w.out \/ w.id \in ending
      done     == { i \in DOMAIN active : AtEnd(active[i]) /\ active[i].id # ctx.chunk }
      over     == { active[i].id : i \in done }
      grown    == ActiveIds \ (ending \cup {ctx.chunk})
      update   == UpdateRequests(ctx, done)
      Processed(r) ==
        LET q == IF r \in grown THEN [requests[r] EXCEPT !.generated = @ + 1] ELSE requests[r]
        IN  IF r \in over \cup ToSet(failed) THEN [q EXCEPT !.state = "answered"]
            ELSE IF r \in ToSet(update.evicted) THEN Checkpointed(q) ELSE q
  IN  /\ phase = "forward"
      /\ hit \subseteq grown \ over
      /\ IF active = << >>
         THEN /\ requests' = [r \in Requests |-> Processed(r)]
              /\ phase' = IF AnswersOnce THEN "ready" ELSE "broken"
              /\ failed' = << >>
              /\ UNCHANGED << ctx, waiting, stopped >>
         ELSE IF update.ok /\ AnswersOnce
         THEN /\ ctx' = update.ctx
              /\ requests' = [r \in Requests |-> Processed(r)]
              /\ waiting' = Requeued(update.evicted)
              /\ stopped' = StopsLeft(ending) \cup hit
              /\ failed' = << >>
              /\ phase' = "ready"
         ELSE /\ phase' = "broken"
              /\ UNCHANGED << ctx, requests, waiting, stopped, failed >>
      /\ UNCHANGED << setup, resuming, suspends >>

\* Whatever the model generates.
FinishStep ==
  \E eod \in SUBSET ActiveIds :
    \E hit \in IF setup.stops THEN SUBSET (ActiveIds \ eod) ELSE {{}} : Bookkeep(eod, hit)

\* suspend, between two steps: the requests that do not wait are checkpointed.
Suspend ==
  /\ phase \in {"ready", "asleep"}
  /\ suspends < setup.suspends
  /\ LET active == { r \in Requests : requests[r].state = "held" } \ ToSet(waiting)
     IN  /\ \E order \in SetToSeqs(active) : resuming' = order \o waiting
         /\ requests' = [r \in Requests |->
                           IF r \in active THEN Checkpointed(requests[r]) ELSE requests[r]]
  /\ waiting' = << >>
  /\ phase' = "suspended"
  /\ suspends' = suspends + 1
  /\ UNCHANGED << setup, ctx, failed, stopped >>

\* resume: the context is reset and the requests are added again; whoever
\* waits for work is notified.
ResumeEngine ==
  /\ phase = "suspended"
  /\ ctx' = EmptyContext
  /\ LET accepted == { i \in DOMAIN resuming : Accepted(requests[resuming[i]]) }
     IN  /\ waiting' = waiting \o Picked(resuming, accepted)
         /\ failed' = failed \o Picked(resuming, DOMAIN resuming \ accepted)
  /\ phase' = "ready"
  /\ UNCHANGED << setup, requests, stopped, resuming, suspends >>

Next ==
  \/ \E r \in Requests : Submit(r)
  \/ Forward
  \/ Sleep
  \/ FinishStep
  \/ Suspend
  \/ ResumeEngine

Spec == Init /\ [][Next]_vars

\* The loop of the engine goes on and whoever suspends it resumes it.  Fairness
\* is stated of the changes of phase that only Forward, FinishStep and
\* ResumeEngine make, each whenever the phase allows it.
StepStarts == phase = "ready" /\ HasWork /\ phase' \in {"forward", "broken"}

StepEnds == phase = "forward" /\ phase' \in {"ready", "broken"}

SuspensionEnds == phase = "suspended" /\ phase' = "ready"

FairSpec ==
  /\ Spec
  /\ WF_phase(StepStarts)
  /\ WF_phase(StepEnds)
  /\ WF_phase(SuspensionEnds)

-----------------------------------------------------------------------------
(* Every block is on the stack of free blocks or belongs to one row, once: *)
(* two rows never share a block (they would overwrite each other's keys    *)
(* and values) and no block is lost, whatever was finished, moved, paused, *)
(* resumed, evicted or reset.                                              *)
BlocksOwnedOnce ==
  phase # "suspended" =>
    LET all == ctx.free \o BlocksOf(ctx.rows)
    IN  IsInjective(all) /\ ToSet(all) = Blocks

(* The row of a request knows as many tokens as the request itself, and    *)
(* its blocks have room for them: the rows were never mixed up by all the  *)
(* moves, and nothing was generated twice or lost by an eviction or a      *)
(* suspension.  A paused row lacks the token it has not been able to place.*)
RowsMatchRequests ==
  phase \in {"ready", "forward"} =>
    \A i \in DOMAIN ctx.rows :
      LET w == ctx.rows[i]
          q == requests[w.id]
      IN  w.id # ctx.chunk =>
            /\ q.state = "held"
            /\ w.out = q.prompt + q.budget
            /\ w.offset + w.query = q.prompt + q.generated - (IF i <= ctx.paused THEN 1 ELSE 0)
            /\ Len(w.blocks) = BlocksFor(w.offset + w.query)

(* The last token of a forward pass goes to the slot of its position, so   *)
(* that no pass overwrites the keys and values of an earlier token: for    *)
(* the rows that generate, and for all of them.                            *)
InItsSlot(w) == w.offset + w.query - 1 = (Len(w.blocks) - 1) * BlockSize + w.last

TokensInTheirSlots ==
  phase = "forward" =>
    \A i \in ctx.paused + 1 .. Len(ctx.rows) :
      ctx.rows[i].id # ctx.chunk => InItsSlot(ctx.rows[i])

(* add_request says of a prompt filled in chunks that the next chunk will  *)
(* "Overwrite the last token, which is the useless token from chunked      *)
(* prefill": that token is never written into the cache over another one.  *)
UselessTokenIsHarmless ==
  phase = "forward" =>
    \A i \in DOMAIN ctx.rows : ctx.rows[i].id = ctx.chunk => InItsSlot(ctx.rows[i])

(* No assertion of the engine or the context fails and no request is       *)
(* answered twice: the engine goes on.                                     *)
EngineGoesOn == phase # "broken"

(* A request whose stop word was found generates nothing more: it stays    *)
(* marked, through pauses and evictions, until it is answered.             *)
StopsAreKept == [][\A r \in stopped : r \in stopped' \/ requests'[r].state = "answered"]_vars

(* Every request that waits is answered, in the loops that poll for work:  *)
(* paused and evicted requests get their blocks in the end, and none is    *)
(* forgotten by a suspension.                                              *)
RequestsAnswered ==
  \A r \in Requests : setup.polls /\ r \in ToSet(waiting) ~> requests[r].state = "answered"

(* async_forward "Sleeps when no requests are available, until new         *)
(* requests have been added": run_engine's wait ends, too.                 *)
SleepEndsWithARequest ==
  \A r \in Requests : phase = "asleep" /\ r \in ToSet(waiting) ~> phase # "asleep"
=============================================================================
