---------------------------- MODULE DynamicContext ----------------------------
(***************************************************************************)
(* The memory of the dynamic inference engine of Megatron-LM: the stack of *)
(* free blocks of the key/value cache (dynamic_block_allocator.py) and the *)
(* rows of the requests that own blocks (dynamic_context.py).              *)
(*                                                                         *)
(* A context is a record                                                   *)
(*   free    the free part of block_bag; its end is the top of the stack   *)
(*   rows    the rows of the requests, [ paused | active ]; the rows right *)
(*           of total_request_count are dead and not represented           *)
(*   paused  paused_request_count                                          *)
(*   chunk   chunked_prefill_request_id, None for -1                       *)
(* and a row is a record                                                   *)
(*   id      request_ids                                                   *)
(*   offset  request_kv_length_offsets, the tokens already in the cache    *)
(*   query   request_query_lengths, the tokens of the next forward pass    *)
(*   out     request_output_lengths, where the request ends                *)
(*   blocks  request_to_kv_block_ids (its length is request_kv_block_counts*)
(*           and its last element request_last_kv_block_id)                *)
(*   last    request_last_kv_block_offset, the slot of the last block the  *)
(*           last token of the next forward pass is written to             *)
(***************************************************************************)
EXTENDS Integers, Sequences, FiniteSets, SequencesExt

CONSTANTS
  None,
  BlockSize,      \* block_size_tokens
  ActiveBlocks,   \* active_count of the allocator
  PausedBlocks    \* paused_count of the allocator

ASSUME ContextAssumption ==
  /\ BlockSize \in Nat \ {0}
  /\ ActiveBlocks \in Nat \ {0}
  /\ PausedBlocks \in Nat

\* The last block is the dummy block, which is never handed out.
Blocks == 0 .. ActiveBlocks + PausedBlocks - 1

BlocksFor(n) == (n + BlockSize - 1) \div BlockSize

EmptyContext == [ free   |-> [i \in 1 .. ActiveBlocks + PausedBlocks |-> i - 1],
                  rows   |-> << >>,
                  paused |-> 0,
                  chunk  |-> None ]

-----------------------------------------------------------------------------
PausedRows(c) == SubSeq(c.rows, 1, c.paused)

ActiveRows(c) == SubSeq(c.rows, c.paused + 1, Len(c.rows))

\* The blocks of some rows, in the order in which they are released.
BlocksOf(rows) == FlattenSeq([i \in DOMAIN rows |-> rows[i].blocks])

ActiveAvail(c) == ActiveBlocks - Len(BlocksOf(ActiveRows(c)))

PausedOverflow(c) == Len(BlocksOf(PausedRows(c))) - PausedBlocks

\* active_token_count: the tokens of the next forward pass.
ActiveTokens(c) == FoldSeq(LAMBDA row, n : row.query + n, 0, ActiveRows(c))

\* The n blocks at the top of the stack.
Allocated(c, n) == SubSeq(c.free, Len(c.free) - n + 1, Len(c.free))

\* The stack without them.
FreeAfter(c, n) == SubSeq(c.free, 1, Len(c.free) - n)

\* The rows left[j] and right[j] change places, for every j.
Exchange(rows, left, right) ==
  LET Partner(i) == IF i \in ToSet(left) THEN right[CHOOSE j \in DOMAIN left : left[j] = i]
                    ELSE IF i \in ToSet(right) THEN left[CHOOSE j \in DOMAIN right : right[j] = i]
                    ELSE i
  IN  [i \in DOMAIN rows |-> rows[Partner(i)]]

Ascending(S) == CHOOSE at \in SetToSeqs(S) : \A i, j \in DOMAIN at : i < j => at[i] < at[j]

\* The elements of s at the positions of S, in their order.
Picked(s, S) == LET at == Ascending(S) IN [j \in DOMAIN at |-> s[at[j]]]

\* The rows of S move to the left; only misplaced rows move.
ToTheLeft(rows, S) ==
  LET front == 1 .. Cardinality(S)
  IN  Exchange(rows, Ascending(front \ S), Ascending(S \ front))

-----------------------------------------------------------------------------
\* check_availability: a request whose prompt is filled up to "prefilled" and
\* has "left" tokens to go; MaxRequests and MaxTokens are the caller's.
MemoryAvailable(c, prefilled, left) ==
  Len(c.free) >= BlocksFor(left + prefilled) - BlocksFor(prefilled)

\* add_request: n more tokens of the prompt of the request, in the last row
\* when the request is in the middle of its prompt, else in a new row.
AddRequest(c, id, prefilled, n, budget) ==
  LET owned == IF prefilled > 0 THEN Last(c.rows).blocks ELSE << >>
      need  == BlocksFor(prefilled + n) - BlocksFor(prefilled)
      row   == [ id     |-> id,
                 offset |-> prefilled,
                 query  |-> n,
                 out    |-> prefilled + n + budget,
                 blocks |-> owned \o Allocated(c, need),
                 last   |-> (prefilled + n - 1) % BlockSize ]
  IN  [c EXCEPT !.free = FreeAfter(c, need),
                !.rows = Append(IF prefilled > 0 THEN Front(@) ELSE @, row)]

\* Its assertion: the chunk continues the request of the last row.
ContinuesLastRow(c, id, prefilled) ==
  prefilled > 0 => c.rows # << >> /\ Last(c.rows).id = id

-----------------------------------------------------------------------------
(* update_requests, step by step.                                          *)

\* mutated form of the next definition
FinishWithoutMove(c, done) ==
  LET active == ActiveRows(c)
      alive  == DOMAIN active \ done
  IN  [c EXCEPT !.free = @ \o BlocksOf(Picked(active, done)),
                !.rows = PausedRows(c) \o SubSeq(active, 1, Cardinality(alive))]

\* Step 4: the blocks of the finished rows are released and active rows from
\* the right fill their places. "done" holds positions among the active rows.
Finish(c, done) ==
  LET active == ActiveRows(c)
      alive  == DOMAIN active \ done
  IN  [c EXCEPT !.free = @ \o BlocksOf(Picked(active, done)),
                !.rows = PausedRows(c) \o SubSeq(ToTheLeft(active, alive), 1, Cardinality(alive))]

\* mutated form of the next definition
PauseTooLate(c) ==
  LET active == ActiveRows(c)
      full   == { i \in DOMAIN active : active[i].last >= BlockSize /\ active[i].id # c.chunk }
  IN  [c EXCEPT !.rows = PausedRows(c) \o ToTheLeft(active, full),
                !.paused = @ + Cardinality(full)]

\* Step 5: rows that need a new block move left, to the paused ones.
Pause(c) ==
  LET active == ActiveRows(c)
      full   == { i \in DOMAIN active : active[i].last = BlockSize - 1 /\ active[i].id # c.chunk }
  IN  [c EXCEPT !.rows = PausedRows(c) \o ToTheLeft(active, full),
                !.paused = @ + Cardinality(full)]

\* resume_paused_requests: how many rows, from the right-most paused one,
\* fit in the active part of the memory with one more block each.
Resumable(c) ==
  LET Fits(k) == Len(BlocksOf(SubSeq(c.rows, c.paused - k + 1, c.paused))) + k <= ActiveAvail(c)
      n       == Cardinality({ k \in 1 .. c.paused : Fits(k) })
  IN  IF n <= Len(c.free) THEN n ELSE Len(c.free)

WithBlock(row, block) == [row EXCEPT !.blocks = Append(@, block)]

Resume(c) ==
  LET n     == Resumable(c)
      first == c.paused - n
      new   == Allocated(c, n)
  IN  [c EXCEPT !.free = FreeAfter(c, n),
                !.rows = [i \in DOMAIN c.rows |->
                            IF i \in first + 1 .. c.paused
                            THEN WithBlock(c.rows[i], new[i - first])
                            ELSE c.rows[i]],
                !.paused = first]

\* Its assertion: a resumed row has filled its last block.
ResumesFullRows(c) ==
  \A i \in c.paused - Resumable(c) + 1 .. c.paused : c.rows[i].last = BlockSize - 1

\* mutated form of the next definition
EvictedNone(c) == 0

\* evict_overflow_paused_requests: how many rows, from the right-most paused
\* one, must go until every other row that overflows can have one more block.
Evicted(c) ==
  LET Count(i, j) == Len(BlocksOf(SubSeq(c.rows, i, j)))
      valid == Cardinality({ k \in 1 .. c.paused : Count(1, k) <= PausedBlocks })
      over  == c.paused - valid
      Enough(k) == Count(c.paused - k + 1, c.paused) >= over - k
  IN  IF PausedOverflow(c) <= 0 \/ over = 0
      THEN 0
      ELSE CHOOSE k \in 1 .. over : Enough(k) /\ \A m \in 1 .. k - 1 : ~Enough(m)

EvictedIds(c) == [j \in 1 .. Evicted(c) |-> c.rows[c.paused - Evicted(c) + j].id]

Evict(c) ==
  LET n      == Evicted(c)
      total  == Len(c.rows)
      active == total - c.paused
      first  == c.paused - n
      moved  == IF n < active THEN n ELSE active
      to     == IF n < active THEN total - n ELSE c.paused
      placed == Exchange(c.rows, [j \in 1 .. moved |-> first + j], [j \in 1 .. moved |-> to + j])
  IN  [c EXCEPT !.free = @ \o BlocksOf(SubSeq(c.rows, first + 1, c.paused)),
                !.rows = SubSeq(placed, 1, total - n),
                !.paused = first]

\* Step 6.d: the row whose prompt is filled in chunks is the last one.
ChunkLast(c) ==
  IF c.chunk = None THEN c
  ELSE LET at == CHOOSE i \in DOMAIN c.rows : c.rows[i].id = c.chunk
       IN  [c EXCEPT !.rows = Exchange(@, << at >>, << Len(@) >>)]

\* Step 7: every active row decodes one token next.
Advanced(row) == [row EXCEPT !.offset = @ + row.query,
                             !.query  = 1,
                             !.last   = (@ + 1) % BlockSize]

Advance(c) ==
  [c EXCEPT !.rows = [i \in DOMAIN c.rows |->
                        IF i <= c.paused THEN c.rows[i] ELSE Advanced(c.rows[i])]]

\* update_requests: the new context, the evicted requests and whether the
\* assertions hold.
UpdateRequests(c, done) ==
  IF c.paused = 0 /\ done = DOMAIN c.rows
  THEN [ ctx     |-> [c EXCEPT !.free = @ \o BlocksOf(c.rows), !.rows = << >>],
         evicted |-> << >>,
         ok      |-> TRUE ]
  ELSE LET sorted  == Pause(Finish(c, done))
           resumed == Resume(sorted)
           evicted == Evict(resumed)
           final   == Resume(evicted)
       IN  [ ctx     |-> IF final.paused < Len(final.rows) THEN Advance(ChunkLast(final)) ELSE final,
             evicted |-> EvictedIds(resumed),
             ok      |-> /\ ResumesFullRows(sorted)
                         /\ ResumesFullRows(evicted)
                         /\ final.paused < Len(final.rows) ]
=============================================================================
