---------------------------- MODULE InferenceProofs ----------------------------
(* Type correctness of DynamicInference and its invariants, for every number *)
(* of requests, blocks and setups.                                           *)
EXTENDS DynamicInference, SequenceTheorems, FiniteSetTheorems, TLAPS

-----------------------------------------------------------------------------
(* The setups                                                              *)

\* A suspension resets the context, so that no prompt may be in the middle of
\* its chunks, and whoever is suspended is added again, so that the engine must
\* still accept it.
SuspensionsAreOrdinary ==
  \A s \in Setups : s.suspends > 0 =>
    /\ ~s.chunked
    /\ \A r \in s.clients : /\ Prompts[r] + Budgets[r] <= MaxSequence
                            /\ Prompts[r] + Budgets[r] <= s.maxTokens

\* The active part of the memory can hold any one request.
MemoryHoldsARequest == BlocksFor(MaxSequence) <= ActiveBlocks

\* Stop words are not looked for in prompts that are filled in chunks.
StopsWithoutChunks == \A s \in Setups : s.stops => ~s.chunked

-----------------------------------------------------------------------------
(* The inductive invariant                                                 *)

\* Contexts of rows of the requests.
ContextType ==
  [ free : Seq(Blocks), rows : Seq(RowType), paused : Nat, chunk : Requests \cup {None} ]

\* No element twice.
Injective(s) == \A i, j \in DOMAIN s : s[i] = s[j] => i = j

\* The requests that have a row.
RowIds(c) == { c.rows[i].id : i \in DOMAIN c.rows }

\* Who owns the blocks.
FreeOwned(c) ==
  /\ Injective(c.free)
  /\ \A i \in DOMAIN c.rows : ToSet(c.rows[i].blocks) \cap ToSet(c.free) = {}

\* No row has a block twice or shares one with another row.
RowsOwned(c) ==
  \A i \in DOMAIN c.rows :
    /\ Injective(c.rows[i].blocks)
    /\ \A j \in DOMAIN c.rows \ {i} : ToSet(c.rows[i].blocks) \cap ToSet(c.rows[j].blocks) = {}

\* No block is lost.
AllOwned(c) ==
  \A b \in Blocks : b \in ToSet(c.free) \/ \E i \in DOMAIN c.rows : b \in ToSet(c.rows[i].blocks)

Owned(c) == FreeOwned(c) /\ RowsOwned(c) /\ AllOwned(c)

\* A request that lasts: the engine would accept it again.
Lasting(q) ==
  /\ q.prompt > 0
  /\ q.prompt + q.budget <= MaxSequence
  /\ setup.suspends > 0 => q.prompt + q.budget <= setup.maxTokens

\* A request in the queue.
Queued(q) ==
  /\ q.state = "held"
  /\ Lasting(q)
  /\ q.generated = 0
  /\ q.budget > 0
  /\ q.left > 0
  /\ q.left + q.prefilled = q.prompt

\* A row and its request; lag is 1 for the token a row has not been able to place.
Paired(w, q, lag) ==
  /\ q.state = "held"
  /\ Lasting(q)
  /\ w.out = q.prompt + q.budget
  /\ w.offset + w.query = q.prompt + q.generated - lag
  /\ w.offset + w.query + lag < w.out
  /\ w.offset + w.query > 0

\* Every row but the one that is filled in chunks matches its request, and a
\* paused row has filled its last block.
RowsGood(c, reqs) ==
  \A i \in DOMAIN c.rows :
    LET w == c.rows[i]
        q == reqs[w.id]
    IN  w.id # c.chunk => /\ Paired(w, q, IF i <= c.paused THEN 1 ELSE 0)
                          /\ InItsSlot(w)
                          /\ i <= c.paused => w.last = BlockSize - 1

\* The request that is filled in chunks is the head of the queue and the last row,
\* with the blocks of the chunks so far.
ChunkGood(c, reqs, queue) ==
  c.chunk # None =>
    /\ setup.chunked
    /\ queue # << >> /\ Head(queue) = c.chunk
    /\ c.paused < Len(c.rows) /\ c.rows[Len(c.rows)].id = c.chunk
    /\ reqs[c.chunk].prefilled > 0
    /\ Len(c.rows[Len(c.rows)].blocks) = BlocksFor(reqs[c.chunk].prefilled)

\* Nobody waits twice, and who waits has no row, except that one.
QueueGood(c, reqs, queue) ==
  /\ Injective(queue)
  /\ \A r \in ToSet(queue) :
       /\ Queued(reqs[r])
       /\ reqs[r].prefilled > 0 => r = c.chunk
       /\ r \in RowIds(c) => r = c.chunk

\* A rejected request is nowhere else.
FailedGood(c, reqs, queue) ==
  /\ Injective(failed)
  /\ ToSet(failed) \cap (ToSet(queue) \cup RowIds(c)) = {}
  /\ \A r \in ToSet(failed) : reqs[r].state = "held"

\* A request has at most one row.
DistinctRows(c) == \A i, j \in DOMAIN c.rows : c.rows[i].id = c.rows[j].id => i = j

\* No request is forgotten.
AllHeld(c, reqs, queue) ==
  \A r \in Requests : reqs[r].state = "held" => r \in ToSet(queue) \cup RowIds(c) \cup ToSet(failed)

\* The engine is not suspended.
Serving(c, reqs, queue) ==
  /\ Owned(c)
  /\ DistinctRows(c)
  /\ c.paused < Len(c.rows) \/ c.rows = << >>
  /\ RowsGood(c, reqs)
  /\ ChunkGood(c, reqs, queue)
  /\ QueueGood(c, reqs, queue)
  /\ FailedGood(c, reqs, queue)
  /\ AllHeld(c, reqs, queue)

\* It is suspended: the context is about to be reset.
Suspended ==
  /\ setup.suspends > 0
  /\ Injective(waiting) /\ Injective(resuming)
  /\ ToSet(waiting) \cap ToSet(resuming) = {}
  /\ \A r \in ToSet(waiting) \cup ToSet(resuming) : Queued(requests[r]) /\ requests[r].prefilled = 0
  /\ \A r \in Requests : requests[r].state = "held" => r \in ToSet(waiting) \cup ToSet(resuming)

\* A request that was not sent yet is what its client will send.
Fresh ==
  \A r \in Requests : requests[r].state = "new" =>
    requests[r] = [ state |-> "new", prompt |-> Prompts[r], generated |-> 0,
                    budget |-> Budgets[r], left |-> Prompts[r], prefilled |-> 0 ]

\* An engine that is suspended rejects nothing and fills no prompt in chunks.
SuspendsGood == setup.suspends > 0 => failed = << >> /\ ctx.chunk = None

\* The inductive invariant.
IInv ==
  /\ TypeOK
  /\ ctx \in ContextType
  /\ Fresh
  /\ SuspendsGood
  /\ phase # "suspended" => Serving(ctx, requests, waiting)
  /\ phase = "suspended" => Suspended
-----------------------------------------------------------------------------
(* Natural numbers, intervals and blocks                                   *)

\* A set of natural numbers has a least one.
LEMMA Least ==
  ASSUME NEW T, T \subseteq Nat, T # {}
  PROVE  \E n \in T : \A m \in T : n <= m
<1>1. IsWellFoundedOn(OpToRel(<, Nat), Nat)
  BY NatLessThanWellFounded
<1>2. PICK n \in T : \A m \in T : ~ (<< m, n >> \in OpToRel(<, Nat))
  BY <1>1, WFMin
<1>3. \A m \in T : << m, n >> \in Nat \X Nat /\ (m < n => << m, n >> \in OpToRel(<, Nat))
  BY DEF OpToRel
<1>4. \A m \in T : ~ (m < n)
  BY <1>2, <1>3
<1>. QED  BY <1>4

\* A set with 0 that is closed under successor has all natural numbers.
LEMMA Induction ==
  ASSUME NEW T, 0 \in T, \A n \in Nat : n \in T => n + 1 \in T
  PROVE  Nat \subseteq T
<1>1. SUFFICES ASSUME Nat \ T # {} PROVE FALSE
  OBVIOUS
<1>2. PICK n \in Nat \ T : \A m \in Nat \ T : n <= m
  BY Least, <1>1
<1>3. n # 0 /\ n - 1 \in Nat
  BY <1>2
<1>4. n - 1 \in T
  BY <1>2, <1>3
<1>. QED  BY <1>2, <1>3, <1>4

\* The positions of a sequence are finitely many, and so are some of them.
LEMMA Positions ==
  ASSUME NEW n \in Nat, NEW S \in SUBSET (1 .. n)
  PROVE  /\ IsFiniteSet(S) /\ Cardinality(S) \in 0 .. n
         /\ Cardinality((1 .. n) \ S) = n - Cardinality(S)
         /\ Cardinality(1 .. n) = n
         /\ Cardinality(S) = n => S = 1 .. n
<1>1. IsFiniteSet(1 .. n) /\ Cardinality(1 .. n) = n
  BY FS_Interval
<1>2. IsFiniteSet(S) /\ Cardinality(S) <= Cardinality(1 .. n) /\ Cardinality(S) \in Nat
  BY <1>1, FS_Subset, FS_CardinalityType
<1>3. Cardinality(1 .. n) = Cardinality(S) => 1 .. n = S
  BY <1>1, FS_Subset
<1>4. Cardinality((1 .. n) \ S) = Cardinality(1 .. n) - Cardinality((1 .. n) \cap S)
  BY <1>1, FS_Difference
<1>5. (1 .. n) \cap S = S
  OBVIOUS
<1>6. Cardinality((1 .. n) \ S) = n - Cardinality(S)
  BY <1>1, <1>4, <1>5
<1>7. Cardinality(S) \in 0 .. n
  BY <1>1, <1>2
<1>8. Cardinality(S) = n => S = 1 .. n
  BY <1>1, <1>3
<1>. QED  BY <1>1, <1>2, <1>6, <1>7, <1>8

\* The blocks of n tokens: a last block, and full ones before it.
LEMMA BlocksForSlot ==
  ASSUME NEW n \in Nat, NEW k \in Nat, NEW last \in 0 .. BlockSize - 1,
         n = (k - 1) * BlockSize + last + 1
  PROVE  BlocksFor(n) = k
<1>1. BlockSize \in Nat /\ BlockSize > 0
  BY ContextAssumption
<1>2. n + BlockSize - 1 = k * BlockSize + last
  BY <1>1
<1>3. (k * BlockSize + last) \div BlockSize = k
  BY <1>1
<1>. QED  BY <1>2, <1>3 DEF BlocksFor

-----------------------------------------------------------------------------
(* Positions in their order                                                *)

\* The number of elements of S below i.
Rank(S, i) == Cardinality({ k \in S : k < i })

\* A greater element has a greater rank.
LEMMA RankIsMonotone ==
  ASSUME NEW n \in Nat, NEW S \in SUBSET (1 .. n), NEW i \in S, NEW j \in S, i < j
  PROVE  Rank(S, i) \in 0 .. Cardinality(S) - 1 /\ Rank(S, i) < Rank(S, j)
<1>. DEFINE I == { k \in S : k < i }
            J == { k \in S : k < j }
<1>1. i \in Int /\ j \in Int /\ \A k \in S : k \in Int
  OBVIOUS
<1>2. I \subseteq J /\ i \in J /\ i \notin I /\ J \subseteq S /\ j \in S /\ j \notin J
  <2>1. I \subseteq J
    <3>1. \A k \in S : k < i => k < j
      BY <1>1
    <3>. QED  BY <3>1, Zenon
  <2>2. i \in J /\ i \notin I
    BY <1>1
  <2>3. J \subseteq S /\ j \notin J
    BY <1>1
  <2>. QED  BY <2>1, <2>2, <2>3
<1>3. IsFiniteSet(S) /\ IsFiniteSet(J) /\ IsFiniteSet(I)
      /\ Cardinality(S) \in Nat /\ Cardinality(J) \in Nat /\ Cardinality(I) \in Nat
  BY <1>2, Positions, FS_Subset, FS_CardinalityType
<1>. HIDE DEF I, J
<1>4. Cardinality(I) <= Cardinality(J) /\ Cardinality(I) # Cardinality(J)
  BY <1>2, <1>3, FS_Subset
<1>5. Cardinality(J) <= Cardinality(S) /\ Cardinality(J) # Cardinality(S)
  BY <1>2, <1>3, FS_Subset
<1>6. Cardinality(I) < Cardinality(J) /\ Cardinality(I) \in 0 .. Cardinality(S) - 1
  BY <1>3, <1>4, <1>5
<1>. QED  BY <1>6 DEF Rank, I, J

\* The positions of S can be put in their order.
LEMMA AscendingExists ==
  ASSUME NEW n \in Nat, NEW S \in SUBSET (1 .. n)
  PROVE  \E at \in SetToSeqs(S) : \A i, j \in DOMAIN at : i < j => at[i] < at[j]
<1>. DEFINE m == Cardinality(S)
            f == [x \in S |-> Rank(S, x) + 1]
<1>1. m \in Nat /\ IsFiniteSet(S) /\ \A k \in S : k \in Int
  <2>1. Cardinality(S) \in 0 .. n /\ IsFiniteSet(S)
    BY Positions
  <2>. QED  BY <2>1
<1>2. \A x, y \in S : x < y => f[x] < f[y]
  <2>. SUFFICES ASSUME NEW x \in S, NEW y \in S, x < y PROVE f[x] < f[y]
    OBVIOUS
  <2>1. Rank(S, x) < Rank(S, y)
    BY RankIsMonotone
  <2>2. Rank(S, x) \in Nat /\ Rank(S, y) \in Nat
    BY <1>1, FS_Subset, FS_CardinalityType DEF Rank
  <2>. QED  BY <2>1, <2>2
<1>3. \A x \in S : f[x] \in 1 .. m
  <2>. TAKE x \in S
  <2>1. { k \in S : k < x } \subseteq S /\ x \notin { k \in S : k < x }
    BY <1>1
  <2>2. Rank(S, x) \in Nat /\ Rank(S, x) <= m /\ Rank(S, x) # m
    BY <1>1, <2>1, FS_Subset, FS_CardinalityType DEF Rank
  <2>. QED  BY <1>1, <2>2
<1>4. IsFiniteSet(1 .. m) /\ Cardinality(1 .. m) = m
  BY <1>1, FS_Interval
<1>5. f \in [S -> 1 .. m]
  BY <1>3
<1>. HIDE DEF f
<1>6. \A x, y \in S : f[x] = f[y] => x = y
  <2>. SUFFICES ASSUME NEW x \in S, NEW y \in S, f[x] = f[y] PROVE x = y
    OBVIOUS
  <2>1. ~(x < y) /\ ~(y < x)
    BY <1>2, <1>5, <1>1
  <2>. QED  BY <2>1, <1>1
<1>7. f \in Injection(S, 1 .. m)
  BY <1>5, <1>6 DEF Injection, IsInjective
<1>8. f \in Surjection(S, 1 .. m)
  BY <1>1, <1>4, <1>7, FS_Injection
<1>9. \A j \in 1 .. m : \E x \in S : f[x] = j
  BY <1>8 DEF Surjection
<1>. DEFINE at == [j \in 1 .. m |-> CHOOSE x \in S : f[x] = j]
<1>10. \A j \in 1 .. m : at[j] \in S /\ f[at[j]] = j
  BY <1>9
<1>11. at \in [1 .. m -> S]
  BY <1>10
<1>. HIDE DEF at
<1>12. \A i, j \in 1 .. m : i # j => at[i] # at[j]
  BY <1>10
<1>13. \A i, j \in 1 .. m : i < j => at[i] < at[j]
  <2>. SUFFICES ASSUME NEW i \in 1 .. m, NEW j \in 1 .. m, i < j PROVE at[i] < at[j]
    OBVIOUS
  <2>1. at[i] \in S /\ at[j] \in S /\ f[at[i]] = i /\ f[at[j]] = j
    BY <1>10
  <2>2. at[j] < at[i] => j < i
    BY <1>2, <2>1
  <2>3. at[i] # at[j]
    BY <2>1
  <2>4. at[i] \in Int /\ at[j] \in Int
    BY <1>1, <2>1, Zenon
  <2>. QED  BY <2>2, <2>3, <2>4
<1>14. at \in SetToSeqs(S)
  BY <1>11, <1>12 DEF SetToSeqs
<1>15. DOMAIN at = 1 .. m
  BY <1>11
<1>16. \A i, j \in DOMAIN at : i < j => at[i] < at[j]
  BY <1>13, <1>15
<1>. QED  BY <1>14, <1>16

\* Ascending lists the positions of S, each once.
LEMMA AscendingLists ==
  ASSUME NEW n \in Nat, NEW S \in SUBSET (1 .. n)
  PROVE  /\ Cardinality(S) \in 0 .. n
         /\ Ascending(S) \in [1 .. Cardinality(S) -> S]
         /\ Ascending(S) \in Seq(S) /\ Len(Ascending(S)) = Cardinality(S)
         /\ Injective(Ascending(S))
         /\ \A x \in S : \E j \in 1 .. Cardinality(S) : Ascending(S)[j] = x
<1>. DEFINE m  == Cardinality(S)
            at == Ascending(S)
<1>1. m \in 0 .. n /\ IsFiniteSet(S) /\ IsFiniteSet(1 .. m) /\ Cardinality(1 .. m) = m
  <2>1. m \in 0 .. n /\ IsFiniteSet(S)
    BY Positions
  <2>2. m \in Nat
    BY <2>1
  <2>3. IsFiniteSet(1 .. m) /\ Cardinality(1 .. m) = m
    BY <2>2, FS_Interval
  <2>. QED  BY <2>1, <2>3
<1>2. at \in SetToSeqs(S)
  BY AscendingExists DEF Ascending
<1>. HIDE DEF at
<1>3. at \in [1 .. m -> S] /\ \A i, j \in 1 .. m : i # j => at[i] # at[j]
  BY <1>2 DEF SetToSeqs
<1>4. at \in Injection(1 .. m, S)
  BY <1>3 DEF Injection, IsInjective
<1>5. at \in Surjection(1 .. m, S)
  BY <1>1, <1>4, FS_Injection
<1>6. \A x \in S : \E j \in 1 .. m : at[j] = x
  BY <1>5 DEF Surjection
<1>7. m \in Nat
  BY <1>1
<1>8. at \in Seq(S) /\ Len(at) = m
  BY <1>3, <1>7, IsASeq, LenProperties
<1>9. Injective(at)
  BY <1>3 DEF Injective
<1>. QED  BY <1>1, <1>3, <1>6, <1>8, <1>9 DEF at

\* Picked takes the elements at the positions of S, each once.
LEMMA PickedLists ==
  ASSUME NEW T, NEW s \in Seq(T), NEW S \in SUBSET DOMAIN s
  PROVE  /\ Picked(s, S) \in Seq(T) /\ Len(Picked(s, S)) = Cardinality(S)
         /\ Cardinality(S) \in 0 .. Len(s)
         /\ \A j \in 1 .. Cardinality(S) : Ascending(S)[j] \in S /\ Picked(s, S)[j] = s[Ascending(S)[j]]
<1>. DEFINE m  == Cardinality(S)
            at == Ascending(S)
<1>1. Len(s) \in Nat /\ DOMAIN s = 1 .. Len(s) /\ \A i \in 1 .. Len(s) : s[i] \in T
  OBVIOUS
<1>2. m \in 0 .. Len(s) /\ at \in [1 .. m -> S]
  BY <1>1, AscendingLists
<1>3. m \in Nat /\ DOMAIN at = 1 .. m /\ \A j \in 1 .. m : at[j] \in S
  BY <1>1, <1>2
<1>4. Picked(s, S) = [j \in 1 .. m |-> s[at[j]]]
  BY <1>3 DEF Picked
<1>. HIDE DEF at, m
<1>5. [j \in 1 .. m |-> s[at[j]]] \in [1 .. m -> T]
  BY <1>1, <1>3
<1>6. Picked(s, S) \in Seq(T) /\ Len(Picked(s, S)) = m
  BY <1>3, <1>4, <1>5
<1>7. \A j \in 1 .. m : Picked(s, S)[j] = s[at[j]]
  BY <1>4
<1>. QED  BY <1>2, <1>3, <1>6, <1>7 DEF at, m

-----------------------------------------------------------------------------
(* Concatenations                                                          *)

\* What two sequences hold, one after the other.
LEMMA ConcatLists ==
  ASSUME NEW B, NEW F \in Seq(B), NEW u \in Seq(B)
  PROVE  /\ F \o u \in Seq(B) /\ Len(F \o u) = Len(F) + Len(u)
         /\ \A b : b \in ToSet(F \o u) <=> b \in ToSet(F) \/ b \in ToSet(u)
         /\ Injective(F) /\ Injective(u) /\ ToSet(F) \cap ToSet(u) = {} => Injective(F \o u)
<1>. DEFINE G == F \o u
<1>1. /\ G \in Seq(B) /\ Len(G) = Len(F) + Len(u)
      /\ Len(F) \in Nat /\ Len(u) \in Nat
      /\ DOMAIN F = 1 .. Len(F) /\ DOMAIN u = 1 .. Len(u) /\ DOMAIN G = 1 .. Len(F) + Len(u)
      /\ \A i \in 1 .. Len(F) : G[i] = F[i]
      /\ \A i \in 1 .. Len(u) : G[Len(F) + i] = u[i]
  OBVIOUS
<1>. HIDE DEF G
<1>2. \A i \in DOMAIN G : i \in 1 .. Len(F) \/ (i - Len(F) \in 1 .. Len(u) /\ i = Len(F) + (i - Len(F)))
  BY <1>1
<1>3. \A b : b \in ToSet(G) <=> b \in ToSet(F) \/ b \in ToSet(u)
  <2>. SUFFICES ASSUME NEW b PROVE b \in ToSet(G) <=> b \in ToSet(F) \/ b \in ToSet(u)
    OBVIOUS
  <2>1. ASSUME b \in ToSet(G) PROVE b \in ToSet(F) \/ b \in ToSet(u)
    <3>1. PICK i \in DOMAIN G : G[i] = b
      BY <2>1 DEF ToSet
    <3>. QED  BY <1>1, <1>2, <3>1 DEF ToSet
  <2>2. ASSUME b \in ToSet(F) PROVE b \in ToSet(G)
    <3>1. PICK i \in DOMAIN F : F[i] = b
      BY <2>2 DEF ToSet
    <3>2. i \in DOMAIN G /\ G[i] = b
      BY <1>1, <3>1
    <3>. QED  BY <3>2 DEF ToSet
  <2>3. ASSUME b \in ToSet(u) PROVE b \in ToSet(G)
    <3>1. PICK i \in DOMAIN u : u[i] = b
      BY <2>3 DEF ToSet
    <3>2. Len(F) + i \in DOMAIN G /\ G[Len(F) + i] = b
      BY <1>1, <3>1
    <3>. QED  BY <3>2 DEF ToSet
  <2>. QED  BY <2>1, <2>2, <2>3
<1>4. Injective(F) /\ Injective(u) /\ ToSet(F) \cap ToSet(u) = {} => Injective(G)
  <2>. SUFFICES ASSUME Injective(F), Injective(u), ToSet(F) \cap ToSet(u) = {},
                   NEW i \in DOMAIN G, NEW j \in DOMAIN G, G[i] = G[j] PROVE i = j
    BY DEF Injective
  <2>3. \A x \in 1 .. Len(F), y \in 1 .. Len(u) : F[x] # u[y]
    <3>1. \A x \in 1 .. Len(F) : F[x] \in ToSet(F)
      BY <1>1 DEF ToSet
    <3>2. \A y \in 1 .. Len(u) : u[y] \in ToSet(u)
      BY <1>1 DEF ToSet
    <3>. QED  BY <3>1, <3>2
  <2>4. \A x, y \in 1 .. Len(F) : F[x] = F[y] => x = y
    BY <1>1 DEF Injective
  <2>5. \A x, y \in 1 .. Len(u) : u[x] = u[y] => x = y
    BY <1>1 DEF Injective
  <2>6. CASE i \in 1 .. Len(F) /\ j \in 1 .. Len(F)
    BY <1>1, <2>4, <2>6
  <2>7. CASE i \in 1 .. Len(F) /\ j \notin 1 .. Len(F)
    BY <1>1, <1>2, <2>3, <2>7
  <2>8. CASE i \notin 1 .. Len(F) /\ j \in 1 .. Len(F)
    BY <1>1, <1>2, <2>3, <2>8
  <2>9. CASE i \notin 1 .. Len(F) /\ j \notin 1 .. Len(F)
    <3>1. i - Len(F) \in 1 .. Len(u) /\ i = Len(F) + (i - Len(F))
          /\ j - Len(F) \in 1 .. Len(u) /\ j = Len(F) + (j - Len(F))
      BY <1>2, <2>9
    <3>2. u[i - Len(F)] = u[j - Len(F)]
      BY <1>1, <3>1
    <3>3. i - Len(F) = j - Len(F)
      BY <2>5, <3>1, <3>2
    <3>. QED  BY <1>1, <3>1, <3>3
  <2>. QED  BY <2>6, <2>7, <2>8, <2>9
<1>. QED  BY <1>1, <1>3, <1>4 DEF G

\* f is the table of the concatenations of the first sequences of t.
IsFlattening(f, t) ==
  f = [i \in 1 .. Len(t) |-> IF i = 1 THEN t[i] ELSE f[i - 1] \o t[i]]

\* The recursion of FlattenSeq defines a function.
LEMMA FlatteningExists ==
  ASSUME NEW B, NEW t \in Seq(Seq(B))
  PROVE  \E f : IsFlattening(f, t)
<1>. DEFINE IsPart(f, n) == f = [i \in 1 .. n |-> IF i = 1 THEN t[i] ELSE f[i - 1] \o t[i]]
            T == { n \in Nat : \E f : IsPart(f, n) }
<1>1. 0 \in T
  <2>1. IsPart([i \in 1 .. 0 |-> t[i]], 0)
    OBVIOUS
  <2>. QED  BY <2>1
<1>2. \A n \in Nat : n \in T => n + 1 \in T
  <2>. SUFFICES ASSUME NEW n \in Nat, n \in T PROVE n + 1 \in T
    OBVIOUS
  <2>1. PICK f : IsPart(f, n)
    OBVIOUS
  <2>. DEFINE g == [i \in 1 .. n + 1 |-> IF i <= n THEN f[i] ELSE IF i = 1 THEN t[i] ELSE f[i - 1] \o t[i]]
              h == [i \in 1 .. n + 1 |-> IF i = 1 THEN t[i] ELSE g[i - 1] \o t[i]]
  <2>2. \A i \in 1 .. n : f[i] = IF i = 1 THEN t[i] ELSE f[i - 1] \o t[i]
    BY <2>1
  <2>3. \A i \in 1 .. n + 1 : i # 1 => i - 1 \in 1 .. n
    OBVIOUS
  <2>4. \A i \in 1 .. n : g[i] = f[i]
    OBVIOUS
  <2>5. \A i \in 1 .. n + 1 : g[i] = h[i]
    <3>. SUFFICES ASSUME NEW i \in 1 .. n + 1 PROVE g[i] = h[i]
      OBVIOUS
    <3>1. CASE i = 1
      BY <2>2, <2>4, <3>1
    <3>2. CASE i # 1 /\ i <= n
      <4>0. i \in 1 .. n /\ i - 1 \in 1 .. n
        BY <2>3, <3>2
      <4>1. g[i] = f[i] /\ g[i - 1] = f[i - 1]
        BY <2>4, <4>0
      <4>2. h[i] = g[i - 1] \o t[i]
        BY <3>2
      <4>3. f[i] = f[i - 1] \o t[i]
        BY <2>2, <3>2, <4>0
      <4>. HIDE DEF g, h
      <4>. QED  BY <4>1, <4>2, <4>3
    <3>3. CASE i # 1 /\ ~(i <= n)
      <4>1. g[i] = f[i - 1] \o t[i] /\ g[i - 1] = f[i - 1]
        BY <2>3, <2>4, <3>3
      <4>2. h[i] = g[i - 1] \o t[i]
        BY <3>3
      <4>. QED  BY <4>1, <4>2
    <3>. QED  BY <3>1, <3>2, <3>3
  <2>6. DOMAIN g = 1 .. n + 1 /\ DOMAIN h = 1 .. n + 1
    OBVIOUS
  <2>7. g = [i \in 1 .. n + 1 |-> g[i]] /\ h = [i \in 1 .. n + 1 |-> h[i]]
    OBVIOUS
  <2>. HIDE DEF g
  <2>8. g = h
    <3>. HIDE DEF h
    <3>. QED  BY <2>5, <2>6, <2>7
  <2>9. IsPart(g, n + 1)
    BY <2>8
  <2>10. n + 1 \in Nat
    OBVIOUS
  <2>. HIDE DEF IsPart
  <2>. QED  BY <2>9, <2>10
<1>. HIDE DEF T
<1>3. Len(t) \in T
  BY <1>1, <1>2, Induction
<1>. QED  BY <1>3 DEF IsFlattening, T

\* What a concatenation holds.
LEMMA FlattenLists ==
  ASSUME NEW B, NEW t \in Seq(Seq(B))
  PROVE  /\ FlattenSeq(t) \in Seq(B)
         /\ \A b : b \in ToSet(FlattenSeq(t)) <=> \E k \in DOMAIN t : b \in ToSet(t[k])
         /\ \A k \in DOMAIN t : Len(t[k]) <= Len(FlattenSeq(t))
         /\ Len(t) = 1 => FlattenSeq(t) = t[1]
         /\ (/\ \A k \in DOMAIN t : Injective(t[k])
             /\ \A k, l \in DOMAIN t : k # l => ToSet(t[k]) \cap ToSet(t[l]) = {})
            => Injective(FlattenSeq(t))
<1>1. Len(t) \in Nat /\ DOMAIN t = 1 .. Len(t)
  OBVIOUS
<1>2. CASE Len(t) = 0
  <2>1. FlattenSeq(t) = t /\ t = << >>
    BY <1>2, EmptySeq DEF FlattenSeq
  <2>2. t \in Seq(B) /\ DOMAIN t = {}
    BY <2>1
  <2>3. Injective(t) /\ ToSet(t) = {}
    BY <2>2 DEF Injective, ToSet
  <2>. QED  BY <1>2, <2>1, <2>2, <2>3
<1>3. CASE Len(t) # 0
  <2>. DEFINE f == CHOOSE g : IsFlattening(g, t)
  <2>1. IsFlattening(f, t)
    BY FlatteningExists
  <2>2. FlattenSeq(t) = f[Len(t)]
    BY <1>3 DEF FlattenSeq, IsFlattening
  <2>. HIDE DEF f
  <2>3. \A i \in 1 .. Len(t) : f[i] = IF i = 1 THEN t[i] ELSE f[i - 1] \o t[i]
    BY <2>1 DEF IsFlattening
  <2>. DEFINE Disjoint == /\ \A k \in DOMAIN t : Injective(t[k])
                          /\ \A k, l \in DOMAIN t : k # l => ToSet(t[k]) \cap ToSet(t[l]) = {}
              Right(n) == /\ f[n] \in Seq(B)
                          /\ \A b : b \in ToSet(f[n]) <=> \E k \in 1 .. n : b \in ToSet(t[k])
                          /\ \A k \in 1 .. n : Len(t[k]) <= Len(f[n])
                          /\ Disjoint => Injective(f[n])
              T == { n \in Nat : n + 1 <= Len(t) => Right(n + 1) }
  <2>4. 0 \in T
    <3>1. f[1] = t[1] /\ 1 \in DOMAIN t /\ t[1] \in Seq(B)
      BY <1>1, <1>3, <2>3
    <3>2. \A k \in 1 .. 1 : k = 1
      OBVIOUS
    <3>3. 1 \in 1 .. 1 /\ Len(t[1]) \in Nat
      BY <3>1
    <3>4. \A b : b \in ToSet(f[1]) <=> \E k \in 1 .. 1 : b \in ToSet(t[k])
      BY <3>1, <3>2, <3>3
    <3>5. \A k \in 1 .. 1 : Len(t[k]) <= Len(f[1])
      BY <3>1, <3>2, <3>3
    <3>6. Disjoint => Injective(f[1])
      BY <3>1
    <3>. HIDE DEF Disjoint
    <3>. QED  BY <3>1, <3>4, <3>5, <3>6
  <2>5. \A n \in Nat : n \in T => n + 1 \in T
    <3>. SUFFICES ASSUME NEW n \in Nat, n \in T, n + 2 <= Len(t) PROVE Right(n + 2)
      <4>. HIDE DEF Right
      <4>1. \A n \in Nat : (n + 1) + 1 = n + 2 /\ n + 1 \in Nat
        OBVIOUS
      <4>. QED  BY <4>1
    <3>1. Right(n + 1)
      <4>. HIDE DEF Right
      <4>1. n + 1 <= Len(t)
        BY <1>1
      <4>. QED  BY <4>1
    <3>. DEFINE F == f[n + 1]
                G == f[n + 2]
                u == t[n + 2]
    <3>2. n + 2 \in 1 .. Len(t) /\ n + 2 # 1 /\ (n + 2) - 1 = n + 1
      BY <1>1
    <3>3. G = F \o u /\ u \in Seq(B) /\ F \in Seq(B)
      <4>1. f[n + 2] = IF n + 2 = 1 THEN t[n + 2] ELSE f[(n + 2) - 1] \o t[n + 2]
        BY <2>3, <3>2
      <4>2. G = F \o u
        BY <3>2, <4>1
      <4>3. u \in Seq(B)
        BY <1>1, <3>2
      <4>. QED  BY <3>1, <4>2, <4>3
    <3>. HIDE DEF F, G, u
    <3>4. /\ G \in Seq(B) /\ Len(G) = Len(F) + Len(u) /\ Len(F) \in Nat /\ Len(u) \in Nat
      BY <3>3
    <3>6. \A b : b \in ToSet(G) <=> b \in ToSet(F) \/ b \in ToSet(u)
      BY <3>3, ConcatLists
    <3>7. \A b : b \in ToSet(G) <=> \E k \in 1 .. n + 2 : b \in ToSet(t[k])
      <4>1. \A b : b \in ToSet(F) <=> \E k \in 1 .. n + 1 : b \in ToSet(t[k])
        BY <3>1 DEF F
      <4>2. \A k \in 1 .. n + 2 : k \in 1 .. n + 1 \/ k = n + 2
        OBVIOUS
      <4>3. \A k \in 1 .. n + 1 : k \in 1 .. n + 2
        OBVIOUS
      <4>4. n + 2 \in 1 .. n + 2
        OBVIOUS
      <4>. HIDE DEF Right
      <4>. QED  BY <3>6, <4>1, <4>2, <4>3, <4>4, Zenon DEF u
    <3>8. \A k \in 1 .. n + 2 : Len(t[k]) <= Len(G)
      <4>1. \A k \in 1 .. n + 1 : Len(t[k]) <= Len(F) /\ Len(t[k]) \in Nat
        <5>1. \A k \in 1 .. n + 1 : t[k] \in Seq(B)
          BY <1>1
        <5>. QED  BY <3>1, <5>1 DEF F
      <4>. SUFFICES ASSUME NEW k \in 1 .. n + 2 PROVE Len(t[k]) <= Len(G)
        OBVIOUS
      <4>2. CASE k = n + 2
        BY <3>4, <4>2 DEF u
      <4>3. CASE k \in 1 .. n + 1
        BY <3>4, <4>1, <4>3
      <4>. QED  BY <4>2, <4>3
    <3>9. Disjoint => Injective(G)
      <4>. SUFFICES ASSUME Disjoint PROVE Injective(G)
        OBVIOUS
      <4>1. Injective(F) /\ Injective(u)
        BY <1>1, <3>1, <3>2 DEF F, u
      <4>2. ToSet(F) \cap ToSet(u) = {}
        <5>1. \A k \in 1 .. n + 1 : ToSet(t[k]) \cap ToSet(u) = {}
          <6>1. \A k \in 1 .. n + 1 : k \in DOMAIN t /\ k # n + 2
            BY <1>1
          <6>2. n + 2 \in DOMAIN t
            BY <1>1, <3>2
          <6>. QED  BY <6>1, <6>2, Zenon DEF u
        <5>2. \A b : b \in ToSet(F) <=> \E k \in 1 .. n + 1 : b \in ToSet(t[k])
          BY <3>1 DEF F
        <5>. QED  BY <5>1, <5>2
      <4>. QED  BY <3>3, <4>1, <4>2, ConcatLists
    <3>. HIDE DEF Disjoint
    <3>. QED  BY <3>4, <3>7, <3>8, <3>9 DEF G
  <2>. HIDE DEF T
  <2>6. Len(t) - 1 \in Nat
    BY <1>1, <1>3
  <2>7. Len(t) - 1 \in T
    BY <2>4, <2>5, <2>6, Induction
  <2>8. Right(Len(t))
    <3>. HIDE DEF Right
    <3>1. (Len(t) - 1) + 1 = Len(t) /\ Len(t) <= Len(t)
      BY <1>1
    <3>. QED  BY <2>7, <3>1 DEF T
  <2>9. Len(t) = 1 => f[Len(t)] = t[1]
    BY <2>3
  <2>. HIDE DEF Disjoint
  <2>10. Disjoint => Injective(f[Len(t)])
    BY <2>8
  <2>. QED  BY <1>1, <2>2, <2>8, <2>9, <2>10 DEF Disjoint
<1>. QED  BY <1>2, <1>3

-----------------------------------------------------------------------------
(* The tokens of the next forward pass                                     *)

\* The fields of a row and of a context.
LEMMA RowFields ==
  ASSUME NEW w \in RowType
  PROVE  /\ w.id \in Requests /\ w.offset \in Nat /\ w.query \in Nat /\ w.out \in Nat
         /\ w.blocks \in Seq(Blocks) /\ w.last \in 0 .. BlockSize - 1
  BY DEF RowType

\* The fields of a context.
LEMMA ContextFields ==
  ASSUME NEW c \in ContextType
  PROVE  /\ c.free \in Seq(Blocks) /\ c.rows \in Seq(RowType) /\ c.paused \in Nat
         /\ c.chunk \in Requests \cup {None}
  BY DEF ContextType

\* f is the table of the sums of the queries of some of the rows.
IsQueries(f, rows) ==
  f = [s \in SUBSET DOMAIN rows |->
         IF s = {} THEN 0
         ELSE rows[CHOOSE x \in s : TRUE].query + f[s \ {CHOOSE x \in s : TRUE}]]

\* An element is chosen of a set that has one, and one fewer remains.
LEMMA ChosenElement ==
  ASSUME NEW n \in Nat, NEW s \in SUBSET (1 .. n), s # {}
  PROVE  /\ (CHOOSE x \in s : TRUE) \in s
         /\ s \ {CHOOSE x \in s : TRUE} \in SUBSET (1 .. n)
         /\ Cardinality(s) \in Nat \ {0}
         /\ Cardinality(s \ {CHOOSE x \in s : TRUE}) = Cardinality(s) - 1
<1>. DEFINE x == CHOOSE y \in s : TRUE
<1>1. x \in s
  OBVIOUS
<1>. HIDE DEF x
<1>2. IsFiniteSet(s) /\ Cardinality(s) \in Nat
  <2>1. IsFiniteSet(s) /\ Cardinality(s) \in 0 .. n
    BY Positions
  <2>. QED  BY <2>1
<1>3. Cardinality(s) # 0
  BY <1>1, <1>2, FS_EmptySet
<1>4. Cardinality(s \ {x}) = Cardinality(s) - 1
  BY <1>1, <1>2, FS_RemoveElement
<1>5. s \ {x} \in SUBSET (1 .. n)
  OBVIOUS
<1>. QED  BY <1>1, <1>2, <1>3, <1>4, <1>5 DEF x

\* The recursion of the fold defines a function, of natural numbers.
LEMMA QueriesExist ==
  ASSUME NEW rows \in Seq(RowType)
  PROVE  \E f : IsQueries(f, rows)
<1>. DEFINE D == DOMAIN rows
            C(s) == CHOOSE x \in s : TRUE
            Eq(f, s) == f[s] = IF s = {} THEN 0 ELSE rows[C(s)].query + f[s \ {C(s)}]
            Part(f, n) == \A s \in SUBSET D : Cardinality(s) <= n => Eq(f, s)
            T == { n \in Nat : \E f \in [SUBSET D -> Nat] : Part(f, n) }
<1>1. Len(rows) \in Nat /\ D = 1 .. Len(rows) /\ \A i \in D : rows[i].query \in Nat
  <2>1. Len(rows) \in Nat /\ DOMAIN rows = 1 .. Len(rows) /\ \A i \in 1 .. Len(rows) : rows[i] \in RowType
    BY LenProperties, ElementOfSeq
  <2>. QED  BY <2>1, RowFields
<1>. HIDE DEF D
<1>2. \A s \in SUBSET D : Cardinality(s) \in Nat /\ (Cardinality(s) = 0 => s = {})
  <2>. SUFFICES ASSUME NEW s \in SUBSET D PROVE Cardinality(s) \in Nat /\ (Cardinality(s) = 0 => s = {})
    OBVIOUS
  <2>1. IsFiniteSet(s) /\ Cardinality(s) \in 0 .. Len(rows)
    BY <1>1, Positions
  <2>. QED  BY <2>1, FS_EmptySet
<1>3. \A s \in SUBSET D : s # {} =>
        /\ C(s) \in D /\ s \ {C(s)} \in SUBSET D
        /\ Cardinality(s \ {C(s)}) = Cardinality(s) - 1
  BY <1>1, ChosenElement
<1>. HIDE DEF C
<1>4. 0 \in T
  <2>. DEFINE f == [s \in SUBSET D |-> 0]
  <2>1. f \in [SUBSET D -> Nat]
    OBVIOUS
  <2>2. Part(f, 0)
    BY <1>2
  <2>. QED  BY <2>1, <2>2
<1>5. \A n \in Nat : n \in T => n + 1 \in T
  <2>. SUFFICES ASSUME NEW n \in Nat, n \in T PROVE n + 1 \in T
    OBVIOUS
  <2>1. PICK f \in [SUBSET D -> Nat] : Part(f, n)
    OBVIOUS
  <2>. DEFINE g == [s \in SUBSET D |-> IF s = {} THEN 0 ELSE rows[C(s)].query + f[s \ {C(s)}]]
  <2>2. g \in [SUBSET D -> Nat]
    <3>1. \A s \in SUBSET D : s # {} => rows[C(s)].query + f[s \ {C(s)}] \in Nat
      <4>. SUFFICES ASSUME NEW s \in SUBSET D, s # {} PROVE rows[C(s)].query + f[s \ {C(s)}] \in Nat
        OBVIOUS
      <4>1. rows[C(s)].query \in Nat /\ f[s \ {C(s)}] \in Nat
        BY <1>1, <1>3
      <4>. QED  BY <4>1
    <3>. QED  BY <3>1
  <2>3. \A s \in SUBSET D : Cardinality(s) <= n => g[s] = f[s]
    BY <2>1
  <2>4. Part(g, n + 1)
    <3>. SUFFICES ASSUME NEW s \in SUBSET D, Cardinality(s) <= n + 1 PROVE Eq(g, s)
      OBVIOUS
    <3>1. CASE s = {}
      BY <3>1
    <3>2. CASE s # {}
      <4>0. /\ s \ {C(s)} \in SUBSET D /\ Cardinality(s) \in Nat
            /\ Cardinality(s \ {C(s)}) = Cardinality(s) - 1
        BY <1>2, <1>3, <3>2
      <4>1. s \ {C(s)} \in SUBSET D /\ Cardinality(s \ {C(s)}) <= n
        BY <4>0
      <4>2. g[s \ {C(s)}] = f[s \ {C(s)}]
        BY <2>3, <4>1
      <4>3. g[s] = rows[C(s)].query + f[s \ {C(s)}]
        BY <3>2
      <4>. HIDE DEF g
      <4>. QED  BY <3>2, <4>2, <4>3
    <3>. QED  BY <3>1, <3>2
  <2>. HIDE DEF g, Part
  <2>5. n + 1 \in Nat
    OBVIOUS
  <2>. QED  BY <2>2, <2>4, <2>5
<1>. HIDE DEF T
<1>6. Len(rows) \in T
  BY <1>1, <1>4, <1>5, Induction
<1>7. PICK f \in [SUBSET D -> Nat] : Part(f, Len(rows))
  BY <1>6 DEF T
<1>8. \A s \in SUBSET D : Cardinality(s) <= Len(rows)
  <2>. SUFFICES ASSUME NEW s \in SUBSET D PROVE Cardinality(s) <= Len(rows)
    OBVIOUS
  <2>1. Cardinality(s) \in 0 .. Len(rows)
    BY <1>1, Positions
  <2>. QED  BY <2>1
<1>9. \A s \in SUBSET D : f[s] = IF s = {} THEN 0 ELSE rows[C(s)].query + f[s \ {C(s)}]
  BY <1>7, <1>8
<1>10. f = [s \in SUBSET D |-> IF s = {} THEN 0 ELSE rows[C(s)].query + f[s \ {C(s)}]]
  BY <1>9
<1>. QED  BY <1>10 DEF IsQueries, D, C

\* active_token_count is a natural number.
LEMMA ActiveTokensType ==
  ASSUME NEW c, ActiveRows(c) \in Seq(RowType)
  PROVE  ActiveTokens(c) \in Nat
<1>. DEFINE rows == ActiveRows(c)
            D == DOMAIN rows
            f == CHOOSE g : IsQueries(g, rows)
<1>1. Len(rows) \in Nat /\ D = 1 .. Len(rows) /\ \A i \in D : rows[i].query \in Nat
  <2>1. Len(rows) \in Nat /\ DOMAIN rows = 1 .. Len(rows) /\ \A i \in 1 .. Len(rows) : rows[i] \in RowType
    BY LenProperties, ElementOfSeq
  <2>. QED  BY <2>1, RowFields
<1>2. ActiveTokens(c) = f[D]
  BY DEF ActiveTokens, FoldSeq, FoldFunction, FoldFunctionOnSet, MapThenFoldSet, IsQueries
<1>3. IsQueries(f, rows)
  BY QueriesExist
<1>. HIDE DEF f, rows
<1>4. \A s \in SUBSET D :
        f[s] = IF s = {} THEN 0
               ELSE rows[CHOOSE x \in s : TRUE].query + f[s \ {CHOOSE x \in s : TRUE}]
  BY <1>3 DEF IsQueries
<1>. DEFINE T == { n \in Nat : \A s \in SUBSET D : Cardinality(s) = n => f[s] \in Nat }
<1>5. 0 \in T
  <2>. SUFFICES ASSUME NEW s \in SUBSET D, Cardinality(s) = 0 PROVE f[s] \in Nat
    OBVIOUS
  <2>1. s = {}
    BY <1>1, ChosenElement
  <2>. QED  BY <1>4, <2>1
<1>6. \A n \in Nat : n \in T => n + 1 \in T
  <2>. SUFFICES ASSUME NEW n \in Nat, n \in T, NEW s \in SUBSET D, Cardinality(s) = n + 1
                PROVE  f[s] \in Nat
    OBVIOUS
  <2>1. s # {}
    <3>1. Cardinality({}) = 0 /\ n + 1 # 0
      BY FS_EmptySet
    <3>. HIDE DEF T
    <3>. QED  BY <3>1
  <2>. DEFINE x == CHOOSE y \in s : TRUE
  <2>2. x \in D /\ s \ {x} \in SUBSET D /\ Cardinality(s \ {x}) = n
    <3>1. x \in s /\ s \ {x} \in SUBSET D /\ Cardinality(s \ {x}) = Cardinality(s) - 1
      BY <1>1, <2>1, ChosenElement
    <3>. QED  BY <3>1
  <2>3. f[s] = rows[x].query + f[s \ {x}]
    BY <1>4, <2>1
  <2>. HIDE DEF x
  <2>4. f[s \ {x}] \in Nat
    BY <2>2
  <2>. QED  BY <1>1, <2>2, <2>3, <2>4
<1>. HIDE DEF T
<1>7. Len(rows) \in T
  BY <1>1, <1>5, <1>6, Induction
<1>8. Cardinality(D) = Len(rows)
  BY <1>1, Positions
<1>. QED  BY <1>2, <1>7, <1>8 DEF T

-----------------------------------------------------------------------------
(* Rows that change places                                                 *)

\* t has the elements of s at the positions p, each once.
Selects(p, s, t) ==
  /\ t = [j \in 1 .. Len(t) |-> s[p[j]]]
  /\ p \in [1 .. Len(t) -> DOMAIN s]
  /\ \A i, j \in 1 .. Len(t) : p[i] = p[j] => i = j

\* Every position of s is one of p.
Onto(p, s) == \A x \in DOMAIN s : \E j \in DOMAIN p : p[j] = x

\* p is what Exchange does with the positions of s.
Swaps(p, s, left, right) ==
  /\ Selects(p, s, Exchange(s, left, right)) /\ Onto(p, s)
  /\ \A j \in 1 .. Len(left) : p[left[j]] = right[j] /\ p[right[j]] = left[j]
  /\ \A i \in DOMAIN s : i \notin ToSet(left) \cup ToSet(right) => p[i] = i

\* Exchange lets the rows of left and right change places and no others.
LEMMA ExchangeSelects ==
  ASSUME NEW T, NEW s \in Seq(T), NEW left \in Seq(DOMAIN s), NEW right \in Seq(DOMAIN s),
         Len(left) = Len(right), Injective(left), Injective(right),
         \A j, k \in 1 .. Len(left) : left[j] = right[k] => j = k
  PROVE  /\ \E p : Swaps(p, s, left, right)
         /\ Exchange(s, left, right) \in Seq(T) /\ Len(Exchange(s, left, right)) = Len(s)
<1>. DEFINE D == DOMAIN s
            m == Len(left)
            Partner(i) == IF i \in ToSet(left) THEN right[CHOOSE j \in DOMAIN left : left[j] = i]
                          ELSE IF i \in ToSet(right) THEN left[CHOOSE j \in DOMAIN right : right[j] = i]
                          ELSE i
            p == [i \in D |-> Partner(i)]
            t == Exchange(s, left, right)
<1>1. /\ Len(s) \in Nat /\ D = 1 .. Len(s) /\ \A i \in D : s[i] \in T
      /\ m \in Nat /\ DOMAIN left = 1 .. m /\ DOMAIN right = 1 .. m
      /\ \A j \in 1 .. m : left[j] \in D /\ right[j] \in D
  OBVIOUS
<1>2. t = [i \in D |-> s[p[i]]]
  BY DEF Exchange
<1>3. \A i : i \in ToSet(left) <=> \E j \in 1 .. m : left[j] = i
  BY <1>1 DEF ToSet
<1>4. \A i : i \in ToSet(right) <=> \E j \in 1 .. m : right[j] = i
  BY <1>1 DEF ToSet
<1>5. \A j, k \in 1 .. m : (left[j] = left[k] => j = k) /\ (right[j] = right[k] => j = k)
  BY <1>1 DEF Injective
<1>6. \A j \in 1 .. m : Partner(left[j]) = right[j]
  <2>. TAKE j \in 1 .. m
  <2>1. left[j] \in ToSet(left)
    BY <1>3
  <2>2. (CHOOSE k \in 1 .. m : left[k] = left[j]) = j
    BY <1>5
  <2>. QED  BY <1>1, <2>1, <2>2
<1>7. \A j \in 1 .. m : Partner(right[j]) = left[j]
  <2>. TAKE j \in 1 .. m
  <2>1. right[j] \in ToSet(right)
    BY <1>4
  <2>2. CASE right[j] \in ToSet(left)
    <3>1. PICK k \in 1 .. m : left[k] = right[j]
      BY <1>3, <2>2
    <3>2. k = j
      BY <3>1
    <3>. HIDE DEF Partner
    <3>. QED  BY <1>6, <3>1, <3>2
  <2>3. CASE right[j] \notin ToSet(left)
    <3>1. (CHOOSE k \in 1 .. m : right[k] = right[j]) = j
      BY <1>5
    <3>. QED  BY <1>1, <2>1, <2>3, <3>1
  <2>. QED  BY <2>2, <2>3
<1>8. \A i \in D : i \notin ToSet(left) \cup ToSet(right) => Partner(i) = i
  OBVIOUS
<1>. HIDE DEF Partner, D, m
<1>9. \A i \in D : Partner(i) \in D /\ Partner(Partner(i)) = i
  <2>. SUFFICES ASSUME NEW i \in D PROVE Partner(i) \in D /\ Partner(Partner(i)) = i
    OBVIOUS
  <2>1. CASE i \in ToSet(left)
    BY <1>1, <1>3, <1>6, <1>7, <2>1
  <2>2. CASE i \in ToSet(right)
    BY <1>1, <1>4, <1>6, <1>7, <2>2
  <2>3. CASE i \notin ToSet(left) \cup ToSet(right)
    BY <1>8, <2>3
  <2>. QED  BY <2>1, <2>2, <2>3
<1>10. p \in [D -> D] /\ \A i \in D : p[i] = Partner(i)
  BY <1>9
<1>. HIDE DEF p
<1>11. \A i, j \in D : p[i] = p[j] => i = j
  BY <1>9, <1>10
<1>12. \A x \in D : \E j \in D : p[j] = x
  BY <1>9, <1>10
<1>13. t \in [1 .. Len(s) -> T]
  BY <1>1, <1>2, <1>10
<1>14. t \in Seq(T) /\ Len(t) = Len(s)
  BY <1>1, <1>13
<1>15. Selects(p, s, t)
  BY <1>1, <1>2, <1>10, <1>11, <1>14 DEF Selects, D
<1>16. Onto(p, s)
  BY <1>10, <1>12 DEF Onto, D
<1>17. \A j \in 1 .. m : p[left[j]] = right[j] /\ p[right[j]] = left[j]
  BY <1>1, <1>6, <1>7, <1>10
<1>18. \A i \in D : i \notin ToSet(left) \cup ToSet(right) => p[i] = i
  BY <1>8, <1>10
<1>19. Swaps(p, s, left, right)
  BY <1>15, <1>16, <1>17, <1>18 DEF t, D, m, Swaps
<1>. QED  BY <1>14, <1>19 DEF t

\* p is what ToTheLeft does with the positions of s.
Gathers(p, s, S) ==
  /\ Selects(p, s, ToTheLeft(s, S)) /\ Onto(p, s)
  /\ \A i \in DOMAIN s : p[i] \in S <=> i <= Cardinality(S)

\* The elements of S, and they alone, are on the left.
LEMMA ToTheLeftSelects ==
  ASSUME NEW T, NEW s \in Seq(T), NEW S \in SUBSET DOMAIN s
  PROVE  /\ \E p : Gathers(p, s, S)
         /\ ToTheLeft(s, S) \in Seq(T) /\ Len(ToTheLeft(s, S)) = Len(s)
         /\ Cardinality(S) \in 0 .. Len(s)
<1>. DEFINE n == Len(s)
            k == Cardinality(S)
            front == 1 .. k
            left  == Ascending(front \ S)
            right == Ascending(S \ front)
<1>1. n \in Nat /\ DOMAIN s = 1 .. n
  OBVIOUS
<1>2. k \in 0 .. n /\ k \in Nat /\ IsFiniteSet(S)
  <2>1. k \in 0 .. n /\ IsFiniteSet(S)
    BY <1>1, Positions
  <2>. QED  BY <1>1, <2>1
<1>3. front \subseteq 1 .. n /\ IsFiniteSet(front) /\ Cardinality(front) = k
  <2>1. front \subseteq 1 .. n
    BY <1>1, <1>2
  <2>2. IsFiniteSet(front) /\ Cardinality(front) = k
    <3>. HIDE DEF k
    <3>1. 1 \in Int /\ k \in Int /\ ~(1 > k + 1)
      BY <1>2
    <3>2. IsFiniteSet(1 .. k) /\ Cardinality(1 .. k) = IF 1 > k THEN 0 ELSE k - 1 + 1
      BY <3>1, FS_Interval
    <3>. QED  BY <1>2, <3>2
  <2>. QED  BY <2>1, <2>2
<1>4. \A i \in 1 .. n : i \in front <=> i <= k
  BY <1>1, <1>2
<1>. HIDE DEF front, k
<1>5. Cardinality(front \ S) = Cardinality(S \ front)
  <2>1. Cardinality(front \ S) = Cardinality(front) - Cardinality(front \cap S)
    BY <1>3, FS_Difference
  <2>2. Cardinality(S \ front) = Cardinality(S) - Cardinality(S \cap front)
    BY <1>2, FS_Difference
  <2>3. front \cap S = S \cap front
    OBVIOUS
  <2>. QED  BY <1>3, <2>1, <2>2, <2>3 DEF k
<1>6. front \ S \in SUBSET (1 .. n) /\ S \ front \in SUBSET (1 .. n)
  BY <1>1, <1>3
<1>7. /\ left \in Seq(front \ S) /\ Len(left) = Cardinality(front \ S) /\ Injective(left)
      /\ \A x \in front \ S : \E j \in 1 .. Len(left) : left[j] = x
  BY <1>1, <1>6, AscendingLists
<1>8. /\ right \in Seq(S \ front) /\ Len(right) = Cardinality(S \ front) /\ Injective(right)
      /\ \A x \in S \ front : \E j \in 1 .. Len(right) : right[j] = x
  BY <1>1, <1>6, AscendingLists
<1>. HIDE DEF left, right
<1>9. Len(left) \in Nat /\ Len(left) = Len(right)
  BY <1>5, <1>7, <1>8
<1>10. \A j \in 1 .. Len(left) : left[j] \in front \ S /\ right[j] \in S \ front
  BY <1>7, <1>8, <1>9
<1>11. left \in Seq(DOMAIN s) /\ right \in Seq(DOMAIN s)
  BY <1>1, <1>6, <1>7, <1>8, SeqMonotonic
<1>12. \A j, l \in 1 .. Len(left) : left[j] = right[l] => j = l
  BY <1>10
<1>13. PICK p : Swaps(p, s, left, right)
  <2>1. Injective(left) /\ Injective(right)
    BY <1>7, <1>8
  <2>. QED  BY <1>9, <1>11, <1>12, <2>1, ExchangeSelects
<1>20. /\ Exchange(s, left, right) \in Seq(T) /\ Len(Exchange(s, left, right)) = Len(s)
  <2>1. Injective(left) /\ Injective(right)
    BY <1>7, <1>8
  <2>. QED  BY <1>9, <1>11, <1>12, <2>1, ExchangeSelects
<1>14. ToTheLeft(s, S) = Exchange(s, left, right)
  BY DEF ToTheLeft, left, right, front, k
<1>15. ToSet(left) \subseteq front \ S /\ ToSet(right) \subseteq S \ front
  BY <1>7, <1>8 DEF ToSet
<1>16. \A i \in 1 .. n : p[i] \in S <=> i \in front
  <2>. SUFFICES ASSUME NEW i \in 1 .. n PROVE p[i] \in S <=> i \in front
    OBVIOUS
  <2>1. CASE i \in front \ S
    <3>1. PICK j \in 1 .. Len(left) : left[j] = i
      BY <1>7, <2>1
    <3>2. p[i] = right[j] /\ right[j] \in S
      BY <1>10, <1>13, <3>1 DEF Swaps
    <3>. QED  BY <2>1, <3>2
  <2>2. CASE i \in S \ front
    <3>1. PICK j \in 1 .. Len(left) : right[j] = i
      BY <1>8, <1>9, <2>2
    <3>2. p[i] = left[j] /\ left[j] \notin S
      BY <1>10, <1>13, <3>1 DEF Swaps
    <3>. QED  BY <2>2, <3>2
  <2>3. CASE i \notin front \ S /\ i \notin S \ front
    <3>1. p[i] = i
      BY <1>1, <1>13, <1>15, <2>3 DEF Swaps
    <3>. QED  BY <2>3, <3>1
  <2>. QED  BY <2>1, <2>2, <2>3
<1>17. \A i \in DOMAIN s : p[i] \in S <=> i <= k
  BY <1>1, <1>4, <1>16
<1>18. Gathers(p, s, S)
  BY <1>13, <1>14, <1>17 DEF k, Gathers, Swaps
<1>. QED  BY <1>2, <1>20, <1>14, <1>18 DEF k

-----------------------------------------------------------------------------
(* Who owns the blocks                                                     *)

\* The blocks of some rows.
LEMMA BlocksOfLists ==
  ASSUME NEW rows \in Seq(RowType)
  PROVE  /\ BlocksOf(rows) \in Seq(Blocks)
         /\ \A b : b \in ToSet(BlocksOf(rows)) <=> \E i \in DOMAIN rows : b \in ToSet(rows[i].blocks)
         /\ \A i \in DOMAIN rows : Len(rows[i].blocks) <= Len(BlocksOf(rows))
         /\ Len(rows) = 1 => BlocksOf(rows) = rows[1].blocks
         /\ (\A i \in DOMAIN rows :
               /\ Injective(rows[i].blocks)
               /\ \A j \in DOMAIN rows \ {i} : ToSet(rows[i].blocks) \cap ToSet(rows[j].blocks) = {})
            => Injective(BlocksOf(rows))
<1>. DEFINE t == [i \in DOMAIN rows |-> rows[i].blocks]
<1>1. Len(rows) \in Nat /\ DOMAIN rows = 1 .. Len(rows) /\ \A i \in DOMAIN rows : rows[i] \in RowType
  BY LenProperties, ElementOfSeq
<1>2. \A i \in DOMAIN rows : t[i] = rows[i].blocks /\ t[i] \in Seq(Blocks)
  BY <1>1, RowFields
<1>3. t \in [1 .. Len(rows) -> Seq(Blocks)]
  BY <1>1, <1>2
<1>4. t \in Seq(Seq(Blocks)) /\ Len(t) = Len(rows) /\ DOMAIN t = DOMAIN rows
  BY <1>1, <1>3
<1>. HIDE DEF t
<1>5. BlocksOf(rows) = FlattenSeq(t)
  BY DEF BlocksOf, t
<1>6. FlattenSeq(t) \in Seq(Blocks)
  BY <1>4, FlattenLists
<1>7. \A b : b \in ToSet(FlattenSeq(t)) <=> \E k \in DOMAIN t : b \in ToSet(t[k])
  BY <1>4, FlattenLists
<1>8. \A k \in DOMAIN t : Len(t[k]) <= Len(FlattenSeq(t))
  BY <1>4, FlattenLists
<1>9. Len(t) = 1 => FlattenSeq(t) = t[1]
  BY <1>4, FlattenLists
<1>10. (/\ \A k \in DOMAIN t : Injective(t[k])
        /\ \A k, l \in DOMAIN t : k # l => ToSet(t[k]) \cap ToSet(t[l]) = {})
       => Injective(FlattenSeq(t))
  BY <1>4, FlattenLists
<1>11. Len(rows) = 1 => BlocksOf(rows) = rows[1].blocks
  BY <1>1, <1>2, <1>4, <1>5, <1>9
<1>12. \A b : b \in ToSet(BlocksOf(rows)) <=> \E i \in DOMAIN rows : b \in ToSet(rows[i].blocks)
  BY <1>2, <1>4, <1>5, <1>7
<1>13. \A i \in DOMAIN rows : Len(rows[i].blocks) <= Len(BlocksOf(rows))
  BY <1>2, <1>4, <1>5, <1>8
<1>14. (\A i \in DOMAIN rows :
          /\ Injective(rows[i].blocks)
          /\ \A j \in DOMAIN rows \ {i} : ToSet(rows[i].blocks) \cap ToSet(rows[j].blocks) = {})
       => Injective(BlocksOf(rows))
  <2>. SUFFICES ASSUME \A i \in DOMAIN rows :
                         /\ Injective(rows[i].blocks)
                         /\ \A j \in DOMAIN rows \ {i} :
                              ToSet(rows[i].blocks) \cap ToSet(rows[j].blocks) = {}
                PROVE  Injective(BlocksOf(rows))
    OBVIOUS
  <2>1. \A k \in DOMAIN t : Injective(t[k])
    BY <1>2, <1>4
  <2>2. \A k, l \in DOMAIN t : k # l => ToSet(t[k]) \cap ToSet(t[l]) = {}
    BY <1>2, <1>4
  <2>. QED  BY <1>5, <1>10, <2>1, <2>2
<1>. QED  BY <1>5, <1>6, <1>11, <1>12, <1>13, <1>14

\* No rows have no blocks.
LEMMA BlocksOfNone == BlocksOf(<< >>) = << >>
<1>1. [i \in DOMAIN << >> |-> << >>[i].blocks] = << >>
  OBVIOUS
<1>. QED  BY <1>1 DEF BlocksOf, FlattenSeq

\* The last n elements of a sequence.
LEMMA Suffix ==
  ASSUME NEW B, NEW s \in Seq(B), NEW n \in 0 .. Len(s)
  PROVE  LET top == SubSeq(s, Len(s) - n + 1, Len(s))
         IN  /\ top \in Seq(B) /\ Len(top) = n /\ DOMAIN top = 1 .. n
             /\ \A i \in 1 .. n : top[i] = s[Len(s) - n + i]
  OBVIOUS

\* The top of the stack and the rest of it.
LEMMA StackParts ==
  ASSUME NEW B, NEW s \in Seq(B), NEW n \in 0 .. Len(s), Injective(s)
  PROVE  LET top  == SubSeq(s, Len(s) - n + 1, Len(s))
             rest == SubSeq(s, 1, Len(s) - n)
         IN  /\ top \in Seq(B) /\ Len(top) = n /\ rest \in Seq(B)
             /\ Injective(top) /\ Injective(rest)
             /\ ToSet(top) \cap ToSet(rest) = {}
             /\ \A b : b \in ToSet(s) <=> b \in ToSet(top) \/ b \in ToSet(rest)
<1>. DEFINE top  == SubSeq(s, Len(s) - n + 1, Len(s))
            rest == SubSeq(s, 1, Len(s) - n)
            m    == Len(s) - n
<1>1. Len(s) \in Nat /\ n \in Nat /\ m \in Nat /\ m + n = Len(s) /\ DOMAIN s = 1 .. Len(s)
  OBVIOUS
<1>2. /\ top \in Seq(B) /\ Len(top) = n /\ DOMAIN top = 1 .. n
      /\ \A i \in 1 .. n : top[i] = s[m + i]
  OBVIOUS
<1>3. /\ rest \in Seq(B) /\ Len(rest) = m /\ DOMAIN rest = 1 .. m
      /\ \A i \in 1 .. m : rest[i] = s[i]
  OBVIOUS
<1>. HIDE DEF top, rest, m
<1>4. /\ \A i \in 1 .. n : m + i \in DOMAIN s
      /\ \A i \in 1 .. m : i \in DOMAIN s
  BY <1>1
<1>5. \A i, j \in DOMAIN s : s[i] = s[j] => i = j
  BY DEF Injective
<1>6. Injective(top)
  <2>. SUFFICES ASSUME NEW i \in 1 .. n, NEW j \in 1 .. n, top[i] = top[j] PROVE i = j
    BY <1>2 DEF Injective
  <2>1. m + i = m + j
    BY <1>2, <1>4, <1>5
  <2>. QED  BY <1>1, <2>1
<1>7. Injective(rest)
  BY <1>3, <1>4, <1>5 DEF Injective
<1>8. ToSet(top) \cap ToSet(rest) = {}
  <2>1. \A i \in 1 .. n, j \in 1 .. m : m + i # j
    BY <1>1
  <2>2. \A i \in 1 .. n, j \in 1 .. m : top[i] # rest[j]
    BY <1>2, <1>3, <1>4, <1>5, <2>1
  <2>. QED  BY <1>2, <1>3, <2>2 DEF ToSet
<1>9. \A b : b \in ToSet(s) <=> b \in ToSet(top) \/ b \in ToSet(rest)
  <2>. SUFFICES ASSUME NEW b PROVE b \in ToSet(s) <=> b \in ToSet(top) \/ b \in ToSet(rest)
    OBVIOUS
  <2>1. ASSUME b \in ToSet(s) PROVE b \in ToSet(top) \/ b \in ToSet(rest)
    <3>1. PICK i \in DOMAIN s : s[i] = b
      BY <2>1 DEF ToSet
    <3>2. CASE i <= m
      <4>1. i \in 1 .. m
        BY <1>1, <3>2
      <4>. QED  BY <1>3, <3>1, <4>1 DEF ToSet
    <3>3. CASE ~(i <= m)
      <4>1. i - m \in 1 .. n /\ m + (i - m) = i
        BY <1>1, <3>3
      <4>. QED  BY <1>2, <3>1, <4>1 DEF ToSet
    <3>. QED  BY <3>2, <3>3
  <2>2. ASSUME b \in ToSet(top) PROVE b \in ToSet(s)
    BY <1>2, <1>4, <2>2 DEF ToSet
  <2>3. ASSUME b \in ToSet(rest) PROVE b \in ToSet(s)
    BY <1>3, <1>4, <2>3 DEF ToSet
  <2>. QED  BY <2>1, <2>2, <2>3
<1>. QED  BY <1>2, <1>3, <1>6, <1>7, <1>8, <1>9 DEF top, rest

\* The rows of c at the positions p are kept, those at the positions g are gone,
\* and their blocks are free.
Releases(c, d, gone, p, g) ==
  /\ d.free = c.free \o BlocksOf(gone)
  /\ Selects(p, c.rows, d.rows)
  /\ Selects(g, c.rows, gone)
  /\ \A i \in DOMAIN d.rows, j \in DOMAIN gone : p[i] # g[j]
  /\ \A x \in DOMAIN c.rows : (\E i \in DOMAIN d.rows : p[i] = x) \/ (\E j \in DOMAIN gone : g[j] = x)

\* The blocks go where the rows go.
LEMMA Release ==
  ASSUME NEW c \in ContextType, NEW d \in ContextType, NEW gone \in Seq(RowType),
         NEW p, NEW g, Releases(c, d, gone, p, g), Owned(c)
  PROVE  Owned(d)
<1>. DEFINE B(w) == ToSet(w.blocks)
<1>1. /\ c.free \in Seq(Blocks) /\ d.free \in Seq(Blocks)
      /\ c.rows \in Seq(RowType) /\ d.rows \in Seq(RowType)
  BY ContextFields
<1>2. /\ DOMAIN d.rows = 1 .. Len(d.rows) /\ DOMAIN gone = 1 .. Len(gone)
  BY <1>1
<1>3. \A i \in DOMAIN d.rows : d.rows[i] = c.rows[p[i]] /\ p[i] \in DOMAIN c.rows
  BY <1>2 DEF Selects, Releases
<1>4. \A i \in DOMAIN gone : gone[i] = c.rows[g[i]] /\ g[i] \in DOMAIN c.rows
  BY <1>2 DEF Selects, Releases
<1>5. \A i, j \in DOMAIN d.rows : p[i] = p[j] => i = j
  BY <1>2 DEF Selects, Releases
<1>6. \A i, j \in DOMAIN gone : g[i] = g[j] => i = j
  BY <1>2 DEF Selects, Releases
<1>7. /\ \A i \in DOMAIN c.rows : Injective(c.rows[i].blocks) /\ B(c.rows[i]) \cap ToSet(c.free) = {}
      /\ \A i, j \in DOMAIN c.rows : i # j => B(c.rows[i]) \cap B(c.rows[j]) = {}
      /\ Injective(c.free)
  BY DEF Owned, FreeOwned, RowsOwned
<1>8. \A b \in Blocks : b \in ToSet(c.free) \/ \E i \in DOMAIN c.rows : b \in B(c.rows[i])
  BY DEF Owned, AllOwned
<1>. HIDE DEF B
<1>9. /\ BlocksOf(gone) \in Seq(Blocks)
      /\ \A b : b \in ToSet(BlocksOf(gone)) <=> \E i \in DOMAIN gone : b \in B(gone[i])
  BY BlocksOfLists DEF B
<1>10. Injective(BlocksOf(gone))
  <2>1. \A i \in DOMAIN gone :
          /\ Injective(gone[i].blocks)
          /\ \A j \in DOMAIN gone \ {i} : B(gone[i]) \cap B(gone[j]) = {}
    <3>. TAKE i \in DOMAIN gone
    <3>1. Injective(gone[i].blocks)
      BY <1>4, <1>7
    <3>2. ASSUME NEW j \in DOMAIN gone \ {i} PROVE B(gone[i]) \cap B(gone[j]) = {}
      <4>1. g[i] # g[j] /\ g[i] \in DOMAIN c.rows /\ g[j] \in DOMAIN c.rows
        BY <1>4, <1>6
      <4>2. B(c.rows[g[i]]) \cap B(c.rows[g[j]]) = {}
        BY <1>7, <4>1
      <4>. QED  BY <1>4, <4>2
    <3>. QED  BY <3>1, <3>2
  <2>. QED  BY <2>1, BlocksOfLists DEF B
<1>11. ToSet(c.free) \cap ToSet(BlocksOf(gone)) = {}
  BY <1>4, <1>7, <1>9
<1>12. Injective(d.free) /\ \A b : b \in ToSet(d.free) <=> b \in ToSet(c.free) \/ b \in ToSet(BlocksOf(gone))
  <2>1. d.free = c.free \o BlocksOf(gone)
    BY DEF Releases
  <2>. QED  BY <1>1, <1>7, <1>9, <1>10, <1>11, <2>1, ConcatLists
<1>13. \A i \in DOMAIN d.rows : B(d.rows[i]) \cap ToSet(d.free) = {}
  <2>. SUFFICES ASSUME NEW i \in DOMAIN d.rows, NEW b, b \in B(d.rows[i]), b \in ToSet(d.free) PROVE FALSE
    OBVIOUS
  <2>1. b \notin ToSet(c.free)
    BY <1>3, <1>7
  <2>2. PICK j \in DOMAIN gone : b \in B(gone[j])
    BY <1>9, <1>12, <2>1
  <2>3. p[i] # g[j] /\ p[i] \in DOMAIN c.rows /\ g[j] \in DOMAIN c.rows
    BY <1>3, <1>4 DEF Releases
  <2>4. B(c.rows[p[i]]) \cap B(c.rows[g[j]]) = {}
    BY <1>7, <2>3
  <2>5. b \in B(c.rows[p[i]]) /\ b \in B(c.rows[g[j]])
    BY <1>3, <1>4, <2>2
  <2>. QED  BY <2>4, <2>5
<1>14. FreeOwned(d)
  BY <1>12, <1>13 DEF FreeOwned, B
<1>15. RowsOwned(d)
  <2>1. \A i \in DOMAIN d.rows : Injective(d.rows[i].blocks)
    BY <1>3, <1>7
  <2>2. \A i \in DOMAIN d.rows : \A j \in DOMAIN d.rows \ {i} : B(d.rows[i]) \cap B(d.rows[j]) = {}
    <3>. SUFFICES ASSUME NEW i \in DOMAIN d.rows, NEW j \in DOMAIN d.rows \ {i}
                  PROVE  B(d.rows[i]) \cap B(d.rows[j]) = {}
      OBVIOUS
    <3>1. p[i] # p[j] /\ p[i] \in DOMAIN c.rows /\ p[j] \in DOMAIN c.rows
      BY <1>3, <1>5
    <3>2. B(c.rows[p[i]]) \cap B(c.rows[p[j]]) = {}
      BY <1>7, <3>1
    <3>. QED  BY <1>3, <3>2
  <2>. QED  BY <2>1, <2>2 DEF RowsOwned, B
<1>16. AllOwned(d)
  <2>. SUFFICES ASSUME NEW b \in Blocks, b \notin ToSet(d.free)
                PROVE  \E i \in DOMAIN d.rows : b \in B(d.rows[i])
    BY DEF AllOwned, B
  <2>1. PICK x \in DOMAIN c.rows : b \in B(c.rows[x])
    BY <1>8, <1>12
  <2>2. ~ \E j \in DOMAIN gone : g[j] = x
    BY <1>4, <1>9, <1>12, <2>1
  <2>3. \E i \in DOMAIN d.rows : p[i] = x
    BY <2>2 DEF Releases
  <2>. QED  BY <1>3, <2>1, <2>3
<1>. QED  BY <1>14, <1>15, <1>16 DEF Owned

\* The n blocks at the top of the stack go to the rows of d: row i had the
\* blocks old[i] and has got the blocks new[i].
Shares(c, d, n, old, new) ==
  /\ Injective(c.free)
  /\ d.free = FreeAfter(c, n)
  /\ \A i \in DOMAIN d.rows : Injective(d.rows[i].blocks)
  /\ \A i \in DOMAIN d.rows : \A b : b \in ToSet(d.rows[i].blocks) <=> b \in old[i] \/ b \in new[i]
  /\ \A i, j \in DOMAIN d.rows : i # j => old[i] \cap old[j] = {} /\ new[i] \cap new[j] = {}
  /\ \A i \in DOMAIN d.rows : old[i] \cap ToSet(c.free) = {}
  /\ \A b : b \in ToSet(Allocated(c, n)) <=> \E i \in DOMAIN d.rows : b \in new[i]
  /\ \A b \in Blocks : b \in ToSet(c.free) \/ \E i \in DOMAIN d.rows : b \in old[i]

\* Each of them belongs to one row.
LEMMA Acquire ==
  ASSUME NEW c \in ContextType, NEW d \in ContextType, NEW n \in 0 .. Len(c.free),
         NEW old, NEW new, Shares(c, d, n, old, new)
  PROVE  Owned(d)
<1>. DEFINE B(w)   == ToSet(w.blocks)
            top    == Allocated(c, n)
<1>1. c.free \in Seq(Blocks)
  BY ContextFields
<1>2. /\ Injective(d.free) /\ ToSet(top) \cap ToSet(d.free) = {}
      /\ \A b : b \in ToSet(c.free) <=> b \in ToSet(top) \/ b \in ToSet(d.free)
  BY <1>1, StackParts, SMTT(30) DEF Allocated, FreeAfter, Shares
<1>. HIDE DEF top, B
<1>3. \A i \in DOMAIN d.rows : \A b : b \in B(d.rows[i]) <=> b \in old[i] \/ b \in new[i]
  BY DEF B, Shares
<1>4. \A i \in DOMAIN d.rows : \A b : b \in new[i] => b \in ToSet(top) /\ b \in ToSet(c.free) /\ b \notin ToSet(d.free)
  BY <1>2 DEF top, Shares
<1>5. \A i \in DOMAIN d.rows : \A b : b \in old[i] => b \notin ToSet(c.free) /\ b \notin ToSet(d.free)
  BY <1>2 DEF Shares
<1>6. FreeOwned(d)
  <2>1. \A i \in DOMAIN d.rows : B(d.rows[i]) \cap ToSet(d.free) = {}
    BY <1>3, <1>4, <1>5
  <2>. QED  BY <1>2, <2>1 DEF FreeOwned, B
<1>7. RowsOwned(d)
  <2>1. \A i, j \in DOMAIN d.rows : i # j => B(d.rows[i]) \cap B(d.rows[j]) = {}
    <3>. SUFFICES ASSUME NEW i \in DOMAIN d.rows, NEW j \in DOMAIN d.rows, i # j,
                         NEW b, b \in B(d.rows[i]), b \in B(d.rows[j])
                  PROVE  FALSE
      OBVIOUS
    <3>1. (b \in old[i] \/ b \in new[i]) /\ (b \in old[j] \/ b \in new[j])
      BY <1>3
    <3>2. ~(b \in old[i] /\ b \in old[j]) /\ ~(b \in new[i] /\ b \in new[j])
      BY DEF Shares
    <3>. QED  BY <1>4, <1>5, <3>1, <3>2
  <2>2. \A i \in DOMAIN d.rows : Injective(d.rows[i].blocks)
    BY DEF Shares
  <2>. QED  BY <2>1, <2>2 DEF RowsOwned, B
<1>8. AllOwned(d)
  <2>. SUFFICES ASSUME NEW b \in Blocks, b \notin ToSet(d.free)
                PROVE  \E i \in DOMAIN d.rows : b \in B(d.rows[i])
    BY DEF AllOwned, B
  <2>1. CASE b \in ToSet(c.free)
    BY <1>2, <1>3, <2>1 DEF top, Shares
  <2>2. CASE b \notin ToSet(c.free)
    BY <1>3, <2>2 DEF Shares
  <2>. QED  BY <2>1, <2>2
<1>. QED  BY <1>6, <1>7, <1>8 DEF Owned

-----------------------------------------------------------------------------
(* The end of requests                                                     *)

\* The paused and the active rows.
LEMMA RowParts ==
  ASSUME NEW c \in ContextType, c.paused <= Len(c.rows)
  PROVE  /\ PausedRows(c) \in Seq(RowType) /\ Len(PausedRows(c)) = c.paused
         /\ \A i \in 1 .. c.paused : PausedRows(c)[i] = c.rows[i] /\ i \in DOMAIN c.rows
         /\ ActiveRows(c) \in Seq(RowType) /\ Len(ActiveRows(c)) = Len(c.rows) - c.paused
         /\ DOMAIN ActiveRows(c) = 1 .. Len(c.rows) - c.paused
         /\ \A i \in DOMAIN ActiveRows(c) :
              ActiveRows(c)[i] = c.rows[c.paused + i] /\ c.paused + i \in DOMAIN c.rows
<1>1. c.rows \in Seq(RowType) /\ c.paused \in Nat
  BY ContextFields
<1>. DEFINE s == c.rows
            k == c.paused
<1>2. Len(s) \in Nat /\ DOMAIN s = 1 .. Len(s)
  BY <1>1
<1>. HIDE DEF s, k
<1>3. k \in 0 .. Len(s) /\ s \in Seq(RowType)
  BY <1>1, <1>2 DEF s, k
<1>4. /\ SubSeq(s, 1, k) \in Seq(RowType) /\ Len(SubSeq(s, 1, k)) = k
      /\ \A i \in 1 .. k : SubSeq(s, 1, k)[i] = s[i] /\ i \in DOMAIN s
  BY <1>2, <1>3
<1>5. /\ SubSeq(s, k + 1, Len(s)) \in Seq(RowType) /\ Len(SubSeq(s, k + 1, Len(s))) = Len(s) - k
      /\ DOMAIN SubSeq(s, k + 1, Len(s)) = 1 .. Len(s) - k
      /\ \A i \in 1 .. Len(s) - k : SubSeq(s, k + 1, Len(s))[i] = s[k + i] /\ k + i \in DOMAIN s
  <2>. DEFINE m == Len(s) - k
              u == SubSeq(s, k + 1, Len(s))
  <2>1. k \in Nat /\ m \in Nat /\ k + m = Len(s) /\ \A i \in 1 .. m : k + i \in DOMAIN s
    BY <1>2, <1>3
  <2>2. m \in 0 .. Len(s) /\ Len(s) - m + 1 = k + 1 /\ \A i \in 1 .. m : Len(s) - m + i = k + i
    BY <1>2, <1>3
  <2>. HIDE DEF m
  <2>3. LET top == SubSeq(s, Len(s) - m + 1, Len(s))
        IN  /\ top \in Seq(RowType) /\ Len(top) = m /\ DOMAIN top = 1 .. m
            /\ \A i \in 1 .. m : top[i] = s[Len(s) - m + i]
    BY <1>3, <2>2, Suffix
  <2>4. u \in Seq(RowType) /\ Len(u) = m /\ DOMAIN u = 1 .. m /\ \A i \in 1 .. m : u[i] = s[k + i]
    BY <2>2, <2>3
  <2>. QED  BY <2>1, <2>4 DEF m
<1>. QED  BY <1>4, <1>5 DEF PausedRows, ActiveRows, s, k

\* The positions of the paused rows, then those of q among the active ones.
Behind(c, q, n) == [i \in 1 .. c.paused + n |-> IF i <= c.paused THEN i ELSE c.paused + q[i - c.paused]]

\* A selection of the active rows behind the paused ones selects rows of the context.
LEMMA BehindPaused ==
  ASSUME NEW c \in ContextType, c.paused <= Len(c.rows),
         NEW t \in Seq(RowType), NEW q, Selects(q, ActiveRows(c), t)
  PROVE  /\ PausedRows(c) \o t \in Seq(RowType) /\ Len(PausedRows(c) \o t) = c.paused + Len(t)
         /\ Selects(Behind(c, q, Len(t)), c.rows, PausedRows(c) \o t)
         /\ \A i \in 1 .. Len(t) : q[i] \in 1 .. Len(c.rows) - c.paused
<1>. DEFINE k == c.paused
            n == Len(t)
            m == Len(c.rows)
            u == PausedRows(c)
            a == ActiveRows(c)
            p == Behind(c, q, n)
<1>1. k \in Nat /\ n \in Nat /\ m \in Nat /\ DOMAIN c.rows = 1 .. m /\ k <= m
  BY ContextFields
<1>2. /\ u \in Seq(RowType) /\ Len(u) = k /\ DOMAIN a = 1 .. m - k
      /\ \A i \in 1 .. k : u[i] = c.rows[i]
      /\ \A i \in 1 .. m - k : a[i] = c.rows[k + i]
  BY RowParts
<1>3. /\ q \in [1 .. n -> 1 .. m - k]
      /\ \A i \in 1 .. n : t[i] = a[q[i]]
      /\ \A i, j \in 1 .. n : q[i] = q[j] => i = j
  BY <1>2 DEF Selects
<1>. DEFINE r == u \o t
<1>. HIDE DEF u, a, n, k, m
<1>4. /\ r \in Seq(RowType) /\ Len(r) = k + n /\ DOMAIN r = 1 .. k + n
      /\ \A i \in 1 .. k : r[i] = u[i]
      /\ \A i \in 1 .. n : r[k + i] = t[i]
  BY <1>2 DEF n
<1>5. p = [i \in 1 .. k + n |-> IF i <= k THEN i ELSE k + q[i - k]]
  BY DEF Behind, k
<1>. HIDE DEF p, r
<1>6. \A i \in 1 .. k + n : (i <= k /\ i \in 1 .. k) \/ (~(i <= k) /\ i - k \in 1 .. n /\ i = k + (i - k))
  BY <1>1
<1>7. p \in [1 .. k + n -> 1 .. m]
  <2>1. \A i \in 1 .. k + n : p[i] \in 1 .. m
    <3>. TAKE i \in 1 .. k + n
    <3>1. CASE i <= k
      BY <1>1, <1>5, <3>1
    <3>2. CASE ~(i <= k)
      <4>1. q[i - k] \in 1 .. m - k
        BY <1>3, <1>6, <3>2
      <4>. QED  BY <1>1, <1>5, <3>2, <4>1
    <3>. QED  BY <3>1, <3>2
  <2>. QED  BY <1>5, <2>1
<1>8. \A i \in 1 .. k + n : r[i] = c.rows[p[i]]
  <2>. TAKE i \in 1 .. k + n
  <2>1. CASE i <= k
    BY <1>2, <1>4, <1>5, <1>6, <2>1
  <2>2. CASE ~(i <= k)
    <3>1. r[i] = t[i - k] /\ t[i - k] = a[q[i - k]] /\ q[i - k] \in 1 .. m - k
      BY <1>3, <1>4, <1>6, <2>2
    <3>2. p[i] = k + q[i - k]
      BY <1>5, <2>2
    <3>. QED  BY <1>2, <3>1, <3>2
  <2>. QED  BY <2>1, <2>2
<1>9. \A i, j \in 1 .. k + n : p[i] = p[j] => i = j
  <2>. SUFFICES ASSUME NEW i \in 1 .. k + n, NEW j \in 1 .. k + n, p[i] = p[j] PROVE i = j
    OBVIOUS
  <2>1. \A x \in 1 .. k + n : x <= k => p[x] = x
    BY <1>5
  <2>2. \A x \in 1 .. k + n : ~(x <= k) => p[x] = k + q[x - k] /\ q[x - k] \in 1 .. m - k /\ x - k \in 1 .. n
    BY <1>3, <1>5, <1>6
  <2>3. CASE i <= k /\ j <= k
    BY <2>1, <2>3
  <2>4. CASE i <= k /\ ~(j <= k)
    BY <1>1, <2>1, <2>2, <2>4
  <2>5. CASE ~(i <= k) /\ j <= k
    BY <1>1, <2>1, <2>2, <2>5
  <2>6. CASE ~(i <= k) /\ ~(j <= k)
    <3>1. q[i - k] = q[j - k]
      <4>1. k + q[i - k] = k + q[j - k] /\ q[i - k] \in 1 .. m - k /\ q[j - k] \in 1 .. m - k
        BY <2>2, <2>6
      <4>2. q[i - k] \in Int /\ q[j - k] \in Int /\ k \in Int
        BY <1>1, <4>1
      <4>. QED  BY <4>1, <4>2
    <3>2. i - k = j - k
      BY <1>3, <2>2, <2>6, <3>1
    <3>. QED  BY <1>1, <3>2
  <2>. QED  BY <2>3, <2>4, <2>5, <2>6
<1>10. r = [i \in 1 .. Len(r) |-> c.rows[p[i]]]
  <2>1. r = [i \in 1 .. Len(r) |-> r[i]]
    BY <1>4
  <2>. QED  BY <1>4, <1>8, <2>1
<1>11. Selects(p, c.rows, r)
  BY <1>1, <1>4, <1>7, <1>9, <1>10 DEF Selects, m
<1>. QED  BY <1>3, <1>4, <1>11 DEF p, r, u, k, n, m

\* Some of the first elements of what q selects.
LEMMA SelectsFirst ==
  ASSUME NEW T, NEW s, NEW t \in Seq(T), NEW q, Selects(q, s, t), NEW k \in 0 .. Len(t)
  PROVE  /\ Selects([i \in 1 .. k |-> q[i]], s, SubSeq(t, 1, k))
         /\ SubSeq(t, 1, k) \in Seq(T) /\ Len(SubSeq(t, 1, k)) = k
<1>. DEFINE u == SubSeq(t, 1, k)
            r == [i \in 1 .. k |-> q[i]]
<1>1. /\ Len(t) \in Nat /\ k \in Nat /\ k <= Len(t)
      /\ u \in Seq(T) /\ Len(u) = k /\ \A i \in 1 .. k : u[i] = t[i]
  OBVIOUS
<1>2. \A i \in 1 .. k : i \in 1 .. Len(t)
  BY <1>1
<1>3. u = [i \in 1 .. k |-> s[r[i]]]
  <2>1. u = [i \in 1 .. k |-> u[i]]
    BY <1>1
  <2>2. \A i \in 1 .. k : u[i] = s[r[i]]
    BY <1>1, <1>2 DEF Selects
  <2>. QED  BY <2>1, <2>2
<1>4. r \in [1 .. k -> DOMAIN s] /\ \A i, j \in 1 .. k : r[i] = r[j] => i = j
  BY <1>2 DEF Selects
<1>. HIDE DEF r
<1>5. Selects(r, s, u)
  BY <1>1, <1>3, <1>4 DEF Selects
<1>. QED  BY <1>1, <1>5 DEF r

\* What Finish does with the positions of the rows.
Finishes(p, c, done) ==
  LET rows == Finish(c, done).rows
  IN  /\ Selects(p, c.rows, rows)
      /\ \A i \in DOMAIN rows : i <= c.paused => p[i] = i
      /\ \A i \in DOMAIN rows : i > c.paused => p[i] > c.paused /\ p[i] - c.paused \notin done
      /\ \A x \in DOMAIN c.rows : x <= c.paused \/ x - c.paused \notin done => \E i \in DOMAIN rows : p[i] = x

\* Step 4 of update_requests keeps the other rows and releases the blocks of
\* the finished ones.
LEMMA FinishKeeps ==
  ASSUME NEW c \in ContextType, c.paused <= Len(c.rows), NEW done \in SUBSET DOMAIN ActiveRows(c)
  PROVE  LET d == Finish(c, done)
         IN  /\ d \in ContextType /\ d.paused = c.paused /\ d.chunk = c.chunk
             /\ Len(d.rows) = Len(c.rows) - Cardinality(done) /\ d.paused <= Len(d.rows)
             /\ Cardinality(done) \in Nat
             /\ Owned(c) => Owned(d)
             /\ \E p : Finishes(p, c, done)
<1>. DEFINE d == Finish(c, done)
            a == ActiveRows(c)
            n == Len(a)
            alive == DOMAIN a \ done
            k == Cardinality(alive)
            moved == ToTheLeft(a, alive)
            t == SubSeq(moved, 1, k)
            gone == Picked(a, done)
<1>1. /\ c.free \in Seq(Blocks) /\ c.rows \in Seq(RowType) /\ c.paused \in Nat
      /\ c.chunk \in Requests \cup {None}
  BY ContextFields
<1>2. /\ a \in Seq(RowType) /\ n = Len(c.rows) - c.paused /\ DOMAIN a = 1 .. n
      /\ \A i \in 1 .. n : a[i] = c.rows[c.paused + i] /\ c.paused + i \in DOMAIN c.rows
      /\ n \in Nat /\ Len(c.rows) \in Nat /\ DOMAIN c.rows = 1 .. Len(c.rows)
  BY <1>1, RowParts
<1>. HIDE DEF a, n
<1>3. done \in SUBSET (1 .. n) /\ alive \in SUBSET (1 .. n) /\ alive \in SUBSET DOMAIN a
  BY <1>2 DEF a
<1>4. k \in Nat /\ k <= n /\ k = n - Cardinality(done) /\ Cardinality(done) \in Nat /\ Cardinality(done) <= n
  <2>1. Cardinality(done) \in 0 .. n /\ Cardinality((1 .. n) \ done) = n - Cardinality(done)
    BY <1>2, <1>3, Positions
  <2>. QED  BY <1>2, <2>1
<1>5. PICK q : Gathers(q, a, alive)
  BY <1>2, <1>3, ToTheLeftSelects
<1>6. moved \in Seq(RowType) /\ Len(moved) = n
  BY <1>2, <1>3, ToTheLeftSelects DEF n
<1>7. Selects(q, a, moved) /\ Onto(q, a) /\ \A i \in 1 .. n : q[i] \in alive <=> i <= k
  BY <1>2, <1>5 DEF Gathers
<1>. HIDE DEF alive, moved, k
<1>. DEFINE r == [i \in 1 .. k |-> q[i]]
<1>8. Selects(r, a, t) /\ t \in Seq(RowType) /\ Len(t) = k
  <2>1. k \in 0 .. Len(moved)
    BY <1>4, <1>6
  <2>. QED  BY <1>6, <1>7, <2>1, SelectsFirst
<1>. HIDE DEF t, r
<1>. DEFINE p == Behind(c, r, k)
            rows == PausedRows(c) \o t
<1>9. rows \in Seq(RowType) /\ Len(rows) = c.paused + k /\ Selects(p, c.rows, rows)
  BY <1>8, BehindPaused DEF a
<1>10. gone \in Seq(RowType) /\ Len(gone) = Cardinality(done)
       /\ \A j \in 1 .. Cardinality(done) : Ascending(done)[j] \in done /\ gone[j] = a[Ascending(done)[j]]
  <2>1. a \in Seq(RowType) /\ done \in SUBSET DOMAIN a
    BY <1>2, <1>3
  <2>. QED  BY <2>1, PickedLists
<1>11. d = [c EXCEPT !.free = @ \o BlocksOf(gone), !.rows = rows]
  BY DEF Finish, a, alive, k, t, moved
<1>. HIDE DEF gone, rows, p
<1>12. BlocksOf(gone) \in Seq(Blocks) /\ c.free \o BlocksOf(gone) \in Seq(Blocks)
  BY <1>1, <1>10, BlocksOfLists
<1>13. /\ d \in ContextType /\ d.paused = c.paused /\ d.chunk = c.chunk
       /\ d.rows = rows /\ d.free = c.free \o BlocksOf(gone)
  BY <1>9, <1>11, <1>12 DEF ContextType
<1>. HIDE DEF d
<1>14. DOMAIN rows = 1 .. c.paused + k
  BY <1>9
<1>15. \A i \in DOMAIN rows : i <= c.paused => p[i] = i
  BY <1>14 DEF p, Behind
<1>16. \A i \in DOMAIN rows : i > c.paused =>
         i - c.paused \in 1 .. k /\ p[i] = c.paused + q[i - c.paused] /\ q[i - c.paused] \in alive
  <2>. SUFFICES ASSUME NEW i \in DOMAIN rows, i > c.paused
                PROVE  i - c.paused \in 1 .. k /\ p[i] = c.paused + q[i - c.paused] /\ q[i - c.paused] \in alive
    OBVIOUS
  <2>1. i - c.paused \in 1 .. k /\ i - c.paused \in 1 .. n /\ i - c.paused <= k /\ ~(i <= c.paused)
    <3>1. i \in Int /\ i <= c.paused + k /\ i >= c.paused + 1
      BY <1>1, <1>4, <1>14
    <3>2. \A y, x, k1, n1 \in Int : y <= x + k1 /\ y >= x + 1 /\ k1 <= n1 =>
            y - x \in 1 .. k1 /\ y - x \in 1 .. n1 /\ y - x <= k1 /\ ~(y <= x)
      OBVIOUS
    <3>3. c.paused \in Int /\ k \in Int /\ n \in Int /\ k <= n
      BY <1>1, <1>2, <1>4
    <3>. QED  BY <3>1, <3>2, <3>3
  <2>2. p[i] = c.paused + r[i - c.paused]
    BY <1>14, <2>1 DEF p, Behind
  <2>. QED  BY <1>7, <2>1, <2>2 DEF r
<1>17. \A i \in DOMAIN rows : i > c.paused => p[i] > c.paused /\ p[i] - c.paused \notin done
  <2>. SUFFICES ASSUME NEW i \in DOMAIN rows, i > c.paused
                PROVE  p[i] > c.paused /\ p[i] - c.paused \notin done
    OBVIOUS
  <2>1. p[i] = c.paused + q[i - c.paused] /\ q[i - c.paused] \in alive
    BY <1>16
  <2>2. q[i - c.paused] \in 1 .. n /\ q[i - c.paused] \notin done
    BY <1>3, <2>1 DEF alive
  <2>3. p[i] - c.paused = q[i - c.paused] /\ p[i] > c.paused
    BY <1>1, <1>2, <2>1, <2>2
  <2>. QED  BY <2>2, <2>3
<1>18. \A x \in DOMAIN c.rows : x <= c.paused \/ x - c.paused \notin done => \E i \in DOMAIN rows : p[i] = x
  <2>. SUFFICES ASSUME NEW x \in DOMAIN c.rows, x <= c.paused \/ x - c.paused \notin done
                PROVE  \E i \in DOMAIN rows : p[i] = x
    OBVIOUS
  <2>1. CASE x <= c.paused
    <3>1. x \in DOMAIN rows
      BY <1>1, <1>2, <1>4, <1>14, <2>1
    <3>. QED  BY <1>15, <2>1, <3>1
  <2>2. CASE ~(x <= c.paused)
    <3>1. x - c.paused \in 1 .. n
      BY <1>1, <1>2, <2>2
    <3>2. x - c.paused \in alive
      BY <1>2, <2>2, <3>1 DEF alive
    <3>3. PICK j \in 1 .. n : q[j] = x - c.paused
      <4>1. DOMAIN q = 1 .. n
        BY <1>6, <1>7 DEF Selects
      <4>. QED  BY <1>2, <1>7, <3>1, <4>1 DEF Onto
    <3>4. j <= k /\ j \in 1 .. k
      BY <1>4, <1>7, <3>2, <3>3
    <3>5. c.paused + j \in DOMAIN rows /\ ~(c.paused + j <= c.paused) /\ (c.paused + j) - c.paused = j
      BY <1>1, <1>4, <1>14, <3>4
    <3>6. p[c.paused + j] = c.paused + q[j]
      <4>1. c.paused + j > c.paused
        BY <1>1, <1>4, <3>4
      <4>2. p[c.paused + j] = c.paused + q[(c.paused + j) - c.paused]
        BY <1>16, <3>5, <4>1
      <4>. QED  BY <3>5, <4>2
    <3>7. c.paused + (x - c.paused) = x
      BY <1>1, <1>2
    <3>. QED  BY <3>3, <3>5, <3>6, <3>7
  <2>. QED  BY <2>1, <2>2
<1>19. Finishes(p, c, done)
  BY <1>9, <1>13, <1>15, <1>17, <1>18 DEF Finishes, d
<1>. DEFINE g == [j \in 1 .. Cardinality(done) |-> c.paused + Ascending(done)[j]]
<1>20. Selects(g, c.rows, gone)
  <2>1. \A j \in 1 .. Cardinality(done) : Ascending(done)[j] \in 1 .. n /\ g[j] \in DOMAIN c.rows
    BY <1>2, <1>3, <1>10
  <2>2. \A i, j \in 1 .. Cardinality(done) : g[i] = g[j] => i = j
    <3>1. Injective(Ascending(done)) /\ DOMAIN Ascending(done) = 1 .. Cardinality(done)
      BY <1>2, <1>3, AscendingLists
    <3>. SUFFICES ASSUME NEW i \in 1 .. Cardinality(done), NEW j \in 1 .. Cardinality(done), g[i] = g[j]
                  PROVE  i = j
      OBVIOUS
    <3>2. Ascending(done)[i] = Ascending(done)[j]
      BY <1>1, <2>1
    <3>. QED  BY <3>1, <3>2 DEF Injective
  <2>3. \A j \in 1 .. Cardinality(done) : gone[j] = c.rows[g[j]]
    BY <1>2, <1>10, <2>1
  <2>4. gone = [j \in 1 .. Len(gone) |-> gone[j]]
    BY <1>10
  <2>. HIDE DEF g
  <2>5. gone = [j \in 1 .. Len(gone) |-> c.rows[g[j]]]
    BY <1>10, <2>3, <2>4
  <2>6. g \in [1 .. Len(gone) -> DOMAIN c.rows]
    BY <1>10, <2>1 DEF g
  <2>. QED  BY <1>10, <2>2, <2>5, <2>6 DEF Selects
<1>21. Owned(c) => Owned(d)
  <2>. SUFFICES ASSUME Owned(c) PROVE Owned(d)
    OBVIOUS
  <2>1. DOMAIN gone = 1 .. Cardinality(done)
    BY <1>10
  <2>2. \A j \in DOMAIN gone : g[j] > c.paused /\ g[j] - c.paused \in done
    <3>. SUFFICES ASSUME NEW j \in DOMAIN gone PROVE g[j] > c.paused /\ g[j] - c.paused \in done
      OBVIOUS
    <3>1. Ascending(done)[j] \in done /\ Ascending(done)[j] \in 1 .. n /\ g[j] = c.paused + Ascending(done)[j]
      BY <1>3, <1>10, <2>1
    <3>2. g[j] > c.paused /\ g[j] - c.paused = Ascending(done)[j]
      BY <1>1, <1>2, <3>1
    <3>. QED  BY <3>1, <3>2
  <2>3. \A i \in DOMAIN rows, j \in DOMAIN gone : p[i] # g[j]
    <3>. SUFFICES ASSUME NEW i \in DOMAIN rows, NEW j \in DOMAIN gone, p[i] = g[j] PROVE FALSE
      OBVIOUS
    <3>1. i \in Int /\ c.paused \in Int
      BY <1>1, <1>14
    <3>2. CASE i <= c.paused
      BY <1>1, <1>15, <2>2, <3>1, <3>2
    <3>3. CASE i > c.paused
      BY <1>17, <2>2, <3>3
    <3>. QED  BY <3>1, <3>2, <3>3
  <2>4. \A x \in DOMAIN c.rows : (\E i \in DOMAIN rows : p[i] = x) \/ (\E j \in DOMAIN gone : g[j] = x)
    <3>. SUFFICES ASSUME NEW x \in DOMAIN c.rows, ~(x <= c.paused), x - c.paused \in done
                  PROVE  \E j \in DOMAIN gone : g[j] = x
      BY <1>18
    <3>1. PICK j \in 1 .. Cardinality(done) : Ascending(done)[j] = x - c.paused
      BY <1>2, <1>3, AscendingLists
    <3>2. c.paused + (x - c.paused) = x
      BY <1>1, <1>2
    <3>. QED  BY <2>1, <3>1, <3>2
  <2>. HIDE DEF g
  <2>5. Selects(p, c.rows, d.rows)
    BY <1>9, <1>13
  <2>6. \A i \in DOMAIN d.rows, j \in DOMAIN gone : p[i] # g[j]
    BY <1>13, <2>3
  <2>7. \A x \in DOMAIN c.rows : (\E i \in DOMAIN d.rows : p[i] = x) \/ (\E j \in DOMAIN gone : g[j] = x)
    BY <1>13, <2>4
  <2>8. d \in ContextType /\ gone \in Seq(RowType) /\ d.free = c.free \o BlocksOf(gone)
    BY <1>10, <1>13
  <2>9. Releases(c, d, gone, p, g)
    BY <1>20, <2>5, <2>6, <2>7, <2>8 DEF Releases
  <2>. QED  BY <2>8, <2>9, Release
<1>22. Len(d.rows) = Len(c.rows) - Cardinality(done) /\ d.paused <= Len(d.rows)
  BY <1>1, <1>2, <1>4, <1>9, <1>13, SMTT(30)
<1>. QED  BY <1>4, <1>13, <1>19, <1>21, <1>22 DEF d

-----------------------------------------------------------------------------
(* Rows that stay                                                          *)

\* Rows that only change places keep their blocks.
LEMMA Reorder ==
  ASSUME NEW c \in ContextType, NEW d \in ContextType, d.free = c.free,
         NEW p, Selects(p, c.rows, d.rows), Onto(p, c.rows), Owned(c)
  PROVE  Owned(d)
<1>1. c.free \in Seq(Blocks) /\ d.rows \in Seq(RowType)
  BY ContextFields
<1>. DEFINE gone == << >>
<1>2. gone \in Seq(RowType) /\ Len(gone) = 0 /\ DOMAIN gone = {}
  OBVIOUS
<1>3. d.free = c.free \o BlocksOf(gone)
  BY <1>1, BlocksOfNone
<1>. DEFINE g == [i \in 1 .. 0 |-> i]
<1>4. Selects(g, c.rows, gone)
  BY DEF Selects
<1>5. \A x \in DOMAIN c.rows : \E i \in DOMAIN d.rows : p[i] = x
  <2>1. DOMAIN p = 1 .. Len(d.rows) /\ DOMAIN d.rows = 1 .. Len(d.rows)
    BY <1>1 DEF Selects
  <2>. QED  BY <2>1 DEF Onto
<1>. HIDE DEF gone, g
<1>6. Releases(c, d, gone, p, g)
  BY <1>2, <1>3, <1>4, <1>5 DEF Releases
<1>. QED  BY <1>2, <1>6, Release

\* What Pause does with the positions of the rows.
Pauses(p, c) ==
  LET d == Pause(c)
  IN  /\ Selects(p, c.rows, d.rows) /\ Onto(p, c.rows)
      /\ \A i \in DOMAIN d.rows : i <= c.paused => p[i] = i
      /\ \A i \in DOMAIN d.rows : i > c.paused =>
           /\ p[i] > c.paused
           /\ i <= d.paused <=> c.rows[p[i]].last = BlockSize - 1 /\ c.rows[p[i]].id # c.chunk

\* Step 5 of update_requests keeps all rows; those that are full get paused.
LEMMA PauseKeeps ==
  ASSUME NEW c \in ContextType, c.paused <= Len(c.rows)
  PROVE  LET d == Pause(c)
         IN  /\ d \in ContextType /\ d.free = c.free /\ d.chunk = c.chunk
             /\ Len(d.rows) = Len(c.rows) /\ c.paused <= d.paused /\ d.paused <= Len(d.rows)
             /\ Owned(c) => Owned(d)
             /\ \E p : Pauses(p, c)
<1>. DEFINE d == Pause(c)
            a == ActiveRows(c)
            n == Len(a)
            full == { i \in DOMAIN a : a[i].last = BlockSize - 1 /\ a[i].id # c.chunk }
            k == Cardinality(full)
            t == ToTheLeft(a, full)
<1>1. /\ c.free \in Seq(Blocks) /\ c.rows \in Seq(RowType) /\ c.paused \in Nat
      /\ c.chunk \in Requests \cup {None}
  BY ContextFields
<1>2. /\ a \in Seq(RowType) /\ n = Len(c.rows) - c.paused /\ DOMAIN a = 1 .. n
      /\ \A i \in 1 .. n : a[i] = c.rows[c.paused + i] /\ c.paused + i \in DOMAIN c.rows
      /\ n \in Nat /\ Len(c.rows) \in Nat /\ DOMAIN c.rows = 1 .. Len(c.rows)
  BY <1>1, RowParts
<1>3. full \in SUBSET DOMAIN a
  OBVIOUS
<1>4. \A i \in 1 .. n : i \in full <=> a[i].last = BlockSize - 1 /\ a[i].id # c.chunk
  BY <1>2
<1>5. d = [c EXCEPT !.rows = PausedRows(c) \o t, !.paused = @ + k]
  BY DEF Pause
<1>. HIDE DEF a, n, full, d
<1>6. /\ t \in Seq(RowType) /\ Len(t) = n /\ k \in 0 .. n
      /\ \E q : Gathers(q, a, full)
  BY <1>2, <1>3, ToTheLeftSelects DEF n
<1>7. PICK q : Gathers(q, a, full)
  BY <1>6
<1>8. Selects(q, a, t) /\ Onto(q, a) /\ \A i \in 1 .. n : q[i] \in full <=> i <= k
  BY <1>2, <1>7 DEF Gathers
<1>. HIDE DEF t, k
<1>. DEFINE p == Behind(c, q, n)
            rows == PausedRows(c) \o t
<1>9. /\ rows \in Seq(RowType) /\ Len(rows) = c.paused + n /\ Selects(p, c.rows, rows)
      /\ \A i \in 1 .. n : q[i] \in 1 .. n
  BY <1>2, <1>6, <1>8, BehindPaused DEF a
<1>. HIDE DEF rows, p
<1>10. /\ d \in ContextType /\ d.paused = c.paused + k /\ d.chunk = c.chunk
       /\ d.rows = rows /\ d.free = c.free
  <2>1. d = [c EXCEPT !.rows = rows, !.paused = c.paused + k]
    BY <1>5, Zenon DEF rows
  <2>2. c.paused + k \in Nat
    BY <1>1, <1>2, <1>6
  <2>. HIDE DEF rows
  <2>. QED  BY <1>1, <1>9, <2>1, <2>2 DEF ContextType
<1>11. DOMAIN rows = 1 .. c.paused + n
  BY <1>9
<1>12. \A i \in DOMAIN rows : i <= c.paused => p[i] = i
  BY <1>11 DEF p, Behind
<1>13. \A i \in DOMAIN rows : i > c.paused =>
         i - c.paused \in 1 .. n /\ p[i] = c.paused + q[i - c.paused]
  <2>. SUFFICES ASSUME NEW i \in DOMAIN rows, i > c.paused
                PROVE  i - c.paused \in 1 .. n /\ p[i] = c.paused + q[i - c.paused]
    OBVIOUS
  <2>1. i \in 1 .. c.paused + n /\ i - c.paused \in 1 .. n /\ ~(i <= c.paused)
    BY <1>1, <1>2, <1>11
  <2>. QED  BY <2>1 DEF p, Behind
<1>14. \A i \in DOMAIN rows : i > c.paused =>
         /\ p[i] > c.paused
         /\ i <= d.paused <=> c.rows[p[i]].last = BlockSize - 1 /\ c.rows[p[i]].id # c.chunk
  <2>. SUFFICES ASSUME NEW i \in DOMAIN rows, i > c.paused
                PROVE  /\ p[i] > c.paused
                       /\ i <= d.paused <=> c.rows[p[i]].last = BlockSize - 1 /\ c.rows[p[i]].id # c.chunk
    OBVIOUS
  <2>. DEFINE j == i - c.paused
  <2>1. j \in 1 .. n /\ p[i] = c.paused + q[j] /\ q[j] \in 1 .. n
    BY <1>9, <1>13
  <2>2. c.rows[p[i]] = a[q[j]]
    BY <1>2, <2>1
  <2>3. p[i] > c.paused
    BY <1>1, <1>2, <2>1
  <2>4. q[j] \in full <=> a[q[j]].last = BlockSize - 1 /\ a[q[j]].id # c.chunk
    BY <1>4, <2>1
  <2>5. i <= d.paused <=> j <= k
    <3>1. i \in Int /\ k \in Int /\ c.paused \in Int /\ d.paused = c.paused + k
      BY <1>1, <1>6, <1>10, <1>11
    <3>2. \A x, y, z \in Int : x <= y + z <=> x - y <= z
      OBVIOUS
    <3>. QED  BY <3>1, <3>2
  <2>6. q[j] \in full <=> j <= k
    BY <1>8, <2>1
  <2>. HIDE DEF j
  <2>. QED  BY <2>2, <2>3, <2>4, <2>5, <2>6
<1>15. Onto(p, c.rows)
  <2>1. DOMAIN p = 1 .. c.paused + n
    BY DEF p, Behind
  <2>. SUFFICES ASSUME NEW x \in DOMAIN c.rows PROVE \E i \in DOMAIN p : p[i] = x
    BY DEF Onto
  <2>2. CASE x <= c.paused
    <3>1. x \in 1 .. c.paused + n
      BY <1>1, <1>2, <2>2
    <3>. QED  BY <1>11, <1>12, <2>1, <2>2, <3>1
  <2>3. CASE ~(x <= c.paused)
    <3>1. x - c.paused \in 1 .. n /\ c.paused + (x - c.paused) = x
      BY <1>1, <1>2, <2>3
    <3>2. PICK j \in 1 .. n : q[j] = x - c.paused
      <4>1. DOMAIN q = 1 .. n
        BY <1>6, <1>8 DEF Selects
      <4>. QED  BY <1>2, <1>8, <3>1, <4>1 DEF Onto
    <3>3. c.paused + j \in 1 .. c.paused + n /\ c.paused + j > c.paused /\ (c.paused + j) - c.paused = j
      BY <1>1, <1>2, <3>2
    <3>4. p[c.paused + j] = c.paused + q[(c.paused + j) - c.paused]
      BY <1>11, <1>13, <3>3
    <3>5. p[c.paused + j] = x
      BY <3>1, <3>2, <3>3, <3>4
    <3>. QED  BY <2>1, <3>3, <3>5
  <2>. QED  BY <2>2, <2>3
<1>16. Pauses(p, c)
  BY <1>9, <1>10, <1>12, <1>14, <1>15 DEF Pauses, d
<1>17. Owned(c) => Owned(d)
  BY <1>9, <1>10, <1>15, Reorder
<1>18. Len(d.rows) = Len(c.rows) /\ c.paused <= d.paused /\ d.paused <= Len(d.rows)
  BY <1>1, <1>2, <1>6, <1>9, <1>10
<1>. QED  BY <1>10, <1>16, <1>17, <1>18 DEF d

\* What ChunkLast does with the positions of the rows.
MovesLast(p, c) ==
  LET d == ChunkLast(c)
  IN  /\ Selects(p, c.rows, d.rows) /\ Onto(p, c.rows)
      /\ \A i \in DOMAIN d.rows : i <= c.paused <=> p[i] <= c.paused
      /\ \A i \in DOMAIN d.rows : i <= c.paused => p[i] = i

\* Step 6.d of update_requests keeps all rows, the paused ones in their places.
LEMMA ChunkLastKeeps ==
  ASSUME NEW c \in ContextType, c.paused <= Len(c.rows),
         c.chunk # None => \E i \in DOMAIN c.rows : c.rows[i].id = c.chunk /\ i > c.paused,
         \A i, j \in DOMAIN c.rows : c.rows[i].id = c.rows[j].id => i = j
  PROVE  LET d == ChunkLast(c)
         IN  /\ d \in ContextType /\ d.free = c.free /\ d.chunk = c.chunk /\ d.paused = c.paused
             /\ Len(d.rows) = Len(c.rows)
             /\ c.chunk # None => d.rows[Len(d.rows)].id = c.chunk
             /\ Owned(c) => Owned(d)
             /\ \E p : MovesLast(p, c)
<1>. DEFINE d == ChunkLast(c)
            n == Len(c.rows)
<1>1. /\ c.free \in Seq(Blocks) /\ c.rows \in Seq(RowType) /\ c.paused \in Nat
      /\ c.chunk \in Requests \cup {None}
  BY ContextFields
<1>2. n \in Nat /\ DOMAIN c.rows = 1 .. n
  BY <1>1
<1>3. CASE c.chunk = None
  <2>1. d = c
    BY <1>3 DEF ChunkLast
  <2>. DEFINE p == [i \in 1 .. n |-> i]
  <2>2. p \in [1 .. n -> 1 .. n] /\ \A i \in 1 .. n : p[i] = i
    OBVIOUS
  <2>3. c.rows = [i \in 1 .. n |-> c.rows[i]]
    BY <1>1, <1>2
  <2>4. c.rows = [i \in 1 .. n |-> c.rows[p[i]]]
    BY <2>2, <2>3
  <2>. HIDE DEF p
  <2>5. Selects(p, c.rows, c.rows)
    BY <1>2, <2>2, <2>4 DEF Selects
  <2>6. Onto(p, c.rows)
    BY <1>2, <2>2 DEF Onto
  <2>. HIDE DEF d
  <2>7. MovesLast(p, c)
    BY <1>2, <2>1, <2>2, <2>5, <2>6 DEF MovesLast, d
  <2>. QED  BY <1>3, <2>1, <2>7 DEF d
<1>4. CASE c.chunk # None
  <2>. DEFINE at == CHOOSE i \in DOMAIN c.rows : c.rows[i].id = c.chunk
              left == << at >>
              right == << n >>
              moved == Exchange(c.rows, left, right)
  <2>1. at \in DOMAIN c.rows /\ c.rows[at].id = c.chunk
    BY <1>4
  <2>2. at > c.paused
    BY <1>4, <2>1
  <2>3. d = [c EXCEPT !.rows = moved]
    BY <1>4 DEF ChunkLast
  <2>. HIDE DEF at
  <2>4. at \in 1 .. n /\ n \in 1 .. n
    BY <1>2, <2>1
  <2>5. /\ left \in Seq(DOMAIN c.rows) /\ right \in Seq(DOMAIN c.rows)
        /\ Len(left) = 1 /\ Len(right) = 1 /\ left[1] = at /\ right[1] = n
        /\ DOMAIN left = 1 .. 1 /\ DOMAIN right = 1 .. 1
    BY <1>2, <2>4
  <2>. HIDE DEF left, right
  <2>6. \A i \in 1 .. 1 : i = 1
    OBVIOUS
  <2>7. Injective(left) /\ Injective(right)
    BY <2>5, <2>6 DEF Injective
  <2>8. Len(left) = Len(right) /\ \A j, k \in 1 .. Len(left) : left[j] = right[k] => j = k
    BY <2>5, <2>6
  <2>9. /\ moved \in Seq(RowType) /\ Len(moved) = n
        /\ \E p : Swaps(p, c.rows, left, right)
    BY <1>1, <2>5, <2>7, <2>8, ExchangeSelects, SMTT(30)
  <2>10. PICK p : Swaps(p, c.rows, left, right)
    BY <2>9
  <2>. HIDE DEF moved
  <2>11. Selects(p, c.rows, moved) /\ Onto(p, c.rows)
    BY <2>10 DEF Swaps, moved
  <2>12. p[at] = n /\ p[n] = at /\ \A i \in 1 .. n : i # at /\ i # n => p[i] = i
    <3>1. 1 \in 1 .. Len(left)
      BY <2>5
    <3>2. p[at] = n /\ p[n] = at
      BY <2>5, <2>10, <3>1 DEF Swaps
    <3>3. ToSet(left) = {at} /\ ToSet(right) = {n}
      BY <2>5, <2>6 DEF ToSet
    <3>4. \A i \in 1 .. n : i # at /\ i # n => p[i] = i
      BY <1>2, <2>10, <3>3 DEF Swaps
    <3>. QED  BY <3>2, <3>4
  <2>13. /\ d \in ContextType /\ d.paused = c.paused /\ d.chunk = c.chunk
         /\ d.rows = moved /\ d.free = c.free
    BY <1>1, <2>3, <2>9 DEF ContextType
  <2>. HIDE DEF d
  <2>14. DOMAIN moved = 1 .. n
    BY <2>9
  <2>15. \A i \in 1 .. n : (i <= c.paused <=> p[i] <= c.paused) /\ (i <= c.paused => p[i] = i)
    <3>. TAKE i \in 1 .. n
    <3>1. n > c.paused
      BY <1>1, <2>2, <2>4
    <3>2. CASE i = at
      BY <1>1, <2>2, <2>4, <2>12, <3>1, <3>2
    <3>3. CASE i = n
      BY <1>1, <2>2, <2>4, <2>12, <3>1, <3>3
    <3>4. CASE i # at /\ i # n
      BY <2>12, <3>4
    <3>. QED  BY <3>2, <3>3, <3>4
  <2>16. d.rows[Len(d.rows)].id = c.chunk
    <3>1. moved[n] = c.rows[p[n]]
      BY <2>4, <2>9, <2>11 DEF Selects
    <3>. QED  BY <2>1, <2>9, <2>12, <2>13, <3>1
  <2>17. MovesLast(p, c)
    BY <2>11, <2>13, <2>14, <2>15 DEF MovesLast, d
  <2>18. Owned(c) => Owned(d)
    BY <2>11, <2>13, Reorder
  <2>. QED  BY <2>9, <2>13, <2>16, <2>17, <2>18 DEF d
<1>. QED  BY <1>3, <1>4

\* A row that advances, and one that gets a block.
LEMMA AdvancedRow ==
  ASSUME NEW w \in RowType
  PROVE  LET v == Advanced(w)
         IN  /\ v \in RowType /\ v.id = w.id /\ v.out = w.out /\ v.blocks = w.blocks
             /\ v.offset = w.offset + w.query /\ v.query = 1 /\ v.last = (w.last + 1) % BlockSize
<1>. DEFINE v == Advanced(w)
<1>1. /\ w.id \in Requests /\ w.offset \in Nat /\ w.query \in Nat /\ w.out \in Nat
      /\ w.blocks \in Seq(Blocks) /\ w.last \in 0 .. BlockSize - 1
  BY RowFields
<1>2. (w.last + 1) % BlockSize \in 0 .. BlockSize - 1
  <2>1. BlockSize \in Nat /\ BlockSize > 0
    BY ContextAssumption
  <2>. QED  BY <1>1, <2>1
<1>3. w.offset + w.query \in Nat
  BY <1>1
<1>4. /\ v.id = w.id /\ v.out = w.out /\ v.blocks = w.blocks
      /\ v.offset = w.offset + w.query /\ v.query = 1 /\ v.last = (w.last + 1) % BlockSize
  BY DEF RowType, Advanced
<1>5. v \in RowType
  BY <1>2, <1>3 DEF RowType, Advanced
<1>. QED  BY <1>4, <1>5

\* A row with one more block.
LEMMA WithBlockRow ==
  ASSUME NEW w \in RowType, NEW b \in Blocks
  PROVE  LET v == WithBlock(w, b)
         IN  /\ v \in RowType /\ v.id = w.id /\ v.out = w.out /\ v.offset = w.offset
             /\ v.query = w.query /\ v.last = w.last /\ v.blocks = Append(w.blocks, b)
<1>. DEFINE v == WithBlock(w, b)
<1>1. w.blocks \in Seq(Blocks)
  BY RowFields
<1>2. Append(w.blocks, b) \in Seq(Blocks)
  BY <1>1
<1>3. /\ v.id = w.id /\ v.out = w.out /\ v.offset = w.offset
      /\ v.query = w.query /\ v.last = w.last /\ v.blocks = Append(w.blocks, b)
  BY DEF RowType, WithBlock
<1>4. v \in RowType
  BY <1>2 DEF RowType, WithBlock
<1>. QED  BY <1>3, <1>4

\* Step 7 of update_requests changes no row's blocks.
LEMMA AdvanceKeeps ==
  ASSUME NEW c \in ContextType
  PROVE  LET d == Advance(c)
         IN  /\ d \in ContextType /\ d.free = c.free /\ d.chunk = c.chunk /\ d.paused = c.paused
             /\ Len(d.rows) = Len(c.rows) /\ DOMAIN d.rows = DOMAIN c.rows
             /\ \A i \in DOMAIN c.rows :
                  /\ i <= c.paused => d.rows[i] = c.rows[i]
                  /\ i > c.paused => d.rows[i] = Advanced(c.rows[i])
             /\ Owned(c) => Owned(d)
<1>. DEFINE d == Advance(c)
            rows == [i \in DOMAIN c.rows |-> IF i <= c.paused THEN c.rows[i] ELSE Advanced(c.rows[i])]
<1>1. /\ c.free \in Seq(Blocks) /\ c.rows \in Seq(RowType) /\ c.paused \in Nat
      /\ c.chunk \in Requests \cup {None}
  BY ContextFields
<1>2. Len(c.rows) \in Nat /\ DOMAIN c.rows = 1 .. Len(c.rows) /\ \A i \in DOMAIN c.rows : c.rows[i] \in RowType
  BY <1>1, ElementOfSeq
<1>3. d = [c EXCEPT !.rows = rows]
  BY DEF Advance
<1>. HIDE DEF d
<1>4. \A i \in DOMAIN c.rows :
        /\ i <= c.paused => rows[i] = c.rows[i]
        /\ i > c.paused => rows[i] = Advanced(c.rows[i])
        /\ rows[i] \in RowType /\ rows[i].blocks = c.rows[i].blocks
  <2>. TAKE i \in DOMAIN c.rows
  <2>1. c.rows[i] \in RowType /\ i \in Int
    BY <1>2
  <2>2. Advanced(c.rows[i]) \in RowType /\ Advanced(c.rows[i]).blocks = c.rows[i].blocks
    BY <2>1, AdvancedRow
  <2>3. i <= c.paused <=> ~(i > c.paused)
    BY <1>1, <2>1
  <2>. QED  BY <2>1, <2>2, <2>3
<1>5. rows \in [1 .. Len(c.rows) -> RowType]
  BY <1>2, <1>4
<1>6. rows \in Seq(RowType) /\ Len(rows) = Len(c.rows) /\ DOMAIN rows = DOMAIN c.rows
  BY <1>2, <1>5
<1>. HIDE DEF rows
<1>7. /\ d \in ContextType /\ d.paused = c.paused /\ d.chunk = c.chunk
      /\ d.rows = rows /\ d.free = c.free
  BY <1>1, <1>3, <1>6 DEF ContextType
<1>8. Owned(c) => Owned(d)
  <2>1. DOMAIN d.rows = DOMAIN c.rows /\ d.free = c.free
        /\ \A i \in DOMAIN c.rows : d.rows[i].blocks = c.rows[i].blocks
    BY <1>4, <1>6, <1>7
  <2>. QED  BY <2>1 DEF Owned, FreeOwned, RowsOwned, AllOwned
<1>. QED  BY <1>4, <1>6, <1>7, <1>8 DEF d

-----------------------------------------------------------------------------
(* Rows that go on                                                         *)

\* One more element at the end of a sequence.
LEMMA AppendLists ==
  ASSUME NEW B, NEW s \in Seq(B), NEW x \in B
  PROVE  /\ Append(s, x) \in Seq(B) /\ Len(Append(s, x)) = Len(s) + 1
         /\ \A b : b \in ToSet(Append(s, x)) <=> b \in ToSet(s) \/ b = x
         /\ Injective(s) /\ x \notin ToSet(s) => Injective(Append(s, x))
<1>. DEFINE t == Append(s, x)
            n == Len(s)
<1>1. /\ t \in Seq(B) /\ Len(t) = n + 1 /\ n \in Nat /\ DOMAIN s = 1 .. n /\ DOMAIN t = 1 .. n + 1
      /\ \A i \in 1 .. n : t[i] = s[i]
      /\ t[n + 1] = x
  OBVIOUS
<1>. HIDE DEF t, n
<1>2. \A i \in 1 .. n + 1 : i \in 1 .. n \/ i = n + 1
  BY <1>1
<1>3. \A i \in 1 .. n : i \in 1 .. n + 1 /\ s[i] \in ToSet(s)
  BY <1>1 DEF ToSet
<1>4. n + 1 \in 1 .. n + 1
  BY <1>1
<1>5. \A b : b \in ToSet(t) <=> b \in ToSet(s) \/ b = x
  <2>. SUFFICES ASSUME NEW b PROVE b \in ToSet(t) <=> b \in ToSet(s) \/ b = x
    OBVIOUS
  <2>1. b \in ToSet(t) <=> \E i \in 1 .. n + 1 : t[i] = b
    BY <1>1 DEF ToSet
  <2>2. b \in ToSet(s) <=> \E i \in 1 .. n : s[i] = b
    BY <1>1 DEF ToSet
  <2>. QED  BY <1>1, <1>2, <1>3, <1>4, <2>1, <2>2
<1>6. Injective(s) /\ x \notin ToSet(s) => Injective(t)
  BY <1>1, <1>2, <1>3 DEF Injective
<1>. QED  BY <1>1, <1>5, <1>6 DEF t, n

\* How many paused rows can go on: no more than there are, nor than there are
\* free blocks.
LEMMA ResumableBounds ==
  ASSUME NEW c \in ContextType, c.paused <= Len(c.rows)
  PROVE  Resumable(c) \in Nat /\ Resumable(c) <= c.paused /\ Resumable(c) <= Len(c.free)
<1>. DEFINE Fits(k) == Len(BlocksOf(SubSeq(c.rows, c.paused - k + 1, c.paused))) + k <= ActiveAvail(c)
            S == { k \in 1 .. c.paused : Fits(k) }
            n == Cardinality(S)
<1>1. c.paused \in Nat /\ Len(c.free) \in Nat
  BY ContextFields
<1>2. Resumable(c) = IF n <= Len(c.free) THEN n ELSE Len(c.free)
  BY DEF Resumable
<1>. HIDE DEF Fits
<1>3. S \in SUBSET (1 .. c.paused)
  OBVIOUS
<1>. HIDE DEF S
<1>4. n \in 0 .. c.paused
  BY <1>1, <1>3, Positions
<1>. HIDE DEF n
<1>. QED  BY <1>1, <1>2, <1>4

\* resume_paused_requests gives each of them one block, and changes no other row.
LEMMA ResumeKeeps ==
  ASSUME NEW c \in ContextType, c.paused <= Len(c.rows)
  PROVE  LET d == Resume(c)
             n == Resumable(c)
         IN  /\ d \in ContextType /\ d.chunk = c.chunk /\ d.paused = c.paused - n
             /\ d.paused \in Nat /\ d.paused <= c.paused
             /\ d.free = FreeAfter(c, n) /\ Len(d.free) = Len(c.free) - n
             /\ Len(d.rows) = Len(c.rows) /\ DOMAIN d.rows = DOMAIN c.rows
             /\ \A i \in DOMAIN c.rows :
                  IF i \in d.paused + 1 .. c.paused
                  THEN \E b \in Blocks : d.rows[i] = WithBlock(c.rows[i], b)
                  ELSE d.rows[i] = c.rows[i]
             /\ Owned(c) => Owned(d)
<1>. DEFINE d == Resume(c)
            n == Resumable(c)
            first == c.paused - n
            top == Allocated(c, n)
            D == DOMAIN c.rows
            rows == [i \in D |-> IF i \in first + 1 .. c.paused
                                 THEN WithBlock(c.rows[i], top[i - first]) ELSE c.rows[i]]
<1>1. /\ c.free \in Seq(Blocks) /\ c.rows \in Seq(RowType) /\ c.paused \in Nat
      /\ c.chunk \in Requests \cup {None}
  BY ContextFields
<1>2. Len(c.rows) \in Nat /\ D = 1 .. Len(c.rows) /\ \A i \in D : c.rows[i] \in RowType
  BY <1>1, ElementOfSeq
<1>3. n \in Nat /\ n <= c.paused /\ n <= Len(c.free) /\ n \in 0 .. Len(c.free) /\ Len(c.free) \in Nat
  BY <1>1, ResumableBounds
<1>4. d = [c EXCEPT !.free = FreeAfter(c, n), !.rows = rows, !.paused = first]
  BY DEF Resume
<1>. HIDE DEF n, d
<1>5. first \in Nat /\ first <= c.paused /\ first + n = c.paused
  BY <1>1, <1>3
<1>6. top \in Seq(Blocks) /\ Len(top) = n /\ DOMAIN top = 1 .. n /\ \A j \in 1 .. n : top[j] \in Blocks
  <2>1. top \in Seq(Blocks) /\ Len(top) = n
    BY <1>1, <1>3, Suffix DEF Allocated
  <2>. QED  BY <1>3, <2>1
<1>7. FreeAfter(c, n) \in Seq(Blocks) /\ Len(FreeAfter(c, n)) = Len(c.free) - n
  BY <1>1, <1>3 DEF FreeAfter
<1>. HIDE DEF top, first, D
<1>8. \A i \in first + 1 .. c.paused : i - first \in 1 .. n /\ i \in D
  BY <1>1, <1>2, <1>3, <1>5
<1>9. \A i \in D : /\ i \in first + 1 .. c.paused => /\ rows[i] = WithBlock(c.rows[i], top[i - first])
                                                     /\ top[i - first] \in Blocks
                   /\ i \notin first + 1 .. c.paused => rows[i] = c.rows[i]
                   /\ rows[i] \in RowType
  <2>. TAKE i \in D
  <2>1. CASE i \in first + 1 .. c.paused
    <3>1. top[i - first] \in Blocks
      BY <1>6, <1>8, <2>1
    <3>2. WithBlock(c.rows[i], top[i - first]) \in RowType
      BY <1>2, <3>1, WithBlockRow
    <3>. QED  BY <2>1, <3>1, <3>2
  <2>2. CASE i \notin first + 1 .. c.paused
    BY <1>2, <2>2
  <2>. QED  BY <2>1, <2>2
<1>10. rows \in [1 .. Len(c.rows) -> RowType]
  BY <1>2, <1>9
<1>11. rows \in Seq(RowType) /\ Len(rows) = Len(c.rows) /\ DOMAIN rows = D
  BY <1>2, <1>10
<1>. HIDE DEF rows
<1>12. /\ d \in ContextType /\ d.chunk = c.chunk /\ d.paused = first /\ d.rows = rows
       /\ d.free = FreeAfter(c, n)
  BY <1>1, <1>4, <1>5, <1>7, <1>11 DEF ContextType
<1>13. ASSUME Owned(c) PROVE Owned(d)
  <2>. DEFINE B(w) == ToSet(w.blocks)
              old == [i \in D |-> B(c.rows[i])]
              new == [i \in D |-> IF i \in first + 1 .. c.paused THEN {top[i - first]} ELSE {}]
  <2>1. /\ \A i \in D : Injective(c.rows[i].blocks) /\ B(c.rows[i]) \cap ToSet(c.free) = {}
        /\ \A i, j \in D : i # j => B(c.rows[i]) \cap B(c.rows[j]) = {}
        /\ Injective(c.free)
    BY <1>13 DEF Owned, FreeOwned, RowsOwned, D
  <2>2. \A b \in Blocks : b \in ToSet(c.free) \/ \E i \in D : b \in B(c.rows[i])
    BY <1>13 DEF Owned, AllOwned, D
  <2>3. /\ Injective(top)
        /\ \A b : b \in ToSet(top) => b \in ToSet(c.free)
    BY <1>1, <1>3, <2>1, StackParts DEF top, Allocated
  <2>4. \A i \in D : i \in first + 1 .. c.paused => top[i - first] \in ToSet(top)
    BY <1>6, <1>8 DEF ToSet
  <2>5. \A i \in D : Injective(rows[i].blocks) /\ \A b : b \in B(rows[i]) <=> b \in old[i] \/ b \in new[i]
    <3>. TAKE i \in D
    <3>1. CASE i \in first + 1 .. c.paused
      <4>. DEFINE x == top[i - first]
                  s == c.rows[i].blocks
      <4>1. s \in Seq(Blocks) /\ x \in Blocks
        BY <1>2, <1>9, <3>1, RowFields
      <4>2. x \notin ToSet(s) /\ Injective(s)
        BY <2>1, <2>3, <2>4, <3>1
      <4>3. rows[i].blocks = Append(s, x)
        BY <1>2, <1>9, <3>1, WithBlockRow, SMTT(30)
      <4>. HIDE DEF s, x
      <4>4. Injective(Append(s, x)) /\ \A b : b \in ToSet(Append(s, x)) <=> b \in ToSet(s) \/ b = x
        BY <4>1, <4>2, AppendLists
      <4>5. old[i] = ToSet(s) /\ new[i] = {x}
        BY <3>1 DEF s, x
      <4>. QED  BY <4>3, <4>4, <4>5
    <3>2. CASE i \notin first + 1 .. c.paused
      <4>1. rows[i] = c.rows[i] /\ new[i] = {} /\ old[i] = B(c.rows[i])
        BY <1>9, <3>2
      <4>. QED  BY <2>1, <4>1
    <3>. QED  BY <3>1, <3>2
  <2>6. \A i, j \in D : i # j => new[i] \cap new[j] = {}
    <3>. SUFFICES ASSUME NEW i \in D, NEW j \in D, i # j, NEW b, b \in new[i], b \in new[j] PROVE FALSE
      OBVIOUS
    <3>1. i \in first + 1 .. c.paused /\ j \in first + 1 .. c.paused /\ top[i - first] = top[j - first]
      OBVIOUS
    <3>2. i - first = j - first
      BY <1>6, <1>8, <2>3, <3>1 DEF Injective
    <3>. QED  BY <1>1, <1>5, <3>1, <3>2
  <2>7. \A i \in D : old[i] \cap ToSet(c.free) = {}
    BY <2>1
  <2>8. \A i, j \in D : i # j => old[i] \cap old[j] = {}
    BY <2>1
  <2>9. \A b : b \in ToSet(top) <=> \E i \in D : b \in new[i]
    <3>. SUFFICES ASSUME NEW b PROVE b \in ToSet(top) <=> \E i \in D : b \in new[i]
      OBVIOUS
    <3>1. ASSUME b \in ToSet(top) PROVE \E i \in D : b \in new[i]
      <4>1. PICK j \in 1 .. n : top[j] = b
        BY <1>6, <3>1 DEF ToSet
      <4>2. first + j \in first + 1 .. c.paused /\ (first + j) - first = j
        BY <1>1, <1>3, <1>5
      <4>3. first + j \in D /\ new[first + j] = {top[(first + j) - first]}
        BY <1>8, <4>2
      <4>. QED  BY <4>1, <4>2, <4>3
    <3>2. ASSUME NEW i \in D, b \in new[i] PROVE b \in ToSet(top)
      BY <2>4, <3>2
    <3>. QED  BY <3>1, <3>2
  <2>10. \A b \in Blocks : b \in ToSet(c.free) \/ \E i \in D : b \in old[i]
    BY <2>2
  <2>. HIDE DEF old, new
  <2>11. DOMAIN d.rows = D /\ d.rows = rows
    BY <1>11, <1>12
  <2>12. Shares(c, d, n, old, new)
    BY <1>12, <2>1, <2>5, <2>6, <2>7, <2>8, <2>9, <2>10, <2>11 DEF Shares, top
  <2>. QED  BY <1>3, <1>12, <2>12, Acquire
<1>14. \A i \in D : IF i \in first + 1 .. c.paused
                    THEN \E b \in Blocks : rows[i] = WithBlock(c.rows[i], b)
                    ELSE rows[i] = c.rows[i]
  BY <1>9
<1>. QED  BY <1>5, <1>7, <1>11, <1>12, <1>13, <1>14 DEF d, n, first, D

-----------------------------------------------------------------------------
(* Rows that are evicted                                                   *)

\* The rows from i to j.
LEMMA RowsBetween ==
  ASSUME NEW c \in ContextType, NEW i \in Nat \ {0}, NEW j \in Nat, j <= Len(c.rows)
  PROVE  /\ SubSeq(c.rows, i, j) \in Seq(RowType)
         /\ Len(SubSeq(c.rows, i, j)) = (IF i <= j THEN j - i + 1 ELSE 0)
         /\ \A k \in 1 .. j - i + 1 : SubSeq(c.rows, i, j)[k] = c.rows[i + k - 1]
                                      /\ i + k - 1 \in DOMAIN c.rows
         /\ Len(BlocksOf(SubSeq(c.rows, i, j))) \in Nat
<1>. DEFINE s == c.rows
            t == SubSeq(s, i, j)
<1>1. s \in Seq(RowType) /\ Len(s) \in Nat /\ DOMAIN s = 1 .. Len(s) /\ j <= Len(s)
  BY ContextFields
<1>. HIDE DEF s
<1>2. /\ t \in Seq(RowType) /\ Len(t) = (IF i <= j THEN j - i + 1 ELSE 0)
      /\ \A k \in 1 .. j - i + 1 : t[k] = s[i + k - 1] /\ i + k - 1 \in DOMAIN s
  BY <1>1
<1>. HIDE DEF t
<1>3. BlocksOf(t) \in Seq(Blocks)
  BY <1>2, BlocksOfLists
<1>4. Len(BlocksOf(t)) \in Nat
  BY <1>3
<1>. QED  BY <1>2, <1>4 DEF s, t

\* How many paused rows are evicted: none when the paused rows fit in their part
\* of the memory, and not all of them when a single one would have been enough.
LEMMA EvictedBounds ==
  ASSUME NEW c \in ContextType, c.paused <= Len(c.rows)
  PROVE  /\ Evicted(c) \in Nat /\ Evicted(c) <= c.paused
         /\ Evicted(c) = 0 => PausedOverflow(c) <= 0
         /\ Evicted(c) = c.paused /\ c.paused > 1 => Len(BlocksOf(SubSeq(c.rows, 2, c.paused))) < 1
<1>. DEFINE Count(i, j) == Len(BlocksOf(SubSeq(c.rows, i, j)))
            P == c.paused
            V == { k \in 1 .. P : Count(1, k) <= PausedBlocks }
            over == P - Cardinality(V)
            Enough(k) == Count(P - k + 1, P) >= over - k
            T == { k \in 1 .. over : Enough(k) }
            IsLeast(k) == Enough(k) /\ \A m \in 1 .. k - 1 : ~Enough(m)
<1>1. P \in Nat /\ PausedBlocks \in Nat
  BY ContextFields, ContextAssumption
<1>2. Evicted(c) = IF PausedOverflow(c) <= 0 \/ over = 0 THEN 0 ELSE CHOOSE k \in 1 .. over : IsLeast(k)
  BY DEF Evicted
<1>3. PausedOverflow(c) = Count(1, P) - PausedBlocks
  BY DEF PausedOverflow, PausedRows
<1>4. \A i \in Nat \ {0} : \A j \in 0 .. P : Count(i, j) \in Nat
  <2>. SUFFICES ASSUME NEW i \in Nat \ {0}, NEW j \in 0 .. P PROVE Count(i, j) \in Nat
    OBVIOUS
  <2>1. j \in Nat /\ j <= Len(c.rows)
    BY <1>1, ContextFields
  <2>. QED  BY <2>1, RowsBetween
<1>. HIDE DEF Count
<1>5. V \in SUBSET (1 .. P)
  OBVIOUS
<1>6. Cardinality(V) \in 0 .. P /\ (Cardinality(V) = P => V = 1 .. P)
  BY <1>1, <1>5, Positions
<1>7. over \in 0 .. P
  BY <1>1, <1>6
<1>8. ASSUME over = 0 PROVE PausedOverflow(c) <= 0
  <2>1. Cardinality(V) = P
    BY <1>1, <1>6, <1>8
  <2>2. CASE P = 0
    <3>1. Count(1, P) = 0
      <4>1. SubSeq(c.rows, 1, 0) = << >>
        <5>1. c.rows \in Seq(RowType)
          BY ContextFields
        <5>. QED  BY <5>1
      <4>2. SubSeq(c.rows, 1, P) = << >>
        BY <2>2, <4>1
      <4>3. Count(1, P) = Len(<< >>)
        BY <4>2, BlocksOfNone DEF Count
      <4>. QED  BY <4>3
    <3>. QED  BY <1>1, <1>3, <3>1
  <2>3. CASE P # 0
    <3>1. P \in V
      BY <1>1, <1>6, <2>1, <2>3
    <3>2. Count(1, P) <= PausedBlocks
      BY <3>1
    <3>3. Count(1, P) \in Nat
      BY <1>1, <1>4
    <3>. QED  BY <1>1, <1>3, <3>2, <3>3
  <2>. QED  BY <2>2, <2>3
<1>. HIDE DEF over, V
<1>9. ASSUME over # 0
      PROVE  \E k \in 1 .. over : IsLeast(k)
  <2>1. over \in T
    <3>1. over \in 1 .. over /\ P - over + 1 \in Nat \ {0} /\ over - over = 0
      BY <1>1, <1>7, <1>9
    <3>2. Count(P - over + 1, P) \in Nat
      BY <1>1, <1>4, <3>1
    <3>. QED  BY <3>1, <3>2
  <2>2. T \subseteq Nat
    BY <1>7
  <2>. HIDE DEF Enough
  <2>3. PICK k \in T : \A m \in T : k <= m
    BY <2>1, <2>2, Least
  <2>4. \A m \in 1 .. k - 1 : ~Enough(m)
    <3>. SUFFICES ASSUME NEW m \in 1 .. k - 1, Enough(m) PROVE FALSE
      OBVIOUS
    <3>1. k \in 1 .. over /\ over \in Int
      BY <1>7
    <3>2. m \in 1 .. over
      BY <3>1
    <3>3. k <= m
      BY <2>3, <3>2
    <3>. QED  BY <3>1, <3>3
  <2>. QED  BY <2>3, <2>4
<1>. DEFINE n == Evicted(c)
<1>10. \/ n = 0 /\ PausedOverflow(c) <= 0
       \/ n \in 1 .. over /\ IsLeast(n)
  <2>1. CASE PausedOverflow(c) <= 0 \/ over = 0
    BY <1>2, <1>8, <2>1
  <2>2. CASE ~(PausedOverflow(c) <= 0 \/ over = 0)
    <3>. HIDE DEF IsLeast
    <3>1. n = CHOOSE k \in 1 .. over : IsLeast(k)
      BY <1>2, <2>2
    <3>. HIDE DEF n
    <3>. QED  BY <1>9, <2>2, <3>1
  <2>. QED  BY <2>1, <2>2
<1>. HIDE DEF n
<1>11. n \in Nat /\ n <= P /\ (n = 0 => PausedOverflow(c) <= 0)
  BY <1>1, <1>7, <1>10
<1>12. ASSUME n = P, P > 1 PROVE Count(2, P) < 1
  <2>1. n \in 1 .. over /\ IsLeast(n)
    BY <1>1, <1>10, <1>12
  <2>2. over = P
    BY <1>1, <1>7, <1>12, <2>1
  <2>3. P - 1 \in 1 .. n - 1
    BY <1>1, <1>12
  <2>4. ~Enough(P - 1)
    BY <2>1, <2>3
  <2>5. P - (P - 1) + 1 = 2 /\ P - (P - 1) = 1
    BY <1>1
  <2>6. ~(Count(2, P) >= 1)
    BY <2>2, <2>4, <2>5
  <2>7. Count(2, P) \in Nat
    BY <1>1, <1>4
  <2>. QED  BY <2>6, <2>7
<1>. QED  BY <1>11, <1>12 DEF n, Count

\* What Evict does with the positions of the rows.
Evicts(p, c) ==
  LET d == Evict(c)
  IN  /\ Selects(p, c.rows, d.rows)
      /\ \A i \in DOMAIN d.rows : i <= d.paused => p[i] = i
      /\ \A i \in DOMAIN d.rows : i > d.paused => p[i] > c.paused
      /\ \A x \in DOMAIN c.rows : x <= d.paused \/ x > c.paused => \E i \in DOMAIN d.rows : p[i] = x

\* evict_overflow_paused_requests keeps the active rows and the other paused
\* ones, and releases the blocks of the evicted rows.
LEMMA EvictKeeps ==
  ASSUME NEW c \in ContextType, c.paused <= Len(c.rows)
  PROVE  LET d == Evict(c)
             n == Evicted(c)
         IN  /\ d \in ContextType /\ d.chunk = c.chunk /\ d.paused = c.paused - n
             /\ d.free = c.free \o BlocksOf(SubSeq(c.rows, d.paused + 1, c.paused))
             /\ Len(d.rows) = Len(c.rows) - n /\ d.paused <= Len(d.rows)
             /\ Owned(c) => Owned(d)
             /\ \E p : Evicts(p, c)
<1>. DEFINE d == Evict(c)
            n == Evicted(c)
            P == c.paused
            total == Len(c.rows)
            active == total - P
            first == P - n
            m == IF n < active THEN n ELSE active
            to == IF n < active THEN total - n ELSE P
            left == [j \in 1 .. m |-> first + j]
            right == [j \in 1 .. m |-> to + j]
            placed == Exchange(c.rows, left, right)
            gone == SubSeq(c.rows, first + 1, P)
            rows == SubSeq(placed, 1, total - n)
<1>1. /\ c.free \in Seq(Blocks) /\ c.rows \in Seq(RowType) /\ P \in Nat
      /\ c.chunk \in Requests \cup {None}
  BY ContextFields
<1>2. total \in Nat /\ DOMAIN c.rows = 1 .. total /\ P <= total
  BY <1>1
<1>3. n \in Nat /\ n <= P
  BY EvictedBounds
<1>4. d = [c EXCEPT !.free = @ \o BlocksOf(gone), !.rows = rows, !.paused = first]
  BY DEF Evict
<1>. HIDE DEF d, n, P, total
<1>5. /\ first \in Nat /\ m \in Nat /\ to \in Nat /\ first + m <= P /\ P <= to /\ to + m = total
      /\ first + n = P /\ m <= n
  BY <1>1, <1>2, <1>3
<1>6. /\ \A i \in 1 .. total - n : i > first + m => i > P /\ i <= to
      /\ \A x \in 1 .. total : x > P /\ x <= to => x <= total - n
      /\ total - n \in 0 .. total /\ first <= total - n /\ first + m <= total - n
  BY <1>1, <1>2, <1>3
<1>. HIDE DEF first, m, to
<1>7. \A j \in 1 .. m : first + j \in 1 .. total /\ to + j \in 1 .. total
  BY <1>1, <1>2, <1>5
<1>8. /\ left \in Seq(DOMAIN c.rows) /\ Len(left) = m /\ \A j \in 1 .. m : left[j] = first + j
      /\ right \in Seq(DOMAIN c.rows) /\ Len(right) = m /\ \A j \in 1 .. m : right[j] = to + j
      /\ DOMAIN left = 1 .. m /\ DOMAIN right = 1 .. m
  <2>1. left \in [1 .. m -> DOMAIN c.rows] /\ right \in [1 .. m -> DOMAIN c.rows]
    BY <1>2, <1>7
  <2>2. \A j \in 1 .. m : left[j] = first + j /\ right[j] = to + j
    OBVIOUS
  <2>. HIDE DEF left, right
  <2>3. \A f \in [1 .. m -> DOMAIN c.rows] : f \in Seq(DOMAIN c.rows) /\ Len(f) = m /\ DOMAIN f = 1 .. m
    BY <1>5
  <2>. QED  BY <2>1, <2>2, <2>3
<1>9. Injective(left) /\ Injective(right) /\ \A j, k \in 1 .. Len(left) : left[j] = right[k] => j = k
  <2>. HIDE DEF left, right
  <2>1. Injective(left) /\ Injective(right)
    <3>1. \A j, k \in 1 .. m : first + j = first + k => j = k
      BY <1>5
    <3>2. \A j, k \in 1 .. m : to + j = to + k => j = k
      BY <1>5
    <3>3. \A j, k \in DOMAIN left : left[j] = left[k] => j = k
      BY <1>8, <3>1
    <3>4. \A j, k \in DOMAIN right : right[j] = right[k] => j = k
      BY <1>8, <3>2
    <3>. QED  BY <3>3, <3>4 DEF Injective
  <2>2. \A j, k \in 1 .. m : left[j] # right[k]
    <3>1. \A j, k \in 1 .. m : first + j < to + k /\ first + j \in Int /\ to + k \in Int
      BY <1>1, <1>5
    <3>2. \A a, b \in Int : a < b => a # b
      OBVIOUS
    <3>. QED  BY <1>8, <3>1, <3>2
  <2>. QED  BY <1>8, <2>1, <2>2
<1>. HIDE DEF left, right
<1>10. /\ placed \in Seq(RowType) /\ Len(placed) = total
       /\ \E q : Swaps(q, c.rows, left, right)
  BY <1>1, <1>8, <1>9, ExchangeSelects DEF total
<1>11. PICK q : Swaps(q, c.rows, left, right)
  BY <1>10
<1>12. /\ Selects(q, c.rows, placed)
       /\ \A j \in 1 .. m : q[first + j] = to + j /\ q[to + j] = first + j
  <2>1. Len(left) = m
    BY <1>8
  <2>. QED  BY <1>8, <1>11, <2>1 DEF Swaps
<1>13. \A i \in 1 .. total : (i <= first \/ i > first + m) /\ i <= to => q[i] = i
  <2>. SUFFICES ASSUME NEW i \in 1 .. total, i <= first \/ i > first + m, i <= to PROVE q[i] = i
    OBVIOUS
  <2>1. \A j \in 1 .. m : i # first + j /\ i # to + j
    BY <1>2, <1>5
  <2>2. i \notin ToSet(left) \cup ToSet(right)
    BY <1>8, <2>1 DEF ToSet
  <2>. QED  BY <1>2, <1>11, <2>2 DEF Swaps
<1>. HIDE DEF placed
<1>. DEFINE p == [i \in 1 .. total - n |-> q[i]]
<1>14. Selects(p, c.rows, rows) /\ rows \in Seq(RowType) /\ Len(rows) = total - n
  <2>1. total - n \in 0 .. Len(placed)
    BY <1>6, <1>10
  <2>. QED  BY <1>10, <1>12, <2>1, SelectsFirst
<1>. HIDE DEF rows
<1>15. DOMAIN rows = 1 .. total - n
  BY <1>14
<1>16. \A i \in 1 .. total - n : p[i] = q[i] /\ i \in 1 .. total
  BY <1>2, <1>6
<1>. HIDE DEF p
<1>17. \A i \in DOMAIN rows : i <= first => p[i] = i
  <2>1. \A i \in 1 .. total : i <= first => i <= to
    BY <1>2, <1>3, <1>5
  <2>. QED  BY <1>13, <1>15, <1>16, <2>1
<1>18. \A i \in DOMAIN rows : i > first => p[i] > P
  <2>. SUFFICES ASSUME NEW i \in DOMAIN rows, i > first PROVE p[i] > P
    OBVIOUS
  <2>1. i \in 1 .. total /\ p[i] = q[i] /\ i \in 1 .. total - n
    BY <1>15, <1>16
  <2>2. CASE i > first + m
    <3>1. i > P /\ i <= to
      BY <1>6, <2>1, <2>2
    <3>. QED  BY <1>13, <2>1, <2>2, <3>1
  <2>3. CASE ~(i > first + m)
    <3>1. i - first \in 1 .. m /\ first + (i - first) = i
      BY <1>2, <1>5, <2>1, <2>3
    <3>2. q[i] = to + (i - first)
      BY <1>12, <3>1
    <3>. QED  BY <1>1, <1>5, <2>1, <3>1, <3>2
  <2>. QED  BY <2>2, <2>3
<1>19. \A x \in DOMAIN c.rows : x <= first \/ x > P => \E i \in DOMAIN rows : p[i] = x
  <2>. SUFFICES ASSUME NEW x \in DOMAIN c.rows, x <= first \/ x > P PROVE \E i \in DOMAIN rows : p[i] = x
    OBVIOUS
  <2>1. x \in 1 .. total
    BY <1>2
  <2>2. CASE x <= to
    <3>1. x \in 1 .. total - n
      <4>1. CASE x <= first
        BY <1>2, <1>3, <1>5, <1>6, <2>1, <4>1
      <4>2. CASE x > P
        BY <1>2, <1>3, <1>6, <2>1, <2>2, <4>2
      <4>. QED  BY <4>1, <4>2
    <3>2. x <= first \/ x > first + m
      BY <1>1, <1>5, <2>1
    <3>. QED  BY <1>13, <1>15, <1>16, <2>1, <2>2, <3>1, <3>2
  <2>3. CASE ~(x <= to)
    <3>1. x - to \in 1 .. m /\ to + (x - to) = x
      BY <1>2, <1>5, <2>1, <2>3
    <3>2. first + (x - to) \in 1 .. total - n
      BY <1>2, <1>3, <1>5, <1>6, <2>1, <3>1
    <3>3. q[first + (x - to)] = to + (x - to)
      BY <1>12, <3>1
    <3>. QED  BY <1>15, <1>16, <3>1, <3>2, <3>3
  <2>. QED  BY <2>2, <2>3
<1>20. gone \in Seq(RowType) /\ Len(gone) = n /\ \A k \in 1 .. n : gone[k] = c.rows[first + k] /\ first + k \in DOMAIN c.rows
  <2>1. first + 1 \in Nat \ {0} /\ P - (first + 1) + 1 = n /\ (first + 1 <= P <=> n # 0)
    BY <1>1, <1>3, <1>5
  <2>2. /\ gone \in Seq(RowType) /\ Len(gone) = (IF first + 1 <= P THEN P - (first + 1) + 1 ELSE 0)
        /\ \A k \in 1 .. P - (first + 1) + 1 : gone[k] = c.rows[first + 1 + k - 1] /\ first + 1 + k - 1 \in DOMAIN c.rows
    BY <1>1, <1>2, <2>1, RowsBetween DEF total
  <2>3. \A k \in 1 .. n : first + 1 + k - 1 = first + k
    BY <1>3, <1>5
  <2>. QED  BY <2>1, <2>2, <2>3
<1>. HIDE DEF gone
<1>21. BlocksOf(gone) \in Seq(Blocks) /\ c.free \o BlocksOf(gone) \in Seq(Blocks)
  BY <1>1, <1>20, BlocksOfLists
<1>22. /\ d \in ContextType /\ d.chunk = c.chunk /\ d.paused = first /\ d.rows = rows
       /\ d.free = c.free \o BlocksOf(gone)
  BY <1>1, <1>4, <1>5, <1>14, <1>21 DEF ContextType
<1>23. Evicts(p, c)
  BY <1>14, <1>17, <1>18, <1>19, <1>22 DEF Evicts, d, P
<1>. DEFINE g == [k \in 1 .. n |-> first + k]
<1>24. Selects(g, c.rows, gone)
  <2>1. g \in [1 .. n -> DOMAIN c.rows] /\ \A k \in 1 .. n : g[k] = first + k
    BY <1>20
  <2>2. \A i, j \in 1 .. n : g[i] = g[j] => i = j
    BY <1>3, <1>5
  <2>. HIDE DEF g
  <2>3. gone = [k \in 1 .. n |-> gone[k]]
    BY <1>20
  <2>4. gone = [k \in 1 .. n |-> c.rows[g[k]]]
    BY <1>20, <2>1, <2>3
  <2>. QED  BY <1>20, <2>1, <2>2, <2>4 DEF Selects
<1>25. Owned(c) => Owned(d)
  <2>. SUFFICES ASSUME Owned(c) PROVE Owned(d)
    OBVIOUS
  <2>1. DOMAIN gone = 1 .. n
    BY <1>20
  <2>2. \A k \in 1 .. n : g[k] = first + k /\ first + k > first /\ first + k <= P
    BY <1>3, <1>5
  <2>. HIDE DEF g
  <2>3. \A i \in DOMAIN d.rows, j \in DOMAIN gone : p[i] # g[j]
    <3>. SUFFICES ASSUME NEW i \in DOMAIN rows, NEW j \in 1 .. n PROVE p[i] # g[j]
      BY <1>22, <2>1
    <3>1. g[j] \in Int /\ g[j] > first /\ g[j] <= P
      BY <1>5, <2>2
    <3>2. CASE i <= first
      BY <1>5, <1>15, <1>17, <3>1, <3>2
    <3>3. CASE i > first
      BY <1>1, <1>18, <3>1, <3>3
    <3>4. i \in Int /\ first \in Int
      BY <1>5, <1>15
    <3>. QED  BY <3>2, <3>3, <3>4
  <2>4. \A x \in DOMAIN c.rows : (\E i \in DOMAIN d.rows : p[i] = x) \/ (\E j \in DOMAIN gone : g[j] = x)
    <3>. SUFFICES ASSUME NEW x \in DOMAIN c.rows, ~(x <= first), ~(x > P)
                  PROVE  \E j \in DOMAIN gone : g[j] = x
      BY <1>19, <1>22
    <3>1. x - first \in 1 .. n /\ first + (x - first) = x
      BY <1>1, <1>2, <1>3, <1>5
    <3>. QED  BY <2>1, <2>2, <3>1
  <2>5. Selects(p, c.rows, d.rows) /\ d.free = c.free \o BlocksOf(gone) /\ d \in ContextType
    BY <1>14, <1>22
  <2>6. Releases(c, d, gone, p, g)
    BY <1>24, <2>3, <2>4, <2>5 DEF Releases
  <2>. QED  BY <1>20, <2>5, <2>6, Release
<1>26. Len(d.rows) = total - n /\ d.paused <= Len(d.rows)
  BY <1>2, <1>6, <1>14, <1>22
<1>. QED  BY <1>22, <1>23, <1>25, <1>26 DEF d, n, P, total, first, gone

-----------------------------------------------------------------------------
(* The rows in the middle of update_requests                               *)

\* The next token of the row has a slot in the last block.
NextSlot(w) == w.offset + w.query = (Len(w.blocks) - 1) * BlockSize + ((w.last + 1) % BlockSize)

\* The tokens in the blocks before the last one.
Base(w) == (Len(w.blocks) - 1) * BlockSize

\* A row that has not filled its last block has a slot for the next token; one
\* that has filled it has one as soon as it gets a block; and the row that
\* advances uses it.
LEMMA Slots ==
  ASSUME NEW w \in RowType
  PROVE  /\ InItsSlot(w) /\ w.last # BlockSize - 1 => NextSlot(w)
         /\ \A b \in Blocks : InItsSlot(w) /\ w.last = BlockSize - 1 => NextSlot(WithBlock(w, b))
         /\ NextSlot(w) => InItsSlot(Advanced(w))
<1>. DEFINE Slot(v) == Base(v) + v.last
            Next1(v) == (v.last + 1) % BlockSize
<1>1. /\ w.offset \in Nat /\ w.query \in Nat /\ w.blocks \in Seq(Blocks) /\ w.last \in 0 .. BlockSize - 1
      /\ Len(w.blocks) \in Nat /\ BlockSize \in Nat /\ BlockSize > 0
  BY RowFields, ContextAssumption
<1>2. Base(w) \in Int
  BY <1>1 DEF Base
<1>3. \A v : InItsSlot(v) <=> v.offset + v.query - 1 = Slot(v)
  BY DEF InItsSlot, Base
<1>4. \A v \in RowType : NextSlot(v) <=> v.offset + v.query = Base(v) + Next1(v)
  <2>. SUFFICES ASSUME NEW v \in RowType PROVE NextSlot(v) <=> v.offset + v.query = Base(v) + Next1(v)
    OBVIOUS
  <2>1. /\ v.offset \in Nat /\ v.query \in Nat /\ v.last \in 0 .. BlockSize - 1
        /\ Len(v.blocks) \in Nat /\ BlockSize \in Nat /\ BlockSize > 0
    BY RowFields, ContextAssumption
  <2>. QED  BY <2>1 DEF NextSlot, Base
<1>5. w.last = BlockSize - 1 => Next1(w) = 0
  <2>1. w.last = BlockSize - 1 => w.last + 1 = BlockSize
    BY <1>1
  <2>2. BlockSize % BlockSize = 0
    BY <1>1
  <2>. QED  BY <2>1, <2>2
<1>6. w.last # BlockSize - 1 => Next1(w) = w.last + 1
  <2>1. w.last # BlockSize - 1 => w.last + 1 \in 0 .. BlockSize - 1
    BY <1>1
  <2>2. \A x \in 0 .. BlockSize - 1 : x % BlockSize = x
    BY <1>1
  <2>. QED  BY <2>1, <2>2
<1>7. ASSUME InItsSlot(w), w.last # BlockSize - 1 PROVE NextSlot(w)
  <2>1. w.offset + w.query - 1 = Base(w) + w.last
    BY <1>3, <1>7
  <2>2. w.offset + w.query = Base(w) + (w.last + 1)
    BY <1>1, <1>2, <2>1, SMTT(30)
  <2>3. w.offset + w.query = Base(w) + Next1(w)
    BY <1>6, <1>7, <2>2
  <2>. QED  BY <1>4, <2>3
<1>8. ASSUME NEW b \in Blocks, InItsSlot(w), w.last = BlockSize - 1
      PROVE  NextSlot(WithBlock(w, b))
  <2>. DEFINE v == WithBlock(w, b)
  <2>1. /\ v.offset = w.offset /\ v.query = w.query /\ v.last = w.last /\ v.blocks = Append(w.blocks, b)
        /\ v \in RowType
    BY WithBlockRow
  <2>2. Len(v.blocks) = Len(w.blocks) + 1
    BY <1>1, <2>1
  <2>. HIDE DEF v
  <2>3. Base(v) = Base(w) + BlockSize
    BY <1>1, <2>2 DEF Base
  <2>4. Next1(v) = 0
    BY <1>5, <1>8, <2>1
  <2>5. w.offset + w.query - 1 = Base(w) + w.last
    BY <1>3, <1>8
  <2>. HIDE DEF Next1
  <2>6. v.offset + v.query = Base(v) + Next1(v)
    <3>1. \A x, y, z, l \in Int : x - 1 = y + l /\ l = z - 1 => x = (y + z) + 0
      OBVIOUS
    <3>2. w.offset + w.query \in Int /\ BlockSize \in Int /\ w.last \in Int
      BY <1>1
    <3>. DEFINE x == w.offset + w.query
    <3>3. x \in Int
      BY <3>2
    <3>4. x - 1 = Base(w) + w.last
      BY <1>1, <1>2, <2>5, <3>2
    <3>. HIDE DEF x
    <3>5. x = (Base(w) + BlockSize) + 0
      BY <1>2, <1>8, <3>1, <3>2, <3>3, <3>4
    <3>6. w.offset + w.query = (Base(w) + BlockSize) + 0
      BY <3>5 DEF x
    <3>. QED  BY <2>1, <2>3, <2>4, <3>6
  <2>7. NextSlot(v)
    BY <1>4, <2>1, <2>6
  <2>. QED  BY <2>7 DEF v
<1>9. ASSUME NextSlot(w) PROVE InItsSlot(Advanced(w))
  <2>. DEFINE v == Advanced(w)
  <2>1. /\ v.blocks = w.blocks /\ v.offset = w.offset + w.query /\ v.query = 1 /\ v.last = Next1(w)
    BY AdvancedRow
  <2>. HIDE DEF v
  <2>2. Base(v) = Base(w)
    BY <2>1 DEF Base
  <2>. HIDE DEF Next1
  <2>3. w.offset + w.query = Base(w) + Next1(w)
    BY <1>4, <1>9
  <2>4. v.offset + v.query - 1 = w.offset + w.query
    BY <1>1, <2>1
  <2>5. v.offset + v.query - 1 = Slot(v)
    BY <2>1, <2>2, <2>3, <2>4
  <2>6. InItsSlot(v)
    BY <1>3, <2>5
  <2>. QED  BY <2>6 DEF v
<1>. QED  BY <1>7, <1>8, <1>9

\* The row of the request whose prompt is filled in chunks is active.
ChunkRow(c, k) ==
  c.chunk # None =>
    \E i \in DOMAIN c.rows : i > c.paused /\ c.rows[i].id = c.chunk /\ Len(c.rows[i].blocks) = k

\* After step 4: every row lacks the token that was just generated.
Due(c, reqs) ==
  \A i \in DOMAIN c.rows :
    c.rows[i].id # c.chunk => /\ Paired(c.rows[i], reqs[c.rows[i].id], 1)
                              /\ InItsSlot(c.rows[i])
                              /\ i <= c.paused => c.rows[i].last = BlockSize - 1

\* After step 5: the active rows have a slot for it.
Halfway(c, reqs) ==
  \A i \in DOMAIN c.rows :
    c.rows[i].id # c.chunk =>
      /\ Paired(c.rows[i], reqs[c.rows[i].id], 1)
      /\ IF i <= c.paused THEN InItsSlot(c.rows[i]) /\ c.rows[i].last = BlockSize - 1
         ELSE NextSlot(c.rows[i])

\* c is a context in the middle of update_requests.
Between(c, reqs, k) ==
  /\ c \in ContextType
  /\ c.paused <= Len(c.rows)
  /\ Owned(c)
  /\ DistinctRows(c)
  /\ ChunkRow(c, k)
  /\ Halfway(c, reqs)

\* The elements and the types of the rows.
LEMMA ContextRows ==
  ASSUME NEW c \in ContextType
  PROVE  /\ Len(c.rows) \in Nat /\ DOMAIN c.rows = 1 .. Len(c.rows) /\ c.paused \in Nat
         /\ \A i \in DOMAIN c.rows : c.rows[i] \in RowType
<1>1. c.rows \in Seq(RowType) /\ c.paused \in Nat
  BY ContextFields
<1>. QED  BY <1>1, ElementOfSeq

\* The requests of rows that were selected.
LEMMA SelectedRows ==
  ASSUME NEW c \in ContextType, NEW d \in ContextType, NEW p, Selects(p, c.rows, d.rows)
  PROVE  /\ \A i \in DOMAIN d.rows : p[i] \in DOMAIN c.rows /\ d.rows[i] = c.rows[p[i]]
         /\ DistinctRows(c) => DistinctRows(d)
         /\ RowIds(d) \subseteq RowIds(c)
         /\ Onto(p, c.rows) => RowIds(d) = RowIds(c)
<1>1. DOMAIN d.rows = 1 .. Len(d.rows)
  BY ContextRows
<1>2. \A i \in DOMAIN d.rows : p[i] \in DOMAIN c.rows /\ d.rows[i] = c.rows[p[i]]
  BY <1>1 DEF Selects
<1>3. \A i, j \in DOMAIN d.rows : p[i] = p[j] => i = j
  BY <1>1 DEF Selects
<1>4. DistinctRows(c) => DistinctRows(d)
  BY <1>2, <1>3 DEF DistinctRows
<1>5. RowIds(d) \subseteq RowIds(c)
  BY <1>2 DEF RowIds
<1>6. ASSUME Onto(p, c.rows) PROVE RowIds(c) \subseteq RowIds(d)
  <2>1. DOMAIN p = DOMAIN d.rows
    BY <1>1 DEF Selects
  <2>. QED  BY <1>2, <1>6, <2>1 DEF Onto, RowIds
<1>. QED  BY <1>2, <1>4, <1>5, <1>6

\* A row whose fields other than its blocks are those of another is paired
\* with the same request.
LEMMA PairedWithBlock ==
  ASSUME NEW w \in RowType, NEW b \in Blocks, NEW q, NEW lag, Paired(w, q, lag)
  PROVE  Paired(WithBlock(w, b), q, lag) /\ WithBlock(w, b).id = w.id
BY WithBlockRow DEF Paired

\* Once it has advanced, a row lacks no token.
LEMMA PairedAdvanced ==
  ASSUME NEW w \in RowType, NEW q \in RequestType, Paired(w, q, 1)
  PROVE  Paired(Advanced(w), q, 0)
<1>. DEFINE v == Advanced(w)
<1>1. v.out = w.out /\ v.offset = w.offset + w.query /\ v.query = 1 /\ w.offset \in Nat /\ w.query \in Nat
      /\ w.out \in Nat
  BY AdvancedRow, RowFields
<1>2. q.prompt \in Nat /\ q.generated \in Nat /\ q.budget \in Int
  BY DEF RequestType
<1>3. /\ q.state = "held" /\ Lasting(q) /\ w.out = q.prompt + q.budget
      /\ w.offset + w.query = q.prompt + q.generated - 1
      /\ w.offset + w.query + 1 < w.out /\ w.offset + w.query > 0
  BY DEF Paired
<1>. HIDE DEF v
<1>4. /\ v.offset + v.query = q.prompt + q.generated - 0
      /\ v.offset + v.query + 0 < v.out
      /\ v.offset + v.query > 0
  BY <1>1, <1>2, <1>3
<1>5. Paired(v, q, 0)
  BY <1>1, <1>3, <1>4 DEF Paired
<1>. QED  BY <1>5 DEF v

-----------------------------------------------------------------------------
(* update_requests, step by step                                           *)

\* A paused row is not that of the prompt that is filled in chunks.
LEMMA PausedIsWhole ==
  ASSUME NEW c \in ContextType, NEW k, ChunkRow(c, k), DistinctRows(c)
  PROVE  \A i \in DOMAIN c.rows : i <= c.paused => c.rows[i].id # c.chunk
<1>. SUFFICES ASSUME NEW i \in DOMAIN c.rows, i <= c.paused, c.rows[i].id = c.chunk PROVE FALSE
  OBVIOUS
<1>1. i \in Nat /\ c.paused \in Nat /\ c.rows[i].id \in Requests
  BY ContextRows, RowFields
<1>2. c.chunk # None
  BY <1>1, InferenceAssumption
<1>3. PICK j \in DOMAIN c.rows : j > c.paused /\ c.rows[j].id = c.chunk
  BY <1>2 DEF ChunkRow
<1>4. j = i
  BY <1>3 DEF DistinctRows
<1>. QED  BY <1>1, <1>3, <1>4

\* The rows that do not finish.
Survive(c, done, reqs) ==
  /\ \A j \in done : ActiveRows(c)[j].id # c.chunk
  /\ \A i \in DOMAIN c.rows :
       (i <= c.paused \/ i - c.paused \notin done) /\ c.rows[i].id # c.chunk =>
         /\ Paired(c.rows[i], reqs[c.rows[i].id], 1)
         /\ InItsSlot(c.rows[i])
         /\ i <= c.paused => c.rows[i].last = BlockSize - 1

\* Step 4.
LEMMA FinishDue ==
  ASSUME NEW c \in ContextType, c.paused <= Len(c.rows), NEW done \in SUBSET DOMAIN ActiveRows(c),
         Owned(c), DistinctRows(c), NEW k, ChunkRow(c, k), NEW reqs, Survive(c, done, reqs)
  PROVE  LET d == Finish(c, done)
         IN  /\ d \in ContextType /\ d.paused <= Len(d.rows) /\ d.chunk = c.chunk
             /\ Owned(d) /\ DistinctRows(d) /\ ChunkRow(d, k) /\ Due(d, reqs)
             /\ RowIds(d) = RowIds(c) \ { ActiveRows(c)[j].id : j \in done }
<1>. DEFINE d == Finish(c, done)
            a == ActiveRows(c)
<1>1. /\ d \in ContextType /\ d.paused = c.paused /\ d.chunk = c.chunk /\ d.paused <= Len(d.rows) /\ Owned(d)
      /\ \E p : Finishes(p, c, done)
  BY FinishKeeps
<1>2. PICK p : Finishes(p, c, done)
  BY <1>1
<1>3. /\ Selects(p, c.rows, d.rows)
      /\ \A i \in DOMAIN d.rows : i <= c.paused => p[i] = i
      /\ \A i \in DOMAIN d.rows : i > c.paused => p[i] > c.paused /\ p[i] - c.paused \notin done
      /\ \A x \in DOMAIN c.rows : x <= c.paused \/ x - c.paused \notin done => \E i \in DOMAIN d.rows : p[i] = x
  BY <1>2 DEF Finishes
<1>. HIDE DEF d
<1>4. /\ \A i \in DOMAIN d.rows : p[i] \in DOMAIN c.rows /\ d.rows[i] = c.rows[p[i]]
      /\ DistinctRows(d) /\ RowIds(d) \subseteq RowIds(c)
  <2>1. Selects(p, c.rows, d.rows) /\ d \in ContextType
    BY <1>1, <1>3
  <2>. QED  BY <2>1, SelectedRows
<1>5. /\ \A i \in DOMAIN c.rows : i \in Nat
      /\ \A i \in DOMAIN d.rows : i \in Nat
      /\ c.paused \in Nat
  BY <1>1, ContextRows
<1>6. /\ DOMAIN a = 1 .. Len(c.rows) - c.paused
      /\ \A j \in DOMAIN a : a[j] = c.rows[c.paused + j] /\ c.paused + j \in DOMAIN c.rows
  BY RowParts
<1>. HIDE DEF a
<1>7. \A i \in DOMAIN d.rows : p[i] <= c.paused \/ p[i] - c.paused \notin done
  <2>. TAKE i \in DOMAIN d.rows
  <2>1. i <= c.paused \/ i > c.paused
    BY <1>5
  <2>. QED  BY <1>3, <2>1
<1>8. \A i \in DOMAIN d.rows : i <= c.paused => p[i] <= c.paused
  BY <1>3
<1>9. Due(d, reqs)
  <2>. SUFFICES ASSUME NEW i \in DOMAIN d.rows, d.rows[i].id # d.chunk
                PROVE  /\ Paired(d.rows[i], reqs[d.rows[i].id], 1)
                       /\ InItsSlot(d.rows[i])
                       /\ i <= d.paused => d.rows[i].last = BlockSize - 1
    BY DEF Due
  <2>1. p[i] \in DOMAIN c.rows /\ d.rows[i] = c.rows[p[i]] /\ c.rows[p[i]].id # c.chunk
    BY <1>1, <1>4
  <2>. QED  BY <1>1, <1>7, <1>8, <2>1 DEF Survive
<1>10. ChunkRow(d, k)
  <2>. SUFFICES ASSUME c.chunk # None
                PROVE  \E i \in DOMAIN d.rows : i > d.paused /\ d.rows[i].id = d.chunk /\ Len(d.rows[i].blocks) = k
    BY <1>1 DEF ChunkRow
  <2>1. PICK x \in DOMAIN c.rows : x > c.paused /\ c.rows[x].id = c.chunk /\ Len(c.rows[x].blocks) = k
    BY DEF ChunkRow
  <2>2. x - c.paused \notin done
    <3>. SUFFICES ASSUME x - c.paused \in done PROVE FALSE
      OBVIOUS
    <3>1. c.paused + (x - c.paused) = x
      BY <1>5
    <3>2. a[x - c.paused].id = c.chunk
      BY <1>6, <2>1, <3>1 DEF a
    <3>. QED  BY <3>2 DEF Survive, a
  <2>3. PICK i \in DOMAIN d.rows : p[i] = x
    BY <1>3, <2>2
  <2>4. i > c.paused
    <3>1. i <= c.paused => i = x
      BY <1>3, <2>3
    <3>. QED  BY <1>5, <2>1, <3>1
  <2>. QED  BY <1>1, <1>4, <2>1, <2>3, <2>4
<1>11. RowIds(d) = RowIds(c) \ { a[j].id : j \in done }
  <2>1. ASSUME NEW i \in DOMAIN d.rows, NEW j \in done, d.rows[i].id = a[j].id PROVE FALSE
    <3>1. c.paused + j \in DOMAIN c.rows /\ a[j] = c.rows[c.paused + j] /\ j \in Nat /\ j > 0
      BY <1>6 DEF a
    <3>2. p[i] = c.paused + j
      BY <1>4, <2>1, <3>1 DEF DistinctRows
    <3>3. p[i] > c.paused /\ p[i] - c.paused = j
      BY <1>5, <3>1, <3>2
    <3>4. ~(p[i] <= c.paused)
      BY <1>5, <3>1, <3>2, <3>3
    <3>. QED  BY <1>7, <3>3, <3>4
  <2>2. ASSUME NEW x \in DOMAIN c.rows, c.rows[x].id \notin { a[j].id : j \in done }
        PROVE  c.rows[x].id \in RowIds(d)
    <3>1. x <= c.paused \/ x - c.paused \notin done
      <4>. SUFFICES ASSUME x - c.paused \in done PROVE FALSE
        OBVIOUS
      <4>1. c.paused + (x - c.paused) = x
        BY <1>5
      <4>2. a[x - c.paused] = c.rows[x]
        BY <1>6, <4>1 DEF a
      <4>. QED  BY <2>2, <4>2
    <3>2. PICK i \in DOMAIN d.rows : p[i] = x
      BY <1>3, <3>1
    <3>. QED  BY <1>4, <3>2 DEF RowIds
  <2>. QED  BY <1>4, <2>1, <2>2 DEF RowIds
<1>. QED  BY <1>1, <1>4, <1>9, <1>10, <1>11 DEF d, a

\* Step 5.
LEMMA PauseBetween ==
  ASSUME NEW c \in ContextType, c.paused <= Len(c.rows), Owned(c), DistinctRows(c),
         NEW k, ChunkRow(c, k), NEW reqs, Due(c, reqs)
  PROVE  LET d == Pause(c)
         IN  Between(d, reqs, k) /\ d.chunk = c.chunk /\ RowIds(d) = RowIds(c)
<1>. DEFINE d == Pause(c)
<1>1. /\ d \in ContextType /\ d.chunk = c.chunk /\ c.paused <= d.paused /\ d.paused <= Len(d.rows) /\ Owned(d)
      /\ \E p : Pauses(p, c)
  BY PauseKeeps
<1>2. PICK p : Pauses(p, c)
  BY <1>1
<1>3. /\ Selects(p, c.rows, d.rows) /\ Onto(p, c.rows)
      /\ \A i \in DOMAIN d.rows : i <= c.paused => p[i] = i
      /\ \A i \in DOMAIN d.rows : i > c.paused =>
           /\ p[i] > c.paused
           /\ i <= d.paused <=> c.rows[p[i]].last = BlockSize - 1 /\ c.rows[p[i]].id # c.chunk
  BY <1>2 DEF Pauses
<1>. HIDE DEF d
<1>4. /\ \A i \in DOMAIN d.rows : p[i] \in DOMAIN c.rows /\ d.rows[i] = c.rows[p[i]]
      /\ DistinctRows(d) /\ RowIds(d) = RowIds(c)
  BY <1>1, <1>3, SelectedRows
<1>5. /\ \A i \in DOMAIN c.rows : i \in Nat /\ c.rows[i] \in RowType
      /\ \A i \in DOMAIN d.rows : i \in Nat
      /\ c.paused \in Nat /\ d.paused \in Nat
  BY <1>1, ContextRows
<1>6. Halfway(d, reqs)
  <2>. SUFFICES ASSUME NEW i \in DOMAIN d.rows, d.rows[i].id # d.chunk
                PROVE  /\ Paired(d.rows[i], reqs[d.rows[i].id], 1)
                       /\ IF i <= d.paused THEN InItsSlot(d.rows[i]) /\ d.rows[i].last = BlockSize - 1
                          ELSE NextSlot(d.rows[i])
    BY DEF Halfway
  <2>1. p[i] \in DOMAIN c.rows /\ d.rows[i] = c.rows[p[i]] /\ c.rows[p[i]].id # c.chunk
    BY <1>1, <1>4
  <2>2. /\ Paired(d.rows[i], reqs[d.rows[i].id], 1) /\ InItsSlot(d.rows[i])
        /\ p[i] <= c.paused => d.rows[i].last = BlockSize - 1
    BY <2>1 DEF Due
  <2>3. CASE i <= c.paused
    <3>1. p[i] <= c.paused /\ i <= d.paused
      BY <1>1, <1>3, <1>5, <2>3
    <3>. QED  BY <2>2, <3>1
  <2>4. CASE i > c.paused
    <3>1. i <= d.paused <=> d.rows[i].last = BlockSize - 1
      BY <1>3, <2>1, <2>4
    <3>2. d.rows[i].last # BlockSize - 1 => NextSlot(d.rows[i])
      BY <1>5, <2>1, <2>2, Slots
    <3>. QED  BY <2>2, <3>1, <3>2
  <2>. QED  BY <1>5, <2>3, <2>4
<1>7. ChunkRow(d, k)
  <2>. SUFFICES ASSUME c.chunk # None
                PROVE  \E i \in DOMAIN d.rows : i > d.paused /\ d.rows[i].id = d.chunk /\ Len(d.rows[i].blocks) = k
    BY <1>1 DEF ChunkRow
  <2>1. PICK x \in DOMAIN c.rows : x > c.paused /\ c.rows[x].id = c.chunk /\ Len(c.rows[x].blocks) = k
    BY DEF ChunkRow
  <2>2. PICK i \in DOMAIN d.rows : p[i] = x
    <3>1. DOMAIN p = DOMAIN d.rows
      BY <1>1, <1>3, ContextRows DEF Selects
    <3>. QED  BY <1>3, <3>1 DEF Onto
  <2>3. i > c.paused
    <3>1. i <= c.paused => i = x
      BY <1>3, <2>2
    <3>. QED  BY <1>5, <2>1, <3>1
  <2>4. i > d.paused
    <3>1. ~(i <= d.paused)
      BY <1>3, <2>1, <2>2, <2>3
    <3>. QED  BY <1>5, <3>1
  <2>. QED  BY <1>1, <1>4, <2>1, <2>2, <2>4
<1>. QED  BY <1>1, <1>4, <1>6, <1>7 DEF d, Between

\* resume_paused_requests; its assertion holds.
LEMMA ResumeBetween ==
  ASSUME NEW c, NEW reqs, NEW k, Between(c, reqs, k)
  PROVE  LET d == Resume(c)
         IN  /\ Between(d, reqs, k) /\ d.chunk = c.chunk /\ RowIds(d) = RowIds(c)
             /\ d.paused <= c.paused /\ ResumesFullRows(c)
<1>. DEFINE d == Resume(c)
            n == Resumable(c)
<1>1. c \in ContextType /\ c.paused <= Len(c.rows) /\ Owned(c) /\ DistinctRows(c) /\ ChunkRow(c, k) /\ Halfway(c, reqs)
  BY DEF Between
<1>2. /\ d \in ContextType /\ d.chunk = c.chunk /\ d.paused = c.paused - n
      /\ d.paused \in Nat /\ d.paused <= c.paused
      /\ Len(d.rows) = Len(c.rows) /\ DOMAIN d.rows = DOMAIN c.rows
      /\ \A i \in DOMAIN c.rows :
           IF i \in d.paused + 1 .. c.paused
           THEN \E b \in Blocks : d.rows[i] = WithBlock(c.rows[i], b)
           ELSE d.rows[i] = c.rows[i]
      /\ Owned(d)
  BY <1>1, ResumeKeeps
<1>3. n \in Nat /\ n <= c.paused
  BY <1>1, ResumableBounds
<1>. HIDE DEF d, n
<1>4. /\ \A i \in DOMAIN c.rows : i \in Nat /\ c.rows[i] \in RowType
      /\ c.paused \in Nat /\ Len(c.rows) \in Nat /\ DOMAIN c.rows = 1 .. Len(c.rows)
  BY <1>1, ContextRows
<1>5. \A i \in DOMAIN c.rows : i <= c.paused => c.rows[i].id # c.chunk
  BY <1>1, PausedIsWhole
<1>6. \A i \in DOMAIN c.rows : d.rows[i].id = c.rows[i].id
  <2>. TAKE i \in DOMAIN c.rows
  <2>1. \A b \in Blocks : WithBlock(c.rows[i], b).id = c.rows[i].id
    BY <1>4, WithBlockRow
  <2>. QED  BY <1>2, <2>1
<1>7. DistinctRows(d) /\ RowIds(d) = RowIds(c)
  BY <1>1, <1>2, <1>6 DEF DistinctRows, RowIds
<1>8. Halfway(d, reqs)
  <2>. SUFFICES ASSUME NEW i \in DOMAIN c.rows, d.rows[i].id # d.chunk
                PROVE  /\ Paired(d.rows[i], reqs[d.rows[i].id], 1)
                       /\ IF i <= d.paused THEN InItsSlot(d.rows[i]) /\ d.rows[i].last = BlockSize - 1
                          ELSE NextSlot(d.rows[i])
    BY <1>2 DEF Halfway
  <2>1. /\ Paired(c.rows[i], reqs[c.rows[i].id], 1)
        /\ IF i <= c.paused THEN InItsSlot(c.rows[i]) /\ c.rows[i].last = BlockSize - 1
           ELSE NextSlot(c.rows[i])
    BY <1>1, <1>2, <1>6 DEF Halfway
  <2>2. CASE i \in d.paused + 1 .. c.paused
    <3>1. PICK b \in Blocks : d.rows[i] = WithBlock(c.rows[i], b)
      BY <1>2, <2>2
    <3>2. i <= c.paused /\ ~(i <= d.paused)
      BY <1>2, <1>4, <2>2
    <3>3. NextSlot(WithBlock(c.rows[i], b))
      BY <1>4, <2>1, <3>2, Slots
    <3>4. Paired(WithBlock(c.rows[i], b), reqs[c.rows[i].id], 1)
      BY <1>4, <2>1, PairedWithBlock
    <3>. QED  BY <1>6, <3>1, <3>2, <3>3, <3>4
  <2>3. CASE i \notin d.paused + 1 .. c.paused
    <3>1. d.rows[i] = c.rows[i]
      BY <1>2, <2>3
    <3>2. i <= c.paused <=> i <= d.paused
      BY <1>2, <1>4, <2>3
    <3>. QED  BY <2>1, <3>1, <3>2
  <2>. QED  BY <2>2, <2>3
<1>9. ChunkRow(d, k)
  <2>. SUFFICES ASSUME c.chunk # None
                PROVE  \E i \in DOMAIN d.rows : i > d.paused /\ d.rows[i].id = d.chunk /\ Len(d.rows[i].blocks) = k
    BY <1>2 DEF ChunkRow
  <2>1. PICK x \in DOMAIN c.rows : x > c.paused /\ c.rows[x].id = c.chunk /\ Len(c.rows[x].blocks) = k
    BY <1>1 DEF ChunkRow
  <2>2. x \notin d.paused + 1 .. c.paused /\ x > d.paused
    BY <1>2, <1>4, <2>1
  <2>. QED  BY <1>2, <2>1, <2>2
<1>10. ResumesFullRows(c)
  <2>. SUFFICES ASSUME NEW i \in c.paused - n + 1 .. c.paused PROVE c.rows[i].last = BlockSize - 1
    BY DEF ResumesFullRows, n
  <2>1. i \in DOMAIN c.rows /\ i <= c.paused
    BY <1>1, <1>3, <1>4
  <2>. QED  BY <1>1, <1>5, <2>1 DEF Halfway
<1>11. d.paused <= Len(d.rows)
  BY <1>1, <1>2, <1>4
<1>. QED  BY <1>2, <1>7, <1>8, <1>9, <1>10, <1>11 DEF d, Between

\* Requests that are evicted.
Leaves(s, c, reqs) ==
  /\ s \in Seq(Requests)
  /\ Injective(s)
  /\ ToSet(s) \subseteq RowIds(c)
  /\ \A r \in ToSet(s) : r # c.chunk /\ \E w \in RowType : Paired(w, reqs[r], 1)

\* evict_overflow_paused_requests.
LEMMA EvictBetween ==
  ASSUME NEW c, NEW reqs, NEW k, Between(c, reqs, k)
  PROVE  LET d == Evict(c)
         IN  /\ Between(d, reqs, k) /\ d.chunk = c.chunk
             /\ RowIds(d) = RowIds(c) \ ToSet(EvictedIds(c))
             /\ Leaves(EvictedIds(c), c, reqs)
<1>. DEFINE d == Evict(c)
            n == Evicted(c)
            s == EvictedIds(c)
            first == c.paused - n
<1>1. c \in ContextType /\ c.paused <= Len(c.rows) /\ Owned(c) /\ DistinctRows(c) /\ ChunkRow(c, k) /\ Halfway(c, reqs)
  BY DEF Between
<1>2. /\ d \in ContextType /\ d.chunk = c.chunk /\ d.paused = first /\ d.paused <= Len(d.rows) /\ Owned(d)
      /\ \E p : Evicts(p, c)
  BY <1>1, EvictKeeps
<1>3. PICK p : Evicts(p, c)
  BY <1>2
<1>4. /\ Selects(p, c.rows, d.rows)
      /\ \A i \in DOMAIN d.rows : i <= first => p[i] = i
      /\ \A i \in DOMAIN d.rows : i > first => p[i] > c.paused
      /\ \A x \in DOMAIN c.rows : x <= first \/ x > c.paused => \E i \in DOMAIN d.rows : p[i] = x
  BY <1>2, <1>3 DEF Evicts
<1>5. n \in Nat /\ n <= c.paused
  BY <1>1, EvictedBounds
<1>6. s = [j \in 1 .. n |-> c.rows[first + j].id]
  BY DEF EvictedIds
<1>. HIDE DEF d, n, s
<1>7. /\ \A i \in DOMAIN d.rows : p[i] \in DOMAIN c.rows /\ d.rows[i] = c.rows[p[i]]
      /\ DistinctRows(d) /\ RowIds(d) \subseteq RowIds(c)
  <2>1. Selects(p, c.rows, d.rows) /\ d \in ContextType
    BY <1>2, <1>4
  <2>. QED  BY <1>1, <2>1, SelectedRows
<1>8. /\ \A i \in DOMAIN c.rows : i \in Nat /\ c.rows[i] \in RowType
      /\ \A i \in DOMAIN d.rows : i \in Nat
      /\ c.paused \in Nat /\ Len(c.rows) \in Nat /\ DOMAIN c.rows = 1 .. Len(c.rows)
  BY <1>1, <1>2, ContextRows
<1>9. first \in Nat /\ first <= c.paused /\ first + n = c.paused
  BY <1>5, <1>8
<1>. HIDE DEF first
<1>10. \A i \in DOMAIN c.rows : i <= c.paused => c.rows[i].id # c.chunk
  BY <1>1, PausedIsWhole
<1>11. \A j \in 1 .. n : first + j \in DOMAIN c.rows /\ first + j <= c.paused /\ first + j > first
  BY <1>1, <1>5, <1>8, <1>9
<1>12. /\ s \in Seq(Requests) /\ DOMAIN s = 1 .. n
       /\ \A j \in 1 .. n : s[j] = c.rows[first + j].id
  <2>1. \A j \in 1 .. n : c.rows[first + j].id \in Requests
    BY <1>8, <1>11, RowFields
  <2>2. s \in [1 .. n -> Requests]
    BY <1>6, <2>1
  <2>3. \A f \in [1 .. n -> Requests] : f \in Seq(Requests)
    BY <1>5
  <2>. QED  BY <1>6, <2>2, <2>3
<1>13. \A r : r \in ToSet(s) <=> \E j \in 1 .. n : c.rows[first + j].id = r
  BY <1>12 DEF ToSet
<1>14. Leaves(s, c, reqs)
  <2>1. Injective(s)
    <3>. SUFFICES ASSUME NEW i \in 1 .. n, NEW j \in 1 .. n, s[i] = s[j] PROVE i = j
      BY <1>12 DEF Injective
    <3>1. first + i = first + j
      BY <1>1, <1>11, <1>12 DEF DistinctRows
    <3>. QED  BY <1>9, <3>1
  <2>2. ToSet(s) \subseteq RowIds(c)
    BY <1>11, <1>13 DEF RowIds
  <2>3. \A r \in ToSet(s) : r # c.chunk /\ \E w \in RowType : Paired(w, reqs[r], 1)
    <3>. SUFFICES ASSUME NEW r \in ToSet(s) PROVE r # c.chunk /\ \E w \in RowType : Paired(w, reqs[r], 1)
      OBVIOUS
    <3>1. PICK j \in 1 .. n : c.rows[first + j].id = r
      BY <1>13
    <3>2. r # c.chunk /\ c.rows[first + j] \in RowType
      BY <1>8, <1>10, <1>11, <3>1
    <3>3. Paired(c.rows[first + j], reqs[r], 1)
      BY <1>1, <1>11, <3>1, <3>2 DEF Halfway
    <3>. QED  BY <3>2, <3>3
  <2>. QED  BY <1>12, <2>1, <2>2, <2>3 DEF Leaves
<1>15. \A i \in DOMAIN d.rows : (i <= first <=> p[i] <= c.paused) /\ (p[i] <= first \/ p[i] > c.paused)
  <2>. SUFFICES ASSUME NEW i \in DOMAIN d.rows
                PROVE  (i <= first <=> p[i] <= c.paused) /\ (p[i] <= first \/ p[i] > c.paused)
    OBVIOUS
  <2>1. i \in Nat /\ p[i] \in Nat
    BY <1>7, <1>8
  <2>2. CASE i <= first
    <3>1. p[i] = i
      BY <1>4, <2>2
    <3>. QED  BY <1>8, <1>9, <2>1, <2>2, <3>1
  <2>3. CASE i > first
    <3>1. p[i] > c.paused
      BY <1>4, <2>3
    <3>. QED  BY <1>8, <1>9, <2>1, <2>3, <3>1
  <2>. QED  BY <1>9, <2>1, <2>2, <2>3
<1>16. Halfway(d, reqs)
  <2>. SUFFICES ASSUME NEW i \in DOMAIN d.rows, d.rows[i].id # d.chunk
                PROVE  /\ Paired(d.rows[i], reqs[d.rows[i].id], 1)
                       /\ IF i <= d.paused THEN InItsSlot(d.rows[i]) /\ d.rows[i].last = BlockSize - 1
                          ELSE NextSlot(d.rows[i])
    BY DEF Halfway
  <2>1. p[i] \in DOMAIN c.rows /\ d.rows[i] = c.rows[p[i]] /\ c.rows[p[i]].id # c.chunk
    BY <1>2, <1>7
  <2>2. i <= d.paused <=> p[i] <= c.paused
    BY <1>2, <1>15
  <2>. QED  BY <1>1, <2>1, <2>2 DEF Halfway
<1>17. ChunkRow(d, k)
  <2>. SUFFICES ASSUME c.chunk # None
                PROVE  \E i \in DOMAIN d.rows : i > d.paused /\ d.rows[i].id = d.chunk /\ Len(d.rows[i].blocks) = k
    BY <1>2 DEF ChunkRow
  <2>1. PICK x \in DOMAIN c.rows : x > c.paused /\ c.rows[x].id = c.chunk /\ Len(c.rows[x].blocks) = k
    BY <1>1 DEF ChunkRow
  <2>2. PICK i \in DOMAIN d.rows : p[i] = x
    BY <1>4, <2>1
  <2>3. i > first
    BY <1>8, <1>9, <1>15, <2>1, <2>2
  <2>. QED  BY <1>2, <1>7, <2>1, <2>2, <2>3
<1>18. RowIds(d) = RowIds(c) \ ToSet(s)
  <2>1. ASSUME NEW i \in DOMAIN d.rows, d.rows[i].id \in ToSet(s) PROVE FALSE
    <3>1. PICK j \in 1 .. n : c.rows[first + j].id = c.rows[p[i]].id
      BY <1>7, <1>13, <2>1
    <3>2. first + j = p[i]
      BY <1>1, <1>7, <1>11, <3>1 DEF DistinctRows
    <3>3. first + j > first /\ first + j <= c.paused /\ first + j \in Nat
      BY <1>8, <1>11
    <3>. QED  BY <1>8, <1>9, <1>15, <3>2, <3>3
  <2>2. ASSUME NEW x \in DOMAIN c.rows, c.rows[x].id \notin ToSet(s) PROVE c.rows[x].id \in RowIds(d)
    <3>1. x <= first \/ x > c.paused
      <4>. SUFFICES ASSUME ~(x <= first), ~(x > c.paused) PROVE FALSE
        OBVIOUS
      <4>1. x - first \in 1 .. n /\ first + (x - first) = x
        BY <1>5, <1>8, <1>9
      <4>. QED  BY <1>13, <2>2, <4>1
    <3>2. PICK i \in DOMAIN d.rows : p[i] = x
      BY <1>4, <3>1
    <3>. QED  BY <1>7, <3>2 DEF RowIds
  <2>. QED  BY <1>7, <2>1, <2>2 DEF RowIds
<1>. QED  BY <1>2, <1>7, <1>14, <1>16, <1>17, <1>18 DEF d, s, Between

\* Step 6.d.
LEMMA ChunkLastBetween ==
  ASSUME NEW c, NEW reqs, NEW k, Between(c, reqs, k)
  PROVE  LET d == ChunkLast(c)
         IN  /\ Between(d, reqs, k) /\ d.chunk = c.chunk /\ RowIds(d) = RowIds(c)
             /\ d.paused = c.paused /\ Len(d.rows) = Len(c.rows)
             /\ d.chunk # None => d.rows[Len(d.rows)].id = d.chunk
<1>. DEFINE d == ChunkLast(c)
<1>1. c \in ContextType /\ c.paused <= Len(c.rows) /\ Owned(c) /\ DistinctRows(c) /\ ChunkRow(c, k) /\ Halfway(c, reqs)
  BY DEF Between
<1>2. c.chunk # None => \E i \in DOMAIN c.rows : c.rows[i].id = c.chunk /\ i > c.paused
  BY <1>1 DEF ChunkRow
<1>3. /\ d \in ContextType /\ d.chunk = c.chunk /\ d.paused = c.paused
      /\ Len(d.rows) = Len(c.rows)
      /\ c.chunk # None => d.rows[Len(d.rows)].id = c.chunk
      /\ Owned(d)
      /\ \E p : MovesLast(p, c)
  BY <1>1, <1>2, ChunkLastKeeps DEF DistinctRows
<1>4. PICK p : MovesLast(p, c)
  BY <1>3
<1>5. /\ Selects(p, c.rows, d.rows) /\ Onto(p, c.rows)
      /\ \A i \in DOMAIN d.rows : i <= c.paused <=> p[i] <= c.paused
  BY <1>4 DEF MovesLast
<1>. HIDE DEF d
<1>6. /\ \A i \in DOMAIN d.rows : p[i] \in DOMAIN c.rows /\ d.rows[i] = c.rows[p[i]]
      /\ DistinctRows(d) /\ RowIds(d) = RowIds(c)
  BY <1>1, <1>3, <1>5, SelectedRows
<1>7. /\ \A i \in DOMAIN c.rows : i \in Nat
      /\ \A i \in DOMAIN d.rows : i \in Nat
      /\ c.paused \in Nat
  BY <1>1, <1>3, ContextRows
<1>8. Halfway(d, reqs)
  <2>. SUFFICES ASSUME NEW i \in DOMAIN d.rows, d.rows[i].id # d.chunk
                PROVE  /\ Paired(d.rows[i], reqs[d.rows[i].id], 1)
                       /\ IF i <= d.paused THEN InItsSlot(d.rows[i]) /\ d.rows[i].last = BlockSize - 1
                          ELSE NextSlot(d.rows[i])
    BY DEF Halfway
  <2>1. p[i] \in DOMAIN c.rows /\ d.rows[i] = c.rows[p[i]] /\ c.rows[p[i]].id # c.chunk
    BY <1>3, <1>6
  <2>2. i <= d.paused <=> p[i] <= c.paused
    BY <1>3, <1>5
  <2>. QED  BY <1>1, <2>1, <2>2 DEF Halfway
<1>9. ChunkRow(d, k)
  <2>. SUFFICES ASSUME c.chunk # None
                PROVE  \E i \in DOMAIN d.rows : i > d.paused /\ d.rows[i].id = d.chunk /\ Len(d.rows[i].blocks) = k
    BY <1>3 DEF ChunkRow
  <2>1. PICK x \in DOMAIN c.rows : x > c.paused /\ c.rows[x].id = c.chunk /\ Len(c.rows[x].blocks) = k
    BY <1>1 DEF ChunkRow
  <2>2. PICK i \in DOMAIN d.rows : p[i] = x
    <3>1. DOMAIN p = DOMAIN d.rows
      BY <1>3, <1>5, ContextRows DEF Selects
    <3>. QED  BY <1>5, <3>1 DEF Onto
  <2>3. i > c.paused
    <3>1. ~(i <= c.paused)
      BY <1>5, <1>7, <2>1, <2>2
    <3>. QED  BY <1>7, <3>1
  <2>. QED  BY <1>3, <1>6, <2>1, <2>2, <2>3
<1>. QED  BY <1>1, <1>3, <1>6, <1>8, <1>9 DEF d, Between

\* The context after update_requests.
Updated(d, reqs, k) ==
  /\ d \in ContextType
  /\ Owned(d)
  /\ DistinctRows(d)
  /\ RowsGood(d, reqs)
  /\ d.paused < Len(d.rows) \/ (d.rows = << >> /\ d.paused = 0)
  /\ d.chunk # None => /\ d.paused < Len(d.rows)
                       /\ d.rows[Len(d.rows)].id = d.chunk
                       /\ Len(d.rows[Len(d.rows)].blocks) = k

\* Step 7.
LEMMA AdvanceDone ==
  ASSUME NEW c, NEW reqs \in [Requests -> RequestType], NEW k, Between(c, reqs, k), c.paused < Len(c.rows),
         c.chunk # None => c.rows[Len(c.rows)].id = c.chunk
  PROVE  LET d == Advance(c)
         IN  Updated(d, reqs, k) /\ d.chunk = c.chunk /\ RowIds(d) = RowIds(c)
<1>. DEFINE d == Advance(c)
<1>1. c \in ContextType /\ Owned(c) /\ DistinctRows(c) /\ ChunkRow(c, k) /\ Halfway(c, reqs)
  BY DEF Between
<1>2. /\ d \in ContextType /\ d.chunk = c.chunk /\ d.paused = c.paused
      /\ Len(d.rows) = Len(c.rows) /\ DOMAIN d.rows = DOMAIN c.rows
      /\ \A i \in DOMAIN c.rows :
           /\ i <= c.paused => d.rows[i] = c.rows[i]
           /\ i > c.paused => d.rows[i] = Advanced(c.rows[i])
      /\ Owned(d)
  BY <1>1, AdvanceKeeps
<1>. HIDE DEF d
<1>3. /\ \A i \in DOMAIN c.rows : i \in Nat /\ c.rows[i] \in RowType
      /\ c.paused \in Nat /\ Len(c.rows) \in Nat /\ DOMAIN c.rows = 1 .. Len(c.rows)
  BY <1>1, ContextRows
<1>4. \A i \in DOMAIN c.rows : d.rows[i].id = c.rows[i].id /\ d.rows[i].blocks = c.rows[i].blocks
  <2>. TAKE i \in DOMAIN c.rows
  <2>1. Advanced(c.rows[i]).id = c.rows[i].id /\ Advanced(c.rows[i]).blocks = c.rows[i].blocks
    BY <1>3, AdvancedRow
  <2>2. i <= c.paused \/ i > c.paused
    BY <1>3
  <2>. QED  BY <1>2, <2>1, <2>2
<1>5. DistinctRows(d) /\ RowIds(d) = RowIds(c)
  BY <1>1, <1>2, <1>4 DEF DistinctRows, RowIds
<1>6. RowsGood(d, reqs)
  <2>. SUFFICES ASSUME NEW i \in DOMAIN c.rows, d.rows[i].id # d.chunk
                PROVE  /\ Paired(d.rows[i], reqs[d.rows[i].id], IF i <= d.paused THEN 1 ELSE 0)
                       /\ InItsSlot(d.rows[i])
                       /\ i <= d.paused => d.rows[i].last = BlockSize - 1
    BY <1>2 DEF RowsGood
  <2>1. /\ Paired(c.rows[i], reqs[c.rows[i].id], 1)
        /\ IF i <= c.paused THEN InItsSlot(c.rows[i]) /\ c.rows[i].last = BlockSize - 1
           ELSE NextSlot(c.rows[i])
    BY <1>1, <1>2, <1>4 DEF Halfway
  <2>2. CASE i <= c.paused
    BY <1>2, <2>1, <2>2
  <2>3. CASE ~(i <= c.paused)
    <3>1. d.rows[i] = Advanced(c.rows[i])
      BY <1>2, <1>3, <2>3
    <3>2. reqs[c.rows[i].id] \in RequestType
      BY <1>3, RowFields
    <3>3. Paired(Advanced(c.rows[i]), reqs[c.rows[i].id], 0)
      BY <1>3, <2>1, <3>2, PairedAdvanced
    <3>4. InItsSlot(Advanced(c.rows[i]))
      BY <1>3, <2>1, <2>3, Slots
    <3>. QED  BY <1>2, <1>4, <2>3, <3>1, <3>3, <3>4
  <2>. QED  BY <2>2, <2>3
<1>7. ASSUME d.chunk # None
      PROVE  d.rows[Len(d.rows)].id = d.chunk /\ Len(d.rows[Len(d.rows)].blocks) = k
  <2>1. PICK x \in DOMAIN c.rows : c.rows[x].id = c.chunk /\ Len(c.rows[x].blocks) = k
    BY <1>1, <1>2, <1>7 DEF ChunkRow
  <2>2. Len(c.rows) \in DOMAIN c.rows /\ c.rows[Len(c.rows)].id = c.chunk
    BY <1>2, <1>3, <1>7
  <2>3. x = Len(c.rows)
    BY <1>1, <2>1, <2>2 DEF DistinctRows
  <2>. QED  BY <1>2, <1>4, <2>1, <2>2, <2>3
<1>. QED  BY <1>2, <1>5, <1>6, <1>7 DEF d, Updated

\* The context after step 5 of update_requests.
Sorted(c, done) == Pause(Finish(c, done))

\* The context after step 6.
Final(c, done) == Resume(Evict(Resume(Sorted(c, done))))

\* All requests are finished.
AllDone(c, done) == c.paused = 0 /\ done = DOMAIN c.rows

\* The requests of the finished rows.
Over(c, done) == { ActiveRows(c)[j].id : j \in done }

\* Where update_requests starts.
Updatable(c, done, reqs, k) ==
  /\ c \in ContextType
  /\ c.paused <= Len(c.rows)
  /\ done \subseteq DOMAIN ActiveRows(c)
  /\ reqs \in [Requests -> RequestType]
  /\ Owned(c)
  /\ DistinctRows(c)
  /\ ChunkRow(c, k)
  /\ Survive(c, done, reqs)

\* When all requests are finished, the memory is free.
LEMMA UpdateAllDone ==
  ASSUME NEW c, NEW done, NEW reqs, NEW k, Updatable(c, done, reqs, k), AllDone(c, done)
  PROVE  LET u == UpdateRequests(c, done)
         IN  /\ Updated(u.ctx, reqs, k) /\ u.ctx.chunk = c.chunk /\ u.evicted = << >> /\ u.ok
             /\ RowIds(u.ctx) = {} /\ RowIds(c) = Over(c, done)
<1>. DEFINE d == [c EXCEPT !.free = @ \o BlocksOf(c.rows), !.rows = << >>]
            n == Len(c.rows)
            g == [i \in 1 .. n |-> i]
            p == [i \in 1 .. 0 |-> i]
<1>1. c \in ContextType /\ c.paused <= n /\ Owned(c) /\ ChunkRow(c, k) /\ Survive(c, done, reqs)
  BY DEF Updatable
<1>2. c.paused = 0 /\ done = DOMAIN c.rows
  BY DEF AllDone
<1>3. /\ c.free \in Seq(Blocks) /\ c.rows \in Seq(RowType) /\ c.paused \in Nat
      /\ c.chunk \in Requests \cup {None}
      /\ n \in Nat /\ DOMAIN c.rows = 1 .. n
  BY <1>1, ContextFields, ContextRows
<1>4. c.free \o BlocksOf(c.rows) \in Seq(Blocks)
  BY <1>3, BlocksOfLists
<1>5. /\ d \in ContextType /\ d.free = c.free \o BlocksOf(c.rows) /\ d.rows = << >>
      /\ d.chunk = c.chunk /\ d.paused = c.paused
  <2>. DEFINE f == c.free \o BlocksOf(c.rows)
              e == << >>
  <2>1. d = [c EXCEPT !.free = f, !.rows = e]
    OBVIOUS
  <2>2. f \in Seq(Blocks) /\ e \in Seq(RowType)
    BY <1>4
  <2>. HIDE DEF f, e, d
  <2>3. d \in ContextType /\ d.free = f /\ d.rows = e /\ d.chunk = c.chunk /\ d.paused = c.paused
    BY <1>1, <2>1, <2>2 DEF ContextType
  <2>. QED  BY <2>3 DEF f, e
<1>6. UpdateRequests(c, done) = [ctx |-> d, evicted |-> << >>, ok |-> TRUE]
  BY <1>2 DEF UpdateRequests
<1>. HIDE DEF d
<1>7. Owned(d)
  <2>1. Selects(p, c.rows, d.rows)
    BY <1>5 DEF Selects
  <2>2. g \in [1 .. n -> 1 .. n] /\ \A i \in 1 .. n : g[i] = i
    OBVIOUS
  <2>3. c.rows = [i \in 1 .. n |-> c.rows[i]]
    BY <1>3
  <2>4. c.rows = [i \in 1 .. n |-> c.rows[g[i]]]
    BY <2>2, <2>3
  <2>. HIDE DEF g, p
  <2>5. Selects(g, c.rows, c.rows)
    BY <1>3, <2>2, <2>4 DEF Selects
  <2>6. DOMAIN d.rows = {} /\ \A x \in DOMAIN c.rows : \E j \in DOMAIN c.rows : g[j] = x
    BY <1>3, <1>5, <2>2
  <2>7. Releases(c, d, c.rows, p, g)
    BY <1>5, <2>1, <2>5, <2>6 DEF Releases
  <2>. QED  BY <1>1, <1>3, <1>5, <2>7, Release
<1>8. \A j \in DOMAIN c.rows : ActiveRows(c)[j] = c.rows[j]
  <2>1. /\ DOMAIN ActiveRows(c) = 1 .. n - c.paused
        /\ \A i \in DOMAIN ActiveRows(c) : ActiveRows(c)[i] = c.rows[c.paused + i]
    BY <1>1, RowParts
  <2>2. DOMAIN ActiveRows(c) = DOMAIN c.rows /\ \A i \in DOMAIN c.rows : c.paused + i = i
    BY <1>2, <1>3, <2>1
  <2>. QED  BY <2>1, <2>2
<1>9. RowIds(c) = Over(c, done)
  BY <1>2, <1>8 DEF RowIds, Over
<1>10. c.chunk = None
  <2>. SUFFICES ASSUME c.chunk # None PROVE FALSE
    OBVIOUS
  <2>1. PICK i \in DOMAIN c.rows : c.rows[i].id = c.chunk
    BY <1>1 DEF ChunkRow
  <2>. QED  BY <1>1, <1>2, <1>8, <2>1 DEF Survive
<1>11. RowIds(d) = {} /\ RowsGood(d, reqs) /\ DistinctRows(d)
  BY <1>5 DEF RowIds, RowsGood, DistinctRows
<1>12. Updated(d, reqs, k)
  BY <1>2, <1>5, <1>7, <1>10, <1>11 DEF Updated
<1>. QED  BY <1>5, <1>6, <1>9, <1>11, <1>12

\* The steps in the middle.
LEMMA UpdateStages ==
  ASSUME NEW c, NEW done, NEW reqs, NEW k, Updatable(c, done, reqs, k)
  PROVE  LET sorted  == Sorted(c, done)
             resumed == Resume(sorted)
             evicted == Evict(resumed)
             final   == Final(c, done)
         IN  /\ Between(sorted, reqs, k) /\ Between(resumed, reqs, k)
             /\ Between(evicted, reqs, k) /\ Between(final, reqs, k)
             /\ ResumesFullRows(sorted) /\ ResumesFullRows(evicted)
             /\ resumed.chunk = c.chunk /\ final.chunk = c.chunk
             /\ RowIds(resumed) = RowIds(c) \ Over(c, done)
             /\ RowIds(final) = RowIds(resumed) \ ToSet(EvictedIds(resumed))
             /\ Leaves(EvictedIds(resumed), resumed, reqs)
<1>. DEFINE finished == Finish(c, done)
            sorted  == Sorted(c, done)
            resumed == Resume(sorted)
            evicted == Evict(resumed)
            final   == Resume(evicted)
<1>1. /\ finished \in ContextType /\ finished.paused <= Len(finished.rows) /\ finished.chunk = c.chunk
      /\ Owned(finished) /\ DistinctRows(finished) /\ ChunkRow(finished, k) /\ Due(finished, reqs)
      /\ RowIds(finished) = RowIds(c) \ Over(c, done)
  <2>1. /\ c \in ContextType /\ c.paused <= Len(c.rows) /\ done \in SUBSET DOMAIN ActiveRows(c)
        /\ Owned(c) /\ DistinctRows(c) /\ ChunkRow(c, k) /\ Survive(c, done, reqs)
    BY DEF Updatable
  <2>. QED  BY <2>1, FinishDue DEF Over
<1>. HIDE DEF finished
<1>2. Between(sorted, reqs, k) /\ sorted.chunk = c.chunk /\ RowIds(sorted) = RowIds(finished)
  <2>1. sorted = Pause(finished)
    BY DEF Sorted, finished
  <2>. HIDE DEF sorted
  <2>. QED  BY <1>1, <2>1, PauseBetween
<1>. HIDE DEF sorted
<1>3. /\ Between(resumed, reqs, k) /\ resumed.chunk = sorted.chunk /\ RowIds(resumed) = RowIds(sorted)
      /\ ResumesFullRows(sorted)
  BY <1>2, ResumeBetween
<1>. HIDE DEF resumed
<1>4. /\ Between(evicted, reqs, k) /\ evicted.chunk = resumed.chunk
      /\ RowIds(evicted) = RowIds(resumed) \ ToSet(EvictedIds(resumed))
      /\ Leaves(EvictedIds(resumed), resumed, reqs)
  BY <1>3, EvictBetween
<1>. HIDE DEF evicted
<1>5. /\ Between(final, reqs, k) /\ final.chunk = evicted.chunk /\ RowIds(final) = RowIds(evicted)
      /\ ResumesFullRows(evicted)
  BY <1>4, ResumeBetween
<1>. HIDE DEF final
<1>6. final = Final(c, done)
  BY DEF Final, final, evicted, resumed, sorted
<1>. QED  BY <1>1, <1>2, <1>3, <1>4, <1>5, <1>6 DEF sorted, resumed, evicted

\* update_requests: the requests that it neither ends nor evicts have rows that
\* match them, each in the slot of its next token.
LEMMA UpdateKeeps ==
  ASSUME NEW c, NEW done, NEW reqs, NEW k, Updatable(c, done, reqs, k)
  PROVE  LET u == UpdateRequests(c, done)
         IN  /\ u.ok <=> AllDone(c, done) \/ Final(c, done).paused < Len(Final(c, done).rows)
             /\ u.ok \in BOOLEAN
             /\ u.ok => /\ Updated(u.ctx, reqs, k)
                        /\ u.ctx.chunk = c.chunk
                        /\ RowIds(u.ctx) = RowIds(c) \ (Over(c, done) \cup ToSet(u.evicted))
             /\ Leaves(u.evicted, c, reqs)
             /\ ToSet(u.evicted) \cap Over(c, done) = {}
<1>. DEFINE u == UpdateRequests(c, done)
<1>1. CASE AllDone(c, done)
  <2>1. /\ Updated(u.ctx, reqs, k) /\ u.ctx.chunk = c.chunk /\ u.evicted = << >> /\ u.ok
        /\ RowIds(u.ctx) = {} /\ RowIds(c) = Over(c, done)
    BY <1>1, UpdateAllDone
  <2>2. u.ok = TRUE
    BY <1>1 DEF UpdateRequests, AllDone
  <2>. HIDE DEF u
  <2>3. ToSet(u.evicted) = {}
    BY <2>1 DEF ToSet
  <2>4. Leaves(u.evicted, c, reqs)
    BY <2>1, <2>3 DEF Leaves, Injective
  <2>5. /\ u.ok <=> AllDone(c, done) \/ Final(c, done).paused < Len(Final(c, done).rows)
        /\ u.ok \in BOOLEAN
    BY <1>1, <2>2
  <2>. QED  BY <2>1, <2>3, <2>4, <2>5 DEF u
<1>2. CASE ~AllDone(c, done)
  <2>. DEFINE sorted  == Sorted(c, done)
              resumed == Resume(sorted)
              evicted == Evict(resumed)
              final   == Final(c, done)
              goes    == final.paused < Len(final.rows)
              last    == ChunkLast(final)
  <2>1. /\ Between(final, reqs, k)
        /\ ResumesFullRows(sorted) /\ ResumesFullRows(evicted)
        /\ resumed.chunk = c.chunk /\ final.chunk = c.chunk
        /\ RowIds(resumed) = RowIds(c) \ Over(c, done)
        /\ RowIds(final) = RowIds(resumed) \ ToSet(EvictedIds(resumed))
        /\ Leaves(EvictedIds(resumed), resumed, reqs)
    BY UpdateStages
  <2>2. u = [ ctx     |-> IF goes THEN Advance(last) ELSE final,
              evicted |-> EvictedIds(resumed),
              ok      |-> ResumesFullRows(sorted) /\ ResumesFullRows(evicted) /\ goes ]
    BY <1>2, Zenon DEF UpdateRequests, AllDone, Final, Sorted
  <2>. HIDE DEF u, final, resumed, evicted, sorted, goes
  <2>3. u.ctx = (IF goes THEN Advance(last) ELSE final) /\ u.evicted = EvictedIds(resumed)
        /\ u.ok = (ResumesFullRows(sorted) /\ ResumesFullRows(evicted) /\ goes)
    BY <2>2
  <2>4. u.ok <=> goes
    BY <2>1, <2>3
  <2>5. u.ok \in BOOLEAN
    BY <2>3
  <2>6. ASSUME goes
        PROVE  Updated(Advance(last), reqs, k) /\ Advance(last).chunk = final.chunk
               /\ RowIds(Advance(last)) = RowIds(final)
    <3>1. /\ Between(last, reqs, k) /\ last.chunk = final.chunk /\ RowIds(last) = RowIds(final)
          /\ last.paused = final.paused /\ Len(last.rows) = Len(final.rows)
          /\ last.chunk # None => last.rows[Len(last.rows)].id = last.chunk
      BY <2>1, ChunkLastBetween
    <3>. HIDE DEF last
    <3>2. last.paused < Len(last.rows)
      BY <2>6, <3>1 DEF goes
    <3>3. reqs \in [Requests -> RequestType]
      BY DEF Updatable
    <3>. QED  BY <3>1, <3>2, <3>3, AdvanceDone
  <2>7. /\ u.evicted \in Seq(Requests) /\ Injective(u.evicted)
        /\ ToSet(u.evicted) \subseteq RowIds(resumed)
        /\ \A r \in ToSet(u.evicted) : r # c.chunk /\ \E w \in RowType : Paired(w, reqs[r], 1)
    BY <2>1, <2>3 DEF Leaves
  <2>8. Leaves(u.evicted, c, reqs) /\ ToSet(u.evicted) \cap Over(c, done) = {}
    BY <2>1, <2>7 DEF Leaves
  <2>9. u.ok => /\ Updated(u.ctx, reqs, k)
                /\ u.ctx.chunk = c.chunk
                /\ RowIds(u.ctx) = RowIds(c) \ (Over(c, done) \cup ToSet(u.evicted))
    BY <2>1, <2>3, <2>4, <2>6
  <2>. QED  BY <1>2, <2>4, <2>5, <2>8, <2>9 DEF u, goes, final
<1>. QED  BY <1>1, <1>2

-----------------------------------------------------------------------------
(* Requests that enter the context                                         *)

\* More tokens need no fewer blocks.
LEMMA BlocksForRises ==
  ASSUME NEW a \in Nat, NEW b \in Nat, a <= b
  PROVE  BlocksFor(a) \in Nat /\ BlocksFor(b) \in Nat /\ BlocksFor(a) <= BlocksFor(b)
<1>. DEFINE B == BlockSize
            x == a + B - 1
            y == b + B - 1
            k == x \div B
            m == y \div B
<1>1. B \in Nat /\ B > 0
  BY ContextAssumption
<1>2. x \in Nat /\ y \in Nat /\ x <= y
  BY <1>1
<1>3. BlocksFor(a) = k /\ BlocksFor(b) = m
  BY DEF BlocksFor
<1>. HIDE DEF B, x, y
<1>4. \A z \in Nat : z \div B \in Nat /\ (z \div B) * B <= z /\ z < (z \div B + 1) * B
  BY <1>1
<1>5. k \in Nat /\ m \in Nat /\ k * B <= x /\ y < (m + 1) * B
  BY <1>2, <1>4
<1>. HIDE DEF k, m
<1>6. \A i, j \in Nat : i <= j => i * B <= j * B
  BY <1>1
<1>7. k <= m
  <2>. SUFFICES ASSUME m + 1 <= k PROVE FALSE
    BY <1>5
  <2>1. (m + 1) * B <= k * B
    BY <1>5, <1>6
  <2>2. (m + 1) * B \in Nat /\ k * B \in Nat
    BY <1>1, <1>5
  <2>. QED  BY <1>2, <1>5, <2>1, <2>2
<1>. QED  BY <1>3, <1>5, <1>7

\* No tokens need no blocks; the last of some tokens has a slot in the last of
\* their blocks.
LEMMA BlocksForLast ==
  /\ BlocksFor(0) = 0
  /\ \A m \in Nat \ {0} :
       /\ BlocksFor(m) \in Nat \ {0}
       /\ (m - 1) % BlockSize \in 0 .. BlockSize - 1
       /\ m - 1 = (BlocksFor(m) - 1) * BlockSize + ((m - 1) % BlockSize)
<1>1. BlockSize \in Nat /\ BlockSize > 0
  BY ContextAssumption
<1>2. BlocksFor(0) = 0
  BY <1>1 DEF BlocksFor
<1>3. ASSUME NEW m \in Nat \ {0}
      PROVE  /\ BlocksFor(m) \in Nat \ {0}
             /\ (m - 1) % BlockSize \in 0 .. BlockSize - 1
             /\ m - 1 = (BlocksFor(m) - 1) * BlockSize + ((m - 1) % BlockSize)
  <2>. DEFINE x == m - 1
              q == x \div BlockSize
              l == x % BlockSize
  <2>1. x \in Nat /\ m = x + 1
    OBVIOUS
  <2>. HIDE DEF x
  <2>2. q \in Nat /\ l \in 0 .. BlockSize - 1 /\ x = q * BlockSize + l
    BY <1>1, <2>1
  <2>. HIDE DEF q, l
  <2>3. q + 1 \in Nat /\ (q + 1) - 1 = q
    BY <2>2
  <2>4. m = ((q + 1) - 1) * BlockSize + l + 1
    BY <2>1, <2>2, <2>3
  <2>5. BlocksFor(m) = q + 1
    BY <1>3, <2>2, <2>3, <2>4, BlocksForSlot
  <2>6. x = (BlocksFor(m) - 1) * BlockSize + l
    BY <2>2, <2>3, <2>5
  <2>. QED  BY <2>2, <2>5, <2>6 DEF x, l
<1>. QED  BY <1>2, <1>3

\* What add_request needs of the context.
Addable(c, r, prefilled) ==
  /\ c \in ContextType
  /\ c.paused <= Len(c.rows)
  /\ Owned(c)
  /\ DistinctRows(c)
  /\ prefilled = 0 => r \notin RowIds(c)
  /\ prefilled > 0 => /\ c.paused < Len(c.rows)
                      /\ c.rows[Len(c.rows)].id = r
                      /\ Len(c.rows[Len(c.rows)].blocks) = BlocksFor(prefilled)

\* What it makes of it.
Added(c, d, r, prefilled, n, budget) ==
  LET m == Len(d.rows)
      w == d.rows[m]
  IN  /\ d \in ContextType /\ d.chunk = c.chunk /\ d.paused = c.paused /\ d.paused < m
      /\ Owned(d) /\ DistinctRows(d) /\ RowIds(d) = RowIds(c) \cup {r}
      /\ w.id = r /\ w.offset = prefilled /\ w.query = n /\ w.out = prefilled + n + budget
      /\ Len(w.blocks) = BlocksFor(prefilled + n)
      /\ InItsSlot(w)
      /\ \A i \in DOMAIN d.rows \ {m} : i \in DOMAIN c.rows /\ d.rows[i] = c.rows[i] /\ d.rows[i].id # r

\* add_request: the row of the request is the last one, with the blocks that its
\* tokens need; no other row changes.
LEMMA AddRequestKeeps ==
  ASSUME NEW c, NEW r \in Requests, NEW prefilled \in Nat, Addable(c, r, prefilled),
         NEW n \in Nat \ {0}, NEW budget \in Int, prefilled + n + budget \in Nat,
         BlocksFor(prefilled + n) - BlocksFor(prefilled) <= Len(c.free)
  PROVE  Added(c, AddRequest(c, r, prefilled, n, budget), r, prefilled, n, budget)
<1>. DEFINE d     == AddRequest(c, r, prefilled, n, budget)
            L     == Len(c.rows)
            owned == IF prefilled > 0 THEN c.rows[L].blocks ELSE << >>
            kept  == IF prefilled > 0 THEN SubSeq(c.rows, 1, L - 1) ELSE c.rows
            K     == IF prefilled > 0 THEN L - 1 ELSE L
            need  == BlocksFor(prefilled + n) - BlocksFor(prefilled)
            top   == Allocated(c, need)
            last  == (prefilled + n - 1) % BlockSize
            row   == [ id     |-> r,
                       offset |-> prefilled,
                       query  |-> n,
                       out    |-> prefilled + n + budget,
                       blocks |-> owned \o top,
                       last   |-> last ]
            rows  == Append(kept, row)
<1>1. /\ c \in ContextType /\ c.paused <= L /\ Owned(c) /\ DistinctRows(c)
      /\ prefilled = 0 => r \notin RowIds(c)
      /\ prefilled > 0 => /\ c.paused < L
                          /\ c.rows[L].id = r
                          /\ Len(c.rows[L].blocks) = BlocksFor(prefilled)
  BY DEF Addable
<1>2. /\ c.free \in Seq(Blocks) /\ c.rows \in Seq(RowType) /\ c.paused \in Nat
      /\ c.chunk \in Requests \cup {None}
      /\ L \in Nat /\ DOMAIN c.rows = 1 .. L /\ Len(c.free) \in Nat
      /\ \A i \in DOMAIN c.rows : c.rows[i] \in RowType
  BY <1>1, ContextFields, ContextRows
<1>3. d = [c EXCEPT !.free = FreeAfter(c, need), !.rows = rows]
  BY DEF AddRequest, Front, Last
<1>. HIDE DEF d
<1>4. /\ BlocksFor(prefilled) \in Nat /\ BlocksFor(prefilled + n) \in Nat
      /\ need \in 0 .. Len(c.free)
  <2>1. prefilled + n \in Nat /\ prefilled <= prefilled + n
    OBVIOUS
  <2>2. /\ BlocksFor(prefilled) \in Nat /\ BlocksFor(prefilled + n) \in Nat
        /\ BlocksFor(prefilled) <= BlocksFor(prefilled + n)
    BY <2>1, BlocksForRises
  <2>3. need <= Len(c.free)
    OBVIOUS
  <2>4. \A x, y \in Nat : x <= y => y - x \in Nat
    OBVIOUS
  <2>5. need \in Nat
    BY <2>2, <2>4
  <2>. HIDE DEF need
  <2>. QED  BY <1>2, <2>2, <2>3, <2>5
<1>5. /\ prefilled + n \in Nat \ {0} /\ last \in 0 .. BlockSize - 1
      /\ prefilled + n - 1 = (BlocksFor(prefilled + n) - 1) * BlockSize + last
  BY BlocksForLast
<1>6. /\ K \in Nat /\ K <= L /\ c.paused < K + 1
      /\ kept \in Seq(RowType) /\ Len(kept) = K
      /\ \A i \in 1 .. K : kept[i] = c.rows[i]
  <2>1. CASE prefilled > 0
    <3>1. L - 1 \in Nat /\ L - 1 <= L /\ c.paused < (L - 1) + 1
      BY <1>1, <1>2, <2>1
    <3>2. /\ SubSeq(c.rows, 1, L - 1) \in Seq(RowType) /\ Len(SubSeq(c.rows, 1, L - 1)) = L - 1
          /\ \A i \in 1 .. L - 1 : SubSeq(c.rows, 1, L - 1)[i] = c.rows[i]
      BY <1>2, <3>1
    <3>. QED  BY <2>1, <3>1, <3>2
  <2>2. CASE ~(prefilled > 0)
    BY <1>1, <1>2, <2>2
  <2>. QED  BY <2>1, <2>2
<1>7. owned \in Seq(Blocks) /\ Len(owned) = BlocksFor(prefilled)
  <2>1. CASE prefilled > 0
    <3>1. c.rows[L] \in RowType
      BY <1>1, <1>2, <2>1
    <3>. QED  BY <1>1, <2>1, <3>1, RowFields
  <2>2. CASE ~(prefilled > 0)
    <3>1. prefilled = 0
      BY <2>2
    <3>. QED  BY <2>2, <3>1, BlocksForLast
  <2>. QED  BY <2>1, <2>2
<1>8. /\ Injective(owned) /\ ToSet(owned) \cap ToSet(c.free) = {}
      /\ \A i \in 1 .. K : ToSet(c.rows[i].blocks) \cap ToSet(owned) = {}
  <2>1. CASE prefilled > 0
    <3>1. L \in DOMAIN c.rows /\ K = L - 1 /\ owned = c.rows[L].blocks
      BY <1>1, <1>2, <2>1
    <3>2. \A i \in 1 .. K : i \in DOMAIN c.rows /\ i # L
      BY <1>2, <3>1
    <3>. HIDE DEF owned, K
    <3>. QED  BY <1>1, <3>1, <3>2 DEF Owned, FreeOwned, RowsOwned
  <2>2. CASE ~(prefilled > 0)
    <3>1. owned = << >> /\ ToSet(<< >>) = {}
      BY <2>2 DEF ToSet
    <3>. QED  BY <3>1 DEF Injective
  <2>. QED  BY <2>1, <2>2
<1>9. \A b \in Blocks : b \in ToSet(c.free) \/ b \in ToSet(owned) \/ \E i \in 1 .. K : b \in ToSet(c.rows[i].blocks)
  <2>. SUFFICES ASSUME NEW b \in Blocks, b \notin ToSet(c.free), b \notin ToSet(owned)
                PROVE  \E i \in 1 .. K : b \in ToSet(c.rows[i].blocks)
    OBVIOUS
  <2>1. PICK i \in DOMAIN c.rows : b \in ToSet(c.rows[i].blocks)
    BY <1>1 DEF Owned, AllOwned
  <2>2. i \in 1 .. K
    <3>1. CASE prefilled > 0
      <4>1. i # L
        BY <2>1, <3>1
      <4>. QED  BY <1>2, <3>1, <4>1
    <3>2. CASE ~(prefilled > 0)
      BY <1>2, <3>2
    <3>. QED  BY <3>1, <3>2
  <2>. QED  BY <2>1, <2>2
<1>10. \A i \in 1 .. K : c.rows[i].id # r
  <2>. SUFFICES ASSUME NEW i \in 1 .. K, c.rows[i].id = r PROVE FALSE
    OBVIOUS
  <2>1. i \in DOMAIN c.rows
    BY <1>2, <1>6
  <2>2. CASE prefilled > 0
    <3>1. L \in DOMAIN c.rows /\ i # L
      BY <1>1, <1>2, <2>2
    <3>. QED  BY <1>1, <2>1, <2>2, <3>1 DEF DistinctRows
  <2>3. CASE ~(prefilled > 0)
    BY <1>1, <2>1, <2>3 DEF RowIds
  <2>. QED  BY <2>2, <2>3
<1>11. RowIds(c) \cup {r} = { c.rows[i].id : i \in 1 .. K } \cup {r}
  <2>1. CASE prefilled > 0
    <3>1. \A i \in DOMAIN c.rows : i \in 1 .. K \/ c.rows[i].id = r
      BY <1>1, <1>2, <2>1
    <3>2. \A i \in 1 .. K : i \in DOMAIN c.rows
      BY <1>2, <1>6
    <3>. QED  BY <3>1, <3>2 DEF RowIds
  <2>2. CASE ~(prefilled > 0)
    BY <1>2, <2>2 DEF RowIds
  <2>. QED  BY <2>1, <2>2
<1>. HIDE DEF owned, kept, K, need, last, L
<1>12. /\ top \in Seq(Blocks) /\ Len(top) = need
       /\ FreeAfter(c, need) \in Seq(Blocks)
       /\ Injective(top) /\ \A b \in ToSet(top) : b \in ToSet(c.free)
  <2>1. Injective(c.free)
    BY <1>1 DEF Owned, FreeOwned
  <2>. QED  BY <1>2, <1>4, <2>1, StackParts DEF Allocated, FreeAfter
<1>. HIDE DEF top
<1>13. /\ owned \o top \in Seq(Blocks) /\ Len(owned \o top) = BlocksFor(prefilled + n)
       /\ Injective(owned \o top)
       /\ \A b : b \in ToSet(owned \o top) <=> b \in ToSet(owned) \/ b \in ToSet(top)
  <2>1. ToSet(owned) \cap ToSet(top) = {}
    BY <1>8, <1>12
  <2>2. Len(owned \o top) = Len(owned) + Len(top)
    BY <1>7, <1>12, ConcatLists
  <2>3. Len(owned \o top) = BlocksFor(prefilled + n)
    BY <1>4, <1>7, <1>12, <2>2 DEF need
  <2>. QED  BY <1>7, <1>8, <1>12, <2>1, <2>3, ConcatLists
<1>14. /\ row \in RowType /\ row.id = r /\ row.offset = prefilled /\ row.query = n
       /\ row.out = prefilled + n + budget /\ row.blocks = owned \o top /\ row.last = last
  BY <1>5, <1>13 DEF RowType
<1>. HIDE DEF row
<1>15. InItsSlot(row)
  <2>1. row.offset + row.query - 1 = prefilled + n - 1
    BY <1>14
  <2>2. (Len(row.blocks) - 1) * BlockSize + row.last = prefilled + n - 1
    BY <1>5, <1>13, <1>14
  <2>. QED  BY <2>1, <2>2 DEF InItsSlot
<1>16. /\ rows \in Seq(RowType) /\ Len(rows) = K + 1 /\ DOMAIN rows = 1 .. K + 1
       /\ rows[K + 1] = row /\ \A i \in 1 .. K : rows[i] = c.rows[i]
  BY <1>6, <1>14
<1>. HIDE DEF rows
<1>17. /\ d \in ContextType /\ d.chunk = c.chunk /\ d.paused = c.paused /\ d.rows = rows
       /\ d.free = FreeAfter(c, need)
  BY <1>1, <1>3, <1>12, <1>16 DEF ContextType
<1>18. \A i \in 1 .. K + 1 : i \in 1 .. K \/ i = K + 1
  BY <1>6
<1>19. \A i \in 1 .. K : i \in 1 .. K + 1 /\ i # K + 1 /\ i \in DOMAIN c.rows
  BY <1>2, <1>6
<1>20. DistinctRows(d)
  BY <1>1, <1>10, <1>14, <1>16, <1>17, <1>18, <1>19 DEF DistinctRows
<1>21. RowIds(d) = RowIds(c) \cup {r}
  <2>1. RowIds(d) = { c.rows[i].id : i \in 1 .. K } \cup {r}
    <3>1. RowIds(d) = { rows[i].id : i \in 1 .. K + 1 }
      BY <1>16, <1>17 DEF RowIds
    <3>2. \A i \in 1 .. K : i \in 1 .. K + 1 /\ rows[i].id = c.rows[i].id
      BY <1>16, <1>19
    <3>3. K + 1 \in 1 .. K + 1 /\ rows[K + 1].id = r
      BY <1>6, <1>14, <1>16
    <3>4. \A i \in 1 .. K + 1 : rows[i].id \in { c.rows[j].id : j \in 1 .. K } \cup {r}
      BY <1>18, <3>2, <3>3
    <3>. QED  BY <3>1, <3>2, <3>3, <3>4
  <2>. QED  BY <1>11, <2>1
<1>22. Owned(d)
  <2>. DEFINE old == [i \in 1 .. K + 1 |-> IF i = K + 1 THEN ToSet(owned) ELSE ToSet(c.rows[i].blocks)]
              new == [i \in 1 .. K + 1 |-> IF i = K + 1 THEN ToSet(top) ELSE {}]
  <2>1. /\ K + 1 \in 1 .. K + 1
        /\ old[K + 1] = ToSet(owned) /\ new[K + 1] = ToSet(top)
        /\ \A i \in 1 .. K : old[i] = ToSet(c.rows[i].blocks) /\ new[i] = {}
    BY <1>6, <1>19
  <2>. HIDE DEF old, new
  <2>2. /\ Injective(c.free)
        /\ \A i \in 1 .. K : Injective(c.rows[i].blocks) /\ ToSet(c.rows[i].blocks) \cap ToSet(c.free) = {}
        /\ \A i, j \in 1 .. K : i # j => ToSet(c.rows[i].blocks) \cap ToSet(c.rows[j].blocks) = {}
    BY <1>1, <1>19 DEF Owned, FreeOwned, RowsOwned
  <2>3. \A i \in 1 .. K + 1 : Injective(rows[i].blocks)
    BY <1>13, <1>14, <1>16, <1>18, <2>2
  <2>4. \A i \in 1 .. K + 1 : \A b : b \in ToSet(rows[i].blocks) <=> b \in old[i] \/ b \in new[i]
    <3>. SUFFICES ASSUME NEW i \in 1 .. K + 1
                  PROVE  \A b : b \in ToSet(rows[i].blocks) <=> b \in old[i] \/ b \in new[i]
      OBVIOUS
    <3>1. CASE i = K + 1
      <4>1. rows[i].blocks = owned \o top /\ old[i] = ToSet(owned) /\ new[i] = ToSet(top)
        BY <1>14, <1>16, <2>1, <3>1
      <4>. QED  BY <1>13, <4>1
    <3>2. CASE i \in 1 .. K
      <4>1. rows[i].blocks = c.rows[i].blocks /\ old[i] = ToSet(c.rows[i].blocks) /\ new[i] = {}
        BY <1>16, <2>1, <3>2
      <4>. QED  BY <4>1
    <3>. QED  BY <1>18, <3>1, <3>2
  <2>5. \A i, j \in 1 .. K + 1 : i # j => old[i] \cap old[j] = {} /\ new[i] \cap new[j] = {}
    <3>. SUFFICES ASSUME NEW i \in 1 .. K + 1, NEW j \in 1 .. K + 1, i # j
                  PROVE  old[i] \cap old[j] = {} /\ new[i] \cap new[j] = {}
      OBVIOUS
    <3>1. CASE i \in 1 .. K /\ j \in 1 .. K
      BY <2>1, <2>2, <3>1
    <3>2. CASE i = K + 1
      <4>1. j \in 1 .. K
        BY <1>18, <3>2
      <4>. QED  BY <1>8, <2>1, <3>2, <4>1
    <3>3. CASE j = K + 1
      <4>1. i \in 1 .. K
        BY <1>18, <3>3
      <4>. QED  BY <1>8, <2>1, <3>3, <4>1
    <3>. QED  BY <1>18, <3>1, <3>2, <3>3
  <2>6. \A i \in 1 .. K + 1 : old[i] \cap ToSet(c.free) = {}
    BY <1>8, <1>18, <2>1, <2>2
  <2>7. \A b : b \in ToSet(top) <=> \E i \in 1 .. K + 1 : b \in new[i]
    BY <1>18, <2>1
  <2>8. \A b \in Blocks : b \in ToSet(c.free) \/ \E i \in 1 .. K + 1 : b \in old[i]
    BY <1>9, <1>19, <2>1
  <2>9. Shares(c, d, need, old, new)
    BY <1>16, <1>17, <2>2, <2>3, <2>4, <2>5, <2>6, <2>7, <2>8 DEF Shares, top
  <2>. QED  BY <1>1, <1>4, <1>17, <2>9, Acquire
<1>23. /\ Len(d.rows) = K + 1 /\ d.rows[K + 1] = row /\ d.paused < K + 1
       /\ \A i \in DOMAIN d.rows \ {K + 1} : i \in DOMAIN c.rows /\ d.rows[i] = c.rows[i] /\ d.rows[i].id # r
  BY <1>6, <1>10, <1>16, <1>17, <1>18, <1>19
<1>24. Len(row.blocks) = BlocksFor(prefilled + n)
  BY <1>13, <1>14
<1>25. Added(c, d, r, prefilled, n, budget)
  BY <1>14, <1>15, <1>17, <1>20, <1>21, <1>22, <1>23, <1>24 DEF Added
<1>. QED  BY <1>25 DEF d

-----------------------------------------------------------------------------
(* Scheduling                                                              *)

\* The head of a queue and the rest of it.
LEMMA QueueParts ==
  ASSUME NEW B, NEW q \in Seq(B), q # << >>, Injective(q)
  PROVE  /\ Head(q) \in B /\ Head(q) \in ToSet(q)
         /\ Tail(q) \in Seq(B) /\ Injective(Tail(q)) /\ Head(q) \notin ToSet(Tail(q))
         /\ \A r : r \in ToSet(q) <=> r = Head(q) \/ r \in ToSet(Tail(q))
<1>. DEFINE n == Len(q)
            t == Tail(q)
<1>1. /\ n \in Nat \ {0} /\ DOMAIN q = 1 .. n /\ Head(q) = q[1] /\ \A i \in 1 .. n : q[i] \in B
      /\ t \in Seq(B) /\ Len(t) = n - 1 /\ DOMAIN t = 1 .. n - 1 /\ \A i \in 1 .. n - 1 : t[i] = q[i + 1]
  OBVIOUS
<1>. HIDE DEF n, t
<1>2. /\ 1 \in 1 .. n
      /\ \A i \in 1 .. n - 1 : i + 1 \in 1 .. n /\ i + 1 # 1
      /\ \A i \in 1 .. n : i = 1 \/ (i - 1 \in 1 .. n - 1 /\ i = (i - 1) + 1)
  BY <1>1
<1>3. \A i, j \in 1 .. n : q[i] = q[j] => i = j
  BY <1>1 DEF Injective
<1>4. Injective(t)
  <2>. SUFFICES ASSUME NEW i \in 1 .. n - 1, NEW j \in 1 .. n - 1, t[i] = t[j] PROVE i = j
    BY <1>1 DEF Injective
  <2>1. i + 1 = j + 1
    BY <1>1, <1>2, <1>3
  <2>. QED  BY <1>1, <2>1
<1>5. \A r : r \in ToSet(t) <=> \E i \in 1 .. n - 1 : q[i + 1] = r
  BY <1>1 DEF ToSet
<1>6. \A r : r \in ToSet(q) <=> \E i \in 1 .. n : q[i] = r
  BY <1>1 DEF ToSet
<1>7. Head(q) \in ToSet(q) /\ Head(q) \notin ToSet(t)
  BY <1>1, <1>2, <1>3, <1>5, <1>6
<1>8. ASSUME NEW r, r \in ToSet(q), r # Head(q) PROVE r \in ToSet(t)
  <2>1. PICK i \in 1 .. n : q[i] = r
    BY <1>6, <1>8
  <2>2. i # 1
    BY <1>1, <1>8, <2>1
  <2>3. i - 1 \in 1 .. n - 1 /\ i = (i - 1) + 1
    BY <1>2, <2>2
  <2>. QED  BY <1>5, <2>1, <2>3
<1>9. \A r : r \in ToSet(q) <=> r = Head(q) \/ r \in ToSet(t)
  BY <1>2, <1>5, <1>6, <1>7, <1>8
<1>. QED  BY <1>1, <1>2, <1>4, <1>7, <1>9 DEF t

\* Another chunk changes neither the rows nor who owns the blocks.
LEMMA WithChunk ==
  ASSUME NEW e \in ContextType, NEW k \in Requests \cup {None}
  PROVE  LET d == [e EXCEPT !.chunk = k]
         IN  /\ d \in ContextType /\ d.free = e.free /\ d.rows = e.rows /\ d.paused = e.paused /\ d.chunk = k
             /\ RowIds(d) = RowIds(e)
             /\ Owned(e) => Owned(d)
             /\ DistinctRows(e) => DistinctRows(d)
<1>. DEFINE d == [e EXCEPT !.chunk = k]
<1>1. d \in ContextType /\ d.free = e.free /\ d.rows = e.rows /\ d.paused = e.paused /\ d.chunk = k
  BY DEF ContextType
<1>. HIDE DEF d
<1>2. RowIds(d) = RowIds(e) /\ (DistinctRows(e) => DistinctRows(d))
  BY <1>1 DEF RowIds, DistinctRows
<1>3. Owned(e) => Owned(d)
  BY <1>1 DEF Owned, FreeOwned, RowsOwned, AllOwned
<1>. QED  BY <1>1, <1>2, <1>3 DEF d

\* The state of the scheduling loops.
Schedulable(c, reqs, queue) ==
  /\ setup \in SetupType
  /\ c \in ContextType
  /\ c.paused <= Len(c.rows)
  /\ reqs \in [Requests -> RequestType]
  /\ queue \in Seq(Requests)
  /\ failed \in Seq(Requests)
  /\ Serving(c, reqs, queue)

\* The head of the queue is added with n tokens of its prompt.
HeadAdded(c, e, reqs, r, n) ==
  /\ r \in Requests
  /\ Added(c, e, r, reqs[r].prefilled, n, reqs[r].budget)
  /\ ContinuesLastRow(c, r, reqs[r].prefilled)
  /\ Queued(reqs[r])
  /\ c.chunk \in {None, r}

\* When the head of the queue enters the context, no block is lost or shared.
LEMMA HeadEnters ==
  ASSUME NEW c, NEW reqs, NEW queue, Schedulable(c, reqs, queue), queue # << >>,
         NEW n \in Nat \ {0}, n <= reqs[Head(queue)].left,
         MemoryAvailable(c, reqs[Head(queue)].prefilled, reqs[Head(queue)].left)
  PROVE  LET r == Head(queue)
         IN  HeadAdded(c, AddRequest(c, r, reqs[r].prefilled, n, reqs[r].budget), reqs, r, n)
<1>. DEFINE r == Head(queue)
            q == reqs[r]
            p == q.prefilled
            L == Len(c.rows)
<1>1. /\ c \in ContextType /\ c.paused <= L /\ reqs \in [Requests -> RequestType]
      /\ queue \in Seq(Requests) /\ Owned(c) /\ DistinctRows(c)
      /\ ChunkGood(c, reqs, queue) /\ QueueGood(c, reqs, queue)
  BY DEF Schedulable, Serving
<1>2. r \in Requests /\ r \in ToSet(queue)
  BY <1>1, QueueParts DEF QueueGood
<1>3. /\ Queued(q) /\ (p > 0 => r = c.chunk) /\ (r \in RowIds(c) => r = c.chunk)
  BY <1>1, <1>2 DEF QueueGood
<1>4. /\ q.prompt \in Nat /\ q.budget \in Int /\ q.left \in Nat /\ p \in Nat
      /\ q.budget > 0
  <2>1. q \in RequestType
    BY <1>1, <1>2
  <2>. QED  BY <1>3, <2>1 DEF RequestType, Queued
<1>5. c.chunk # None => /\ r = c.chunk /\ p > 0 /\ c.paused < L /\ c.rows[L].id = c.chunk
                        /\ Len(c.rows[L].blocks) = BlocksFor(p)
  BY <1>1 DEF ChunkGood
<1>6. r # None
  BY <1>2, InferenceAssumption
<1>7. n <= q.left
  OBVIOUS
<1>8. Len(c.free) >= BlocksFor(q.left + p) - BlocksFor(p)
  BY DEF MemoryAvailable
<1>. HIDE DEF r, q, p, L
<1>9. Addable(c, r, p)
  <2>1. p = 0 => r \notin RowIds(c)
    BY <1>3, <1>5, <1>6
  <2>2. p > 0 => c.paused < L /\ c.rows[L].id = r /\ Len(c.rows[L].blocks) = BlocksFor(p)
    BY <1>3, <1>5, <1>6
  <2>. QED  BY <1>1, <2>1, <2>2 DEF Addable, L
<1>10. BlocksFor(p + n) - BlocksFor(p) <= Len(c.free)
  <2>1. p + n \in Nat /\ p + q.left \in Nat /\ p + n <= p + q.left /\ p + q.left = q.left + p
    BY <1>4, <1>7
  <2>2. /\ BlocksFor(p + n) \in Nat /\ BlocksFor(q.left + p) \in Nat
        /\ BlocksFor(p + n) <= BlocksFor(q.left + p)
    BY <2>1, BlocksForRises
  <2>3. BlocksFor(p) \in Nat /\ Len(c.free) \in Nat
    <3>1. p <= p /\ c.free \in Seq(Blocks)
      BY <1>1, <1>4, ContextFields
    <3>. QED  BY <1>4, <3>1, BlocksForRises, SMTT(30)
  <2>. QED  BY <1>8, <2>2, <2>3
<1>11. p + n + q.budget \in Nat
  BY <1>4
<1>12. Added(c, AddRequest(c, r, p, n, q.budget), r, p, n, q.budget)
  BY <1>2, <1>4, <1>9, <1>10, <1>11, AddRequestKeeps
<1>13. ContinuesLastRow(c, r, p)
  <2>. SUFFICES ASSUME p > 0 PROVE c.rows # << >> /\ Last(c.rows).id = r
    BY DEF ContinuesLastRow
  <2>1. c.paused < L /\ c.rows[L].id = r /\ c.paused \in Nat /\ c.rows \in Seq(RowType)
    BY <1>1, <1>3, <1>5, <1>6, ContextFields
  <2>. QED  BY <2>1 DEF Last, L
<1>14. HeadAdded(c, AddRequest(c, r, p, n, q.budget), reqs, r, n)
  BY <1>2, <1>3, <1>5, <1>12, <1>13 DEF HeadAdded, p, q
<1>. QED  BY <1>14 DEF r, q, p

\* What two states of the requests may differ in: how far the prompt of one
\* of them is filled.
Prefills(reqs, reqs2, r) ==
  /\ reqs2 \in [Requests -> RequestType]
  /\ \A x \in Requests \ {r} : reqs2[x] = reqs[x]
  /\ reqs2[r].state = reqs[r].state /\ reqs2[r].prompt = reqs[r].prompt
  /\ reqs2[r].generated = reqs[r].generated /\ reqs2[r].budget = reqs[r].budget

\* The rows of the other requests stay as they are.
Stays(c, d, e, r, k, reqs) ==
  /\ d \in ContextType /\ d.chunk = k /\ d.paused < Len(d.rows) /\ Len(d.rows) \in Nat
  /\ d.paused <= Len(d.rows) /\ d.rows = e.rows
  /\ Owned(d) /\ DistinctRows(d) /\ RowIds(d) = RowIds(c) \cup {r}
  /\ d.rows[Len(d.rows)].id = r
  /\ \A i \in DOMAIN d.rows \ {Len(d.rows)} :
       /\ Paired(d.rows[i], reqs[d.rows[i].id], IF i <= d.paused THEN 1 ELSE 0)
       /\ InItsSlot(d.rows[i])
       /\ i <= d.paused => d.rows[i].last = BlockSize - 1

\* The rows and the requests other than the head of the queue match as before.
LEMMA OthersStay ==
  ASSUME NEW c, NEW reqs, NEW queue, Schedulable(c, reqs, queue),
         NEW r, NEW n, NEW e, HeadAdded(c, e, reqs, r, n),
         NEW k, k \in {None, r}, NEW reqs2, Prefills(reqs, reqs2, r)
  PROVE  Stays(c, [e EXCEPT !.chunk = k], e, r, k, reqs2)
<1>. DEFINE d == [e EXCEPT !.chunk = k]
            m == Len(e.rows)
<1>1. c \in ContextType /\ RowsGood(c, reqs) /\ r \in Requests /\ c.chunk \in {None, r}
  BY DEF Schedulable, Serving, HeadAdded
<1>2. /\ e \in ContextType /\ e.paused = c.paused /\ e.paused < m
      /\ Owned(e) /\ DistinctRows(e) /\ RowIds(e) = RowIds(c) \cup {r}
      /\ e.rows[m].id = r
      /\ \A i \in DOMAIN e.rows \ {m} : i \in DOMAIN c.rows /\ e.rows[i] = c.rows[i] /\ e.rows[i].id # r
  BY DEF HeadAdded, Added
<1>3. k \in Requests \cup {None}
  BY <1>1
<1>4. /\ d \in ContextType /\ d.rows = e.rows /\ d.paused = e.paused /\ d.chunk = k
      /\ Owned(d) /\ DistinctRows(d) /\ RowIds(d) = RowIds(e)
  BY <1>2, <1>3, WithChunk
<1>5. m \in Nat /\ e.paused \in Nat
  BY <1>2, ContextRows
<1>. HIDE DEF d, m
<1>6. ASSUME NEW i \in DOMAIN d.rows \ {m}
      PROVE  /\ Paired(d.rows[i], reqs2[d.rows[i].id], IF i <= d.paused THEN 1 ELSE 0)
             /\ InItsSlot(d.rows[i])
             /\ i <= d.paused => d.rows[i].last = BlockSize - 1
  <2>1. i \in DOMAIN c.rows /\ d.rows[i] = c.rows[i] /\ d.rows[i].id # r
    BY <1>2, <1>4, <1>6
  <2>2. d.rows[i].id \in Requests
    BY <1>1, <2>1, ContextRows, RowFields
  <2>3. reqs2[d.rows[i].id] = reqs[d.rows[i].id]
    BY <2>1, <2>2 DEF Prefills
  <2>4. c.rows[i].id # c.chunk
    BY <1>1, <2>1, <2>2, InferenceAssumption
  <2>. QED  BY <1>1, <1>2, <1>4, <2>1, <2>3, <2>4 DEF RowsGood
<1>7. Stays(c, d, e, r, k, reqs2)
  BY <1>2, <1>4, <1>5, <1>6 DEF m, Stays
<1>. QED  BY <1>7 DEF d

\* The failed requests and all that are held, after the head of the queue has
\* got its row and perhaps left the queue.
LEMMA KeepsTrack ==
  ASSUME NEW c, NEW reqs, NEW queue, Schedulable(c, reqs, queue), NEW r \in ToSet(queue), r \in Requests,
         NEW d, RowIds(d) = RowIds(c) \cup {r},
         NEW reqs2, Prefills(reqs, reqs2, r),
         NEW queue2, \A x : x \in ToSet(queue2) => x \in ToSet(queue),
         \A x : x \in ToSet(queue) => x = r \/ x \in ToSet(queue2)
  PROVE  FailedGood(d, reqs2, queue2) /\ AllHeld(d, reqs2, queue2)
<1>1. FailedGood(c, reqs, queue) /\ AllHeld(c, reqs, queue)
  BY DEF Schedulable, Serving
<1>2. \A x \in Requests : reqs2[x].state = reqs[x].state
  BY DEF Prefills
<1>3. FailedGood(d, reqs2, queue2)
  <2>1. Injective(failed) /\ ToSet(failed) \cap (ToSet(queue) \cup RowIds(c)) = {}
    BY <1>1 DEF FailedGood
  <2>2. ToSet(failed) \cap (ToSet(queue2) \cup RowIds(d)) = {}
    BY <2>1
  <2>3. \A x \in ToSet(failed) : reqs2[x].state = "held"
    <3>1. \A x \in ToSet(failed) : reqs[x].state = "held" /\ x # r
      BY <1>1, <2>1 DEF FailedGood
    <3>2. \A x \in ToSet(failed) : x \in Requests => reqs2[x].state = "held"
      BY <1>2, <3>1
    <3>3. \A x \in ToSet(failed) : x \in Requests
      <4>1. failed \in Seq(Requests)
        BY DEF Schedulable
      <4>. QED  BY <4>1 DEF ToSet
    <3>. QED  BY <3>2, <3>3
  <2>. QED  BY <2>1, <2>2, <2>3 DEF FailedGood
<1>4. AllHeld(d, reqs2, queue2)
  BY <1>1, <1>2 DEF AllHeld
<1>. QED  BY <1>3, <1>4

\* The whole rest of the prompt of the head of the queue.
LEMMA WholePromptEnters ==
  ASSUME NEW c, NEW reqs, NEW queue, Schedulable(c, reqs, queue), queue # << >>,
         MemoryAvailable(c, reqs[Head(queue)].prefilled, reqs[Head(queue)].left)
  PROVE  LET r == Head(queue)
             q == reqs[r]
             d == [AddRequest(c, r, q.prefilled, q.left, q.budget) EXCEPT !.chunk = None]
         IN  /\ Schedulable(d, [reqs EXCEPT ![r].left = 0], Tail(queue))
             /\ ContinuesLastRow(c, r, q.prefilled)
             /\ d.chunk = None
<1>. DEFINE r == Head(queue)
            q == reqs[r]
            n == q.left
            e == AddRequest(c, r, q.prefilled, n, q.budget)
            d == [e EXCEPT !.chunk = None]
            reqs2 == [reqs EXCEPT ![r].left = 0]
            m == Len(d.rows)
            w == d.rows[m]
<1>1. /\ setup \in SetupType /\ failed \in Seq(Requests)
      /\ c \in ContextType /\ reqs \in [Requests -> RequestType]
      /\ queue \in Seq(Requests) /\ Injective(queue) /\ QueueGood(c, reqs, queue)
      /\ ChunkGood(c, reqs, queue)
  BY DEF Schedulable, Serving, QueueGood
<1>2. /\ r \in Requests /\ r \in ToSet(queue) /\ Tail(queue) \in Seq(Requests) /\ Injective(Tail(queue))
      /\ r \notin ToSet(Tail(queue))
      /\ \A x : x \in ToSet(queue) <=> x = r \/ x \in ToSet(Tail(queue))
  BY <1>1, QueueParts
<1>3. q \in RequestType /\ Queued(q)
  BY <1>1, <1>2 DEF QueueGood
<1>4. /\ q.prompt \in Nat /\ q.budget \in Int /\ q.budget > 0 /\ q.prefilled \in Nat /\ n \in Nat \ {0}
      /\ q.generated = 0 /\ n + q.prefilled = q.prompt /\ q.state = "held" /\ Lasting(q)
  BY <1>3 DEF RequestType, Queued
<1>5. HeadAdded(c, e, reqs, r, n)
  <2>1. n <= reqs[Head(queue)].left
    BY <1>4
  <2>. QED  BY <1>4, <2>1, HeadEnters
<1>6. /\ reqs2 \in [Requests -> RequestType]
      /\ \A x \in Requests \ {r} : reqs2[x] = reqs[x]
      /\ reqs2[r] = [q EXCEPT !.left = 0]
  BY <1>1, <1>2, <1>3 DEF RequestType
<1>7. /\ reqs2[r].state = q.state /\ reqs2[r].prompt = q.prompt
      /\ reqs2[r].generated = q.generated /\ reqs2[r].budget = q.budget
  BY <1>3, <1>6 DEF RequestType
<1>. HIDE DEF reqs2
<1>8. Prefills(reqs, reqs2, r)
  BY <1>6, <1>7 DEF Prefills
<1>. HIDE DEF e
<1>. HIDE DEF r, d
<1>9. /\ d \in ContextType /\ d.chunk = None /\ d.paused < m /\ m \in Nat
      /\ d.paused <= m /\ d.rows = e.rows
      /\ Owned(d) /\ DistinctRows(d) /\ RowIds(d) = RowIds(c) \cup {r}
      /\ d.rows[m].id = r
      /\ \A i \in DOMAIN d.rows \ {m} :
           /\ Paired(d.rows[i], reqs2[d.rows[i].id], IF i <= d.paused THEN 1 ELSE 0)
           /\ InItsSlot(d.rows[i])
           /\ i <= d.paused => d.rows[i].last = BlockSize - 1
  <2>1. Stays(c, [e EXCEPT !.chunk = None], e, r, None, reqs2)
    BY <1>5, <1>8, OthersStay
  <2>. QED  BY <2>1 DEF Stays, d
<1>10. /\ w.offset = q.prefilled /\ w.query = n /\ w.out = q.prefilled + n + q.budget /\ InItsSlot(w)
  <2>1. w = e.rows[Len(e.rows)]
    BY <1>9
  <2>. HIDE DEF w
  <2>. QED  BY <1>5, <2>1 DEF HeadAdded, Added
<1>11. Paired(w, reqs2[w.id], 0)
  <2>1. w.id = r /\ Lasting(reqs2[r])
    BY <1>4, <1>7, <1>9 DEF Lasting
  <2>2. w.out = reqs2[r].prompt + reqs2[r].budget
    BY <1>4, <1>7, <1>10
  <2>3. w.offset + w.query = reqs2[r].prompt + reqs2[r].generated - 0
    BY <1>4, <1>7, <1>10
  <2>4. w.offset + w.query + 0 < w.out /\ w.offset + w.query > 0
    BY <1>4, <1>10
  <2>. QED  BY <1>4, <1>7, <2>1, <2>2, <2>3, <2>4 DEF Paired
<1>12. RowsGood(d, reqs2)
  <2>. SUFFICES ASSUME NEW i \in DOMAIN d.rows, d.rows[i].id # d.chunk
                PROVE  /\ Paired(d.rows[i], reqs2[d.rows[i].id], IF i <= d.paused THEN 1 ELSE 0)
                       /\ InItsSlot(d.rows[i])
                       /\ i <= d.paused => d.rows[i].last = BlockSize - 1
    BY DEF RowsGood
  <2>1. CASE i = m
    <3>1. d.paused \in Nat /\ ~(i <= d.paused)
      BY <1>9, <2>1, ContextRows
    <3>. QED  BY <1>10, <1>11, <2>1, <3>1
  <2>2. CASE i # m
    BY <1>9, <2>2
  <2>. QED  BY <2>1, <2>2
<1>13. QueueGood(d, reqs2, Tail(queue))
  <2>. SUFFICES ASSUME NEW x \in ToSet(Tail(queue))
                PROVE  /\ Queued(reqs2[x])
                       /\ reqs2[x].prefilled > 0 => x = d.chunk
                       /\ x \in RowIds(d) => x = d.chunk
    BY <1>2 DEF QueueGood
  <2>1. x \in Requests /\ x # r /\ x \in ToSet(queue)
    BY <1>2 DEF ToSet
  <2>2. reqs2[x] = reqs[x]
    BY <1>6, <2>1
  <2>3. Queued(reqs[x]) /\ (reqs[x].prefilled > 0 => x = c.chunk) /\ (x \in RowIds(c) => x = c.chunk)
    BY <1>1, <2>1 DEF QueueGood
  <2>4. x # c.chunk
    <3>1. c.chunk \in {None, r}
      BY <1>5 DEF HeadAdded
    <3>. QED  BY <2>1, <3>1, InferenceAssumption
  <2>. QED  BY <1>9, <2>1, <2>2, <2>3, <2>4
<1>14. FailedGood(d, reqs2, Tail(queue)) /\ AllHeld(d, reqs2, Tail(queue))
  BY <1>2, <1>8, <1>9, KeepsTrack
<1>15. ChunkGood(d, reqs2, Tail(queue))
  BY <1>9 DEF ChunkGood
<1>16. Serving(d, reqs2, Tail(queue))
  BY <1>9, <1>12, <1>13, <1>14, <1>15 DEF Serving
<1>17. Schedulable(d, reqs2, Tail(queue))
  BY <1>1, <1>2, <1>6, <1>9, <1>16 DEF Schedulable
<1>18. ContinuesLastRow(c, r, q.prefilled)
  BY <1>5 DEF HeadAdded
<1>. QED  BY <1>9, <1>17, <1>18 DEF d, e, reqs2, r

\* The next n tokens of the prompt of the head of the queue.
LEMMA ChunkEnters ==
  ASSUME NEW c, NEW reqs, NEW queue, Schedulable(c, reqs, queue), queue # << >>,
         NEW n \in Nat \ {0}, n < reqs[Head(queue)].left, setup.chunked,
         MemoryAvailable(c, reqs[Head(queue)].prefilled, reqs[Head(queue)].left)
  PROVE  LET r == Head(queue)
             q == reqs[r]
             d == [AddRequest(c, r, q.prefilled, n, q.budget) EXCEPT !.chunk = r]
         IN  /\ Schedulable(d, [reqs EXCEPT ![r] = [q EXCEPT !.left = @ - n, !.prefilled = @ + n]], queue)
             /\ ContinuesLastRow(c, r, q.prefilled)
<1>. DEFINE r == Head(queue)
            q == reqs[r]
            e == AddRequest(c, r, q.prefilled, n, q.budget)
            d == [e EXCEPT !.chunk = r]
            reqs2 == [reqs EXCEPT ![r] = [q EXCEPT !.left = @ - n, !.prefilled = @ + n]]
            m == Len(d.rows)
            w == d.rows[m]
<1>1. /\ setup \in SetupType /\ failed \in Seq(Requests)
      /\ c \in ContextType /\ reqs \in [Requests -> RequestType]
      /\ queue \in Seq(Requests) /\ Injective(queue) /\ QueueGood(c, reqs, queue)
  BY DEF Schedulable, Serving, QueueGood
<1>2. /\ r \in Requests /\ r \in ToSet(queue)
  BY <1>1, QueueParts
<1>3. q \in RequestType /\ Queued(q)
  BY <1>1, <1>2 DEF QueueGood
<1>4. /\ q.prompt \in Nat /\ q.budget \in Int /\ q.budget > 0 /\ q.prefilled \in Nat /\ q.left \in Nat
      /\ q.generated = 0 /\ q.left + q.prefilled = q.prompt /\ q.state = "held" /\ Lasting(q)
  BY <1>3 DEF RequestType, Queued
<1>5. HeadAdded(c, e, reqs, r, n)
  <2>1. n <= reqs[Head(queue)].left
    BY <1>4
  <2>. QED  BY <2>1, HeadEnters
<1>6. /\ reqs2 \in [Requests -> RequestType]
      /\ \A x \in Requests \ {r} : reqs2[x] = reqs[x]
      /\ reqs2[r] = [q EXCEPT !.left = @ - n, !.prefilled = @ + n]
  <2>1. [q EXCEPT !.left = @ - n, !.prefilled = @ + n] \in RequestType
    <3>1. q.left - n \in Nat /\ q.prefilled + n \in Nat
      BY <1>4
    <3>. QED  BY <1>3, <3>1 DEF RequestType
  <2>. DEFINE v == [q EXCEPT !.left = @ - n, !.prefilled = @ + n]
  <2>2. reqs2 = [reqs EXCEPT ![r] = v]
    OBVIOUS
  <2>. HIDE DEF reqs2, v
  <2>. QED  BY <1>1, <1>2, <2>1, <2>2 DEF v
<1>7. /\ reqs2[r].state = q.state /\ reqs2[r].prompt = q.prompt
      /\ reqs2[r].generated = q.generated /\ reqs2[r].budget = q.budget
      /\ reqs2[r].left = q.left - n /\ reqs2[r].prefilled = q.prefilled + n
  BY <1>3, <1>6 DEF RequestType
<1>. HIDE DEF reqs2
<1>8. Prefills(reqs, reqs2, r)
  BY <1>6, <1>7 DEF Prefills
<1>. HIDE DEF e
<1>. HIDE DEF r, d
<1>9. /\ d \in ContextType /\ d.chunk = r /\ d.paused < m /\ m \in Nat
      /\ d.paused <= m /\ d.rows = e.rows
      /\ Owned(d) /\ DistinctRows(d) /\ RowIds(d) = RowIds(c) \cup {r}
      /\ d.rows[m].id = r
      /\ \A i \in DOMAIN d.rows \ {m} :
           /\ Paired(d.rows[i], reqs2[d.rows[i].id], IF i <= d.paused THEN 1 ELSE 0)
           /\ InItsSlot(d.rows[i])
           /\ i <= d.paused => d.rows[i].last = BlockSize - 1
  <2>1. Stays(c, [e EXCEPT !.chunk = r], e, r, r, reqs2)
    BY <1>5, <1>8, OthersStay
  <2>. QED  BY <2>1 DEF Stays, d
<1>10. Len(w.blocks) = BlocksFor(q.prefilled + n)
  <2>1. w = e.rows[Len(e.rows)]
    BY <1>9
  <2>. HIDE DEF w
  <2>. QED  BY <1>5, <2>1 DEF HeadAdded, Added
<1>11. RowsGood(d, reqs2)
  <2>. SUFFICES ASSUME NEW i \in DOMAIN d.rows, d.rows[i].id # d.chunk
                PROVE  /\ Paired(d.rows[i], reqs2[d.rows[i].id], IF i <= d.paused THEN 1 ELSE 0)
                       /\ InItsSlot(d.rows[i])
                       /\ i <= d.paused => d.rows[i].last = BlockSize - 1
    BY DEF RowsGood
  <2>1. i # m /\ d.rows[i].id # r
    BY <1>9
  <2>. QED  BY <1>9, <2>1
<1>12. QueueGood(d, reqs2, queue)
  <2>. SUFFICES ASSUME NEW x \in ToSet(queue)
                PROVE  /\ Queued(reqs2[x])
                       /\ reqs2[x].prefilled > 0 => x = d.chunk
                       /\ x \in RowIds(d) => x = d.chunk
    BY <1>1 DEF QueueGood
  <2>1. x \in Requests
    BY <1>1 DEF ToSet
  <2>2. CASE x = r
    <3>1. q.left - n > 0 /\ (q.left - n) + (q.prefilled + n) = q.prompt
      <4>1. n < q.left
        BY DEF r
      <4>. QED  BY <1>4, <4>1, SMTT(30)
    <3>2. Lasting(reqs2[r])
      BY <1>4, <1>7 DEF Lasting
    <3>3. Queued(reqs2[r])
      BY <1>4, <1>7, <3>1, <3>2 DEF Queued
    <3>. QED  BY <1>9, <2>2, <3>3
  <2>3. CASE x # r
    <3>1. reqs2[x] = reqs[x]
      BY <1>6, <2>1, <2>3
    <3>2. Queued(reqs[x]) /\ (reqs[x].prefilled > 0 => x = c.chunk) /\ (x \in RowIds(c) => x = c.chunk)
      BY <1>1 DEF QueueGood
    <3>3. x # c.chunk
      <4>1. c.chunk \in {None, r}
        BY <1>5 DEF HeadAdded
      <4>. QED  BY <2>1, <2>3, <4>1, InferenceAssumption
    <3>. QED  BY <1>9, <2>3, <3>1, <3>2, <3>3
  <2>. QED  BY <2>2, <2>3
<1>13. FailedGood(d, reqs2, queue) /\ AllHeld(d, reqs2, queue)
  BY <1>2, <1>8, <1>9, KeepsTrack
<1>14. ChunkGood(d, reqs2, queue)
  <2>1. reqs2[r].prefilled > 0 /\ Len(w.blocks) = BlocksFor(reqs2[r].prefilled)
    BY <1>4, <1>7, <1>10
  <2>2. setup.chunked /\ queue # << >> /\ Head(queue) = r
    BY DEF r
  <2>. QED  BY <1>9, <2>1, <2>2 DEF ChunkGood
<1>15. Serving(d, reqs2, queue)
  BY <1>9, <1>11, <1>12, <1>13, <1>14 DEF Serving
<1>16. Schedulable(d, reqs2, queue)
  BY <1>1, <1>6, <1>9, <1>15 DEF Schedulable
<1>17. ContinuesLastRow(c, r, q.prefilled)
  BY <1>5 DEF HeadAdded
<1>. QED  BY <1>16, <1>17 DEF d, e, reqs2, r

\* A state of the scheduling loops that began with the requests "reqs".
ScheduleState ==
  [ ctx : ContextType, requests : [Requests -> RequestType], waiting : Seq(Requests),
    go : BOOLEAN, ok : BOOLEAN ]

\* s is a state of the loops of the scheduler.
Scheduling(s) ==
  /\ s \in ScheduleState
  /\ s.ok
  /\ Schedulable(s.ctx, s.requests, s.waiting)
  /\ \A r \in Requests : /\ s.requests[r].state = requests[r].state
                         /\ requests[r].state = "new" => s.requests[r] = requests[r]
  /\ setup.suspends > 0 => s.ctx.chunk = None

\* A request whose prompt is filled further is not a new one.
LEMMA PrefillsOld ==
  ASSUME NEW s, Scheduling(s), NEW r \in ToSet(s.waiting),
         NEW reqs2, Prefills(s.requests, reqs2, r)
  PROVE  \A x \in Requests : /\ reqs2[x].state = requests[x].state
                             /\ requests[x].state = "new" => reqs2[x] = requests[x]
<1>1. \A x \in Requests : /\ s.requests[x].state = requests[x].state
                          /\ requests[x].state = "new" => s.requests[x] = requests[x]
  BY DEF Scheduling
<1>2. s.requests[r].state = "held"
  BY DEF Scheduling, Schedulable, Serving, QueueGood, Queued
<1>3. \A x \in Requests : reqs2[x].state = s.requests[x].state
  BY DEF Prefills
<1>4. \A x \in Requests \ {r} : reqs2[x] = s.requests[x]
  BY DEF Prefills
<1>. QED  BY <1>1, <1>2, <1>3, <1>4

\* A state is of the type of such states if its fields are.
LEMMA ScheduleFields ==
  ASSUME NEW s \in ScheduleState
  PROVE  /\ s.ctx \in ContextType /\ s.requests \in [Requests -> RequestType] /\ s.waiting \in Seq(Requests)
         /\ s.go \in BOOLEAN /\ s.ok \in BOOLEAN
         /\ s = [ctx |-> s.ctx, requests |-> s.requests, waiting |-> s.waiting, go |-> s.go, ok |-> s.ok]
  BY DEF ScheduleState

\* The fields of the states after a step of the loops.
LEMMA ScheduleAllFields ==
  ASSUME NEW s \in ScheduleState, Head(s.waiting) \in Requests
  PROVE  LET r == Head(s.waiting)
             q == s.requests[r]
         IN  ScheduleAll(s) =
               [ ctx      |-> [AddRequest(s.ctx, r, q.prefilled, q.left, q.budget) EXCEPT !.chunk = None],
                 requests |-> [s.requests EXCEPT ![r].left = 0],
                 waiting  |-> Tail(s.waiting),
                 go       |-> s.go,
                 ok       |-> ContinuesLastRow(s.ctx, r, q.prefilled) ]
<1>. DEFINE r == Head(s.waiting)
            q == s.requests[r]
            d == [AddRequest(s.ctx, r, q.prefilled, q.left, q.budget) EXCEPT !.chunk = None]
            o == ContinuesLastRow(s.ctx, r, q.prefilled)
            e == Enter(s, q.left, None)
<1>1. e = [s EXCEPT !.ctx = d, !.ok = o]
  BY DEF Enter, HeadOf
<1>. HIDE DEF d, o, e
<1>2. e = [ctx |-> d, requests |-> s.requests, waiting |-> s.waiting, go |-> s.go, ok |-> o]
  BY <1>1 DEF ScheduleState
<1>3. ScheduleAll(s) = [e EXCEPT !.requests[r].left = 0, !.waiting = Tail(@)]
  BY DEF ScheduleAll, HeadOf, e
<1>. HIDE DEF r
<1>4. ScheduleAll(s) = [ctx |-> d, requests |-> [s.requests EXCEPT ![r].left = 0],
                        waiting |-> Tail(s.waiting), go |-> s.go, ok |-> o]
  BY <1>2, <1>3
<1>. QED  BY <1>4 DEF d, o, r

\* The fields after ScheduleChunk.
LEMMA ScheduleChunkFields ==
  ASSUME NEW s \in ScheduleState, Head(s.waiting) \in Requests
  PROVE  LET r == Head(s.waiting)
             q == s.requests[r]
             n == setup.maxTokens - ActiveTokens(s.ctx)
         IN  ScheduleChunk(s) =
               [ ctx      |-> [AddRequest(s.ctx, r, q.prefilled, n, q.budget) EXCEPT !.chunk = r],
                 requests |-> [s.requests EXCEPT ![r] = [q EXCEPT !.left = @ - n, !.prefilled = @ + n]],
                 waiting  |-> s.waiting,
                 go       |-> FALSE,
                 ok       |-> ContinuesLastRow(s.ctx, r, q.prefilled) ]
<1>. DEFINE r == Head(s.waiting)
            q == s.requests[r]
            n == setup.maxTokens - ActiveTokens(s.ctx)
            d == [AddRequest(s.ctx, r, q.prefilled, n, q.budget) EXCEPT !.chunk = r]
            o == ContinuesLastRow(s.ctx, r, q.prefilled)
            e == Enter(s, n, r)
<1>1. e = [s EXCEPT !.ctx = d, !.ok = o]
  BY DEF Enter, HeadOf
<1>. HIDE DEF d, o, e
<1>2. e = [ctx |-> d, requests |-> s.requests, waiting |-> s.waiting, go |-> s.go, ok |-> o]
  BY <1>1 DEF ScheduleState
<1>. DEFINE v == [q EXCEPT !.left = @ - n, !.prefilled = @ + n]
<1>3. ScheduleChunk(s) = [e EXCEPT !.requests[r] = v, !.go = FALSE]
  BY DEF ScheduleChunk, HeadOf, e
<1>. HIDE DEF r, n, v
<1>4. ScheduleChunk(s) = [ctx |-> d, requests |-> [s.requests EXCEPT ![r] = v],
                          waiting |-> s.waiting, go |-> FALSE, ok |-> o]
  BY <1>2, <1>3
<1>. QED  BY <1>4 DEF d, o, r, n, v

\* One round of the loops.
LEMMA ScheduleOneKeeps ==
  ASSUME SuspensionsAreOrdinary, setup \in Setups, NEW s, Scheduling(s)
  PROVE  Scheduling(ScheduleOne(s))
<1>. DEFINE r == Head(s.waiting)
            q == s.requests[r]
            c == s.ctx
            a == ActiveTokens(c)
            n == setup.maxTokens - a
<1>1. /\ s \in ScheduleState /\ s.ok /\ Schedulable(c, s.requests, s.waiting)
      /\ \A x \in Requests : /\ s.requests[x].state = requests[x].state
                             /\ requests[x].state = "new" => s.requests[x] = requests[x]
      /\ setup.suspends > 0 => c.chunk = None
  BY DEF Scheduling
<1>2. /\ c \in ContextType /\ s.requests \in [Requests -> RequestType] /\ s.waiting \in Seq(Requests)
      /\ s.go \in BOOLEAN /\ c.paused <= Len(c.rows) /\ Injective(s.waiting) /\ setup \in SetupType
  BY <1>1, ScheduleFields DEF Schedulable, Serving, QueueGood
<1>3. setup.suspends > 0 => ~setup.chunked
  BY DEF SuspensionsAreOrdinary
<1>4. CASE ScheduleOne(s) = s
  BY <1>4
<1>5. ASSUME s.waiting # << >> PROVE r \in Requests /\ r \in ToSet(s.waiting)
  BY <1>2, <1>5, QueueParts
<1>6. CASE s.waiting # << >> /\ Admissible(s) /\ TokensFit(s) /\ ScheduleOne(s) = ScheduleAll(s)
  <2>. DEFINE d == [AddRequest(c, r, q.prefilled, q.left, q.budget) EXCEPT !.chunk = None]
              reqs2 == [s.requests EXCEPT ![r].left = 0]
              t == ScheduleAll(s)
  <2>1. MemoryAvailable(c, q.prefilled, q.left)
    BY <1>6 DEF Admissible, HeadOf
  <2>2. /\ Schedulable(d, reqs2, Tail(s.waiting)) /\ ContinuesLastRow(c, r, q.prefilled) /\ d.chunk = None
    BY <1>1, <1>6, <2>1, WholePromptEnters, SMTT(30)
  <2>3. t = [ctx |-> d, requests |-> reqs2, waiting |-> Tail(s.waiting), go |-> s.go,
             ok |-> ContinuesLastRow(c, r, q.prefilled)]
    BY <1>1, <1>5, <1>6, ScheduleAllFields
  <2>4. Prefills(s.requests, reqs2, r)
    <3>1. reqs2 \in [Requests -> RequestType]
      BY <2>2 DEF Schedulable
    <3>2. q \in RequestType /\ r \in Requests
      BY <1>2, <1>5, <1>6
    <3>3. reqs2 = [s.requests EXCEPT ![r] = [q EXCEPT !.left = 0]]
      BY <1>2, <3>2 DEF RequestType
    <3>. HIDE DEF r, reqs2
    <3>4. \A x \in Requests \ {r} : reqs2[x] = s.requests[x]
      BY <1>2, <3>2, <3>3
    <3>5. reqs2[r] = [q EXCEPT !.left = 0]
      BY <1>2, <3>2, <3>3
    <3>6. /\ reqs2[r].state = q.state /\ reqs2[r].prompt = q.prompt
          /\ reqs2[r].generated = q.generated /\ reqs2[r].budget = q.budget
      BY <3>2, <3>5 DEF RequestType
    <3>. QED  BY <3>1, <3>4, <3>6 DEF Prefills
  <2>5. \A x \in Requests : /\ reqs2[x].state = requests[x].state
                            /\ requests[x].state = "new" => reqs2[x] = requests[x]
    <3>. HIDE DEF reqs2, r
    <3>. QED  BY <1>5, <1>6, <2>4, PrefillsOld
  <2>6. d \in ContextType /\ reqs2 \in [Requests -> RequestType] /\ Tail(s.waiting) \in Seq(Requests)
    BY <2>2 DEF Schedulable
  <2>. DEFINE o == ContinuesLastRow(c, r, q.prefilled)
              u == Tail(s.waiting)
  <2>7. o \in BOOLEAN /\ o = TRUE
    BY <2>2 DEF ContinuesLastRow
  <2>. HIDE DEF d, reqs2, t, o, u
  <2>8. t = [ctx |-> d, requests |-> reqs2, waiting |-> u, go |-> s.go, ok |-> o]
    BY <2>3 DEF o, u
  <2>9. t \in ScheduleState
    BY <1>2, <2>6, <2>7, <2>8 DEF ScheduleState, u
  <2>10. t.ctx = d /\ t.requests = reqs2 /\ t.waiting = u /\ t.ok
    BY <2>7, <2>8
  <2>11. Scheduling(t)
    BY <2>2, <2>5, <2>9, <2>10 DEF Scheduling, u
  <2>. QED  BY <1>6, <2>11 DEF t
<1>7. CASE /\ s.waiting # << >> /\ Admissible(s) /\ ~TokensFit(s) /\ setup.chunked /\ a < setup.maxTokens
           /\ ScheduleOne(s) = ScheduleChunk(s)
  <2>. DEFINE d == [AddRequest(c, r, q.prefilled, n, q.budget) EXCEPT !.chunk = r]
              reqs2 == [s.requests EXCEPT ![r] = [q EXCEPT !.left = @ - n, !.prefilled = @ + n]]
              t == ScheduleChunk(s)
  <2>1. MemoryAvailable(c, q.prefilled, q.left)
    BY <1>7 DEF Admissible, HeadOf
  <2>2. q \in RequestType /\ r \in Requests
    BY <1>2, <1>5, <1>7
  <2>3. n \in Nat \ {0} /\ n < q.left
    <3>1. a \in Nat
      BY <1>2, RowParts, ActiveTokensType
    <3>2. ~(a + q.left <= setup.maxTokens)
      BY <1>7 DEF TokensFit, HeadOf
    <3>3. q.left \in Nat /\ setup.maxTokens \in Nat
      BY <1>2, <2>2 DEF RequestType, SetupType
    <3>. HIDE DEF a, q
    <3>. QED  BY <1>7, <3>1, <3>2, <3>3
  <2>. HIDE DEF n
  <2>4. /\ Schedulable(d, reqs2, s.waiting) /\ ContinuesLastRow(c, r, q.prefilled)
    BY <1>1, <1>7, <2>1, <2>3, ChunkEnters
  <2>5. t = [ctx |-> d, requests |-> reqs2, waiting |-> s.waiting, go |-> FALSE,
             ok |-> ContinuesLastRow(c, r, q.prefilled)]
    BY <1>1, <2>2, ScheduleChunkFields DEF n
  <2>6. Prefills(s.requests, reqs2, r)
    <3>1. reqs2 \in [Requests -> RequestType]
      BY <2>4 DEF Schedulable
    <3>. DEFINE v == [q EXCEPT !.left = @ - n, !.prefilled = @ + n]
    <3>2. reqs2 = [s.requests EXCEPT ![r] = v]
      OBVIOUS
    <3>. HIDE DEF r, reqs2, v
    <3>3. reqs2 = [s.requests EXCEPT ![r] = v] /\ v = [q EXCEPT !.left = @ - n, !.prefilled = @ + n]
      BY <3>2 DEF v
    <3>4. \A x \in Requests \ {r} : reqs2[x] = s.requests[x]
      BY <1>2, <2>2, <3>3
    <3>5. reqs2[r] = [q EXCEPT !.left = @ - n, !.prefilled = @ + n]
      BY <1>2, <2>2, <3>3
    <3>6. /\ reqs2[r].state = q.state /\ reqs2[r].prompt = q.prompt
          /\ reqs2[r].generated = q.generated /\ reqs2[r].budget = q.budget
      BY <2>2, <3>5 DEF RequestType
    <3>. QED  BY <3>1, <3>4, <3>6 DEF Prefills
  <2>7. \A x \in Requests : /\ reqs2[x].state = requests[x].state
                            /\ requests[x].state = "new" => reqs2[x] = requests[x]
    <3>. HIDE DEF reqs2, r
    <3>. QED  BY <1>5, <1>7, <2>6, PrefillsOld
  <2>8. d \in ContextType /\ reqs2 \in [Requests -> RequestType]
    BY <2>4 DEF Schedulable
  <2>. DEFINE o == ContinuesLastRow(c, r, q.prefilled)
  <2>9. o \in BOOLEAN /\ o = TRUE
    BY <2>4 DEF ContinuesLastRow
  <2>. HIDE DEF d, reqs2, t, o
  <2>10. t = [ctx |-> d, requests |-> reqs2, waiting |-> s.waiting, go |-> FALSE, ok |-> o]
    BY <2>5 DEF o
  <2>11. t \in ScheduleState
    BY <1>2, <2>8, <2>9, <2>10 DEF ScheduleState
  <2>12. t.ctx = d /\ t.requests = reqs2 /\ t.waiting = s.waiting /\ t.ok
    BY <2>9, <2>10
  <2>13. Scheduling(t)
    BY <1>3, <1>7, <2>4, <2>7, <2>11, <2>12 DEF Scheduling
  <2>. QED  BY <1>7, <2>13 DEF t
<1>8. CASE ScheduleOne(s) = [s EXCEPT !.go = FALSE]
  <2>. DEFINE t == [s EXCEPT !.go = FALSE]
  <2>1. t \in ScheduleState /\ t.ctx = s.ctx /\ t.requests = s.requests /\ t.waiting = s.waiting /\ t.ok = s.ok
    BY <1>1 DEF ScheduleState
  <2>. HIDE DEF t
  <2>2. Scheduling(t)
    BY <1>1, <2>1 DEF Scheduling
  <2>. QED  BY <1>8, <2>2 DEF t
<1>9. \/ ScheduleOne(s) = s
      \/ s.waiting # << >> /\ Admissible(s) /\ TokensFit(s) /\ ScheduleOne(s) = ScheduleAll(s)
      \/ /\ s.waiting # << >> /\ Admissible(s) /\ ~TokensFit(s) /\ setup.chunked /\ a < setup.maxTokens
         /\ ScheduleOne(s) = ScheduleChunk(s)
      \/ ScheduleOne(s) = [s EXCEPT !.go = FALSE]
  <2>1. CASE ~s.ok \/ ~s.go \/ s.waiting = << >>
    BY <2>1 DEF ScheduleOne
  <2>2. CASE ~(~s.ok \/ ~s.go \/ s.waiting = << >>) /\ Admissible(s) /\ TokensFit(s)
    BY <2>2 DEF ScheduleOne
  <2>3. CASE /\ ~(~s.ok \/ ~s.go \/ s.waiting = << >>) /\ ~(Admissible(s) /\ TokensFit(s))
             /\ setup.chunked /\ Admissible(s) /\ a < setup.maxTokens
    BY <2>3 DEF ScheduleOne
  <2>4. CASE /\ ~(~s.ok \/ ~s.go \/ s.waiting = << >>) /\ ~(Admissible(s) /\ TokensFit(s))
             /\ ~(setup.chunked /\ Admissible(s) /\ a < setup.maxTokens)
    BY <2>4 DEF ScheduleOne
  <2>. QED  BY <2>1, <2>2, <2>3, <2>4
<1>. QED  BY <1>1, <1>4, <1>6, <1>7, <1>8, <1>9

\* f is the table of the states of the loops, from "start" on.
IsSchedule(f, start, m) ==
  f = [n \in 0 .. m |-> IF n = 0 THEN start ELSE ScheduleOne(f[n - 1])]

\* The recursion defines a function.
LEMMA ScheduleExists ==
  ASSUME NEW start, NEW m \in Nat
  PROVE  \E f : IsSchedule(f, start, m)
<1>. DEFINE T == { n \in Nat : \E f : IsSchedule(f, start, n) }
<1>1. 0 \in T
  <2>. DEFINE f == [n \in 0 .. 0 |-> start]
  <2>1. f = [n \in 0 .. 0 |-> IF n = 0 THEN start ELSE ScheduleOne(f[n - 1])]
    OBVIOUS
  <2>. QED  BY <2>1 DEF IsSchedule
<1>2. \A k \in Nat : k \in T => k + 1 \in T
  <2>. SUFFICES ASSUME NEW k \in Nat, k \in T PROVE k + 1 \in T
    OBVIOUS
  <2>1. PICK f : IsSchedule(f, start, k)
    OBVIOUS
  <2>. DEFINE g == [n \in 0 .. k + 1 |-> IF n = 0 THEN start ELSE ScheduleOne(f[n - 1])]
  <2>2. \A n \in 0 .. k : f[n] = IF n = 0 THEN start ELSE ScheduleOne(f[n - 1])
    BY <2>1 DEF IsSchedule
  <2>3. \A n \in 0 .. k : n \in 0 .. k + 1
    OBVIOUS
  <2>4. \A n \in 0 .. k : g[n] = f[n]
    BY <2>2, <2>3
  <2>5. \A n \in 0 .. k + 1 : n = 0 \/ n - 1 \in 0 .. k
    OBVIOUS
  <2>6. \A n \in 0 .. k + 1 : g[n] = IF n = 0 THEN start ELSE ScheduleOne(g[n - 1])
    BY <2>4, <2>5
  <2>7. g = [n \in 0 .. k + 1 |-> IF n = 0 THEN start ELSE ScheduleOne(g[n - 1])]
    BY <2>6
  <2>. HIDE DEF g
  <2>8. IsSchedule(g, start, k + 1)
    BY <2>7 DEF IsSchedule
  <2>. QED  BY <2>8
<1>. HIDE DEF T
<1>3. m \in T
  BY <1>1, <1>2, Induction
<1>. QED  BY <1>3 DEF T

\* Scheduling goes well: what the engine serves afterwards is in order.
LEMMA ScheduledKeeps ==
  ASSUME SuspensionsAreOrdinary, IInv, phase # "suspended"
  PROVE  Scheduling(Scheduled)
<1>. DEFINE start == [ctx |-> ctx, requests |-> requests, waiting |-> waiting, go |-> TRUE, ok |-> TRUE]
            m == Len(waiting)
            f == CHOOSE g : IsSchedule(g, start, m)
<1>1. /\ setup \in Setups /\ setup \in SetupType /\ ctx \in ContextType /\ requests \in [Requests -> RequestType]
      /\ waiting \in Seq(Requests) /\ failed \in Seq(Requests)
      /\ ctx.paused <= Len(ctx.rows) /\ Serving(ctx, requests, waiting)
      /\ setup.suspends > 0 => ctx.chunk = None
  <2>1. TypeOK /\ ctx \in ContextType /\ Serving(ctx, requests, waiting) /\ SuspendsGood
    BY DEF IInv
  <2>2. ctx.paused \in 0 .. Len(ctx.rows) /\ Len(ctx.rows) \in Nat
    BY <2>1, ContextRows DEF TypeOK
  <2>. QED  BY <2>1, <2>2, InferenceAssumption DEF TypeOK, SuspendsGood
<1>2. start \in ScheduleState
  BY <1>1 DEF ScheduleState
<1>3. start.ctx = ctx /\ start.requests = requests /\ start.waiting = waiting /\ start.ok
  OBVIOUS
<1>. HIDE DEF start
<1>4. Scheduling(start)
  BY <1>1, <1>2, <1>3 DEF Scheduling, Schedulable
<1>5. Scheduled = f[m]
  BY DEF Scheduled, IsSchedule, start
<1>6. m \in Nat
  BY <1>1
<1>. HIDE DEF m
<1>7. IsSchedule(f, start, m)
  BY <1>6, ScheduleExists
<1>. HIDE DEF f
<1>8. \A n \in 0 .. m : f[n] = IF n = 0 THEN start ELSE ScheduleOne(f[n - 1])
  BY <1>7 DEF IsSchedule
<1>. DEFINE T == { n \in Nat : n <= m => Scheduling(f[n]) }
<1>9. 0 \in T
  BY <1>4, <1>6, <1>8
<1>10. \A n \in Nat : n \in T => n + 1 \in T
  <2>. SUFFICES ASSUME NEW n \in Nat, n <= m => Scheduling(f[n]), n + 1 <= m PROVE Scheduling(f[n + 1])
    OBVIOUS
  <2>1. n <= m /\ n + 1 \in 0 .. m /\ n + 1 # 0 /\ (n + 1) - 1 = n
    BY <1>6
  <2>2. f[n + 1] = ScheduleOne(f[n])
    BY <1>8, <2>1
  <2>. QED  BY <1>1, <2>1, <2>2, ScheduleOneKeeps
<1>. HIDE DEF T
<1>11. m \in T
  BY <1>6, <1>9, <1>10, Induction
<1>. QED  BY <1>5, <1>6, <1>11 DEF T

-----------------------------------------------------------------------------
(* The start, and the arrival of requests                                  *)

\* The empty context owns all blocks.
LEMMA EmptyOwned ==
  /\ EmptyContext \in ContextType /\ Owned(EmptyContext) /\ DistinctRows(EmptyContext)
  /\ EmptyContext.rows = << >> /\ EmptyContext.paused = 0 /\ EmptyContext.chunk = None
  /\ RowIds(EmptyContext) = {}
<1>. DEFINE c == EmptyContext
            N == ActiveBlocks + PausedBlocks
            f == [i \in 1 .. N |-> i - 1]
<1>1. N \in Nat /\ Blocks = 0 .. N - 1
  BY ContextAssumption DEF Blocks
<1>2. c.free = f /\ c.rows = << >> /\ c.paused = 0 /\ c.chunk = None
  BY DEF EmptyContext
<1>. HIDE DEF N
<1>3. f \in [1 .. N -> Blocks]
  BY <1>1
<1>4. f \in Seq(Blocks) /\ DOMAIN f = 1 .. N /\ \A i \in 1 .. N : f[i] = i - 1
  BY <1>1, <1>3
<1>. HIDE DEF f
<1>5. c \in ContextType
  <2>1. << >> \in Seq(RowType) /\ 0 \in Nat /\ None \in Requests \cup {None}
    OBVIOUS
  <2>2. c = [free |-> f, rows |-> << >>, paused |-> 0, chunk |-> None]
    BY DEF EmptyContext, f, N
  <2>. HIDE DEF c
  <2>. QED  BY <1>4, <2>1, <2>2 DEF ContextType
<1>. HIDE DEF c
<1>6. DOMAIN c.rows = {}
  BY <1>2
<1>7. Injective(f)
  <2>. SUFFICES ASSUME NEW i \in 1 .. N, NEW j \in 1 .. N, f[i] = f[j] PROVE i = j
    BY <1>4 DEF Injective
  <2>1. i - 1 = j - 1
    BY <1>4
  <2>. QED  BY <2>1
<1>8. \A b \in Blocks : b \in ToSet(f)
  <2>. SUFFICES ASSUME NEW b \in Blocks PROVE b \in ToSet(f)
    OBVIOUS
  <2>1. b + 1 \in 1 .. N /\ (b + 1) - 1 = b
    BY <1>1
  <2>2. f[b + 1] = b
    BY <1>4, <2>1
  <2>. QED  BY <1>4, <2>1, <2>2 DEF ToSet
<1>9. Owned(c)
  BY <1>2, <1>6, <1>7, <1>8 DEF Owned, FreeOwned, RowsOwned, AllOwned
<1>10. DistinctRows(c) /\ RowIds(c) = {}
  BY <1>6 DEF DistinctRows, RowIds
<1>. QED  BY <1>2, <1>5, <1>9, <1>10 DEF c

\* The empty sequence.
LEMMA EmptyLists == ToSet(<< >>) = {} /\ Injective(<< >>) /\ \A T : << >> \in Seq(T)
BY DEF ToSet, Injective

\* An empty context serves the requests that wait.
LEMMA EmptyServes ==
  ASSUME ctx = EmptyContext, waiting = << >>, failed = << >>,
         \A r \in Requests : requests[r].state # "held"
  PROVE  Serving(ctx, requests, waiting)
<1>1. Owned(ctx) /\ DistinctRows(ctx) /\ ctx.rows = << >> /\ ctx.chunk = None /\ RowIds(ctx) = {}
  BY EmptyOwned
<1>2. RowsGood(ctx, requests)
  BY <1>1 DEF RowsGood
<1>3. ChunkGood(ctx, requests, waiting)
  BY <1>1 DEF ChunkGood
<1>4. QueueGood(ctx, requests, waiting)
  BY EmptyLists DEF QueueGood
<1>5. FailedGood(ctx, requests, waiting)
  BY EmptyLists DEF FailedGood
<1>6. AllHeld(ctx, requests, waiting)
  BY DEF AllHeld
<1>. QED  BY <1>1, <1>2, <1>3, <1>4, <1>5, <1>6 DEF Serving

\* What holds initially.
LEMMA InitIInv == Init => IInv
<1>. SUFFICES ASSUME Init PROVE IInv
  OBVIOUS
<1>. DEFINE new(r) == [ state |-> "new", prompt |-> Prompts[r], generated |-> 0,
                        budget |-> Budgets[r], left |-> Prompts[r], prefilled |-> 0 ]
<1>1. /\ setup \in Setups /\ ctx = EmptyContext /\ requests = [r \in Requests |-> new(r)]
      /\ waiting = << >> /\ failed = << >> /\ stopped = {} /\ resuming = << >>
      /\ phase = "ready" /\ suspends = 0
  BY DEF Init
<1>2. \A r \in Requests : new(r) \in RequestType
  BY InferenceAssumption DEF RequestType
<1>3. requests \in [Requests -> RequestType]
  BY <1>1, <1>2
<1>4. \A r \in Requests : requests[r] = new(r) /\ requests[r].state # "held"
  BY <1>1
<1>5. setup.suspends \in Nat
  BY <1>1, InferenceAssumption DEF SetupType
<1>6. /\ ctx \in ContextType /\ ctx.free \in Seq(Blocks) /\ ctx.rows \in Seq(RowType) /\ ctx.chunk \in Requests \cup {None}
      /\ ctx.paused \in 0 .. Len(ctx.rows)
  <2>1. ctx \in ContextType /\ ctx.rows = << >> /\ ctx.paused = 0
    BY <1>1, EmptyOwned
  <2>. QED  BY <2>1, ContextFields
<1>7. TypeOK
  BY <1>1, <1>3, <1>5, <1>6, EmptyLists DEF TypeOK, Phases
<1>8. Fresh
  BY <1>4 DEF Fresh
<1>9. SuspendsGood
  BY <1>1, EmptyOwned DEF SuspendsGood
<1>10. Serving(ctx, requests, waiting)
  BY <1>1, <1>4, EmptyServes
<1>. QED  BY <1>1, <1>6, <1>7, <1>8, <1>9, <1>10 DEF IInv

\* AllHeld, of any failed requests.
AllHeldBy(c, reqs, queue, fail) ==
  \A r \in Requests : reqs[r].state = "held" => r \in ToSet(queue) \cup RowIds(c) \cup ToSet(fail)

\* The invariant of the next state, in terms of the values of the variables.
LEMMA ServingNext ==
  ASSUME setup' = setup,
         Owned(ctx'), DistinctRows(ctx'), ctx'.paused < Len(ctx'.rows) \/ ctx'.rows = << >>,
         RowsGood(ctx', requests'), ChunkGood(ctx', requests', waiting'),
         QueueGood(ctx', requests', waiting'),
         Injective(failed'), ToSet(failed') \cap (ToSet(waiting') \cup RowIds(ctx')) = {},
         \A r \in ToSet(failed') : requests'[r].state = "held",
         AllHeldBy(ctx', requests', waiting', failed')
  PROVE  Serving(ctx, requests, waiting)'
<1>1. RowsGood(ctx, requests)'
  BY DEF RowsGood, Paired, Lasting, InItsSlot
<1>2. ChunkGood(ctx, requests, waiting)'
  BY DEF ChunkGood
<1>3. QueueGood(ctx, requests, waiting)'
  BY DEF QueueGood, Queued, Lasting
<1>4. FailedGood(ctx, requests, waiting)'
  BY DEF FailedGood
<1>5. AllHeld(ctx, requests, waiting)'
  BY DEF AllHeld, AllHeldBy
<1>. QED  BY <1>1, <1>2, <1>3, <1>4, <1>5 DEF Serving

\* What the types say.
LEMMA TypesOf ==
  ASSUME IInv
  PROVE  /\ setup \in Setups /\ setup \in SetupType /\ ctx \in ContextType /\ requests \in [Requests -> RequestType]
         /\ waiting \in Seq(Requests) /\ failed \in Seq(Requests) /\ resuming \in Seq(Requests)
         /\ ctx.paused <= Len(ctx.rows) /\ ctx.paused \in Nat /\ Len(ctx.rows) \in Nat
         /\ phase \in Phases
         /\ TypeOK /\ Fresh /\ SuspendsGood
         /\ phase # "suspended" => Serving(ctx, requests, waiting)
         /\ phase = "suspended" => Suspended
<1>1. TypeOK /\ ctx \in ContextType
  BY DEF IInv
<1>2. ctx.paused \in 0 .. Len(ctx.rows) /\ Len(ctx.rows) \in Nat
  BY <1>1, ContextRows DEF TypeOK
<1>. QED  BY <1>1, <1>2, InferenceAssumption DEF TypeOK, IInv

\* Whoever has a row, waits or was rejected is held by the engine.
LEMMA ServedAreHeld ==
  ASSUME IInv, phase # "suspended", NEW r \in Requests,
         r \in ToSet(waiting) \cup RowIds(ctx) \cup ToSet(failed)
  PROVE  requests[r].state = "held"
<1>1. Serving(ctx, requests, waiting)
  BY TypesOf
<1>2. CASE r \in ToSet(waiting)
  BY <1>1, <1>2 DEF Serving, QueueGood, Queued
<1>3. CASE r \in ToSet(failed)
  BY <1>1, <1>3 DEF Serving, FailedGood
<1>4. CASE r \in RowIds(ctx)
  <2>1. PICK i \in DOMAIN ctx.rows : ctx.rows[i].id = r
    BY <1>4 DEF RowIds
  <2>2. CASE r = ctx.chunk
    <3>1. ctx.chunk # None
      BY <2>2, InferenceAssumption
    <3>2. waiting # << >> /\ Head(waiting) = r
      BY <1>1, <2>2, <3>1 DEF Serving, ChunkGood
    <3>3. Injective(waiting) /\ waiting \in Seq(Requests)
      BY <1>1, TypesOf DEF Serving, QueueGood
    <3>4. r \in ToSet(waiting)
      BY <3>2, <3>3, QueueParts
    <3>. QED  BY <1>2, <3>4
  <2>3. CASE r # ctx.chunk
    BY <1>1, <2>1, <2>3 DEF Serving, RowsGood, Paired
  <2>. QED  BY <2>2, <2>3
<1>. QED  BY <1>2, <1>3, <1>4

\* A new request becomes one that the engine holds.
LEMMA NewHeld ==
  ASSUME IInv, NEW r \in Requests, requests[r].state = "new",
         requests' = [requests EXCEPT ![r].state = "held"], setup' = setup
  PROVE  /\ requests' \in [Requests -> RequestType]
         /\ \A x \in Requests \ {r} : requests'[x] = requests[x]
         /\ requests'[r] = [requests[r] EXCEPT !.state = "held"]
         /\ requests'[r].state = "held" /\ requests'[r].prefilled = 0
         /\ Accepted(requests[r]) /\ (setup.suspends > 0 => Prompts[r] + Budgets[r] <= setup.maxTokens)
              => Queued(requests'[r])
         /\ Fresh'
<1>. DEFINE q == requests[r]
            p == requests'[r]
<1>1. requests \in [Requests -> RequestType] /\ Fresh
  BY TypesOf
<1>2. q = [ state |-> "new", prompt |-> Prompts[r], generated |-> 0,
            budget |-> Budgets[r], left |-> Prompts[r], prefilled |-> 0 ]
  BY <1>1 DEF Fresh
<1>3. requests' = [requests EXCEPT ![r] = [q EXCEPT !.state = "held"]]
  OBVIOUS
<1>4. [q EXCEPT !.state = "held"] = [ state |-> "held", prompt |-> Prompts[r], generated |-> 0,
                                      budget |-> Budgets[r], left |-> Prompts[r], prefilled |-> 0 ]
  BY <1>2
<1>5. p = [ state |-> "held", prompt |-> Prompts[r], generated |-> 0,
            budget |-> Budgets[r], left |-> Prompts[r], prefilled |-> 0 ]
  BY <1>1, <1>3, <1>4
<1>6. \A x \in Requests \ {r} : requests'[x] = requests[x]
  BY <1>1, <1>3
<1>7. Prompts[r] \in Nat \ {0} /\ Budgets[r] \in Nat \ {0}
  BY InferenceAssumption
<1>8. p \in RequestType
  BY <1>5, <1>7 DEF RequestType
<1>9. requests' \in [Requests -> RequestType]
  BY <1>1, <1>3, <1>4, <1>5, <1>8
<1>10. Fresh'
  <2>. SUFFICES ASSUME NEW x \in Requests, requests'[x].state = "new"
                PROVE  requests'[x] = [ state |-> "new", prompt |-> Prompts[x], generated |-> 0,
                                        budget |-> Budgets[x], left |-> Prompts[x], prefilled |-> 0 ]
    BY DEF Fresh
  <2>1. x # r
    BY <1>5
  <2>2. requests'[x] = requests[x]
    BY <1>6, <2>1
  <2>. QED  BY <1>1, <2>2 DEF Fresh
<1>11. ASSUME Accepted(q), setup.suspends > 0 => Prompts[r] + Budgets[r] <= setup.maxTokens
       PROVE  Queued(p)
  <2>1. Prompts[r] + Budgets[r] <= MaxSequence
    BY <1>2, <1>11 DEF Accepted
  <2>. HIDE DEF p, q
  <2>2. p.prompt = Prompts[r] /\ p.budget = Budgets[r] /\ p.state = "held" /\ p.generated = 0 /\ p.left = Prompts[r]
        /\ p.prefilled = 0
    BY <1>5
  <2>3. Lasting(p)
    BY <1>7, <1>11, <2>1, <2>2 DEF Lasting
  <2>. QED  BY <1>7, <2>2, <2>3 DEF Queued
<1>. QED  BY <1>3, <1>5, <1>6, <1>9, <1>10, <1>11

\* Submit.
LEMMA SubmitKeeps ==
  ASSUME SuspensionsAreOrdinary, IInv, NEW r \in Requests, Submit(r)
  PROVE  IInv'
<1>1. /\ phase # "broken" /\ r \in setup.clients /\ requests[r].state = "new"
      /\ requests' = [requests EXCEPT ![r].state = "held"]
      /\ IF Accepted(requests[r])
         THEN waiting' = Append(waiting, r) /\ UNCHANGED failed
         ELSE failed' = Append(failed, r) /\ UNCHANGED waiting
      /\ UNCHANGED << setup, ctx, stopped, resuming, phase, suspends >>
  BY DEF Submit
<1>2. /\ setup \in Setups /\ setup \in SetupType /\ ctx \in ContextType /\ requests \in [Requests -> RequestType]
      /\ waiting \in Seq(Requests) /\ failed \in Seq(Requests) /\ resuming \in Seq(Requests)
      /\ TypeOK /\ SuspendsGood
      /\ phase # "suspended" => Serving(ctx, requests, waiting)
      /\ phase = "suspended" => Suspended
  BY TypesOf
<1>3. setup.suspends > 0 => /\ Prompts[r] + Budgets[r] <= MaxSequence
                            /\ Prompts[r] + Budgets[r] <= setup.maxTokens
                            /\ ~setup.chunked
  BY <1>1, <1>2 DEF SuspensionsAreOrdinary
<1>4. /\ requests' \in [Requests -> RequestType]
      /\ \A x \in Requests \ {r} : requests'[x] = requests[x]
      /\ requests'[r].state = "held" /\ requests'[r].prefilled = 0
      /\ Accepted(requests[r]) => Queued(requests'[r])
      /\ Fresh'
  BY <1>1, <1>3, NewHeld
<1>5. setup.suspends > 0 => Accepted(requests[r])
  <2>. SUFFICES ASSUME setup.suspends > 0 PROVE Accepted(requests[r])
    OBVIOUS
  <2>1. requests[r].prompt = Prompts[r] /\ requests[r].budget = Budgets[r]
    BY <1>1, TypesOf DEF Fresh
  <2>2. Prompts[r] \in Nat \ {0} /\ Budgets[r] \in Nat \ {0}
    BY InferenceAssumption
  <2>3. setup.maxTokens \in Nat
    BY <1>2 DEF SetupType
  <2>. QED  BY <1>3, <2>1, <2>2, <2>3 DEF Accepted
<1>6. /\ waiting' \in Seq(Requests) /\ failed' \in Seq(Requests)
      /\ \A x : x \in ToSet(waiting') => x \in ToSet(waiting) \/ (x = r /\ Accepted(requests[r]))
      /\ \A x : x \in ToSet(failed') => x \in ToSet(failed) \/ (x = r /\ ~Accepted(requests[r]))
      /\ \A x : x \in ToSet(waiting) => x \in ToSet(waiting')
      /\ \A x : x \in ToSet(failed) => x \in ToSet(failed')
      /\ r \in ToSet(waiting') \cup ToSet(failed')
      /\ Injective(waiting) /\ r \notin ToSet(waiting) => Injective(waiting')
      /\ Injective(failed) /\ r \notin ToSet(failed) => Injective(failed')
  <2>1. CASE Accepted(requests[r])
    <3>1. waiting' = Append(waiting, r) /\ failed' = failed
      BY <1>1, <2>1
    <3>. QED  BY <1>2, <2>1, <3>1, AppendLists
  <2>2. CASE ~Accepted(requests[r])
    <3>1. failed' = Append(failed, r) /\ waiting' = waiting
      BY <1>1, <2>2
    <3>. QED  BY <1>2, <2>2, <3>1, AppendLists
  <2>. QED  BY <2>1, <2>2
<1>7. TypeOK'
  BY <1>1, <1>2, <1>4, <1>6 DEF TypeOK
<1>8. ctx' \in ContextType
  BY <1>1, <1>2
<1>9. SuspendsGood'
  BY <1>1, <1>2, <1>5 DEF SuspendsGood
<1>10. ASSUME phase # "suspended" PROVE Serving(ctx, requests, waiting)'
  <2>1. Serving(ctx, requests, waiting)
    BY <1>2, <1>10
  <2>2. r \notin ToSet(waiting) /\ r \notin RowIds(ctx) /\ r \notin ToSet(failed)
    BY <1>1, <1>10, ServedAreHeld
  <2>3. Owned(ctx') /\ DistinctRows(ctx') /\ (ctx'.paused < Len(ctx'.rows) \/ ctx'.rows = << >>)
    BY <1>1, <2>1 DEF Serving
  <2>4. RowsGood(ctx', requests')
    <3>1. \A i \in DOMAIN ctx.rows : ctx.rows[i].id \in Requests /\ ctx.rows[i].id # r
      BY <1>2, <2>2, ContextRows, RowFields DEF RowIds
    <3>2. \A i \in DOMAIN ctx.rows : requests'[ctx.rows[i].id] = requests[ctx.rows[i].id]
      BY <1>4, <3>1
    <3>. QED  BY <1>1, <2>1, <3>2 DEF Serving, RowsGood
  <2>5. ChunkGood(ctx', requests', waiting')
    <3>. SUFFICES ASSUME ctx.chunk # None PROVE ChunkGood(ctx', requests', waiting')
      BY <1>1 DEF ChunkGood
    <3>1. /\ setup.chunked /\ waiting # << >> /\ Head(waiting) = ctx.chunk
          /\ ctx.paused < Len(ctx.rows) /\ ctx.rows[Len(ctx.rows)].id = ctx.chunk
          /\ requests[ctx.chunk].prefilled > 0
          /\ Len(ctx.rows[Len(ctx.rows)].blocks) = BlocksFor(requests[ctx.chunk].prefilled)
      BY <2>1 DEF Serving, ChunkGood
    <3>2. Injective(waiting)
      BY <2>1 DEF Serving, QueueGood
    <3>3. ctx.chunk \in Requests /\ ctx.chunk \in ToSet(waiting)
      BY <1>2, <3>1, <3>2, QueueParts
    <3>4. requests'[ctx.chunk] = requests[ctx.chunk]
      BY <1>4, <2>2, <3>3
    <3>5. waiting' # << >> /\ Head(waiting') = Head(waiting)
      <4>1. waiting' = waiting \/ waiting' = Append(waiting, r)
        BY <1>1
      <4>. QED  BY <1>2, <3>1, <4>1, SMTT(30)
    <3>. QED  BY <1>1, <3>1, <3>4, <3>5 DEF ChunkGood
  <2>6. QueueGood(ctx', requests', waiting')
    <3>1. Injective(waiting')
      BY <1>6, <2>1, <2>2 DEF Serving, QueueGood
    <3>. SUFFICES ASSUME NEW x \in ToSet(waiting')
                  PROVE  /\ Queued(requests'[x])
                         /\ requests'[x].prefilled > 0 => x = ctx.chunk
                         /\ x \in RowIds(ctx) => x = ctx.chunk
      BY <1>1, <3>1 DEF QueueGood
    <3>2. CASE x = r
      <4>1. Accepted(requests[r])
        BY <1>6, <2>2, <3>2
      <4>. QED  BY <1>4, <2>2, <3>2, <4>1
    <3>3. CASE x # r
      <4>0. x \in ToSet(waiting)
        BY <1>6, <2>2, <3>3
      <4>1. x \in ToSet(waiting) /\ x \in Requests
        BY <1>2, <4>0 DEF ToSet
      <4>2. requests'[x] = requests[x]
        BY <1>4, <3>3, <4>1
      <4>. QED  BY <2>1, <4>1, <4>2 DEF Serving, QueueGood
    <3>. QED  BY <3>2, <3>3
  <2>7. /\ Injective(failed') /\ ToSet(failed') \cap (ToSet(waiting') \cup RowIds(ctx')) = {}
        /\ \A x \in ToSet(failed') : requests'[x].state = "held"
    <3>1. /\ Injective(failed) /\ ToSet(failed) \cap (ToSet(waiting) \cup RowIds(ctx)) = {}
          /\ \A x \in ToSet(failed) : requests[x].state = "held"
      BY <2>1 DEF Serving, FailedGood
    <3>2. Injective(failed')
      BY <1>6, <2>2, <3>1
    <3>3. ToSet(failed') \cap (ToSet(waiting') \cup RowIds(ctx')) = {}
      BY <1>1, <1>6, <2>2, <3>1
    <3>4. \A x \in ToSet(failed') : requests'[x].state = "held"
      <4>. SUFFICES ASSUME NEW x \in ToSet(failed'), x # r PROVE requests'[x].state = "held"
        BY <1>4
      <4>0. x \in ToSet(failed)
        BY <1>6
      <4>1. x \in ToSet(failed) /\ x \in Requests
        BY <1>2, <4>0 DEF ToSet
      <4>. QED  BY <1>4, <3>1, <4>1
    <3>. QED  BY <3>2, <3>3, <3>4
  <2>8. AllHeldBy(ctx', requests', waiting', failed')
    <3>. SUFFICES ASSUME NEW x \in Requests, requests'[x].state = "held", x # r
                  PROVE  x \in ToSet(waiting') \cup RowIds(ctx') \cup ToSet(failed')
      BY <1>6 DEF AllHeldBy
    <3>1. requests[x].state = "held"
      BY <1>4
    <3>2. x \in ToSet(waiting) \cup RowIds(ctx) \cup ToSet(failed)
      BY <2>1, <3>1 DEF Serving, AllHeld
    <3>. QED  BY <1>1, <1>6, <3>2
  <2>. QED  BY <1>1, <2>3, <2>4, <2>5, <2>6, <2>7, <2>8, ServingNext
<1>11. ASSUME phase = "suspended" PROVE Suspended'
  <2>1. /\ setup.suspends > 0
        /\ Injective(waiting) /\ Injective(resuming)
        /\ ToSet(waiting) \cap ToSet(resuming) = {}
        /\ \A x \in ToSet(waiting) \cup ToSet(resuming) : Queued(requests[x]) /\ requests[x].prefilled = 0
        /\ \A x \in Requests : requests[x].state = "held" => x \in ToSet(waiting) \cup ToSet(resuming)
    BY <1>2, <1>11 DEF Suspended
  <2>2. r \notin ToSet(waiting) /\ r \notin ToSet(resuming)
    BY <1>1, <2>1 DEF Queued
  <2>3. Injective(waiting') /\ resuming' = resuming /\ setup' = setup /\ ToSet(waiting') \cap ToSet(resuming) = {}
    BY <1>1, <1>6, <2>1, <2>2
  <2>4. \A x \in ToSet(waiting') \cup ToSet(resuming) : Queued(requests'[x]) /\ requests'[x].prefilled = 0
    <3>. SUFFICES ASSUME NEW x \in ToSet(waiting') \cup ToSet(resuming)
                  PROVE  Queued(requests'[x]) /\ requests'[x].prefilled = 0
      OBVIOUS
    <3>1. CASE x = r
      BY <1>4, <1>5, <2>1, <3>1
    <3>2. CASE x # r
      <4>1. x \in ToSet(waiting) \cup ToSet(resuming)
        BY <1>6, <3>2
      <4>2. x \in Requests
        BY <1>2, <4>1 DEF ToSet
      <4>. QED  BY <1>4, <2>1, <3>2, <4>1, <4>2
    <3>. QED  BY <3>1, <3>2
  <2>5. \A x \in ToSet(waiting') \cup ToSet(resuming) : Queued(requests[x])' /\ requests'[x].prefilled = 0
    BY <2>3, <2>4 DEF Queued, Lasting
  <2>6. \A x \in Requests : requests'[x].state = "held" => x \in ToSet(waiting') \cup ToSet(resuming)
    <3>. SUFFICES ASSUME NEW x \in Requests, requests'[x].state = "held"
                  PROVE  x \in ToSet(waiting') \cup ToSet(resuming)
      OBVIOUS
    <3>1. CASE x = r
      BY <1>1, <1>5, <2>1, <3>1, <1>2, AppendLists
    <3>2. CASE x # r
      BY <1>4, <1>6, <2>1, <3>2
    <3>. QED  BY <3>1, <3>2
  <2>. QED  BY <2>1, <2>3, <2>5, <2>6 DEF Suspended
<1>. QED  BY <1>1, <1>4, <1>7, <1>8, <1>9, <1>10, <1>11 DEF IInv

\* Sleep.
LEMMA SleepKeeps ==
  ASSUME IInv, Sleep
  PROVE  IInv'
<1>1. /\ phase = "ready" /\ phase' = "asleep"
      /\ UNCHANGED << setup, ctx, requests, waiting, failed, stopped, resuming, suspends >>
  BY DEF Sleep
<1>2. TypeOK /\ ctx \in ContextType /\ Fresh /\ SuspendsGood /\ Serving(ctx, requests, waiting)
  BY <1>1 DEF IInv
<1>3. TypeOK' /\ ctx' \in ContextType /\ Fresh' /\ SuspendsGood'
  BY <1>1, <1>2 DEF TypeOK, Fresh, SuspendsGood, Phases
<1>4. Serving(ctx, requests, waiting)'
  <2>1. AllHeldBy(ctx', requests', waiting', failed')
    BY <1>1, <1>2 DEF Serving, AllHeld, AllHeldBy
  <2>. QED  BY <1>1, <1>2, <2>1, ServingNext DEF Serving, FailedGood
<1>. QED  BY <1>1, <1>3, <1>4 DEF IInv

\* Forward.
LEMMA ForwardKeeps ==
  ASSUME SuspensionsAreOrdinary, IInv, Forward
  PROVE  IInv' /\ phase' = "forward"
<1>. DEFINE s == Scheduled
<1>1. /\ phase = "ready" /\ phase' = (IF s.ok THEN "forward" ELSE "broken")
      /\ ctx' = s.ctx /\ requests' = s.requests /\ waiting' = s.waiting
      /\ UNCHANGED << setup, failed, stopped, resuming, suspends >>
  BY DEF Forward
<1>2. Scheduling(s)
  BY <1>1, ScheduledKeeps
<1>. HIDE DEF s
<1>3. phase' = "forward"
  BY <1>1, <1>2 DEF Scheduling
<1>4. /\ ctx' \in ContextType /\ ctx'.paused <= Len(ctx'.rows) /\ requests' \in [Requests -> RequestType]
      /\ waiting' \in Seq(Requests)
      /\ Serving(ctx', requests', waiting')
  BY <1>1, <1>2 DEF Scheduling, Schedulable
<1>5. /\ \A r \in Requests : /\ requests'[r].state = requests[r].state
                             /\ requests[r].state = "new" => requests'[r] = requests[r]
      /\ setup.suspends > 0 => ctx'.chunk = None
  BY <1>1, <1>2 DEF Scheduling
<1>6. TypeOK'
  <2>1. ctx'.paused \in 0 .. Len(ctx'.rows)
    BY <1>4, ContextRows
  <2>2. /\ ctx'.free \in Seq(Blocks) /\ ctx'.rows \in Seq(RowType)
        /\ ctx'.chunk \in Requests \cup {None}
    BY <1>4, ContextFields
  <2>. QED  BY <1>1, <1>3, <1>4, <2>1, <2>2, TypesOf DEF TypeOK, Phases
<1>7. Fresh'
  BY <1>5, TypesOf DEF Fresh
<1>8. SuspendsGood'
  BY <1>1, <1>5, TypesOf DEF SuspendsGood
<1>9. Serving(ctx, requests, waiting)'
  <2>1. /\ Owned(ctx') /\ DistinctRows(ctx') /\ (ctx'.paused < Len(ctx'.rows) \/ ctx'.rows = << >>)
        /\ RowsGood(ctx', requests') /\ ChunkGood(ctx', requests', waiting')
        /\ QueueGood(ctx', requests', waiting')
    BY <1>4 DEF Serving
  <2>2. /\ Injective(failed') /\ ToSet(failed') \cap (ToSet(waiting') \cup RowIds(ctx')) = {}
        /\ \A r \in ToSet(failed') : requests'[r].state = "held"
    BY <1>1, <1>4 DEF Serving, FailedGood
  <2>3. AllHeldBy(ctx', requests', waiting', failed')
    BY <1>1, <1>4 DEF Serving, AllHeld, AllHeldBy
  <2>. QED  BY <1>1, <2>1, <2>2, <2>3, ServingNext
<1>. QED  BY <1>3, <1>4, <1>6, <1>7, <1>8, <1>9 DEF IInv

-----------------------------------------------------------------------------
(* The end of a step                                                       *)

\* What bookkeeping makes of the requests: "grown" have one more token, "over"
\* and the rejected ones are answered and "gone" are evicted.
Grown(reqs, grown) ==
  [r \in Requests |-> IF r \in grown THEN [reqs[r] EXCEPT !.generated = @ + 1] ELSE reqs[r]]

Settled(reqs, ended, gone) ==
  [r \in Requests |-> IF r \in ended THEN [reqs[r] EXCEPT !.state = "answered"]
                      ELSE IF r \in gone THEN Checkpointed(reqs[r])
                      ELSE reqs[r]]

\* A checkpointed request is in order if there is something left to generate.
LEMMA CheckpointedQueued ==
  ASSUME NEW q \in RequestType, NEW w \in RowType, NEW lag \in {0, 1}, Paired(w, q, lag)
  PROVE  /\ Checkpointed(q) \in RequestType
         /\ Queued(Checkpointed(q))
         /\ Checkpointed(q).prefilled = 0 /\ Checkpointed(q).state = "held"
<1>. DEFINE p == Checkpointed(q)
<1>1. /\ q.prompt \in Nat /\ q.generated \in Nat /\ q.budget \in Int /\ q.left \in Nat /\ q.prefilled \in Nat
      /\ w.offset \in Nat /\ w.query \in Nat /\ w.out \in Nat
  BY RowFields DEF RequestType
<1>2. /\ q.state = "held" /\ Lasting(q)
      /\ w.out = q.prompt + q.budget
      /\ w.offset + w.query = q.prompt + q.generated - lag
      /\ w.offset + w.query + lag < w.out
  BY DEF Paired
<1>3. q.budget - q.generated > 0
  <2>1. w.offset + w.query + lag = q.prompt + q.generated
    BY <1>1, <1>2
  <2>. QED  BY <1>1, <1>2, <2>1
<1>. DEFINE x == q.prompt + q.generated
            y == q.budget - q.generated
<1>4. p = [q EXCEPT !.prompt = x, !.generated = 0, !.budget = y, !.left = x, !.prefilled = 0]
  BY DEF Checkpointed
<1>5. x \in Nat /\ y \in Int
  BY <1>1
<1>. HIDE DEF p, x, y
<1>6. /\ p.state = "held" /\ p.prompt = q.prompt + q.generated /\ p.generated = 0
      /\ p.budget = q.budget - q.generated /\ p.left = q.prompt + q.generated /\ p.prefilled = 0
      /\ p \in RequestType
  <2>1. /\ p.state = q.state /\ p.prompt = x /\ p.generated = 0
        /\ p.budget = y /\ p.left = x /\ p.prefilled = 0 /\ p \in RequestType
    BY <1>4, <1>5 DEF RequestType
  <2>. QED  BY <1>2, <2>1 DEF x, y
<1>7. p.prompt + p.budget = q.prompt + q.budget
  BY <1>1, <1>6
<1>8. q.prompt > 0 /\ q.prompt + q.budget <= MaxSequence
      /\ (setup.suspends > 0 => q.prompt + q.budget <= setup.maxTokens)
  BY <1>2 DEF Lasting
<1>9. Lasting(p)
  <2>1. p.prompt > 0
    BY <1>1, <1>6, <1>8
  <2>. QED  BY <1>7, <1>8, <2>1 DEF Lasting
<1>10. Queued(p)
  <2>1. p.left > 0 /\ p.budget > 0 /\ p.left + p.prefilled = p.prompt
    BY <1>1, <1>3, <1>6, <1>8
  <2>. QED  BY <1>6, <1>9, <2>1 DEF Queued
<1>. QED  BY <1>6, <1>10 DEF p

\* Who waits after the step: those that waited and the evicted ones.
LEMMA RequeuedLists ==
  ASSUME IInv, phase # "suspended", NEW gone \in Seq(Requests), Injective(gone),
         ToSet(gone) \cap ToSet(waiting) = {}
  PROVE  /\ Requeued(gone) \in Seq(Requests)
         /\ Injective(Requeued(gone))
         /\ \A r : r \in ToSet(Requeued(gone)) <=> r \in ToSet(waiting) \/ r \in ToSet(gone)
         /\ ctx.chunk # None => Requeued(gone) # << >> /\ Head(Requeued(gone)) = Head(waiting)
<1>. DEFINE g == Reverse(gone)
<1>1. Serving(ctx, requests, waiting) /\ waiting \in Seq(Requests) /\ Injective(waiting)
  BY TypesOf DEF Serving, QueueGood
<1>2. /\ g \in Seq(Requests) /\ Injective(g) /\ \A r : r \in ToSet(g) <=> r \in ToSet(gone)
  <2>. DEFINE n == Len(gone)
  <2>1. n \in Nat /\ DOMAIN gone = 1 .. n /\ \A i \in 1 .. n : gone[i] \in Requests
    OBVIOUS
  <2>2. g = [i \in 1 .. n |-> gone[(n - i) + 1]]
    BY DEF Reverse
  <2>. HIDE DEF n, g
  <2>3. \A i \in 1 .. n : (n - i) + 1 \in 1 .. n /\ (n - ((n - i) + 1)) + 1 = i
    BY <2>1
  <2>4. g \in [1 .. n -> Requests]
    BY <2>1, <2>2, <2>3
  <2>5. \A f \in [1 .. n -> Requests] : f \in Seq(Requests)
    BY <2>1
  <2>6. g \in Seq(Requests) /\ DOMAIN g = 1 .. n /\ \A i \in 1 .. n : g[i] = gone[(n - i) + 1]
    BY <2>2, <2>4, <2>5
  <2>7. Injective(g)
    <3>. SUFFICES ASSUME NEW i \in 1 .. n, NEW j \in 1 .. n, g[i] = g[j] PROVE i = j
      BY <2>6 DEF Injective
    <3>1. (n - i) + 1 = (n - j) + 1
      BY <2>1, <2>3, <2>6 DEF Injective
    <3>. QED  BY <2>1, <3>1
  <2>8. ASSUME NEW r PROVE r \in ToSet(g) <=> r \in ToSet(gone)
    <3>1. r \in ToSet(g) <=> \E i \in 1 .. n : g[i] = r
      BY <2>6 DEF ToSet
    <3>2. r \in ToSet(gone) <=> \E i \in 1 .. n : gone[i] = r
      BY <2>1 DEF ToSet
    <3>3. ASSUME NEW i \in 1 .. n, g[i] = r PROVE \E j \in 1 .. n : gone[j] = r
      BY <2>3, <2>6, <3>3
    <3>4. ASSUME NEW i \in 1 .. n, gone[i] = r PROVE \E j \in 1 .. n : g[j] = r
      <4>1. (n - i) + 1 \in 1 .. n /\ g[(n - i) + 1] = gone[i]
        BY <2>3, <2>6
      <4>. QED  BY <3>4, <4>1
    <3>. QED  BY <3>1, <3>2, <3>3, <3>4
  <2>. QED  BY <2>6, <2>7, <2>8
<1>. HIDE DEF g
<1>3. CASE ctx.chunk = None
  <2>1. Requeued(gone) = g \o waiting
    BY <1>3 DEF Requeued, g
  <2>2. ToSet(g) \cap ToSet(waiting) = {}
    BY <1>2
  <2>. QED  BY <1>1, <1>2, <1>3, <2>1, <2>2, ConcatLists
<1>4. CASE ctx.chunk # None
  <2>. DEFINE h == << Head(waiting) >>
              t == Tail(waiting)
              u == h \o g
  <2>1. waiting # << >>
    BY <1>1, <1>4 DEF Serving, ChunkGood
  <2>2. /\ Head(waiting) \in Requests /\ t \in Seq(Requests) /\ Injective(t) /\ Head(waiting) \notin ToSet(t)
        /\ \A r : r \in ToSet(waiting) <=> r = Head(waiting) \/ r \in ToSet(t)
    BY <1>1, <2>1, QueueParts
  <2>3. Requeued(gone) = u \o t
    BY <1>4 DEF Requeued, g
  <2>4. /\ h \in Seq(Requests) /\ Len(h) = 1 /\ DOMAIN h = 1 .. 1 /\ h[1] = Head(waiting)
    BY <2>2
  <2>. HIDE DEF h, t
  <2>5. Injective(h) /\ \A r : r \in ToSet(h) <=> r = Head(waiting)
    BY <2>4 DEF Injective, ToSet
  <2>6. ToSet(h) \cap ToSet(g) = {}
    BY <1>2, <2>2, <2>5
  <2>7. /\ u \in Seq(Requests) /\ Len(u) = Len(h) + Len(g) /\ Injective(u)
        /\ \A r : r \in ToSet(u) <=> r \in ToSet(h) \/ r \in ToSet(g)
    BY <1>2, <2>4, <2>5, <2>6, ConcatLists
  <2>8. u # << >> /\ Head(u) = Head(waiting)
    <3>1. u[1] = h[1] /\ Len(u) \in Nat /\ Len(u) >= 1 /\ u \in Seq(Requests)
      BY <1>2, <2>4, <2>7
    <3>. HIDE DEF u
    <3>. QED  BY <2>4, <3>1
  <2>. HIDE DEF u
  <2>9. ToSet(u) \cap ToSet(t) = {}
    BY <1>2, <2>2, <2>5, <2>7
  <2>10. /\ u \o t \in Seq(Requests) /\ Injective(u \o t)
         /\ \A r : r \in ToSet(u \o t) <=> r \in ToSet(u) \/ r \in ToSet(t)
    BY <2>2, <2>7, <2>9, ConcatLists DEF t
  <2>11. u \o t # << >> /\ Head(u \o t) = Head(waiting)
    BY <2>2, <2>7, <2>8
  <2>. QED  BY <1>2, <2>2, <2>3, <2>5, <2>7, <2>10, <2>11
<1>. QED  BY <1>3, <1>4

\* The names of a step.
AtEnd(w, eod, ending) == w.id \in eod \/ w.offset + w.query + 1 >= w.out \/ w.id \in ending

\* Requests whose stop word was found in an earlier step.
Ending == stopped \cap ActiveIds

\* The positions of the finished rows.
DoneOf(eod) ==
  { i \in DOMAIN ActiveRows(ctx) :
      AtEnd(ActiveRows(ctx)[i], eod, Ending) /\ ActiveRows(ctx)[i].id # ctx.chunk }

\* The requests that get a token.
GrownIds == ActiveIds \ (Ending \cup {ctx.chunk})

\* The blocks of the request that is filled in chunks.
ChunkBlocks == BlocksFor(requests[ctx.chunk].prefilled)

\* The active requests are those of the active rows.
LEMMA ActiveRequests ==
  ASSUME IInv
  PROVE  /\ \A i \in DOMAIN ctx.rows : i > ctx.paused => ctx.rows[i].id \in ActiveIds
         /\ \A i \in DOMAIN ActiveRows(ctx) : ActiveRows(ctx)[i].id \in ActiveIds
         /\ ActiveIds \subseteq RowIds(ctx) /\ ActiveIds \subseteq Requests
         /\ DistinctRows(ctx) => \A i \in DOMAIN ctx.rows : i <= ctx.paused => ctx.rows[i].id \notin ActiveIds
<1>1. /\ ctx \in ContextType /\ ctx.paused <= Len(ctx.rows) /\ ctx.paused \in Nat /\ Len(ctx.rows) \in Nat
      /\ DOMAIN ctx.rows = 1 .. Len(ctx.rows) /\ \A i \in DOMAIN ctx.rows : ctx.rows[i].id \in Requests
  BY TypesOf, ContextRows, RowFields
<1>2. \A i : i \in ctx.paused + 1 .. Len(ctx.rows) <=> i \in DOMAIN ctx.rows /\ i > ctx.paused
  BY <1>1
<1>3. \A r : r \in ActiveIds <=> \E i \in DOMAIN ctx.rows : i > ctx.paused /\ ctx.rows[i].id = r
  BY <1>2 DEF ActiveIds
<1>4. \A i \in DOMAIN ActiveRows(ctx) :
        ActiveRows(ctx)[i] = ctx.rows[ctx.paused + i] /\ ctx.paused + i \in DOMAIN ctx.rows /\ ctx.paused + i > ctx.paused
  <2>1. /\ DOMAIN ActiveRows(ctx) = 1 .. Len(ctx.rows) - ctx.paused
        /\ \A i \in DOMAIN ActiveRows(ctx) :
             ActiveRows(ctx)[i] = ctx.rows[ctx.paused + i] /\ ctx.paused + i \in DOMAIN ctx.rows
    BY <1>1, RowParts
  <2>. QED  BY <1>1, <2>1
<1>5. ASSUME DistinctRows(ctx), NEW i \in DOMAIN ctx.rows, i <= ctx.paused PROVE ctx.rows[i].id \notin ActiveIds
  <2>. SUFFICES ASSUME ctx.rows[i].id \in ActiveIds PROVE FALSE
    OBVIOUS
  <2>1. PICK j \in DOMAIN ctx.rows : j > ctx.paused /\ ctx.rows[j].id = ctx.rows[i].id
    BY <1>3
  <2>2. j = i
    BY <1>5, <2>1 DEF DistinctRows
  <2>. QED  BY <1>1, <1>5, <2>1, <2>2
<1>. QED  BY <1>1, <1>3, <1>4, <1>5 DEF RowIds

\* update_requests starts from rows that match their requests once each has its
\* new token.
LEMMA StepUpdatable ==
  ASSUME IInv, phase = "forward", NEW eod
  PROVE  /\ Updatable(ctx, DoneOf(eod), Grown(requests, GrownIds), ChunkBlocks)
         /\ Over(ctx, DoneOf(eod)) \subseteq RowIds(ctx)
         /\ ctx.chunk \notin Over(ctx, DoneOf(eod))
<1>. DEFINE done == DoneOf(eod)
            reqs == Grown(requests, GrownIds)
            a == ActiveRows(ctx)
<1>1. /\ ctx \in ContextType /\ requests \in [Requests -> RequestType]
      /\ ctx.paused <= Len(ctx.rows) /\ ctx.paused \in Nat /\ Len(ctx.rows) \in Nat
      /\ Owned(ctx) /\ DistinctRows(ctx) /\ RowsGood(ctx, requests) /\ ChunkGood(ctx, requests, waiting)
  BY TypesOf DEF Serving
<1>2. /\ DOMAIN a = 1 .. Len(ctx.rows) - ctx.paused
      /\ \A i \in DOMAIN a : a[i] = ctx.rows[ctx.paused + i] /\ ctx.paused + i \in DOMAIN ctx.rows
  BY <1>1, RowParts
<1>3. /\ \A i \in DOMAIN ctx.rows : ctx.rows[i] \in RowType /\ ctx.rows[i].id \in Requests /\ i \in Nat
      /\ DOMAIN ctx.rows = 1 .. Len(ctx.rows)
  BY <1>1, ContextRows, RowFields
<1>4. /\ \A r \in GrownIds : reqs[r] = [requests[r] EXCEPT !.generated = @ + 1]
      /\ \A r \in Requests \ GrownIds : reqs[r] = requests[r]
      /\ GrownIds \subseteq Requests
  BY ActiveRequests DEF Grown, GrownIds
<1>5. reqs \in [Requests -> RequestType]
  <2>1. \A r \in Requests : requests[r] \in RequestType /\ [requests[r] EXCEPT !.generated = @ + 1] \in RequestType
    BY <1>1, SMTT(30) DEF RequestType
  <2>. QED  BY <2>1 DEF Grown
<1>. HIDE DEF reqs
<1>6. ChunkRow(ctx, ChunkBlocks)
  <2>. SUFFICES ASSUME ctx.chunk # None
                PROVE  \E i \in DOMAIN ctx.rows : i > ctx.paused /\ ctx.rows[i].id = ctx.chunk /\ Len(ctx.rows[i].blocks) = ChunkBlocks
    BY DEF ChunkRow
  <2>1. ctx.paused < Len(ctx.rows) /\ ctx.rows[Len(ctx.rows)].id = ctx.chunk
        /\ Len(ctx.rows[Len(ctx.rows)].blocks) = ChunkBlocks
    BY <1>1 DEF ChunkGood, ChunkBlocks
  <2>2. Len(ctx.rows) \in DOMAIN ctx.rows /\ Len(ctx.rows) > ctx.paused
    BY <1>1, <1>3, <2>1
  <2>. QED  BY <2>1, <2>2
<1>7. done \subseteq DOMAIN a /\ \A i \in done : a[i].id # ctx.chunk
  BY DEF DoneOf
<1>8. ASSUME NEW i \in DOMAIN ctx.rows, i <= ctx.paused \/ i - ctx.paused \notin done, ctx.rows[i].id # ctx.chunk
      PROVE  /\ Paired(ctx.rows[i], reqs[ctx.rows[i].id], 1)
             /\ InItsSlot(ctx.rows[i])
             /\ i <= ctx.paused => ctx.rows[i].last = BlockSize - 1
  <2>. DEFINE w == ctx.rows[i]
              q == requests[w.id]
  <2>1. /\ Paired(w, q, IF i <= ctx.paused THEN 1 ELSE 0) /\ InItsSlot(w)
        /\ i <= ctx.paused => w.last = BlockSize - 1
    BY <1>1, <1>8 DEF RowsGood
  <2>2. CASE i <= ctx.paused
    <3>1. w.id \notin ActiveIds
      BY <1>1, <2>2, ActiveRequests
    <3>2. reqs[w.id] = q
      BY <1>3, <1>4, <3>1 DEF GrownIds
    <3>. QED  BY <2>1, <2>2, <3>2
  <2>3. CASE ~(i <= ctx.paused)
    <3>. DEFINE j == i - ctx.paused
    <3>1. j \in DOMAIN a /\ ctx.paused + j = i
      BY <1>1, <1>2, <1>3, <2>3
    <3>2. a[j] = w /\ j \notin done
      BY <1>2, <1>8, <2>3, <3>1
    <3>3. ~AtEnd(w, eod, Ending)
      BY <1>8, <3>1, <3>2 DEF DoneOf
    <3>4. w.id \in ActiveIds
      BY <1>1, <1>3, <2>3, ActiveRequests
    <3>5. w.id \in GrownIds
      BY <1>8, <3>3, <3>4 DEF GrownIds, AtEnd
    <3>6. reqs[w.id] = [q EXCEPT !.generated = @ + 1] /\ q \in RequestType /\ w \in RowType
      BY <1>1, <1>3, <1>4, <3>5
    <3>7. Paired(w, q, 0)
      BY <2>1, <2>3
    <3>8. ~(w.offset + w.query + 1 >= w.out)
      BY <3>3 DEF AtEnd
    <3>. HIDE DEF w, q
    <3>9. /\ q.prompt \in Nat /\ q.generated \in Nat /\ q.budget \in Int
          /\ w.offset \in Nat /\ w.query \in Nat /\ w.out \in Nat
      BY <3>6, RowFields DEF RequestType
    <3>10. /\ q.state = "held" /\ Lasting(q) /\ w.out = q.prompt + q.budget
           /\ w.offset + w.query = q.prompt + q.generated - 0 /\ w.offset + w.query > 0
      BY <3>7 DEF Paired
    <3>. DEFINE p == reqs[w.id]
    <3>11. /\ p.state = "held" /\ p.prompt = q.prompt /\ p.budget = q.budget /\ p.generated = q.generated + 1
      BY <3>6, <3>10 DEF RequestType
    <3>. HIDE DEF p
    <3>12. Lasting(p)
      BY <3>10, <3>11 DEF Lasting
    <3>13. w.out = p.prompt + p.budget /\ w.offset + w.query = p.prompt + p.generated - 1
           /\ w.offset + w.query + 1 < w.out
      BY <3>8, <3>9, <3>10, <3>11
    <3>14. Paired(w, p, 1)
      BY <3>10, <3>11, <3>12, <3>13 DEF Paired
    <3>. QED  BY <2>1, <2>3, <3>14 DEF p, w
  <2>. QED  BY <2>2, <2>3
<1>. HIDE DEF done
<1>9. Survive(ctx, done, reqs)
  BY <1>7, <1>8 DEF Survive
<1>10. Updatable(ctx, done, reqs, ChunkBlocks)
  BY <1>1, <1>5, <1>6, <1>7, <1>9 DEF Updatable
<1>11. Over(ctx, done) \subseteq RowIds(ctx) /\ ctx.chunk \notin Over(ctx, done)
  BY <1>2, <1>7 DEF Over, RowIds
<1>. QED  BY <1>10, <1>11 DEF done, reqs

\* What a step leaves: a context, whom it evicts and whom it ends.
Stepped(d, gone, over, reqs) ==
  /\ Updated(d, reqs, ChunkBlocks)
  /\ d.chunk = ctx.chunk
  /\ RowIds(d) = RowIds(ctx) \ (over \cup ToSet(gone))
  /\ Leaves(gone, ctx, reqs)
  /\ ToSet(gone) \cap over = {}
  /\ over \subseteq RowIds(ctx)
  /\ ctx.chunk \notin over

\* How the requests go on.
LEMMA SettledRequests ==
  ASSUME IInv, phase = "forward", NEW d, NEW gone, NEW over,
         Stepped(d, gone, over, Grown(requests, GrownIds))
  PROVE  LET reqs  == Grown(requests, GrownIds)
             after == Settled(reqs, over \cup ToSet(failed), ToSet(gone))
         IN  /\ after \in [Requests -> RequestType]
             /\ \A r \in ToSet(waiting) : after[r] = requests[r] /\ r \in Requests
             /\ \A r \in RowIds(d) : after[r] = reqs[r]
             /\ \A r \in ToSet(gone) : Queued(after[r]) /\ after[r].prefilled = 0 /\ r \notin ToSet(waiting)
             /\ \A r \in Requests : after[r].state = "held" =>
                  requests[r].state = "held" /\ r \notin over /\ r \notin ToSet(failed)
             /\ \A r \in Requests : after[r].state = "new" => requests[r].state = "new" /\ after[r] = requests[r]
<1>. DEFINE reqs  == Grown(requests, GrownIds)
            after == Settled(reqs, over \cup ToSet(failed), ToSet(gone))
<1>1. /\ ctx \in ContextType /\ requests \in [Requests -> RequestType] /\ waiting \in Seq(Requests)
      /\ failed \in Seq(Requests) /\ Serving(ctx, requests, waiting)
  BY TypesOf
<1>2. /\ d.chunk = ctx.chunk /\ RowIds(d) = RowIds(ctx) \ (over \cup ToSet(gone))
      /\ Leaves(gone, ctx, reqs) /\ ToSet(gone) \cap over = {} /\ over \subseteq RowIds(ctx) /\ ctx.chunk \notin over
  BY DEF Stepped
<1>3. /\ GrownIds \subseteq RowIds(ctx) /\ GrownIds \subseteq Requests /\ ctx.chunk \notin GrownIds
  BY ActiveRequests DEF GrownIds
<1>4. RowIds(ctx) \subseteq Requests
  BY <1>1, ContextRows, RowFields DEF RowIds
<1>5. /\ \A r \in Requests : reqs[r] \in RequestType /\ reqs[r].state = requests[r].state
      /\ \A r \in Requests \ GrownIds : reqs[r] = requests[r]
  <2>1. ASSUME NEW r \in Requests
        PROVE  reqs[r] \in RequestType /\ reqs[r].state = requests[r].state
               /\ (r \notin GrownIds => reqs[r] = requests[r])
    <3>1. reqs[r] = IF r \in GrownIds THEN [requests[r] EXCEPT !.generated = @ + 1] ELSE requests[r]
      BY DEF Grown
    <3>2. requests[r] \in RequestType
      BY <1>1
    <3>. HIDE DEF reqs
    <3>. QED  BY <3>1, <3>2 DEF RequestType
  <2>. QED  BY <2>1
<1>. HIDE DEF reqs
<1>6. /\ ToSet(failed) \cap (ToSet(waiting) \cup RowIds(ctx)) = {}
  BY <1>1 DEF Serving, FailedGood
<1>7. /\ gone \in Seq(Requests) /\ ToSet(gone) \subseteq RowIds(ctx) /\ ctx.chunk \notin ToSet(gone)
      /\ \A r \in ToSet(gone) : \E w \in RowType : Paired(w, reqs[r], 1)
  BY <1>2 DEF Leaves
<1>8. \A r \in ToSet(gone) : /\ r \in Requests
                             /\ Checkpointed(reqs[r]) \in RequestType
                             /\ Queued(Checkpointed(reqs[r]))
                             /\ Checkpointed(reqs[r]).prefilled = 0
                             /\ Checkpointed(reqs[r]).state = "held"
  <2>. SUFFICES ASSUME NEW r \in ToSet(gone)
                PROVE  /\ r \in Requests
                       /\ Checkpointed(reqs[r]) \in RequestType
                       /\ Queued(Checkpointed(reqs[r]))
                       /\ Checkpointed(reqs[r]).prefilled = 0
                       /\ Checkpointed(reqs[r]).state = "held"
    OBVIOUS
  <2>1. r \in Requests
    BY <1>4, <1>7
  <2>2. PICK w \in RowType : Paired(w, reqs[r], 1)
    BY <1>7
  <2>3. reqs[r] \in RequestType /\ 1 \in {0, 1}
    BY <1>5, <2>1
  <2>. QED  BY <2>1, <2>2, <2>3, CheckpointedQueued
<1>9. /\ \A r \in Requests : r \in over \cup ToSet(failed) => after[r] = [reqs[r] EXCEPT !.state = "answered"]
      /\ \A r \in Requests : r \notin over \cup ToSet(failed) /\ r \in ToSet(gone) => after[r] = Checkpointed(reqs[r])
      /\ \A r \in Requests : r \notin over \cup ToSet(failed) /\ r \notin ToSet(gone) => after[r] = reqs[r]
      /\ after = [r \in Requests |-> after[r]]
  BY DEF Settled
<1>. HIDE DEF after
<1>10. \A r \in ToSet(gone) : r \notin over \cup ToSet(failed)
  BY <1>2, <1>6, <1>7
<1>11. \A r \in Requests : [reqs[r] EXCEPT !.state = "answered"] \in RequestType /\ [reqs[r] EXCEPT !.state = "answered"].state = "answered"
  BY <1>5 DEF RequestType
<1>12. \A r \in Requests : after[r] \in RequestType
  <2>. SUFFICES ASSUME NEW r \in Requests PROVE after[r] \in RequestType
    OBVIOUS
  <2>1. CASE r \in over \cup ToSet(failed)
    BY <1>9, <1>11, <2>1
  <2>2. CASE r \notin over \cup ToSet(failed) /\ r \in ToSet(gone)
    BY <1>8, <1>9, <2>2
  <2>3. CASE r \notin over \cup ToSet(failed) /\ r \notin ToSet(gone)
    BY <1>5, <1>9, <2>3
  <2>. QED  BY <2>1, <2>2, <2>3
<1>13. after \in [Requests -> RequestType]
  BY <1>9, <1>12
<1>14. \A r \in ToSet(waiting) : after[r] = requests[r] /\ r \in Requests
  <2>. SUFFICES ASSUME NEW r \in ToSet(waiting) PROVE after[r] = requests[r] /\ r \in Requests
    OBVIOUS
  <2>1. r \in Requests
    BY <1>1 DEF ToSet
  <2>2. r \in RowIds(ctx) => r = ctx.chunk
    BY <1>1 DEF Serving, QueueGood
  <2>3. r \notin over /\ r \notin ToSet(gone) /\ r \notin GrownIds /\ r \notin ToSet(failed)
    BY <1>2, <1>3, <1>6, <1>7, <2>2
  <2>. QED  BY <1>5, <1>9, <2>1, <2>3
<1>15. \A r \in RowIds(d) : after[r] = reqs[r]
  BY <1>2, <1>4, <1>6, <1>9
<1>16. \A r \in ToSet(gone) : Queued(after[r]) /\ after[r].prefilled = 0 /\ r \notin ToSet(waiting)
  <2>. SUFFICES ASSUME NEW r \in ToSet(gone)
                PROVE  Queued(after[r]) /\ after[r].prefilled = 0 /\ r \notin ToSet(waiting)
    OBVIOUS
  <2>1. after[r] = Checkpointed(reqs[r])
    BY <1>8, <1>9, <1>10
  <2>2. r \in ToSet(waiting) => r = ctx.chunk
    BY <1>1, <1>7 DEF Serving, QueueGood
  <2>. QED  BY <1>7, <1>8, <2>1, <2>2
<1>17. ASSUME NEW r \in Requests, after[r].state = "held"
       PROVE  requests[r].state = "held" /\ r \notin over /\ r \notin ToSet(failed)
  <2>1. r \notin over \cup ToSet(failed)
    BY <1>9, <1>11, <1>17
  <2>2. CASE r \in ToSet(gone)
    BY <1>7, <2>1, <2>2, ServedAreHeld
  <2>3. CASE r \notin ToSet(gone)
    BY <1>5, <1>9, <1>17, <2>1, <2>3
  <2>. QED  BY <2>1, <2>2, <2>3
<1>18. ASSUME NEW r \in Requests, after[r].state = "new"
       PROVE  requests[r].state = "new" /\ after[r] = requests[r]
  <2>1. r \notin over \cup ToSet(failed)
    BY <1>9, <1>11, <1>18
  <2>2. r \notin ToSet(gone)
    BY <1>8, <1>9, <1>18, <2>1
  <2>3. after[r] = reqs[r] /\ requests[r].state = "new"
    BY <1>5, <1>9, <1>18, <2>1, <2>2
  <2>4. r \notin GrownIds
    BY <1>3, <2>3, ServedAreHeld
  <2>. QED  BY <1>5, <2>3, <2>4
<1>. QED  BY <1>13, <1>14, <1>15, <1>16, <1>17, <1>18 DEF after, reqs

\* After such a step the engine serves what is left.
LEMMA StepServes ==
  ASSUME IInv, phase = "forward", NEW gone, NEW over,
         Stepped(ctx', gone, over, Grown(requests, GrownIds)),
         requests' = Settled(Grown(requests, GrownIds), over \cup ToSet(failed), ToSet(gone)),
         waiting' \in Seq(Requests), Injective(waiting'),
         \A r : r \in ToSet(waiting') <=> r \in ToSet(waiting) \/ r \in ToSet(gone),
         ctx.chunk # None => waiting' # << >> /\ Head(waiting') = Head(waiting),
         failed' = << >>, phase' = "ready", stopped' \subseteq Requests,
         UNCHANGED << setup, resuming, suspends >>
  PROVE  IInv'
<1>. DEFINE reqs == Grown(requests, GrownIds)
<1>1. /\ ctx \in ContextType /\ requests \in [Requests -> RequestType] /\ waiting \in Seq(Requests)
      /\ failed \in Seq(Requests) /\ Serving(ctx, requests, waiting) /\ TypeOK /\ Fresh /\ SuspendsGood
  BY TypesOf
<1>2. /\ Updated(ctx', reqs, ChunkBlocks) /\ ctx'.chunk = ctx.chunk
      /\ RowIds(ctx') = RowIds(ctx) \ (over \cup ToSet(gone))
      /\ Leaves(gone, ctx, reqs) /\ ToSet(gone) \cap over = {} /\ ctx.chunk \notin over
  BY DEF Stepped
<1>3. /\ requests' \in [Requests -> RequestType]
      /\ \A r \in ToSet(waiting) : requests'[r] = requests[r] /\ r \in Requests
      /\ \A r \in RowIds(ctx') : requests'[r] = reqs[r]
      /\ \A r \in ToSet(gone) : Queued(requests'[r]) /\ requests'[r].prefilled = 0 /\ r \notin ToSet(waiting)
      /\ \A r \in Requests : requests'[r].state = "held" =>
           requests[r].state = "held" /\ r \notin over /\ r \notin ToSet(failed)
      /\ \A r \in Requests : requests'[r].state = "new" => requests[r].state = "new" /\ requests'[r] = requests[r]
  BY SettledRequests
<1>. HIDE DEF reqs
<1>4. /\ ctx' \in ContextType /\ Owned(ctx') /\ DistinctRows(ctx') /\ RowsGood(ctx', reqs)
      /\ ctx'.paused < Len(ctx'.rows) \/ (ctx'.rows = << >> /\ ctx'.paused = 0)
      /\ ctx'.chunk # None => /\ ctx'.paused < Len(ctx'.rows)
                              /\ ctx'.rows[Len(ctx'.rows)].id = ctx'.chunk
                              /\ Len(ctx'.rows[Len(ctx'.rows)].blocks) = ChunkBlocks
  BY <1>2 DEF Updated
<1>5. TypeOK'
  <2>1. ctx'.paused \in 0 .. Len(ctx'.rows)
    <3>1. ctx'.paused \in Nat /\ Len(ctx'.rows) \in Nat /\ Len(<< >>) = 0
      BY <1>4, ContextRows
    <3>. QED  BY <1>4, <3>1
  <2>2. /\ ctx'.free \in Seq(Blocks) /\ ctx'.rows \in Seq(RowType)
        /\ ctx'.chunk \in Requests \cup {None}
    BY <1>4, ContextFields
  <2>. QED  BY <1>1, <1>3, <2>1, <2>2, EmptyLists DEF TypeOK, Phases
<1>6. Fresh'
  BY <1>1, <1>3 DEF Fresh
<1>7. SuspendsGood'
  BY <1>1, <1>2 DEF SuspendsGood
<1>8. RowsGood(ctx', requests')
  <2>1. \A i \in DOMAIN ctx'.rows : requests'[ctx'.rows[i].id] = reqs[ctx'.rows[i].id]
    BY <1>3 DEF RowIds
  <2>. QED  BY <1>4, <2>1 DEF RowsGood
<1>9. ChunkGood(ctx', requests', waiting')
  <2>. SUFFICES ASSUME ctx.chunk # None PROVE ChunkGood(ctx', requests', waiting')
    BY <1>2 DEF ChunkGood
  <2>1. setup.chunked /\ waiting # << >> /\ Head(waiting) = ctx.chunk /\ requests[ctx.chunk].prefilled > 0
    BY <1>1 DEF Serving, ChunkGood
  <2>2. ctx.chunk \in ToSet(waiting)
    BY <1>1, <2>1, QueueParts DEF Serving, QueueGood
  <2>3. requests'[ctx.chunk] = requests[ctx.chunk]
    BY <1>3, <2>2
  <2>. QED  BY <1>2, <1>4, <2>1, <2>3 DEF ChunkGood, ChunkBlocks
<1>10. QueueGood(ctx', requests', waiting')
  <2>. SUFFICES ASSUME NEW x \in ToSet(waiting')
                PROVE  /\ Queued(requests'[x])
                       /\ requests'[x].prefilled > 0 => x = ctx.chunk
                       /\ x \in RowIds(ctx') => x = ctx.chunk
    BY <1>2 DEF QueueGood
  <2>1. CASE x \in ToSet(waiting)
    <3>1. /\ Queued(requests[x]) /\ (requests[x].prefilled > 0 => x = ctx.chunk)
          /\ (x \in RowIds(ctx) => x = ctx.chunk)
      BY <1>1, <2>1 DEF Serving, QueueGood
    <3>. QED  BY <1>2, <1>3, <2>1, <3>1
  <2>2. CASE x \in ToSet(gone)
    <3>1. Queued(requests'[x]) /\ requests'[x].prefilled = 0 /\ x \notin RowIds(ctx')
      BY <1>2, <1>3, <2>2
    <3>. QED  BY <3>1
  <2>. QED  BY <2>1, <2>2
<1>11. AllHeldBy(ctx', requests', waiting', failed')
  <2>. SUFFICES ASSUME NEW x \in Requests, requests'[x].state = "held"
                PROVE  x \in ToSet(waiting') \cup RowIds(ctx')
    BY DEF AllHeldBy
  <2>1. requests[x].state = "held" /\ x \notin over /\ x \notin ToSet(failed)
    BY <1>3
  <2>2. x \in ToSet(waiting) \cup RowIds(ctx)
    BY <1>1, <2>1 DEF Serving, AllHeld
  <2>. QED  BY <1>2, <2>1, <2>2
<1>12. Injective(failed') /\ ToSet(failed') = {}
  BY EmptyLists
<1>13. Serving(ctx, requests, waiting)'
  BY <1>4, <1>8, <1>9, <1>10, <1>11, <1>12, ServingNext
<1>. QED  BY <1>4, <1>5, <1>6, <1>7, <1>13 DEF IInv

\* What bookkeeping does.
BookkeepDone(eod, hit) ==
  LET done  == DoneOf(eod)
      u     == UpdateRequests(ctx, done)
      over  == Over(ctx, done)
      after == Settled(Grown(requests, GrownIds), over \cup ToSet(failed), ToSet(u.evicted))
  IN  /\ phase = "forward"
      /\ hit \subseteq GrownIds \ over
      /\ \/ /\ ActiveRows(ctx) = << >>
            /\ requests' = after
            /\ phase' = IF AnswersOnce THEN "ready" ELSE "broken"
            /\ failed' = << >>
            /\ UNCHANGED << ctx, waiting, stopped >>
         \/ /\ ActiveRows(ctx) # << >>
            /\ u.ok /\ AnswersOnce
            /\ ctx' = u.ctx
            /\ requests' = after
            /\ waiting' = Requeued(u.evicted)
            /\ stopped' = StopsLeft(Ending) \cup hit
            /\ failed' = << >>
            /\ phase' = "ready"
         \/ /\ ActiveRows(ctx) # << >>
            /\ ~(u.ok /\ AnswersOnce)
            /\ phase' = "broken"
            /\ UNCHANGED << ctx, requests, waiting, stopped, failed >>
      /\ UNCHANGED << setup, resuming, suspends >>

\* Bookkeep does that.
LEMMA BookkeepIs ==
  ASSUME NEW eod, NEW hit, Bookkeep(eod, hit)
  PROVE  BookkeepDone(eod, hit)
<1>. DEFINE done   == DoneOf(eod)
            active == ActiveRows(ctx)
            over   == { active[i].id : i \in done }
            u      == UpdateRequests(ctx, done)
            Processed(r) ==
              LET q == IF r \in GrownIds THEN [requests[r] EXCEPT !.generated = @ + 1] ELSE requests[r]
              IN  IF r \in over \cup ToSet(failed) THEN [q EXCEPT !.state = "answered"]
                  ELSE IF r \in ToSet(u.evicted) THEN Checkpointed(q) ELSE q
            after  == Settled(Grown(requests, GrownIds), over \cup ToSet(failed), ToSet(u.evicted))
<1>1. /\ phase = "forward"
      /\ hit \subseteq GrownIds \ over
      /\ IF active = << >>
         THEN /\ requests' = [r \in Requests |-> Processed(r)]
              /\ phase' = IF AnswersOnce THEN "ready" ELSE "broken"
              /\ failed' = << >>
              /\ UNCHANGED << ctx, waiting, stopped >>
         ELSE IF u.ok /\ AnswersOnce
         THEN /\ ctx' = u.ctx
              /\ requests' = [r \in Requests |-> Processed(r)]
              /\ waiting' = Requeued(u.evicted)
              /\ stopped' = StopsLeft(Ending) \cup hit
              /\ failed' = << >>
              /\ phase' = "ready"
         ELSE /\ phase' = "broken"
              /\ UNCHANGED << ctx, requests, waiting, stopped, failed >>
      /\ UNCHANGED << setup, resuming, suspends >>
  BY DEF Bookkeep, DoneOf, AtEnd, Ending, GrownIds
<1>2. [r \in Requests |-> Processed(r)] = after
  <2>. HIDE DEF over, u
  <2>1. \A r \in Requests : Grown(requests, GrownIds)[r] =
          IF r \in GrownIds THEN [requests[r] EXCEPT !.generated = @ + 1] ELSE requests[r]
    BY DEF Grown
  <2>. QED  BY <2>1 DEF Settled
<1>3. over = Over(ctx, done)
  BY DEF Over
<1>. HIDE DEF done, over, u, after, active, Processed
<1>4. /\ phase = "forward"
      /\ hit \subseteq GrownIds \ over
      /\ \/ /\ active = << >>
            /\ requests' = after
            /\ phase' = IF AnswersOnce THEN "ready" ELSE "broken"
            /\ failed' = << >>
            /\ UNCHANGED << ctx, waiting, stopped >>
         \/ /\ active # << >>
            /\ u.ok /\ AnswersOnce
            /\ ctx' = u.ctx
            /\ requests' = after
            /\ waiting' = Requeued(u.evicted)
            /\ stopped' = StopsLeft(Ending) \cup hit
            /\ failed' = << >>
            /\ phase' = "ready"
         \/ /\ active # << >>
            /\ ~(u.ok /\ AnswersOnce)
            /\ phase' = "broken"
            /\ UNCHANGED << ctx, requests, waiting, stopped, failed >>
      /\ UNCHANGED << setup, resuming, suspends >>
  BY <1>1, <1>2
<1>. QED  BY <1>3, <1>4 DEF BookkeepDone, done, over, u, after, active

\* A step that ends well or not.
LEMMA BookkeepKeeps ==
  ASSUME IInv, NEW eod, NEW hit, Bookkeep(eod, hit)
  PROVE  /\ IInv'
         /\ \/ phase' = "ready"
            \/ ActiveRows(ctx) # << >> /\ ~UpdateRequests(ctx, DoneOf(eod)).ok
<1>. DEFINE done  == DoneOf(eod)
            u     == UpdateRequests(ctx, done)
            over  == Over(ctx, done)
            reqs  == Grown(requests, GrownIds)
            after == Settled(reqs, over \cup ToSet(failed), ToSet(u.evicted))
<1>1. /\ phase = "forward"
      /\ hit \subseteq GrownIds \ over
      /\ \/ /\ ActiveRows(ctx) = << >>
            /\ requests' = after
            /\ phase' = IF AnswersOnce THEN "ready" ELSE "broken"
            /\ failed' = << >>
            /\ UNCHANGED << ctx, waiting, stopped >>
         \/ /\ ActiveRows(ctx) # << >>
            /\ u.ok /\ AnswersOnce
            /\ ctx' = u.ctx
            /\ requests' = after
            /\ waiting' = Requeued(u.evicted)
            /\ stopped' = StopsLeft(Ending) \cup hit
            /\ failed' = << >>
            /\ phase' = "ready"
         \/ /\ ActiveRows(ctx) # << >>
            /\ ~(u.ok /\ AnswersOnce)
            /\ phase' = "broken"
            /\ UNCHANGED << ctx, requests, waiting, stopped, failed >>
      /\ UNCHANGED << setup, resuming, suspends >>
  BY BookkeepIs DEF BookkeepDone
<1>2. /\ ctx \in ContextType /\ Serving(ctx, requests, waiting) /\ TypeOK /\ stopped \subseteq Requests
      /\ ctx.paused <= Len(ctx.rows) /\ ctx.paused \in Nat /\ Len(ctx.rows) \in Nat /\ waiting \in Seq(Requests)
  BY <1>1, TypesOf DEF TypeOK
<1>3. AnswersOnce
  BY <1>2 DEF Serving, FailedGood, Injective, AnswersOnce, IsInjective
<1>4. /\ Updatable(ctx, done, reqs, ChunkBlocks)
      /\ over \subseteq RowIds(ctx) /\ ctx.chunk \notin over
  BY <1>1, StepUpdatable
<1>5. /\ u.ok => /\ Updated(u.ctx, reqs, ChunkBlocks)
                 /\ u.ctx.chunk = ctx.chunk
                 /\ RowIds(u.ctx) = RowIds(ctx) \ (over \cup ToSet(u.evicted))
      /\ Leaves(u.evicted, ctx, reqs)
      /\ ToSet(u.evicted) \cap over = {}
  BY <1>4, UpdateKeeps
<1>6. UNCHANGED << setup, resuming, suspends >> /\ phase = "forward"
  BY <1>1
<1>7. CASE ActiveRows(ctx) = << >>
  <2>1. ctx.rows = << >> /\ ctx.paused = 0 /\ DOMAIN ctx.rows = {}
    <3>1. Len(ActiveRows(ctx)) = Len(ctx.rows) - ctx.paused /\ Len(<< >>) = 0
      BY <1>2, RowParts
    <3>2. ~(ctx.paused < Len(ctx.rows))
      BY <1>2, <1>7, <3>1
    <3>3. ctx.rows = << >>
      BY <1>2, <3>2 DEF Serving
    <3>4. Len(ctx.rows) = 0 /\ DOMAIN ctx.rows = {}
      BY <3>3
    <3>. QED  BY <1>2, <3>3, <3>4
  <2>2. done = {}
    BY <1>7 DEF done, DoneOf
  <2>3. AllDone(ctx, done)
    BY <2>1, <2>2 DEF AllDone
  <2>4. u.evicted = << >> /\ over = {} /\ ToSet(u.evicted) = {}
    <3>1. u.evicted = << >>
      BY <1>4, <2>3, UpdateAllDone DEF u
    <3>2. over = {}
      BY <2>2 DEF over, Over
    <3>. QED  BY <3>1, <3>2, EmptyLists
  <2>5. RowIds(ctx) = {} /\ RowsGood(ctx, reqs)
    BY <2>1 DEF RowIds, RowsGood
  <2>6. ctx.chunk = None
    BY <1>2, <2>1 DEF Serving, ChunkGood
  <2>7. Updated(ctx, reqs, ChunkBlocks)
    BY <1>2, <2>1, <2>5, <2>6 DEF Updated, Serving
  <2>8. /\ requests' = after /\ phase' = "ready" /\ failed' = << >>
        /\ ctx' = ctx /\ waiting' = waiting /\ stopped' = stopped
    BY <1>1, <1>3, <1>7
  <2>9. Stepped(ctx', u.evicted, over, reqs)
    BY <1>4, <1>5, <2>4, <2>5, <2>7, <2>8 DEF Stepped
  <2>10. Injective(waiting)
    BY <1>2 DEF Serving, QueueGood
  <2>11. requests' = Settled(Grown(requests, GrownIds), over \cup ToSet(failed), ToSet(u.evicted))
    BY <2>8 DEF after, reqs
  <2>12. Stepped(ctx', u.evicted, over, Grown(requests, GrownIds))
    BY <2>9 DEF reqs
  <2>13. \A r : r \in ToSet(waiting') <=> r \in ToSet(waiting) \/ r \in ToSet(u.evicted)
    BY <2>4, <2>8
  <2>14. /\ waiting' \in Seq(Requests) /\ Injective(waiting') /\ stopped' \subseteq Requests
         /\ ctx.chunk # None => waiting' # << >> /\ Head(waiting') = Head(waiting)
    BY <1>2, <2>6, <2>8, <2>10
  <2>. QED  BY <1>6, <2>8, <2>11, <2>12, <2>13, <2>14, StepServes
<1>8. CASE ActiveRows(ctx) # << >> /\ u.ok
  <2>1. /\ ctx' = u.ctx /\ requests' = after /\ waiting' = Requeued(u.evicted)
        /\ stopped' = StopsLeft(Ending) \cup hit /\ failed' = << >> /\ phase' = "ready"
    BY <1>1, <1>3, <1>8
  <2>2. Stepped(ctx', u.evicted, over, reqs)
    BY <1>4, <1>5, <1>8, <2>1 DEF Stepped
  <2>3. Stepped(ctx', u.evicted, over, Grown(requests, GrownIds))
    BY <2>2 DEF reqs
  <2>4. requests' = Settled(Grown(requests, GrownIds), over \cup ToSet(failed), ToSet(u.evicted))
    BY <2>1 DEF after, reqs
  <2>5. u.evicted \in Seq(Requests) /\ Injective(u.evicted)
    BY <1>5 DEF Leaves
  <2>6. ToSet(u.evicted) \cap ToSet(waiting) = {}
    BY <1>2, <1>5 DEF Leaves, Serving, QueueGood
  <2>7. /\ waiting' \in Seq(Requests) /\ Injective(waiting')
        /\ \A r : r \in ToSet(waiting') <=> r \in ToSet(waiting) \/ r \in ToSet(u.evicted)
        /\ ctx.chunk # None => waiting' # << >> /\ Head(waiting') = Head(waiting)
    BY <1>6, <2>1, <2>5, <2>6, RequeuedLists
  <2>8. stopped' \subseteq Requests
    <3>1. hit \subseteq Requests
      BY <1>1, ActiveRequests DEF GrownIds
    <3>. QED  BY <1>2, <2>1, <3>1 DEF StopsLeft
  <2>. QED  BY <1>6, <2>1, <2>3, <2>4, <2>7, <2>8, StepServes
<1>9. CASE ActiveRows(ctx) # << >> /\ ~u.ok
  <2>1. phase' = "broken" /\ UNCHANGED << ctx, requests, waiting, stopped, failed >>
    BY <1>1, <1>9
  <2>2. TypeOK' /\ ctx' \in ContextType /\ Fresh' /\ SuspendsGood'
    BY <1>2, <1>6, <2>1, TypesOf DEF TypeOK, Fresh, SuspendsGood, Phases
  <2>3. Serving(ctx, requests, waiting)'
    <3>1. AllHeldBy(ctx', requests', waiting', failed')
      BY <1>2, <2>1 DEF Serving, AllHeld, AllHeldBy
    <3>. QED  BY <1>2, <1>6, <2>1, <3>1, ServingNext DEF Serving, FailedGood
  <2>. QED  BY <1>9, <2>1, <2>2, <2>3 DEF IInv, u, done
<1>. QED  BY <1>7, <1>8, <1>9

-----------------------------------------------------------------------------
(* Suspension                                                              *)

\* An order of a finite set has each of its elements once.
LEMMA OrderLists ==
  ASSUME NEW S, IsFiniteSet(S), NEW order \in SetToSeqs(S)
  PROVE  order \in Seq(S) /\ Injective(order) /\ ToSet(order) = S
<1>. DEFINE m == Cardinality(S)
<1>1. m \in Nat /\ IsFiniteSet(1 .. m) /\ Cardinality(1 .. m) = m
  <2>1. m \in Nat
    BY FS_CardinalityType
  <2>. QED  BY <2>1, FS_Interval
<1>2. order \in [1 .. m -> S] /\ \A i, j \in 1 .. m : i # j => order[i] # order[j]
  BY DEF SetToSeqs
<1>. HIDE DEF m
<1>3. order \in Injection(1 .. m, S)
  BY <1>2 DEF Injection, IsInjective
<1>4. order \in Surjection(1 .. m, S)
  BY <1>1, <1>3, FS_Injection DEF m
<1>5. \A x \in S : \E j \in 1 .. m : order[j] = x
  BY <1>4 DEF Surjection
<1>6. order \in Seq(S) /\ DOMAIN order = 1 .. m
  BY <1>1, <1>2, IsASeq
<1>7. Injective(order)
  BY <1>2, <1>6 DEF Injective
<1>8. ToSet(order) = S
  BY <1>2, <1>5, <1>6 DEF ToSet
<1>. QED  BY <1>6, <1>7, <1>8

\* The requests that have rows are finitely many.
LEMMA RowIdsFinite ==
  ASSUME NEW c \in ContextType
  PROVE  IsFiniteSet(RowIds(c))
<1>. DEFINE n == Len(c.rows)
            f == [i \in 1 .. n |-> c.rows[i].id]
<1>1. n \in Nat /\ DOMAIN c.rows = 1 .. n
  BY ContextRows
<1>. HIDE DEF n
<1>2. IsFiniteSet(1 .. n)
  BY <1>1, FS_Interval
<1>3. f \in Surjection(1 .. n, RowIds(c))
  BY <1>1 DEF Surjection, RowIds
<1>. HIDE DEF f
<1>. QED  BY <1>2, <1>3, FS_Surjection

\* Suspend.
LEMMA SuspendKeeps ==
  ASSUME IInv, Suspend
  PROVE  IInv'
<1>. DEFINE active == { r \in Requests : requests[r].state = "held" } \ ToSet(waiting)
<1>1. /\ phase \in {"ready", "asleep"} /\ suspends < setup.suspends
      /\ \E order \in SetToSeqs(active) : resuming' = order \o waiting
      /\ requests' = [r \in Requests |-> IF r \in active THEN Checkpointed(requests[r]) ELSE requests[r]]
      /\ waiting' = << >> /\ phase' = "suspended" /\ suspends' = suspends + 1
      /\ UNCHANGED << setup, ctx, failed, stopped >>
  BY DEF Suspend
<1>2. /\ setup \in Setups /\ setup \in SetupType /\ ctx \in ContextType /\ requests \in [Requests -> RequestType]
      /\ waiting \in Seq(Requests) /\ TypeOK /\ Fresh /\ SuspendsGood /\ Serving(ctx, requests, waiting)
  BY <1>1, TypesOf
<1>3. suspends \in Nat /\ setup.suspends \in Nat /\ setup.suspends > 0 /\ suspends + 1 \in 0 .. setup.suspends
  <2>1. suspends \in 0 .. setup.suspends /\ setup.suspends \in Nat
    BY <1>2 DEF TypeOK, SetupType
  <2>. QED  BY <1>1, <2>1
<1>4. failed = << >> /\ ctx.chunk = None /\ ToSet(failed) = {}
  BY <1>2, <1>3, EmptyLists DEF SuspendsGood
<1>5. active \subseteq RowIds(ctx)
  BY <1>2, <1>4 DEF Serving, AllHeld
<1>6. \A r \in active : /\ r \in Requests /\ Checkpointed(requests[r]) \in RequestType
                        /\ Queued(Checkpointed(requests[r])) /\ Checkpointed(requests[r]).prefilled = 0
                        /\ Checkpointed(requests[r]).state = "held"
  <2>. SUFFICES ASSUME NEW r \in active
                PROVE  /\ Checkpointed(requests[r]) \in RequestType
                       /\ Queued(Checkpointed(requests[r])) /\ Checkpointed(requests[r]).prefilled = 0
                       /\ Checkpointed(requests[r]).state = "held"
    OBVIOUS
  <2>1. PICK i \in DOMAIN ctx.rows : ctx.rows[i].id = r
    BY <1>5 DEF RowIds
  <2>2. r \in Requests /\ r # ctx.chunk /\ ctx.rows[i] \in RowType
    BY <1>2, <1>4, ContextRows, InferenceAssumption
  <2>3. PICK lag \in {0, 1} : Paired(ctx.rows[i], requests[r], lag)
    BY <1>2, <2>1, <2>2 DEF Serving, RowsGood
  <2>4. requests[r] \in RequestType
    BY <1>2, <2>2
  <2>. QED  BY <2>2, <2>3, <2>4, CheckpointedQueued
<1>7. IsFiniteSet(active)
  BY <1>2, <1>5, RowIdsFinite, FS_Subset
<1>8. PICK order \in SetToSeqs(active) : resuming' = order \o waiting
  BY <1>1
<1>9. order \in Seq(active) /\ Injective(order) /\ ToSet(order) = active
  BY <1>7, OrderLists
<1>10. /\ active \subseteq Requests /\ active \cap ToSet(waiting) = {}
       /\ \A r \in Requests : r \notin active => requests'[r] = requests[r]
       /\ \A r \in Requests : r \in active => requests'[r] = Checkpointed(requests[r])
       /\ \A r \in Requests : requests[r].state = "held" => r \in active \cup ToSet(waiting)
  BY <1>1
<1>11. requests' \in [Requests -> RequestType]
  <2>1. \A r \in Requests : requests[r] \in RequestType
    BY <1>2
  <2>. QED  BY <1>1, <1>6, <2>1
<1>. HIDE DEF active
<1>12. order \in Seq(Requests)
  BY <1>9, <1>10
<1>13. /\ resuming' \in Seq(Requests) /\ Injective(resuming')
       /\ \A r : r \in ToSet(resuming') <=> r \in active \/ r \in ToSet(waiting)
  <2>1. Injective(waiting)
    BY <1>2 DEF Serving, QueueGood
  <2>. QED  BY <1>2, <1>8, <1>9, <1>10, <1>12, <2>1, ConcatLists
<1>14. TypeOK'
  BY <1>1, <1>2, <1>3, <1>11, <1>13, EmptyLists DEF TypeOK, Phases
<1>15. Fresh'
  <2>1. \A r \in Requests : requests'[r].state = "new" => requests'[r] = requests[r]
    BY <1>6, <1>10
  <2>. QED  BY <1>2, <2>1 DEF Fresh
<1>16. SuspendsGood'
  BY <1>1, <1>2 DEF SuspendsGood
<1>17. Suspended'
  <2>1. \A r \in ToSet(resuming') : Queued(requests'[r]) /\ requests'[r].prefilled = 0
    <3>. SUFFICES ASSUME NEW r \in ToSet(resuming') PROVE Queued(requests'[r]) /\ requests'[r].prefilled = 0
      OBVIOUS
    <3>1. CASE r \in active
      BY <1>6, <1>10, <3>1
    <3>2. CASE r \notin active
      <4>1. r \in ToSet(waiting) /\ r \in Requests
        BY <1>2, <1>13, <3>2 DEF ToSet
      <4>2. Queued(requests[r]) /\ (requests[r].prefilled > 0 => r = ctx.chunk)
        BY <1>2, <4>1 DEF Serving, QueueGood
      <4>3. requests[r].prefilled \in Nat /\ ~(requests[r].prefilled > 0)
        BY <1>2, <1>4, <4>1, <4>2, InferenceAssumption DEF RequestType
      <4>. QED  BY <1>10, <3>2, <4>1, <4>2, <4>3
    <3>. QED  BY <3>1, <3>2
  <2>2. \A r \in ToSet(resuming') : Queued(requests[r])' /\ requests'[r].prefilled = 0
    BY <1>1, <2>1 DEF Queued, Lasting
  <2>3. \A r \in Requests : requests'[r].state = "held" => r \in ToSet(resuming')
    <3>1. ASSUME NEW r \in Requests, r \notin active, requests'[r].state = "held" PROVE r \in ToSet(resuming')
      <4>1. requests[r].state = "held"
        BY <1>10, <3>1
      <4>. QED  BY <1>10, <1>13, <3>1, <4>1
    <3>. QED  BY <1>13, <3>1
  <2>4. ToSet(waiting') = {} /\ Injective(waiting')
    BY <1>1, EmptyLists
  <2>5. setup'.suspends > 0
    BY <1>1, <1>3
  <2>. QED  BY <1>13, <2>2, <2>3, <2>4, <2>5 DEF Suspended
<1>. QED  BY <1>1, <1>2, <1>14, <1>15, <1>16, <1>17 DEF IInv

\* Picked at all positions takes every element once; at none, nothing.
LEMMA PickedAll ==
  ASSUME NEW T, NEW s \in Seq(T), Injective(s)
  PROVE  /\ Picked(s, DOMAIN s) \in Seq(T) /\ Injective(Picked(s, DOMAIN s))
         /\ \A x : x \in ToSet(Picked(s, DOMAIN s)) <=> x \in ToSet(s)
         /\ Picked(s, {}) = << >>
<1>. DEFINE n  == Len(s)
            D  == DOMAIN s
            m  == Cardinality(D)
            at == Ascending(D)
            p  == Picked(s, D)
<1>1. n \in Nat /\ D = 1 .. n /\ D \in SUBSET DOMAIN s /\ D \in SUBSET (1 .. n)
  OBVIOUS
<1>2. /\ m \in 0 .. n /\ Injective(at) /\ at \in [1 .. m -> D]
      /\ \A x \in D : \E j \in 1 .. m : at[j] = x
  BY <1>1, AscendingLists
<1>3. /\ p \in Seq(T) /\ Len(p) = m /\ \A j \in 1 .. m : at[j] \in D /\ p[j] = s[at[j]]
  BY <1>1, PickedLists
<1>4. DOMAIN p = 1 .. m /\ DOMAIN at = 1 .. m
  BY <1>2, <1>3
<1>5. Picked(s, {}) = << >>
  <2>1. {} \in SUBSET DOMAIN s /\ Cardinality({}) = 0
    BY FS_EmptySet
  <2>2. Picked(s, {}) \in Seq(T) /\ Len(Picked(s, {})) = 0
    BY <2>1, PickedLists
  <2>. QED  BY <2>2
<1>. HIDE DEF m, at, p, D
<1>6. Injective(p)
  <2>. SUFFICES ASSUME NEW i \in 1 .. m, NEW j \in 1 .. m, p[i] = p[j] PROVE i = j
    BY <1>4 DEF Injective
  <2>1. at[i] = at[j]
    BY <1>3 DEF Injective, D
  <2>. QED  BY <1>2, <1>4, <2>1 DEF Injective
<1>7. ASSUME NEW x PROVE x \in ToSet(p) <=> x \in ToSet(s)
  <2>1. x \in ToSet(p) <=> \E j \in 1 .. m : p[j] = x
    BY <1>4 DEF ToSet
  <2>2. x \in ToSet(s) <=> \E i \in D : s[i] = x
    BY DEF ToSet, D
  <2>. QED  BY <1>2, <1>3, <2>1, <2>2
<1>. QED  BY <1>3, <1>5, <1>6, <1>7 DEF p, D

\* ResumeEngine.
LEMMA ResumeEngineKeeps ==
  ASSUME IInv, ResumeEngine
  PROVE  IInv'
<1>. DEFINE accepted == { i \in DOMAIN resuming : Accepted(requests[resuming[i]]) }
<1>1. /\ phase = "suspended" /\ ctx' = EmptyContext
      /\ waiting' = waiting \o Picked(resuming, accepted)
      /\ failed' = failed \o Picked(resuming, DOMAIN resuming \ accepted)
      /\ phase' = "ready"
      /\ UNCHANGED << setup, requests, stopped, resuming, suspends >>
  BY DEF ResumeEngine
<1>2. /\ setup \in SetupType /\ requests \in [Requests -> RequestType] /\ resuming \in Seq(Requests)
      /\ waiting \in Seq(Requests) /\ TypeOK /\ Fresh /\ SuspendsGood /\ Suspended
  BY <1>1, TypesOf
<1>3. /\ setup.suspends > 0 /\ Injective(waiting) /\ Injective(resuming)
      /\ ToSet(waiting) \cap ToSet(resuming) = {}
      /\ \A r \in ToSet(waiting) \cup ToSet(resuming) : Queued(requests[r]) /\ requests[r].prefilled = 0
      /\ \A r \in Requests : requests[r].state = "held" => r \in ToSet(waiting) \cup ToSet(resuming)
  BY <1>2 DEF Suspended
<1>4. accepted = DOMAIN resuming
  <2>. SUFFICES ASSUME NEW i \in DOMAIN resuming PROVE Accepted(requests[resuming[i]])
    OBVIOUS
  <2>. DEFINE q == requests[resuming[i]]
  <2>1. resuming[i] \in Requests /\ resuming[i] \in ToSet(resuming)
    BY <1>2 DEF ToSet
  <2>2. Queued(q) /\ q \in RequestType
    BY <1>2, <1>3, <2>1
  <2>. HIDE DEF q
  <2>3. q.prompt \in Nat /\ q.budget \in Int /\ setup.maxTokens \in Nat
    BY <1>2, <2>2 DEF RequestType, SetupType
  <2>4. q.budget > 0 /\ q.prompt + q.budget <= MaxSequence /\ q.prompt + q.budget <= setup.maxTokens
    BY <1>3, <2>2 DEF Queued, Lasting
  <2>5. q.budget >= 0 /\ q.prompt <= setup.maxTokens
    BY <2>3, <2>4
  <2>6. Accepted(q)
    BY <2>4, <2>5 DEF Accepted
  <2>. QED  BY <2>6 DEF q
<1>. HIDE DEF accepted
<1>5. failed = << >> /\ failed' = << >>
  <2>1. failed = << >>
    BY <1>2, <1>3 DEF SuspendsGood
  <2>2. DOMAIN resuming \ accepted = {}
    BY <1>4
  <2>3. Picked(resuming, DOMAIN resuming \ accepted) = << >>
    BY <1>2, <1>3, <2>2, PickedAll
  <2>4. << >> \o << >> = << >>
    OBVIOUS
  <2>. QED  BY <1>1, <2>1, <2>3, <2>4
<1>6. /\ waiting' \in Seq(Requests) /\ Injective(waiting')
      /\ \A r : r \in ToSet(waiting') <=> r \in ToSet(waiting) \/ r \in ToSet(resuming)
  <2>. DEFINE p == Picked(resuming, DOMAIN resuming)
  <2>1. /\ p \in Seq(Requests) /\ Injective(p) /\ \A x : x \in ToSet(p) <=> x \in ToSet(resuming)
    BY <1>2, <1>3, PickedAll
  <2>2. waiting' = waiting \o p
    BY <1>1, <1>4
  <2>. HIDE DEF p
  <2>3. ToSet(waiting) \cap ToSet(p) = {}
    BY <1>3, <2>1
  <2>. QED  BY <1>2, <1>3, <2>1, <2>2, <2>3, ConcatLists
<1>7. /\ ctx' \in ContextType /\ Owned(ctx') /\ DistinctRows(ctx') /\ ctx'.rows = << >> /\ ctx'.paused = 0
      /\ ctx'.chunk = None /\ RowIds(ctx') = {} /\ DOMAIN ctx'.rows = {}
  <2>1. ctx' = EmptyContext
    BY <1>1
  <2>2. /\ EmptyContext \in ContextType /\ Owned(EmptyContext) /\ DistinctRows(EmptyContext)
        /\ EmptyContext.rows = << >> /\ EmptyContext.paused = 0 /\ EmptyContext.chunk = None
        /\ RowIds(EmptyContext) = {}
    BY EmptyOwned
  <2>3. DOMAIN EmptyContext.rows = {}
    BY <2>2
  <2>. QED  BY <2>1, <2>2, <2>3
<1>8. TypeOK'
  <2>1. ctx'.paused \in 0 .. Len(ctx'.rows)
    BY <1>7
  <2>2. /\ ctx'.free \in Seq(Blocks) /\ ctx'.rows \in Seq(RowType)
        /\ ctx'.chunk \in Requests \cup {None}
    BY <1>7, ContextFields
  <2>. QED  BY <1>1, <1>2, <1>5, <1>6, <2>1, <2>2, EmptyLists DEF TypeOK, Phases
<1>9. Fresh' /\ SuspendsGood'
  BY <1>1, <1>2, <1>5, <1>7 DEF Fresh, SuspendsGood
<1>10. Serving(ctx, requests, waiting)'
  <2>1. RowsGood(ctx', requests') /\ ChunkGood(ctx', requests', waiting')
    BY <1>7 DEF RowsGood, ChunkGood
  <2>2. QueueGood(ctx', requests', waiting')
    <3>. SUFFICES ASSUME NEW x \in ToSet(waiting')
                  PROVE  Queued(requests[x]) /\ ~(requests[x].prefilled > 0)
      BY <1>1, <1>6, <1>7 DEF QueueGood
    <3>1. Queued(requests[x]) /\ requests[x].prefilled = 0
      BY <1>3, <1>6
    <3>. QED  BY <3>1
  <2>3. AllHeldBy(ctx', requests', waiting', failed')
    BY <1>1, <1>3, <1>6 DEF AllHeldBy
  <2>4. Injective(failed') /\ ToSet(failed') = {}
    BY <1>5, EmptyLists
  <2>. QED  BY <1>1, <1>7, <2>1, <2>2, <2>3, <2>4, ServingNext
<1>. QED  BY <1>1, <1>7, <1>8, <1>9, <1>10 DEF IInv

\* Every step keeps the invariant.
LEMMA NextKeeps ==
  ASSUME SuspensionsAreOrdinary, IInv, [Next]_vars
  PROVE  IInv'
<1>1. CASE UNCHANGED vars
  <2>1. UNCHANGED << setup, ctx, requests, waiting, failed, stopped, resuming, phase, suspends >>
    BY <1>1 DEF vars
  <2>2. TypeOK' /\ ctx' \in ContextType /\ Fresh' /\ SuspendsGood'
    BY <2>1, TypesOf DEF TypeOK, Fresh, SuspendsGood
  <2>3. ASSUME phase # "suspended" PROVE Serving(ctx, requests, waiting)'
    <3>1. Serving(ctx, requests, waiting)
      BY <2>3, TypesOf
    <3>2. AllHeldBy(ctx', requests', waiting', failed')
      BY <2>1, <3>1 DEF Serving, AllHeld, AllHeldBy
    <3>. QED  BY <2>1, <3>1, <3>2, ServingNext DEF Serving, FailedGood
  <2>4. ASSUME phase = "suspended" PROVE Suspended'
    BY <2>1, <2>4, TypesOf DEF Suspended, Queued, Lasting
  <2>. QED  BY <2>1, <2>2, <2>3, <2>4 DEF IInv
<1>2. ASSUME NEW r \in Requests, Submit(r) PROVE IInv'
  BY <1>2, SubmitKeeps
<1>3. CASE Forward
  BY <1>3, ForwardKeeps
<1>4. CASE Sleep
  BY <1>4, SleepKeeps
<1>5. CASE FinishStep
  <2>1. PICK eod, hit : Bookkeep(eod, hit)
    BY <1>5 DEF FinishStep
  <2>. QED  BY <2>1, BookkeepKeeps
<1>6. CASE Suspend
  BY <1>6, SuspendKeeps
<1>7. CASE ResumeEngine
  BY <1>7, ResumeEngineKeeps
<1>. QED  BY <1>1, <1>2, <1>3, <1>4, <1>5, <1>6, <1>7 DEF Next

\* The invariant is inductive.
THEOREM InferenceInvariant == SuspensionsAreOrdinary => (Spec => []IInv)
<1>. SUFFICES ASSUME SuspensionsAreOrdinary PROVE Spec => []IInv
  OBVIOUS
<1>1. Init => IInv
  BY InitIInv
<1>2. IInv /\ [Next]_vars => IInv'
  BY NextKeeps
<1>. QED  BY <1>1, <1>2, PTL DEF Spec

-----------------------------------------------------------------------------
(* What the invariant says                                                 *)

\* The stack and the blocks of the rows, one after the other, are the blocks.
LEMMA OwnedOnce ==
  ASSUME NEW c \in ContextType, Owned(c)
  PROVE  LET all == c.free \o BlocksOf(c.rows)
         IN  Injective(all) /\ ToSet(all) = Blocks
<1>. DEFINE F   == c.free
            u   == BlocksOf(c.rows)
            all == F \o u
<1>1. F \in Seq(Blocks) /\ c.rows \in Seq(RowType)
  BY ContextFields
<1>2. /\ u \in Seq(Blocks) /\ Injective(u)
      /\ \A b : b \in ToSet(u) <=> \E i \in DOMAIN c.rows : b \in ToSet(c.rows[i].blocks)
  BY <1>1, BlocksOfLists DEF Owned, RowsOwned
<1>3. Injective(F) /\ ToSet(F) \cap ToSet(u) = {}
  BY <1>2 DEF Owned, FreeOwned
<1>4. \A b \in Blocks : b \in ToSet(F) \/ b \in ToSet(u)
  BY <1>2 DEF Owned, AllOwned
<1>. HIDE DEF F, u
<1>5. /\ all \in Seq(Blocks) /\ Injective(all)
      /\ \A b : b \in ToSet(all) <=> b \in ToSet(F) \/ b \in ToSet(u)
  BY <1>1, <1>2, <1>3, ConcatLists
<1>6. ToSet(all) \subseteq Blocks
  BY <1>5 DEF ToSet
<1>7. ToSet(all) = Blocks
  BY <1>4, <1>5, <1>6
<1>. QED  BY <1>5, <1>7 DEF all, F, u

\* A row whose last token is in its slot has as many blocks as its tokens need.
LEMMA RoomForTokens ==
  ASSUME NEW w \in RowType, InItsSlot(w)
  PROVE  Len(w.blocks) = BlocksFor(w.offset + w.query)
<1>. DEFINE n == w.offset + w.query
            k == Len(w.blocks)
<1>1. /\ n \in Nat /\ k \in Nat /\ w.last \in 0 .. BlockSize - 1 /\ BlockSize \in Nat
      /\ w.offset \in Nat /\ w.query \in Nat
  BY RowFields, ContextAssumption
<1>2. w.offset + w.query - 1 = (k - 1) * BlockSize + w.last
  BY Zenon DEF InItsSlot
<1>. HIDE DEF k
<1>3. (k - 1) * BlockSize \in Int /\ w.last \in Int
  BY <1>1
<1>4. n = (k - 1) * BlockSize + w.last + 1
  <2>1. \A a, b, x, y \in Int : a + b - 1 = x + y => a + b = x + y + 1
    OBVIOUS
  <2>. QED  BY <1>1, <1>2, <1>3, <2>1
<1>. HIDE DEF n
<1>5. BlocksFor(n) = k
  BY <1>1, <1>4, BlocksForSlot
<1>. QED  BY <1>5 DEF n, k

\* What the invariant says of the rows.
LEMMA InvariantRows ==
  ASSUME IInv, phase # "suspended", NEW i \in DOMAIN ctx.rows, ctx.rows[i].id # ctx.chunk
  PROVE  LET w == ctx.rows[i]
             q == requests[w.id]
         IN  /\ q.state = "held"
             /\ w.out = q.prompt + q.budget
             /\ w.offset + w.query = q.prompt + q.generated - (IF i <= ctx.paused THEN 1 ELSE 0)
             /\ Len(w.blocks) = BlocksFor(w.offset + w.query)
             /\ InItsSlot(w)
<1>1. Serving(ctx, requests, waiting) /\ ctx \in ContextType
  BY TypesOf
<1>2. ctx.rows[i] \in RowType
  BY <1>1, ContextRows
<1>3. /\ Paired(ctx.rows[i], requests[ctx.rows[i].id], IF i <= ctx.paused THEN 1 ELSE 0)
      /\ InItsSlot(ctx.rows[i])
  BY <1>1 DEF Serving, RowsGood
<1>. QED  BY <1>2, <1>3, RoomForTokens DEF Paired

\* The variables have their types: in particular no count of tokens becomes
\* negative and the slot of a token is always inside its block.
THEOREM TypeCorrect == SuspensionsAreOrdinary => (Spec => []TypeOK)
<1>1. IInv => TypeOK
  BY DEF IInv
<1>. QED  BY <1>1, InferenceInvariant, PTL

\* Every block of the cache is free or belongs to one row, once, whatever
\* update_requests, the scheduler and suspensions do with the rows.
THEOREM BlocksAreOwnedOnce == SuspensionsAreOrdinary => (Spec => []BlocksOwnedOnce)
<1>1. IInv => BlocksOwnedOnce
  <2>. SUFFICES ASSUME IInv, phase # "suspended"
                PROVE  LET all == ctx.free \o BlocksOf(ctx.rows)
                       IN  IsInjective(all) /\ ToSet(all) = Blocks
    BY DEF BlocksOwnedOnce
  <2>1. ctx \in ContextType /\ Owned(ctx)
    BY TypesOf DEF Serving
  <2>. QED  BY <2>1, OwnedOnce DEF Injective, IsInjective
<1>. QED  BY <1>1, InferenceInvariant, PTL

\* The rows know as many tokens as their requests and have the blocks for them,
\* through all the moves of update_requests and all checkpoints.
THEOREM RowsAlwaysMatchRequests == SuspensionsAreOrdinary => (Spec => []RowsMatchRequests)
<1>1. IInv => RowsMatchRequests
  BY InvariantRows DEF RowsMatchRequests
<1>. QED  BY <1>1, InferenceInvariant, PTL

\* A forward pass writes the last token of every request that generates to the
\* slot of its position.
THEOREM TokensAlwaysInTheirSlots == SuspensionsAreOrdinary => (Spec => []TokensInTheirSlots)
<1>1. IInv => TokensInTheirSlots
  <2>. SUFFICES ASSUME IInv, phase = "forward", NEW i \in ctx.paused + 1 .. Len(ctx.rows),
                       ctx.rows[i].id # ctx.chunk
                PROVE  InItsSlot(ctx.rows[i])
    BY DEF TokensInTheirSlots
  <2>1. i \in DOMAIN ctx.rows
    BY TypesOf, ContextRows
  <2>. QED  BY <2>1, InvariantRows
<1>. QED  BY <1>1, InferenceInvariant, PTL

-----------------------------------------------------------------------------
(* Some row can always go on                                               *)

\* c in the middle of update_requests when every one of its rows is paused.
Stalled(c, reqs, k) == Between(c, reqs, k) /\ c.paused = Len(c.rows) /\ c.paused > 0

\* The blocks of a paused row, and one more, fit in the active part of the memory.
LEMMA StalledRow ==
  ASSUME MemoryHoldsARequest, NEW c, NEW reqs \in [Requests -> RequestType], NEW k, Stalled(c, reqs, k),
         NEW i \in DOMAIN c.rows
  PROVE  /\ c.rows[i].blocks \in Seq(Blocks)
         /\ Len(c.rows[i].blocks) > 0 /\ Len(c.rows[i].blocks) + 1 <= ActiveBlocks
<1>. DEFINE w == c.rows[i]
            q == reqs[w.id]
            L == Len(w.blocks)
            B == BlockSize
<1>1. /\ c \in ContextType /\ c.paused = Len(c.rows) /\ DistinctRows(c) /\ ChunkRow(c, k) /\ Halfway(c, reqs)
  BY DEF Stalled, Between
<1>2. w \in RowType /\ i \in Nat /\ i <= c.paused /\ c.paused \in Nat
  BY <1>1, ContextRows
<1>3. w.id # c.chunk
  BY <1>1, <1>2, PausedIsWhole
<1>4. Paired(w, q, 1) /\ InItsSlot(w) /\ w.last = B - 1
  BY <1>1, <1>2, <1>3 DEF Halfway
<1>5. /\ w.offset \in Nat /\ w.query \in Nat /\ w.out \in Nat /\ w.id \in Requests /\ w.blocks \in Seq(Blocks)
      /\ L \in Nat /\ B \in Nat /\ B > 0
  BY <1>2, RowFields, ContextAssumption
<1>6. q \in RequestType /\ q.prompt \in Nat /\ q.budget \in Int
  BY <1>5 DEF RequestType
<1>. DEFINE n == w.offset + w.query
<1>7. n \in Nat /\ n > 0 /\ n + 1 < w.out /\ w.out = q.prompt + q.budget /\ q.prompt + q.budget <= MaxSequence
  BY <1>4, <1>5 DEF Paired, Lasting
<1>8. n = (L - 1) * B + w.last + 1
  <2>1. w.offset + w.query - 1 = (L - 1) * B + w.last
    BY <1>4, Zenon DEF InItsSlot
  <2>2. (L - 1) * B \in Int /\ w.last \in Int
    BY <1>2, <1>5, RowFields
  <2>3. \A a, b, x, y \in Int : a + b - 1 = x + y => a + b = x + y + 1
    OBVIOUS
  <2>. DEFINE a == w.offset
              b == w.query
              x == (L - 1) * B
              y == w.last
  <2>4. a \in Int /\ b \in Int /\ x \in Int /\ y \in Int /\ a + b - 1 = x + y
    BY <1>5, <2>1, <2>2
  <2>. HIDE DEF a, b, x, y
  <2>5. a + b = x + y + 1
    BY <2>3, <2>4
  <2>. QED  BY <2>5 DEF a, b, x, y
<1>. HIDE DEF n, w, q, L, B
<1>9. n = L * B
  <2>1. n = (L - 1) * B + (B - 1) + 1
    BY <1>4, <1>8
  <2>2. \A x, y \in Int : (x - 1) * y + (y - 1) + 1 = x * y
    OBVIOUS
  <2>. QED  BY <1>5, <2>1, <2>2
<1>10. L > 0
  BY <1>5, <1>7, <1>9
<1>11. MaxSequence \in Nat /\ n + 1 <= MaxSequence
  BY <1>6, <1>7, InferenceAssumption
<1>12. BlocksFor(n + 1) = L + 1
  <2>1. 0 \in 0 .. B - 1 /\ L + 1 \in Nat /\ n + 1 \in Nat
    BY <1>5, <1>7
  <2>2. n + 1 = ((L + 1) - 1) * B + 0 + 1
    BY <1>5, <1>9
  <2>. QED  BY <2>1, <2>2, BlocksForSlot DEF B
<1>13. BlocksFor(n + 1) <= BlocksFor(MaxSequence) /\ BlocksFor(MaxSequence) \in Nat
  BY <1>7, <1>11, BlocksForRises
<1>14. L + 1 <= ActiveBlocks
  BY <1>5, <1>12, <1>13, ContextAssumption DEF MemoryHoldsARequest
<1>. QED  BY <1>5, <1>10, <1>14 DEF w, L

\* When there is a free block, the right-most paused row goes on.
LEMMA StalledResumes ==
  ASSUME MemoryHoldsARequest, NEW c, NEW reqs \in [Requests -> RequestType], NEW k, Stalled(c, reqs, k),
         Len(c.free) > 0
  PROVE  Resumable(c) >= 1
<1>. DEFINE P == c.paused
            Fits(m) == Len(BlocksOf(SubSeq(c.rows, P - m + 1, P))) + m <= ActiveAvail(c)
            S == { m \in 1 .. P : Fits(m) }
            n == Cardinality(S)
            last == SubSeq(c.rows, P, P)
<1>1. /\ c \in ContextType /\ P = Len(c.rows) /\ P > 0
  BY DEF Stalled, Between
<1>2. P \in Nat /\ P \in DOMAIN c.rows /\ Len(c.free) \in Nat
  BY <1>1, ContextRows, ContextFields
<1>3. Resumable(c) = IF n <= Len(c.free) THEN n ELSE Len(c.free)
  BY DEF Resumable
<1>4. last \in Seq(RowType) /\ Len(last) = 1 /\ last[1] = c.rows[P]
  <2>1. P \in Nat \ {0} /\ P <= Len(c.rows) /\ P - P + 1 = 1 /\ P + 1 - 1 = P /\ 1 \in 1 .. 1
    BY <1>1, <1>2
  <2>2. /\ SubSeq(c.rows, P, P) \in Seq(RowType)
        /\ Len(SubSeq(c.rows, P, P)) = (IF P <= P THEN P - P + 1 ELSE 0)
        /\ \A j \in 1 .. P - P + 1 : SubSeq(c.rows, P, P)[j] = c.rows[P + j - 1]
    <3>. HIDE DEF P
    <3>. QED  BY <1>1, <1>2, <2>1, RowsBetween
  <2>3. Len(last) = 1
    BY <1>2, <2>1, <2>2
  <2>4. last[1] = c.rows[P]
    BY <2>1, <2>2
  <2>. QED  BY <2>2, <2>3, <2>4
<1>5. BlocksOf(last) = c.rows[P].blocks
  BY <1>4, BlocksOfLists
<1>6. ActiveAvail(c) = ActiveBlocks
  <2>1. ActiveRows(c) \in Seq(RowType) /\ Len(ActiveRows(c)) = 0
    BY <1>1, <1>2, RowParts
  <2>2. ActiveRows(c) = << >>
    BY <2>1
  <2>3. Len(BlocksOf(ActiveRows(c))) = 0
    BY <2>2, BlocksOfNone
  <2>. QED  BY <2>3, ContextAssumption DEF ActiveAvail
<1>7. Len(c.rows[P].blocks) + 1 <= ActiveBlocks
  BY <1>2, StalledRow
<1>8. Fits(1)
  <2>1. P - 1 + 1 = P
    BY <1>2
  <2>2. SubSeq(c.rows, P - 1 + 1, P) = last
    BY <2>1
  <2>. QED  BY <1>5, <1>6, <1>7, <2>2
<1>9. 1 \in S
  BY <1>1, <1>2, <1>8
<1>10. S \subseteq 1 .. P
  OBVIOUS
<1>. HIDE DEF S, n
<1>11. IsFiniteSet(1 .. P)
  BY <1>2, FS_Interval
<1>12. IsFiniteSet(S)
  BY <1>10, <1>11, FS_Subset
<1>13. n \in Nat /\ n # 0
  BY <1>9, <1>12, FS_CardinalityType, FS_EmptySet DEF n
<1>. QED  BY <1>2, <1>3, <1>13

\* When there is none, the rows have all the blocks.
LEMMA RowsHaveAll ==
  ASSUME NEW c \in ContextType, Owned(c), Len(c.free) = 0
  PROVE  Len(BlocksOf(c.rows)) >= ActiveBlocks + PausedBlocks
<1>. DEFINE u == BlocksOf(c.rows)
            m == Len(u)
            N == ActiveBlocks + PausedBlocks
<1>1. N \in Nat /\ N > 0
  BY ContextAssumption
<1>2. Blocks = 0 .. N - 1 /\ Cardinality(Blocks) = N
  <2>1. Blocks = 0 .. N - 1
    BY ContextAssumption DEF Blocks
  <2>2. Cardinality(0 .. N - 1) = N
    <3>1. 0 \in Int /\ N - 1 \in Int
      BY <1>1
    <3>2. Cardinality(0 .. N - 1) = IF 0 > N - 1 THEN 0 ELSE (N - 1) - 0 + 1
      BY <3>1, FS_Interval
    <3>. QED  BY <1>1, <3>2
  <2>. QED  BY <2>1, <2>2
<1>3. /\ c.free \in Seq(Blocks) /\ c.rows \in Seq(RowType)
  BY ContextFields
<1>4. ToSet(c.free) = {}
  <2>1. c.free = << >>
    BY <1>3
  <2>. QED  BY <2>1, EmptyLists
<1>5. /\ u \in Seq(Blocks)
      /\ \A b : b \in ToSet(u) <=> \E i \in DOMAIN c.rows : b \in ToSet(c.rows[i].blocks)
  BY <1>3, BlocksOfLists
<1>6. \A b \in Blocks : b \in ToSet(u)
  BY <1>4, <1>5 DEF Owned, AllOwned
<1>. HIDE DEF u, N
<1>7. m \in Nat /\ u \in [1 .. m -> Blocks] /\ DOMAIN u = 1 .. m
  BY <1>5
<1>8. \A b \in Blocks : \E i \in 1 .. m : u[i] = b
  BY <1>6, <1>7 DEF ToSet
<1>9. u \in Surjection(1 .. m, Blocks)
  BY <1>7, <1>8 DEF Surjection
<1>. HIDE DEF m
<1>10. IsFiniteSet(1 .. m) /\ Cardinality(1 .. m) = m
  <2>1. IsFiniteSet(1 .. m) /\ Cardinality(1 .. m) = IF 1 > m THEN 0 ELSE m - 1 + 1
    BY <1>7, FS_Interval
  <2>. QED  BY <1>7, <2>1
<1>11. Cardinality(Blocks) <= m
  BY <1>9, <1>10, FS_Surjection
<1>. QED  BY <1>1, <1>2, <1>7, <1>11 DEF u, N, m

\* When no block is free, some paused rows, but not all, are evicted.
LEMMA StalledEvicts ==
  ASSUME MemoryHoldsARequest, NEW c, NEW reqs \in [Requests -> RequestType], NEW k, Stalled(c, reqs, k),
         Len(c.free) = 0
  PROVE  Evicted(c) > 0 /\ Evicted(c) < c.paused /\ Len(Evict(c).free) > 0
<1>. DEFINE P == c.paused
            n == Evicted(c)
            u == BlocksOf(c.rows)
<1>1. c \in ContextType /\ P = Len(c.rows) /\ P > 0 /\ P <= Len(c.rows) /\ Owned(c)
  <2>1. P \in Nat /\ P = Len(c.rows)
    BY ContextRows DEF Stalled, Between
  <2>. QED  BY <2>1 DEF Stalled, Between
<1>2. /\ c.rows \in Seq(RowType) /\ P \in Nat /\ DOMAIN c.rows = 1 .. P /\ c.free \in Seq(Blocks)
      /\ ActiveBlocks \in Nat /\ ActiveBlocks > 0 /\ PausedBlocks \in Nat
  BY <1>1, ContextRows, ContextFields, ContextAssumption
<1>3. Len(u) >= ActiveBlocks + PausedBlocks /\ Len(u) \in Nat
  BY <1>1, <1>2, RowsHaveAll, BlocksOfLists
<1>4. /\ n \in Nat /\ n <= P
      /\ n = 0 => PausedOverflow(c) <= 0
      /\ n = P /\ P > 1 => Len(BlocksOf(SubSeq(c.rows, 2, P))) < 1
  BY <1>1, EvictedBounds
<1>5. PausedOverflow(c) > 0
  <2>1. PausedRows(c) = c.rows
    BY <1>1, <1>2 DEF PausedRows
  <2>2. PausedOverflow(c) = Len(u) - PausedBlocks
    BY <2>1 DEF PausedOverflow
  <2>. HIDE DEF u
  <2>. QED  BY <1>2, <1>3, <2>2
<1>6. n > 0
  BY <1>2, <1>4, <1>5 DEF PausedOverflow
<1>7. P # 1
  <2>. SUFFICES ASSUME P = 1 PROVE FALSE
    OBVIOUS
  <2>1. u = c.rows[1].blocks
    BY <1>1, <1>2, BlocksOfLists
  <2>2. Len(c.rows[1].blocks) + 1 <= ActiveBlocks
    <3>1. 1 \in DOMAIN c.rows
      BY <1>2
    <3>. QED  BY <3>1, StalledRow
  <2>3. Len(u) + 1 <= ActiveBlocks
    BY <2>1, <2>2
  <2>. HIDE DEF u
  <2>. QED  BY <1>2, <1>3, <2>3
<1>. HIDE DEF n
<1>8. \A i \in 1 .. P : Len(BlocksOf(SubSeq(c.rows, i, P))) >= 1
  <2>. SUFFICES ASSUME NEW i \in 1 .. P PROVE Len(BlocksOf(SubSeq(c.rows, i, P))) >= 1
    OBVIOUS
  <2>. DEFINE t == SubSeq(c.rows, i, P)
  <2>1. i \in Nat \ {0} /\ P <= Len(c.rows) /\ i <= P /\ 1 \in 1 .. P - i + 1 /\ i + 1 - 1 = i
    BY <1>1, <1>2
  <2>2. /\ t \in Seq(RowType) /\ Len(t) = P - i + 1 /\ t[1] = c.rows[i] /\ Len(BlocksOf(t)) \in Nat
    <3>. HIDE DEF P
    <3>. QED  BY <1>1, <1>2, <2>1, RowsBetween
  <2>. HIDE DEF t
  <2>3. 1 \in DOMAIN t
    BY <2>1, <2>2
  <2>4. Len(t[1].blocks) <= Len(BlocksOf(t))
    BY <2>2, <2>3, BlocksOfLists
  <2>5. c.rows[i].blocks \in Seq(Blocks) /\ Len(c.rows[i].blocks) > 0
    BY <1>2, StalledRow
  <2>6. Len(c.rows[i].blocks) \in Nat
    BY <2>5
  <2>7. Len(BlocksOf(t)) >= 1
    BY <2>2, <2>4, <2>5, <2>6
  <2>. QED  BY <2>7 DEF t
<1>9. n < P
  <2>1. P > 1 /\ 2 \in 1 .. P
    <3>1. P \in Nat /\ P > 0 /\ P # 1
      BY <1>1, <1>2, <1>7
    <3>. HIDE DEF P
    <3>. QED  BY <3>1
  <2>2. Len(BlocksOf(SubSeq(c.rows, 2, P))) >= 1
    BY <1>8, <2>1
  <2>3. Len(BlocksOf(SubSeq(c.rows, 2, P))) \in Nat
    <3>1. 2 \in Nat \ {0}
      OBVIOUS
    <3>. HIDE DEF P
    <3>. QED  BY <1>1, <1>2, <3>1, RowsBetween
  <2>4. ~(Len(BlocksOf(SubSeq(c.rows, 2, P))) < 1)
    BY <2>2, <2>3
  <2>. QED  BY <1>2, <1>4, <2>1, <2>4
<1>10. Len(Evict(c).free) > 0
  <2>. DEFINE v == BlocksOf(SubSeq(c.rows, P - n + 1, P))
  <2>1. Evict(c).free = c.free \o v
    <3>1. Evict(c).paused = c.paused - n /\ Evict(c).free = c.free \o BlocksOf(SubSeq(c.rows, Evict(c).paused + 1, c.paused))
      BY <1>1, EvictKeeps DEF n
    <3>. QED  BY <3>1
  <2>2. P - n + 1 \in 1 .. P
    BY <1>2, <1>4, <1>6
  <2>3. Len(v) >= 1
    BY <1>8, <2>2
  <2>4. v \in Seq(Blocks)
    <3>. DEFINE i == P - n + 1
    <3>1. i \in Nat \ {0} /\ P <= Len(c.rows)
      BY <1>1, <1>2, <2>2
    <3>2. SubSeq(c.rows, i, P) \in Seq(RowType)
      <4>. HIDE DEF i, P
      <4>. QED  BY <1>1, <1>2, <3>1, RowsBetween
    <3>. QED  BY <3>2, BlocksOfLists
  <2>. HIDE DEF v
  <2>5. Len(c.free \o v) = Len(c.free) + Len(v)
    BY <1>2, <2>4
  <2>. QED  BY <2>1, <2>3, <2>4, <2>5
<1>. QED  BY <1>6, <1>9, <1>10 DEF n

\* The request of some row is not finished.
LEMMA SomeSurvives ==
  ASSUME NEW c, NEW done, NEW reqs, NEW k, Updatable(c, done, reqs, k), ~AllDone(c, done),
         c.paused < Len(c.rows)
  PROVE  RowIds(c) \ Over(c, done) # {}
<1>. DEFINE a == ActiveRows(c)
<1>1. c \in ContextType /\ done \subseteq DOMAIN a /\ DistinctRows(c) /\ c.paused <= Len(c.rows)
  BY DEF Updatable
<1>2. /\ c.paused \in Nat /\ Len(c.rows) \in Nat /\ DOMAIN c.rows = 1 .. Len(c.rows)
      /\ DOMAIN a = 1 .. Len(c.rows) - c.paused
      /\ \A i \in DOMAIN a : a[i] = c.rows[c.paused + i] /\ c.paused + i \in DOMAIN c.rows
  BY <1>1, ContextRows, RowParts
<1>. HIDE DEF a
<1>3. PICK x \in DOMAIN c.rows : \A j \in done : c.paused + j # x
  <2>1. CASE c.paused > 0
    <3>1. 1 \in DOMAIN c.rows /\ \A j \in done : c.paused + j # 1
      BY <1>1, <1>2, <2>1
    <3>. QED  BY <3>1
  <2>2. CASE c.paused = 0
    <3>1. done # DOMAIN c.rows /\ done \subseteq DOMAIN c.rows
      BY <1>1, <1>2, <2>2 DEF AllDone
    <3>2. PICK y \in DOMAIN c.rows : y \notin done
      BY <3>1
    <3>3. \A j \in done : c.paused + j # y
      BY <1>1, <1>2, <2>2, <3>2
    <3>. QED  BY <3>3
  <2>. QED  BY <1>2, <2>1, <2>2
<1>4. c.rows[x].id \notin Over(c, done)
  <2>. SUFFICES ASSUME NEW j \in done, a[j].id = c.rows[x].id PROVE FALSE
    BY DEF Over, a
  <2>1. a[j] = c.rows[c.paused + j] /\ c.paused + j \in DOMAIN c.rows
    BY <1>1, <1>2
  <2>2. c.paused + j = x
    BY <1>1, <2>1 DEF DistinctRows
  <2>. QED  BY <1>3, <2>2
<1>5. c.rows[x].id \in RowIds(c)
  BY DEF RowIds
<1>. QED  BY <1>4, <1>5

\* update_requests never fails: when not all requests are finished, some row is
\* active after it.
LEMMA UpdateGoesOn ==
  ASSUME MemoryHoldsARequest, NEW c, NEW done, NEW reqs, NEW k, Updatable(c, done, reqs, k),
         c.paused < Len(c.rows)
  PROVE  UpdateRequests(c, done).ok
<1>. SUFFICES ASSUME ~AllDone(c, done) PROVE Final(c, done).paused < Len(Final(c, done).rows)
  BY UpdateKeeps
<1>. DEFINE s == Sorted(c, done)
            r == Resume(s)
            e == Evict(r)
            f == Final(c, done)
<1>1. /\ Between(s, reqs, k) /\ Between(r, reqs, k) /\ Between(e, reqs, k) /\ Between(f, reqs, k)
      /\ RowIds(r) = RowIds(c) \ Over(c, done)
  BY UpdateStages
<1>2. reqs \in [Requests -> RequestType]
  BY DEF Updatable
<1>3. f = Resume(e)
  BY DEF Final
<1>. HIDE DEF s, e, f
<1>4. /\ s \in ContextType /\ s.paused <= Len(s.rows) /\ s.paused \in Nat /\ Len(s.rows) \in Nat
      /\ r \in ContextType /\ r.paused <= Len(r.rows) /\ r.paused \in Nat /\ Len(r.rows) \in Nat
      /\ e \in ContextType /\ e.paused <= Len(e.rows) /\ e.paused \in Nat /\ Len(e.rows) \in Nat
      /\ Len(s.free) \in Nat
  BY <1>1, ContextRows, ContextFields DEF Between
<1>5. /\ r.paused = s.paused - Resumable(s) /\ Len(r.rows) = Len(s.rows) /\ Len(r.free) = Len(s.free) - Resumable(s)
      /\ Resumable(s) \in Nat
  BY <1>4, ResumeKeeps, ResumableBounds
<1>. HIDE DEF r
<1>6. /\ e.paused = r.paused - Evicted(r) /\ Len(e.rows) = Len(r.rows) - Evicted(r)
      /\ Evicted(r) \in Nat /\ Evicted(r) <= r.paused
  BY <1>4, EvictKeeps, EvictedBounds DEF e
<1>7. /\ f.paused = e.paused - Resumable(e) /\ Len(f.rows) = Len(e.rows)
      /\ Resumable(e) \in Nat
  BY <1>3, <1>4, ResumeKeeps, ResumableBounds
<1>8. CASE r.paused < Len(r.rows)
  BY <1>4, <1>6, <1>7, <1>8 DEF f
<1>9. CASE r.paused = Len(r.rows)
  <2>1. Len(r.rows) > 0
    <3>1. RowIds(r) # {}
      BY <1>1, SomeSurvives
    <3>2. DOMAIN r.rows = 1 .. Len(r.rows)
      BY <1>4, ContextRows
    <3>3. DOMAIN r.rows # {}
      BY <3>1 DEF RowIds
    <3>. QED  BY <1>4, <3>2, <3>3
  <2>2. Resumable(s) = 0 /\ s.paused = Len(s.rows) /\ s.paused > 0
    BY <1>4, <1>5, <1>9, <2>1
  <2>3. Stalled(s, reqs, k)
    BY <1>1, <2>2 DEF Stalled
  <2>4. ~(Len(s.free) > 0)
    <3>1. ~(Resumable(s) >= 1)
      BY <2>2
    <3>. QED  BY <1>2, <2>3, <3>1, StalledResumes
  <2>5. Len(r.free) = 0
    BY <1>4, <1>5, <2>2, <2>4
  <2>6. r.paused > 0 /\ Stalled(r, reqs, k)
    BY <1>1, <1>9, <2>1 DEF Stalled
  <2>7. Evicted(r) > 0 /\ Evicted(r) < r.paused /\ Len(e.free) > 0
    BY <1>2, <2>5, <2>6, StalledEvicts DEF e
  <2>8. e.paused = Len(e.rows) /\ e.paused > 0
    BY <1>4, <1>6, <1>9, <2>7
  <2>9. Stalled(e, reqs, k)
    BY <1>1, <2>8 DEF Stalled
  <2>10. Resumable(e) >= 1
    BY <1>2, <2>7, <2>9, StalledResumes
  <2>. QED  BY <1>4, <1>7, <2>8, <2>10 DEF f
<1>. QED  BY <1>4, <1>8, <1>9

\* No step breaks the engine.
LEMMA StepGoesOn ==
  ASSUME SuspensionsAreOrdinary, MemoryHoldsARequest, IInv, phase # "broken", [Next]_vars
  PROVE  phase' # "broken"
<1>1. CASE UNCHANGED vars
  BY <1>1 DEF vars
<1>2. ASSUME NEW r \in Requests, Submit(r) PROVE phase' # "broken"
  BY <1>2 DEF Submit
<1>3. CASE Forward
  BY <1>3, ForwardKeeps
<1>4. CASE Sleep
  BY <1>4 DEF Sleep
<1>5. CASE FinishStep
  <2>1. PICK eod, hit : Bookkeep(eod, hit)
    BY <1>5 DEF FinishStep
  <2>2. phase = "forward"
    BY <2>1 DEF Bookkeep
  <2>3. phase' = "ready" \/ (ActiveRows(ctx) # << >> /\ ~UpdateRequests(ctx, DoneOf(eod)).ok)
    BY <2>1, BookkeepKeeps
  <2>4. ASSUME ActiveRows(ctx) # << >> PROVE UpdateRequests(ctx, DoneOf(eod)).ok
    <3>1. ctx \in ContextType /\ ctx.paused <= Len(ctx.rows) /\ ctx.paused \in Nat /\ Len(ctx.rows) \in Nat
      BY TypesOf
    <3>2. ActiveRows(ctx) \in Seq(RowType) /\ Len(ActiveRows(ctx)) = Len(ctx.rows) - ctx.paused
      BY <3>1, RowParts
    <3>3. Len(ActiveRows(ctx)) # 0
      BY <2>4, <3>2
    <3>4. ctx.paused < Len(ctx.rows)
      BY <3>1, <3>2, <3>3
    <3>5. Updatable(ctx, DoneOf(eod), Grown(requests, GrownIds), ChunkBlocks)
      BY <2>2, StepUpdatable
    <3>. QED  BY <3>4, <3>5, UpdateGoesOn
  <2>. QED  BY <2>3, <2>4
<1>6. CASE Suspend
  BY <1>6 DEF Suspend
<1>7. CASE ResumeEngine
  BY <1>7 DEF ResumeEngine
<1>. QED  BY <1>1, <1>2, <1>3, <1>4, <1>5, <1>6, <1>7 DEF Next

\* No assertion of the scheduler, of resume_paused_requests or of
\* update_requests ever fails and no request is answered twice: whatever is
\* generated, paused and evicted, there is a row that can go on.
THEOREM EngineAlwaysGoesOn ==
  SuspensionsAreOrdinary /\ MemoryHoldsARequest => (Spec => []EngineGoesOn)
<1>. SUFFICES ASSUME SuspensionsAreOrdinary, MemoryHoldsARequest PROVE Spec => []EngineGoesOn
  OBVIOUS
<1>1. Init => IInv /\ phase # "broken"
  BY InitIInv DEF Init
<1>2. (IInv /\ phase # "broken") /\ [Next]_vars => (IInv /\ phase # "broken")'
  BY NextKeeps, StepGoesOn
<1>3. IInv /\ phase # "broken" => EngineGoesOn
  BY DEF EngineGoesOn
<1>. QED  BY <1>1, <1>2, <1>3, PTL DEF Spec

-----------------------------------------------------------------------------
(* Stop words                                                              *)

\* Without stop words nothing is marked.
Unmarked == ~setup.stops => stopped = {}

\* In a step that ends, a request that is no longer marked is answered.
LEMMA StepKeepsStops ==
  ASSUME StopsWithoutChunks, IInv, NEW eod, NEW hit, Bookkeep(eod, hit), NEW r \in stopped, Unmarked
  PROVE  r \in stopped' \/ requests'[r].state = "answered"
<1>. DEFINE done  == DoneOf(eod)
            u     == UpdateRequests(ctx, done)
            over  == Over(ctx, done)
            ended == over \cup ToSet(failed)
            reqs  == Grown(requests, GrownIds)
<1>1. /\ phase = "forward"
      /\ \/ stopped' = stopped
         \/ stopped' = StopsLeft(Ending) \cup hit /\ requests' = Settled(reqs, ended, ToSet(u.evicted))
  BY BookkeepIs DEF BookkeepDone
<1>2. CASE stopped' = stopped
  BY <1>2
<1>3. CASE r \notin Ending /\ stopped' = StopsLeft(Ending) \cup hit
  BY <1>3 DEF StopsLeft
<1>4. CASE r \in Ending /\ requests' = Settled(reqs, ended, ToSet(u.evicted))
  <2>1. /\ ctx \in ContextType /\ setup \in Setups /\ setup \in SetupType /\ Serving(ctx, requests, waiting)
        /\ requests \in [Requests -> RequestType] /\ stopped \subseteq Requests
        /\ ctx.paused <= Len(ctx.rows) /\ ctx.paused \in Nat /\ Len(ctx.rows) \in Nat
    BY <1>1, TypesOf DEF TypeOK
  <2>2. ~setup.chunked
    BY <2>1 DEF StopsWithoutChunks, Unmarked, SetupType
  <2>3. ctx.chunk = None
    BY <2>1, <2>2 DEF Serving, ChunkGood
  <2>4. /\ DOMAIN ActiveRows(ctx) = 1 .. Len(ctx.rows) - ctx.paused
        /\ \A i \in DOMAIN ActiveRows(ctx) : ActiveRows(ctx)[i] = ctx.rows[ctx.paused + i]
    BY <2>1, RowParts
  <2>5. PICK i \in ctx.paused + 1 .. Len(ctx.rows) : ctx.rows[i].id = r
    BY <1>4 DEF Ending, ActiveIds
  <2>6. i - ctx.paused \in DOMAIN ActiveRows(ctx) /\ ctx.paused + (i - ctx.paused) = i
    BY <2>1, <2>4, <2>5
  <2>7. ActiveRows(ctx)[i - ctx.paused].id = r /\ r \in Requests
    BY <2>1, <2>4, <2>5, <2>6
  <2>8. r # ctx.chunk
    BY <2>3, <2>7, InferenceAssumption
  <2>9. i - ctx.paused \in done
    BY <1>4, <2>6, <2>7, <2>8 DEF done, DoneOf, AtEnd
  <2>10. r \in ended
    BY <2>7, <2>9 DEF Over
  <2>. HIDE DEF ended, u, done, over
  <2>11. \A x \in Requests : reqs[x] \in RequestType
    BY <1>1, StepUpdatable DEF Updatable
  <2>. HIDE DEF reqs
  <2>12. requests'[r] = [reqs[r] EXCEPT !.state = "answered"]
    BY <1>4, <2>7, <2>10 DEF Settled
  <2>13. requests'[r].state = "answered"
    BY <2>7, <2>11, <2>12 DEF RequestType
  <2>. QED  BY <2>13
<1>. QED  BY <1>1, <1>2, <1>3, <1>4

\* Every step that drops a mark answers the request.
LEMMA NextKeepsStops ==
  ASSUME StopsWithoutChunks, IInv, Unmarked, Next
  PROVE  /\ Unmarked'
         /\ \A r \in stopped : r \in stopped' \/ requests'[r].state = "answered"
<1>1. ASSUME UNCHANGED << setup, stopped >>
      PROVE  /\ Unmarked'
             /\ \A r \in stopped : r \in stopped' \/ requests'[r].state = "answered"
  BY <1>1 DEF Unmarked
<1>2. ASSUME NEW r \in Requests, Submit(r) PROVE UNCHANGED << setup, stopped >>
  BY <1>2 DEF Submit
<1>3. ASSUME Forward PROVE UNCHANGED << setup, stopped >>
  BY <1>3 DEF Forward
<1>4. ASSUME Sleep PROVE UNCHANGED << setup, stopped >>
  BY <1>4 DEF Sleep
<1>5. ASSUME Suspend PROVE UNCHANGED << setup, stopped >>
  BY <1>5 DEF Suspend
<1>6. ASSUME ResumeEngine PROVE UNCHANGED << setup, stopped >>
  BY <1>6 DEF ResumeEngine
<1>7. CASE FinishStep
  <2>1. PICK eod, hit : Bookkeep(eod, hit) /\ (~setup.stops => hit = {})
    BY <1>7 DEF FinishStep
  <2>2. \A r \in stopped : r \in stopped' \/ requests'[r].state = "answered"
    BY <2>1, StepKeepsStops
  <2>3. setup' = setup /\ (stopped' = stopped \/ stopped' = StopsLeft(Ending) \cup hit)
    BY <2>1, BookkeepIs DEF BookkeepDone
  <2>4. ~setup.stops => hit = {}
    BY <2>1
  <2>5. Unmarked'
    BY <2>3, <2>4 DEF Unmarked, StopsLeft
  <2>. QED  BY <2>2, <2>5
<1>. QED  BY <1>1, <1>2, <1>3, <1>4, <1>5, <1>6, <1>7 DEF Next

\* A request whose stop word was found stays marked until it is answered,
\* through pauses, evictions and suspensions, when prompts are not filled in chunks.
THEOREM StopWordsAreKept ==
  SuspensionsAreOrdinary /\ StopsWithoutChunks => (Spec => StopsAreKept)
<1>. SUFFICES ASSUME SuspensionsAreOrdinary, StopsWithoutChunks PROVE Spec => StopsAreKept
  OBVIOUS
<1>1. Init => IInv /\ Unmarked
  BY InitIInv DEF Init, Unmarked
<1>2. (IInv /\ Unmarked) /\ [Next]_vars => (IInv /\ Unmarked)'
  <2>1. UNCHANGED vars /\ Unmarked => Unmarked'
    BY DEF vars, Unmarked
  <2>. QED  BY <2>1, NextKeeps, NextKeepsStops
<1>3. (IInv /\ Unmarked) /\ [Next]_vars => [\A r \in stopped : r \in stopped' \/ requests'[r].state = "answered"]_vars
  BY NextKeepsStops
<1>. QED  BY <1>1, <1>2, <1>3, PTL DEF Spec, StopsAreKept
=============================================================================
