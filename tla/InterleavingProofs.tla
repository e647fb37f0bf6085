------------------------- MODULE InterleavingProofs -------------------------
(***************************************************************************)
(* What PipelineWithInterleaving guarantees for every number of stages,    *)
(* chunks and microbatches, every group size and every mode of             *)
(* communication.  Three layers: the schedule table is shown to exist and  *)
(* to serve every chunk in turn (TableFacts); the place of a stage in its  *)
(* schedule says how many passes it has made (Forwarded, Backwarded), and  *)
(* each of its steps is one of four moves (Moves); the invariant Inv says  *)
(* what these passes have made of its lists, gradients and parameters.     *)
(***************************************************************************)
EXTENDS PipelineWithInterleaving, FiniteSetTheorems, NaturalsInduction, SequenceTheorems, TLAPS

-----------------------------------------------------------------------------
(* Natural numbers                                                         *)

\* A set of natural numbers has a least element.
LEMMA Least ==
  ASSUME NEW T, T \subseteq Nat, T # {}
  PROVE  \E n \in T : \A m \in T : n <= m
<1>1. IsWellFoundedOn(OpToRel(<, Nat), Nat)
  BY NatLessThanWellFounded
<1>2. PICK n \in T : \A m \in T : ~ (<<m, n>> \in OpToRel(<, Nat))
  BY <1>1, WFMin
<1>3. \A m \in T : <<m, n>> \in Nat \X Nat /\ (m < n => <<m, n>> \in OpToRel(<, Nat))
  BY DEF OpToRel
<1>4. \A m \in T : ~ (m < n)
  BY <1>2, <1>3
<1>. QED  BY <1>4

\* A set with 0 that is closed under successor has all natural numbers.
LEMMA Induction ==
  ASSUME NEW T, 0 \in T, \A n \in Nat : n \in T => n + 1 \in T
  PROVE  Nat \subseteq T
<1>1. SUFFICES ASSUME Nat \ T # {} PROVE FALSE
  OBVIOUS
<1>2. PICK n \in Nat \ T : \A m \in Nat \ T : n <= m
  BY Least, <1>1
<1>3. n # 0 /\ n - 1 \in Nat
  BY <1>2
<1>. QED  BY <1>2, <1>3

\* Multiples are ordered as their factors.
LEMMA Products ==
  ASSUME NEW a \in Nat, NEW b \in Nat, NEW c \in Nat
  PROVE  a * c \in Nat /\ (a < b => a * c + c <= b * c) /\ (a <= b => a * c <= b * c)
<1>1. a * c \in Nat /\ b * c \in Nat
  OBVIOUS
<1>2. ASSUME a < b PROVE a * c + c <= b * c
  <2>1. PICK k \in Nat : b = a + 1 + k
    <3>1. b - a - 1 \in Nat /\ b = a + 1 + (b - a - 1)
      BY <1>2
    <3>. QED  BY <3>1
  <2>2. b * c = a * c + c + k * c /\ k * c \in Nat
    BY <2>1
  <2>. QED  BY <1>1, <2>2
<1>. QED  BY <1>1, <1>2

\* What a quotient and a remainder are.
LEMMA Division ==
  ASSUME NEW a \in Nat, NEW n \in Nat \ {0}
  PROVE  /\ a \div n \in Nat /\ a % n \in 0 .. n - 1
         /\ a = (a \div n) * n + (a % n)
OBVIOUS

\* What the schedule requires of its layout.
LEMMA LegalLayout ==
  ASSUME layout \in Layouts, Legal(layout)
  PROVE  /\ P \in Nat /\ V \in Nat /\ M \in Nat /\ N \in Nat
         /\ 1 < P /\ 1 < V /\ P <= N /\ N <= M
         /\ M % N = 0 \/ P <= M % N
         /\ Total \in Nat /\ Total = V * M /\ M <= Total /\ Chunks = 0 .. V - 1
         /\ layout.forward_only \in BOOLEAN /\ layout.overlap_p2p_comm \in BOOLEAN
         /\ layout.overlap_p2p_comm_warmup_flush \in BOOLEAN
         /\ layout.grad_sync_func \in BOOLEAN /\ layout.param_sync_func \in BOOLEAN
         /\ layout.overlap_p2p_comm_warmup_flush => layout.overlap_p2p_comm
         /\ layout.forward_only => ~layout.grad_sync_func /\ ~layout.param_sync_func
<1>1. /\ P \in Nat /\ V \in Nat /\ M \in Nat /\ N \in Nat
      /\ 1 < P /\ 1 < V /\ P <= N /\ N <= M
      /\ M % N = 0 \/ P <= M % N
  BY LayoutsAssumption DEF Legal, Accepted, P, V, M, N
<1>2. Total \in Nat /\ Total = V * M /\ M <= Total
  <2>1. M * V = V * M /\ M * V \in Nat
    BY <1>1
  <2>2. 1 * M <= V * M
    BY <1>1, Products
  <2>3. 1 * M = M
    BY <1>1
  <2>. QED  BY <1>1, <2>1, <2>2, <2>3 DEF Total
<1>. QED  BY <1>1, <1>2, LayoutsAssumption DEF Legal, Accepted, Chunks

-----------------------------------------------------------------------------
(* The schedule table                                                      *)

\* A group of the table: chunk after chunk, the microbatches after first.
Block(first, size) ==
    [j \in 1 .. V * size |->
        [microbatch |-> first + ((j - 1) % size), chunk |-> (j - 1) \div size]]

SizeAt(first) == MinOf(N, M - first)

IsTable(f, l) ==
    f = [first \in l .. M + N |->
           IF first >= M THEN <<>> ELSE Block(first, SizeAt(first)) \o f[first + N]]

\* The recursion of ScheduleTable defines a function.
LEMMA TableExists ==
  ASSUME layout \in Layouts, Legal(layout)
  PROVE  \E table : IsTable(table, 0) /\ ScheduleTable = table[0]
<1>1. /\ M \in Nat /\ N \in Nat /\ 1 < N
  BY LegalLayout
<1>. DEFINE T == {n \in Nat : \A l \in Nat : l + n = M + N => \E f : IsTable(f, l)}
<1>2. 0 \in T
  <2>. SUFFICES ASSUME NEW l \in Nat, l = M + N PROVE \E f : IsTable(f, l)
    BY <1>1
  <2>. DEFINE f == [first \in l .. M + N |-> << >>]
  <2>1. \A first \in l .. M + N : first >= M
    BY <1>1
  <2>2. IsTable(f, l)
    BY <2>1 DEF IsTable
  <2>. HIDE DEF f
  <2>. QED  BY <2>2
<1>3. ASSUME NEW n \in Nat, n \in T PROVE n + 1 \in T
  <2>. SUFFICES ASSUME NEW l \in Nat, l + (n + 1) = M + N PROVE \E f : IsTable(f, l)
    OBVIOUS
  <2>1. (l + 1) + n = M + N
    BY <1>1
  <2>2. PICK f : IsTable(f, l + 1)
    BY <1>3, <2>1
  <2>. DEFINE g == [first \in l .. M + N |->
                      IF first >= M THEN <<>> ELSE Block(first, SizeAt(first)) \o f[first + N]]
  <2>3. ASSUME NEW first \in l .. M + N, ~ (first >= M)
        PROVE  f[first + N] = g[first + N]
    <3>1. first + N \in (l + 1) .. M + N
      BY <1>1, <2>3
    <3>2. f[first + N] = IF first + N >= M THEN <<>>
                         ELSE Block(first + N, SizeAt(first + N)) \o f[first + N + N]
      BY <2>2, <3>1 DEF IsTable
    <3>3. first + N \in l .. M + N
      BY <1>1, <3>1
    <3>. QED  BY <3>2, <3>3
  <2>4. g = [first \in l .. M + N |->
                      IF first >= M THEN <<>> ELSE Block(first, SizeAt(first)) \o g[first + N]]
    BY <2>3
  <2>. HIDE DEF g
  <2>5. IsTable(g, l)
    BY <2>4 DEF IsTable
  <2>. QED  BY <2>5
<1>4. \E f : IsTable(f, 0)
  <2>1. M + N \in Nat /\ 0 + (M + N) = M + N
    BY <1>1
  <2>. HIDE DEF T
  <2>2. M + N \in T
    BY <1>2, <1>3, <2>1, Induction
  <2>. USE DEF T
  <2>. QED  BY <2>1, <2>2
<1>. DEFINE F == CHOOSE f : IsTable(f, 0)
<1>5. IsTable(F, 0)
  BY <1>4
<1>6. ScheduleTable = F[0]
  BY DEF ScheduleTable, IsTable, Block, SizeAt
<1>. HIDE DEF F
<1>. QED  BY <1>5, <1>6

\* A quotient and a remainder are the only ones.
LEMMA DivisionUnique ==
  ASSUME NEW a \in Nat, NEW n \in Nat \ {0}, NEW q \in Nat, NEW m \in 0 .. n - 1, a = q * n + m
  PROVE  a \div n = q /\ a % n = m
<1>. DEFINE k == a \div n
            l == a % n
<1>1. k \in Nat /\ l \in 0 .. n - 1 /\ a = k * n + l
  BY Division
<1>. HIDE DEF k, l
<1>2. ~ (k < q)
  <2>1. k < q => k * n + n <= q * n
    BY <1>1, Products
  <2>2. k * n \in Nat /\ q * n \in Nat
    BY <1>1, Products
  <2>. QED  BY <1>1, <2>1, <2>2
<1>3. ~ (q < k)
  <2>1. q < k => q * n + n <= k * n
    BY <1>1, Products
  <2>2. k * n \in Nat /\ q * n \in Nat
    BY <1>1, Products
  <2>. QED  BY <1>1, <2>1, <2>2
<1>4. k = q
  BY <1>1, <1>2, <1>3
<1>5. k * n = q * n /\ q * n \in Nat
  BY <1>4, Products
<1>. QED  BY <1>1, <1>4, <1>5 DEF k, l

Entries == [microbatch : 0 .. M - 1, chunk : Chunks]

\* Microbatches from first on.
Left(first) == IF first < M THEN M - first ELSE 0

\* Of the first j entries of a group, those of chunk d.
Part(j, d, size) ==
    IF j <= d * size THEN 0 ELSE IF j >= d * size + size THEN size ELSE j - d * size

\* s is the table from a microbatch on: counts[d][j] of its first j entries
\* are of chunk d.  A chunk comes to a microbatch at least P entries after the
\* chunk before it, and at most (V - 1) * N entries after any chunk.
Shape(s, first, counts) ==
    /\ s \in Seq(Entries) /\ Len(s) = V * Left(first)
    /\ counts \in [Chunks -> [0 .. Len(s) -> Nat]]
    /\ \A d \in Chunks : counts[d][0] = 0 /\ counts[d][Len(s)] = Left(first)
    /\ \A d \in Chunks : \A j \in 1 .. Len(s) :
          counts[d][j] = counts[d][j - 1] + (IF s[j].chunk = d THEN 1 ELSE 0)
    /\ \A j \in 1 .. Len(s) : s[j].microbatch = first + counts[s[j].chunk][j - 1]
    /\ \A d \in 1 .. V - 1 : \A i, j \in 0 .. Len(s) :
          i >= j - P => counts[d][j] <= counts[d - 1][i]
    /\ \A c, d \in Chunks : \A i, j \in 0 .. Len(s) :
          i >= j + (V - 1) * N \/ i = Len(s) => counts[d][j] <= counts[c][i]
    /\ first < M =>
          \A d \in Chunks : /\ d * SizeAt(first) \in 0 .. Len(s) - 1
                            /\ counts[d][d * SizeAt(first)] = 0
                            /\ s[d * SizeAt(first) + 1].chunk = d

\* An entry of a group.
LEMMA BlockEntry ==
  ASSUME layout \in Layouts, Legal(layout), NEW size \in Nat \ {0}, NEW j \in 1 .. V * size
  PROVE  /\ (j - 1) \div size \in Chunks /\ (j - 1) % size \in 0 .. size - 1
         /\ Part(j - 1, (j - 1) \div size, size) = (j - 1) % size
         /\ \A d \in Chunks :
               Part(j, d, size) = Part(j - 1, d, size)
                                    + (IF (j - 1) \div size = d THEN 1 ELSE 0)
<1>. DEFINE q == (j - 1) \div size
            m == (j - 1) % size
<1>1. V \in Nat /\ Chunks = 0 .. V - 1 /\ V * size \in Nat
  BY LegalLayout, Products
<1>2. q \in Nat /\ m \in 0 .. size - 1 /\ j - 1 = q * size + m /\ j \in Nat
  <2>1. j \in Nat /\ j - 1 \in Nat
    BY <1>1
  <2>. QED  BY <2>1, Division
<1>. HIDE DEF q, m
<1>3. q * size \in Nat
  BY <1>2, Products
<1>4. q < V
  <2>1. V <= q => V * size <= q * size
    BY <1>1, <1>2, Products
  <2>. QED  BY <1>1, <1>2, <1>3, <2>1
<1>5. Part(j - 1, q, size) = m
  BY <1>2, <1>3 DEF Part
<1>6. ASSUME NEW d \in Chunks
      PROVE  Part(j, d, size) = Part(j - 1, d, size) + (IF q = d THEN 1 ELSE 0)
  <2>1. d \in Nat /\ d * size \in Nat
    BY <1>1, <1>6, Products
  <2>2. CASE d = q
    BY <1>2, <1>3, <2>2 DEF Part
  <2>3. CASE d < q
    <3>1. d * size + size <= q * size
      BY <1>2, <2>1, <2>3, Products
    <3>. QED  BY <1>2, <1>3, <2>1, <2>3, <3>1 DEF Part
  <2>4. CASE q < d
    <3>1. q * size + size <= d * size
      BY <1>2, <2>1, <2>4, Products
    <3>. QED  BY <1>2, <1>3, <2>1, <2>4, <3>1 DEF Part
  <2>. QED  BY <1>2, <2>1, <2>2, <2>3, <2>4
<1>. QED  BY <1>1, <1>2, <1>4, <1>5, <1>6 DEF q, m

\* A group of size n has n entries of every chunk.
LEMMA PartBounds ==
  ASSUME NEW size \in Nat \ {0}, NEW d \in Nat, NEW j \in Nat
  PROVE  /\ d * size \in Nat /\ Part(j, d, size) \in 0 .. size
         /\ j <= d * size => Part(j, d, size) = 0
         /\ j >= d * size + size => Part(j, d, size) = size
         /\ j >= d * size /\ j <= d * size + size => Part(j, d, size) = j - d * size
<1>1. d * size \in Nat
  BY Products
<1>. QED  BY <1>1 DEF Part

\* Up to entry i a group has as many of chunk c as of chunk d up to entry j, if i
\* is as far past the start of c as j is past that of d.
LEMMA PartOrder ==
  ASSUME NEW size \in Nat \ {0}, NEW c \in Nat, NEW d \in Nat, NEW i \in Nat, NEW j \in Nat,
         j - d * size <= i - c * size
  PROVE  Part(j, d, size) <= Part(i, c, size)
<1>1. d * size \in Nat /\ c * size \in Nat
  BY Products
<1>. QED  BY <1>1 DEF Part

\* A group before a table.
LEMMA Prepend ==
  ASSUME layout \in Layouts, Legal(layout),
         NEW k \in Nat, NEW first, first = k * N, first < M,
         NEW t, NEW after, Shape(t, first + N, after)
  PROVE  \E counts : Shape(Block(first, SizeAt(first)) \o t, first, counts)
<1>. DEFINE size == SizeAt(first)
            b    == V * size
            s    == Block(first, size) \o t
            l    == Len(t)
            counts == [d \in Chunks |-> [j \in 0 .. b + l |->
                         IF j <= b THEN Part(j, d, size) ELSE size + after[d][j - b]]]
<1>1. /\ P \in Nat /\ V \in Nat /\ M \in Nat /\ N \in Nat
      /\ 1 < P /\ 1 < V /\ P <= N /\ N <= M
      /\ M % N = 0 \/ P <= M % N
      /\ Chunks = 0 .. V - 1
  BY LegalLayout
<1>2. first \in Nat
  BY <1>1, Products
<1>3. size \in Nat \ {0} /\ size <= N /\ first + size <= M /\ P <= size
  <2>1. size \in Nat \ {0} /\ size <= N /\ first + size <= M
    BY <1>1, <1>2 DEF SizeAt, MinOf
  <2>2. CASE size = N
    BY <1>1, <2>1, <2>2
  <2>3. CASE size # N
    <3>1. M = k * N + size /\ size \in 0 .. N - 1
      BY <1>1, <1>2, <2>1, <2>3 DEF SizeAt, MinOf
    <3>2. M % N = size
      <4>1. N \in Nat \ {0}
        BY <1>1
      <4>. HIDE DEF size
      <4>. QED  BY <1>1, <3>1, <4>1, DivisionUnique
    <3>. QED  BY <1>1, <2>1, <3>2
  <2>. QED  BY <2>1, <2>2, <2>3
<1>4. Left(first) = size + Left(first + N) /\ Left(first + N) \in Nat
  BY <1>1, <1>2 DEF Left, SizeAt, MinOf
<1>5. /\ t \in Seq(Entries) /\ l = V * Left(first + N) /\ l \in Nat
      /\ b \in Nat /\ b + l = V * Left(first)
  <2>1. t \in Seq(Entries) /\ l = V * Left(first + N)
    BY DEF Shape
  <2>2. V * size + V * Left(first + N) = V * (size + Left(first + N))
    BY <1>1, <1>3, <1>4
  <2>. QED  BY <1>1, <1>3, <1>4, <2>1, <2>2
<1>6. /\ after \in [Chunks -> [0 .. l -> Nat]]
      /\ \A d \in Chunks : after[d][0] = 0 /\ after[d][l] = Left(first + N)
      /\ \A d \in Chunks : \A j \in 1 .. l :
            after[d][j] = after[d][j - 1] + (IF t[j].chunk = d THEN 1 ELSE 0)
      /\ \A j \in 1 .. l : t[j].microbatch = first + N + after[t[j].chunk][j - 1]
      /\ \A d \in 1 .. V - 1 : \A i, j \in 0 .. l :
            i >= j - P => after[d][j] <= after[d - 1][i]
      /\ \A c, d \in Chunks : \A i, j \in 0 .. l :
            i >= j + (V - 1) * N \/ i = l => after[d][j] <= after[c][i]
  BY DEF Shape
<1>7. \A d \in Chunks : d \in Nat /\ d * size \in Nat /\ d * size + size <= b
  <2>. TAKE d \in Chunks
  <2>1. d \in Nat /\ d < V
    BY <1>1
  <2>. HIDE DEF size
  <2>. QED  BY <1>1, <1>3, <2>1, Products
<1>8. l # 0 => size = N
  <2>1. Left(first + N) = 0 => V * Left(first + N) = 0
    BY <1>1
  <2>. QED  BY <1>1, <1>2, <1>4, <1>5, <2>1 DEF Left, SizeAt, MinOf
<1>9. \A d \in Chunks : \A j \in 0 .. b + l :
         counts[d][j] = IF j <= b THEN Part(j, d, size) ELSE size + after[d][j - b]
  OBVIOUS
<1>10. Block(first, size) \in Seq(Entries) /\ Len(Block(first, size)) = b
  <2>1. \A j \in 1 .. b : [microbatch |-> first + ((j - 1) % size), chunk |-> (j - 1) \div size] \in Entries
    <3>. SUFFICES ASSUME NEW j \in 1 .. b
                  PROVE  first + ((j - 1) % size) \in 0 .. M - 1 /\ (j - 1) \div size \in Chunks
      BY DEF Entries
    <3>. HIDE DEF size
    <3>1. (j - 1) % size \in 0 .. size - 1 /\ (j - 1) \div size \in Chunks
      BY <1>3, BlockEntry
    <3>. QED  BY <1>1, <1>2, <1>3, <3>1
  <2>. QED  BY <1>5, <2>1 DEF Block
<1>11. s \in Seq(Entries) /\ Len(s) = b + l
  BY <1>5, <1>10
<1>12. \A j \in 1 .. b : /\ s[j].microbatch = first + ((j - 1) % size)
                         /\ s[j].chunk = (j - 1) \div size
  BY <1>5, <1>10, <1>11 DEF Block
<1>13. \A j \in (b + 1) .. (b + l) : j - b \in 1 .. l /\ s[j] = t[j - b]
  BY <1>5, <1>10, <1>11
<1>14. counts \in [Chunks -> [0 .. b + l -> Nat]]
  <2>. SUFFICES ASSUME NEW d \in Chunks, NEW j \in 0 .. b + l
                PROVE (IF j <= b THEN Part(j, d, size) ELSE size + after[d][j - b]) \in Nat
    OBVIOUS
  <2>1. CASE j <= b
    <3>. HIDE DEF size, b, l
    <3>1. d \in Nat /\ j \in Nat
      BY <1>5, <1>7
    <3>2. Part(j, d, size) \in 0 .. size
      BY <1>3, <3>1, PartBounds
    <3>. QED  BY <1>3, <2>1, <3>2
  <2>2. CASE ~ (j <= b)
    <3>1. j - b \in 0 .. l
      BY <1>5, <2>2
    <3>. QED  BY <1>3, <1>6, <2>2, <3>1
  <2>. QED  BY <2>1, <2>2
<1>. HIDE DEF counts, s, b, l, size
<1>15. \A d \in Chunks : counts[d][0] = 0 /\ counts[d][b] = size /\ counts[d][b + l] = Left(first)
  <2>. TAKE d \in Chunks
  <2>1. counts[d][0] = 0 /\ counts[d][b] = size
    <3>1. /\ 0 \in 0 .. b + l /\ 0 <= b /\ b \in 0 .. b + l /\ b <= b
          /\ 0 <= d * size /\ b >= d * size + size
      BY <1>5, <1>7
    <3>2. Part(0, d, size) = 0 /\ Part(b, d, size) = size
      BY <1>3, <1>5, <1>7, <3>1, PartBounds
    <3>. QED  BY <1>9, <3>1, <3>2
  <2>2. counts[d][b + l] = Left(first)
    <3>1. CASE l = 0
      BY <1>3, <1>4, <1>5, <1>6, <2>1, <3>1
    <3>2. CASE l # 0
      <4>1. b + l \in 0 .. b + l /\ ~ (b + l <= b) /\ (b + l) - b = l
        BY <1>5, <3>2
      <4>. QED  BY <1>4, <1>6, <1>9, <4>1
    <3>. QED  BY <3>1, <3>2
  <2>. QED  BY <2>1, <2>2
<1>16. ASSUME NEW d \in Chunks, NEW j \in 1 .. b + l
       PROVE  counts[d][j] = counts[d][j - 1] + (IF s[j].chunk = d THEN 1 ELSE 0)
  <2>1. CASE j <= b
    <3>1. j \in 1 .. b /\ j - 1 \in 0 .. b + l /\ j - 1 <= b
      BY <1>5, <2>1
    <3>2. counts[d][j] = Part(j, d, size) /\ counts[d][j - 1] = Part(j - 1, d, size)
      BY <1>9, <3>1, <2>1
    <3>3. Part(j, d, size) = Part(j - 1, d, size) + (IF (j - 1) \div size = d THEN 1 ELSE 0)
      BY <1>3, <3>1, BlockEntry DEF b
    <3>. QED  BY <1>12, <3>1, <3>2, <3>3
  <2>2. CASE j = b + 1
    <3>1. counts[d][j] = size + after[d][1] /\ counts[d][j - 1] = size /\ 1 \in 1 .. l /\ s[j] = t[1]
      BY <1>5, <1>9, <1>13, <1>15, <2>2
    <3>2. after[d][1] = after[d][1 - 1] + (IF t[1].chunk = d THEN 1 ELSE 0) /\ after[d][0] = 0
      BY <1>6, <3>1
    <3>. QED  BY <1>3, <3>1, <3>2
  <2>3. CASE j > b + 1
    <3>1. /\ j - b \in 1 .. l /\ j - 1 \in 0 .. b + l /\ j \in 0 .. b + l /\ s[j] = t[j - b]
          /\ (j - 1) - b = (j - b) - 1 /\ ~ (j <= b) /\ ~ (j - 1 <= b) /\ (j - b) - 1 \in 0 .. l
      BY <1>5, <1>13, <2>3
    <3>2. counts[d][j] = size + after[d][j - b] /\ counts[d][j - 1] = size + after[d][(j - b) - 1]
      BY <1>9, <3>1
    <3>3. after[d][j - b] = after[d][(j - b) - 1] + (IF t[j - b].chunk = d THEN 1 ELSE 0)
      BY <1>6, <3>1
    <3>4. after[d][(j - b) - 1] \in Nat
      BY <1>6, <3>1
    <3>. QED  BY <1>3, <3>1, <3>2, <3>3, <3>4
  <2>. QED  BY <1>5, <2>1, <2>2, <2>3
<1>17. ASSUME NEW j \in 1 .. b + l
       PROVE  s[j].microbatch = first + counts[s[j].chunk][j - 1]
  <2>1. CASE j <= b
    <3>1. j \in 1 .. b /\ j - 1 \in 0 .. b + l /\ j - 1 <= b
      BY <1>5, <2>1
    <3>2. (j - 1) \div size \in Chunks /\ Part(j - 1, (j - 1) \div size, size) = (j - 1) % size
      BY <1>3, <3>1, BlockEntry DEF b
    <3>3. counts[(j - 1) \div size][j - 1] = (j - 1) % size
      BY <1>9, <3>1, <3>2
    <3>. QED  BY <1>12, <3>1, <3>3
  <2>2. CASE ~ (j <= b)
    <3>1. /\ j - b \in 1 .. l /\ s[j] = t[j - b] /\ (j - 1) - b = (j - b) - 1
          /\ j - 1 \in 0 .. b + l /\ (j - b) - 1 \in 0 .. l
      BY <1>5, <1>13, <2>2
    <3>2. t[j - b] \in Entries /\ t[j - b].chunk \in Chunks
      <4>1. t[j - b] \in Entries
        BY <1>5, <3>1, ElementOfSeq DEF l
      <4>. QED  BY <4>1 DEF Entries
    <3>3. counts[t[j - b].chunk][j - 1] = size + after[t[j - b].chunk][(j - b) - 1]
      <4>1. CASE j - 1 = b
        BY <1>3, <1>5, <1>6, <1>15, <3>1, <3>2, <4>1
      <4>2. CASE j - 1 # b
        <5>1. ~ (j - 1 <= b)
          BY <1>5, <2>2, <4>2
        <5>. QED  BY <1>9, <3>1, <3>2, <5>1
      <4>. QED  BY <4>1, <4>2
    <3>4. t[j - b].microbatch = first + N + after[t[j - b].chunk][(j - b) - 1]
      BY <1>6, <3>1
    <3>5. size = N /\ after[t[j - b].chunk][(j - b) - 1] \in Nat
      <4>1. l # 0
        BY <1>5, <3>1
      <4>. QED  BY <1>6, <1>8, <3>1, <3>2, <4>1
    <3>. QED  BY <1>1, <1>2, <3>1, <3>3, <3>4, <3>5
  <2>. QED  BY <2>1, <2>2
<1>18. \A d \in Chunks : \A i \in 0 .. b + l :
          /\ counts[d][i] \in Nat
          /\ i <= b => counts[d][i] = Part(i, d, size) /\ counts[d][i] <= size
          /\ i > b => i - b \in 0 .. l /\ counts[d][i] = size + after[d][i - b]
                      /\ after[d][i - b] \in Nat
  <2>. SUFFICES ASSUME NEW d \in Chunks, NEW i \in 0 .. b + l
                PROVE  /\ counts[d][i] \in Nat
                       /\ i <= b => counts[d][i] = Part(i, d, size) /\ counts[d][i] <= size
                       /\ i > b => i - b \in 0 .. l /\ counts[d][i] = size + after[d][i - b]
                                   /\ after[d][i - b] \in Nat
    OBVIOUS
  <2>1. CASE i <= b
    <3>1. counts[d][i] = Part(i, d, size) /\ i \in Nat
      BY <1>5, <1>9, <2>1
    <3>2. Part(i, d, size) \in 0 .. size
      BY <1>3, <1>7, <3>1, PartBounds
    <3>. QED  BY <1>3, <1>5, <2>1, <3>1, <3>2
  <2>2. CASE i > b
    <3>1. i - b \in 0 .. l /\ ~ (i <= b)
      BY <1>5, <2>2
    <3>2. counts[d][i] = size + after[d][i - b] /\ after[d][i - b] \in Nat
      BY <1>6, <1>9, <3>1
    <3>. QED  BY <1>3, <2>2, <3>1, <3>2
  <2>. QED  BY <1>5, <2>1, <2>2
<1>19. ASSUME NEW d \in 1 .. V - 1, NEW i \in 0 .. b + l, NEW j \in 0 .. b + l, i >= j - P
       PROVE  counts[d][j] <= counts[d - 1][i]
  <2>1. d \in Chunks /\ d - 1 \in Chunks
    BY <1>1
  <2>2. /\ d * size \in Nat /\ d * size + size <= b
        /\ (d - 1) * size \in Nat /\ (d - 1) * size + size = d * size
    <3>1. (d - 1) * size + size = d * size
      BY <1>1, <1>3
    <3>. QED  BY <1>7, <2>1, <3>1
  <2>3. CASE j <= b /\ i <= b
    <3>1. j - d * size <= i - (d - 1) * size
      BY <1>1, <1>3, <1>5, <1>19, <2>2
    <3>2. Part(j, d, size) <= Part(i, d - 1, size)
      BY <1>1, <1>3, <1>5, <3>1, PartOrder
    <3>. QED  BY <1>18, <2>1, <2>3, <3>2
  <2>4. CASE j <= b /\ i > b
    BY <1>3, <1>18, <2>1, <2>4
  <2>5. CASE j > b /\ i > b
    <3>1. i - b \in 0 .. l /\ j - b \in 0 .. l /\ i - b >= (j - b) - P
      BY <1>1, <1>5, <1>19, <2>5
    <3>2. after[d][j - b] <= after[d - 1][i - b]
      BY <1>6, <3>1
    <3>. QED  BY <1>3, <1>18, <2>1, <2>5, <3>2
  <2>6. CASE j > b /\ i <= b
    <3>1. 0 \in 0 .. l /\ j - b \in 0 .. l /\ 0 >= (j - b) - P
      BY <1>1, <1>5, <1>19, <2>6
    <3>2. after[d][j - b] <= after[d - 1][0] /\ after[d - 1][0] = 0
      BY <1>6, <2>1, <3>1
    <3>3. counts[d][j] = size
      BY <1>3, <1>18, <2>1, <2>6, <3>2
    <3>4. i >= (d - 1) * size + size
      BY <1>1, <1>3, <1>5, <1>19, <2>2, <2>6
    <3>5. counts[d - 1][i] = size
      <4>1. Part(i, d - 1, size) = size
        BY <1>1, <1>3, <1>5, <3>4, PartBounds
      <4>. QED  BY <1>18, <2>1, <2>6, <4>1
    <3>. QED  BY <1>3, <3>3, <3>5
  <2>. QED  BY <1>5, <2>3, <2>4, <2>5, <2>6
<1>20. ASSUME NEW c \in Chunks, NEW d \in Chunks, NEW i \in 0 .. b + l, NEW j \in 0 .. b + l,
              i >= j + (V - 1) * N \/ i = b + l
       PROVE  counts[d][j] <= counts[c][i]
  <2>1. /\ d * size \in Nat /\ c * size \in Nat /\ c * size + size <= b
        /\ (V - 1) * N \in Nat /\ c * size <= (V - 1) * N
    <3>1. c <= V - 1 /\ V - 1 \in Nat /\ c \in Nat
      BY <1>1
    <3>2. c * size <= c * N /\ c * N <= (V - 1) * N /\ (V - 1) * N \in Nat /\ c * N \in Nat
      <4>1. size * c <= N * c
        BY <1>1, <1>3, <3>1, Products
      <4>2. size * c = c * size /\ N * c = c * N
        BY <1>1, <1>3, <3>1
      <4>. QED  BY <1>1, <3>1, <4>1, <4>2, Products
    <3>. QED  BY <1>7, <3>2
  <2>2. CASE j <= b /\ i <= b
    <3>1. CASE i = b + l
      <4>1. i = b
        BY <1>5, <2>2, <3>1
      <4>. QED  BY <1>3, <1>15, <1>18, <2>2, <4>1
    <3>2. CASE i >= j + (V - 1) * N
      <4>1. j - d * size <= i - c * size
        BY <1>5, <2>1, <3>2
      <4>2. Part(j, d, size) <= Part(i, c, size)
        <5>1. c \in Nat /\ d \in Nat /\ i \in Nat /\ j \in Nat
          BY <1>5, <1>7
        <5>. QED  BY <1>3, <4>1, <5>1, PartOrder
      <4>. QED  BY <1>18, <2>2, <4>2
    <3>. QED  BY <1>20, <3>1, <3>2
  <2>3. CASE j <= b /\ i > b
    BY <1>3, <1>18, <2>3
  <2>4. CASE j > b
    <3>1. i > b /\ i - b \in 0 .. l /\ j - b \in 0 .. l
      BY <1>5, <1>20, <2>1, <2>4
    <3>2. i - b >= (j - b) + (V - 1) * N \/ i - b = l
      BY <1>5, <1>20, <2>1
    <3>3. after[d][j - b] <= after[c][i - b]
      BY <1>6, <3>1, <3>2
    <3>. QED  BY <1>3, <1>18, <2>4, <3>1, <3>3
  <2>. QED  BY <1>5, <2>2, <2>3, <2>4
<1>21. ASSUME NEW d \in Chunks
       PROVE  /\ d * size \in 0 .. b + l - 1 /\ counts[d][d * size] = 0
              /\ s[d * size + 1].chunk = d
  <2>1. d * size \in Nat /\ d * size + size <= b /\ d * size \in 0 .. b + l - 1
    BY <1>3, <1>5, <1>7, SMTT(30)
  <2>2. counts[d][d * size] = 0
    <3>1. d * size \in 0 .. b + l /\ d * size <= b /\ d * size <= d * size
      BY <1>3, <1>5, <2>1
    <3>2. Part(d * size, d, size) = 0
      BY <1>3, <1>7, <2>1, <3>1, PartBounds
    <3>. QED  BY <1>18, <3>1, <3>2
  <2>3. (d * size) \div size = d
    <3>1. d * size = d * size + 0 /\ 0 \in 0 .. size - 1 /\ d \in Nat
      BY <1>3, <1>7, <2>1
    <3>. QED  BY <1>3, <2>1, <3>1, DivisionUnique
  <2>4. s[d * size + 1].chunk = (d * size) \div size
    <3>1. d * size + 1 \in 1 .. b /\ (d * size + 1) - 1 = d * size
      BY <1>3, <1>5, <2>1
    <3>. QED  BY <1>12, <3>1
  <2>. QED  BY <2>1, <2>2, <2>3, <2>4
<1>22. Shape(s, first, counts)
  <2>1. Len(s) = b + l /\ b + l = V * Left(first) /\ s \in Seq(Entries)
    BY <1>5, <1>11
  <2>2. counts \in [Chunks -> [0 .. Len(s) -> Nat]]
    BY <1>14, <2>1
  <2>3. \A d \in Chunks : counts[d][0] = 0 /\ counts[d][Len(s)] = Left(first)
    BY <1>15, <2>1
  <2>4. \A d \in Chunks : \A j \in 1 .. Len(s) :
          counts[d][j] = counts[d][j - 1] + (IF s[j].chunk = d THEN 1 ELSE 0)
    BY <1>16, <2>1
  <2>5. \A j \in 1 .. Len(s) : s[j].microbatch = first + counts[s[j].chunk][j - 1]
    BY <1>17, <2>1
  <2>6. \A d \in 1 .. V - 1 : \A i, j \in 0 .. Len(s) :
          i >= j - P => counts[d][j] <= counts[d - 1][i]
    BY <1>19, <2>1
  <2>7. \A c, d \in Chunks : \A i, j \in 0 .. Len(s) :
          i >= j + (V - 1) * N \/ i = Len(s) => counts[d][j] <= counts[c][i]
    BY <1>20, <2>1
  <2>8. \A d \in Chunks : /\ d * SizeAt(first) \in 0 .. Len(s) - 1
                          /\ counts[d][d * SizeAt(first)] = 0
                          /\ s[d * SizeAt(first) + 1].chunk = d
    <3>. TAKE d \in Chunks
    <3>1. size = SizeAt(first)
      BY DEF size
    <3>2. /\ d * size \in 0 .. b + l - 1 /\ counts[d][d * size] = 0
          /\ s[d * size + 1].chunk = d
      BY <1>21
    <3>3. b + l = Len(s)
      BY <2>1
    <3>4. d * SizeAt(first) = d * size
      BY <3>1
    <3>5. d * SizeAt(first) \in 0 .. Len(s) - 1
      BY <1>5, <3>2, <3>3, <3>4
    <3>6. counts[d][d * SizeAt(first)] = 0
      BY <3>2, <3>4
    <3>7. s[d * SizeAt(first) + 1].chunk = d
      BY <3>2, <3>4
    <3>. QED  BY <3>5, <3>6, <3>7
  <2>. QED  BY <2>1, <2>2, <2>3, <2>4, <2>5, <2>6, <2>7, <2>8 DEF Shape
<1>. QED  BY <1>22 DEF s, size

\* The whole table has a shape.
LEMMA TableShape ==
  ASSUME layout \in Layouts, Legal(layout)
  PROVE  \E counts : Shape(ScheduleTable, 0, counts)
<1>1. /\ P \in Nat /\ V \in Nat /\ M \in Nat /\ N \in Nat /\ 1 < V /\ 1 < N /\ 0 < M
      /\ Chunks = 0 .. V - 1
  BY LegalLayout
<1>2. PICK table : IsTable(table, 0) /\ ScheduleTable = table[0]
  BY TableExists
<1>. DEFINE T == {n \in Nat : \A k \in Nat : k * N <= M + N /\ k * N + n >= M =>
                                  \E counts : Shape(table[k * N], k * N, counts)}
<1>3. ASSUME NEW first \in Nat, first >= M, first <= M + N
      PROVE  \E counts : Shape(table[first], first, counts)
  <2>1. table[first] = <<>> /\ Len(<<>>) = 0
    BY <1>1, <1>2, <1>3 DEF IsTable
  <2>2. Left(first) = 0 /\ V * Left(first) = 0
    BY <1>1, <1>3 DEF Left
  <2>. DEFINE counts == [d \in Chunks |-> [j \in 0 .. 0 |-> 0]]
  <2>3. /\ \A d \in Chunks : counts[d] = [j \in 0 .. 0 |-> 0]
        /\ \A d \in Chunks : \A j \in 0 .. 0 : counts[d][j] = 0
        /\ counts \in [Chunks -> [0 .. 0 -> Nat]]
    OBVIOUS
  <2>4. \A d \in 1 .. V - 1 : d \in Chunks /\ d - 1 \in Chunks
    BY <1>1
  <2>. HIDE DEF counts
  <2>5. Shape(<<>>, first, counts)
    <3>1. <<>> \in Seq(Entries) /\ Len(<<>>) = 0 /\ 0 .. Len(<<>>) = 0 .. 0 /\ ~ (first < M)
      BY <1>1, <1>3
    <3>2. \A d \in Chunks : counts[d][0] = 0
      BY <2>3
    <3>3. \A j \in 1 .. Len(<<>>) : FALSE
      BY <3>1
    <3>4. \A c \in Chunks : \A j \in 0 .. Len(<<>>) : counts[c][j] = 0
      BY <2>3, <3>1
    <3>5. /\ \A d \in 1 .. V - 1 : \A i, j \in 0 .. Len(<<>>) :
                i >= j - P => counts[d][j] <= counts[d - 1][i]
          /\ \A c, d \in Chunks : \A i, j \in 0 .. Len(<<>>) :
                i >= j + (V - 1) * N \/ i = Len(<<>>) => counts[d][j] <= counts[c][i]
      BY <2>4, <3>4
    <3>. QED  BY <2>2, <2>3, <3>1, <3>2, <3>3, <3>5 DEF Shape
  <2>. QED  BY <2>1, <2>5
<1>4. 0 \in T
  <2>. SUFFICES ASSUME NEW k \in Nat, k * N <= M + N, k * N + 0 >= M
                PROVE  \E counts : Shape(table[k * N], k * N, counts)
    OBVIOUS
  <2>1. k * N \in Nat /\ k * N >= M
    BY <1>1, Products
  <2>. QED  BY <1>3, <2>1
<1>5. ASSUME NEW n \in Nat, n \in T PROVE n + 1 \in T
  <2>. SUFFICES ASSUME NEW k \in Nat, k * N <= M + N, k * N + (n + 1) >= M
                PROVE  \E counts : Shape(table[k * N], k * N, counts)
    OBVIOUS
  <2>1. k * N \in Nat
    BY <1>1, Products
  <2>2. CASE k * N >= M
    BY <1>3, <2>1, <2>2
  <2>3. CASE k * N < M
    <3>1. (k + 1) * N = k * N + N
      BY <1>1
    <3>2. k + 1 \in Nat /\ (k + 1) * N <= M + N /\ (k + 1) * N + n >= M
      BY <1>1, <2>1, <2>3, <3>1
    <3>3. \E counts : Shape(table[(k + 1) * N], (k + 1) * N, counts)
      BY <1>5, <3>2
    <3>4. PICK after : Shape(table[k * N + N], k * N + N, after)
      BY <3>1, <3>3
    <3>5. table[k * N] = Block(k * N, SizeAt(k * N)) \o table[k * N + N]
      <4>1. \A f \in 0 .. M + N : f < M =>
                table[f] = Block(f, SizeAt(f)) \o table[f + N]
        <5>. TAKE f \in 0 .. M + N
        <5>1. table[f] = IF f >= M THEN <<>> ELSE Block(f, SizeAt(f)) \o table[f + N]
          BY <1>2 DEF IsTable
        <5>2. f < M => ~ (f >= M)
          BY <1>1
        <5>. QED  BY <5>1, <5>2
      <4>2. k * N \in 0 .. M + N
        BY <1>1, <2>1, <2>3
      <4>. QED  BY <2>3, <4>1, <4>2
    <3>6. \E counts : Shape(Block(k * N, SizeAt(k * N)) \o table[k * N + N], k * N, counts)
      BY <2>3, <3>4, Prepend
    <3>. QED  BY <3>5, <3>6
  <2>. QED  BY <1>1, <2>1, <2>2, <2>3
<1>6. M \in T
  <2>. HIDE DEF T
  <2>. QED  BY <1>1, <1>4, <1>5, Induction
<1>7. 0 \in Nat /\ 0 * N = 0 /\ 0 * N <= M + N /\ 0 * N + M >= M
  BY <1>1
<1>8. \E counts : Shape(table[0 * N], 0 * N, counts)
  BY <1>6, <1>7
<1>. QED  BY <1>2, <1>7, <1>8

-----------------------------------------------------------------------------
(* What the table says of the virtual microbatches                         *)

Known == layout \in Layouts /\ Legal(layout) /\ schedule_table = ScheduleTable

\* What a count is from one virtual microbatch to the next.
LEMMA CountNext ==
  ASSUME NEW c, NEW n \in Nat
  PROVE  /\ Count(c, 0) = 0 /\ Count(c, n) \in Nat
         /\ Count(c, n + 1) = Count(c, n) + (IF Entry(n).chunk = c THEN 1 ELSE 0)
<1>. DEFINE S(k) == {v \in 0 .. k - 1 : Entry(v).chunk = c}
<1>0. ASSUME NEW k PROVE Count(c, k) = Cardinality(S(k))
  BY DEF Count
<1>1. ASSUME NEW k \in Nat PROVE IsFiniteSet(S(k))
  <2>1. IsFiniteSet(0 .. k - 1)
    BY FS_Interval
  <2>. QED  BY <2>1, FS_Subset
<1>2. S(0) = {} /\ Cardinality({}) = 0
  BY FS_EmptySet
<1>3. Cardinality(S(n)) \in Nat
  BY <1>1, FS_CardinalityType
<1>4. n \notin S(n)
  OBVIOUS
<1>5. CASE Entry(n).chunk = c
  <2>1. S(n + 1) = S(n) \cup {n}
    BY <1>5
  <2>2. Cardinality(S(n) \cup {n}) = Cardinality(S(n)) + 1
    BY <1>1, <1>4, FS_AddElement
  <2>. HIDE DEF S
  <2>. QED  BY <1>0, <1>2, <1>3, <1>5, <2>1, <2>2
<1>6. CASE Entry(n).chunk # c
  <2>1. S(n + 1) = S(n)
    BY <1>6
  <2>. HIDE DEF S
  <2>. QED  BY <1>0, <1>2, <1>3, <1>6, <2>1
<1>. QED  BY <1>5, <1>6

\* The microbatch of an entry is the number of entries of its chunk before it.
LEMMA TableFacts ==
  ASSUME Known
  PROVE  /\ \A v \in 0 .. Total - 1 :
               Entry(v) \in Entries /\ Entry(v).microbatch = Count(Entry(v).chunk, v)
         /\ \A c \in Chunks : Count(c, Total) = M
         /\ \A d \in 1 .. V - 1 : \A i, j \in 0 .. Total :
               i >= j - P => Count(d, j) <= Count(d - 1, i)
         /\ \A c, d \in Chunks : \A i, j \in 0 .. Total :
               i >= j + (V - 1) * N \/ i = Total => Count(d, j) <= Count(c, i)
         /\ \A c \in Chunks : /\ c * N \in 0 .. Total - 1 /\ Count(c, c * N) = 0
                              /\ Entry(c * N).chunk = c
<1>. DEFINE s == schedule_table
<1>1. /\ P \in Nat /\ V \in Nat /\ M \in Nat /\ N \in Nat /\ 1 < V /\ 1 < N /\ N <= M
      /\ Chunks = 0 .. V - 1 /\ Total \in Nat /\ Total = V * M /\ 0 < Total
  BY LegalLayout DEF Known
<1>2. PICK counts : Shape(s, 0, counts)
  BY TableShape DEF Known
<1>3. Left(0) = M /\ SizeAt(0) = N
  BY <1>1 DEF Left, SizeAt, MinOf
<1>4. s \in Seq(Entries) /\ Len(s) = Total
  BY <1>1, <1>2, <1>3 DEF Shape
<1>5. ASSUME NEW v \in 0 .. Total - 1
      PROVE  Entry(v) = s[v + 1] /\ Entry(v) \in Entries
  <2>1. v = 0 * Total + v /\ v \in Nat /\ Total \in Nat \ {0} /\ 0 \in Nat
    BY <1>1
  <2>2. v % Total = v
    BY <2>1, DivisionUnique
  <2>3. v + 1 \in 1 .. Len(s)
    BY <1>1, <1>4
  <2>. QED  BY <1>4, <2>2, <2>3, ElementOfSeq DEF Entry
<1>6. /\ \A d \in Chunks : counts[d][0] = 0 /\ counts[d][Total] = M
      /\ \A d \in Chunks : \A j \in 1 .. Total :
          counts[d][j] = counts[d][j - 1] + (IF s[j].chunk = d THEN 1 ELSE 0)
      /\ \A j \in 1 .. Total : s[j].microbatch = 0 + counts[s[j].chunk][j - 1]
      /\ \A d \in 1 .. V - 1 : \A i, j \in 0 .. Total :
            i >= j - P => counts[d][j] <= counts[d - 1][i]
      /\ \A c, d \in Chunks : \A i, j \in 0 .. Total :
            i >= j + (V - 1) * N \/ i = Total => counts[d][j] <= counts[c][i]
      /\ \A d \in Chunks : /\ d * N \in 0 .. Total - 1 /\ counts[d][d * N] = 0
                           /\ s[d * N + 1].chunk = d
  <2>1. 0 < M
    BY <1>1
  <2>2. Len(s) = Total /\ Left(0) = M /\ SizeAt(0) = N
    BY <1>3, <1>4
  <2>. HIDE DEF s
  <2>. QED  BY <1>2, <2>1, <2>2 DEF Shape
<1>7. \A d \in Chunks : \A j \in 0 .. Total : counts[d][j] = Count(d, j)
  <2>. SUFFICES ASSUME NEW d \in Chunks PROVE \A j \in 0 .. Total : counts[d][j] = Count(d, j)
    OBVIOUS
  <2>. DEFINE T == {j \in Nat : j <= Total => counts[d][j] = Count(d, j)}
  <2>1. 0 \in T
    BY <1>6, CountNext
  <2>2. ASSUME NEW j \in Nat, j \in T PROVE j + 1 \in T
    <3>. SUFFICES ASSUME j + 1 <= Total PROVE counts[d][j + 1] = Count(d, j + 1)
      OBVIOUS
    <3>1. j \in 0 .. Total - 1 /\ j + 1 \in 1 .. Total /\ (j + 1) - 1 = j /\ j <= Total
      BY <1>1
    <3>2. counts[d][j + 1] = counts[d][j] + (IF s[j + 1].chunk = d THEN 1 ELSE 0)
      BY <1>6, <3>1
    <3>3. Count(d, j + 1) = Count(d, j) + (IF Entry(j).chunk = d THEN 1 ELSE 0)
      BY CountNext
    <3>. QED  BY <1>5, <2>2, <3>1, <3>2, <3>3
  <2>. HIDE DEF T
  <2>3. Nat \subseteq T
    BY <2>1, <2>2, Induction
  <2>. USE DEF T
  <2>. QED  BY <1>1, <2>3
<1>8. ASSUME NEW v \in 0 .. Total - 1
      PROVE  Entry(v).microbatch = Count(Entry(v).chunk, v)
  <2>1. v + 1 \in 1 .. Total /\ (v + 1) - 1 = v /\ v \in 0 .. Total
    BY <1>1
  <2>2. Entry(v).chunk \in Chunks
    BY <1>5 DEF Entries
  <2>3. counts[Entry(v).chunk][v] = Count(Entry(v).chunk, v) /\ Count(Entry(v).chunk, v) \in Nat
    BY <1>7, <2>1, <2>2, CountNext
  <2>4. s[v + 1].microbatch = 0 + counts[s[v + 1].chunk][(v + 1) - 1]
    BY <1>6, <2>1
  <2>. QED  BY <1>5, <2>1, <2>3, <2>4
<1>9. ASSUME NEW c \in Chunks PROVE Count(c, Total) = M
  <2>1. Total \in 0 .. Total /\ counts[c][Total] = M
    BY <1>1, <1>6
  <2>. QED  BY <1>7, <2>1
<1>10. ASSUME NEW d \in 1 .. V - 1, NEW i \in 0 .. Total, NEW j \in 0 .. Total, i >= j - P
       PROVE  Count(d, j) <= Count(d - 1, i)
  <2>1. d \in Chunks /\ d - 1 \in Chunks
    BY <1>1
  <2>. QED  BY <1>6, <1>7, <1>10, <2>1
<1>11. ASSUME NEW c \in Chunks, NEW d \in Chunks, NEW i \in 0 .. Total, NEW j \in 0 .. Total,
              i >= j + (V - 1) * N \/ i = Total
       PROVE  Count(d, j) <= Count(c, i)
  <2>1. counts[d][j] <= counts[c][i]
    BY <1>6, <1>11
  <2>. QED  BY <1>7, <2>1
<1>12. ASSUME NEW c \in Chunks
       PROVE  c * N \in 0 .. Total - 1 /\ Count(c, c * N) = 0 /\ Entry(c * N).chunk = c
  <2>1. c * N \in 0 .. Total - 1 /\ counts[c][c * N] = 0 /\ s[c * N + 1].chunk = c
    BY <1>6
  <2>2. c * N \in 0 .. Total
    BY <1>1, <2>1
  <2>. QED  BY <1>5, <1>7, <2>1, <2>2
<1>. QED  BY <1>5, <1>8, <1>9, <1>10, <1>11, <1>12

\* Counts grow.
LEMMA CountGrows ==
  ASSUME NEW c, NEW i \in Nat, NEW j \in Nat, i <= j
  PROVE  Count(c, i) <= Count(c, j)
<1>. DEFINE A == {v \in 0 .. i - 1 : Entry(v).chunk = c}
            B == {v \in 0 .. j - 1 : Entry(v).chunk = c}
<1>1. IsFiniteSet(0 .. j - 1)
  BY FS_Interval
<1>2. IsFiniteSet(B)
  BY <1>1, FS_Subset
<1>3. A \in SUBSET B
  OBVIOUS
<1>4. Cardinality(A) <= Cardinality(B)
  BY <1>2, <1>3, FS_Subset
<1>. QED  BY <1>4 DEF Count

\* The chunks of forward and backward passes mirror each other.
LEMMA ChunkIds ==
  ASSUME Known, NEW v \in 0 .. Total - 1
  PROVE  /\ get_model_chunk_id(v, TRUE) = Entry(v).chunk
         /\ get_model_chunk_id(v, FALSE) = V - 1 - Entry(v).chunk
         /\ Entry(v).chunk \in Chunks /\ get_model_chunk_id(v, FALSE) \in Chunks
         /\ Entry(v).microbatch \in 0 .. M - 1
<1>1. V \in Nat /\ Chunks = 0 .. V - 1
  BY LegalLayout DEF Known
<1>2. Entry(v).chunk \in Chunks /\ Entry(v).microbatch \in 0 .. M - 1
  BY TableFacts DEF Entries
<1>. QED  BY <1>1, <1>2 DEF get_model_chunk_id

\* A layer belongs to one chunk of one stage.
LEMMA LayersApart ==
  ASSUME Known, NEW q \in Stages, NEW r \in Stages, NEW c \in Chunks, NEW d \in Chunks
  PROVE  /\ Layer(r, c) \in Layers
         /\ Layer(q, d) = Layer(r, c) => q = r /\ d = c
<1>1. /\ P \in Nat /\ V \in Nat /\ 1 < P /\ 1 < V /\ Chunks = 0 .. V - 1
      /\ q \in 0 .. P - 1 /\ r \in 0 .. P - 1
  BY LegalLayout DEF Known, Stages
<1>2. c * P \in Nat /\ d * P \in Nat /\ c * P + P <= V * P /\ P * V = V * P /\ V * P \in Nat
  BY <1>1, Products
<1>3. Layer(r, c) \in Layers
  BY <1>1, <1>2 DEF Layer, Layers
<1>4. c < d => c * P + P <= d * P
  BY <1>1, Products
<1>5. d < c => d * P + P <= c * P
  BY <1>1, Products
<1>. QED  BY <1>1, <1>2, <1>3, <1>4, <1>5 DEF Layer

-----------------------------------------------------------------------------
(* Where a stage is in its schedule                                        *)

\* Virtual microbatches that a stage with the locals s has passed forward.
Forwarded(r, s) ==
    LET w == num_warmup_microbatches(r)
    IN  IF s.at \in {"begin", "warmup", "warmup_forward"} THEN s.k
        ELSE IF s.at \in {"warmup_backward", "steady"} THEN w + s.k
        ELSE IF s.at = "steady_backward" THEN w + s.k + 1
        ELSE Total

\* Virtual microbatches that it has passed backward.
Backwarded(r, s) ==
    LET w == num_warmup_microbatches(r)
    IN  IF s.at \in {"begin", "warmup", "warmup_forward", "warmup_backward"} THEN 0
        ELSE IF s.at \in {"steady", "steady_backward", "cooldown", "cooldown_backward"} THEN s.k
        ELSE IF s.at = "turn" THEN Total - w
        ELSE IF layout.forward_only THEN 0 ELSE Total

\* Those whose call for the next input it has made.
Called(r, s) ==
    IF s.at = "steady_backward" /\ ~Overlaps THEN Forwarded(r, s) - 1 ELSE Forwarded(r, s)

\* It has called for the first gradient.
Opened(r, s) ==
    /\ ~layout.forward_only
    /\ \/ s.at \in {"steady", "steady_backward", "cooldown", "cooldown_backward",
                    "flushed", "done"}
       \/ s.at = "turn" /\ num_warmup_microbatches(r) < Total

InPlace(r, s) ==
    LET w == num_warmup_microbatches(r)
    IN  /\ s.at \in {"begin", "warmup_backward", "turn"} => s.k = 0
        /\ s.at \in {"warmup", "warmup_forward"} => s.k < w
        /\ s.at = "warmup_backward" => w < Total /\ Overlaps
        /\ s.at \in {"steady", "steady_backward"} => s.k < Total - w
        /\ s.at \in {"cooldown", "cooldown_backward"} => s.k >= Total - w
        /\ s.at = "cooldown_backward" => s.k < Total
        /\ layout.forward_only => s.at \in {"begin", "warmup", "warmup_forward", "flushed", "done"}
        /\ s.at = "warmup_forward" =>
              /\ Prefetches
              /\ s.prefetched # None <=> ReceivesForward(r, s.k)
        /\ s.at = "cooldown_backward" =>
              /\ Prefetches
              /\ s.prefetched # None <=> ReceivesBackward(r, s.k)

Buffers == [call : Nat, side : {"prev", "next"}] \cup {None}
Outputs == [way : {"forward"}, layer : Layers, microbatch : 0 .. M]

IsLocals(s) ==
    /\ s = [at |-> s.at, k |-> s.k, waits |-> s.waits,
            input_tensors |-> s.input_tensors, output_tensors |-> s.output_tensors,
            output_tensor_grads |-> s.output_tensor_grads,
            recv_prev_wait_handles |-> s.recv_prev_wait_handles,
            send_next_wait_handle |-> s.send_next_wait_handle,
            recv_next_wait_handles |-> s.recv_next_wait_handles,
            send_prev_wait_handle |-> s.send_prev_wait_handle,
            prefetched |-> s.prefetched,
            synchronized |-> s.synchronized, param_synced |-> s.param_synced]
    /\ s.at \in Places /\ s.k \in 0 .. Total
    /\ s.input_tensors \in [Chunks -> Seq(Buffers)]
    /\ s.output_tensors \in [Chunks -> Seq(Outputs)]
    /\ s.output_tensor_grads \in [Chunks -> Seq(Buffers)]
    /\ s.prefetched \in Buffers

TypeInv ==
    /\ Known
    /\ calls \in [Stages -> Nat]
    /\ stage = [r \in Stages |-> stage[r]]
    /\ \A r \in Stages : IsLocals(stage[r])
    /\ forwards \in [Layers -> Seq(0 .. M)]
    /\ backwards \in [Layers -> Seq(0 .. M)]
    /\ reductions \in [Layers -> Seq(Nat)]

Positions == TypeInv /\ \A r \in Stages : InPlace(r, stage[r])

-----------------------------------------------------------------------------
(* The locals of a stage after a step                                      *)

\* The warm-up has at least one pass; if it leaves some to the steady state, it
\* has those of all chunks but the last of one group.
LEMMA Warmup ==
  ASSUME Known, NEW r \in Stages
  PROVE  /\ num_warmup_microbatches(r) \in Nat /\ 0 < num_warmup_microbatches(r)
         /\ num_warmup_microbatches(r) <= Total
         /\ layout.forward_only => num_warmup_microbatches(r) = Total
         /\ num_microbatches_remaining(r) = Total - num_warmup_microbatches(r)
         /\ num_warmup_microbatches(r) < Total => (V - 1) * N <= num_warmup_microbatches(r)
<1>1. /\ P \in Nat /\ V \in Nat /\ N \in Nat /\ 1 < V /\ 1 < N /\ Total \in Nat /\ 0 < Total
      /\ r \in 0 .. P - 1
  BY LegalLayout DEF Known, Stages
<1>2. (V - 1) * N \in Nat /\ 1 * N <= (V - 1) * N /\ 1 * N = N
  BY <1>1, Products
<1>3. (P - r - 1) * 2 \in Nat
  BY <1>1
<1>. QED  BY <1>1, <1>2, <1>3 DEF num_warmup_microbatches, num_microbatches_remaining, MinOf

\* The rest of a list is a list.
LEMMA RestType ==
  ASSUME NEW S, NEW list \in Seq(S)
  PROVE  /\ Rest(list) \in Seq(S) /\ Len(list) \in Nat
         /\ Len(Rest(list)) = IF Len(list) = 0 THEN 0 ELSE Len(list) - 1
BY DEF Rest

\* A forward pass is of a microbatch, or of 0 if its input is of none.
LEMMA ForwardOfType ==
  ASSUME Known, NEW r \in Stages, NEW v \in 0 .. Total - 1, NEW inputs
  PROVE  ForwardOf(r, v, inputs) \in 0 .. M
<1>1. M \in Nat
  BY LegalLayout DEF Known
<1>2. Entry(v).microbatch \in 0 .. M - 1
  BY ChunkIds
<1>3. Entry(v).microbatch + 1 \in 0 .. M /\ 0 \in 0 .. M
  BY <1>1, <1>2
<1>. QED  BY <1>3 DEF ForwardOf

\* What forward_step_helper makes of the locals s.
ForwardLocals(s, t, r, v) ==
    LET c == Entry(v).chunk
    IN  /\ IsLocals(t)
        /\ t.at = s.at /\ t.k = s.k /\ t.waits = s.waits /\ t.prefetched = s.prefetched
        /\ t.output_tensor_grads = s.output_tensor_grads
        /\ t.synchronized = s.synchronized
        /\ t.param_synced = s.param_synced \cup ParamSync(r, v)
        /\ t.input_tensors = [s.input_tensors EXCEPT ![c] =
               IF layout.forward_only THEN Rest(InputsFor(s, r, c)) ELSE InputsFor(s, r, c)]
        /\ \A d \in Chunks : Len(t.output_tensors[d]) =
               Len(s.output_tensors[d]) + (IF d = c /\ ~layout.forward_only THEN 1 ELSE 0)

\* forward_step_helper keeps the types of the locals.
LEMMA AfterForwardType ==
  ASSUME TypeInv, NEW r \in Stages, NEW s, IsLocals(s), NEW v \in 0 .. Total - 1
  PROVE  ForwardLocals(s, AfterForward(s, r, v), r, v)
<1>. DEFINE c      == Entry(v).chunk
            inputs == InputsFor(s, r, c)
            output == Activation(Layer(r, c), ForwardOf(r, v, inputs))
            ins    == [s.input_tensors EXCEPT ![c] =
                          IF layout.forward_only THEN Rest(inputs) ELSE inputs]
            outs   == [s.output_tensors EXCEPT ![c] =
                          IF layout.forward_only THEN @ ELSE Append(@, output)]
            t      == AfterForward(s, r, v)
<1>1. Known /\ get_model_chunk_id(v, TRUE) = c /\ c \in Chunks
  BY ChunkIds DEF TypeInv
<1>2. /\ s.input_tensors \in [Chunks -> Seq(Buffers)]
      /\ s.output_tensors \in [Chunks -> Seq(Outputs)]
  BY DEF IsLocals
<1>3. output \in Outputs
  <2>1. Layer(r, c) \in Layers
    BY <1>1, LayersApart
  <2>2. ForwardOf(r, v, inputs) \in 0 .. M
    BY <1>1, ForwardOfType
  <2>. HIDE DEF c, inputs
  <2>. QED  BY <2>1, <2>2 DEF Activation, Outputs
<1>4. inputs \in Seq(Buffers)
  <2>1. None \in Buffers /\ s.input_tensors[c] \in Seq(Buffers)
    BY <1>1, <1>2 DEF Buffers
  <2>. QED  BY <2>1 DEF InputsFor
<1>5. ins \in [Chunks -> Seq(Buffers)]
  <2>. HIDE DEF inputs
  <2>1. Rest(inputs) \in Seq(Buffers)
    BY <1>4, RestType
  <2>. QED  BY <1>2, <1>4, <2>1
<1>6. outs \in [Chunks -> Seq(Outputs)]
  <2>. HIDE DEF output, c
  <2>1. \A list \in Seq(Outputs) : Append(list, output) \in Seq(Outputs)
    BY <1>3
  <2>2. s.output_tensors[c] \in Seq(Outputs)
    BY <1>1, <1>2
  <2>. QED  BY <1>2, <2>1, <2>2
<1>7. \A d \in Chunks : Len(outs[d]) =
         Len(s.output_tensors[d]) + (IF d = c /\ ~layout.forward_only THEN 1 ELSE 0)
  <2>. HIDE DEF output, c
  <2>. TAKE d \in Chunks
  <2>1. s.output_tensors[d] \in Seq(Outputs) /\ Len(s.output_tensors[d]) \in Nat
    BY <1>2
  <2>2. Len(Append(s.output_tensors[d], output)) = Len(s.output_tensors[d]) + 1
    BY <1>3, <2>1
  <2>3. outs[d] = IF d = c /\ ~layout.forward_only THEN Append(s.output_tensors[d], output)
                  ELSE s.output_tensors[d]
    BY <1>1, <1>2
  <2>. HIDE DEF outs
  <2>4. CASE d = c /\ ~layout.forward_only
    BY <2>1, <2>2, <2>3, <2>4
  <2>5. CASE ~ (d = c /\ ~layout.forward_only)
    <3>1. outs[d] = s.output_tensors[d]
      BY <2>3, <2>5
    <3>2. Len(outs[d]) = Len(s.output_tensors[d]) + 0
      BY <2>1, <3>1
    <3>. QED  BY <2>5, <3>2
  <2>. QED  BY <2>4, <2>5
<1>8. t = [s EXCEPT !.param_synced = s.param_synced \cup ParamSync(r, v),
                    !.input_tensors = ins, !.output_tensors = outs]
  <2>. HIDE DEF output, inputs
  <2>1. t = [s EXCEPT !.param_synced = @ \cup ParamSync(r, v),
                  !.input_tensors[c]  = IF layout.forward_only THEN Rest(inputs) ELSE inputs,
                  !.output_tensors[c] = IF layout.forward_only THEN @ ELSE Append(@, output)]
    BY <1>1 DEF AfterForward, inputs, output
  <2>. HIDE DEF t, c
  <2>. QED  BY <2>1 DEF IsLocals
<1>. HIDE DEF t, ins, outs, output, inputs, c
<1>9. /\ t.at = s.at /\ t.k = s.k /\ t.waits = s.waits /\ t.prefetched = s.prefetched
      /\ t.output_tensor_grads = s.output_tensor_grads
      /\ t.synchronized = s.synchronized
      /\ t.param_synced = s.param_synced \cup ParamSync(r, v)
      /\ t.input_tensors = ins /\ t.output_tensors = outs
  BY <1>8 DEF IsLocals
<1>10. IsLocals(t)
  BY <1>5, <1>6, <1>8, <1>9 DEF IsLocals
<1>. QED  BY <1>7, <1>9, <1>10 DEF ForwardLocals, t, ins, outs, inputs, c

\* A backward pass is of a microbatch, or of 0 if its tensors are of none.
LEMMA BackwardOfType ==
  ASSUME Known, NEW r \in Stages, NEW c, NEW list \in Seq(Outputs), NEW buffer
  PROVE  BackwardOf(r, c, At(list, 1), buffer) \in 0 .. M
<1>1. M \in Nat
  BY LegalLayout DEF Known
<1>2. CASE 1 \in DOMAIN list
  <2>1. At(list, 1) \in Outputs
    BY <1>2, ElementOfSeq DEF At
  <2>2. At(list, 1).microbatch \in 0 .. M
    BY <2>1 DEF Outputs
  <2>. QED  BY <1>1, <2>2 DEF BackwardOf
<1>3. CASE 1 \notin DOMAIN list
  <2>1. At(list, 1) = None
    BY <1>3 DEF At
  <2>. QED  BY <1>1, <2>1 DEF BackwardOf
<1>. QED  BY <1>2, <1>3

\* What backward_step_helper makes of the locals s.
BackwardLocals(s, t, r, v) ==
    LET c == V - 1 - Entry(v).chunk
    IN  /\ IsLocals(t) /\ c \in Chunks
        /\ t.at = s.at /\ t.k = s.k /\ t.waits = s.waits /\ t.prefetched = s.prefetched
        /\ t.param_synced = s.param_synced
        /\ t.synchronized = s.synchronized \cup SyncsAfterwards(r, v)
                             \cup (IF SyncsInBackward(v) THEN {c} ELSE {})
        /\ t.input_tensors  = [s.input_tensors EXCEPT ![c] = Rest(@)]
        /\ t.output_tensors = [s.output_tensors EXCEPT ![c] = Rest(@)]
        /\ t.output_tensor_grads = [s.output_tensor_grads EXCEPT ![c] = Rest(@)]

\* backward_step_helper keeps the types of the locals.
LEMMA AfterBackwardType ==
  ASSUME TypeInv, NEW r \in Stages, NEW s, IsLocals(s), NEW v \in 0 .. Total - 1
  PROVE  BackwardLocals(s, AfterBackward(s, r, v), r, v)
<1>. DEFINE c     == V - 1 - Entry(v).chunk
            ins   == [s.input_tensors EXCEPT ![c] = Rest(@)]
            outs  == [s.output_tensors EXCEPT ![c] = Rest(@)]
            grads == [s.output_tensor_grads EXCEPT ![c] = Rest(@)]
            synced == s.synchronized \cup SyncsAfterwards(r, v)
                                  \cup (IF SyncsInBackward(v) THEN {c} ELSE {})
            t     == AfterBackward(s, r, v)
<1>1. Known /\ get_model_chunk_id(v, FALSE) = c /\ c \in Chunks
  BY ChunkIds DEF TypeInv
<1>2. /\ s.input_tensors \in [Chunks -> Seq(Buffers)]
      /\ s.output_tensors \in [Chunks -> Seq(Outputs)]
      /\ s.output_tensor_grads \in [Chunks -> Seq(Buffers)]
  BY DEF IsLocals
<1>3. /\ \A S : \A list \in Seq(S) : Rest(list) \in Seq(S)
  BY RestType
<1>4. /\ ins \in [Chunks -> Seq(Buffers)] /\ outs \in [Chunks -> Seq(Outputs)]
      /\ grads \in [Chunks -> Seq(Buffers)]
  <2>. HIDE DEF c
  <2>. QED  BY <1>1, <1>2, <1>3
<1>5. t = [s EXCEPT !.input_tensors = ins, !.output_tensors = outs,
                    !.output_tensor_grads = grads, !.synchronized = synced]
  <2>1. t = [s EXCEPT !.input_tensors[c]  = Rest(@),
                  !.output_tensors[c] = Rest(@),
                  !.output_tensor_grads[c] = Rest(@),
                  !.synchronized = @ \cup SyncsAfterwards(r, v)
                                     \cup (IF SyncsInBackward(v) THEN {c} ELSE {})]
    BY <1>1 DEF AfterBackward
  <2>. HIDE DEF t, c
  <2>. QED  BY <2>1 DEF IsLocals
<1>. HIDE DEF t, ins, outs, grads, synced, c
<1>6. /\ t.at = s.at /\ t.k = s.k /\ t.waits = s.waits /\ t.prefetched = s.prefetched
      /\ t.param_synced = s.param_synced /\ t.synchronized = synced
      /\ t.input_tensors = ins /\ t.output_tensors = outs /\ t.output_tensor_grads = grads
  BY <1>5 DEF IsLocals
<1>7. IsLocals(t)
  BY <1>4, <1>5, <1>6 DEF IsLocals
<1>. QED  BY <1>1, <1>6, <1>7 DEF BackwardLocals, t, ins, outs, grads, synced, c

\* Lists that grow by one element in chunk c, if wanted.
GrowBy(old, new, c, wanted) ==
    \A d \in Chunks : Len(new[d]) = Len(old[d]) + (IF wanted /\ d = c THEN 1 ELSE 0)

\* A neighbour that sends, sends for a chunk of this stage.
LEMMA PeerSendsType ==
  ASSUME Known, NEW r \in Stages, NEW v \in 0 .. Total - 1, NEW forward \in BOOLEAN
  PROVE  /\ PeerSends(r, v, forward).recv \in BOOLEAN
         /\ v # Total - 1 /\ PeerSends(r, v, forward).recv => PeerSends(r, v, forward).chunk \in Chunks
<1>. DEFINE aligned == get_model_chunk_id(v - (P - 1), forward)
<1>1. /\ P \in Nat /\ V \in Nat /\ 1 < P /\ 1 < V /\ Total \in Nat /\ Chunks = 0 .. V - 1
      /\ r \in 0 .. P - 1
  BY LegalLayout DEF Known, Stages
<1>2. v >= P - 1 => aligned \in Chunks
  <2>1. v >= P - 1 => v - (P - 1) \in 0 .. Total - 1
    BY <1>1
  <2>. QED  BY <2>1, ChunkIds
<1>3. v # Total - 1 => get_model_chunk_id(v + 1, forward) \in Chunks
  <2>1. v # Total - 1 => v + 1 \in 0 .. Total - 1
    BY <1>1
  <2>. QED  BY <2>1, ChunkIds
<1>. DEFINE leading == IF forward THEN is_pp_first_stage(r) ELSE is_pp_last_stage(r)
            sends   == PeerSends(r, v, forward)
            last    == IF forward THEN V - 1 ELSE 0
<1>4. /\ ~leading => sends = [recv |-> TRUE, chunk |-> get_model_chunk_id(v + 1, forward)]
      /\ leading /\ v < P - 1 => sends = [recv |-> FALSE, chunk |-> 0]
      /\ leading /\ ~ (v < P - 1) =>
            sends = [recv |-> aligned # last, chunk |-> IF forward THEN aligned + 1 ELSE aligned - 1]
  BY DEF PeerSends
<1>. HIDE DEF aligned, leading, sends, last
<1>5. CASE ~leading
  <2>1. sends.recv = TRUE /\ sends.chunk = get_model_chunk_id(v + 1, forward)
    BY <1>4, <1>5
  <2>. QED  BY <1>3, <2>1 DEF sends
<1>6. CASE leading /\ v < P - 1
  <2>1. sends.recv = FALSE
    BY <1>4, <1>6
  <2>. QED  BY <2>1 DEF sends
<1>7. CASE leading /\ ~ (v < P - 1)
  <2>1. aligned \in 0 .. V - 1
    BY <1>1, <1>2, <1>7
  <2>2. aligned # last => (IF forward THEN aligned + 1 ELSE aligned - 1) \in 0 .. V - 1
    BY <1>1, <2>1 DEF last
  <2>3. /\ sends.recv = (aligned # last)
        /\ sends.chunk = IF forward THEN aligned + 1 ELSE aligned - 1
    <3>. DEFINE a == aligned # last
                b == IF forward THEN aligned + 1 ELSE aligned - 1
    <3>1. sends = [recv |-> a, chunk |-> b]
      BY <1>4, <1>7
    <3>. HIDE DEF a, b
    <3>2. sends.recv = a /\ sends.chunk = b
      BY <3>1
    <3>. QED  BY <3>2 DEF a, b
  <2>4. sends.recv \in BOOLEAN /\ (sends.recv => sends.chunk \in 0 .. V - 1)
    BY <2>2, <2>3, Zenon
  <2>. QED  BY <1>1, <2>4 DEF sends
<1>. QED  BY <1>5, <1>6, <1>7

\* The tensor a receive is started for.
LEMMA BufferType ==
  ASSUME TypeInv, NEW r \in Stages, NEW side \in {"next", "prev"}
  PROVE  Buffer(r, side) \in Buffers /\ Buffer(r, side) # None /\ None \in Buffers
<1>1. calls[r] + 1 \in Nat
  BY DEF TypeInv
<1>. QED  BY <1>1, NoneAssumption DEF Buffer, Buffers

\* A received tensor joins its list.
LEMMA AddBufferType ==
  ASSUME TypeInv, NEW r \in Stages, NEW lists \in [Chunks -> Seq(Buffers)],
         NEW c, NEW side \in {"next", "prev"}, NEW wanted \in BOOLEAN, wanted => c \in Chunks
  PROVE  /\ AddBuffer(lists, c, r, side, wanted) \in [Chunks -> Seq(Buffers)]
         /\ GrowBy(lists, AddBuffer(lists, c, r, side, wanted), c, wanted)
<1>2. Buffer(r, side) \in Buffers
  BY BufferType
<1>3. \A d \in Chunks : /\ lists[d] \in Seq(Buffers) /\ Len(lists[d]) \in Nat
                        /\ Append(lists[d], Buffer(r, side)) \in Seq(Buffers)
                        /\ Len(Append(lists[d], Buffer(r, side))) = Len(lists[d]) + 1
  BY <1>2
<1>4. CASE wanted
  <2>1. AddBuffer(lists, c, r, side, wanted) = [lists EXCEPT ![c] = Append(lists[c], Buffer(r, side))]
    BY <1>4 DEF AddBuffer
  <2>. DEFINE new == AddBuffer(lists, c, r, side, wanted)
  <2>2. \A d \in Chunks : new[d] = IF d = c THEN Append(lists[d], Buffer(r, side)) ELSE lists[d]
    BY <1>4, <2>1
  <2>3. new \in [Chunks -> Seq(Buffers)]
    BY <1>3, <1>4, <2>1
  <2>. HIDE DEF new
  <2>4. GrowBy(lists, new, c, wanted)
    <3>. SUFFICES ASSUME NEW d \in Chunks
                  PROVE Len(new[d]) = Len(lists[d]) + (IF wanted /\ d = c THEN 1 ELSE 0)
      BY DEF GrowBy
    <3>1. CASE d = c
      BY <1>3, <1>4, <2>2, <3>1
    <3>2. CASE d # c
      <4>1. new[d] = lists[d] /\ Len(lists[d]) = Len(lists[d]) + 0
        BY <1>3, <2>2, <3>2
      <4>. QED  BY <3>2, <4>1
    <3>. QED  BY <3>1, <3>2
  <2>. QED  BY <2>3, <2>4 DEF new
<1>5. CASE ~wanted
  BY <1>2, <1>3, <1>5 DEF AddBuffer, GrowBy
<1>. QED  BY <1>4, <1>5

\* A prefetched tensor joins its list.
LEMMA AddPrefetchedType ==
  ASSUME NEW lists \in [Chunks -> Seq(Buffers)], NEW slot \in Buffers,
         NEW c, NEW wanted \in BOOLEAN, wanted => c \in Chunks, slot # None <=> wanted
  PROVE  /\ AddPrefetched(lists, c, slot) \in [Chunks -> Seq(Buffers)]
         /\ GrowBy(lists, AddPrefetched(lists, c, slot), c, wanted)
<1>1. \A d \in Chunks : /\ lists[d] \in Seq(Buffers) /\ Len(lists[d]) \in Nat
                        /\ Append(lists[d], slot) \in Seq(Buffers)
                        /\ Len(Append(lists[d], slot)) = Len(lists[d]) + 1
  OBVIOUS
<1>2. CASE wanted
  <2>. DEFINE new == [lists EXCEPT ![c] = Append(lists[c], slot)]
  <2>1. \A d \in Chunks : new[d] = IF d = c THEN Append(lists[d], slot) ELSE lists[d]
    BY <1>2
  <2>2. new \in [Chunks -> Seq(Buffers)]
    BY <1>1, <1>2
  <2>3. new = AddPrefetched(lists, c, slot)
    BY <1>2 DEF AddPrefetched
  <2>. HIDE DEF new
  <2>4. GrowBy(lists, new, c, wanted)
    <3>. SUFFICES ASSUME NEW d \in Chunks
                  PROVE Len(new[d]) = Len(lists[d]) + (IF wanted /\ d = c THEN 1 ELSE 0)
      BY DEF GrowBy
    <3>1. CASE d = c
      BY <1>1, <1>2, <2>1, <3>1
    <3>2. CASE d # c
      <4>1. new[d] = lists[d] /\ Len(lists[d]) = Len(lists[d]) + 0
        BY <1>1, <2>1, <3>2
      <4>. QED  BY <3>2, <4>1
    <3>. QED  BY <3>1, <3>2
  <2>. QED  BY <2>2, <2>3, <2>4
<1>3. CASE ~wanted
  BY <1>1, <1>3 DEF GrowBy, AddPrefetched
<1>. QED  BY <1>2, <1>3

\* What a step of stage r leaves alone, and the types of what it changes.
Steps(r) ==
    /\ layout' = layout /\ schedule_table' = schedule_table
    /\ calls' \in [Stages -> Nat]
    /\ stage' = [stage EXCEPT ![r] = stage'[r]]
    /\ IsLocals(stage'[r]) /\ InPlace(r, stage'[r])

\* A forward pass, with or without the call for the next input.
ForwardMove(r, v, calling) ==
    LET s    == stage[r]
        t    == stage'[r]
        done == AfterForward(s, r, v)
    IN  /\ v = Forwarded(r, s) /\ v \in 0 .. Total - 1 /\ s.at # "begin" /\ t.at \notin {"begin", "warmup_forward"}
        /\ ForwardStep(r, v) /\ UNCHANGED <<backwards, reductions>>
        /\ Forwarded(r, t) = v + 1 /\ Backwarded(r, t) = Backwarded(r, s)
        /\ Called(r, s) = v /\ Called(r, t) = IF calling THEN v + 1 ELSE v
        /\ t.at \in {"flushed", "done"} => layout.forward_only
        /\ t.synchronized = s.synchronized /\ t.param_synced = done.param_synced
        /\ t.output_tensors = done.output_tensors
        /\ GrowBy(done.input_tensors, t.input_tensors, PeerSends(r, v, TRUE).chunk,
                  calling /\ ReceivesForward(r, v))
        /\ IF Opened(r, t) /\ ~Opened(r, s)
           THEN /\ \A d \in Chunks : d # V - 1 => t.output_tensor_grads[d] = s.output_tensor_grads[d]
                /\ Len(t.output_tensor_grads[V - 1]) = 1
           ELSE t.output_tensor_grads = s.output_tensor_grads /\ (Opened(r, t) <=> Opened(r, s))

\* The locals of a stage after an assignment to them.
LEMMA StageUpdate ==
  ASSUME stage = [q \in Stages |-> stage[q]], NEW r \in Stages, NEW x,
         stage' = [stage EXCEPT ![r] = x]
  PROVE  stage'[r] = x /\ stage' = [stage EXCEPT ![r] = stage'[r]]
OBVIOUS

\* A call is counted.
LEMMA StartType ==
  ASSUME TypeInv, NEW r \in Stages, NEW ops, Start(r, ops)
  PROVE  calls' \in [Stages -> Nat]
BY DEF TypeInv, Start

\* In the warm-up.
LEMMA WarmupForwardMoves ==
  ASSUME Positions, NEW r \in Stages, WarmupForward(r)
  PROVE  Steps(r) /\ \E v \in 0 .. Total - 1 : ForwardMove(r, v, TRUE)
<1>. DEFINE s    == stage[r]
            t    == stage'[r]
            v    == stage[r].k
            w    == num_warmup_microbatches(r)
            recv == ReceivesForward(r, v)
            takes == Prefetches /\ AwaitsInput(r, v)
            handles == stage[r].recv_prev_wait_handles
            rest == IF takes THEN Rest(handles) ELSE handles
            turns == AfterWarmup(r, v) = "steady"
            grad == turns /\ ~is_pp_last_stage(r)
            ops  == SendOutput(r, v) \cup ReceiveIf(r, "prev", recv) \cup ReceiveIf(r, "next", grad)
            done == AfterForward(stage[r], r, v)
            next == PeerSends(r, v, TRUE).chunk
            k    == IF v < w - 1 THEN v + 1 ELSE 0
            ins  == AddBuffer(done.input_tensors, next, r, "prev", recv)
            buffer == IF grad THEN Buffer(r, "next") ELSE None
            grads == [done.output_tensor_grads EXCEPT ![V - 1] = IF turns THEN <<buffer>> ELSE @]
<1>1. /\ TypeInv /\ Known /\ IsLocals(s) /\ InPlace(r, s) /\ stage = [q \in Stages |-> stage[q]]
  BY DEF Positions, TypeInv
<1>2. /\ V \in Nat /\ 1 < V /\ Total \in Nat /\ Chunks = 0 .. V - 1
      /\ w \in Nat /\ 0 < w /\ w <= Total /\ (layout.forward_only => w = Total)
      /\ layout.forward_only \in BOOLEAN /\ Overlaps \in BOOLEAN /\ (Prefetches => Overlaps)
  BY <1>1, LegalLayout, Warmup DEF Known, Overlaps, Prefetches
<1>3. /\ s.at = "warmup" /\ v < w
      /\ ForwardStep(r, v) /\ Start(r, ops)
      /\ layout' = layout /\ schedule_table' = schedule_table
      /\ UNCHANGED <<backwards, reductions>>
  BY DEF WarmupForward, In
<1>4. v \in 0 .. Total - 1
  BY <1>1, <1>2, <1>3 DEF IsLocals
<1>5. /\ IsLocals(done) /\ done.at = s.at /\ done.k = s.k /\ done.synchronized = s.synchronized
      /\ done.output_tensor_grads = s.output_tensor_grads
  <2>1. ForwardLocals(s, done, r, v)
    BY <1>1, <1>4, AfterForwardType
  <2>. HIDE DEF s, done, v
  <2>. QED  BY <2>1 DEF ForwardLocals
<1>6. stage' = [stage EXCEPT ![r] = [done EXCEPT
                !.at = AfterWarmup(r, v),
                !.k = IF v < w - 1 THEN @ + 1 ELSE 0,
                !.waits = IF Prefetches THEN stage[r].send_next_wait_handle ELSE Handles(ops),
                !.send_next_wait_handle = IF Prefetches THEN Sends(ops) ELSE {},
                !.recv_prev_wait_handles =
                    IF Prefetches THEN AddHandle(rest, r, "prev", recv) ELSE rest,
                !.input_tensors = AddBuffer(@, next, r, "prev", recv),
                !.output_tensor_grads[V - 1] = IF turns THEN <<buffer>> ELSE @]]
  BY DEF WarmupForward
<1>7. recv \in BOOLEAN /\ (recv => next \in Chunks)
  BY <1>1, <1>4, PeerSendsType DEF ReceivesForward
<1>8. /\ ins \in [Chunks -> Seq(Buffers)] /\ GrowBy(done.input_tensors, ins, next, recv)
      /\ buffer \in Buffers
  <2>1. done.input_tensors \in [Chunks -> Seq(Buffers)]
    BY <1>5 DEF IsLocals
  <2>. HIDE DEF done, next, recv
  <2>2. buffer \in Buffers
    BY <1>1, BufferType
  <2>. QED  BY <1>1, <1>7, <2>1, <2>2, AddBufferType
<1>9. /\ grads \in [Chunks -> Seq(Buffers)]
      /\ ~turns => grads = s.output_tensor_grads
      /\ turns => /\ \A d \in Chunks : d # V - 1 => grads[d] = s.output_tensor_grads[d]
                  /\ Len(grads[V - 1]) = 1
  <2>1. s.output_tensor_grads \in [Chunks -> Seq(Buffers)]
    BY <1>1 DEF IsLocals
  <2>2. V - 1 \in Chunks
    BY <1>2
  <2>. HIDE DEF done, buffer, turns
  <2>3. <<buffer>> \in Seq(Buffers) /\ Len(<<buffer>>) = 1
    BY <1>8
  <2>. QED  BY <1>5, <2>1, <2>2, <2>3
<1>. DEFINE waits == IF Prefetches THEN stage[r].send_next_wait_handle ELSE Handles(ops)
            sends == IF Prefetches THEN Sends(ops) ELSE {}
            recvs == IF Prefetches THEN AddHandle(rest, r, "prev", recv) ELSE rest
<1>. HIDE DEF ops, rest, next, recv, turns, buffer
<1>10. t = [done EXCEPT !.at = AfterWarmup(r, v), !.k = k, !.waits = waits,
                        !.send_next_wait_handle = sends, !.recv_prev_wait_handles = recvs,
                        !.input_tensors = ins, !.output_tensor_grads = grads]
       /\ stage' = [stage EXCEPT ![r] = t]
  <2>. HIDE DEF done
  <2>. QED  BY <1>1, <1>5, <1>6 DEF IsLocals
<1>. HIDE DEF t, done, ins, grads, k, waits, sends, recvs
<1>11. /\ t.at = AfterWarmup(r, v) /\ t.k = k /\ t.input_tensors = ins
       /\ t.output_tensor_grads = grads
       /\ t.output_tensors = done.output_tensors /\ t.prefetched = done.prefetched
       /\ t.synchronized = done.synchronized /\ t.param_synced = done.param_synced
  BY <1>5, <1>10 DEF IsLocals
<1>12. /\ t.at \in {"warmup", "flushed", "turn", "warmup_backward", "steady"}
       /\ t.at = "warmup" <=> v < w - 1
       /\ k = IF v < w - 1 THEN v + 1 ELSE 0
       /\ t.at # "warmup" =>
            /\ t.at = "flushed" <=> layout.forward_only
            /\ t.at = "turn" => w = Total
            /\ t.at \in {"warmup_backward", "steady"} => w < Total
            /\ t.at = "warmup_backward" => Overlaps
            /\ t.at = "steady" <=> turns
       /\ turns => t.at = "steady"
  BY <1>2, <1>3, <1>4, <1>11 DEF AfterWarmup, are_all_microbatches_in_warmup, turns, k
<1>13. k \in 0 .. Total
  BY <1>2, <1>4, <1>12
<1>14. IsLocals(t)
  BY <1>5, <1>8, <1>9, <1>10, <1>11, <1>12, <1>13 DEF IsLocals, Places
<1>15. InPlace(r, t)
  BY <1>2, <1>4, <1>11, <1>12 DEF InPlace
<1>16. Steps(r)
  BY <1>1, <1>3, <1>10, <1>14, <1>15, StartType DEF Steps, t
<1>17. /\ Forwarded(r, s) = v /\ Forwarded(r, t) = v + 1
       /\ Backwarded(r, s) = 0 /\ Backwarded(r, t) = 0
       /\ Called(r, s) = v /\ Called(r, t) = v + 1
  BY <1>2, <1>3, <1>4, <1>11, <1>12 DEF Forwarded, Backwarded, Called
<1>18. /\ ~Opened(r, s) /\ (Opened(r, t) <=> turns)
  BY <1>2, <1>3, <1>12 DEF Opened
<1>19. \E u \in 0 .. Total - 1 : ForwardMove(r, u, TRUE)
  <2>1. \A d \in BOOLEAN : (TRUE /\ d) = d
    OBVIOUS
  <2>2. GrowBy(done.input_tensors, t.input_tensors, next, TRUE /\ recv)
    BY <1>7, <1>8, <1>11, <2>1, Zenon
  <2>3. /\ IF Opened(r, t) /\ ~Opened(r, s)
           THEN /\ \A d \in Chunks : d # V - 1 => t.output_tensor_grads[d] = s.output_tensor_grads[d]
                /\ Len(t.output_tensor_grads[V - 1]) = 1
           ELSE t.output_tensor_grads = s.output_tensor_grads /\ (Opened(r, t) <=> Opened(r, s))
    BY <1>9, <1>11, <1>18
  <2>4. t.at \in {"flushed", "done"} => layout.forward_only
    BY <1>12
  <2>5. s.at # "begin" /\ t.at \notin {"begin", "warmup_forward"}
    BY <1>3, <1>12
  <2>6. ForwardMove(r, v, TRUE)
    BY <1>3, <1>4, <1>5, <1>11, <1>17, <2>2, <2>3, <2>4, <2>5 DEF ForwardMove, t, done, next, recv
  <2>. QED  BY <1>4, <2>6
<1>. QED  BY <1>16, <1>19

\* In the warm-up, with the input of the next pass under way.
LEMMA WarmupForwardPrefetchedMoves ==
  ASSUME Positions, NEW r \in Stages, WarmupForwardPrefetched(r)
  PROVE  Steps(r) /\ \E v \in 0 .. Total - 1 : ForwardMove(r, v, TRUE)
<1>. DEFINE s    == stage[r]
            t    == stage'[r]
            v    == stage[r].k
            w    == num_warmup_microbatches(r)
            ops  == SendOutput(r, v)
            done == AfterForward(stage[r], r, v)
            next == PeerSends(r, v, TRUE).chunk
            k    == IF v < w - 1 THEN v + 1 ELSE 0
            slot == stage[r].prefetched
            recv == ReceivesForward(r, v)
            ins  == AddPrefetched(done.input_tensors, next, slot)
<1>1. /\ TypeInv /\ Known /\ IsLocals(s) /\ InPlace(r, s) /\ stage = [q \in Stages |-> stage[q]]
  BY DEF Positions, TypeInv
<1>2. /\ V \in Nat /\ 1 < V /\ Total \in Nat /\ Chunks = 0 .. V - 1
      /\ w \in Nat /\ 0 < w /\ w <= Total /\ (layout.forward_only => w = Total)
      /\ layout.forward_only \in BOOLEAN /\ Overlaps \in BOOLEAN /\ (Prefetches => Overlaps)
  BY <1>1, LegalLayout, Warmup DEF Known, Overlaps, Prefetches
<1>3. /\ s.at = "warmup_forward" /\ v < w /\ Prefetches
      /\ ForwardStep(r, v) /\ Start(r, ops)
      /\ layout' = layout /\ schedule_table' = schedule_table
      /\ UNCHANGED <<backwards, reductions>>
      /\ (slot # None <=> recv)
  BY <1>1 DEF WarmupForwardPrefetched, In, InPlace
<1>4. v \in 0 .. Total - 1
  BY <1>1, <1>2, <1>3 DEF IsLocals
<1>5. /\ IsLocals(done) /\ done.at = s.at /\ done.k = s.k /\ done.synchronized = s.synchronized
      /\ done.output_tensor_grads = s.output_tensor_grads
  <2>1. ForwardLocals(s, done, r, v)
    BY <1>1, <1>4, AfterForwardType
  <2>. HIDE DEF s, done, v
  <2>. QED  BY <2>1 DEF ForwardLocals
<1>6. stage' = [stage EXCEPT ![r] = [done EXCEPT
                !.at = AfterWarmup(r, v),
                !.k = IF v < w - 1 THEN @ + 1 ELSE 0,
                !.waits = stage[r].send_next_wait_handle,
                !.send_next_wait_handle = Sends(ops),
                !.input_tensors = AddPrefetched(@, next, slot)]]
  BY DEF WarmupForwardPrefetched
<1>7. recv \in BOOLEAN /\ (recv => next \in Chunks)
  BY <1>1, <1>4, PeerSendsType DEF ReceivesForward
<1>8. ins \in [Chunks -> Seq(Buffers)] /\ GrowBy(done.input_tensors, ins, next, recv)
  <2>1. done.input_tensors \in [Chunks -> Seq(Buffers)] /\ slot \in Buffers
    BY <1>1, <1>5 DEF IsLocals
  <2>. HIDE DEF done, next, recv, slot
  <2>. QED  BY <1>3, <1>7, <2>1, AddPrefetchedType
<1>. DEFINE sends == Sends(ops)
            waits == stage[r].send_next_wait_handle
<1>. HIDE DEF ops, next, recv, slot
<1>10. t = [done EXCEPT !.at = AfterWarmup(r, v), !.k = k, !.waits = waits,
                        !.send_next_wait_handle = sends, !.input_tensors = ins]
       /\ stage' = [stage EXCEPT ![r] = t]
  <2>. HIDE DEF done
  <2>. QED  BY <1>1, <1>5, <1>6 DEF IsLocals
<1>. HIDE DEF t, done, ins, k, waits, sends
<1>11. /\ t.at = AfterWarmup(r, v) /\ t.k = k /\ t.input_tensors = ins
       /\ t.output_tensor_grads = done.output_tensor_grads
       /\ t.output_tensors = done.output_tensors /\ t.prefetched = done.prefetched
       /\ t.synchronized = done.synchronized /\ t.param_synced = done.param_synced
  BY <1>5, <1>10 DEF IsLocals
<1>12. /\ t.at \in {"warmup", "flushed", "turn", "warmup_backward"}
       /\ t.at = "warmup" <=> v < w - 1
       /\ k = IF v < w - 1 THEN v + 1 ELSE 0
       /\ t.at # "warmup" =>
            /\ t.at = "flushed" <=> layout.forward_only
            /\ t.at = "turn" => w = Total
            /\ t.at = "warmup_backward" => w < Total /\ Overlaps
  BY <1>2, <1>3, <1>4, <1>11 DEF AfterWarmup, are_all_microbatches_in_warmup, k
<1>13. k \in 0 .. Total
  BY <1>2, <1>4, <1>12
<1>14. IsLocals(t)
  BY <1>5, <1>8, <1>10, <1>11, <1>12, <1>13 DEF IsLocals, Places
<1>15. InPlace(r, t)
  BY <1>2, <1>4, <1>11, <1>12 DEF InPlace
<1>16. Steps(r)
  BY <1>1, <1>3, <1>10, <1>14, <1>15, StartType DEF Steps, t
<1>17. /\ Forwarded(r, s) = v /\ Forwarded(r, t) = v + 1
       /\ Backwarded(r, s) = 0 /\ Backwarded(r, t) = 0
       /\ Called(r, s) = v /\ Called(r, t) = v + 1
  BY <1>2, <1>3, <1>4, <1>11, <1>12 DEF Forwarded, Backwarded, Called
<1>18. ~Opened(r, s) /\ ~Opened(r, t)
  BY <1>2, <1>3, <1>12 DEF Opened
<1>19. \E u \in 0 .. Total - 1 : ForwardMove(r, u, TRUE)
  <2>2. GrowBy(done.input_tensors, t.input_tensors, next, TRUE /\ recv)
    BY <1>7, <1>8, <1>11, Zenon
  <2>3. /\ IF Opened(r, t) /\ ~Opened(r, s)
           THEN /\ \A d \in Chunks : d # V - 1 => t.output_tensor_grads[d] = s.output_tensor_grads[d]
                /\ Len(t.output_tensor_grads[V - 1]) = 1
           ELSE t.output_tensor_grads = s.output_tensor_grads /\ (Opened(r, t) <=> Opened(r, s))
    BY <1>5, <1>11, <1>18
  <2>4. t.at \in {"flushed", "done"} => layout.forward_only
    BY <1>12
  <2>5. s.at # "begin" /\ t.at \notin {"begin", "warmup_forward"}
    BY <1>3, <1>12
  <2>6. ForwardMove(r, v, TRUE)
    BY <1>3, <1>4, <1>5, <1>11, <1>17, <2>2, <2>3, <2>4, <2>5 DEF ForwardMove, t, done, next, recv
  <2>. QED  BY <1>4, <2>6
<1>. QED  BY <1>16, <1>19

\* In the steady state.
LEMMA SteadyForwardMoves ==
  ASSUME Positions, NEW r \in Stages, SteadyForward(r)
  PROVE  Steps(r) /\ \E v \in 0 .. Total - 1 : ForwardMove(r, v, Overlaps)
<1>. DEFINE s    == stage[r]
            t    == stage'[r]
            w    == num_warmup_microbatches(r)
            v    == stage[r].k + num_warmup_microbatches(r)
            recv == PeerSends(r, v, TRUE).recv /\ ~LastIteration(r)
            takes == Overlaps /\ ~FirstLayer(r, get_model_chunk_id(v, TRUE))
            handles == stage[r].recv_prev_wait_handles
            rest == IF takes THEN Rest(handles) ELSE handles
            ops  == SendOutput(r, v) \cup ReceiveIf(r, "prev", recv)
            done == AfterForward(stage[r], r, v)
            next == PeerSends(r, v, TRUE).chunk
            ins  == IF Overlaps THEN AddBuffer(done.input_tensors, next, r, "prev", recv)
                    ELSE done.input_tensors
<1>1. /\ TypeInv /\ Known /\ IsLocals(s) /\ InPlace(r, s) /\ stage = [q \in Stages |-> stage[q]]
      /\ calls \in [Stages -> Nat]
  BY DEF Positions, TypeInv
<1>2. /\ V \in Nat /\ 1 < V /\ Total \in Nat /\ Chunks = 0 .. V - 1
      /\ w \in Nat /\ 0 < w /\ w <= Total
      /\ num_microbatches_remaining(r) = Total - w
      /\ layout.forward_only \in BOOLEAN /\ Overlaps \in BOOLEAN /\ (Prefetches => Overlaps)
  BY <1>1, LegalLayout, Warmup DEF Known, Overlaps, Prefetches
<1>3. /\ s.at = "steady" /\ s.k < Total - w /\ s.k \in Nat
      /\ ForwardStep(r, v)
      /\ layout' = layout /\ schedule_table' = schedule_table
      /\ UNCHANGED <<backwards, reductions>>
      /\ ~layout.forward_only
  BY <1>1, <1>2 DEF SteadyForward, In, InPlace, IsLocals
<1>4. v \in 0 .. Total - 1
  BY <1>2, <1>3
<1>5. /\ IsLocals(done) /\ done.at = s.at /\ done.k = s.k /\ done.synchronized = s.synchronized
      /\ done.output_tensor_grads = s.output_tensor_grads
  <2>1. ForwardLocals(s, done, r, v)
    BY <1>1, <1>4, AfterForwardType
  <2>. HIDE DEF s, done, v
  <2>. QED  BY <2>1 DEF ForwardLocals
<1>6. /\ Overlaps => /\ Start(r, ops)
                     /\ stage' = [stage EXCEPT ![r] =
                          [[done EXCEPT !.at = "steady_backward", !.waits = {}] EXCEPT
                        !.waits = stage[r].send_next_wait_handle,
                        !.send_next_wait_handle = Sends(ops),
                        !.recv_prev_wait_handles = AddHandle(rest, r, "prev", recv),
                        !.input_tensors = AddBuffer(@, next, r, "prev", recv)]]
      /\ ~Overlaps => /\ calls' = calls
                      /\ stage' = [stage EXCEPT ![r] =
                              [done EXCEPT !.at = "steady_backward", !.waits = {}]]
  BY <1>2 DEF SteadyForward
<1>7. /\ recv = ReceivesForward(r, v) /\ recv \in BOOLEAN /\ (recv => next \in Chunks)
  <2>1. LastIteration(r) <=> v = Total - 1
    BY <1>2, <1>3 DEF LastIteration
  <2>2. recv = ReceivesForward(r, v)
    BY <2>1 DEF ReceivesForward
  <2>. HIDE DEF v, next, recv
  <2>. QED  BY <1>1, <1>4, <2>2, PeerSendsType DEF ReceivesForward, next
<1>8. ins \in [Chunks -> Seq(Buffers)] /\ GrowBy(done.input_tensors, ins, next, Overlaps /\ recv)
  <2>1. done.input_tensors \in [Chunks -> Seq(Buffers)]
    BY <1>5 DEF IsLocals
  <2>. HIDE DEF done, next, recv
  <2>2. CASE Overlaps
    <3>1. (Overlaps /\ recv) = recv
      BY <1>2, <1>7, <2>2
    <3>2. GrowBy(done.input_tensors, AddBuffer(done.input_tensors, next, r, "prev", recv), next, recv)
          /\ AddBuffer(done.input_tensors, next, r, "prev", recv) \in [Chunks -> Seq(Buffers)]
      BY <1>1, <1>7, <2>1, AddBufferType
    <3>. QED  BY <2>2, <3>1, <3>2
  <2>3. CASE ~Overlaps
    BY <2>1, <2>3 DEF GrowBy
  <2>. QED  BY <2>2, <2>3
<1>. DEFINE waits == IF Overlaps THEN stage[r].send_next_wait_handle ELSE {}
            sends == IF Overlaps THEN Sends(ops) ELSE done.send_next_wait_handle
            recvs == IF Overlaps THEN AddHandle(rest, r, "prev", recv) ELSE done.recv_prev_wait_handles
<1>. HIDE DEF ops, rest, next, recv
<1>10. t = [done EXCEPT !.at = "steady_backward", !.waits = waits,
                        !.send_next_wait_handle = sends, !.recv_prev_wait_handles = recvs,
                        !.input_tensors = ins]
       /\ stage' = [stage EXCEPT ![r] = t]
  <2>. HIDE DEF done
  <2>1. CASE Overlaps
    <3>. DEFINE x == [[done EXCEPT !.at = "steady_backward", !.waits = {}] EXCEPT
                        !.waits = stage[r].send_next_wait_handle,
                        !.send_next_wait_handle = Sends(ops),
                        !.recv_prev_wait_handles = AddHandle(rest, r, "prev", recv),
                        !.input_tensors = AddBuffer(@, next, r, "prev", recv)]
    <3>1. stage' = [stage EXCEPT ![r] = x]
      BY <1>6, <2>1
    <3>2. x = [done EXCEPT !.at = "steady_backward", !.waits = waits,
                        !.send_next_wait_handle = sends, !.recv_prev_wait_handles = recvs,
                        !.input_tensors = ins]
      BY <1>5, <2>1 DEF IsLocals
    <3>. HIDE DEF x
    <3>3. t = x /\ stage' = [stage EXCEPT ![r] = t]
      BY <1>1, <3>1, StageUpdate
    <3>. QED  BY <3>2, <3>3
  <2>2. CASE ~Overlaps
    <3>. DEFINE x == [done EXCEPT !.at = "steady_backward", !.waits = {}]
    <3>1. stage' = [stage EXCEPT ![r] = x]
      BY <1>6, <2>2
    <3>2. x = [done EXCEPT !.at = "steady_backward", !.waits = waits,
                        !.send_next_wait_handle = sends, !.recv_prev_wait_handles = recvs,
                        !.input_tensors = ins]
      BY <1>5, <2>2 DEF IsLocals
    <3>. HIDE DEF x
    <3>3. t = x /\ stage' = [stage EXCEPT ![r] = t]
      BY <1>1, <3>1, StageUpdate
    <3>. QED  BY <3>2, <3>3
  <2>. QED  BY <2>1, <2>2
<1>. HIDE DEF t, done, ins, waits, sends, recvs
<1>11. /\ t.at = "steady_backward" /\ t.k = s.k /\ t.input_tensors = ins
       /\ t.output_tensor_grads = done.output_tensor_grads
       /\ t.output_tensors = done.output_tensors /\ t.prefetched = done.prefetched
       /\ t.synchronized = done.synchronized /\ t.param_synced = done.param_synced
  BY <1>5, <1>10 DEF IsLocals
<1>14. IsLocals(t)
  BY <1>5, <1>8, <1>10, <1>11 DEF IsLocals, Places
<1>15. InPlace(r, t)
  BY <1>2, <1>3, <1>11 DEF InPlace
<1>16. Steps(r)
  BY <1>1, <1>2, <1>3, <1>6, <1>10, <1>14, <1>15, StartType DEF Steps, t
<1>17. /\ Forwarded(r, s) = v /\ Forwarded(r, t) = v + 1
       /\ Backwarded(r, s) = s.k /\ Backwarded(r, t) = s.k
       /\ Called(r, s) = v /\ Called(r, t) = IF Overlaps THEN v + 1 ELSE v
  BY <1>2, <1>3, <1>4, <1>11 DEF Forwarded, Backwarded, Called
<1>18. Opened(r, s) /\ Opened(r, t)
  BY <1>2, <1>3, <1>11 DEF Opened
<1>19. \E u \in 0 .. Total - 1 : ForwardMove(r, u, Overlaps)
  <2>2. GrowBy(done.input_tensors, t.input_tensors, next, Overlaps /\ ReceivesForward(r, v))
    BY <1>7, <1>8, <1>11, Zenon
  <2>3. /\ IF Opened(r, t) /\ ~Opened(r, s)
           THEN /\ \A d \in Chunks : d # V - 1 => t.output_tensor_grads[d] = s.output_tensor_grads[d]
                /\ Len(t.output_tensor_grads[V - 1]) = 1
           ELSE t.output_tensor_grads = s.output_tensor_grads /\ (Opened(r, t) <=> Opened(r, s))
    BY <1>5, <1>11, <1>18
  <2>5. s.at # "begin" /\ t.at \notin {"begin", "warmup_forward", "flushed", "done"}
    BY <1>3, <1>11
  <2>6. ForwardMove(r, v, Overlaps)
    BY <1>3, <1>4, <1>5, <1>11, <1>17, <2>2, <2>3, <2>5 DEF ForwardMove, t, done, next
  <2>. QED  BY <1>4, <2>6
<1>. QED  BY <1>16, <1>19

\* A backward pass; without overlap, the call for the next input comes with it.
BackwardMove(r, v) ==
    LET s    == stage[r]
        t    == stage'[r]
        done == AfterBackward(s, r, v)
        f    == Called(r, s)
    IN  /\ v = Backwarded(r, s) /\ v \in 0 .. Total - 1 /\ ~layout.forward_only
        /\ s.at # "begin" /\ s.at \notin {"flushed", "done"}
        /\ t.at \notin {"begin", "flushed", "done"}
        /\ BackwardStep(r, v) /\ UNCHANGED forwards
        /\ Forwarded(r, t) = Forwarded(r, s) /\ Backwarded(r, t) = v + 1
        /\ Forwarded(r, s) \in 0 .. Total
        /\ Forwarded(r, s) >= v + 1 + (V - 1) * N \/ Forwarded(r, s) = Total
        /\ Opened(r, s) /\ Opened(r, t)
        /\ t.synchronized = done.synchronized /\ t.param_synced = s.param_synced
        /\ t.output_tensors = done.output_tensors
        /\ IF Called(r, t) = f THEN t.input_tensors = done.input_tensors
           ELSE /\ f \in 0 .. Total - 1 /\ Called(r, t) = f + 1
                /\ GrowBy(done.input_tensors, t.input_tensors, PeerSends(r, f, TRUE).chunk,
                          ReceivesForward(r, f))
        /\ GrowBy(done.output_tensor_grads, t.output_tensor_grads,
                  PeerSends(r, v, FALSE).chunk, ReceivesBackward(r, v))

\* In the steady state.
LEMMA SteadyBackwardMoves ==
  ASSUME Positions, NEW r \in Stages, SteadyBackward(r)
  PROVE  Steps(r) /\ \E v \in 0 .. Total - 1 : BackwardMove(r, v)
<1>. DEFINE s    == stage[r]
            t    == stage'[r]
            w    == num_warmup_microbatches(r)
            v    == stage[r].k
            f    == v + num_warmup_microbatches(r)
            last == LastIteration(r)
            recv_prev == ~Overlaps /\ PeerSends(r, f, TRUE).recv /\ ~last
            recv_next == PeerSends(r, v, FALSE).recv
            takes == Overlaps /\ ~LastLayer(r, get_model_chunk_id(v, FALSE))
            handles == stage[r].recv_next_wait_handles
            rest == IF takes THEN Rest(handles) ELSE handles
            ops  == SendGrad(r, v) \cup ReceiveIf(r, "next", recv_next)
                      \cup (IF Overlaps THEN {} ELSE SendNewest(r, f))
                      \cup ReceiveIf(r, "prev", recv_prev)
            done == AfterBackward(stage[r], r, v)
            nextf == PeerSends(r, f, TRUE).chunk
            nextb == PeerSends(r, v, FALSE).chunk
            ins   == AddBuffer(done.input_tensors, nextf, r, "prev", recv_prev)
            grads == AddBuffer(done.output_tensor_grads, nextb, r, "next", recv_next)
            k     == IF last THEN 0 ELSE v + 1
<1>1. /\ TypeInv /\ Known /\ IsLocals(s) /\ InPlace(r, s) /\ stage = [q \in Stages |-> stage[q]]
  BY DEF Positions, TypeInv
<1>2. /\ V \in Nat /\ 1 < V /\ Total \in Nat /\ Chunks = 0 .. V - 1 /\ N \in Nat
      /\ w \in Nat /\ 0 < w /\ w <= Total
      /\ num_microbatches_remaining(r) = Total - w
      /\ w < Total => (V - 1) * N <= w
      /\ layout.forward_only \in BOOLEAN /\ Overlaps \in BOOLEAN
  BY <1>1, LegalLayout, Warmup DEF Known, Overlaps
<1>3. /\ s.at = "steady_backward" /\ v < Total - w /\ v \in Nat
      /\ BackwardStep(r, v) /\ Start(r, ops)
      /\ layout' = layout /\ schedule_table' = schedule_table /\ UNCHANGED forwards
      /\ ~layout.forward_only
  BY <1>1, <1>2 DEF SteadyBackward, In, InPlace, IsLocals
<1>4. /\ v \in 0 .. Total - 1 /\ v # Total - 1 /\ f \in 0 .. Total - 1
      /\ last <=> v = Total - w - 1
      /\ last <=> f = Total - 1
  <2>1. v \in 0 .. Total - 1 /\ v # Total - 1 /\ f \in 0 .. Total - 1
    BY <1>2, <1>3
  <2>2. last <=> v = Total - w - 1
    BY <1>2 DEF LastIteration
  <2>3. v = Total - w - 1 <=> f = Total - 1
    BY <1>2, <1>3
  <2>. HIDE DEF last, f, v
  <2>. QED  BY <2>1, <2>2, <2>3
<1>5. /\ IsLocals(done) /\ done.at = s.at /\ done.k = s.k /\ done.param_synced = s.param_synced
  <2>1. BackwardLocals(s, done, r, v)
    BY <1>1, <1>4, AfterBackwardType
  <2>. HIDE DEF s, done, v
  <2>. QED  BY <2>1 DEF BackwardLocals
<1>6. stage' = [stage EXCEPT ![r] = [done EXCEPT
                !.at = IF last THEN "turn" ELSE "steady",
                !.k = IF last THEN 0 ELSE @ + 1,
                !.waits = IF Overlaps THEN stage[r].send_prev_wait_handle ELSE Handles(ops),
                !.send_prev_wait_handle = IF Overlaps THEN Sends(ops) ELSE {},
                !.recv_next_wait_handles =
                    IF Overlaps THEN AddHandle(rest, r, "next", recv_next) ELSE rest,
                !.input_tensors = AddBuffer(@, nextf, r, "prev", recv_prev),
                !.output_tensor_grads = AddBuffer(@, nextb, r, "next", recv_next)]]
  BY DEF SteadyBackward
<1>7. /\ recv_prev = (~Overlaps /\ ReceivesForward(r, f))
      /\ recv_next = ReceivesBackward(r, v)
      /\ recv_prev \in BOOLEAN /\ (recv_prev => nextf \in Chunks)
      /\ recv_next \in BOOLEAN /\ (recv_next => nextb \in Chunks)
  <2>1. recv_prev = (~Overlaps /\ ReceivesForward(r, f)) /\ recv_next = ReceivesBackward(r, v)
    <3>1. PeerSends(r, v, FALSE).recv \in BOOLEAN
      BY <1>1, <1>4, PeerSendsType
    <3>. HIDE DEF v, f, last
    <3>. QED  BY <1>4, <3>1 DEF ReceivesForward, ReceivesBackward
  <2>2. /\ PeerSends(r, v, FALSE).recv \in BOOLEAN
        /\ PeerSends(r, v, FALSE).recv => PeerSends(r, v, FALSE).chunk \in Chunks
    BY <1>1, <1>4, PeerSendsType
  <2>3. /\ PeerSends(r, f, TRUE).recv \in BOOLEAN
        /\ f # Total - 1 /\ PeerSends(r, f, TRUE).recv => PeerSends(r, f, TRUE).chunk \in Chunks
    BY <1>1, <1>4, PeerSendsType
  <2>. HIDE DEF v, f, last
  <2>. QED  BY <1>4, <2>1, <2>2, <2>3
<1>8. /\ ins \in [Chunks -> Seq(Buffers)] /\ GrowBy(done.input_tensors, ins, nextf, recv_prev)
      /\ grads \in [Chunks -> Seq(Buffers)]
      /\ GrowBy(done.output_tensor_grads, grads, nextb, recv_next)
  <2>1. /\ done.input_tensors \in [Chunks -> Seq(Buffers)]
        /\ done.output_tensor_grads \in [Chunks -> Seq(Buffers)]
    BY <1>5 DEF IsLocals
  <2>. HIDE DEF done, nextf, nextb, recv_prev, recv_next
  <2>. QED  BY <1>1, <1>7, <2>1, AddBufferType
<1>9. Overlaps => ins = done.input_tensors
  BY DEF AddBuffer
<1>. DEFINE at    == IF last THEN "turn" ELSE "steady"
            waits == IF Overlaps THEN stage[r].send_prev_wait_handle ELSE Handles(ops)
            sends == IF Overlaps THEN Sends(ops) ELSE {}
            recvs == IF Overlaps THEN AddHandle(rest, r, "next", recv_next) ELSE rest
<1>. HIDE DEF ops, rest, nextf, nextb, recv_prev, recv_next, last
<1>10. t = [done EXCEPT !.at = at, !.k = k, !.waits = waits,
                        !.send_prev_wait_handle = sends, !.recv_next_wait_handles = recvs,
                        !.input_tensors = ins, !.output_tensor_grads = grads]
       /\ stage' = [stage EXCEPT ![r] = t]
  <2>. HIDE DEF done
  <2>. QED  BY <1>1, <1>5, <1>6 DEF IsLocals
<1>. HIDE DEF t, done, ins, grads, k, at, waits, sends, recvs
<1>11. /\ t.at = at /\ t.k = k /\ t.input_tensors = ins /\ t.output_tensor_grads = grads
       /\ t.output_tensors = done.output_tensors /\ t.prefetched = done.prefetched
       /\ t.synchronized = done.synchronized /\ t.param_synced = done.param_synced
  BY <1>5, <1>10 DEF IsLocals
<1>12. /\ t.at \in {"steady", "turn"} /\ (t.at = "turn" <=> v = Total - w - 1)
       /\ t.k = IF v = Total - w - 1 THEN 0 ELSE v + 1
       /\ t.k \in 0 .. Total
  BY <1>2, <1>3, <1>4, <1>11 DEF at, k
<1>14. IsLocals(t)
  BY <1>5, <1>8, <1>10, <1>11, <1>12 DEF IsLocals, Places
<1>15. InPlace(r, t)
  BY <1>2, <1>3, <1>12 DEF InPlace
<1>16. Steps(r)
  BY <1>1, <1>3, <1>10, <1>14, <1>15, StartType DEF Steps, t
<1>17. /\ Forwarded(r, s) = f + 1 /\ Forwarded(r, t) = f + 1
       /\ Backwarded(r, s) = v /\ Backwarded(r, t) = v + 1
       /\ Called(r, s) = IF Overlaps THEN f + 1 ELSE f
       /\ Called(r, t) = f + 1
  <2>1. CASE v = Total - w - 1
    BY <1>2, <1>3, <1>4, <1>12, <2>1 DEF Forwarded, Backwarded, Called
  <2>2. CASE v # Total - w - 1
    <3>1. t.at = "steady" /\ t.k = v + 1
      BY <1>12, <2>2
    <3>. QED  BY <1>2, <1>3, <1>4, <3>1, SMTT(30) DEF Forwarded, Backwarded, Called
  <2>. QED  BY <2>1, <2>2
<1>18. Opened(r, s) /\ Opened(r, t)
  BY <1>2, <1>3, <1>12 DEF Opened
<1>19. \E u \in 0 .. Total - 1 : BackwardMove(r, u)
  <2>1. f + 1 \in 0 .. Total /\ f + 1 >= v + 1 + (V - 1) * N
    BY <1>2, <1>3
  <2>2. GrowBy(done.output_tensor_grads, t.output_tensor_grads, nextb, ReceivesBackward(r, v))
    BY <1>7, <1>8, <1>11
  <2>3. IF Called(r, t) = Called(r, s) THEN t.input_tensors = done.input_tensors
        ELSE /\ Called(r, s) \in 0 .. Total - 1 /\ Called(r, t) = Called(r, s) + 1
             /\ GrowBy(done.input_tensors, t.input_tensors, PeerSends(r, Called(r, s), TRUE).chunk,
                       ReceivesForward(r, Called(r, s)))
    <3>1. CASE Overlaps
      BY <1>9, <1>11, <1>17, <3>1
    <3>2. CASE ~Overlaps
      <4>1. Called(r, s) = f /\ Called(r, t) = f + 1 /\ f \in 0 .. Total - 1 /\ f + 1 # f
        BY <1>2, <1>4, <1>17, <3>2
      <4>2. recv_prev = ReceivesForward(r, f)
        BY <1>7, <3>2 DEF ReceivesForward
      <4>3. GrowBy(done.input_tensors, t.input_tensors, nextf, ReceivesForward(r, f))
        BY <1>8, <1>11, <4>2
      <4>. HIDE DEF f, v, s
      <4>. QED  BY <4>1, <4>3 DEF nextf
    <3>. QED  BY <1>2, <3>1, <3>2
  <2>4. /\ s.at # "begin" /\ s.at \notin {"flushed", "done"}
        /\ t.at \notin {"begin", "flushed", "done"}
    BY <1>3, <1>12
  <2>5. /\ Forwarded(r, t) = Forwarded(r, s)
        /\ Forwarded(r, s) \in 0 .. Total
        /\ Forwarded(r, s) >= v + 1 + (V - 1) * N \/ Forwarded(r, s) = Total
    BY <1>17, <2>1
  <2>6. BackwardMove(r, v)
    BY <1>3, <1>4, <1>5, <1>11, <1>17, <1>18, <2>2, <2>3, <2>4, <2>5
    DEF BackwardMove, t, done, nextb
  <2>. QED  BY <1>4, <2>6
<1>. QED  BY <1>16, <1>19

\* In the cool-down, with the gradient of the next pass under way.
LEMMA CooldownBackwardPrefetchedMoves ==
  ASSUME Positions, NEW r \in Stages, CooldownBackwardPrefetched(r)
  PROVE  Steps(r) /\ \E v \in 0 .. Total - 1 : BackwardMove(r, v)
<1>. DEFINE s    == stage[r]
            t    == stage'[r]
            v    == stage[r].k
            w    == num_warmup_microbatches(r)
            ops  == SendGrad(r, v)
            done == AfterBackward(stage[r], r, v)
            next == PeerSends(r, v, FALSE).chunk
            slot == stage[r].prefetched
            recv == ReceivesBackward(r, v)
            grads == AddPrefetched(done.output_tensor_grads, next, slot)
<1>1. /\ TypeInv /\ Known /\ IsLocals(s) /\ InPlace(r, s) /\ stage = [q \in Stages |-> stage[q]]
  BY DEF Positions, TypeInv
<1>2. /\ V \in Nat /\ 1 < V /\ Total \in Nat /\ Chunks = 0 .. V - 1 /\ N \in Nat
      /\ w \in Nat /\ 0 < w /\ w <= Total
      /\ layout.forward_only \in BOOLEAN /\ Overlaps \in BOOLEAN
  BY <1>1, LegalLayout, Warmup DEF Known, Overlaps
<1>3. /\ s.at = "cooldown_backward" /\ v < Total /\ v >= Total - w /\ v \in Nat
      /\ BackwardStep(r, v) /\ Start(r, ops)
      /\ layout' = layout /\ schedule_table' = schedule_table /\ UNCHANGED forwards
      /\ ~layout.forward_only
      /\ (slot # None <=> recv)
  BY <1>1, <1>2 DEF CooldownBackwardPrefetched, In, InPlace, IsLocals
<1>4. v \in 0 .. Total - 1
  BY <1>2, <1>3
<1>5. /\ IsLocals(done) /\ done.at = s.at /\ done.k = s.k /\ done.param_synced = s.param_synced
  <2>1. BackwardLocals(s, done, r, v)
    BY <1>1, <1>4, AfterBackwardType
  <2>. HIDE DEF s, done, v
  <2>. QED  BY <2>1 DEF BackwardLocals
<1>6. stage' = [stage EXCEPT ![r] = [done EXCEPT
                !.at = "cooldown", !.k = @ + 1,
                !.waits = stage[r].send_prev_wait_handle,
                !.send_prev_wait_handle = Sends(ops),
                !.output_tensor_grads = AddPrefetched(@, next, slot)]]
  BY DEF CooldownBackwardPrefetched
<1>7. recv \in BOOLEAN /\ (recv => next \in Chunks)
  BY <1>1, <1>4, PeerSendsType DEF ReceivesBackward
<1>8. grads \in [Chunks -> Seq(Buffers)] /\ GrowBy(done.output_tensor_grads, grads, next, recv)
  <2>1. done.output_tensor_grads \in [Chunks -> Seq(Buffers)] /\ slot \in Buffers
    BY <1>1, <1>5 DEF IsLocals
  <2>. HIDE DEF done, next, recv, slot
  <2>. QED  BY <1>3, <1>7, <2>1, AddPrefetchedType
<1>. DEFINE sends == Sends(ops)
            waits == stage[r].send_prev_wait_handle
<1>. HIDE DEF ops, next, recv, slot
<1>10. t = [done EXCEPT !.at = "cooldown", !.k = v + 1, !.waits = waits,
                        !.send_prev_wait_handle = sends, !.output_tensor_grads = grads]
       /\ stage' = [stage EXCEPT ![r] = t]
  <2>. HIDE DEF done
  <2>. QED  BY <1>1, <1>5, <1>6 DEF IsLocals
<1>. HIDE DEF t, done, grads, waits, sends
<1>11. /\ t.at = "cooldown" /\ t.k = v + 1 /\ t.output_tensor_grads = grads
       /\ t.input_tensors = done.input_tensors
       /\ t.output_tensors = done.output_tensors /\ t.prefetched = done.prefetched
       /\ t.synchronized = done.synchronized /\ t.param_synced = done.param_synced
  BY <1>5, <1>10 DEF IsLocals
<1>13. t.k \in 0 .. Total
  BY <1>2, <1>4, <1>11
<1>14. IsLocals(t)
  BY <1>5, <1>8, <1>10, <1>11, <1>13 DEF IsLocals, Places
<1>15. InPlace(r, t)
  BY <1>2, <1>3, <1>11 DEF InPlace
<1>16. Steps(r)
  BY <1>1, <1>3, <1>10, <1>14, <1>15, StartType DEF Steps, t
<1>17. /\ Forwarded(r, s) = Total /\ Forwarded(r, t) = Total
       /\ Backwarded(r, s) = v /\ Backwarded(r, t) = v + 1
       /\ Called(r, s) = Total /\ Called(r, t) = Total
  BY <1>2, <1>3, <1>4, <1>11 DEF Forwarded, Backwarded, Called
<1>18. Opened(r, s) /\ Opened(r, t)
  BY <1>2, <1>3, <1>11 DEF Opened
<1>19. \E u \in 0 .. Total - 1 : BackwardMove(r, u)
  <2>1. Total \in 0 .. Total
    BY <1>2
  <2>2. /\ s.at # "begin" /\ s.at \notin {"flushed", "done"}
        /\ t.at \notin {"begin", "flushed", "done"}
    BY <1>3, <1>11
  <2>3. BackwardMove(r, v)
    BY <1>3, <1>4, <1>5, <1>8, <1>11, <1>17, <1>18, <2>1, <2>2
    DEF BackwardMove, t, done, next, recv
  <2>. QED  BY <1>4, <2>3
<1>. QED  BY <1>16, <1>19

\* In the cool-down.
LEMMA CooldownBackwardMoves ==
  ASSUME Positions, NEW r \in Stages, CooldownBackward(r)
  PROVE  Steps(r) /\ \E v \in 0 .. Total - 1 : BackwardMove(r, v)
<1>. DEFINE s    == stage[r]
            t    == stage'[r]
            v    == stage[r].k
            w    == num_warmup_microbatches(r)
            recv == ReceivesBackward(r, v)
            handles == stage[r].recv_next_wait_handles
            rest == IF AwaitsGrad(r, v) THEN Rest(handles) ELSE handles
            ops  == SendGrad(r, v) \cup ReceiveIf(r, "next", recv)
            done == AfterBackward(stage[r], r, v)
            next == PeerSends(r, v, FALSE).chunk
            grads == AddBuffer(done.output_tensor_grads, next, r, "next", recv)
<1>1. /\ TypeInv /\ Known /\ IsLocals(s) /\ InPlace(r, s) /\ stage = [q \in Stages |-> stage[q]]
  BY DEF Positions, TypeInv
<1>2. /\ V \in Nat /\ 1 < V /\ Total \in Nat /\ Chunks = 0 .. V - 1 /\ N \in Nat
      /\ w \in Nat /\ 0 < w /\ w <= Total
      /\ layout.forward_only \in BOOLEAN /\ Overlaps \in BOOLEAN
  BY <1>1, LegalLayout, Warmup DEF Known, Overlaps
<1>3. /\ s.at = "cooldown" /\ v < Total /\ v >= Total - w /\ v \in Nat
      /\ BackwardStep(r, v) /\ Start(r, ops)
      /\ layout' = layout /\ schedule_table' = schedule_table /\ UNCHANGED forwards
      /\ ~layout.forward_only
  BY <1>1, <1>2 DEF CooldownBackward, In, InPlace, IsLocals
<1>4. v \in 0 .. Total - 1
  BY <1>2, <1>3
<1>5. /\ IsLocals(done) /\ done.at = s.at /\ done.k = s.k /\ done.param_synced = s.param_synced
  <2>1. BackwardLocals(s, done, r, v)
    BY <1>1, <1>4, AfterBackwardType
  <2>. HIDE DEF s, done, v
  <2>. QED  BY <2>1 DEF BackwardLocals
<1>6. stage' = [stage EXCEPT ![r] = [done EXCEPT
                !.k = @ + 1,
                !.waits = IF Prefetches THEN stage[r].send_prev_wait_handle ELSE Handles(ops),
                !.send_prev_wait_handle = IF Prefetches THEN Sends(ops) ELSE @,
                !.recv_next_wait_handles =
                    IF Prefetches THEN AddHandle(rest, r, "next", recv) ELSE rest,
                !.output_tensor_grads = AddBuffer(@, next, r, "next", recv)]]
  BY DEF CooldownBackward
<1>7. recv \in BOOLEAN /\ (recv => next \in Chunks)
  BY <1>1, <1>4, PeerSendsType DEF ReceivesBackward
<1>8. grads \in [Chunks -> Seq(Buffers)] /\ GrowBy(done.output_tensor_grads, grads, next, recv)
  <2>1. done.output_tensor_grads \in [Chunks -> Seq(Buffers)]
    BY <1>5 DEF IsLocals
  <2>. HIDE DEF done, next, recv
  <2>. QED  BY <1>1, <1>7, <2>1, AddBufferType
<1>. DEFINE waits == IF Prefetches THEN stage[r].send_prev_wait_handle ELSE Handles(ops)
            sends == IF Prefetches THEN Sends(ops) ELSE done.send_prev_wait_handle
            recvs == IF Prefetches THEN AddHandle(rest, r, "next", recv) ELSE rest
<1>. HIDE DEF ops, rest, next, recv
<1>10. t = [done EXCEPT !.k = v + 1, !.waits = waits,
                        !.send_prev_wait_handle = sends, !.recv_next_wait_handles = recvs,
                        !.output_tensor_grads = grads]
       /\ stage' = [stage EXCEPT ![r] = t]
  <2>. HIDE DEF done
  <2>. QED  BY <1>1, <1>5, <1>6 DEF IsLocals
<1>. HIDE DEF t, done, grads, waits, sends, recvs
<1>11. /\ t.at = "cooldown" /\ t.k = v + 1 /\ t.output_tensor_grads = grads
       /\ t.input_tensors = done.input_tensors
       /\ t.output_tensors = done.output_tensors /\ t.prefetched = done.prefetched
       /\ t.synchronized = done.synchronized /\ t.param_synced = done.param_synced
  BY <1>3, <1>5, <1>10 DEF IsLocals
<1>13. t.k \in 0 .. Total
  BY <1>2, <1>4, <1>11
<1>14. IsLocals(t)
  BY <1>5, <1>8, <1>10, <1>11, <1>13 DEF IsLocals, Places
<1>15. InPlace(r, t)
  BY <1>2, <1>3, <1>11 DEF InPlace
<1>16. Steps(r)
  BY <1>1, <1>3, <1>10, <1>14, <1>15, StartType DEF Steps, t
<1>17. /\ Forwarded(r, s) = Total /\ Forwarded(r, t) = Total
       /\ Backwarded(r, s) = v /\ Backwarded(r, t) = v + 1
       /\ Called(r, s) = Total /\ Called(r, t) = Total
  BY <1>2, <1>3, <1>4, <1>11 DEF Forwarded, Backwarded, Called
<1>18. Opened(r, s) /\ Opened(r, t)
  BY <1>2, <1>3, <1>11 DEF Opened
<1>19. \E u \in 0 .. Total - 1 : BackwardMove(r, u)
  <2>1. Total \in 0 .. Total
    BY <1>2
  <2>2. /\ s.at # "begin" /\ s.at \notin {"flushed", "done"}
        /\ t.at \notin {"begin", "flushed", "done"}
    BY <1>3, <1>11
  <2>3. BackwardMove(r, v)
    BY <1>3, <1>4, <1>5, <1>8, <1>11, <1>17, <1>18, <2>1, <2>2
    DEF BackwardMove, t, done, next, recv
  <2>. QED  BY <1>4, <2>3
<1>. QED  BY <1>16, <1>19

\* A step without a pass: the first calls of both directions, and the moves
\* from one part of the schedule to the next.
QuietMove(r) ==
    LET s == stage[r]
        t == stage'[r]
    IN  /\ UNCHANGED passes
        /\ Forwarded(r, t) = Forwarded(r, s) /\ Backwarded(r, t) = Backwarded(r, s)
        /\ Called(r, t) = Called(r, s)
        /\ t.at # "begin"
        /\ t.at \in {"flushed", "done"} <=> s.at \in {"flushed", "done"}
        /\ t.synchronized = s.synchronized /\ t.param_synced = s.param_synced
        /\ t.output_tensors = s.output_tensors
        /\ IF s.at = "begin"
           THEN /\ \A d \in Chunks : d # 0 => t.input_tensors[d] = s.input_tensors[d]
                /\ Len(t.input_tensors[0]) = 1
           ELSE t.input_tensors = s.input_tensors
        /\ IF Opened(r, t) /\ ~Opened(r, s)
           THEN /\ \A d \in Chunks : d # V - 1 => t.output_tensor_grads[d] = s.output_tensor_grads[d]
                /\ Len(t.output_tensor_grads[V - 1]) <= Len(s.output_tensor_grads[V - 1]) + 1
           ELSE t.output_tensor_grads = s.output_tensor_grads /\ (Opened(r, t) <=> Opened(r, s))

\* The first call of the schedule.
LEMMA BeginMoves ==
  ASSUME Positions, NEW r \in Stages, Begin(r)
  PROVE  Steps(r) /\ QuietMove(r)
<1>. DEFINE s   == stage[r]
            t   == stage'[r]
            ops == ReceiveIf(r, "prev", ~is_pp_first_stage(r))
            buffer == IF ops = {} THEN None ELSE Buffer(r, "prev")
            ins == [s.input_tensors EXCEPT ![0] = <<buffer>>]
            waits == Handles(ops)
            x   == [s EXCEPT !.at = "warmup", !.waits = waits, !.input_tensors = ins]
<1>1. /\ TypeInv /\ Known /\ IsLocals(s) /\ InPlace(r, s) /\ stage = [q \in Stages |-> stage[q]]
      /\ s.at = "begin" /\ s.k = 0 /\ Start(r, ops)
      /\ layout' = layout /\ schedule_table' = schedule_table /\ UNCHANGED passes
  BY DEF Positions, TypeInv, Begin, In, InPlace
<1>2. /\ V \in Nat /\ 1 < V /\ Chunks = 0 .. V - 1 /\ 0 < num_warmup_microbatches(r)
  BY <1>1, LegalLayout, Warmup DEF Known
<1>3. buffer \in Buffers
  BY <1>1, BufferType
<1>4. stage' = [stage EXCEPT ![r].at = "warmup", ![r].waits = waits,
                             ![r].input_tensors[0] = <<buffer>>]
  BY DEF Begin
<1>5. /\ ins \in [Chunks -> Seq(Buffers)] /\ Len(ins[0]) = 1
      /\ \A d \in Chunks : d # 0 => ins[d] = s.input_tensors[d]
  <2>. HIDE DEF buffer
  <2>1. s.input_tensors \in [Chunks -> Seq(Buffers)] /\ <<buffer>> \in Seq(Buffers) /\ 0 \in Chunks
    BY <1>1, <1>2, <1>3 DEF IsLocals
  <2>. HIDE DEF s
  <2>. QED  BY <2>1
<1>6. stage' = [stage EXCEPT ![r] = x]
  <2>. HIDE DEF waits, buffer
  <2>. QED  BY <1>1, <1>4 DEF IsLocals
<1>7. t = x /\ stage' = [stage EXCEPT ![r] = t]
  <2>. HIDE DEF x
  <2>. QED  BY <1>1, <1>6, StageUpdate
<1>. HIDE DEF t, ins, waits
<1>8. /\ t.at = "warmup" /\ t.k = s.k /\ t.input_tensors = ins
      /\ t.output_tensors = s.output_tensors /\ t.output_tensor_grads = s.output_tensor_grads
      /\ t.synchronized = s.synchronized /\ t.param_synced = s.param_synced
  BY <1>1, <1>7 DEF IsLocals
<1>9. IsLocals(t)
  BY <1>1, <1>5, <1>7, <1>8 DEF IsLocals, Places
<1>10. InPlace(r, t)
  BY <1>1, <1>2, <1>8 DEF InPlace
<1>11. Steps(r)
  BY <1>1, <1>7, <1>9, <1>10, StartType DEF Steps, t
<1>12. /\ Forwarded(r, t) = Forwarded(r, s) /\ Backwarded(r, t) = Backwarded(r, s)
       /\ Called(r, t) = Called(r, s) /\ ~Opened(r, s) /\ ~Opened(r, t)
  BY <1>1, <1>8 DEF Forwarded, Backwarded, Called, Opened
<1>13. QuietMove(r)
  BY <1>1, <1>5, <1>8, <1>12 DEF QuietMove, t
<1>. QED  BY <1>11, <1>13

\* The call for the next input in the warm-up.
LEMMA WarmupPrefetchMoves ==
  ASSUME Positions, NEW r \in Stages, WarmupPrefetch(r)
  PROVE  Steps(r) /\ QuietMove(r)
<1>. DEFINE s    == stage[r]
            t    == stage'[r]
            v    == stage[r].k
            recv == ReceivesForward(r, v)
            handles == stage[r].recv_prev_wait_handles
            rest == IF AwaitsInput(r, v) THEN Rest(handles) ELSE handles
            ops  == ReceiveIf(r, "prev", recv)
            recvs == AddHandle(rest, r, "prev", recv)
            slot == IF recv THEN Buffer(r, "prev") ELSE None
            x == [s EXCEPT !.at = "warmup_forward", !.waits = {},
                           !.recv_prev_wait_handles = recvs, !.prefetched = slot]
<1>1. /\ TypeInv /\ Known /\ IsLocals(s) /\ InPlace(r, s) /\ stage = [q \in Stages |-> stage[q]]
      /\ s.at = "warmup" /\ v < num_warmup_microbatches(r) /\ Prefetches /\ Start(r, ops)
      /\ layout' = layout /\ schedule_table' = schedule_table /\ UNCHANGED passes
  BY DEF Positions, TypeInv, WarmupPrefetch, In, InPlace
<1>2. slot \in Buffers /\ (slot # None <=> recv)
  BY <1>1, BufferType
<1>3. stage' = [stage EXCEPT ![r].at = "warmup_forward", ![r].waits = {},
                             ![r].recv_prev_wait_handles = recvs, ![r].prefetched = slot]
  BY DEF WarmupPrefetch
<1>4. stage' = [stage EXCEPT ![r] = x]
  <2>. HIDE DEF recvs, slot
  <2>. QED  BY <1>1, <1>3 DEF IsLocals
<1>5. t = x /\ stage' = [stage EXCEPT ![r] = t]
  <2>. HIDE DEF x
  <2>. QED  BY <1>1, <1>4, StageUpdate
<1>. HIDE DEF t, recvs, slot, recv
<1>6. /\ t.at = "warmup_forward" /\ t.k = s.k /\ t.prefetched = slot
      /\ t.input_tensors = s.input_tensors
      /\ t.output_tensors = s.output_tensors /\ t.output_tensor_grads = s.output_tensor_grads
      /\ t.synchronized = s.synchronized /\ t.param_synced = s.param_synced
  BY <1>1, <1>5 DEF IsLocals
<1>7. IsLocals(t)
  BY <1>1, <1>2, <1>5, <1>6 DEF IsLocals, Places
<1>8. InPlace(r, t)
  BY <1>1, <1>2, <1>6 DEF InPlace, recv
<1>9. Steps(r)
  BY <1>1, <1>5, <1>7, <1>8, StartType DEF Steps, t
<1>10. /\ Forwarded(r, t) = Forwarded(r, s) /\ Backwarded(r, t) = Backwarded(r, s)
       /\ Called(r, t) = Called(r, s) /\ ~Opened(r, s) /\ ~Opened(r, t)
  BY <1>1, <1>6 DEF Forwarded, Backwarded, Called, Opened
<1>11. QuietMove(r)
  BY <1>1, <1>6, <1>10 DEF QuietMove, t
<1>. QED  BY <1>9, <1>11

\* The call for the first gradient, between warm-up and steady state.
LEMMA WarmupBackwardMoves ==
  ASSUME Positions, NEW r \in Stages, WarmupBackward(r)
  PROVE  Steps(r) /\ QuietMove(r)
<1>. DEFINE s    == stage[r]
            t    == stage'[r]
            w    == num_warmup_microbatches(r)
            recv == ~is_pp_last_stage(r)
            ops  == ReceiveIf(r, "next", recv)
            recvs == AddHandle(s.recv_next_wait_handles, r, "next", recv)
            grads == AddBuffer(s.output_tensor_grads, V - 1, r, "next", recv)
            x == [s EXCEPT !.at = "steady", !.waits = {},
                           !.recv_next_wait_handles = recvs, !.output_tensor_grads = grads]
<1>1. /\ TypeInv /\ Known /\ IsLocals(s) /\ InPlace(r, s) /\ stage = [q \in Stages |-> stage[q]]
      /\ s.at = "warmup_backward" /\ s.k = 0 /\ w < Total /\ Start(r, ops)
      /\ ~layout.forward_only
      /\ layout' = layout /\ schedule_table' = schedule_table /\ UNCHANGED passes
  BY DEF Positions, TypeInv, WarmupBackward, In, InPlace
<1>2. /\ V \in Nat /\ 1 < V /\ Chunks = 0 .. V - 1 /\ w \in Nat /\ Total \in Nat
  BY <1>1, LegalLayout, Warmup DEF Known
<1>3. /\ grads \in [Chunks -> Seq(Buffers)]
      /\ \A d \in Chunks : d # V - 1 => grads[d] = s.output_tensor_grads[d]
      /\ Len(grads[V - 1]) <= Len(s.output_tensor_grads[V - 1]) + 1
  <2>1. /\ s.output_tensor_grads \in [Chunks -> Seq(Buffers)] /\ V - 1 \in Chunks
        /\ recv \in BOOLEAN
    BY <1>1, <1>2 DEF IsLocals, is_pp_last_stage
  <2>2. Len(s.output_tensor_grads[V - 1]) \in Nat
    BY <2>1
  <2>. HIDE DEF s, recv
  <2>3. grads \in [Chunks -> Seq(Buffers)] /\ GrowBy(s.output_tensor_grads, grads, V - 1, recv)
    BY <1>1, <2>1, AddBufferType
  <2>4. Len(grads[V - 1]) = Len(s.output_tensor_grads[V - 1]) + (IF recv THEN 1 ELSE 0)
    BY <2>1, <2>3 DEF GrowBy
  <2>5. \A d \in Chunks : d # V - 1 => grads[d] = s.output_tensor_grads[d]
    BY <2>1 DEF AddBuffer
  <2>. HIDE DEF grads
  <2>. QED  BY <2>2, <2>3, <2>4, <2>5
<1>4. stage' = [stage EXCEPT ![r].at = "steady", ![r].waits = {},
                ![r].recv_next_wait_handles = AddHandle(@, r, "next", recv),
                ![r].output_tensor_grads = AddBuffer(@, V - 1, r, "next", recv)]
  BY DEF WarmupBackward
<1>5. stage' = [stage EXCEPT ![r] = x]
  <2>. HIDE DEF recv
  <2>. QED  BY <1>1, <1>4 DEF IsLocals
<1>6. t = x /\ stage' = [stage EXCEPT ![r] = t]
  <2>. HIDE DEF x
  <2>. QED  BY <1>1, <1>5, StageUpdate
<1>. HIDE DEF t, recvs, grads, recv
<1>7. /\ t.at = "steady" /\ t.k = s.k /\ t.output_tensor_grads = grads
      /\ t.input_tensors = s.input_tensors /\ t.output_tensors = s.output_tensors
      /\ t.prefetched = s.prefetched
      /\ t.synchronized = s.synchronized /\ t.param_synced = s.param_synced
  BY <1>1, <1>6 DEF IsLocals
<1>8. IsLocals(t)
  BY <1>1, <1>3, <1>6, <1>7 DEF IsLocals, Places
<1>9. InPlace(r, t)
  BY <1>1, <1>2, <1>7 DEF InPlace
<1>10. Steps(r)
  BY <1>1, <1>6, <1>8, <1>9, StartType DEF Steps, t
<1>11. /\ Forwarded(r, t) = Forwarded(r, s) /\ Backwarded(r, t) = Backwarded(r, s)
       /\ Called(r, t) = Called(r, s) /\ ~Opened(r, s) /\ Opened(r, t)
  <2>1. Forwarded(r, s) = w + 0 /\ Forwarded(r, t) = w + 0
    BY <1>1, <1>7 DEF Forwarded
  <2>. QED  BY <1>1, <1>7, <2>1 DEF Backwarded, Called, Opened
<1>12. QuietMove(r)
  BY <1>1, <1>3, <1>7, <1>11 DEF QuietMove, t
<1>. QED  BY <1>10, <1>12

\* From the steady state to the cool-down.
LEMMA TurnMoves ==
  ASSUME Positions, NEW r \in Stages, Turn(r)
  PROVE  Steps(r) /\ QuietMove(r)
<1>. DEFINE s    == stage[r]
            t    == stage'[r]
            w    == num_warmup_microbatches(r)
            all  == are_all_microbatches_in_warmup(r)
            recv == all /\ ~is_pp_last_stage(r)
            ops  == ReceiveIf(r, "next", recv)
            waits == Handles(ops)
            buffer == IF recv THEN Buffer(r, "next") ELSE None
            list == IF all THEN Append(s.output_tensor_grads[V - 1], buffer)
                    ELSE s.output_tensor_grads[V - 1]
            grads == [s.output_tensor_grads EXCEPT ![V - 1] = list]
            x == [s EXCEPT !.at = "cooldown", !.k = Total - w, !.waits = waits,
                           !.output_tensor_grads = grads]
<1>1. /\ TypeInv /\ Known /\ IsLocals(s) /\ InPlace(r, s) /\ stage = [q \in Stages |-> stage[q]]
      /\ s.at = "turn" /\ s.k = 0 /\ Start(r, ops)
      /\ ~layout.forward_only
      /\ layout' = layout /\ schedule_table' = schedule_table /\ UNCHANGED passes
  BY DEF Positions, TypeInv, Turn, In, InPlace
<1>2. /\ V \in Nat /\ 1 < V /\ Chunks = 0 .. V - 1 /\ w \in Nat /\ Total \in Nat
      /\ w <= Total /\ num_microbatches_remaining(r) = Total - w
      /\ all <=> w = Total
  BY <1>1, LegalLayout, Warmup DEF Known, are_all_microbatches_in_warmup
<1>3. /\ grads \in [Chunks -> Seq(Buffers)]
      /\ \A d \in Chunks : d # V - 1 => grads[d] = s.output_tensor_grads[d]
      /\ Len(grads[V - 1]) <= Len(s.output_tensor_grads[V - 1]) + 1
      /\ ~all => grads = s.output_tensor_grads
  <2>1. s.output_tensor_grads \in [Chunks -> Seq(Buffers)] /\ V - 1 \in Chunks
    BY <1>1, <1>2 DEF IsLocals
  <2>2. Len(s.output_tensor_grads[V - 1]) \in Nat /\ s.output_tensor_grads[V - 1] \in Seq(Buffers)
    BY <2>1
  <2>3. buffer \in Buffers
    BY <1>1, BufferType
  <2>. HIDE DEF buffer, s, all
  <2>4. list \in Seq(Buffers) /\ Len(list) <= Len(s.output_tensor_grads[V - 1]) + 1
    BY <2>2, <2>3
  <2>5. ~all => list = s.output_tensor_grads[V - 1]
    OBVIOUS
  <2>. HIDE DEF list
  <2>. QED  BY <2>1, <2>4, <2>5
<1>4. stage' = [stage EXCEPT
                ![r].at = "cooldown", ![r].k = num_microbatches_remaining(r),
                ![r].waits = waits, ![r].output_tensor_grads[V - 1] =
                    IF all THEN Append(@, buffer) ELSE @]
  BY DEF Turn
<1>5. stage' = [stage EXCEPT ![r] = x]
  <2>. HIDE DEF waits, buffer, all
  <2>. QED  BY <1>1, <1>2, <1>4 DEF IsLocals
<1>6. t = x /\ stage' = [stage EXCEPT ![r] = t]
  <2>. HIDE DEF x
  <2>. QED  BY <1>1, <1>5, StageUpdate
<1>. HIDE DEF t, waits, grads, list, recv, all
<1>7. /\ t.at = "cooldown" /\ t.k = Total - w /\ t.output_tensor_grads = grads
      /\ t.input_tensors = s.input_tensors /\ t.output_tensors = s.output_tensors
      /\ t.prefetched = s.prefetched
      /\ t.synchronized = s.synchronized /\ t.param_synced = s.param_synced
  BY <1>1, <1>6 DEF IsLocals
<1>8. IsLocals(t)
  <2>1. Total - w \in 0 .. Total
    BY <1>2
  <2>2. t.k \in 0 .. Total
    BY <1>7, <2>1
  <2>. HIDE DEF w
  <2>. QED  BY <1>1, <1>3, <1>6, <1>7, <2>2 DEF IsLocals, Places
<1>9. InPlace(r, t)
  BY <1>1, <1>2, <1>7 DEF InPlace
<1>10. Steps(r)
  BY <1>1, <1>6, <1>8, <1>9, StartType DEF Steps, t
<1>11. /\ Forwarded(r, t) = Forwarded(r, s) /\ Backwarded(r, t) = Backwarded(r, s)
       /\ Called(r, t) = Called(r, s) /\ (Opened(r, s) <=> ~all) /\ Opened(r, t)
  BY <1>1, <1>2, <1>7 DEF Forwarded, Backwarded, Called, Opened
<1>12. QuietMove(r)
  BY <1>1, <1>3, <1>7, <1>11 DEF QuietMove, t
<1>. QED  BY <1>10, <1>12

\* The call for the next gradient in the cool-down.
LEMMA CooldownPrefetchMoves ==
  ASSUME Positions, NEW r \in Stages, CooldownPrefetch(r)
  PROVE  Steps(r) /\ QuietMove(r)
<1>. DEFINE s    == stage[r]
            t    == stage'[r]
            v    == stage[r].k
            recv == ReceivesBackward(r, v)
            handles == stage[r].recv_next_wait_handles
            rest == IF AwaitsGrad(r, v) THEN Rest(handles) ELSE handles
            ops  == ReceiveIf(r, "next", recv)
            recvs == AddHandle(rest, r, "next", recv)
            slot == IF recv THEN Buffer(r, "next") ELSE None
            x == [s EXCEPT !.at = "cooldown_backward", !.waits = {},
                           !.recv_next_wait_handles = recvs, !.prefetched = slot]
<1>1. /\ TypeInv /\ Known /\ IsLocals(s) /\ InPlace(r, s) /\ stage = [q \in Stages |-> stage[q]]
      /\ s.at = "cooldown" /\ v < Total /\ Prefetches /\ Start(r, ops)
      /\ ~layout.forward_only
      /\ layout' = layout /\ schedule_table' = schedule_table /\ UNCHANGED passes
  BY DEF Positions, TypeInv, CooldownPrefetch, In, InPlace
<1>2. slot \in Buffers /\ (slot # None <=> recv)
  BY <1>1, BufferType
<1>3. stage' = [stage EXCEPT ![r].at = "cooldown_backward", ![r].waits = {},
                             ![r].recv_next_wait_handles = recvs, ![r].prefetched = slot]
  BY DEF CooldownPrefetch
<1>4. stage' = [stage EXCEPT ![r] = x]
  <2>. HIDE DEF recvs, slot
  <2>. QED  BY <1>1, <1>3 DEF IsLocals
<1>5. t = x /\ stage' = [stage EXCEPT ![r] = t]
  <2>. HIDE DEF x
  <2>. QED  BY <1>1, <1>4, StageUpdate
<1>. HIDE DEF t, recvs, slot, recv
<1>6. /\ t.at = "cooldown_backward" /\ t.k = s.k /\ t.prefetched = slot
      /\ t.input_tensors = s.input_tensors
      /\ t.output_tensors = s.output_tensors /\ t.output_tensor_grads = s.output_tensor_grads
      /\ t.synchronized = s.synchronized /\ t.param_synced = s.param_synced
  BY <1>1, <1>5 DEF IsLocals
<1>7. IsLocals(t)
  BY <1>1, <1>2, <1>5, <1>6 DEF IsLocals, Places
<1>8. InPlace(r, t)
  BY <1>1, <1>2, <1>6 DEF InPlace, recv
<1>9. Steps(r)
  BY <1>1, <1>5, <1>7, <1>8, StartType DEF Steps, t
<1>10. /\ Forwarded(r, t) = Forwarded(r, s) /\ Backwarded(r, t) = Backwarded(r, s)
       /\ Called(r, t) = Called(r, s) /\ Opened(r, s) /\ Opened(r, t)
  BY <1>1, <1>6 DEF Forwarded, Backwarded, Called, Opened
<1>11. QuietMove(r)
  BY <1>1, <1>6, <1>10 DEF QuietMove, t
<1>. QED  BY <1>9, <1>11

\* The end of the schedule.
LEMMA FinishMoves ==
  ASSUME Positions, NEW r \in Stages, Finish(r)
  PROVE  Steps(r) /\ QuietMove(r)
<1>. DEFINE s == stage[r]
            t == stage'[r]
            x == [s EXCEPT !.at = "done"]
<1>1. /\ TypeInv /\ Known /\ IsLocals(s) /\ InPlace(r, s) /\ stage = [q \in Stages |-> stage[q]]
      /\ calls \in [Stages -> Nat] /\ calls' = calls
      /\ s.at = "flushed"
      /\ layout' = layout /\ schedule_table' = schedule_table /\ UNCHANGED passes
  BY DEF Positions, TypeInv, Finish, In
<1>2. stage' = [stage EXCEPT ![r].at = "done"]
  BY DEF Finish
<1>3. stage' = [stage EXCEPT ![r] = x]
  BY <1>1, <1>2 DEF IsLocals
<1>4. t = x /\ stage' = [stage EXCEPT ![r] = t]
  <2>. HIDE DEF x
  <2>. QED  BY <1>1, <1>3, StageUpdate
<1>. HIDE DEF t
<1>5. /\ t.at = "done" /\ t.k = s.k /\ t.prefetched = s.prefetched
      /\ t.input_tensors = s.input_tensors
      /\ t.output_tensors = s.output_tensors /\ t.output_tensor_grads = s.output_tensor_grads
      /\ t.synchronized = s.synchronized /\ t.param_synced = s.param_synced
  BY <1>1, <1>4 DEF IsLocals
<1>6. IsLocals(t)
  BY <1>1, <1>4, <1>5 DEF IsLocals, Places
<1>7. InPlace(r, t)
  BY <1>1, <1>5 DEF InPlace
<1>8. Steps(r)
  BY <1>1, <1>4, <1>6, <1>7 DEF Steps, t
<1>9. /\ Forwarded(r, t) = Forwarded(r, s) /\ Backwarded(r, t) = Backwarded(r, s)
      /\ Called(r, t) = Called(r, s) /\ (Opened(r, s) <=> Opened(r, t))
  BY <1>1, <1>5 DEF Forwarded, Backwarded, Called, Opened
<1>10. QuietMove(r)
  BY <1>1, <1>5, <1>9 DEF QuietMove, t
<1>. QED  BY <1>8, <1>10

\* The flush reduces what is left.
FlushMove(r) ==
    LET s    == stage[r]
        t    == stage'[r]
        left == IF layout.grad_sync_func THEN Chunks \ s.synchronized ELSE {}
    IN  /\ UNCHANGED <<forwards, backwards>> /\ ~layout.forward_only
        /\ s.at = "cooldown" /\ t.at = "flushed"
        /\ Forwarded(r, s) = Total /\ Backwarded(r, s) = Total
        /\ Forwarded(r, t) = Total /\ Backwarded(r, t) = Total
        /\ Called(r, s) = Total /\ Called(r, t) = Total
        /\ Opened(r, s) /\ Opened(r, t)
        /\ t.synchronized = s.synchronized \cup left /\ t.param_synced = s.param_synced
        /\ t.input_tensors = s.input_tensors /\ t.output_tensors = s.output_tensors
        /\ t.output_tensor_grads = s.output_tensor_grads
        /\ reductions' = [layer \in Layers |->
                 IF \E c \in left : layer = Layer(r, c)
                 THEN Append(reductions[layer], Len(backwards[layer])) ELSE reductions[layer]]

\* The reduction of what the cool-down has left.
LEMMA FlushMoves ==
  ASSUME Positions, NEW r \in Stages, Flush(r)
  PROVE  Steps(r) /\ FlushMove(r)
<1>. DEFINE s == stage[r]
            t == stage'[r]
            left == IF layout.grad_sync_func THEN Chunks \ s.synchronized ELSE {}
            synced == s.synchronized \cup left
            x == [s EXCEPT !.at = "flushed", !.synchronized = synced]
<1>1. /\ TypeInv /\ Known /\ IsLocals(s) /\ InPlace(r, s) /\ stage = [q \in Stages |-> stage[q]]
      /\ calls \in [Stages -> Nat] /\ calls' = calls
      /\ s.at = "cooldown" /\ s.k = Total /\ ~layout.forward_only
      /\ layout' = layout /\ schedule_table' = schedule_table
      /\ UNCHANGED <<forwards, backwards>>
      /\ reductions' = [layer \in Layers |->
                 IF \E c \in left : layer = Layer(r, c)
                 THEN Append(reductions[layer], Len(backwards[layer])) ELSE reductions[layer]]
  BY DEF Positions, TypeInv, Flush, In, InPlace
<1>2. stage' = [stage EXCEPT ![r].at = "flushed", ![r].synchronized = @ \cup left]
  BY DEF Flush
<1>3. stage' = [stage EXCEPT ![r] = x]
  <2>. HIDE DEF left
  <2>. QED  BY <1>1, <1>2 DEF IsLocals
<1>4. t = x /\ stage' = [stage EXCEPT ![r] = t]
  <2>. HIDE DEF x
  <2>. QED  BY <1>1, <1>3, StageUpdate
<1>. HIDE DEF t, left
<1>5. /\ t.at = "flushed" /\ t.k = s.k /\ t.prefetched = s.prefetched
      /\ t.input_tensors = s.input_tensors
      /\ t.output_tensors = s.output_tensors /\ t.output_tensor_grads = s.output_tensor_grads
      /\ t.synchronized = synced /\ t.param_synced = s.param_synced
  BY <1>1, <1>4 DEF IsLocals
<1>6. IsLocals(t)
  <2>. HIDE DEF synced
  <2>. QED  BY <1>1, <1>4, <1>5 DEF IsLocals, Places
<1>7. InPlace(r, t)
  BY <1>1, <1>5 DEF InPlace
<1>8. Steps(r)
  BY <1>1, <1>4, <1>6, <1>7 DEF Steps, t
<1>9. /\ Forwarded(r, s) = Total /\ Backwarded(r, s) = Total
      /\ Forwarded(r, t) = Total /\ Backwarded(r, t) = Total
      /\ Called(r, s) = Total /\ Called(r, t) = Total
      /\ Opened(r, s) /\ Opened(r, t)
  BY <1>1, <1>5 DEF Forwarded, Backwarded, Called, Opened
<1>10. FlushMove(r)
  BY <1>1, <1>5, <1>9 DEF FlushMove, t, left
<1>. QED  BY <1>8, <1>10

-----------------------------------------------------------------------------
(* What the layout and the table determine never changes                   *)

\* Operators that depend on the layout and the table alone keep their values.
LEMMA LayoutStays ==
  ASSUME layout' = layout, schedule_table' = schedule_table
  PROVE  /\ P' = P /\ M' = M /\ V' = V /\ N' = N /\ Total' = Total
         /\ Stages' = Stages /\ Chunks' = Chunks /\ Layers' = Layers
         /\ \A r, c : Layer(r, c)' = Layer(r, c)
         /\ \A v : Entry(v)' = Entry(v)
         /\ \A c, n : Count(c, n)' = Count(c, n)
         /\ \A r, s : /\ Forwarded(r, s)' = Forwarded(r, s)
                      /\ Backwarded(r, s)' = Backwarded(r, s)
                      /\ Called(r, s)' = Called(r, s)
                      /\ Opened(r, s)' <=> Opened(r, s)
                      /\ InPlace(r, s)' <=> InPlace(r, s)
         /\ \A s : IsLocals(s)' <=> IsLocals(s)
         /\ Known' <=> Known
<1>1. /\ P' = P /\ M' = M /\ V' = V /\ N' = N /\ Total' = Total
      /\ Overlaps' = Overlaps /\ Prefetches' = Prefetches
  BY DEF P, M, V, N, Total, Overlaps, Prefetches
<1>2. /\ Stages' = Stages /\ Chunks' = Chunks /\ Layers' = Layers
  BY <1>1 DEF Stages, Chunks, Layers
<1>3. \A r, c : Layer(r, c)' = Layer(r, c)
  BY <1>1 DEF Layer
<1>4. \A v : Entry(v)' = Entry(v)
  BY <1>1 DEF Entry
<1>5. \A c, n : Count(c, n)' = Count(c, n)
  BY <1>4 DEF Count
<1>6. \A r : num_warmup_microbatches(r)' = num_warmup_microbatches(r)
  BY <1>1 DEF num_warmup_microbatches, MinOf
<1>7. \A r, s : /\ Forwarded(r, s)' = Forwarded(r, s)
                /\ Backwarded(r, s)' = Backwarded(r, s)
  BY <1>1, <1>6 DEF Forwarded, Backwarded
<1>8. \A r, s : /\ Called(r, s)' = Called(r, s)
                /\ Opened(r, s)' <=> Opened(r, s)
  BY <1>1, <1>6, <1>7 DEF Called, Opened
<1>9. \A r, v : /\ ReceivesForward(r, v)' <=> ReceivesForward(r, v)
                /\ ReceivesBackward(r, v)' <=> ReceivesBackward(r, v)
  <2>1. \A v, forward : get_model_chunk_id(v, forward)' = get_model_chunk_id(v, forward)
    BY <1>1, <1>4 DEF get_model_chunk_id
  <2>2. \A r : /\ is_pp_first_stage(r)' <=> is_pp_first_stage(r)
               /\ is_pp_last_stage(r)' <=> is_pp_last_stage(r)
    BY <1>1 DEF is_pp_first_stage, is_pp_last_stage
  <2>3. \A r, v, forward : PeerSends(r, v, forward)' = PeerSends(r, v, forward)
    BY <1>1, <2>1, <2>2, ZenonT(60) DEF PeerSends
  <2>. QED  BY <1>1, <2>3 DEF ReceivesForward, ReceivesBackward
<1>10. \A r, s : InPlace(r, s)' <=> InPlace(r, s)
  BY <1>1, <1>6, <1>9 DEF InPlace
<1>11. \A s : IsLocals(s)' <=> IsLocals(s)
  BY <1>1, <1>2 DEF IsLocals, Outputs
<1>12. Known' <=> Known
  <2>1. ScheduleTable' = ScheduleTable
    BY <1>1 DEF ScheduleTable, MinOf
  <2>. QED  BY <2>1 DEF Known
<1>. QED  BY <1>1, <1>2, <1>3, <1>4, <1>5, <1>7, <1>8, <1>10, <1>11, <1>12

-----------------------------------------------------------------------------
(* What the passes so far have made                                        *)

\* The lists of passes have the lengths that the schedule table gives them.
Progress(r, c) ==
    /\ Len(forwards[Layer(r, c)]) = Count(c, Forwarded(r, stage[r]))
    /\ Len(backwards[Layer(r, c)]) = Count(V - 1 - c, Backwarded(r, stage[r]))

\* The gradients of chunk c should have been reduced by now.
Due(r, s, c) ==
    IF layout.grad_sync_func
    THEN \/ s.at \in {"flushed", "done"}
         \/ Backwarded(r, s) >= r /\ Count(V - 1 - c, Backwarded(r, s) - r) = M
    ELSE Count(V - 1 - c, Backwarded(r, s)) = M

Reduced(r, c) ==
    /\ c \in stage[r].synchronized <=> Due(r, stage[r], c)
    /\ reductions[Layer(r, c)] = IF Due(r, stage[r], c) THEN <<M>> ELSE <<>>

\* The first pass of a chunk comes N passes after that of the chunk before, and
\* a stage looks r passes ahead.
Synced(r) ==
    layout.param_sync_func =>
        /\ {0, 1} \subseteq stage[r].param_synced
        /\ \A c \in 2 .. V - 1 :
              Forwarded(r, stage[r]) > (c - 1) * N - r => c \in stage[r].param_synced

-----------------------------------------------------------------------------
(* The lists of passes grow by one element                                 *)

\* Of a function with a list per layer, one list grows by an element of S.
LEMMA ListGrows ==
  ASSUME NEW S, NEW lists \in [Layers -> Seq(S)], NEW layer \in Layers, NEW x \in S
  PROVE  /\ [lists EXCEPT ![layer] = Append(@, x)] \in [Layers -> Seq(S)]
         /\ \A l \in Layers : Len([lists EXCEPT ![layer] = Append(@, x)][l]) =
               Len(lists[l]) + (IF l = layer THEN 1 ELSE 0)
<1>. DEFINE new == [lists EXCEPT ![layer] = Append(lists[layer], x)]
<1>1. \A l \in Layers : new[l] = IF l = layer THEN Append(lists[l], x) ELSE lists[l]
  OBVIOUS
<1>2. \A l \in Layers : /\ lists[l] \in Seq(S) /\ Len(lists[l]) \in Nat
                        /\ Append(lists[l], x) \in Seq(S)
                        /\ Len(Append(lists[l], x)) = Len(lists[l]) + 1
  OBVIOUS
<1>3. new \in [Layers -> Seq(S)]
  BY <1>2
<1>4. \A l \in Layers : Len(new[l]) = Len(lists[l]) + (IF l = layer THEN 1 ELSE 0)
  <2>. HIDE DEF new
  <2>. TAKE l \in Layers
  <2>1. CASE l = layer
    BY <1>1, <1>2, <2>1
  <2>2. CASE l # layer
    <3>1. new[l] = lists[l] /\ Len(lists[l]) = Len(lists[l]) + 0
      BY <1>1, <1>2, <2>2
    <3>. QED  BY <2>2, <3>1
  <2>. QED  BY <2>1, <2>2
<1>. QED  BY <1>3, <1>4

\* A forward pass adds a microbatch to the list of its layer.
LEMMA ForwardGrows ==
  ASSUME TypeInv, NEW r \in Stages, NEW v \in 0 .. Total - 1, ForwardStep(r, v)
  PROVE  /\ forwards' \in [Layers -> Seq(0 .. M)]
         /\ \A q \in Stages, c \in Chunks : Len(forwards'[Layer(q, c)]) =
               Len(forwards[Layer(q, c)]) + (IF q = r /\ c = Entry(v).chunk THEN 1 ELSE 0)
<1>. DEFINE d == Entry(v).chunk
            m == ForwardOf(r, v, InputsFor(stage[r], r, d))
<1>1. Known /\ d \in Chunks /\ get_model_chunk_id(v, TRUE) = d /\ Layer(r, d) \in Layers
  <2>1. Known
    BY DEF TypeInv
  <2>2. d \in Chunks /\ get_model_chunk_id(v, TRUE) = d
    BY <2>1, ChunkIds
  <2>. HIDE DEF d
  <2>. QED  BY <2>1, <2>2, LayersApart
<1>2. m \in 0 .. M
  BY <1>1, ForwardOfType
<1>3. forwards' = [forwards EXCEPT ![Layer(r, d)] = Append(@, m)]
  BY <1>1 DEF ForwardStep
<1>. HIDE DEF d, m
<1>4. /\ forwards' \in [Layers -> Seq(0 .. M)]
      /\ \A l \in Layers : Len(forwards'[l]) = Len(forwards[l]) + (IF l = Layer(r, d) THEN 1 ELSE 0)
  <2>1. forwards \in [Layers -> Seq(0 .. M)]
    BY DEF TypeInv
  <2>. QED  BY <1>1, <1>2, <1>3, <2>1, ListGrows
<1>5. ASSUME NEW q \in Stages, NEW c \in Chunks
      PROVE  Len(forwards'[Layer(q, c)]) =
               Len(forwards[Layer(q, c)]) + (IF q = r /\ c = d THEN 1 ELSE 0)
  <2>1. Layer(q, c) \in Layers /\ (Layer(q, c) = Layer(r, d) <=> q = r /\ c = d)
    BY <1>1, LayersApart
  <2>. QED  BY <1>4, <2>1
<1>. QED  BY <1>4, <1>5 DEF d

\* The layers whose gradients a backward pass reduces.
Reduces(r, v, q, c) ==
    /\ q = r
    /\ \/ c = V - 1 - Entry(v).chunk /\ SyncsInBackward(v)
       \/ c \in SyncsAfterwards(r, v)

\* A backward pass adds a microbatch to the list of its layer, and reduces
\* the gradients of the layers it is to reduce.
LEMMA BackwardGrows ==
  ASSUME TypeInv, NEW r \in Stages, NEW v \in 0 .. Total - 1, BackwardStep(r, v)
  PROVE  /\ backwards' \in [Layers -> Seq(0 .. M)]
         /\ \A q \in Stages, c \in Chunks : Len(backwards'[Layer(q, c)]) =
               Len(backwards[Layer(q, c)]) + (IF q = r /\ V - 1 - c = Entry(v).chunk THEN 1 ELSE 0)
         /\ reductions' \in [Layers -> Seq(Nat)]
         /\ SyncsAfterwards(r, v) \subseteq Chunks
         /\ \A q \in Stages, c \in Chunks : reductions'[Layer(q, c)] =
               IF Reduces(r, v, q, c)
               THEN Append(reductions[Layer(q, c)], Len(backwards'[Layer(q, c)]))
               ELSE reductions[Layer(q, c)]
<1>. DEFINE d == get_model_chunk_id(v, FALSE)
            s == stage[r]
            m == BackwardOf(r, d, At(s.output_tensors[d], 1), At(s.output_tensor_grads[d], 1))
<1>1. /\ Known /\ d \in Chunks /\ d = V - 1 - Entry(v).chunk /\ Entry(v).chunk \in Chunks
      /\ V \in Nat /\ Chunks = 0 .. V - 1 /\ Total \in Nat
      /\ \A c \in Chunks : V - 1 - c = Entry(v).chunk <=> c = d
  <2>1. Known
    BY DEF TypeInv
  <2>2. V \in Nat /\ Chunks = 0 .. V - 1 /\ Total \in Nat
    BY <2>1, LegalLayout DEF Known
  <2>3. Entry(v).chunk \in Chunks /\ d = V - 1 - Entry(v).chunk /\ d \in Chunks
    BY <2>1, ChunkIds
  <2>4. \A c, e \in Chunks : V - 1 - c = e <=> c = V - 1 - e
    BY <2>2
  <2>. HIDE DEF d
  <2>. QED  BY <2>1, <2>2, <2>3, <2>4
<1>2. m \in 0 .. M
  <2>1. s.output_tensors[d] \in Seq(Outputs)
    BY <1>1 DEF TypeInv, IsLocals
  <2>. HIDE DEF d, s
  <2>. QED  BY <1>1, <2>1, BackwardOfType
<1>3. /\ backwards' = [backwards EXCEPT ![Layer(r, d)] = Append(@, m)]
      /\ reductions' = [layer \in Layers |->
              IF \/ layer = Layer(r, d) /\ SyncsInBackward(v)
                 \/ \E e \in SyncsAfterwards(r, v) : layer = Layer(r, e)
              THEN Append(reductions[layer], Len(backwards'[layer])) ELSE reductions[layer]]
  BY DEF BackwardStep
<1>4. SyncsAfterwards(r, v) \subseteq Chunks
  <2>1. SUFFICES ASSUME v >= r, layout.grad_sync_func PROVE get_model_chunk_id(v - r, FALSE) \in Chunks
    BY DEF SyncsAfterwards
  <2>2. r \in Nat
    BY <1>1, LegalLayout DEF Known, Stages
  <2>3. v - r \in 0 .. Total - 1
    BY <1>1, <2>1, <2>2
  <2>. QED  BY <1>1, <2>3, ChunkIds
<1>. HIDE DEF m
<1>5. Layer(r, d) \in Layers
  <2>. HIDE DEF d
  <2>. QED  BY <1>1, LayersApart
<1>6. /\ backwards' \in [Layers -> Seq(0 .. M)]
      /\ \A l \in Layers :
            Len(backwards'[l]) = Len(backwards[l]) + (IF l = Layer(r, d) THEN 1 ELSE 0)
  <2>1. backwards \in [Layers -> Seq(0 .. M)]
    BY DEF TypeInv
  <2>. HIDE DEF d
  <2>. QED  BY <1>2, <1>3, <1>5, <2>1, ListGrows
<1>7. reductions' \in [Layers -> Seq(Nat)]
  <2>1. reductions \in [Layers -> Seq(Nat)]
    BY DEF TypeInv
  <2>2. \A l \in Layers : /\ reductions[l] \in Seq(Nat) /\ Len(backwards'[l]) \in Nat
                          /\ Append(reductions[l], Len(backwards'[l])) \in Seq(Nat)
    <3>1. \A l \in Layers : Len(backwards'[l]) \in Nat
      BY <1>6
    <3>. QED  BY <2>1, <3>1
  <2>. HIDE DEF d
  <2>. QED  BY <1>3, <2>2
<1>8. ASSUME NEW q \in Stages, NEW c \in Chunks
      PROVE  /\ Len(backwards'[Layer(q, c)]) =
               Len(backwards[Layer(q, c)]) + (IF q = r /\ V - 1 - c = Entry(v).chunk THEN 1 ELSE 0)
             /\ reductions'[Layer(q, c)] =
               IF Reduces(r, v, q, c)
               THEN Append(reductions[Layer(q, c)], Len(backwards'[Layer(q, c)]))
               ELSE reductions[Layer(q, c)]
  <2>1. Layer(q, c) \in Layers /\ \A e \in Chunks : Layer(q, c) = Layer(r, e) <=> q = r /\ c = e
    BY <1>1, LayersApart
  <2>2. Layer(q, c) = Layer(r, d) <=> q = r /\ c = d
    BY <1>1, <2>1
  <2>3. Len(backwards'[Layer(q, c)]) =
           Len(backwards[Layer(q, c)]) + (IF q = r /\ V - 1 - c = Entry(v).chunk THEN 1 ELSE 0)
    <3>. HIDE DEF d
    <3>. QED  BY <1>1, <1>6, <2>1, <2>2
  <2>4. (\/ Layer(q, c) = Layer(r, d) /\ SyncsInBackward(v)
         \/ \E e \in SyncsAfterwards(r, v) : Layer(q, c) = Layer(r, e)) <=> Reduces(r, v, q, c)
    <3>1. Reduces(r, v, q, c) <=>
             q = r /\ ((c = d /\ SyncsInBackward(v)) \/ c \in SyncsAfterwards(r, v))
      BY <1>1 DEF Reduces
    <3>. HIDE DEF d
    <3>. QED  BY <1>4, <2>1, <2>2, <3>1
  <2>5. reductions'[Layer(q, c)] =
           IF \/ Layer(q, c) = Layer(r, d) /\ SyncsInBackward(v)
              \/ \E e \in SyncsAfterwards(r, v) : Layer(q, c) = Layer(r, e)
           THEN Append(reductions[Layer(q, c)], Len(backwards'[Layer(q, c)]))
           ELSE reductions[Layer(q, c)]
    <3>. HIDE DEF d
    <3>. QED  BY <1>3, <2>1
  <2>. HIDE DEF d
  <2>6. CASE Reduces(r, v, q, c)
    BY <2>3, <2>4, <2>5, <2>6
  <2>7. CASE ~Reduces(r, v, q, c)
    BY <2>3, <2>4, <2>5, <2>7
  <2>. QED  BY <2>6, <2>7
<1>. QED  BY <1>4, <1>6, <1>7, <1>8

-----------------------------------------------------------------------------
(* Every step of a stage is one of the four moves                          *)

\* A step is a forward pass, a backward pass, the flush, or neither.
LEMMA Moves ==
  ASSUME Positions, NEW r \in Stages, Step(r)
  PROVE  /\ Steps(r)
         /\ \/ \E v \in 0 .. Total - 1, calling \in BOOLEAN : ForwardMove(r, v, calling)
            \/ \E v \in 0 .. Total - 1 : BackwardMove(r, v)
            \/ QuietMove(r)
            \/ FlushMove(r)
<1>0. Overlaps \in BOOLEAN
  BY LegalLayout DEF Positions, TypeInv, Known, Overlaps
<1>1. CASE Begin(r)
  BY <1>1, BeginMoves
<1>2. CASE WarmupPrefetch(r)
  BY <1>2, WarmupPrefetchMoves
<1>3. CASE WarmupForwardPrefetched(r)
  BY <1>3, WarmupForwardPrefetchedMoves
<1>4. CASE WarmupForward(r)
  BY <1>4, WarmupForwardMoves
<1>5. CASE WarmupBackward(r)
  BY <1>5, WarmupBackwardMoves
<1>6. CASE SteadyForward(r)
  BY <1>0, <1>6, SteadyForwardMoves
<1>7. CASE SteadyBackward(r)
  BY <1>7, SteadyBackwardMoves
<1>8. CASE Turn(r)
  BY <1>8, TurnMoves
<1>9. CASE CooldownPrefetch(r)
  BY <1>9, CooldownPrefetchMoves
<1>10. CASE CooldownBackwardPrefetched(r)
  BY <1>10, CooldownBackwardPrefetchedMoves
<1>11. CASE CooldownBackward(r)
  BY <1>11, CooldownBackwardMoves
<1>12. CASE Flush(r)
  BY <1>12, FlushMoves
<1>13. CASE Finish(r)
  BY <1>13, FinishMoves
<1>. QED
  BY <1>1, <1>2, <1>3, <1>4, <1>5, <1>6, <1>7, <1>8, <1>9, <1>10, <1>11, <1>12, <1>13 DEF Step

\* Every step leads to another place of the schedule.
LEMMA PositionsStay ==
  ASSUME Positions, NEW r \in Stages, Step(r)
  PROVE  Positions'
<1>1. TypeInv /\ Known
  BY DEF Positions, TypeInv
<1>2. /\ Steps(r)
      /\ layout' = layout /\ schedule_table' = schedule_table
      /\ stage' = [stage EXCEPT ![r] = stage'[r]] /\ calls' \in [Stages -> Nat]
  BY Moves DEF Steps
<1>3. /\ Stages' = Stages /\ Layers' = Layers /\ M' = M
      /\ \A s : IsLocals(s)' <=> IsLocals(s)
      /\ \A q, s : InPlace(q, s)' <=> InPlace(q, s)
      /\ Known'
  BY <1>1, <1>2, LayoutStays
<1>4. /\ forwards' \in [Layers -> Seq(0 .. M)]
      /\ backwards' \in [Layers -> Seq(0 .. M)]
      /\ reductions' \in [Layers -> Seq(Nat)]
  <2>1. /\ forwards \in [Layers -> Seq(0 .. M)]
        /\ backwards \in [Layers -> Seq(0 .. M)]
        /\ reductions \in [Layers -> Seq(Nat)]
    BY <1>1 DEF TypeInv
  <2>2. CASE \E v \in 0 .. Total - 1, calling \in BOOLEAN : ForwardMove(r, v, calling)
    <3>1. PICK v \in 0 .. Total - 1, calling \in BOOLEAN : ForwardMove(r, v, calling)
      BY <2>2
    <3>2. ForwardStep(r, v) /\ UNCHANGED <<backwards, reductions>>
      BY <3>1 DEF ForwardMove
    <3>. QED  BY <1>1, <2>1, <3>2, ForwardGrows
  <2>3. CASE \E v \in 0 .. Total - 1 : BackwardMove(r, v)
    <3>1. PICK v \in 0 .. Total - 1 : BackwardMove(r, v)
      BY <2>3
    <3>2. BackwardStep(r, v) /\ UNCHANGED forwards
      BY <3>1 DEF BackwardMove
    <3>. QED  BY <1>1, <2>1, <3>2, BackwardGrows
  <2>4. CASE QuietMove(r)
    BY <2>1, <2>4 DEF QuietMove, passes
  <2>5. CASE FlushMove(r)
    <3>. DEFINE left == IF layout.grad_sync_func THEN Chunks \ stage[r].synchronized ELSE {}
    <3>1. /\ UNCHANGED <<forwards, backwards>>
          /\ reductions' = [layer \in Layers |->
                 IF \E c \in left : layer = Layer(r, c)
                 THEN Append(reductions[layer], Len(backwards[layer])) ELSE reductions[layer]]
      BY <2>5 DEF FlushMove
    <3>. HIDE DEF left
    <3>2. \A layer \in Layers : /\ reductions[layer] \in Seq(Nat)
                                /\ Append(reductions[layer], Len(backwards[layer])) \in Seq(Nat)
      <4>1. \A layer \in Layers : Len(backwards[layer]) \in Nat
        BY <2>1
      <4>. QED  BY <2>1, <4>1
    <3>. QED  BY <2>1, <3>1, <3>2
  <2>. QED  BY <2>2, <2>3, <2>4, <2>5, Moves
<1>5. /\ stage' = [q \in Stages |-> stage'[q]]
      /\ \A q \in Stages : q # r => stage'[q] = stage[q]
      /\ \A q \in Stages : IsLocals(stage'[q]) /\ InPlace(q, stage'[q])
  <2>1. /\ stage = [q \in Stages |-> stage[q]]
        /\ \A q \in Stages : IsLocals(stage[q]) /\ InPlace(q, stage[q])
    BY DEF Positions, TypeInv
  <2>2. IsLocals(stage'[r]) /\ InPlace(r, stage'[r])
    BY <1>2 DEF Steps
  <2>3. \A q \in Stages : q # r => stage'[q] = stage[q]
    BY <1>2, <2>1
  <2>4. stage' = [q \in Stages |-> stage'[q]]
    BY <1>2, <2>1
  <2>. QED  BY <2>1, <2>2, <2>3, <2>4
<1>. QED  BY <1>2, <1>3, <1>4, <1>5 DEF Positions, TypeInv

-----------------------------------------------------------------------------
(* Passes and reductions                                                   *)

\* What changes at stage q when stage r takes a step.
LEMMA OthersStay ==
  ASSUME Positions, NEW r \in Stages, Step(r), NEW q \in Stages
  PROVE  /\ q # r => stage'[q] = stage[q]
         /\ layout' = layout /\ schedule_table' = schedule_table /\ Known
<1>1. stage' = [stage EXCEPT ![r] = stage'[r]] /\ stage = [p \in Stages |-> stage[p]]
  BY Moves DEF Steps, Positions, TypeInv
<1>2. layout' = layout /\ schedule_table' = schedule_table /\ Known
  BY Moves DEF Steps, Positions, TypeInv
<1>. QED  BY <1>1, <1>2

\* A stage makes at most Total passes either way.
LEMMA Ranges ==
  ASSUME Positions, NEW r \in Stages
  PROVE  /\ Forwarded(r, stage[r]) \in 0 .. Total /\ Backwarded(r, stage[r]) \in 0 .. Total
         /\ Called(r, stage[r]) \in 0 .. Total
         /\ Called(r, stage[r]) >= Forwarded(r, stage[r]) - 1
         /\ stage[r].at = "begin" =>
               /\ Forwarded(r, stage[r]) = 0 /\ Backwarded(r, stage[r]) = 0
               /\ ~Opened(r, stage[r])
<1>. DEFINE s == stage[r]
            w == num_warmup_microbatches(r)
<1>1. IsLocals(s) /\ InPlace(r, s) /\ Known
  BY DEF Positions, TypeInv
<1>2. /\ Total \in Nat /\ w \in Nat /\ 0 < w /\ w <= Total
  BY <1>1, LegalLayout, Warmup DEF Known
<1>3. s.k \in Nat /\ s.k <= Total /\ s.at \in Places
  BY <1>1, <1>2 DEF IsLocals
<1>. HIDE DEF s, w
<1>4. Forwarded(r, s) \in 0 .. Total /\ (s.at = "steady_backward" => 0 < Forwarded(r, s))
  BY <1>1, <1>2, <1>3 DEF Forwarded, InPlace, w
<1>5. Backwarded(r, s) \in 0 .. Total
  BY <1>1, <1>2, <1>3 DEF Backwarded, InPlace, w
<1>6. Called(r, s) \in 0 .. Total /\ Called(r, s) >= Forwarded(r, s) - 1
  BY <1>2, <1>4 DEF Called
<1>7. s.at = "begin" => Forwarded(r, s) = 0 /\ Backwarded(r, s) = 0 /\ ~Opened(r, s)
  BY <1>1 DEF Forwarded, Backwarded, Opened, InPlace
<1>. QED  BY <1>4, <1>5, <1>6, <1>7 DEF s

\* The lists of passes grow with the passes.
LEMMA ProgressStays ==
  ASSUME Positions, NEW r \in Stages, Step(r), NEW q \in Stages, NEW c \in Chunks, Progress(q, c)
  PROVE  Progress(q, c)'
<1>1. /\ q # r => stage'[q] = stage[q]
      /\ layout' = layout /\ schedule_table' = schedule_table /\ Known /\ TypeInv
  BY OthersStay DEF Positions
<1>2. Progress(q, c)' <=>
         /\ Len(forwards'[Layer(q, c)]) = Count(c, Forwarded(q, stage'[q]))
         /\ Len(backwards'[Layer(q, c)]) = Count(V - 1 - c, Backwarded(q, stage'[q]))
  BY <1>1, LayoutStays DEF Progress
<1>3. /\ Len(forwards[Layer(q, c)]) = Count(c, Forwarded(q, stage[q]))
      /\ Len(backwards[Layer(q, c)]) = Count(V - 1 - c, Backwarded(q, stage[q]))
  BY DEF Progress
<1>4. \A n \in Nat : \A d : /\ Count(d, n) \in Nat
                        /\ Count(d, n + 1) = Count(d, n) + (IF Entry(n).chunk = d THEN 1 ELSE 0)
  BY CountNext
<1>5. \A v \in 0 .. Total - 1 : v \in Nat /\ v + 1 # v
  BY <1>1, LegalLayout DEF Known
<1>6. CASE \E v \in 0 .. Total - 1, calling \in BOOLEAN : ForwardMove(r, v, calling)
  <2>1. PICK v \in 0 .. Total - 1, calling \in BOOLEAN : ForwardMove(r, v, calling)
    BY <1>6
  <2>2. /\ ForwardStep(r, v) /\ backwards' = backwards /\ v = Forwarded(r, stage[r])
        /\ Forwarded(r, stage'[r]) = v + 1
        /\ Backwarded(r, stage'[r]) = Backwarded(r, stage[r])
    BY <2>1 DEF ForwardMove
  <2>3. Len(forwards'[Layer(q, c)]) =
           Len(forwards[Layer(q, c)]) + (IF q = r /\ c = Entry(v).chunk THEN 1 ELSE 0)
    <3>1. TypeInv /\ ForwardStep(r, v)
      BY <1>1, <2>2
    <3>2. \A p \in Stages, d \in Chunks : Len(forwards'[Layer(p, d)]) =
             Len(forwards[Layer(p, d)]) + (IF p = r /\ d = Entry(v).chunk THEN 1 ELSE 0)
      BY <3>1, ForwardGrows
    <3>. QED  BY <3>2
  <2>4. CASE q = r
    BY <1>2, <1>3, <1>4, <1>5, <2>2, <2>3, <2>4
  <2>5. CASE q # r
    <3>1. Len(forwards'[Layer(q, c)]) = Len(forwards[Layer(q, c)]) + 0
      BY <2>3, <2>5
    <3>2. Len(forwards[Layer(q, c)]) \in Nat
      <4>1. Forwarded(q, stage[q]) \in Nat
        BY <1>1, Ranges, LegalLayout DEF Known
      <4>. QED  BY <1>3, <1>4, <4>1
    <3>. QED  BY <1>1, <1>2, <1>3, <2>2, <2>5, <3>1, <3>2
  <2>. QED  BY <2>4, <2>5
<1>7. CASE \E v \in 0 .. Total - 1 : BackwardMove(r, v)
  <2>1. PICK v \in 0 .. Total - 1 : BackwardMove(r, v)
    BY <1>7
  <2>2. /\ BackwardStep(r, v) /\ forwards' = forwards /\ v = Backwarded(r, stage[r])
        /\ Forwarded(r, stage'[r]) = Forwarded(r, stage[r])
        /\ Backwarded(r, stage'[r]) = v + 1
    BY <2>1 DEF BackwardMove
  <2>3. Len(backwards'[Layer(q, c)]) =
           Len(backwards[Layer(q, c)]) + (IF q = r /\ V - 1 - c = Entry(v).chunk THEN 1 ELSE 0)
    BY <1>1, <2>2, BackwardGrows
  <2>4. CASE q = r
    BY <1>2, <1>3, <1>4, <1>5, <2>2, <2>3, <2>4
  <2>5. CASE q # r
    <3>1. Len(backwards'[Layer(q, c)]) = Len(backwards[Layer(q, c)]) + 0
      BY <2>3, <2>5
    <3>2. Len(backwards[Layer(q, c)]) \in Nat
      <4>1. Backwarded(q, stage[q]) \in Nat
        BY <1>1, Ranges, LegalLayout DEF Known
      <4>. QED  BY <1>3, <1>4, <4>1
    <3>. QED  BY <1>1, <1>2, <1>3, <2>2, <2>5, <3>1, <3>2
  <2>. QED  BY <2>4, <2>5
<1>8. CASE QuietMove(r)
  <2>1. /\ forwards' = forwards /\ backwards' = backwards
        /\ Forwarded(r, stage'[r]) = Forwarded(r, stage[r])
        /\ Backwarded(r, stage'[r]) = Backwarded(r, stage[r])
    BY <1>8 DEF QuietMove, passes
  <2>. QED  BY <1>1, <1>2, <1>3, <2>1
<1>9. CASE FlushMove(r)
  <2>1. /\ forwards' = forwards /\ backwards' = backwards
        /\ Forwarded(r, stage'[r]) = Forwarded(r, stage[r])
        /\ Backwarded(r, stage'[r]) = Backwarded(r, stage[r])
    BY <1>9 DEF FlushMove
  <2>. QED  BY <1>1, <1>2, <1>3, <2>1
<1>. QED  BY <1>6, <1>7, <1>8, <1>9, Moves

\* In the schedule table a chunk is over with its last microbatch.
LEMMA LastOfChunk ==
  ASSUME Known, NEW v \in 0 .. Total - 1
  PROVE  /\ is_last_microbatch(v) <=> Count(Entry(v).chunk, v + 1) = M
         /\ Count(Entry(v).chunk, v) # M /\ Count(Entry(v).chunk, v) \in Nat
<1>. DEFINE c == Entry(v).chunk
<1>1. M \in Nat /\ Total \in Nat /\ v \in Nat
  BY LegalLayout DEF Known
<1>2. c \in Chunks /\ Entry(v).microbatch = Count(c, v) /\ Count(c, Total) = M
  BY TableFacts, ChunkIds
<1>3. Count(c, v + 1) = Count(c, v) + 1 /\ Count(c, v) \in Nat /\ Count(c, v + 1) \in Nat
  BY <1>1, CountNext
<1>4. Count(c, v + 1) <= Count(c, Total)
  BY <1>1, CountGrows
<1>5. is_last_microbatch(v) <=> Count(c, v) = M - 1
  BY <1>1, <1>2 DEF is_last_microbatch
<1>. HIDE DEF c
<1>. QED  BY <1>1, <1>2, <1>3, <1>4, <1>5 DEF c

\* The chunks that a backward pass reduces are those that become due.
LEMMA BecomesDue ==
  ASSUME Positions, NEW r \in Stages, NEW v \in 0 .. Total - 1, BackwardMove(r, v),
         NEW c \in Chunks
  PROVE  /\ Reduces(r, v, r, c) <=> Due(r, stage'[r], c) /\ ~Due(r, stage[r], c)
         /\ Due(r, stage[r], c) => Due(r, stage'[r], c)
         /\ Reduces(r, v, r, c) => Count(V - 1 - c, v + 1) = M
<1>. DEFINE e == V - 1 - c
<1>1. /\ Known /\ v \in Nat /\ r \in Nat /\ M \in Nat /\ 0 < M /\ V \in Nat /\ Chunks = 0 .. V - 1
      /\ Total \in Nat /\ r \in 0 .. P - 1 /\ layout.grad_sync_func \in BOOLEAN
  BY LegalLayout DEF Positions, TypeInv, Known, Stages
<1>2. /\ Backwarded(r, stage[r]) = v /\ Backwarded(r, stage'[r]) = v + 1
      /\ stage[r].at \notin {"flushed", "done"} /\ stage'[r].at \notin {"flushed", "done"}
  BY DEF BackwardMove
<1>3. \A n \in Nat : \A d : /\ Count(d, n) \in Nat
                        /\ Count(d, n + 1) = Count(d, n) + (IF Entry(n).chunk = d THEN 1 ELSE 0)
  BY CountNext
<1>4. \A n \in 0 .. Total : Count(e, n) <= M /\ Count(e, n) \in Nat
  <2>1. e \in Chunks
    BY <1>1
  <2>2. Count(e, Total) = M
    BY <1>1, <2>1, TableFacts
  <2>. HIDE DEF e
  <2>. QED  BY <1>1, <1>3, <2>2, CountGrows
<1>5. \A u \in 0 .. Total - 1 :
         /\ Entry(u).chunk \in Chunks
         /\ is_last_microbatch(u) <=> Count(Entry(u).chunk, u + 1) = M
         /\ Count(Entry(u).chunk, u) # M
  BY <1>1, LastOfChunk, ChunkIds
<1>6. \A u \in 0 .. Total - 1 :
         /\ Entry(u).chunk = e /\ is_last_microbatch(u) <=> Count(e, u) # M /\ Count(e, u + 1) = M
         /\ Count(e, u) = M => Count(e, u + 1) = M
  <2>. HIDE DEF e
  <2>. TAKE u \in 0 .. Total - 1
  <2>1. /\ u \in Nat /\ u \in 0 .. Total /\ u + 1 \in 0 .. Total
    BY <1>1
  <2>2. /\ Count(e, u) \in Nat /\ Count(e, u + 1) \in Nat /\ Count(e, u + 1) <= M
        /\ Count(e, u + 1) = Count(e, u) + (IF Entry(u).chunk = e THEN 1 ELSE 0)
    BY <1>3, <1>4, <2>1
  <2>3. CASE Entry(u).chunk = e
    BY <1>1, <1>5, <2>2, <2>3
  <2>4. CASE Entry(u).chunk # e
    <3>1. Count(e, u + 1) = Count(e, u)
      BY <2>2, <2>4
    <3>. QED  BY <2>4, <3>1
  <2>. QED  BY <2>3, <2>4
<1>7. CASE ~layout.grad_sync_func
  <2>1. Reduces(r, v, r, c) <=> Entry(v).chunk = e /\ is_last_microbatch(v)
    <3>1. c = V - 1 - Entry(v).chunk <=> Entry(v).chunk = e
      BY <1>1, <1>5
    <3>. QED  BY <1>7, <3>1 DEF Reduces, SyncsInBackward, SyncsAfterwards
  <2>2. \A s : Due(r, s, c) <=> Count(e, Backwarded(r, s)) = M
    BY <1>7 DEF Due
  <2>. HIDE DEF e
  <2>. QED  BY <1>2, <1>6, <2>1, <2>2 DEF e
<1>8. CASE layout.grad_sync_func
  <2>. DEFINE u == v - r
  <2>1. \A s : s.at \notin {"flushed", "done"} =>
           (Due(r, s, c) <=> Backwarded(r, s) >= r /\ Count(e, Backwarded(r, s) - r) = M)
    BY <1>8 DEF Due
  <2>2. CASE v >= r
    <3>1. u \in 0 .. Total - 1 /\ v + 1 - r = u + 1 /\ v + 1 >= r
      BY <1>1, <2>2
    <3>2. Reduces(r, v, r, c) <=> Entry(u).chunk = e /\ is_last_microbatch(u)
      <4>1. get_model_chunk_id(u, FALSE) = V - 1 - Entry(u).chunk
        BY <1>1, <3>1, ChunkIds
      <4>2. c = V - 1 - Entry(u).chunk <=> Entry(u).chunk = e
        <5>1. \A x \in Chunks : c = V - 1 - x <=> x = e
          BY <1>1
        <5>2. Entry(u).chunk \in Chunks
          BY <1>5, <3>1
        <5>. HIDE DEF e, u
        <5>. QED  BY <5>1, <5>2
      <4>3. Reduces(r, v, r, c) <=> c = get_model_chunk_id(u, FALSE) /\ is_last_microbatch(u)
        BY <1>8, <2>2 DEF Reduces, SyncsInBackward, SyncsAfterwards
      <4>. QED  BY <4>1, <4>2, <4>3
    <3>3. /\ Due(r, stage[r], c) <=> Count(e, u) = M
          /\ Due(r, stage'[r], c) <=> Count(e, u + 1) = M
      <4>1. /\ Due(r, stage[r], c) <=>
                  Backwarded(r, stage[r]) >= r /\ Count(e, Backwarded(r, stage[r]) - r) = M
            /\ Due(r, stage'[r], c) <=>
                  Backwarded(r, stage'[r]) >= r /\ Count(e, Backwarded(r, stage'[r]) - r) = M
        BY <1>2, <2>1
      <4>2. /\ Backwarded(r, stage[r]) >= r /\ Backwarded(r, stage[r]) - r = u
            /\ Backwarded(r, stage'[r]) >= r /\ Backwarded(r, stage'[r]) - r = u + 1
        <5>1. /\ v - r = u /\ v + 1 - r = u + 1 /\ v + 1 >= r /\ v >= r
              /\ v \in Nat /\ r \in Nat /\ u \in Int
          BY <1>1, <2>2, <3>1
        <5>. DEFINE x == Backwarded(r, stage[r])
                    y == Backwarded(r, stage'[r])
        <5>2. x = v /\ y = v + 1
          BY <1>2
        <5>. HIDE DEF u, x, y
        <5>3. x >= r /\ x - r = u
          BY <5>1, <5>2
        <5>4. y >= r /\ y - r = u + 1
          BY <5>1, <5>2
        <5>. QED  BY <5>3, <5>4 DEF x, y
      <4>. HIDE DEF e, u
      <4>. QED  BY <4>1, <4>2
    <3>4. Count(e, u + 1) <= Count(e, v + 1) /\ Count(e, v + 1) <= M
      <4>1. u + 1 \in Nat /\ v + 1 \in Nat /\ u + 1 <= v + 1 /\ v + 1 \in 0 .. Total
        BY <1>1, <3>1
      <4>. HIDE DEF e, u
      <4>. QED  BY <1>4, <4>1, CountGrows
    <3>5. Count(e, u + 1) \in Nat /\ Count(e, v + 1) \in Nat
      <4>1. u + 1 \in Nat /\ v + 1 \in Nat
        BY <1>1, <3>1
      <4>. HIDE DEF e, u
      <4>. QED  BY <1>3, <4>1
    <3>6. Count(e, u + 1) = M => Count(e, v + 1) = M
      BY <1>1, <3>4, <3>5
    <3>. HIDE DEF e, u
    <3>. QED  BY <1>6, <3>1, <3>2, <3>3, <3>6 DEF e
  <2>3. CASE ~ (v >= r)
    <3>1. ~Reduces(r, v, r, c)
      BY <1>8, <2>3 DEF Reduces, SyncsInBackward, SyncsAfterwards
    <3>2. ~Due(r, stage[r], c)
      BY <1>2, <2>1, <2>3
    <3>3. ~Due(r, stage'[r], c)
      <4>1. v + 1 >= r => v + 1 - r = 0
        BY <1>1, <2>3
      <4>2. Count(e, 0) = 0
        BY CountNext
      <4>. HIDE DEF e
      <4>. QED  BY <1>1, <1>2, <2>1, <4>1, <4>2
    <3>. QED  BY <3>1, <3>2, <3>3
  <2>. QED  BY <2>2, <2>3
<1>. QED  BY <1>1, <1>7, <1>8

\* What is due is reduced, once, with all microbatches.
LEMMA ReducedStays ==
  ASSUME Positions, NEW r \in Stages, Step(r), NEW q \in Stages, NEW c \in Chunks,
         Progress(q, c), Progress(q, c)', Reduced(q, c)
  PROVE  Reduced(q, c)'
<1>1. /\ q # r => stage'[q] = stage[q]
      /\ layout' = layout /\ schedule_table' = schedule_table /\ Known /\ TypeInv
  BY OthersStay DEF Positions
<1>2. Due(q, stage[q], c)' <=> Due(q, stage'[q], c)
  BY <1>1, LayoutStays DEF Due
<1>3. Reduced(q, c)' <=>
         /\ c \in stage'[q].synchronized <=> Due(q, stage'[q], c)
         /\ reductions'[Layer(q, c)] = IF Due(q, stage'[q], c) THEN <<M>> ELSE <<>>
  BY <1>1, <1>2, LayoutStays DEF Reduced
<1>4. /\ c \in stage[q].synchronized <=> Due(q, stage[q], c)
      /\ reductions[Layer(q, c)] = IF Due(q, stage[q], c) THEN <<M>> ELSE <<>>
  BY DEF Reduced
<1>5. Len(backwards'[Layer(q, c)]) = Count(V - 1 - c, Backwarded(q, stage'[q]))
  BY <1>1, LayoutStays DEF Progress
<1>6. Append(<<>>, M) = <<M>>
  OBVIOUS
<1>7. CASE \E v \in 0 .. Total - 1, calling \in BOOLEAN : ForwardMove(r, v, calling)
  <2>1. PICK v \in 0 .. Total - 1, calling \in BOOLEAN : ForwardMove(r, v, calling)
    BY <1>7
  <2>2. /\ reductions' = reductions /\ v = Forwarded(r, stage[r])
        /\ Forwarded(r, stage'[r]) = v + 1
        /\ Backwarded(r, stage'[r]) = Backwarded(r, stage[r])
        /\ stage'[r].synchronized = stage[r].synchronized
        /\ stage'[r].at \in {"flushed", "done"} => layout.forward_only
    BY <2>1 DEF ForwardMove
  <2>3. Due(r, stage'[r], c) <=> Due(r, stage[r], c)
    <3>1. v + 1 \in Nat /\ v < Total /\ v \in Nat /\ Total \in Nat
      BY <1>1, LegalLayout DEF Known
    <3>2. stage[r].at \notin {"flushed", "done"}
      <4>1. stage[r].at \in {"flushed", "done"} => Forwarded(r, stage[r]) = Total
        BY DEF Forwarded
      <4>. QED  BY <2>2, <3>1, <4>1
    <3>3. layout.forward_only => ~layout.grad_sync_func
      BY <1>1 DEF Known, Legal, Accepted
    <3>4. stage'[r].at \in {"flushed", "done"} => ~layout.grad_sync_func
      BY <2>2, <3>3
    <3>. QED  BY <2>2, <3>2, <3>4 DEF Due
  <2>. QED  BY <1>1, <1>3, <1>4, <2>2, <2>3
<1>8. CASE \E v \in 0 .. Total - 1 : BackwardMove(r, v)
  <2>1. PICK v \in 0 .. Total - 1 : BackwardMove(r, v)
    BY <1>8
  <2>2. /\ BackwardStep(r, v) /\ Backwarded(r, stage'[r]) = v + 1
        /\ stage'[r].synchronized = AfterBackward(stage[r], r, v).synchronized
    BY <2>1 DEF BackwardMove
  <2>3. reductions'[Layer(q, c)] =
               IF Reduces(r, v, q, c)
               THEN Append(reductions[Layer(q, c)], Len(backwards'[Layer(q, c)]))
               ELSE reductions[Layer(q, c)]
    BY <1>1, <2>2, BackwardGrows
  <2>4. CASE q = r
    <3>1. /\ Reduces(r, v, r, c) <=> Due(r, stage'[r], c) /\ ~Due(r, stage[r], c)
          /\ Due(r, stage[r], c) => Due(r, stage'[r], c)
          /\ Reduces(r, v, r, c) => Count(V - 1 - c, v + 1) = M
      BY <2>1, BecomesDue
    <3>2. c \in stage'[r].synchronized <=> c \in stage[r].synchronized \/ Reduces(r, v, r, c)
      <4>1. IsLocals(stage[r])
        BY <1>1 DEF TypeInv
      <4>2. BackwardLocals(stage[r], AfterBackward(stage[r], r, v), r, v)
        BY <1>1, <4>1, AfterBackwardType
      <4>3. stage'[r].synchronized = stage[r].synchronized \cup SyncsAfterwards(r, v)
                     \cup (IF SyncsInBackward(v) THEN {V - 1 - Entry(v).chunk} ELSE {})
        BY <2>2, <4>2 DEF BackwardLocals
      <4>. QED  BY <4>3 DEF Reduces
    <3>3. CASE Reduces(r, v, r, c)
      <4>1. reductions'[Layer(q, c)] = Append(<<>>, M)
        BY <1>4, <1>5, <2>2, <2>3, <2>4, <3>1, <3>3
      <4>. QED  BY <1>3, <1>6, <2>4, <3>1, <3>2, <3>3, <4>1
    <3>4. CASE ~Reduces(r, v, r, c)
      BY <1>3, <1>4, <2>3, <2>4, <3>1, <3>2, <3>4
    <3>. QED  BY <3>3, <3>4
  <2>5. CASE q # r
    <3>1. ~Reduces(r, v, q, c)
      BY <2>5 DEF Reduces
    <3>. QED  BY <1>1, <1>3, <1>4, <2>3, <2>5, <3>1
  <2>. QED  BY <2>4, <2>5
<1>9. CASE QuietMove(r)
  <2>1. /\ reductions' = reductions
        /\ Backwarded(r, stage'[r]) = Backwarded(r, stage[r])
        /\ stage'[r].synchronized = stage[r].synchronized
        /\ stage'[r].at \in {"flushed", "done"} <=> stage[r].at \in {"flushed", "done"}
    BY <1>9 DEF QuietMove, passes
  <2>2. Due(r, stage'[r], c) <=> Due(r, stage[r], c)
    BY <2>1 DEF Due
  <2>. QED  BY <1>1, <1>3, <1>4, <2>1, <2>2
<1>10. CASE FlushMove(r)
  <2>. DEFINE left == IF layout.grad_sync_func THEN Chunks \ stage[r].synchronized ELSE {}
  <2>1. /\ backwards' = backwards /\ stage'[r].at = "flushed"
        /\ Backwarded(r, stage[r]) = Total /\ Backwarded(r, stage'[r]) = Total
        /\ stage'[r].synchronized = stage[r].synchronized \cup left
        /\ reductions' = [layer \in Layers |->
                 IF \E d \in left : layer = Layer(r, d)
                 THEN Append(reductions[layer], Len(backwards[layer])) ELSE reductions[layer]]
    BY <1>10 DEF FlushMove
  <2>2. Count(V - 1 - c, Total) = M
    <3>1. V \in Nat /\ Chunks = 0 .. V - 1
      BY <1>1, LegalLayout DEF Known
    <3>2. V - 1 - c \in Chunks
      BY <3>1
    <3>. QED  BY <1>1, <3>2, TableFacts
  <2>3. /\ Layer(q, c) \in Layers /\ left \subseteq Chunks
        /\ \A d \in Chunks : Layer(q, c) = Layer(r, d) <=> q = r /\ c = d
    BY <1>1, LayersApart
  <2>. HIDE DEF left
  <2>4. reductions'[Layer(q, c)] = IF q = r /\ c \in left
                                   THEN Append(reductions[Layer(q, c)], Len(backwards[Layer(q, c)]))
                                   ELSE reductions[Layer(q, c)]
    <3>1. reductions'[Layer(q, c)] =
                 IF \E d \in left : Layer(q, c) = Layer(r, d)
                 THEN Append(reductions[Layer(q, c)], Len(backwards[Layer(q, c)]))
                 ELSE reductions[Layer(q, c)]
      BY <2>1, <2>3
    <3>2. (\E d \in left : Layer(q, c) = Layer(r, d)) <=> q = r /\ c \in left
      BY <2>3
    <3>. QED  BY <3>1, <3>2
  <2>5. CASE q = r /\ c \in left
    <3>1. layout.grad_sync_func /\ c \notin stage[r].synchronized
      BY <2>5 DEF left
    <3>2. Due(r, stage'[r], c) /\ c \in stage'[r].synchronized
      BY <2>1, <2>5, <3>1 DEF Due
    <3>3. reductions'[Layer(q, c)] = Append(<<>>, M)
      BY <1>4, <1>5, <2>1, <2>2, <2>4, <2>5, <3>1
    <3>. QED  BY <1>3, <1>6, <2>5, <3>2, <3>3
  <2>6. CASE q = r /\ c \notin left
    <3>1. Due(r, stage'[r], c) <=> Due(r, stage[r], c)
      <4>1. CASE layout.grad_sync_func
        <5>1. c \in stage[r].synchronized
          BY <2>6, <4>1 DEF left
        <5>2. Due(r, stage[r], c)
          BY <1>4, <2>6, <5>1
        <5>. QED  BY <2>1, <4>1, <5>2 DEF Due
      <4>2. CASE ~layout.grad_sync_func
        BY <2>1, <4>2 DEF Due
      <4>. QED  BY <4>1, <4>2
    <3>. QED  BY <1>3, <1>4, <2>1, <2>4, <2>6, <3>1
  <2>7. CASE q # r
    BY <1>1, <1>3, <1>4, <2>4, <2>7
  <2>. QED  BY <2>5, <2>6, <2>7
<1>. QED  BY <1>7, <1>8, <1>9, <1>10, Moves

-----------------------------------------------------------------------------
(* Gathering of parameters                                                 *)

\* The pass in which stage r looks at the first microbatch of the chunk before c.
LEMMA FirstOfChunk ==
  ASSUME Known, NEW r \in Stages, NEW c \in 2 .. V - 1
  PROVE  /\ (c - 1) * N \in Nat /\ N <= (c - 1) * N /\ r \in Nat /\ r < N
         /\ c - 1 \in Chunks /\ c \in Chunks
         /\ layout.param_sync_func => ParamSync(r, (c - 1) * N - r) = {c}
         /\ (c - 1) * N <= c * N /\ c * N \in Nat
<1>1. /\ P \in Nat /\ V \in Nat /\ N \in Nat /\ 1 < V /\ 1 < N /\ Total \in Nat /\ Chunks = 0 .. V - 1
      /\ r \in 0 .. P - 1 /\ P <= N
  BY LegalLayout DEF Known, Stages
<1>2. c \in Nat /\ c - 1 \in Nat /\ 1 <= c - 1 /\ c - 1 <= c /\ c - 1 \in Chunks /\ c \in Chunks
  BY <1>1
<1>3. (c - 1) * N \in Nat /\ c * N \in Nat /\ 1 * N <= (c - 1) * N /\ (c - 1) * N <= c * N /\ 1 * N = N
  <2>1. c = (c - 1) + 1
    BY <1>2
  <2>2. (c - 1) * N \in Nat /\ c * N \in Nat
    BY <1>1, <1>2, Products
  <2>3. 1 = c - 1 \/ 1 < c - 1
    BY <1>2
  <2>4. 1 < c - 1 => 1 * N + N <= (c - 1) * N
    BY <1>1, <1>2, Products
  <2>5. (c - 1) * N + N <= c * N
    BY <1>1, <1>2, Products
  <2>6. 1 * N = N
    BY <1>1
  <2>. QED  BY <1>1, <2>2, <2>3, <2>4, <2>5, <2>6
<1>4. /\ (c - 1) * N \in 0 .. Total - 1
      /\ Entry((c - 1) * N).microbatch = 0 /\ Entry((c - 1) * N).chunk = c - 1
  <2>1. /\ (c - 1) * N \in 0 .. Total - 1 /\ Count(c - 1, (c - 1) * N) = 0
        /\ Entry((c - 1) * N).chunk = c - 1
    BY <1>2, TableFacts
  <2>. QED  BY <2>1, TableFacts
<1>5. layout.param_sync_func => ParamSync(r, (c - 1) * N - r) = {c}
  <2>. DEFINE u == (c - 1) * N
  <2>1. u - r + r = u /\ u < Total /\ (c - 1) + 1 = c /\ c > 1 /\ u \in Nat
    BY <1>1, <1>2, <1>3, <1>4
  <2>2. is_first_microbatch(u)
    BY <1>4, <2>1 DEF is_first_microbatch
  <2>3. get_model_chunk_id(u, TRUE) = c - 1
    BY <1>4 DEF get_model_chunk_id
  <2>. HIDE DEF u
  <2>4. layout.param_sync_func => ParamSync(r, u - r) = {c}
    BY <1>2, <2>1, <2>2, <2>3 DEF ParamSync
  <2>. QED  BY <2>4 DEF u
<1>. QED  BY <1>1, <1>2, <1>3, <1>5

\* The parameters of a chunk are gathered when a pass looks ahead at it.
LEMMA SyncedStays ==
  ASSUME Positions, NEW r \in Stages, Step(r), NEW q \in Stages, Synced(q)
  PROVE  Synced(q)'
<1>1. /\ q # r => stage'[q] = stage[q]
      /\ layout' = layout /\ schedule_table' = schedule_table /\ Known /\ TypeInv
  BY OthersStay DEF Positions
<1>2. Synced(q)' <=>
         (layout.param_sync_func =>
            /\ {0, 1} \subseteq stage'[q].param_synced
            /\ \A c \in 2 .. V - 1 :
                  Forwarded(q, stage'[q]) > (c - 1) * N - q => c \in stage'[q].param_synced)
  BY <1>1, LayoutStays DEF Synced
<1>. SUFFICES ASSUME layout.param_sync_func
              PROVE  /\ {0, 1} \subseteq stage'[q].param_synced
                     /\ \A c \in 2 .. V - 1 :
                           Forwarded(q, stage'[q]) > (c - 1) * N - q => c \in stage'[q].param_synced
  BY <1>2
<1>3. /\ {0, 1} \subseteq stage[q].param_synced
      /\ \A c \in 2 .. V - 1 :
            Forwarded(q, stage[q]) > (c - 1) * N - q => c \in stage[q].param_synced
  BY DEF Synced
<1>4. CASE q # r
  BY <1>1, <1>3, <1>4
<1>5. ASSUME Forwarded(r, stage'[r]) = Forwarded(r, stage[r]),
             stage'[r].param_synced = stage[r].param_synced, q = r
      PROVE  /\ {0, 1} \subseteq stage'[q].param_synced
             /\ \A c \in 2 .. V - 1 :
                   Forwarded(q, stage'[q]) > (c - 1) * N - q => c \in stage'[q].param_synced
  BY <1>3, <1>5
<1>6. CASE q = r /\ \E v \in 0 .. Total - 1, calling \in BOOLEAN : ForwardMove(r, v, calling)
  <2>1. PICK v \in 0 .. Total - 1, calling \in BOOLEAN : ForwardMove(r, v, calling)
    BY <1>6
  <2>2. /\ v = Forwarded(r, stage[r]) /\ Forwarded(r, stage'[r]) = v + 1
        /\ stage'[r].param_synced = AfterForward(stage[r], r, v).param_synced
    BY <2>1 DEF ForwardMove
  <2>3. stage'[r].param_synced = stage[r].param_synced \cup ParamSync(r, v)
    <3>1. IsLocals(stage[r])
      BY <1>1 DEF TypeInv
    <3>2. ForwardLocals(stage[r], AfterForward(stage[r], r, v), r, v)
      BY <1>1, <3>1, AfterForwardType
    <3>. QED  BY <2>2, <3>2 DEF ForwardLocals
  <2>4. ASSUME NEW c \in 2 .. V - 1, v + 1 > (c - 1) * N - r
        PROVE  c \in stage'[r].param_synced
    <3>. DEFINE u == (c - 1) * N
    <3>1. /\ u \in Nat /\ r \in Nat /\ v \in Nat
          /\ ParamSync(r, u - r) = {c}
      BY <1>1, FirstOfChunk, LegalLayout DEF Known
    <3>2. v + 1 > u - r
      BY <2>4
    <3>3. v > u - r => c \in stage[r].param_synced
      BY <1>3, <1>6, <2>2
    <3>. HIDE DEF u
    <3>4. v > u - r \/ v = u - r
      BY <3>1, <3>2
    <3>. QED  BY <2>3, <3>1, <3>3, <3>4
  <2>. QED  BY <1>3, <1>6, <2>2, <2>3, <2>4
<1>7. CASE q = r /\ \E v \in 0 .. Total - 1 : BackwardMove(r, v)
  <2>1. Forwarded(r, stage'[r]) = Forwarded(r, stage[r])
        /\ stage'[r].param_synced = stage[r].param_synced
    BY <1>7 DEF BackwardMove
  <2>. QED  BY <1>5, <1>7, <2>1
<1>8. CASE q = r /\ QuietMove(r)
  <2>1. Forwarded(r, stage'[r]) = Forwarded(r, stage[r])
        /\ stage'[r].param_synced = stage[r].param_synced
    BY <1>8 DEF QuietMove
  <2>. QED  BY <1>5, <1>8, <2>1
<1>9. CASE q = r /\ FlushMove(r)
  <2>1. Forwarded(r, stage'[r]) = Forwarded(r, stage[r])
        /\ stage'[r].param_synced = stage[r].param_synced
    BY <1>9 DEF FlushMove
  <2>. QED  BY <1>5, <1>9, <2>1
<1>. QED  BY <1>4, <1>6, <1>7, <1>8, <1>9, Moves

-----------------------------------------------------------------------------
(* The lists of tensors                                                    *)

MaxOf(a, b) == IF a < b THEN b ELSE a

\* The tensors that have come in for chunk c after the calls of n passes: one
\* for the first pass before them all, and with each pass the one for the next;
\* at the end of the ring that the passes start from, what left the other end
\* P - 1 passes ago, for the chunk after.
Reach(leading, c, n) ==
    IF leading THEN Count(c - 1, MaxOf(0, MinOf(n, Total - 1) - (P - 1)))
    ELSE Count(c, MinOf(n + 1, Total))

\* Inputs of the forward passes of a chunk; the first layer makes its own.
Fed(r, s, c) ==
    IF FirstLayer(r, c) THEN MaxOf(Count(0, Forwarded(r, s)), 1)
    ELSE Reach(is_pp_first_stage(r), c, Called(r, s))

\* Gradients for the backward passes of a chunk.
FedBack(r, s, c) ==
    IF ~Opened(r, s) THEN 0
    ELSE IF LastLayer(r, c) THEN 1
    ELSE Reach(is_pp_last_stage(r), V - 1 - c, Backwarded(r, s))

\* Inputs and outputs of a chunk that its backward passes have released.
Released(r, s, c) == Count(V - 1 - c, Backwarded(r, s))

\* A chunk keeps the output of each forward pass until its backward pass.
Outs(r, s, c) ==
    Len(s.output_tensors[c]) =
        IF layout.forward_only THEN 0 ELSE Count(c, Forwarded(r, s)) - Released(r, s, c)

\* And every input that has come in; without backward passes, no more than these.
Ins(r, s, c) ==
    IF s.at = "begin" THEN Len(s.input_tensors[c]) = 0
    ELSE IF layout.forward_only THEN Len(s.input_tensors[c]) <= Fed(r, s, c)
    ELSE Len(s.input_tensors[c]) = Fed(r, s, c) - Released(r, s, c)

\* A backward pass takes a gradient, if there is one.
Grads(r, s, c) == Len(s.output_tensor_grads[c]) <= FedBack(r, s, c)

Lists(r, s, c) == Outs(r, s, c) /\ Ins(r, s, c) /\ Grads(r, s, c)

\* Going backward, chunks are counted from the last.
Mirror(c, forward) == IF forward THEN c ELSE V - 1 - c

\* The end of the ring that the passes start from.
Leading(r, forward) == IF forward THEN is_pp_first_stage(r) ELSE is_pp_last_stage(r)

\* The call of pass v is for a tensor of chunk c.
Comes(r, v, forward, c) ==
    PeerSends(r, v, forward).recv /\ v # Total - 1 /\ c = PeerSends(r, v, forward).chunk

\* The passes of one direction, forward or backward, and what comes in for chunk c
\* with the call of pass v: one more exactly if that call is for c, and none for
\* the chunk that starts at this stage.
LEMMA ReachGrows ==
  ASSUME Known, NEW r \in Stages, NEW v \in 0 .. Total - 1, NEW forward \in BOOLEAN,
         NEW c \in Chunks
  PROVE  /\ Leading(r, forward) /\ Mirror(c, forward) = 0 => ~Comes(r, v, forward, c)
         /\ ~ (Leading(r, forward) /\ Mirror(c, forward) = 0) =>
               /\ Reach(Leading(r, forward), Mirror(c, forward), v) \in Nat
               /\ Reach(Leading(r, forward), Mirror(c, forward), v + 1) =
                     Reach(Leading(r, forward), Mirror(c, forward), v)
                       + (IF Comes(r, v, forward, c) THEN 1 ELSE 0)
<1>. DEFINE d     == Mirror(c, forward)
            sends == PeerSends(r, v, forward)
            last  == IF forward THEN V - 1 ELSE 0
            n     == v - (P - 1)
            id(u) == get_model_chunk_id(u, forward)
            leading == Leading(r, forward)
            wanted  == sends.recv /\ v # Total - 1
<1>0. /\ leading \in BOOLEAN /\ wanted \in BOOLEAN
      /\ wanted <=> PeerSends(r, v, forward).recv /\ v # Total - 1
  BY DEF Leading, is_pp_first_stage, is_pp_last_stage
<1>1. /\ P \in Nat /\ V \in Nat /\ 1 < P /\ 1 < V /\ Total \in Nat /\ Chunks = 0 .. V - 1
      /\ v \in Nat /\ d \in 0 .. V - 1
  BY LegalLayout DEF Known, Mirror
<1>2. \A u \in 0 .. Total - 1 :
         /\ id(u) = Mirror(Entry(u).chunk, forward) /\ Entry(u).chunk \in 0 .. V - 1
         /\ id(u) = c <=> Entry(u).chunk = d
  <2>. TAKE u \in 0 .. Total - 1
  <2>1. Entry(u).chunk \in 0 .. V - 1
    BY <1>1, ChunkIds
  <2>2. id(u) = Mirror(Entry(u).chunk, forward)
    BY <1>1, ChunkIds DEF Mirror
  <2>. DEFINE e == Entry(u).chunk
  <2>. HIDE DEF e, id
  <2>3. Mirror(e, forward) = c <=> e = d
    BY <1>1, <2>1 DEF Mirror, e
  <2>. QED  BY <2>1, <2>2, <2>3 DEF e
<1>3. \A i \in Nat : \A e : /\ Count(e, i) \in Nat
                        /\ Count(e, i + 1) = Count(e, i) + (IF Entry(i).chunk = e THEN 1 ELSE 0)
  BY CountNext
<1>4. /\ ~leading => sends = [recv |-> TRUE, chunk |-> id(v + 1)]
      /\ leading /\ v < P - 1 => sends = [recv |-> FALSE, chunk |-> 0]
      /\ leading /\ ~ (v < P - 1) =>
            sends = [recv |-> id(n) # last, chunk |-> IF forward THEN id(n) + 1 ELSE id(n) - 1]
  BY DEF PeerSends, Leading
<1>. HIDE DEF d, sends, id, leading, wanted
<1>5. /\ leading /\ d = 0 => ~ (wanted /\ c = sends.chunk)
      /\ ~ (leading /\ d = 0) =>
            /\ Reach(leading, d, v) \in Nat
            /\ Reach(leading, d, v + 1) =
                  Reach(leading, d, v) + (IF wanted /\ c = sends.chunk THEN 1 ELSE 0)
  <2>1. CASE ~leading
    <3>1. sends.recv /\ sends.chunk = id(v + 1)
      BY <1>4, <2>1
    <3>2. Reach(leading, d, v) = Count(d, MinOf(v + 1, Total))
          /\ Reach(leading, d, v + 1) = Count(d, MinOf(v + 1 + 1, Total))
      BY <2>1 DEF Reach
    <3>3. CASE v = Total - 1
      <4>1. MinOf(v + 1, Total) = Total /\ MinOf(v + 1 + 1, Total) = Total
        BY <1>1, <3>3 DEF MinOf
      <4>2. Count(d, Total) \in Nat
        BY <1>1, <1>3
      <4>3. ~wanted
        BY <1>0, <3>3
      <4>. QED  BY <2>1, <3>2, <4>1, <4>2, <4>3
    <3>4. CASE v # Total - 1
      <4>1. /\ MinOf(v + 1, Total) = v + 1 /\ MinOf(v + 1 + 1, Total) = v + 1 + 1
            /\ v + 1 \in 0 .. Total - 1 /\ v + 1 \in Nat
        BY <1>1, <3>4 DEF MinOf
      <4>2. Count(d, v + 1 + 1) = Count(d, v + 1) + (IF Entry(v + 1).chunk = d THEN 1 ELSE 0)
            /\ Count(d, v + 1) \in Nat
        BY <1>3, <4>1
      <4>3. Entry(v + 1).chunk = d <=> wanted /\ c = sends.chunk
        BY <1>0, <1>2, <3>1, <3>4, <4>1 DEF sends
      <4>. QED  BY <2>1, <3>2, <4>1, <4>2, <4>3
    <3>. QED  BY <3>3, <3>4
  <2>2. CASE leading /\ v < P - 1
    <3>1. ~wanted
      BY <1>0, <1>4, <2>2 DEF sends
    <3>2. /\ MaxOf(0, MinOf(v, Total - 1) - (P - 1)) = 0
          /\ MaxOf(0, MinOf(v + 1, Total - 1) - (P - 1)) = 0
      BY <1>1, <2>2 DEF MaxOf, MinOf
    <3>3. Reach(leading, d, v) = Count(d - 1, 0) /\ Reach(leading, d, v + 1) = Count(d - 1, 0)
          /\ Count(d - 1, 0) \in Nat
      BY <1>3, <2>2, <3>2 DEF Reach
    <3>. QED  BY <3>1, <3>3
  <2>3. CASE leading /\ ~ (v < P - 1)
    <3>. DEFINE e == Entry(n).chunk
    <3>1. n \in 0 .. Total - 1 /\ n \in Nat
      BY <1>1, <2>3
    <3>2. /\ e \in 0 .. V - 1 /\ id(n) = Mirror(e, forward)
      BY <1>2, <3>1
    <3>3. sends.recv = (id(n) # last)
          /\ sends.chunk = IF forward THEN id(n) + 1 ELSE id(n) - 1
      <4>. DEFINE a == id(n) # last
                  b == IF forward THEN id(n) + 1 ELSE id(n) - 1
      <4>1. sends = [recv |-> a, chunk |-> b]
        BY <1>4, <2>3
      <4>. HIDE DEF a, b
      <4>2. sends.recv = a /\ sends.chunk = b
        BY <4>1
      <4>. QED  BY <4>2 DEF a, b
    <3>. HIDE DEF e
    <3>4. sends.recv /\ c = sends.chunk <=> e = d - 1
      <4>1. CASE forward
        <5>1. id(n) = e /\ d = c /\ last = V - 1
          BY <3>2, <4>1 DEF Mirror, d
        <5>2. (sends.recv <=> e # V - 1) /\ sends.chunk = e + 1
          BY <3>3, <4>1, <5>1
        <5>3. e \in 0 .. V - 1 /\ d \in 0 .. V - 1 /\ V \in Nat
          BY <1>1, <3>2
        <5>4. c = e + 1 <=> e = d - 1
          BY <5>1, <5>3
        <5>5. e = d - 1 => e # V - 1
          BY <5>3
        <5>. HIDE DEF n, last
        <5>. QED  BY <5>2, <5>4, <5>5
      <4>2. CASE ~forward
        <5>1. id(n) = V - 1 - e /\ c = V - 1 - d /\ last = 0
          <6>1. id(n) = V - 1 - e /\ d = V - 1 - c /\ last = 0
            BY <3>2, <4>2 DEF Mirror, d
          <6>. HIDE DEF n, last
          <6>. QED  BY <1>1, <6>1
        <5>2. (sends.recv <=> V - 1 - e # 0) /\ sends.chunk = V - 1 - e - 1
          BY <3>3, <4>2, <5>1
        <5>3. e \in 0 .. V - 1 /\ d \in 0 .. V - 1 /\ V \in Nat
          BY <1>1, <3>2
        <5>4. c = V - 1 - e - 1 <=> e = d - 1
          BY <5>1, <5>3
        <5>5. e = d - 1 => V - 1 - e # 0
          BY <5>3
        <5>. HIDE DEF n, last
        <5>. QED  BY <5>2, <5>4, <5>5
      <4>. QED  BY <4>1, <4>2
    <3>5. d = 0 => ~ (sends.recv /\ c = sends.chunk)
      BY <1>1, <3>2, <3>4
    <3>6. /\ Reach(leading, d, v) = Count(d - 1, MaxOf(0, MinOf(v, Total - 1) - (P - 1)))
          /\ Reach(leading, d, v + 1) = Count(d - 1, MaxOf(0, MinOf(v + 1, Total - 1) - (P - 1)))
      BY <2>3 DEF Reach
    <3>7. MaxOf(0, MinOf(v, Total - 1) - (P - 1)) = n
      BY <1>1, <2>3 DEF MaxOf, MinOf
    <3>8. CASE v = Total - 1
      <4>1. MaxOf(0, MinOf(v + 1, Total - 1) - (P - 1)) = n
        BY <1>1, <2>3, <3>8 DEF MaxOf, MinOf
      <4>2. Count(d - 1, n) \in Nat
        BY <1>3, <3>1
      <4>3. ~wanted
        BY <1>0, <3>8
      <4>. HIDE DEF n
      <4>. QED  BY <3>6, <3>7, <4>1, <4>2, <4>3
    <3>9. CASE v # Total - 1
      <4>1. MaxOf(0, MinOf(v + 1, Total - 1) - (P - 1)) = n + 1
        BY <1>1, <2>3, <3>9 DEF MaxOf, MinOf
      <4>. HIDE DEF n
      <4>2. Count(d - 1, n + 1) = Count(d - 1, n) + (IF e = d - 1 THEN 1 ELSE 0)
            /\ Count(d - 1, n) \in Nat
        BY <1>3, <3>1 DEF e
      <4>3. e = d - 1 <=> wanted /\ c = sends.chunk
        BY <1>0, <3>4, <3>9 DEF sends
      <4>4. d = 0 => ~ (wanted /\ c = sends.chunk)
        BY <1>0, <3>5 DEF sends
      <4>. QED  BY <3>6, <3>7, <4>1, <4>2, <4>3, <4>4
    <3>. QED  BY <3>8, <3>9
  <2>. QED  BY <2>1, <2>2, <2>3
<1>6. Comes(r, v, forward, c) <=> wanted /\ c = sends.chunk
  BY <1>0 DEF Comes, sends
<1>. QED  BY <1>5, <1>6 DEF leading, d

\* What comes in is never behind the passes, and never more than M.
LEMMA ReachCovers ==
  ASSUME Known, NEW leading \in BOOLEAN, NEW c \in Chunks, ~ (leading /\ c = 0),
         NEW f \in 0 .. Total, NEW g \in 0 .. Total, g >= f - 1
  PROVE  /\ Reach(leading, c, g) \in Nat
         /\ Count(c, f) <= Reach(leading, c, g) /\ Reach(leading, c, g) <= M
<1>1. /\ P \in Nat /\ V \in Nat /\ 1 < P /\ 1 < V /\ Total \in Nat /\ 0 < Total
      /\ Chunks = 0 .. V - 1 /\ f \in Nat /\ g \in Nat /\ c \in Nat
  BY LegalLayout DEF Known
<1>2. \A d \in Chunks, n \in 0 .. Total : Count(d, n) \in Nat /\ Count(d, n) <= M
  <2>. TAKE d \in Chunks, n \in 0 .. Total
  <2>1. n \in Nat /\ n <= Total
    BY <1>1
  <2>2. Count(d, Total) = M
    BY TableFacts
  <2>3. Count(d, n) \in Nat /\ Count(d, n) <= Count(d, Total)
    BY <1>1, <2>1, CountNext, CountGrows
  <2>. QED  BY <2>2, <2>3
<1>3. CASE ~leading
  <2>. DEFINE n == MinOf(g + 1, Total)
  <2>1. n \in 0 .. Total /\ n \in Nat /\ f <= n
    BY <1>1 DEF MinOf
  <2>2. Reach(leading, c, g) = Count(c, n)
    BY <1>3 DEF Reach
  <2>. HIDE DEF n
  <2>. QED  BY <1>1, <1>2, <2>1, <2>2, CountGrows
<1>4. CASE leading
  <2>. DEFINE n == MaxOf(0, MinOf(g, Total - 1) - (P - 1))
  <2>1. n \in 0 .. Total /\ n >= f - P /\ c \in 1 .. V - 1 /\ c - 1 \in Chunks
    BY <1>1, <1>4 DEF MinOf, MaxOf
  <2>2. Reach(leading, c, g) = Count(c - 1, n)
    BY <1>4 DEF Reach
  <2>. HIDE DEF n
  <2>3. Count(c, f) <= Count(c - 1, n)
    BY <2>1, TableFacts
  <2>. QED  BY <1>2, <2>1, <2>2, <2>3
<1>. QED  BY <1>3, <1>4

\* Before the first pass only its own input is there, if a neighbour sends it.
LEMMA ReachAtFirst ==
  ASSUME Known, NEW leading \in BOOLEAN, NEW c \in Chunks
  PROVE  ~ (leading /\ c = 0) => Reach(leading, c, 0) = IF ~leading /\ c = 0 THEN 1 ELSE 0
<1>1. /\ P \in Nat /\ V \in Nat /\ N \in Nat /\ 1 < P /\ 1 < V /\ Total \in Nat /\ 0 < Total
      /\ Chunks = 0 .. V - 1
  BY LegalLayout DEF Known
<1>2. \A d : Count(d, 0) = 0 /\ Count(d, 1) = IF Entry(0).chunk = d THEN 1 ELSE 0
  <2>1. \A d : /\ Count(d, 0) = 0
               /\ Count(d, 0 + 1) = Count(d, 0) + (IF Entry(0).chunk = d THEN 1 ELSE 0)
    BY CountNext
  <2>. QED  BY <2>1
<1>3. Entry(0).chunk = 0
  <2>1. 0 * N = 0 /\ 0 \in Chunks
    BY <1>1
  <2>2. Entry(0 * N).chunk = 0
    BY <2>1, TableFacts
  <2>. QED  BY <2>1, <2>2
<1>4. MinOf(0 + 1, Total) = 1 /\ MaxOf(0, MinOf(0, Total - 1) - (P - 1)) = 0
  BY <1>1 DEF MinOf, MaxOf
<1>5. Reach(leading, c, 0) = IF leading THEN Count(c - 1, 0) ELSE Count(c, 1)
  BY <1>4 DEF Reach
<1>. QED  BY <1>2, <1>3, <1>5

\* The bounds of the inputs of a chunk, and how a forward pass moves them.
LEMMA FedBounds ==
  ASSUME Positions, NEW r \in Stages, NEW c \in Chunks
  PROVE  /\ Fed(r, stage[r], c) \in Nat /\ Fed(r, stage[r], c) <= M
         /\ Count(c, Forwarded(r, stage[r])) <= Fed(r, stage[r], c)
         /\ FedBack(r, stage[r], c) \in Nat /\ FedBack(r, stage[r], c) <= M
         /\ Released(r, stage[r], c) \in Nat /\ Count(c, Forwarded(r, stage[r])) \in Nat
<1>. DEFINE s == stage[r]
            f == Forwarded(r, s)
            g == Called(r, s)
            b == Backwarded(r, s)
<1>1. /\ Known /\ P \in Nat /\ V \in Nat /\ M \in Nat /\ 0 < M /\ 1 < V /\ Total \in Nat
      /\ Chunks = 0 .. V - 1 /\ r \in 0 .. P - 1
      /\ is_pp_first_stage(r) \in BOOLEAN /\ is_pp_last_stage(r) \in BOOLEAN
  BY LegalLayout DEF Positions, TypeInv, Known, Stages, is_pp_first_stage, is_pp_last_stage
<1>2. f \in 0 .. Total /\ g \in 0 .. Total /\ g >= f - 1 /\ b \in 0 .. Total
      /\ f \in Nat /\ b \in Nat
  BY <1>1, Ranges
<1>. HIDE DEF f, g, b, s
<1>3. /\ Count(c, f) \in Nat /\ Count(V - 1 - c, b) \in Nat /\ Count(0, f) \in Nat
  BY <1>2, CountNext
<1>4. Count(c, f) <= M
  <2>1. f <= Total /\ Count(c, Total) = M
    BY <1>1, <1>2, TableFacts
  <2>. QED  BY <1>1, <1>2, <2>1, CountGrows
<1>5. Fed(r, s, c) \in Nat /\ Fed(r, s, c) <= M /\ Count(c, f) <= Fed(r, s, c)
  <2>1. CASE FirstLayer(r, c)
    <3>1. c = 0 /\ Fed(r, s, c) = MaxOf(Count(0, f), 1)
      BY <2>1 DEF Fed, FirstLayer, f
    <3>. QED  BY <1>1, <1>3, <1>4, <3>1 DEF MaxOf
  <2>2. CASE ~FirstLayer(r, c)
    <3>1. ~ (is_pp_first_stage(r) /\ c = 0)
      BY <2>2 DEF FirstLayer
    <3>2. Fed(r, s, c) = Reach(is_pp_first_stage(r), c, g)
      BY <2>2 DEF Fed, g
    <3>. QED  BY <1>1, <1>2, <3>1, <3>2, ReachCovers
  <2>. QED  BY <2>1, <2>2
<1>6. FedBack(r, s, c) \in Nat /\ FedBack(r, s, c) <= M
  <2>1. CASE ~Opened(r, s) \/ LastLayer(r, c)
    BY <1>1, <2>1 DEF FedBack
  <2>2. CASE Opened(r, s) /\ ~LastLayer(r, c)
    <3>1. V - 1 - c \in Chunks /\ ~ (is_pp_last_stage(r) /\ V - 1 - c = 0) /\ b >= b - 1
      BY <1>1, <1>2, <2>2 DEF LastLayer
    <3>2. FedBack(r, s, c) = Reach(is_pp_last_stage(r), V - 1 - c, b)
      BY <2>2 DEF FedBack, b
    <3>. QED  BY <1>1, <1>2, <3>1, <3>2, ReachCovers
  <2>. QED  BY <2>1, <2>2
<1>. QED  BY <1>3, <1>5, <1>6 DEF s, f, b, Released

\* How a forward pass moves what comes in for a chunk.
LEMMA FedGrows ==
  ASSUME Positions, NEW r \in Stages, NEW v \in 0 .. Total - 1, NEW calling \in BOOLEAN,
         ForwardMove(r, v, calling), NEW c \in Chunks
  PROVE  LET wanted == calling /\ ReceivesForward(r, v)
             next   == PeerSends(r, v, TRUE).chunk
         IN  /\ FirstLayer(r, c) =>
                   /\ c = 0 /\ ~ (wanted /\ c = next)
                   /\ Fed(r, stage[r], c) = MaxOf(Count(0, v), 1)
                   /\ Fed(r, stage'[r], c) = MaxOf(Count(0, v + 1), 1)
             /\ ~FirstLayer(r, c) =>
                   /\ Fed(r, stage[r], c) \in Nat
                   /\ Fed(r, stage'[r], c) =
                         Fed(r, stage[r], c) + (IF wanted /\ c = next THEN 1 ELSE 0)
<1>. DEFINE wanted == calling /\ ReceivesForward(r, v)
            next   == PeerSends(r, v, TRUE).chunk
            first  == is_pp_first_stage(r)
<1>1. /\ Known /\ first \in BOOLEAN
      /\ ReceivesForward(r, v) <=> PeerSends(r, v, TRUE).recv /\ v # Total - 1
      /\ ReceivesForward(r, v) \in BOOLEAN
  <2>1. Known
    BY DEF Positions, TypeInv
  <2>2. PeerSends(r, v, TRUE).recv \in BOOLEAN
    BY <2>1, PeerSendsType
  <2>. QED  BY <2>1, <2>2 DEF ReceivesForward, is_pp_first_stage
<1>2. /\ Forwarded(r, stage[r]) = v /\ Forwarded(r, stage'[r]) = v + 1
      /\ Called(r, stage[r]) = v /\ Called(r, stage'[r]) = IF calling THEN v + 1 ELSE v
  BY DEF ForwardMove
<1>3. Mirror(c, TRUE) = c
  BY DEF Mirror
<1>4. /\ first /\ c = 0 => ~ (ReceivesForward(r, v) /\ c = next)
      /\ ~ (first /\ c = 0) =>
            /\ Reach(first, c, v) \in Nat
            /\ Reach(first, c, v + 1) =
                  Reach(first, c, v) + (IF ReceivesForward(r, v) /\ c = next THEN 1 ELSE 0)
  <2>1. /\ Leading(r, TRUE) = first
        /\ Comes(r, v, TRUE, c) <=> ReceivesForward(r, v) /\ c = next
    BY DEF Leading, Comes, ReceivesForward
  <2>2. /\ Leading(r, TRUE) /\ Mirror(c, TRUE) = 0 => ~Comes(r, v, TRUE, c)
        /\ ~ (Leading(r, TRUE) /\ Mirror(c, TRUE) = 0) =>
               /\ Reach(Leading(r, TRUE), Mirror(c, TRUE), v) \in Nat
               /\ Reach(Leading(r, TRUE), Mirror(c, TRUE), v + 1) =
                     Reach(Leading(r, TRUE), Mirror(c, TRUE), v)
                       + (IF Comes(r, v, TRUE, c) THEN 1 ELSE 0)
    BY <1>1, ReachGrows
  <2>. HIDE DEF first, next
  <2>. QED  BY <1>1, <1>3, <2>1, <2>2
<1>. HIDE DEF wanted, next
<1>5. CASE FirstLayer(r, c)
  <2>1. c = 0 /\ first
    BY <1>5 DEF FirstLayer
  <2>2. ~ (wanted /\ c = next)
    BY <1>4, <2>1 DEF wanted
  <2>3. Fed(r, stage[r], c) = MaxOf(Count(0, v), 1) /\ Fed(r, stage'[r], c) = MaxOf(Count(0, v + 1), 1)
    BY <1>2, <1>5 DEF Fed
  <2>. QED  BY <1>5, <2>1, <2>2, <2>3 DEF wanted, next
<1>6. CASE ~FirstLayer(r, c)
  <2>1. ~ (first /\ c = 0)
    BY <1>6 DEF FirstLayer
  <2>2. Fed(r, stage[r], c) = Reach(first, c, v)
        /\ Fed(r, stage'[r], c) = Reach(first, c, IF calling THEN v + 1 ELSE v)
    BY <1>2, <1>6 DEF Fed
  <2>3. CASE calling
    <3>1. wanted <=> ReceivesForward(r, v)
      BY <2>3 DEF wanted
    <3>. QED  BY <1>4, <1>6, <2>1, <2>2, <2>3, <3>1 DEF wanted, next
  <2>4. CASE ~calling
    <3>1. Fed(r, stage'[r], c) = Fed(r, stage[r], c) + 0 /\ Fed(r, stage[r], c) \in Nat
      BY <1>4, <2>1, <2>2, <2>4
    <3>. QED  BY <1>6, <2>4, <3>1 DEF wanted
  <2>. QED  BY <2>3, <2>4
<1>. QED  BY <1>5, <1>6 DEF wanted, next

\* The locals of a stage and its lists.
LEMMA ListTypes ==
  ASSUME TypeInv, NEW r \in Stages, NEW c \in Chunks
  PROVE  /\ stage[r].input_tensors \in [Chunks -> Seq(Buffers)]
         /\ stage[r].output_tensors \in [Chunks -> Seq(Outputs)]
         /\ stage[r].output_tensor_grads \in [Chunks -> Seq(Buffers)]
         /\ Len(stage[r].input_tensors[c]) \in Nat
         /\ Len(stage[r].output_tensors[c]) \in Nat
         /\ Len(stage[r].output_tensor_grads[c]) \in Nat
<1>1. /\ stage[r].input_tensors \in [Chunks -> Seq(Buffers)]
      /\ stage[r].output_tensors \in [Chunks -> Seq(Outputs)]
      /\ stage[r].output_tensor_grads \in [Chunks -> Seq(Buffers)]
  BY DEF TypeInv, IsLocals
<1>. QED  BY <1>1

\* The length of a list after its first element is taken.
LEMMA RestLength ==
  ASSUME NEW S, NEW lists \in [Chunks -> Seq(S)], NEW d \in Chunks, NEW c \in Chunks
  PROVE  LET new == [lists EXCEPT ![d] = Rest(lists[d])]
         IN  /\ Len(lists[c]) \in Nat
             /\ Len(new[c]) = IF c = d /\ Len(lists[c]) # 0 THEN Len(lists[c]) - 1 ELSE Len(lists[c])
<1>. DEFINE new == [lists EXCEPT ![d] = Rest(lists[d])]
<1>1. new[c] = IF c = d THEN Rest(lists[c]) ELSE lists[c]
  OBVIOUS
<1>2. /\ Len(lists[c]) \in Nat
      /\ Len(Rest(lists[c])) = IF Len(lists[c]) = 0 THEN 0 ELSE Len(lists[c]) - 1
  <2>1. lists[c] \in Seq(S)
    OBVIOUS
  <2>. QED  BY <2>1, RestType
<1>. HIDE DEF new
<1>3. Len(new[c]) = IF c = d /\ Len(lists[c]) # 0 THEN Len(lists[c]) - 1 ELSE Len(lists[c])
  <2>1. CASE c = d
    BY <1>1, <1>2, <2>1
  <2>2. CASE c # d
    BY <1>1, <2>2
  <2>. QED  BY <2>1, <2>2
<1>. QED  BY <1>2, <1>3 DEF new

\* Outputs are kept from the forward to the backward pass of their microbatch.
LEMMA OutsStay ==
  ASSUME Positions, NEW r \in Stages, Step(r), NEW c \in Chunks, Outs(r, stage[r], c)
  PROVE  Outs(r, stage'[r], c)
<1>. DEFINE e == V - 1 - c
<1>1. /\ TypeInv /\ Known /\ V \in Nat /\ Total \in Nat /\ Chunks = 0 .. V - 1 /\ e \in Chunks
  BY LegalLayout DEF Positions, TypeInv, Known
<1>2. \A n \in Nat : \A d : /\ Count(d, n) \in Nat
                            /\ Count(d, n + 1) = Count(d, n) + (IF Entry(n).chunk = d THEN 1 ELSE 0)
  BY CountNext
<1>3. /\ Forwarded(r, stage[r]) \in Nat /\ Backwarded(r, stage[r]) \in Nat
      /\ Forwarded(r, stage[r]) \in 0 .. Total
  BY <1>1, Ranges
<1>4. CASE \E v \in 0 .. Total - 1, calling \in BOOLEAN : ForwardMove(r, v, calling)
  <2>1. PICK v \in 0 .. Total - 1, calling \in BOOLEAN : ForwardMove(r, v, calling)
    BY <1>4
  <2>2. /\ Forwarded(r, stage[r]) = v /\ Forwarded(r, stage'[r]) = v + 1
        /\ Backwarded(r, stage'[r]) = Backwarded(r, stage[r])
        /\ stage'[r].output_tensors = AfterForward(stage[r], r, v).output_tensors
    BY <2>1 DEF ForwardMove
  <2>3. Len(stage'[r].output_tensors[c]) =
           Len(stage[r].output_tensors[c]) + (IF c = Entry(v).chunk /\ ~layout.forward_only THEN 1 ELSE 0)
    <3>1. ForwardLocals(stage[r], AfterForward(stage[r], r, v), r, v)
      BY <1>1, AfterForwardType DEF TypeInv
    <3>. QED  BY <2>2, <3>1 DEF ForwardLocals
  <2>4. /\ Len(stage[r].output_tensors[c]) =
              IF layout.forward_only THEN 0
              ELSE Count(c, v) - Count(e, Backwarded(r, stage[r]))
        /\ Count(c, v) \in Nat /\ Count(e, Backwarded(r, stage[r])) \in Nat
        /\ Count(c, v + 1) = Count(c, v) + (IF Entry(v).chunk = c THEN 1 ELSE 0)
    BY <1>2, <1>3, <2>2 DEF Outs, Released
  <2>5. Outs(r, stage'[r], c) <=>
           Len(stage'[r].output_tensors[c]) =
              IF layout.forward_only THEN 0
              ELSE Count(c, v + 1) - Count(e, Backwarded(r, stage[r]))
    BY <2>2 DEF Outs, Released
  <2>. HIDE DEF e
  <2>6. CASE layout.forward_only
    BY <2>3, <2>4, <2>5, <2>6
  <2>7. CASE ~layout.forward_only
    BY <2>3, <2>4, <2>5, <2>7
  <2>. QED  BY <2>6, <2>7
<1>5. CASE \E v \in 0 .. Total - 1 : BackwardMove(r, v)
  <2>1. PICK v \in 0 .. Total - 1 : BackwardMove(r, v)
    BY <1>5
  <2>. DEFINE f == Forwarded(r, stage[r])
  <2>2. /\ Backwarded(r, stage[r]) = v /\ Backwarded(r, stage'[r]) = v + 1
        /\ Forwarded(r, stage'[r]) = f /\ ~layout.forward_only
        /\ stage'[r].output_tensors = AfterBackward(stage[r], r, v).output_tensors
        /\ f >= v + 1 + (V - 1) * N \/ f = Total
    BY <2>1 DEF BackwardMove
  <2>3. v + 1 \in 0 .. Total /\ v \in Nat /\ v + 1 \in Nat
    BY <1>1
  <2>4. Count(e, v + 1) <= Count(c, f)
    BY <1>1, <1>3, <2>2, <2>3, TableFacts
  <2>5. Len(stage'[r].output_tensors[c]) =
           IF Entry(v).chunk = e /\ Len(stage[r].output_tensors[c]) # 0
           THEN Len(stage[r].output_tensors[c]) - 1 ELSE Len(stage[r].output_tensors[c])
    <3>. DEFINE d == V - 1 - Entry(v).chunk
                outs == stage[r].output_tensors
    <3>1. BackwardLocals(stage[r], AfterBackward(stage[r], r, v), r, v)
      BY <1>1, AfterBackwardType DEF TypeInv
    <3>2. d \in Chunks /\ stage'[r].output_tensors = [outs EXCEPT ![d] = Rest(outs[d])]
      BY <2>2, <3>1 DEF BackwardLocals
    <3>3. c = d <=> Entry(v).chunk = e
      <4>1. Entry(v).chunk \in 0 .. V - 1
        BY <1>1, ChunkIds
      <4>. QED  BY <1>1, <4>1
    <3>4. outs \in [Chunks -> Seq(Outputs)]
      BY <1>1, ListTypes
    <3>. HIDE DEF d, e, outs
    <3>5. Len([outs EXCEPT ![d] = Rest(outs[d])][c]) =
             IF c = d /\ Len(outs[c]) # 0 THEN Len(outs[c]) - 1 ELSE Len(outs[c])
      BY <3>2, <3>4, RestLength
    <3>. QED  BY <3>2, <3>3, <3>5 DEF outs
  <2>6. /\ Len(stage[r].output_tensors[c]) = Count(c, f) - Count(e, v)
        /\ Count(c, f) \in Nat /\ Count(e, v) \in Nat
        /\ Count(e, v + 1) = Count(e, v) + (IF Entry(v).chunk = e THEN 1 ELSE 0)
    BY <1>2, <1>3, <2>2, <2>3 DEF Outs, Released
  <2>7. Outs(r, stage'[r], c) <=>
           Len(stage'[r].output_tensors[c]) = Count(c, f) - Count(e, v + 1)
    BY <2>2 DEF Outs, Released
  <2>. HIDE DEF e, f
  <2>8. CASE Entry(v).chunk = e
    BY <2>4, <2>5, <2>6, <2>7, <2>8
  <2>9. CASE Entry(v).chunk # e
    BY <2>5, <2>6, <2>7, <2>9
  <2>. QED  BY <2>8, <2>9
<1>6. CASE QuietMove(r)
  BY <1>6 DEF QuietMove, Outs, Released
<1>7. CASE FlushMove(r)
  BY <1>7 DEF FlushMove, Outs, Released
<1>. QED  BY <1>4, <1>5, <1>6, <1>7, Moves

\* The input that the first layer makes for itself.
LEMMA InputsLength ==
  ASSUME TypeInv, NEW r \in Stages, NEW d \in Chunks, NEW c \in Chunks
  PROVE  LET s   == stage[r]
             new == [s.input_tensors EXCEPT ![d] =
                        IF layout.forward_only THEN Rest(InputsFor(s, r, d)) ELSE InputsFor(s, r, d)]
             own == c = d /\ FirstLayer(r, c) /\ Len(s.input_tensors[c]) = Len(s.output_tensors[c])
         IN  /\ layout.forward_only => Len(new[c]) <= Len(s.input_tensors[c])
             /\ ~layout.forward_only =>
                   Len(new[c]) = Len(s.input_tensors[c]) + (IF own THEN 1 ELSE 0)
             /\ Len(new[c]) \in Nat
<1>. DEFINE s      == stage[r]
            ins    == s.input_tensors
            inputs == InputsFor(s, r, c)
            new    == [ins EXCEPT ![d] =
                        IF layout.forward_only THEN Rest(InputsFor(s, r, d)) ELSE InputsFor(s, r, d)]
            own    == FirstLayer(r, c) /\ Len(ins[c]) = Len(s.output_tensors[c])
<1>1. ins \in [Chunks -> Seq(Buffers)] /\ ins[c] \in Seq(Buffers) /\ Len(ins[c]) \in Nat
  BY ListTypes
<1>2. /\ own => inputs = Append(ins[c], None)
      /\ ~own => inputs = ins[c]
  BY DEF InputsFor
<1>3. new[c] = IF c = d THEN (IF layout.forward_only THEN Rest(inputs) ELSE inputs) ELSE ins[c]
  BY <1>1
<1>. HIDE DEF inputs, new, own, ins, s
<1>4. /\ inputs \in Seq(Buffers)
      /\ Len(inputs) = Len(ins[c]) + (IF own THEN 1 ELSE 0)
  <2>1. None \in Buffers
    BY DEF Buffers
  <2>2. CASE own
    BY <1>1, <1>2, <2>1, <2>2, SMTT(30)
  <2>3. CASE ~own
    <3>1. Len(ins[c]) = Len(ins[c]) + 0
      BY <1>1
    <3>. QED  BY <1>1, <1>2, <2>3, <3>1
  <2>. QED  BY <2>2, <2>3
<1>5. /\ Len(inputs) \in Nat
      /\ Len(Rest(inputs)) = IF Len(inputs) = 0 THEN 0 ELSE Len(inputs) - 1
  BY <1>4, RestType
<1>6. /\ layout.forward_only => Len(new[c]) <= Len(ins[c])
      /\ ~layout.forward_only => Len(new[c]) = Len(ins[c]) + (IF c = d /\ own THEN 1 ELSE 0)
      /\ Len(new[c]) \in Nat
  <2>1. CASE c # d
    <3>1. new[c] = ins[c] /\ Len(ins[c]) = Len(ins[c]) + 0
      BY <1>1, <1>3, <2>1
    <3>. QED  BY <1>1, <2>1, <3>1
  <2>2. CASE c = d /\ layout.forward_only
    BY <1>1, <1>3, <1>4, <1>5, <2>2
  <2>3. CASE c = d /\ ~layout.forward_only
    BY <1>1, <1>3, <1>4, <1>5, <2>3
  <2>. QED  BY <2>1, <2>2, <2>3
<1>. QED  BY <1>6 DEF new, own, ins, s

\* A forward pass: an input comes in, or the first layer makes its own.
LEMMA ForwardIns ==
  ASSUME Positions, NEW r \in Stages, NEW v \in 0 .. Total - 1, NEW calling \in BOOLEAN,
         ForwardMove(r, v, calling), NEW c \in Chunks,
         Ins(r, stage[r], c), Outs(r, stage[r], c)
  PROVE  Ins(r, stage'[r], c)
<1>. DEFINE s    == stage[r]
            t    == stage'[r]
            d    == Entry(v).chunk
            rel  == Released(r, s, c)
            comes == calling /\ ReceivesForward(r, v) /\ c = PeerSends(r, v, TRUE).chunk
            own  == c = d /\ FirstLayer(r, c) /\ Len(s.input_tensors[c]) = Len(s.output_tensors[c])
            done == AfterForward(s, r, v).input_tensors
<1>1. TypeInv /\ Known /\ d \in Chunks /\ layout.forward_only \in BOOLEAN
  BY ChunkIds, LegalLayout DEF Positions, TypeInv, Known
<1>2. /\ s.at # "begin" /\ t.at # "begin" /\ Forwarded(r, s) = v
      /\ Released(r, t, c) = rel
      /\ GrowBy(done, t.input_tensors, PeerSends(r, v, TRUE).chunk,
                calling /\ ReceivesForward(r, v))
  BY DEF ForwardMove, Released
<1>3. Len(t.input_tensors[c]) = Len(done[c]) + (IF comes THEN 1 ELSE 0)
  BY <1>2 DEF GrowBy
<1>4. /\ layout.forward_only => Len(done[c]) <= Len(s.input_tensors[c])
      /\ ~layout.forward_only => Len(done[c]) = Len(s.input_tensors[c]) + (IF own THEN 1 ELSE 0)
      /\ Len(done[c]) \in Nat
  <2>1. ForwardLocals(s, AfterForward(s, r, v), r, v)
    BY <1>1, AfterForwardType DEF TypeInv
  <2>2. done = [s.input_tensors EXCEPT ![d] =
               IF layout.forward_only THEN Rest(InputsFor(s, r, d)) ELSE InputsFor(s, r, d)]
    BY <2>1 DEF ForwardLocals
  <2>. HIDE DEF d, done
  <2>. QED  BY <1>1, <2>2, InputsLength
<1>5. /\ FirstLayer(r, c) =>
            /\ c = 0 /\ ~comes
            /\ Fed(r, s, c) = MaxOf(Count(0, v), 1) /\ Fed(r, t, c) = MaxOf(Count(0, v + 1), 1)
      /\ ~FirstLayer(r, c) => Fed(r, t, c) = Fed(r, s, c) + (IF comes THEN 1 ELSE 0)
      /\ Fed(r, s, c) \in Nat /\ rel \in Nat
  <2>1. Fed(r, s, c) \in Nat /\ rel \in Nat
    BY FedBounds
  <2>. QED  BY <2>1, FedGrows
<1>6. /\ Count(0, v) \in Nat
      /\ Count(0, v + 1) = Count(0, v) + (IF d = 0 THEN 1 ELSE 0)
  <2>1. v \in Nat
    BY <1>1, LegalLayout DEF Known
  <2>. QED  BY <2>1, CountNext
<1>7. /\ Len(s.input_tensors[c]) \in Nat
      /\ layout.forward_only => Len(s.input_tensors[c]) <= Fed(r, s, c)
      /\ ~layout.forward_only => /\ Len(s.input_tensors[c]) = Fed(r, s, c) - rel
                                 /\ Len(s.output_tensors[c]) = Count(c, v) - rel
  BY <1>1, <1>2, ListTypes DEF Ins, Outs
<1>8. Ins(r, t, c) <=> IF layout.forward_only THEN Len(t.input_tensors[c]) <= Fed(r, t, c)
                       ELSE Len(t.input_tensors[c]) = Fed(r, t, c) - rel
  BY <1>2 DEF Ins
<1>. HIDE DEF s, t, d, rel, comes, own, done
<1>9. Ins(r, t, c)
  <2>1. CASE FirstLayer(r, c)
    <3>1. Len(t.input_tensors[c]) = Len(done[c])
      BY <1>3, <1>4, <1>5, <2>1
    <3>2. CASE layout.forward_only
      <4>1. Fed(r, s, c) <= Fed(r, t, c) /\ Fed(r, t, c) \in Nat
        BY <1>5, <1>6, <2>1 DEF MaxOf
      <4>. QED  BY <1>4, <1>5, <1>7, <1>8, <3>1, <3>2, <4>1
    <3>3. CASE ~layout.forward_only
      <4>1. own <=> d = 0 /\ Count(0, v) >= 1
        <5>1. c = 0
          BY <1>5, <2>1
        <5>2. Len(s.input_tensors[c]) = Len(s.output_tensors[c]) <=> MaxOf(Count(0, v), 1) = Count(0, v)
          BY <1>5, <1>6, <1>7, <2>1, <3>3, <5>1
        <5>3. MaxOf(Count(0, v), 1) = Count(0, v) <=> Count(0, v) >= 1
          BY <1>6 DEF MaxOf
        <5>. QED  BY <2>1, <5>1, <5>2, <5>3 DEF own
      <4>2. Fed(r, t, c) = Fed(r, s, c) + (IF own THEN 1 ELSE 0)
        <5>1. CASE d = 0
          BY <1>5, <1>6, <2>1, <4>1, <5>1 DEF MaxOf
        <5>2. CASE d # 0
          BY <1>5, <1>6, <2>1, <4>1, <5>2 DEF MaxOf
        <5>. QED  BY <5>1, <5>2
      <4>3. /\ Len(done[c]) = Len(s.input_tensors[c]) + (IF own THEN 1 ELSE 0)
            /\ Len(s.input_tensors[c]) = Fed(r, s, c) - rel
            /\ Fed(r, s, c) \in Nat /\ rel \in Nat
        BY <1>4, <1>5, <1>7, <3>3
      <4>4. Len(done[c]) = Fed(r, t, c) - rel
        <5>1. CASE own
          BY <4>2, <4>3, <5>1
        <5>2. CASE ~own
          BY <4>2, <4>3, <5>2
        <5>. QED  BY <5>1, <5>2
      <4>. QED  BY <1>8, <3>1, <3>3, <4>4
    <3>. QED  BY <3>2, <3>3
  <2>2. CASE ~FirstLayer(r, c)
    <3>1. ~own
      BY <2>2 DEF own
    <3>2. CASE comes
      BY <1>3, <1>4, <1>5, <1>7, <1>8, <2>2, <3>1, <3>2
    <3>3. CASE ~comes
      BY <1>3, <1>4, <1>5, <1>7, <1>8, <2>2, <3>1, <3>3
    <3>. QED  BY <3>2, <3>3
  <2>. QED  BY <2>1, <2>2
<1>. QED  BY <1>9 DEF t

\* A backward pass releases an input; without overlap its call brings one too.
LEMMA BackwardIns ==
  ASSUME Positions, NEW r \in Stages, NEW v \in 0 .. Total - 1, BackwardMove(r, v),
         NEW c \in Chunks, Ins(r, stage[r], c)
  PROVE  Ins(r, stage'[r], c)
<1>. DEFINE s    == stage[r]
            t    == stage'[r]
            e    == V - 1 - c
            f    == Called(r, s)
            x    == Entry(v).chunk = e
            calls_again == Called(r, t) # f
            comes == calls_again /\ ReceivesForward(r, f) /\ c = PeerSends(r, f, TRUE).chunk
            done == AfterBackward(s, r, v).input_tensors
<1>1. /\ TypeInv /\ Known /\ V \in Nat /\ Total \in Nat /\ Chunks = 0 .. V - 1
      /\ v \in Nat /\ v + 1 \in 0 .. Total /\ v + 1 \in Nat /\ e \in Chunks
  BY LegalLayout, SMTT(30) DEF Positions, TypeInv, Known
<1>2. /\ s.at # "begin" /\ t.at # "begin" /\ ~layout.forward_only
      /\ Forwarded(r, t) = Forwarded(r, s) /\ Forwarded(r, s) \in 0 .. Total
      /\ Forwarded(r, s) >= v + 1 + (V - 1) * N \/ Forwarded(r, s) = Total
      /\ Released(r, s, c) = Count(e, v) /\ Released(r, t, c) = Count(e, v + 1)
      /\ IF Called(r, t) = f THEN t.input_tensors = done
         ELSE /\ f \in 0 .. Total - 1 /\ Called(r, t) = f + 1
              /\ GrowBy(done, t.input_tensors, PeerSends(r, f, TRUE).chunk, ReceivesForward(r, f))
  BY DEF BackwardMove, Released
<1>3. Len(done[c]) = IF x /\ Len(s.input_tensors[c]) # 0
                     THEN Len(s.input_tensors[c]) - 1 ELSE Len(s.input_tensors[c])
  <2>. DEFINE d   == V - 1 - Entry(v).chunk
              ins == s.input_tensors
  <2>1. BackwardLocals(s, AfterBackward(s, r, v), r, v)
    BY <1>1, AfterBackwardType DEF TypeInv
  <2>2. d \in Chunks /\ done = [ins EXCEPT ![d] = Rest(ins[d])]
    BY <2>1 DEF BackwardLocals
  <2>3. c = d <=> x
    <3>1. Entry(v).chunk \in 0 .. V - 1
      BY <1>1, ChunkIds
    <3>. QED  BY <1>1, <3>1
  <2>4. ins \in [Chunks -> Seq(Buffers)]
    BY <1>1, ListTypes
  <2>. HIDE DEF d, ins, x, done
  <2>5. Len([ins EXCEPT ![d] = Rest(ins[d])][c]) =
           IF c = d /\ Len(ins[c]) # 0 THEN Len(ins[c]) - 1 ELSE Len(ins[c])
    BY <2>2, <2>4, RestLength
  <2>. QED  BY <2>2, <2>3, <2>5 DEF ins
<1>4. /\ Fed(r, s, c) \in Nat /\ Count(e, v) \in Nat /\ Count(e, v + 1) \in Nat
      /\ Count(e, v + 1) = Count(e, v) + (IF x THEN 1 ELSE 0)
      /\ Count(e, v + 1) <= Fed(r, s, c)
  <2>1. /\ Count(e, v) \in Nat /\ Count(e, v + 1) \in Nat
        /\ Count(e, v + 1) = Count(e, v) + (IF x THEN 1 ELSE 0)
    BY <1>1, CountNext
  <2>2. Count(e, v + 1) <= Count(c, Forwarded(r, s))
    BY <1>1, <1>2, TableFacts
  <2>3. /\ Fed(r, s, c) \in Nat /\ Count(c, Forwarded(r, s)) <= Fed(r, s, c)
        /\ Count(c, Forwarded(r, s)) \in Nat
    BY FedBounds
  <2>. HIDE DEF e, x, s
  <2>. QED  BY <2>1, <2>2, <2>3
<1>5. Len(s.input_tensors[c]) = Fed(r, s, c) - Count(e, v) /\ Len(s.input_tensors[c]) \in Nat
  BY <1>1, <1>2, ListTypes DEF Ins
<1>6. Fed(r, t, c) = Fed(r, s, c) + (IF comes THEN 1 ELSE 0) /\ (FirstLayer(r, c) => ~comes)
  <2>. DEFINE first == is_pp_first_stage(r)
  <2>1. CASE ~calls_again
    <3>1. Fed(r, t, c) = Fed(r, s, c) + 0
      BY <1>2, <1>4, <2>1 DEF Fed
    <3>. QED  BY <2>1, <3>1
  <2>2. CASE calls_again
    <3>1. f \in 0 .. Total - 1 /\ Called(r, t) = f + 1
      BY <1>2, <2>2
    <3>2. /\ Leading(r, TRUE) <=> first
          /\ Comes(r, f, TRUE, c) <=> comes
          /\ Mirror(c, TRUE) = c
      BY <2>2 DEF Leading, Comes, ReceivesForward, Mirror
    <3>. HIDE DEF f, comes
    <3>3. /\ Leading(r, TRUE) /\ Mirror(c, TRUE) = 0 => ~Comes(r, f, TRUE, c)
          /\ ~ (Leading(r, TRUE) /\ Mirror(c, TRUE) = 0) =>
                 Reach(Leading(r, TRUE), Mirror(c, TRUE), f + 1) =
                     Reach(Leading(r, TRUE), Mirror(c, TRUE), f)
                       + (IF Comes(r, f, TRUE, c) THEN 1 ELSE 0)
      BY <1>1, <3>1, ReachGrows
    <3>4. Leading(r, TRUE) = first
      BY DEF Leading
    <3>5. CASE FirstLayer(r, c)
      <4>1. ~comes
        BY <3>2, <3>3, <3>5 DEF FirstLayer
      <4>2. Fed(r, t, c) = Fed(r, s, c) + 0
        BY <1>2, <1>4, <3>5 DEF Fed
      <4>. QED  BY <4>1, <4>2
    <3>6. CASE ~FirstLayer(r, c)
      <4>1. Fed(r, s, c) = Reach(first, c, f) /\ Fed(r, t, c) = Reach(first, c, f + 1)
        BY <3>1, <3>6 DEF Fed, f
      <4>2. ~ (Leading(r, TRUE) /\ Mirror(c, TRUE) = 0)
        BY <3>2, <3>6 DEF FirstLayer
      <4>3. Reach(first, c, f + 1) = Reach(first, c, f) + (IF comes THEN 1 ELSE 0)
        BY <3>2, <3>3, <3>4, <4>2
      <4>. QED  BY <3>6, <4>1, <4>3
    <3>. QED  BY <3>5, <3>6
  <2>. QED  BY <2>1, <2>2
<1>7. Len(t.input_tensors[c]) = Len(done[c]) + (IF comes THEN 1 ELSE 0)
  <2>1. CASE ~calls_again
    <3>1. t.input_tensors = done /\ Len(done[c]) \in Nat
      BY <1>2, <1>3, <1>5, <2>1
    <3>2. Len(t.input_tensors[c]) = Len(done[c]) + 0
      BY <3>1
    <3>. QED  BY <2>1, <3>2
  <2>2. CASE calls_again
    BY <1>2, <2>2 DEF GrowBy
  <2>. QED  BY <2>1, <2>2
<1>8. Ins(r, t, c) <=> Len(t.input_tensors[c]) = Fed(r, t, c) - Count(e, v + 1)
  BY <1>2 DEF Ins
<1>. HIDE DEF s, t, e, f, x, calls_again, comes, done
<1>9. Len(done[c]) = Fed(r, s, c) - Count(e, v + 1)
  <2>1. CASE x
    BY <1>3, <1>4, <1>5, <2>1
  <2>2. CASE ~x
    BY <1>3, <1>4, <1>5, <2>2
  <2>. QED  BY <2>1, <2>2
<1>10. Len(t.input_tensors[c]) = Fed(r, t, c) - Count(e, v + 1)
  <2>1. CASE comes
    BY <1>4, <1>6, <1>7, <1>9, <2>1
  <2>2. CASE ~comes
    BY <1>4, <1>6, <1>7, <1>9, <2>2
  <2>. QED  BY <2>1, <2>2
<1>. QED  BY <1>8, <1>10 DEF t

\* The inputs of a chunk are kept from their arrival to their backward pass.
LEMMA InsStay ==
  ASSUME Positions, NEW r \in Stages, Step(r), NEW c \in Chunks,
         Ins(r, stage[r], c), Outs(r, stage[r], c)
  PROVE  Ins(r, stage'[r], c)
<1>1. CASE \E v \in 0 .. Total - 1, calling \in BOOLEAN : ForwardMove(r, v, calling)
  BY <1>1, ForwardIns
<1>2. CASE \E v \in 0 .. Total - 1 : BackwardMove(r, v)
  BY <1>2, BackwardIns
<1>3. CASE QuietMove(r) /\ stage[r].at # "begin"
  BY <1>3 DEF QuietMove, Ins, Fed, Released
<1>4. CASE QuietMove(r) /\ stage[r].at = "begin"
  <2>. DEFINE t == stage'[r]
  <2>1. /\ Forwarded(r, t) = 0 /\ Backwarded(r, t) = 0 /\ Called(r, t) = 0 /\ t.at # "begin"
        /\ c # 0 => t.input_tensors[c] = stage[r].input_tensors[c]
        /\ Len(t.input_tensors[0]) = 1
    <3>1. Forwarded(r, stage[r]) = 0 /\ Backwarded(r, stage[r]) = 0
      BY <1>4, Ranges
    <3>2. Called(r, stage[r]) = 0
      BY <1>4, <3>1 DEF Called
    <3>. QED  BY <1>4, <3>1, <3>2 DEF QuietMove
  <2>2. Len(t.input_tensors[c]) = IF c = 0 THEN 1 ELSE 0
    BY <1>4, <2>1 DEF Ins
  <2>3. Count(0, 0) = 0 /\ Count(V - 1 - c, 0) = 0
    BY CountNext
  <2>4. Fed(r, t, c) = IF c = 0 THEN 1 ELSE 0
    <3>1. CASE FirstLayer(r, c)
      BY <2>1, <2>3, <3>1 DEF Fed, FirstLayer, MaxOf
    <3>2. CASE ~FirstLayer(r, c)
      <4>1. Known /\ is_pp_first_stage(r) \in BOOLEAN
        BY DEF Positions, TypeInv, is_pp_first_stage
      <4>2. ~ (is_pp_first_stage(r) /\ c = 0)
        BY <3>2 DEF FirstLayer
      <4>3. Fed(r, t, c) = Reach(is_pp_first_stage(r), c, 0)
        BY <2>1, <3>2 DEF Fed
      <4>4. Reach(is_pp_first_stage(r), c, 0) = IF ~is_pp_first_stage(r) /\ c = 0 THEN 1 ELSE 0
        BY <4>1, <4>2, ReachAtFirst
      <4>. QED  BY <4>2, <4>3, <4>4
    <3>. QED  BY <3>1, <3>2
  <2>5. Released(r, t, c) = 0
    BY <2>1, <2>3 DEF Released
  <2>. HIDE DEF t
  <2>6. Ins(r, t, c)
    BY <2>1, <2>2, <2>4, <2>5 DEF Ins
  <2>. QED  BY <2>6 DEF t
<1>5. CASE FlushMove(r)
  BY <1>5 DEF FlushMove, Ins, Fed, Released
<1>. QED  BY <1>1, <1>2, <1>3, <1>4, <1>5, Moves

\* Before the call for the first gradient there is no backward pass.
LEMMA NotOpened ==
  ASSUME Positions, NEW r \in Stages, ~layout.forward_only, ~Opened(r, stage[r])
  PROVE  Backwarded(r, stage[r]) = 0
<1>. DEFINE s == stage[r]
            w == num_warmup_microbatches(r)
<1>1. /\ Known /\ IsLocals(s) /\ InPlace(r, s)
  BY DEF Positions, TypeInv
<1>2. Total \in Nat /\ w \in Nat /\ w <= Total
  BY <1>1, LegalLayout, Warmup DEF Known
<1>3. s.at \in Places
  BY <1>1 DEF IsLocals
<1>. HIDE DEF s, w
<1>4. s.at \in {"begin", "warmup", "warmup_forward", "warmup_backward"} \/ (s.at = "turn" /\ ~ (w < Total))
  BY <1>3 DEF Opened, Places, s, w
<1>5. CASE s.at \in {"begin", "warmup", "warmup_forward", "warmup_backward"}
  BY <1>5 DEF Backwarded, s
<1>6. CASE s.at = "turn" /\ ~ (w < Total)
  <2>1. Total - w = 0
    BY <1>2, <1>6
  <2>. QED  BY <1>6, <2>1 DEF Backwarded, s, w
<1>. QED  BY <1>4, <1>5, <1>6

\* The call for the first gradient: one for the last chunk.
LEMMA GradsOpen ==
  ASSUME Positions, NEW r \in Stages, NEW t, Opened(r, t), ~Opened(r, stage[r]),
         Backwarded(r, t) = Backwarded(r, stage[r]),
         \A d \in Chunks : Grads(r, stage[r], d),
         \A d \in Chunks : d # V - 1 => t.output_tensor_grads[d] = stage[r].output_tensor_grads[d],
         Len(t.output_tensor_grads[V - 1]) <= 1 + Len(stage[r].output_tensor_grads[V - 1]),
         NEW c \in Chunks
  PROVE  Grads(r, t, c)
<1>. DEFINE last == is_pp_last_stage(r)
<1>1. /\ Known /\ TypeInv /\ V \in Nat /\ 1 < V /\ Chunks = 0 .. V - 1 /\ last \in BOOLEAN
  BY LegalLayout DEF Positions, TypeInv, Known, is_pp_last_stage
<1>2. Backwarded(r, t) = 0
  BY NotOpened DEF Opened
<1>3. \A d \in Chunks : Len(stage[r].output_tensor_grads[d]) = 0
  <2>. TAKE d \in Chunks
  <2>1. Len(stage[r].output_tensor_grads[d]) <= 0
    BY DEF Grads, FedBack
  <2>2. Len(stage[r].output_tensor_grads[d]) \in Nat
    BY <1>1, ListTypes
  <2>. QED  BY <2>1, <2>2
<1>4. CASE LastLayer(r, c)
  <2>1. c = V - 1 /\ FedBack(r, t, c) = 1
    BY <1>4 DEF FedBack, LastLayer
  <2>. QED  BY <1>1, <1>3, <2>1 DEF Grads
<1>5. CASE ~LastLayer(r, c)
  <2>. DEFINE e == V - 1 - c
  <2>1. e \in Chunks /\ (e = 0 <=> c = V - 1)
    BY <1>1
  <2>2. ~ (last /\ e = 0)
    BY <1>5, <2>1 DEF LastLayer
  <2>3. FedBack(r, t, c) = Reach(last, e, 0)
    BY <1>2, <1>5 DEF FedBack
  <2>. HIDE DEF e, last
  <2>4. Reach(last, e, 0) = IF ~last /\ e = 0 THEN 1 ELSE 0
    BY <1>1, <2>1, <2>2, ReachAtFirst
  <2>5. CASE c = V - 1
    <3>1. FedBack(r, t, c) = 1
      BY <2>1, <2>2, <2>3, <2>4, <2>5
    <3>. QED  BY <1>1, <1>3, <2>5, <3>1 DEF Grads
  <2>6. CASE c # V - 1
    <3>1. FedBack(r, t, c) = 0
      BY <2>1, <2>3, <2>4, <2>6
    <3>2. Len(t.output_tensor_grads[c]) = 0
      BY <1>3, <2>6
    <3>. QED  BY <3>1, <3>2 DEF Grads
  <2>. QED  BY <2>5, <2>6
<1>. QED  BY <1>4, <1>5

\* A backward pass takes a gradient, and its call brings the next.
LEMMA BackwardGrads ==
  ASSUME Positions, NEW r \in Stages, NEW v \in 0 .. Total - 1, BackwardMove(r, v),
         NEW c \in Chunks, Grads(r, stage[r], c)
  PROVE  Grads(r, stage'[r], c)
<1>. DEFINE s    == stage[r]
            t    == stage'[r]
            e    == V - 1 - c
            last == is_pp_last_stage(r)
            comes == ReceivesBackward(r, v) /\ c = PeerSends(r, v, FALSE).chunk
            done == AfterBackward(s, r, v).output_tensor_grads
<1>1. /\ TypeInv /\ Known /\ V \in Nat /\ Total \in Nat /\ Chunks = 0 .. V - 1
      /\ v \in Nat /\ v + 1 \in 0 .. Total /\ e \in Chunks /\ last \in BOOLEAN
  BY LegalLayout, SMTT(30) DEF Positions, TypeInv, Known, is_pp_last_stage
<1>2. /\ Opened(r, s) /\ Opened(r, t) /\ Backwarded(r, s) = v /\ Backwarded(r, t) = v + 1
      /\ GrowBy(done, t.output_tensor_grads, PeerSends(r, v, FALSE).chunk, ReceivesBackward(r, v))
  BY DEF BackwardMove
<1>3. Len(done[c]) <= Len(s.output_tensor_grads[c]) /\ Len(done[c]) \in Nat
      /\ Len(s.output_tensor_grads[c]) \in Nat
  <2>. DEFINE d     == V - 1 - Entry(v).chunk
              grads == s.output_tensor_grads
  <2>1. BackwardLocals(s, AfterBackward(s, r, v), r, v)
    BY <1>1, AfterBackwardType DEF TypeInv
  <2>2. d \in Chunks /\ done = [grads EXCEPT ![d] = Rest(grads[d])]
    BY <2>1 DEF BackwardLocals
  <2>3. grads \in [Chunks -> Seq(Buffers)]
    BY <1>1, ListTypes
  <2>. HIDE DEF d, grads, done
  <2>4. /\ Len(grads[c]) \in Nat
        /\ Len([grads EXCEPT ![d] = Rest(grads[d])][c]) =
              IF c = d /\ Len(grads[c]) # 0 THEN Len(grads[c]) - 1 ELSE Len(grads[c])
    BY <2>2, <2>3, RestLength
  <2>5. Len(done[c]) <= Len(grads[c]) /\ Len(done[c]) \in Nat /\ Len(grads[c]) \in Nat
    BY <2>2, <2>4
  <2>. QED  BY <2>5 DEF grads
<1>4. Len(t.output_tensor_grads[c]) = Len(done[c]) + (IF comes THEN 1 ELSE 0)
  BY <1>2 DEF GrowBy
<1>5. Len(s.output_tensor_grads[c]) <= FedBack(r, s, c) /\ FedBack(r, s, c) \in Nat
  BY FedBounds DEF Grads
<1>6. FedBack(r, t, c) = FedBack(r, s, c) + (IF comes THEN 1 ELSE 0)
  <2>1. /\ Leading(r, FALSE) = last /\ Mirror(c, FALSE) = e
    BY DEF Leading, Mirror
  <2>2. Comes(r, v, FALSE, c) <=> comes
    BY DEF Comes, ReceivesBackward
  <2>3. /\ Leading(r, FALSE) /\ Mirror(c, FALSE) = 0 => ~Comes(r, v, FALSE, c)
        /\ ~ (Leading(r, FALSE) /\ Mirror(c, FALSE) = 0) =>
               Reach(Leading(r, FALSE), Mirror(c, FALSE), v + 1) =
                   Reach(Leading(r, FALSE), Mirror(c, FALSE), v)
                     + (IF Comes(r, v, FALSE, c) THEN 1 ELSE 0)
    BY <1>1, ReachGrows
  <2>4. LastLayer(r, c) <=> last /\ e = 0
    <3>1. c = V - 1 <=> e = 0
      BY <1>1
    <3>. QED  BY <3>1 DEF LastLayer
  <2>5. FedBack(r, s, c) = IF LastLayer(r, c) THEN 1 ELSE Reach(last, e, v)
    BY <1>2 DEF FedBack
  <2>6. FedBack(r, t, c) = IF LastLayer(r, c) THEN 1 ELSE Reach(last, e, v + 1)
    BY <1>2 DEF FedBack
  <2>. HIDE DEF s, t, e, last, comes
  <2>7. CASE LastLayer(r, c)
    <3>1. ~comes
      BY <2>1, <2>2, <2>3, <2>4, <2>7
    <3>. QED  BY <2>5, <2>6, <2>7, <3>1
  <2>8. CASE ~LastLayer(r, c)
    BY <2>1, <2>2, <2>3, <2>4, <2>5, <2>6, <2>8
  <2>. QED  BY <2>7, <2>8
<1>. HIDE DEF s, t, e, last, comes, done
<1>7. Len(t.output_tensor_grads[c]) <= FedBack(r, t, c)
  <2>1. CASE comes
    BY <1>3, <1>4, <1>5, <1>6, <2>1
  <2>2. CASE ~comes
    BY <1>3, <1>4, <1>5, <1>6, <2>2
  <2>. QED  BY <2>1, <2>2
<1>. QED  BY <1>7 DEF Grads, t

\* A chunk never holds more gradients than have come in for it.
LEMMA GradsStay ==
  ASSUME Positions, NEW r \in Stages, Step(r), \A d \in Chunks : Grads(r, stage[r], d),
         NEW c \in Chunks
  PROVE  Grads(r, stage'[r], c)
<1>. DEFINE s == stage[r]
            t == stage'[r]
<1>1. /\ TypeInv /\ Known /\ V - 1 \in Chunks
      /\ Len(s.output_tensor_grads[V - 1]) \in Nat
  <2>1. TypeInv /\ Known /\ V - 1 \in Chunks
    BY LegalLayout DEF Positions, TypeInv, Known
  <2>. QED  BY <2>1, ListTypes
<1>2. CASE \E v \in 0 .. Total - 1, calling \in BOOLEAN : ForwardMove(r, v, calling)
  <2>1. /\ Backwarded(r, t) = Backwarded(r, s)
        /\ IF Opened(r, t) /\ ~Opened(r, s)
           THEN /\ \A d \in Chunks : d # V - 1 => t.output_tensor_grads[d] = s.output_tensor_grads[d]
                /\ Len(t.output_tensor_grads[V - 1]) = 1
           ELSE t.output_tensor_grads = s.output_tensor_grads /\ (Opened(r, t) <=> Opened(r, s))
    BY <1>2 DEF ForwardMove
  <2>2. CASE Opened(r, t) /\ ~Opened(r, s)
    <3>. DEFINE old == Len(s.output_tensor_grads[V - 1])
    <3>1. Len(t.output_tensor_grads[V - 1]) = 1
      BY <2>1, <2>2
    <3>2. old \in Nat
      BY <1>1
    <3>. HIDE DEF old
    <3>3. Len(t.output_tensor_grads[V - 1]) <= 1 + old
      BY <3>1, <3>2
    <3>. QED  BY <2>1, <2>2, <3>3, GradsOpen DEF old
  <2>3. CASE ~ (Opened(r, t) /\ ~Opened(r, s))
    BY <2>1, <2>3 DEF Grads, FedBack
  <2>. QED  BY <2>2, <2>3
<1>3. CASE \E v \in 0 .. Total - 1 : BackwardMove(r, v)
  BY <1>3, BackwardGrads
<1>4. CASE QuietMove(r)
  <2>1. /\ Backwarded(r, t) = Backwarded(r, s)
        /\ IF Opened(r, t) /\ ~Opened(r, s)
           THEN /\ \A d \in Chunks : d # V - 1 => t.output_tensor_grads[d] = s.output_tensor_grads[d]
                /\ Len(t.output_tensor_grads[V - 1]) <= Len(s.output_tensor_grads[V - 1]) + 1
           ELSE t.output_tensor_grads = s.output_tensor_grads /\ (Opened(r, t) <=> Opened(r, s))
    BY <1>4 DEF QuietMove
  <2>2. CASE Opened(r, t) /\ ~Opened(r, s)
    <3>1. Len(t.output_tensor_grads[V - 1]) <= 1 + Len(s.output_tensor_grads[V - 1])
      BY <1>1, <2>1, <2>2
    <3>. QED  BY <2>1, <2>2, <3>1, GradsOpen
  <2>3. CASE ~ (Opened(r, t) /\ ~Opened(r, s))
    BY <2>1, <2>3 DEF Grads, FedBack
  <2>. QED  BY <2>2, <2>3
<1>5. CASE FlushMove(r)
  BY <1>5 DEF FlushMove, Grads, FedBack
<1>. QED  BY <1>2, <1>3, <1>4, <1>5, Moves

\* The bounds are about the schedule, which never changes.
LEMMA ListsAside ==
  ASSUME layout' = layout, schedule_table' = schedule_table, Known,
         NEW r \in Stages, NEW c \in Chunks
  PROVE  \A s : Lists(r, s, c)' <=> Lists(r, s, c)
<1>. TAKE s
<1>. USE LayoutStays
<1>1. /\ P' = P /\ V' = V /\ M' = M /\ Total' = Total
  OBVIOUS
<1>2. /\ is_pp_first_stage(r)' = is_pp_first_stage(r) /\ is_pp_last_stage(r)' = is_pp_last_stage(r)
      /\ FirstLayer(r, c)' = FirstLayer(r, c) /\ LastLayer(r, c)' = LastLayer(r, c)
  BY <1>1 DEF is_pp_first_stage, is_pp_last_stage, FirstLayer, LastLayer
<1>3. \A d, n : Count(d, n)' = Count(d, n)
  OBVIOUS
<1>4. \A leading, d, n : Reach(leading, d, n)' = Reach(leading, d, n)
  BY <1>1, <1>3 DEF Reach
<1>5. /\ Forwarded(r, s)' = Forwarded(r, s) /\ Backwarded(r, s)' = Backwarded(r, s)
      /\ Called(r, s)' = Called(r, s) /\ (Opened(r, s)' <=> Opened(r, s))
  OBVIOUS
<1>6. Fed(r, s, c)' = Fed(r, s, c)
  BY <1>2, <1>3, <1>4, <1>5 DEF Fed
<1>7. FedBack(r, s, c)' = FedBack(r, s, c)
  BY <1>1, <1>2, <1>4, <1>5 DEF FedBack
<1>8. Released(r, s, c)' = Released(r, s, c)
  BY <1>1, <1>3, <1>5 DEF Released
<1>9. Outs(r, s, c)' <=> Outs(r, s, c)
  BY <1>3, <1>5, <1>8 DEF Outs
<1>10. Ins(r, s, c)' <=> Ins(r, s, c)
  BY <1>6, <1>8 DEF Ins
<1>11. Grads(r, s, c)' <=> Grads(r, s, c)
  BY <1>7 DEF Grads
<1>. QED  BY <1>9, <1>10, <1>11 DEF Lists

\* A step keeps the lists of every stage within their bounds.
LEMMA ListsStay ==
  ASSUME Positions, NEW r \in Stages, Step(r), NEW q \in Stages,
         \A d \in Chunks : Lists(q, stage[q], d), NEW c \in Chunks
  PROVE  Lists(q, stage[q], c)'
<1>1. /\ layout' = layout /\ schedule_table' = schedule_table /\ Known
      /\ q # r => stage'[q] = stage[q]
  BY OthersStay
<1>2. Lists(q, stage'[q], c)
  <2>1. CASE q = r
    <3>1. Outs(r, stage'[r], c)
      BY <2>1, OutsStay DEF Lists
    <3>2. Ins(r, stage'[r], c)
      BY <2>1, InsStay DEF Lists
    <3>3. Grads(r, stage'[r], c)
      BY <2>1, GradsStay DEF Lists
    <3>. QED  BY <2>1, <3>1, <3>2, <3>3 DEF Lists
  <2>2. CASE q # r
    BY <1>1, <2>2
  <2>. QED  BY <2>1, <2>2
<1>3. \A s : Lists(q, s, c)' <=> Lists(q, s, c)
  BY <1>1, ListsAside
<1>. QED  BY <1>2, <1>3

-----------------------------------------------------------------------------
(* The invariant                                                           *)

Inv ==
    /\ Positions
    /\ \A r \in Stages :
          /\ Synced(r)
          /\ \A c \in Chunks : Progress(r, c) /\ Reduced(r, c) /\ Lists(r, stage[r], c)

-----------------------------------------------------------------------------
(* The invariant holds in every state                                      *)

\* The invariant holds at first.
LEMMA InitInv ==
  ASSUME Init
  PROVE  Inv
<1>1. /\ Known /\ P \in Nat /\ V \in Nat /\ Total \in Nat
      /\ Chunks = 0 .. V - 1 /\ Stages = 0 .. P - 1
  <2>1. Known
    BY DEF Init, Known
  <2>. QED  BY <2>1, LegalLayout DEF Known, Stages
<1>2. \A r \in Stages : stage[r] = NewStage
  BY DEF Init
<1>3. NewStage.at = "begin" /\ NewStage.k = 0 /\ NewStage.synchronized = {}
      /\ NewStage.param_synced = {0, 1}
  BY DEF NewStage
<1>4. IsLocals(NewStage)
  <2>1. None \in Buffers
    BY DEF Buffers
  <2>2. [c \in Chunks |-> <<>>] \in [Chunks -> Seq(Buffers)]
        /\ [c \in Chunks |-> <<>>] \in [Chunks -> Seq(Outputs)]
    OBVIOUS
  <2>. QED  BY <1>1, <2>1, <2>2 DEF NewStage, IsLocals, Places
<1>5. \A r : InPlace(r, NewStage)
  BY <1>3 DEF InPlace
<1>6. \A r \in Stages : /\ Forwarded(r, stage[r]) = 0 /\ Backwarded(r, stage[r]) = 0
                        /\ stage[r].at = "begin"
  BY <1>2, <1>3 DEF Forwarded, Backwarded
<1>. HIDE DEF NewStage
<1>7. TypeInv
  <2>1. /\ calls \in [Stages -> Nat] /\ stage = [r \in Stages |-> stage[r]]
        /\ forwards \in [Layers -> Seq(0 .. M)] /\ backwards \in [Layers -> Seq(0 .. M)]
        /\ reductions \in [Layers -> Seq(Nat)]
    BY DEF Init, P2PInit
  <2>. QED  BY <1>1, <1>2, <1>4, <2>1 DEF TypeInv
<1>8. Positions
  BY <1>2, <1>5, <1>7 DEF Positions
<1>9. ASSUME NEW r \in Stages PROVE Synced(r)
  <2>1. {0, 1} \subseteq stage[r].param_synced
    BY <1>2, <1>3
  <2>2. \A c \in 2 .. V - 1 : ~ (0 > (c - 1) * N - r)
    <3>. TAKE c \in 2 .. V - 1
    <3>. DEFINE u == (c - 1) * N
    <3>1. u \in Nat /\ N <= u /\ r \in Nat /\ r < N /\ N \in Nat
      BY <1>1, FirstOfChunk, LegalLayout DEF Known
    <3>. HIDE DEF u
    <3>2. ~ (0 > u - r)
      BY <3>1
    <3>. QED  BY <3>2 DEF u
  <2>. QED  BY <1>6, <2>1, <2>2 DEF Synced
<1>10. ASSUME NEW r \in Stages, NEW c \in Chunks PROVE Progress(r, c) /\ Reduced(r, c)
  <2>1. /\ Layer(r, c) \in Layers
        /\ forwards[Layer(r, c)] = <<>> /\ backwards[Layer(r, c)] = <<>>
        /\ reductions[Layer(r, c)] = <<>>
    <3>1. Layer(r, c) \in Layers
      BY <1>1, LayersApart
    <3>. QED  BY <3>1 DEF Init
  <2>2. Count(c, 0) = 0 /\ Count(V - 1 - c, 0) = 0 /\ M # 0
    BY <1>1, CountNext, LegalLayout DEF Known
  <2>3. Progress(r, c)
    BY <1>6, <2>1, <2>2 DEF Progress
  <2>4. ~Due(r, stage[r], c)
    <3>1. r \in Nat /\ (0 >= r => 0 - r = 0)
      BY <1>1
    <3>2. ~ (0 >= r /\ Count(V - 1 - c, 0 - r) = M)
      BY <2>2, <3>1
    <3>. QED  BY <1>6, <2>2, <3>2 DEF Due
  <2>. QED  BY <1>2, <1>3, <2>1, <2>3, <2>4 DEF Reduced
<1>11. ASSUME NEW r \in Stages, NEW c \in Chunks PROVE Lists(r, stage[r], c)
  <2>1. /\ Len(stage[r].input_tensors[c]) = 0 /\ Len(stage[r].output_tensors[c]) = 0
        /\ Len(stage[r].output_tensor_grads[c]) = 0
    BY <1>2 DEF NewStage
  <2>2. Count(c, 0) = 0 /\ Count(V - 1 - c, 0) = 0
    BY CountNext
  <2>3. ~Opened(r, stage[r])
    BY <1>6 DEF Opened
  <2>4. Outs(r, stage[r], c)
    BY <1>6, <2>1, <2>2 DEF Outs, Released
  <2>5. Ins(r, stage[r], c)
    BY <1>6, <2>1 DEF Ins
  <2>6. Grads(r, stage[r], c)
    BY <2>1, <2>3 DEF Grads, FedBack
  <2>. QED  BY <2>4, <2>5, <2>6 DEF Lists
<1>. QED  BY <1>8, <1>9, <1>10, <1>11 DEF Inv

\* Nothing in the invariant is about what is under way between the stages.
LEMMA InvAside ==
  ASSUME Inv, UNCHANGED <<layout, calls, schedule_table, stage, passes>>
  PROVE  Inv'
<1>1. /\ layout' = layout /\ schedule_table' = schedule_table /\ calls' = calls /\ stage' = stage
      /\ forwards' = forwards /\ backwards' = backwards /\ reductions' = reductions
  BY DEF passes
<1>2. Positions'
  BY <1>1, LayoutStays DEF Inv, Positions, TypeInv
<1>3. ASSUME NEW r \in Stages PROVE Synced(r)'
  BY <1>1, LayoutStays DEF Inv, Synced
<1>4. ASSUME NEW r \in Stages, NEW c \in Chunks PROVE Progress(r, c)' /\ Reduced(r, c)'
  <2>1. Progress(r, c) /\ Reduced(r, c)
    BY DEF Inv
  <2>2. Due(r, stage[r], c)' <=> Due(r, stage[r], c)
    BY <1>1, LayoutStays DEF Due
  <2>3. Progress(r, c)'
    BY <1>1, <2>1, LayoutStays DEF Progress
  <2>. QED  BY <1>1, <2>1, <2>2, <2>3, LayoutStays DEF Reduced
<1>5. ASSUME NEW r \in Stages, NEW c \in Chunks PROVE Lists(r, stage[r], c)'
  <2>1. Known /\ Lists(r, stage[r], c)
    BY DEF Inv, Positions, TypeInv
  <2>2. \A s : Lists(r, s, c)' <=> Lists(r, s, c)
    BY <1>1, <2>1, ListsAside
  <2>. QED  BY <1>1, <2>1, <2>2
<1>6. Stages' = Stages /\ Chunks' = Chunks
  BY <1>1, LayoutStays
<1>. QED  BY <1>2, <1>3, <1>4, <1>5, <1>6 DEF Inv

\* The invariant is kept by every step of a stage, every delivery and the end.
LEMMA InvStays ==
  ASSUME Inv, [Next]_vars
  PROVE  Inv'
<1>1. CASE \E r \in Stages : Step(r)
  <2>1. PICK r \in Stages : Step(r)
    BY <1>1
  <2>2. Positions /\ Positions' /\ Stages' = Stages /\ Chunks' = Chunks
    <3>1. Positions
      BY DEF Inv
    <3>2. Positions'
      BY <2>1, <3>1, PositionsStay
    <3>3. layout' = layout /\ schedule_table' = schedule_table
      BY <2>1, <3>1, OthersStay
    <3>. QED  BY <3>1, <3>2, <3>3, LayoutStays
  <2>3. ASSUME NEW q \in Stages PROVE Synced(q)'
    BY <2>1, <2>2, SyncedStays DEF Inv
  <2>4. ASSUME NEW q \in Stages, NEW c \in Chunks PROVE Progress(q, c)' /\ Reduced(q, c)'
    <3>1. Progress(q, c) /\ Reduced(q, c)
      BY DEF Inv
    <3>2. Progress(q, c)'
      BY <2>1, <2>2, <3>1, ProgressStays
    <3>. QED  BY <2>1, <2>2, <3>1, <3>2, ReducedStays
  <2>5. ASSUME NEW q \in Stages, NEW c \in Chunks PROVE Lists(q, stage[q], c)'
    <3>1. \A d \in Chunks : Lists(q, stage[q], d)
      BY DEF Inv
    <3>. QED  BY <2>1, <2>2, <3>1, ListsStay
  <2>. QED  BY <2>2, <2>3, <2>4, <2>5 DEF Inv
<1>2. CASE \E r, q \in Stages : Deliver(r, q)
  BY <1>2, InvAside DEF Deliver
<1>3. CASE UNCHANGED vars
  BY <1>3, InvAside DEF vars, passes
<1>. QED  BY <1>1, <1>2, <1>3 DEF Next, Return

\* The invariant holds throughout.
LEMMA InvHolds == Spec => []Inv
<1>1. Init => Inv
  BY InitInv
<1>2. Inv /\ [Next]_vars => Inv'
  BY InvStays
<1>. QED  BY <1>1, <1>2, PTL DEF Spec

-----------------------------------------------------------------------------
(* What follows                                                            *)

\* In pipelines of any number of stages, chunks and microbatches, in every mode of
\* communication, with and without a grad_sync_func: the gradients of a layer are
\* reduced once, with every microbatch in them, by the time the schedule is over.
THEOREM ReducedOnce == Spec => []GradientsReducedOnce
<1>1. ASSUME Inv PROVE GradientsReducedOnce
  <2>. SUFFICES ASSUME NEW r \in Stages, NEW c \in Chunks
                PROVE  /\ reductions[Layer(r, c)] \in {<<>>, <<M>>}
                       /\ stage[r].at = "done" /\ ~layout.forward_only =>
                             reductions[Layer(r, c)] = <<M>>
    BY DEF GradientsReducedOnce
  <2>1. Known /\ reductions[Layer(r, c)] = IF Due(r, stage[r], c) THEN <<M>> ELSE <<>>
    BY <1>1 DEF Inv, Positions, TypeInv, Reduced
  <2>2. stage[r].at = "done" /\ ~layout.forward_only => Due(r, stage[r], c)
    <3>1. V - 1 - c \in Chunks
      BY <2>1, LegalLayout DEF Known
    <3>2. Count(V - 1 - c, Total) = M
      BY <2>1, <3>1, TableFacts
    <3>3. stage[r].at = "done" /\ ~layout.forward_only => Backwarded(r, stage[r]) = Total
      BY DEF Backwarded
    <3>. QED  BY <3>2, <3>3 DEF Due
  <2>. QED  BY <2>1, <2>2
<1>. QED  BY <1>1, InvHolds, PTL

\* In all these pipelines, with a param_sync_func the gathering of the parameters
\* of a chunk is launched on every stage before the first forward pass through it.
THEOREM SyncedBeforeUse == Spec => []ParamsSyncedBeforeUse
<1>1. ASSUME Inv PROVE ParamsSyncedBeforeUse
  <2>. SUFFICES ASSUME layout.param_sync_func, NEW r \in Stages, NEW c \in Chunks,
                       forwards[Layer(r, c)] # <<>>
                PROVE  c \in stage[r].param_synced
    BY DEF ParamsSyncedBeforeUse
  <2>. DEFINE f == Forwarded(r, stage[r])
  <2>1. /\ Known /\ Positions /\ Chunks = 0 .. V - 1 /\ V \in Nat /\ Total \in Nat
    BY <1>1, LegalLayout DEF Inv, Positions, TypeInv, Known
  <2>2. Count(c, f) # 0 /\ f \in Nat
    <3>1. Len(forwards[Layer(r, c)]) = Count(c, f)
      BY <1>1 DEF Inv, Progress
    <3>2. Layer(r, c) \in Layers /\ forwards[Layer(r, c)] \in Seq(0 .. M)
      BY <2>1, LayersApart DEF Positions, TypeInv
    <3>3. f \in Nat
      BY <2>1, Ranges
    <3>. HIDE DEF f
    <3>4. Len(forwards[Layer(r, c)]) # 0
      BY <3>2
    <3>. QED  BY <3>1, <3>3, <3>4
  <2>3. /\ {0, 1} \subseteq stage[r].param_synced
        /\ \A d \in 2 .. V - 1 : f > (d - 1) * N - r => d \in stage[r].param_synced
    BY <1>1 DEF Inv, Synced
  <2>. HIDE DEF f
  <2>4. CASE c \in {0, 1}
    BY <2>3, <2>4
  <2>5. CASE c \in 2 .. V - 1
    <3>1. /\ (c - 1) * N \in Nat /\ c * N \in Nat /\ (c - 1) * N <= c * N /\ r \in Nat
      BY <2>1, <2>5, FirstOfChunk
    <3>2. f > c * N
      <4>1. Count(c, c * N) = 0
        BY <2>1, TableFacts
      <4>2. Count(c, f) \in Nat
        BY <2>2, CountNext
      <4>3. f <= c * N => Count(c, f) <= 0
        BY <2>2, <3>1, <4>1, CountGrows
      <4>. QED  BY <2>2, <3>1, <4>2, <4>3
    <3>. DEFINE u == (c - 1) * N
                x == c * N
    <3>3. u \in Nat /\ x \in Nat /\ u <= x /\ f > x
      BY <3>1, <3>2
    <3>4. f > u - r => c \in stage[r].param_synced
      BY <2>3, <2>5
    <3>. HIDE DEF u, x
    <3>. QED  BY <2>2, <3>1, <3>3, <3>4
  <2>. QED  BY <2>1, <2>4, <2>5
<1>. QED  BY <1>1, InvHolds, PTL

\* In all these pipelines a chunk never holds more inputs or gradients than there
\* are microbatches, nor an output without the input that it was made from: what
\* neighbours send, and the passes of the stage itself, stay in step.
THEOREM TypeCorrect == Spec => []TypeOK
<1>1. ASSUME Inv PROVE TypeOK
  <2>1. /\ TypeInv /\ Positions /\ Known /\ M \in Nat /\ layout.forward_only \in BOOLEAN
    BY <1>1, LegalLayout DEF Inv, Positions, TypeInv, Known
  <2>2. ASSUME NEW r \in Stages
        PROVE  stage[r].at \in Places /\ stage[r].k \in 0 .. Total
    BY <2>1 DEF TypeInv, IsLocals
  <2>3. ASSUME NEW r \in Stages, NEW c \in Chunks
        PROVE  /\ Len(stage[r].input_tensors[c]) <= M
               /\ Len(stage[r].output_tensors[c]) <= Len(stage[r].input_tensors[c])
               /\ Len(stage[r].output_tensor_grads[c]) <= M
    <3>. DEFINE ins   == Len(stage[r].input_tensors[c])
                outs  == Len(stage[r].output_tensors[c])
                grads == Len(stage[r].output_tensor_grads[c])
                fed   == Fed(r, stage[r], c)
                back  == FedBack(r, stage[r], c)
                rel   == Released(r, stage[r], c)
                count == Count(c, Forwarded(r, stage[r]))
    <3>1. /\ fed \in Nat /\ fed <= M /\ count <= fed
          /\ back \in Nat /\ back <= M /\ rel \in Nat /\ count \in Nat
      BY <2>1, FedBounds
    <3>2. ins \in Nat /\ outs \in Nat /\ grads \in Nat
      BY <2>1, ListTypes
    <3>3. /\ outs = IF layout.forward_only THEN 0 ELSE count - rel
          /\ IF stage[r].at = "begin" THEN ins = 0
             ELSE IF layout.forward_only THEN ins <= fed ELSE ins = fed - rel
          /\ grads <= back
      BY <1>1 DEF Inv, Lists, Outs, Ins, Grads
    <3>4. stage[r].at = "begin" => count = 0 /\ rel = 0
      <4>1. stage[r].at = "begin" => Forwarded(r, stage[r]) = 0 /\ Backwarded(r, stage[r]) = 0
        BY <2>1, Ranges
      <4>2. Count(c, 0) = 0 /\ Count(V - 1 - c, 0) = 0
        BY CountNext
      <4>. QED  BY <4>1, <4>2 DEF Released
    <3>. HIDE DEF ins, outs, grads, fed, back, rel, count
    <3>5. ins <= M /\ outs <= ins /\ grads <= M
      <4>1. CASE stage[r].at = "begin"
        BY <2>1, <3>1, <3>2, <3>3, <3>4, <4>1
      <4>2. CASE stage[r].at # "begin" /\ layout.forward_only
        BY <2>1, <3>1, <3>2, <3>3, <4>2
      <4>3. CASE stage[r].at # "begin" /\ ~layout.forward_only
        BY <2>1, <3>1, <3>2, <3>3, <4>3
      <4>. QED  BY <4>1, <4>2, <4>3
    <3>. QED  BY <3>5 DEF ins, outs, grads
  <2>. QED  BY <2>1, <2>2, <2>3 DEF TypeOK, TypeInv, Known
<1>. QED  BY <1>1, InvHolds, PTL
=============================================================================
